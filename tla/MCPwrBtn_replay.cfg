CONSTANTS
  HasFpr = FALSE
  Races = FALSE
  StageYields = FALSE
  Overruled = FALSE
  S0Settle = 1
  CntMod = 4
SPECIFICATION ButtonSpec
INVARIANTS ReleasedMeansHigh
