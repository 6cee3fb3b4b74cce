CONSTANTS
  NONE = NONE
  Values = {v0, v1}
  Default = v0
  Shell = TRUE
  LossWhileErased = TRUE
  FlashErrors = TRUE
  HasFpr = TRUE
  Races = TRUE
  StageYields = TRUE
  Overruled = TRUE
  S0Settle = 1
  CntMod = 3
SPECIFICATION FaultsSpec
INVARIANTS NeverInvented EcResetOnlyHeld CleanRelease ClickOrSlide
