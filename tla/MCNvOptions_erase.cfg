CONSTANTS
  NONE = NONE
  Values = {v0, v1, v2}
  Default = v0
  Shell = FALSE
  LossWhileErased = TRUE
  FlashErrors = FALSE
SPECIFICATION Spec
INVARIANT KeepsACopy
