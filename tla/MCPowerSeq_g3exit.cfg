CONSTANTS
  BoardDorne = FALSE
  MemPMIC = FALSE
  IsPEO = FALSE
  SlpVwires = FALSE
  VrReads = {FALSE}
  AcReads = {TRUE}
  PgReads = {TRUE}
  SlpWaitLimit = 1
  S5ToG3Delay = 1
  VrRetries = 1
  Requesters = {"thermtrip"}
SPECIFICATION FairSpec
PROPERTY ForceG3Recovers
