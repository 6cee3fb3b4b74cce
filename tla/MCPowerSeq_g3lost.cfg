CONSTANTS
  BoardDorne = FALSE
  MemPMIC = FALSE
  IsPEO = FALSE
  SlpVwires = FALSE
  VrReads = {FALSE}
  AcReads = {FALSE}
  PgReads = {TRUE}
  SlpWaitLimit = 1
  S5ToG3Delay = 1
  VrRetries = 1
  Requesters = {"hotbag"}
SPECIFICATION FairSpec
PROPERTY ForceG3NotLost
