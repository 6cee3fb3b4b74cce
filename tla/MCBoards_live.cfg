CONSTANTS
  BoardDorne = FALSE
  MemPMIC = FALSE
  IsPEO = FALSE
  SlpVwires = FALSE
  VrReads = {TRUE, FALSE}
  AcReads = {TRUE}
  PgReads = {TRUE}
  SlpWaitLimit = 1
  S5ToG3Delay = 1
  VrRetries = 1
  Requesters = {"thermtrip"}
SPECIFICATION LiveSpec
PROPERTIES PowerReturns S0EntryResolves ForceG3Honoured
