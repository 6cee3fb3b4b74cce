CONSTANTS
  BoardDorne = FALSE
  MemPMIC = FALSE
  IsPEO = FALSE
  SlpVwires = FALSE
  VrReads = {FALSE}
  AcReads = {TRUE, FALSE}
  PgReads = {TRUE}
  SlpWaitLimit = 1
  S5ToG3Delay = 1
  VrRetries = 1
  Requesters = {"button"}
SPECIFICATION Spec
INVARIANT S5RailsReady
