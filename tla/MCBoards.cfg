CONSTANTS
  BoardDorne = FALSE
  MemPMIC = TRUE
  IsPEO = FALSE
  SlpVwires = FALSE
  VrReads = {TRUE, FALSE}
  AcReads = {TRUE, FALSE}
  PgReads = {TRUE, FALSE}
  SlpWaitLimit = 1
  S5ToG3Delay = 2
  VrRetries = 1
  Requesters = {"thermtrip", "hotbag", "usbc", "manos", "button", "longpress", "nvoption", "debug"}
SPECIFICATION BoardsSpec
INVARIANTS RailOrder RunRailOrder PowerDownOrder NoSleepWhilePending S0Settled G3Settled S0Awake DorneOrder
PROPERTY StateEntryHandled
