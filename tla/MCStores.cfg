CONSTANTS
  NONE = NONE
  Values = {v0, v1, v2}
  Default = v0
  Shell = FALSE
  LossWhileErased = FALSE
  FlashErrors = FALSE
  Kdv = {"d256", "d384"}
  RootKeys = {"k1", "k2"}
  KeyData = {"n1"}
  KeyCells = 3
  MaxCount = 3
  NoKey = "none"
  Cells = 2
  ValueMod = 3
  CycleMod = 12
  WrapOffset = 4
  LossWhileBare = FALSE
  QueueSize = 2
  FragMax = 2
  ReplyLengths = {1, 2, 4, 11}
  MaxFrags = 3
  MaxMsgs = 2
  MaxSends = 1
SPECIFICATION StoresSpec
INVARIANTS WritesErased CacheStored MissionKeyKept AckedIncreaseKept Durable RequestsAccepted WholeMessages
PROPERTIES CounterMonotonic OneLedger AtomicSave ResetKeepsOptions OptionsReachFlash
CHECK_DEADLOCK FALSE
