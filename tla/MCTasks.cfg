CONSTANTS
  NPins = 2
  Reload = 2
  CntMod = 4
  FromSize = 2
  ToSize = 2
  Retries = 2
  Commands = {"query", "selftest", "diskb", "enakb", "cmdbyte", "bad"}
  Data = {"zero", "id", "en", "disdef", "resend"}
  MaxWrites = 2
  MaxExtra = 1
  MaxKeys = 1
  DetachDebounce = 1
  PinDebounce = 1
  ErrLimit = 1
  ReactLimit = 1
  ReactEvery = 2
  RespLimit = 0
  DisableEvery = 0
  AbsentEvery = 0
  MaxLost = 1
  QueueSize = 2
  MaxEvents = 3
  MaxResets = 1
  Ms = TRUE
  Keys = {"a", "p", "e", "d"}
  KeyKind <- Kind
  FnKind <- Layer
  LockKey = "e"
  TypematicBytes = {11, 43}
SPECIFICATION TasksSpec
INVARIANTS NothingMissed NoVoteWhileDebouncing NoWakeupLost InOrder NoByteTwice NoKeysWhileDisabled DisabledMeansOff RepeatsOnlyHeld
PROPERTIES Delivered EventsDelivered NeverBlocks RemovalStopsCharging
CHECK_DEADLOCK FALSE
