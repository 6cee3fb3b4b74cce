CONSTANTS
  Keys = {"a", "p", "e", "d"}
  KeyKind <- Kind
  FnKind <- Layer
  LockKey = "e"
  TypematicBytes = {11, 43}
SPECIFICATION MatrixSpec
INVARIANTS DelayAsWritten
