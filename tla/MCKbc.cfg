CONSTANTS
  FromSize = 2
  ToSize = 2
  Retries = 1
  Commands = {"query", "selftest", "diskb", "enakb", "cmdbyte", "bad"}
  Data = {"zero", "id", "en", "disdef", "resend"}
  MaxWrites = 2
  MaxExtra = 0
  MaxKeys = 2
SPECIFICATION KbcSpec
PROPERTIES RepeatsKept
CHECK_DEADLOCK FALSE
