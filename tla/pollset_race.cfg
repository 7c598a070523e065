CONSTANTS
  SzSzmsg = 2
  SzMsgid = 1
  MaxSize = 1
  MaxCall = 1
  NetCap = 3
  Faulty = {"srv"}
SPECIFICATION Spec
CHECK_DEADLOCK FALSE
INVARIANT NoPollsetAbort
