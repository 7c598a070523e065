CONSTANTS
  SzSzmsg = 2
  SzMsgid = 1
  MaxSize = 2
  MaxCall = 2
  NetCap = 3
  Faulty = {"cli", "srv"}
SPECIFICATION FairSpec
CHECK_DEADLOCK FALSE
INVARIANTS TypeOK DeliversInOrder OutputIsPolled
PROPERTIES EventuallyAnswered DeathNoticed
