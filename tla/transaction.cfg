CONSTANTS
  n1 = n1
  n2 = n2
  n3 = n3
  NULL = NULL
  Config <- MCConfig
  Committer = n2
  Requests <- MCRequests
  NextSlots <- MCNextSlots
  MaxRequest = 2
SPECIFICATION FairSpec
CHECK_DEADLOCK FALSE
INVARIANTS TypeOK StartedReachesAll AnySharesDecode RequestsInv DecidedRoundIsHeld SlotUsedOnce
PROPERTIES WireRoundTrip OnlySeveralGroupsAbort EventuallyStarted EventuallyDecided
