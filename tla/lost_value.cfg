CONSTANTS
  n1 = n1
  n2 = n2
  n3 = n3
  NULL = NULL
  Config <- MCConfig
  Committer = n2
  Requests <- MCRequests
  NextSlots <- MCNextSlots
  MaxRequest = 2
SPECIFICATION Spec
CHECK_DEADLOCK FALSE
INVARIANT DecidedValueIsStored
