CONSTANTS
  n1 = n1
  n2 = n2
  n3 = n3
  Node = {n1, n2, n3}
  Proposer = {n1}
  Faulty = {n3}
  MaxReq = 3
  ForgetLag = 1
  NoProp = NoProp
SPECIFICATION FairSpec
CHECK_DEADLOCK FALSE
PROPERTIES EventuallyCalledBack
  ImplementsLog
