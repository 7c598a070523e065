CONSTANTS
  n1 = n1
  n2 = n2
  n3 = n3
  Node = {n1, n2, n3}
  Proposer = {n1, n2}
  Faulty = {}
  MaxReq = 1
  ForgetLag = 10
  NoProp = NoProp
SPECIFICATION Spec
CHECK_DEADLOCK FALSE
INVARIANT NoUndefinedBid
