CONSTANTS
  n1 = n1
  n2 = n2
  n3 = n3
  Node = {n1, n2, n3}
  Proposer = {n1, n2}
  Faulty = {n1, n2, n3}
  MaxReq = 3
  ForgetLag = 1
  NoProp = NoProp
SPECIFICATION Spec
CHECK_DEADLOCK FALSE
INVARIANTS SlotsConsecutive ForgottenInv DecidedIsHeld PropMaxIsNull NoDuplicateReply
PROPERTY AcceptorMemory
