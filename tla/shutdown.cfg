CONSTANTS
  q1 = q1
  q2 = q2
  q3 = q3
  r1 = r1
  r2 = r2
  r3 = r3
  r4 = r4
  Null = Null
  Queue = {q1}
  Req = {r1}
  Capacity = 2
SPECIFICATION FairSpec
CHECK_DEADLOCK FALSE
PROPERTY DestroyReturns
