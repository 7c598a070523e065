CONSTANTS
  q1 = q1
  q2 = q2
  q3 = q3
  r1 = r1
  r2 = r2
  r3 = r3
  r4 = r4
  Null = Null
  Queue = {q1, q2}
  Req = {r1, r2, r3, r4}
  Capacity = 2
SPECIFICATION FairSpec
CHECK_DEADLOCK FALSE
INVARIANTS TypeOK WhiteIffReady QueuesAreInOrder OnlyFullQueueAborts
PROPERTIES ServesGroupsInOrder EventuallyPopped
