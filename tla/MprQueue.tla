------------------------------ MODULE MprQueue ------------------------------
(***************************************************************************)
(* mpr_queue.h: a bounded apr_queue_t with a peek.  apr_queue_t cannot be  *)
(* peeked, so the wrapper takes the first element out of it and keeps it   *)
(* in the field head until it is popped.  Each operation holds queue->mx.  *)
(***************************************************************************)
EXTENDS Naturals, Sequences

CONSTANTS Null,      \* NULL
          Capacity   \* of the apr_queue_t inside: 1000 in mpr_dag_push

ASSUME CapacityAssumption == Capacity \in Nat \ {0}

NewQueue == [head |-> Null, queue |-> <<>>]

\* Mutant of HasRoom: one element too many.
HasRoomForOneMore(q) == Len(q.queue) <= Capacity

\* apr_queue_trypush has room; mpr_queue_push asserts that it succeeded.
HasRoom(q) == Len(q.queue) < Capacity

Push(q, data) == [q EXCEPT !.queue = Append(@, data)]

\* The queue after mpr_queue_peek, whose result is the head.
Peek(q) ==
  IF q.head = Null /\ q.queue # <<>>
  THEN [head |-> Head(q.queue), queue |-> Tail(q.queue)] ELSE q

\* Mutant of TryPop: the peeked head is forgotten about.
TryPopBehindHead(q) == IF q.queue # <<>> THEN [q EXCEPT !.queue = Tail(@)] ELSE q

\* The queue after mpr_queue_trypop, and what it returned.
TryPop(q) ==
  IF q.head # Null THEN [q EXCEPT !.head = Null]
  ELSE IF q.queue # <<>> THEN [q EXCEPT !.queue = Tail(@)] ELSE q

Popped(q) ==
  IF q.head # Null THEN q.head
  ELSE IF q.queue # <<>> THEN Head(q.queue) ELSE Null

\* The elements of the queue, first in first out.
Contents(q) == IF q.head = Null THEN q.queue ELSE <<q.head>> \o q.queue
=============================================================================
