---------------------------- MODULE ReplicatedLog ----------------------------
(***************************************************************************)
(* What a group of libmpaxos promises the applications that commit to it:  *)
(* one log, whose slots are filled in order and once; a request is in one  *)
(* slot when it is called back, and the requests of a node are called back *)
(* in the order in which it committed them.                                *)
(***************************************************************************)
EXTENDS Naturals

CONSTANTS Node,    \* the nodes that commit requests
          MaxReq   \* bound: requests of one node, and slots

VARIABLES
  submitted,  \* submitted[n]: requests n committed
  acked,      \* acked[n]: requests of n that were called back
  chosen      \* chosen[s]: the request decided in slot s, if any, as a set

vars == <<submitted, acked, chosen>>

Slot    == 1 .. MaxReq
Command == [by : Node, req : 1 .. MaxReq]

Init ==
  /\ submitted = [n \in Node |-> 0]
  /\ acked     = [n \in Node |-> 0]
  /\ chosen    = [s \in Slot |-> {}]

Submit(n) ==
  /\ submitted[n] < MaxReq
  /\ submitted' = [submitted EXCEPT ![n] = @ + 1]
  /\ UNCHANGED <<acked, chosen>>

\* n's next request is decided in the first empty slot, and called back.
Append(n) ==
  \E s \in Slot :
    /\ chosen[s] = {} /\ \A r \in 1 .. s - 1 : chosen[r] # {}
    /\ acked[n] < submitted[n]
    /\ chosen' = [chosen EXCEPT ![s] = {[by |-> n, req |-> acked[n] + 1]}]
    /\ acked' = [acked EXCEPT ![n] = @ + 1]
    /\ UNCHANGED submitted

Next == \E n \in Node : Submit(n) \/ Append(n)

Spec == Init /\ [][Next]_vars
=============================================================================
