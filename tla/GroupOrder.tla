----------------------------- MODULE GroupOrder -----------------------------
(***************************************************************************)
(* What the request DAG of libmpaxos promises the protocol below it: the   *)
(* requests that share a group run one at a time and in the order in which *)
(* they were committed; the others run concurrently.                       *)
(***************************************************************************)
EXTENDS Naturals, SequencesExt

CONSTANTS Queue,   \* the groups
          Req      \* the requests

VARIABLES
  qids,      \* qids[r]: the groups of r, none before it is committed
  pending,   \* the committed requests that have not finished, in order
  running    \* the requests that run

vars == <<qids, pending, running>>

Init == /\ qids = [r \in Req |-> {}] /\ pending = <<>> /\ running = {}

Commit(r) ==
  /\ qids[r] = {}
  /\ \E S \in (SUBSET Queue) \ {{}} : qids' = [qids EXCEPT ![r] = S]
  /\ pending' = Append(pending, r)
  /\ UNCHANGED running

\* No request before r shares a group with it.
Run(r) ==
  /\ r \notin running
  /\ \E i \in DOMAIN pending :
       /\ pending[i] = r
       /\ \A j \in 1 .. i - 1 : qids[pending[j]] \cap qids[r] = {}
  /\ running' = running \cup {r}
  /\ UNCHANGED <<qids, pending>>

Finish(r) ==
  /\ r \in running
  /\ running' = running \ {r}
  /\ \E i \in DOMAIN pending : pending[i] = r /\ pending' = RemoveAt(pending, i)
  /\ UNCHANGED qids

Next == \E r \in Req : Commit(r) \/ Run(r) \/ Finish(r)

Spec == Init /\ [][Next]_vars
=============================================================================
