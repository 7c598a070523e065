------------------------------ MODULE MCMPaxos ------------------------------
(***************************************************************************)
(* Instances of MPaxos for TLC; the .cfg files give the constants.         *)
(***************************************************************************)
EXTENDS MPaxosLog, MPaxosForget
CONSTANTS n1, n2, n3

\* State constraint: applications that wait for one callback before the next
\* commit (as kvdb does), which is enough for the longest counterexample.
OneOutstanding == \A n \in Node : asked[n] <= done[n] + 1
=============================================================================
