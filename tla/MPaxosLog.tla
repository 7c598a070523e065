------------------------------ MODULE MPaxosLog ------------------------------
(***************************************************************************)
(* A group of libmpaxos implements ReplicatedLog, for logs short enough    *)
(* that no acceptor forgets a slot.                                        *)
(***************************************************************************)
EXTENDS MPaxosInv

\* The requests called back as decided in slot s.
DecidedIn(s) == {[by |-> e.by, req |-> e.req] : e \in {f \in log : f.sid = s}}

Abstract == INSTANCE ReplicatedLog
              WITH submitted <- asked, acked <- done,
                   chosen <- [s \in Slot |-> DecidedIn(s)]

\* Every step of the protocol is a commit, the decision of the first empty slot
\* together with its callback (phase_2_async_after), or invisible: no slot is
\* decided twice, skipped or filled out of order.
ImplementsLog == Abstract!Spec
=============================================================================
