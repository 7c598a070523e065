------------------------------ MODULE MPaxosInv ------------------------------
(***************************************************************************)
(* Why the agreement of MPaxos holds while nothing is forgotten: the       *)
(* inductive invariant, conjunct by conjunct.  Prepares exist for slot 1   *)
(* only and carry ballot 2; an acceptor grants at most one of them; the    *)
(* node granted by a majority is alone in sending accepts, for every slot. *)
(***************************************************************************)
EXTENDS MPaxos

\* A majority of the acceptors promised slot 1 to n.
Won(n) == Cardinality({a \in Node : <<a, 1, n>> \in grants}) >= Majority

\* The ballot a request or a transaction for slot s has.
BidOf(s) == IF s = 1 THEN BidNormal ELSE BidPrior

\* Phase 1 exists for the first slot only: who went past it did so alone.
ProposerInv ==
  \A n \in Node :
    /\ newest[n].is_me <=> newest[n].sid > 1
    /\ newest[n].sid > 1 => Won(n)
    /\ txn[n].in_phase # 0 => txn[n].bid = BidOf(txn[n].sid)
    /\ txn[n].in_phase = 1 => txn[n].sid = 1
    /\ txn[n].in_phase = 2 => Won(n)
    /\ txn[n].prop_max = NoProp
    /\ \A a \in txn[n].prom_yes : <<a, 1, n>> \in grants

\* A grant is for slot 1, and an acceptor grants one node only.
GrantInv ==
  /\ \A g \in grants : g[2] = 1 /\ acc[g[1]][1].bid_max = BidNormal
  /\ \A a, m, n \in Node :
       <<a, 1, m>> \in grants /\ <<a, 1, n>> \in grants => m = n
  /\ \A a \in Node : \A s \in Slot : acc[a][s].bid_max \in {0, BidNormal}
  /\ \A a \in Node : \A s \in Slot \ {1} : acc[a][s].bid_max = 0
  /\ \A a \in Node : acc[a][1].bid_max = 0 => acc[a][1].props = <<>>

\* n's prepare reached a, or it is on the connection before position k.
PreparedBefore(n, a, k) ==
  \/ <<a, 1, n>> \in grants
  \/ \E j \in DOMAIN link[n][a] : j < k /\ link[n][a][j].type = "prepare"

\* What is on the connections: prepares for slot 1, and accepts of the winner,
\* the ones for slot 1 behind its prepare.
LinkInv ==
  \A n, a \in Node : \A k \in DOMAIN link[n][a] :
    LET m == link[n][a][k]
    IN  /\ m.bid = BidOf(m.sid)
        /\ m.type = "prepare" => m.sid = 1
        /\ m.type = "accept" => /\ Won(n) /\ m.nid = n
                                /\ m.sid = 1 => PreparedBefore(n, a, k)

\* A node in phase 1 sent its prepare to everyone.
PhaseOneInv ==
  \A n, a \in Node :
    txn[n].in_phase = 1 => PreparedBefore(n, a, Len(link[n][a]) + 1)

\* What is on the way back: grants, and no proposal.
ReplyInv ==
  \A n, a \in Node : \A k \in DOMAIN reply[n][a] :
    LET m == reply[n][a][k]
    IN  /\ m.props = <<>>
        /\ m.type = "promise" => m.ack = "SUCCESS" /\ <<a, 1, n>> \in grants

\* The slots called back: the winner's, numbered like its requests, no gaps.
LogInv ==
  /\ \A e \in log : Won(e.by) /\ e.sid < newest[e.by].sid /\ e.req = e.sid
  /\ \A n \in Node : \A s \in 1 .. newest[n].sid - 1 :
       \E e \in log : e.sid = s

CoreInv ==
  ProposerInv /\ GrantInv /\ LinkInv /\ PhaseOneInv /\ ReplyInv /\ LogInv

\* The inductive invariant: as long as no acceptor dropped a slot, the grants
\* of slot 1 protect every later slot, for which no prepare is ever sent
\* (is_saveprep in mpaxos_start_request).
RememberedInv == NothingForgotten => CoreInv
=============================================================================
