---------------------------- MODULE MPaxosForget ----------------------------
(***************************************************************************)
(* What MPaxos keeps once acceptors forget slots (acceptor_forget): two    *)
(* inductive invariants.  A dropped slot 1 can be promised a second time,  *)
(* so that two nodes can lead; but still every request is answered once,   *)
(* no leader learns a proposal, and what was decided is held.              *)
(***************************************************************************)
EXTENDS MPaxosInv

\* The phase of the protocol a request or its reply belongs to.
PhaseOf(x) == IF x.type \in {"prepare", "promise"} THEN 1 ELSE 2

\* Two messages of the same phase of the same request.
SameRound(x, y) == x.req = y.req /\ PhaseOf(x) = PhaseOf(y)

\* A proposer with transaction t and d requests done has sent the request x,
\* or what x replies to.
WasSent(t, d, x) ==
  \/ x.req \in 1 .. d
  \/ /\ t.in_phase # 0 /\ x.req = t.req
     /\ PhaseOf(x) = 2 => t.in_phase \in {2, -1}

\* The answer of a in the phase of x is counted already.
Answered(t, a, x) ==
  /\ t.in_phase # 0 /\ x.req = t.req
  /\ IF PhaseOf(x) = 1 THEN a \in t.prom_yes \cup t.prom_no
                       ELSE a \in t.accd_yes \cup t.accd_no

\* x is a request to a, or the reply of a, that waits to be handled.
Underway(t, d, a, x) == WasSent(t, d, x) /\ ~ Answered(t, a, x)

\* No two messages of two queues, or of one, are of the same round.
OneEach(sent, back) ==
  /\ \A j, k \in DOMAIN sent : SameRound(sent[j], sent[k]) => j = k
  /\ \A j, k \in DOMAIN back : SameRound(back[j], back[k]) => j = k
  /\ \A j \in DOMAIN sent, k \in DOMAIN back : ~ SameRound(sent[j], back[k])

\* Between a proposer and a there is at most one message of each phase of a
\* request: on the way to a, or on the way back, or counted.
AnswersOnce(t, d, a, sent, back) ==
  /\ OneEach(sent, back)
  /\ \A k \in DOMAIN sent : Underway(t, d, a, sent[k]) /\ sent[k].sid = sent[k].req
  /\ \A k \in DOMAIN back : Underway(t, d, a, back[k])
  /\ t.in_phase = 1 => t.accd_yes = {} /\ t.accd_no = {}

AnswerInv ==
  \A n, a \in Node : AnswersOnce(txn[n], done[n], a, link[n][a], reply[n][a])

-----------------------------------------------------------------------------
\* The acceptors that promised slot 1 to n.
Granted(n) == {a \in Node : <<a, 1, n>> \in grants}

\* The acceptor of a has dropped slot 1.
Forgot(a) == newest[a].sid > ForgetLag + 1

\* b dropped slot 1, itself among those who promised it to b; they are one
\* more than a majority and b stays the only leader.
SafeLeader(b) ==
  /\ Forgot(b) /\ b \in Granted(b)
  /\ Cardinality(Granted(b)) >= Majority + 1
  /\ \A p \in Node : Won(p) => p = b

\* Who leads and what a transaction has learned.  A proposal can reach a
\* proposer only in phase 1, which it then does not get past.
LeaderInv ==
  \A n \in Node :
    /\ newest[n].is_me <=> newest[n].sid > 1
    /\ newest[n].sid > 1 => Won(n)
    /\ txn[n].in_phase # 0 => txn[n].bid = BidOf(txn[n].sid)
    /\ txn[n].in_phase = 1 =>
         /\ txn[n].sid = 1
         /\ txn[n].prop_max # NoProp => \E b \in Node \ {n} : SafeLeader(b)
    /\ txn[n].in_phase = 2 => Won(n) /\ txn[n].prop_max = NoProp
    /\ txn[n].prom_yes \subseteq Granted(n)

\* An acceptor promises slot 1 again only after it dropped it, and only once.
RegrantInv ==
  /\ \A g \in grants : g[2] = 1
  /\ \A a \in Node : \A s \in Slot :
       acc[a][s].bid_max \in IF s = 1 THEN {0, BidNormal} ELSE {0}
  /\ \A a, n \in Node :
       a \in Granted(n) /\ acc[a][1].bid_max = 0 => Forgot(a)
  /\ \A a, m, n \in Node :
       a \in Granted(m) /\ a \in Granted(n) /\ m # n
         => Forgot(a) /\ acc[a][1].bid_max = BidNormal
  /\ \A a, m, n, p \in Node :
       a \in Granted(m) /\ a \in Granted(n) /\ a \in Granted(p)
         => m = n \/ n = p \/ m = p
  /\ \A m, n, p \in Node :
       Won(m) /\ Won(n) /\ Won(p) => m = n \/ n = p \/ m = p

\* An acceptor that promised nothing holds a proposal for slot 1 only as the
\* leader that dropped the slot and then got its own late accept.
LateAcceptInv ==
  \A a \in Node :
    acc[a][1].bid_max = 0 /\ acc[a][1].props # <<>> => SafeLeader(a)

\* What is on the way back.
PromiseInv ==
  \A n, a \in Node : \A k \in DOMAIN reply[n][a] :
    LET m == reply[n][a][k]
    IN  IF m.type = "promise"
        THEN /\ m.ack = "SUCCESS" /\ a \in Granted(n)
             /\ m.props # <<>> => SafeLeader(a)
        ELSE m.props = <<>>

\* The accept of slot 1 has been handled by a, after the prepare.
Past(n, a) ==
  /\ a \in Granted(n)
  /\ \A k \in DOMAIN link[n][a] :
       link[n][a][k].type = "accept" => link[n][a][k].sid # 1

PastInv ==
  \A n \in Node :
    /\ \A a \in Node :
         /\ \A k \in DOMAIN reply[n][a] :
              reply[n][a][k].type = "accepted" /\ reply[n][a][k].sid = 1
                => Past(n, a)
         /\ txn[n].sid = 1 /\ a \in txn[n].accd_yes => Past(n, a)
    /\ newest[n].sid > 1 =>
         \E Q \in SUBSET Node : /\ Cardinality(Q) >= Majority
                                /\ \A a \in Q : Past(n, a)

\* An acceptor with these slots and this newest slot has the proposal of n for
\* slot s, or decided so much later that it dropped the slot.
Holds(slots, next, n, s) ==
  \/ \E i \in DOMAIN slots[s].props : slots[s].props[i].nid = n
  \/ next > s + ForgetLag

HeldInv ==
  \A n, a \in Node :
    /\ \A k \in DOMAIN reply[n][a] :
         LET m == reply[n][a][k]
         IN  m.type = "accepted" /\ m.ack = "SUCCESS"
               => Holds(acc[a], newest[a].sid, n, m.sid)
    /\ a \in txn[n].accd_yes => Holds(acc[a], newest[a].sid, n, txn[n].sid)

\* The inductive invariant of the protocol with acceptors that forget.
ForgottenInv ==
  /\ AnswerInv /\ LeaderInv /\ RegrantInv /\ LateAcceptInv
  /\ LinkInv /\ PhaseOneInv /\ PromiseInv /\ PastInv /\ HeldInv
=============================================================================
