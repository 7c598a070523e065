------------------------------- MODULE MPaxos -------------------------------
(***************************************************************************)
(* The consensus protocol of libmpaxos for one group: the controller and   *)
(* proposer of every node (controller.c, proposer.c, recorder.c), its      *)
(* acceptor (acceptor.c), and the TCP connections between them as FIFO     *)
(* queues.  One poll thread per node runs every message handler to its     *)
(* end, and a transaction is guarded by tinfo->mx, so a handler is one     *)
(* action.  The request DAG starts the next request of a group only after  *)
(* the previous one was called back, so a node has one transaction at a    *)
(* time; the request queues are the subject of module MprDag.              *)
(***************************************************************************)
EXTENDS Integers, Sequences, FiniteSets

CONSTANTS Node,       \* the nodes of the (static) view, all of them acceptors
          Proposer,   \* the nodes whose application commits requests
          Faulty,     \* the nodes that may crash
          MaxReq,     \* bound: requests committed by one node
          ForgetLag,  \* slots an acceptor remembers: 10 in phase_2_async_after
          NoProp      \* tinfo->prop_max == NULL

ASSUME NodeAssumption   == IsFiniteSet(Node) /\ Proposer \subseteq Node
                           /\ Faulty \subseteq Node
ASSUME BoundAssumption  == MaxReq \in Nat \ {0} /\ ForgetLag \in Nat \ {0}

BidPrior  == 1      \* the ballot of the node that decided the previous slot
BidNormal == 2      \* the ballot of every other node; n_retry is always 0

Bid    == {BidPrior, BidNormal}
Slot   == 1 .. MaxReq
Prop   == [bid : Bid, nid : Node]
Ack    == {"SUCCESS", "ERR_BID"}

Request == [type : {"prepare", "accept"}, req : 1 .. MaxReq, sid : Slot,
            bid : Bid, nid : Node]
Reply   == [type : {"promise", "accepted"}, req : 1 .. MaxReq, sid : Slot,
            bid : Bid, ack : Ack, props : Seq(Prop)]
AccpInfo == [bid_max : {0} \cup Bid, props : Seq(Prop)]
TxnInfo  == [in_phase : {-1, 0, 1, 2}, req : 0 .. MaxReq, sid : Slot, bid : Bid,
             prom_yes : SUBSET Node, prom_no : SUBSET Node,
             accd_yes : SUBSET Node, accd_no : SUBSET Node,
             prop_max : Prop \cup {NoProp}]

VARIABLES
  up,       \* up[n]: the process of n is running
  asked,    \* asked[n]: requests n's application has committed
  done,     \* done[n]: requests of n that were called back and popped
  txn,      \* txn[n]: the attached txn_info (in_phase 0: none is attached)
  newest,   \* newest[n]: ht_newest_, the next slot and whether n decided the last
  decided,  \* decided[n]: ht_decided_, the slots n marked decided
  acc,      \* acc[a][s]: the accp_info of slot s (Fresh: none in the table)
  link,     \* link[n][a]: the requests n sent on its connection to a
  reply,    \* reply[n][a]: the replies a sent back on that connection
  log,      \* history: which request was called back as decided in which slot
  grants    \* history: the promises made, as <<acceptor, slot, proposer>>

proposerVars == <<asked, done, txn, newest, decided>>
vars == <<up, proposerVars, acc, link, reply, log, grants>>

-----------------------------------------------------------------------------
\* Mutant of Majority: half of the nodes, rounded down.
HalfOfNodes == Cardinality(Node) \div 2

\* check_majority: more than half of the nodes, thus two sets of so many meet.
Majority == Cardinality(Node) \div 2 + 1

\* The accp_info that get_accp_info creates for a slot it does not find.
Fresh == [bid_max |-> 0, props |-> <<>>]

\* attach_txn_info: a transaction and its group_info, without responses yet.
NewTxn(in_phase, req, sid, bid) ==
  [in_phase |-> in_phase, req |-> req, sid |-> sid, bid |-> bid,
   prom_yes |-> {}, prom_no |-> {}, accd_yes |-> {}, accd_no |-> {},
   prop_max |-> NoProp]

\* No transaction attached (detach_txn_info).
Idle == NewTxn(0, 0, 1, BidNormal)

\* What mpaxos_accept proposes, and phase_2_async_after decides: the proposal
\* learned from the promises if there is one, the node's own otherwise.
ChosenProp(n, t) ==
  IF t.prop_max # NoProp THEN t.prop_max ELSE [bid |-> t.bid, nid |-> n]

PrepareMsg(n, t) == [type |-> "prepare", req |-> t.req, sid |-> t.sid,
                     bid |-> t.bid, nid |-> n]
AcceptMsg(n, t)  == [type |-> "accept", req |-> t.req, sid |-> t.sid,
                     bid |-> ChosenProp(n, t).bid, nid |-> ChosenProp(n, t).nid]

\* send_to for every node of the view, the sender itself included.
Broadcast(n, m) ==
  [link EXCEPT ![n] = [a \in Node |-> Append(link[n][a], m)]]

\* prop_max after the proposals of a response: only a larger ballot replaces it.
BestProp(old, props) ==
  LET better == {i \in DOMAIN props :
                   /\ old = NoProp \/ old.bid < props[i].bid
                   /\ \A j \in DOMAIN props :
                        props[j].bid < props[i].bid
                          \/ (props[j].bid = props[i].bid /\ i <= j)}
  IN  IF better = {} THEN old ELSE props[CHOOSE i \in better : TRUE]

\* The transaction with the response of acceptor a to its prepare counted.
CountPromise(t, a, m) ==
  [t EXCEPT !.prom_yes = IF m.ack = "SUCCESS" THEN @ \cup {a} ELSE @,
            !.prom_no  = IF m.ack = "ERR_BID" THEN @ \cup {a} ELSE @,
            !.prop_max = BestProp(@, m.props)]

\* The transaction with the response of acceptor a to its accept counted.
CountAccepted(t, a, m) ==
  [t EXCEPT !.accd_yes = IF m.ack = "SUCCESS" THEN @ \cup {a} ELSE @,
            !.accd_no  = IF m.ack = "ERR_BID" THEN @ \cup {a} ELSE @,
            !.prop_max = BestProp(@, m.props)]

\* Mutant of Promised: the store to bid_max is missing.
PromiseNotStored(ainfo, m) == ainfo

\* What handle_msg_prepare does to the accp_info: the larger ballot is promised.
Promised(ainfo, m) ==
  [ainfo EXCEPT !.bid_max = IF m.bid > @ THEN m.bid ELSE @]

\* Mutant of Accepted: the proposal is acknowledged and not remembered.
AcceptedNotStored(ainfo, m) == ainfo

\* What handle_msg_accept does to the accp_info: a proposal that is not below
\* the promise is remembered; bid_max stays as it was.
Accepted(ainfo, m) ==
  [ainfo EXCEPT !.props = IF m.bid >= ainfo.bid_max
                          THEN Append(@, [bid |-> m.bid, nid |-> m.nid]) ELSE @]

\* Mutants of NewestAfter: a strict comparison, and a slot skipped.
NewestAfterStrict(old, s, mine) ==
  IF old.sid < s THEN [sid |-> s + 1, is_me |-> mine] ELSE old

NewestAfterSkip(old, s, mine) ==
  IF old.sid <= s THEN [sid |-> s + 2, is_me |-> mine] ELSE old

\* record_decided: the nextsid_t after slot s was decided, by this node or not.
NewestAfter(old, s, mine) ==
  IF old.sid <= s THEN [sid |-> s + 1, is_me |-> mine] ELSE old

\* Mutant of ForgetSlot: one slot too early.
ForgetEarly(slots, s) ==
  IF s >= ForgetLag THEN [slots EXCEPT ![s - ForgetLag + 1] = Fresh] ELSE slots

\* acceptor_forget, as phase_2_async_after calls it for the decided slot s.
ForgetSlot(slots, s) ==
  IF s > ForgetLag THEN [slots EXCEPT ![s - ForgetLag] = Fresh] ELSE slots

\* Mutant of CheckMajority: a bare majority is not enough.
CheckMoreThanMajority(yes, no) ==
  IF Cardinality(no) > Majority THEN "NO"
  ELSE IF Cardinality(yes) <= Majority THEN "UNCERTAIN" ELSE "YES"

\* check_majority: a majority of denials is looked for first.
CheckMajority(yes, no) ==
  IF Cardinality(no) >= Majority THEN "NO"
  ELSE IF Cardinality(yes) < Majority THEN "UNCERTAIN" ELSE "YES"

\* Mutant of Current: the phase alone is looked at, not the transaction.
CurrentPhase(t, m, phase) == t.in_phase = phase

\* The response is for the attached transaction, in the phase it is in.
Current(t, m, phase) ==
  /\ t.in_phase = phase
  /\ m.req = t.req /\ m.sid = t.sid /\ m.bid = t.bid

-----------------------------------------------------------------------------
Init ==
  /\ up      = [n \in Node |-> TRUE]
  /\ asked   = [n \in Node |-> 0]
  /\ done    = [n \in Node |-> 0]
  /\ txn     = [n \in Node |-> Idle]
  /\ newest  = [n \in Node |-> [sid |-> 1, is_me |-> FALSE]]
  /\ decided = [n \in Node |-> {}]
  /\ acc     = [n \in Node |-> [s \in Slot |-> Fresh]]
  /\ link    = [n \in Node |-> [a \in Node |-> <<>>]]
  /\ reply   = [n \in Node |-> [a \in Node |-> <<>>]]
  /\ log     = {}
  /\ grants  = {}

\* The application commits a request: it is enlisted in the DAG.
Commit(n) ==
  /\ up[n] /\ n \in Proposer /\ asked[n] < MaxReq
  /\ asked' = [asked EXCEPT ![n] = @ + 1]
  /\ UNCHANGED <<up, done, txn, newest, decided, acc, link, reply, log, grants>>

\* A pool thread runs mpaxos_start_request on the request at the head of the
\* group's queue.  The node that decided the previous slot skips phase 1.
StartRequest(n) ==
  /\ up[n] /\ txn[n].in_phase = 0 /\ done[n] < asked[n]
  /\ LET saveprep == newest[n].is_me
         t == NewTxn(IF saveprep THEN 2 ELSE 1, done[n] + 1, newest[n].sid,
                     IF saveprep THEN BidPrior ELSE BidNormal)
     IN  /\ txn' = [txn EXCEPT ![n] = t]
         /\ link' = Broadcast(n, IF saveprep THEN AcceptMsg(n, t)
                                             ELSE PrepareMsg(n, t))
  /\ UNCHANGED <<up, asked, done, newest, decided, acc, reply, log, grants>>

-----------------------------------------------------------------------------
\* The next request on n's connection to a is of the given type.
Arrived(a, n, type) ==
  up[a] /\ link[n][a] # <<>> /\ Head(link[n][a]).type = type

\* a answers the request at the head of n's connection.
Answer(a, n, type, ack, props) ==
  LET m == Head(link[n][a])
  IN  /\ link'  = [link EXCEPT ![n][a] = Tail(@)]
      /\ reply' = [reply EXCEPT ![n][a] =
                     Append(@, [type |-> type, req |-> m.req, sid |-> m.sid,
                                bid |-> m.bid, ack |-> ack, props |-> props])]

\* handle_msg_prepare, when the ballot differs from the largest one promised.
HandlePrepare(a, n) ==
  /\ Arrived(a, n, "prepare")
  /\ LET m     == Head(link[n][a])
         ainfo == acc[a][m.sid]
         ok    == m.bid > ainfo.bid_max
     IN  /\ m.bid # ainfo.bid_max
         /\ acc' = [acc EXCEPT ![a][m.sid] = Promised(@, m)]
         /\ grants' = IF ok THEN grants \cup {<<a, m.sid, n>>} ELSE grants
         /\ Answer(a, n, "promise", IF ok THEN "SUCCESS" ELSE "ERR_BID",
                   ainfo.props)
  /\ UNCHANGED <<up, proposerVars, log>>

\* handle_msg_prepare, when the ballot was already promised: SAFE_ASSERT(0)
\* aborts the process.
UndefinedBid(a, n) ==
  /\ Arrived(a, n, "prepare")
  /\ Head(link[n][a]).bid = acc[a][Head(link[n][a]).sid].bid_max

AbortOnPrepare(a, n) ==
  /\ UndefinedBid(a, n)
  /\ up' = [up EXCEPT ![a] = FALSE]
  /\ UNCHANGED <<proposerVars, acc, link, reply, log, grants>>

\* handle_msg_accept.
HandleAccept(a, n) ==
  /\ Arrived(a, n, "accept")
  /\ LET m  == Head(link[n][a])
         ok == m.bid >= acc[a][m.sid].bid_max
     IN  /\ acc' = [acc EXCEPT ![a][m.sid] = Accepted(@, m)]
         /\ Answer(a, n, "accepted", IF ok THEN "SUCCESS" ELSE "ERR_BID", <<>>)
  /\ UNCHANGED <<up, proposerVars, log, grants>>

-----------------------------------------------------------------------------
\* The next reply on n's connection to a is of the given type.
Replied(n, a, type) ==
  up[n] /\ reply[n][a] # <<>> /\ Head(reply[n][a]).type = type

\* handle_msg_promise.  A response that is not for the attached transaction in
\* phase 1 is dropped; a second one from the same node fails SAFE_ASSERT.
HandlePromise(n, a) ==
  /\ Replied(n, a, "promise")
  /\ LET m == Head(reply[n][a])
         t == CountPromise(txn[n], a, m)
         verdict == CheckMajority(t.prom_yes, t.prom_no)
         t2 == [t EXCEPT !.in_phase = CASE verdict = "YES" -> 2
                                        [] verdict = "NO"  -> -1
                                        [] OTHER -> 1]
     IN  IF ~ Current(txn[n], m, 1)
         THEN UNCHANGED <<up, txn, link>>
         ELSE IF a \in txn[n].prom_yes \cup txn[n].prom_no
         THEN up' = [up EXCEPT ![n] = FALSE] /\ UNCHANGED <<txn, link>>
         ELSE /\ txn' = [txn EXCEPT ![n] = t2]
              /\ link' = IF verdict = "YES" THEN Broadcast(n, AcceptMsg(n, t2))
                                            ELSE link
              /\ UNCHANGED up
  /\ reply' = [reply EXCEPT ![n][a] = Tail(@)]
  /\ UNCHANGED <<asked, done, newest, decided, acc, log, grants>>

\* phase_2_async_after: mark the slot decided, advance the newest slot, forget
\* the slot ForgetLag earlier, detach the transaction, call back and pop.
Decide(n, t) ==
  LET s == t.sid
      mine == ChosenProp(n, t).nid = n
  IN  /\ decided' = [decided EXCEPT ![n] = @ \cup {s}]
      /\ newest' = [newest EXCEPT ![n] = NewestAfter(@, s, mine)]
      /\ acc' = [acc EXCEPT ![n] = ForgetSlot(@, s)]
      /\ txn' = [txn EXCEPT ![n] = Idle]
      /\ done' = [done EXCEPT ![n] = @ + 1]
      /\ log' = log \cup {[sid |-> s, by |-> n, req |-> t.req]}

\* handle_msg_accepted, and what a majority sets off.
HandleAccepted(n, a) ==
  /\ Replied(n, a, "accepted")
  /\ LET m == Head(reply[n][a])
         t == CountAccepted(txn[n], a, m)
         verdict == CheckMajority(t.accd_yes, t.accd_no)
     IN  IF ~ Current(txn[n], m, 2)
         THEN UNCHANGED <<up, done, txn, newest, decided, acc, log>>
         ELSE IF a \in txn[n].accd_yes \cup txn[n].accd_no
         THEN /\ up' = [up EXCEPT ![n] = FALSE]
              /\ UNCHANGED <<done, txn, newest, decided, acc, log>>
         ELSE /\ UNCHANGED up
              /\ IF verdict = "YES" THEN Decide(n, t)
                 ELSE /\ txn' = [txn EXCEPT ![n] =
                           [t EXCEPT !.in_phase = IF verdict = "NO" THEN -1 ELSE 2]]
                      /\ UNCHANGED <<done, newest, decided, acc, log>>
  /\ reply' = [reply EXCEPT ![n][a] = Tail(@)]
  /\ UNCHANGED <<asked, link, grants>>

-----------------------------------------------------------------------------
\* The process of n dies.  Nothing is persisted and nothing restarts it; what
\* it already sent may still arrive.
Crash(n) ==
  /\ n \in Faulty /\ up[n]
  /\ up' = [up EXCEPT ![n] = FALSE]
  /\ UNCHANGED <<proposerVars, acc, link, reply, log, grants>>

\* handle_client_write on a connection whose peer is gone: SAFE_ASSERT on the
\* status aborts the process, unless the read handler removed the job first
\* (RpcChannel has the steps, and another way to abort).
AbortOnWrite(n, a) ==
  /\ up[n] /\ ~ up[a] /\ link[n][a] # <<>>
  /\ up' = [up EXCEPT ![n] = FALSE]
  /\ UNCHANGED <<proposerVars, acc, link, reply, log, grants>>

Next ==
  \/ \E n \in Node : Commit(n) \/ StartRequest(n) \/ Crash(n)
  \/ \E n, a \in Node : \/ HandlePrepare(a, n) \/ AbortOnPrepare(a, n)
                        \/ HandleAccept(a, n)
                        \/ HandlePromise(n, a) \/ HandleAccepted(n, a)
                        \/ AbortOnWrite(n, a)

Spec == Init /\ [][Next]_vars

\* The pool thread and the poll thread keep running, and TCP delivers between
\* two nodes that live; what a dead node had sent may be lost, and the
\* application need not commit.
Fairness ==
  /\ \A n \in Node : WF_vars(StartRequest(n))
  /\ \A n, a \in Node : /\ WF_vars(up[n] /\ HandlePrepare(a, n))
                        /\ WF_vars(up[n] /\ HandleAccept(a, n))
                        /\ WF_vars(up[a] /\ HandlePromise(n, a))
                        /\ WF_vars(up[a] /\ HandleAccepted(n, a))

FairSpec == Spec /\ Fairness
-----------------------------------------------------------------------------
\* Type correctness.  A node's newest slot is one past the requests it got
\* called back, so that the slots it uses stay within the bound.
TypeOK ==
  /\ up \in [Node -> BOOLEAN]
  /\ asked \in [Node -> 0 .. MaxReq]
  /\ done \in [Node -> 0 .. MaxReq]
  /\ txn \in [Node -> TxnInfo]
  /\ newest \in [Node -> [sid : 1 .. MaxReq + 1, is_me : BOOLEAN]]
  /\ decided \in [Node -> SUBSET Slot]
  /\ acc \in [Node -> [Slot -> AccpInfo]]
  /\ link \in [Node -> [Node -> Seq(Request)]]
  /\ reply \in [Node -> [Node -> Seq(Reply)]]
  /\ log \subseteq [sid : Slot, by : Node, req : 1 .. MaxReq]
  /\ grants \subseteq Node \X Slot \X Node

\* A node fills the slots one after the other: it marked decided exactly the
\* slots before its newest one, one per request called back, and an attached
\* transaction is for the newest slot and the next request in commit order.
\* get_newest_sid and record_decided (recorder.c) are called from two threads.
SlotsConsecutive ==
  \A n \in Node :
    /\ done[n] <= asked[n]
    /\ newest[n].sid = done[n] + 1
    /\ decided[n] = 1 .. done[n]
    /\ txn[n].in_phase # 0 => /\ done[n] < asked[n]
                              /\ txn[n].sid = newest[n].sid
                              /\ txn[n].req = done[n] + 1

\* No acceptor has dropped a slot yet.
NothingForgotten == \A n \in Node : newest[n].sid <= ForgetLag + 1

\* The requests called back as decided in one slot are one request.
Agreement == \A e, f \in log : e.sid = f.sid => e = f

\* Paxos agreement, for as long as no acceptor has forgotten a decided slot
\* (acceptor_forget).  It rests on majorities, on the FIFO order of prepare
\* before accept, and on the ballots 1 and 2 of mpaxos_start_request.
AgreementWhileRemembered == NothingForgotten => Agreement

\* n won its phase 1 or went past the first slot: it proposes without asking.
Leads(n) == newest[n].sid > 1 \/ txn[n].in_phase = 2

\* The node that skips the prepare phase (is_saveprep) is alone in doing so:
\* no second node reaches phase 2 while nothing is forgotten.
SoleLeader ==
  NothingForgotten => \A m, n \in Node : Leads(m) /\ Leads(n) => m = n

\* What was called back as decided is held by a majority of the acceptors,
\* crashed ones included, except where the acceptor itself is ForgetLag slots
\* further and dropped the slot.
DecidedIsHeld ==
  \A e \in log : \E Q \in SUBSET Node :
    /\ Cardinality(Q) >= Majority
    /\ \A a \in Q : \/ \E i \in DOMAIN acc[a][e.sid].props :
                          acc[a][e.sid].props[i].nid = e.by
                    \/ newest[a].sid > e.sid + ForgetLag

\* mpaxos_accept (proposer.c:366) says of prop_max "for now it should be null":
\* a proposer that reaches phase 2 learned no proposal of another node, whose
\* value it would not have (the acceptors keep none), and decides its own.
PropMaxIsNull == \A n \in Node : txn[n].in_phase = 2 => txn[n].prop_max = NoProp

\* SAFE_ASSERT(re == NULL) in handle_msg_promise and handle_msg_accepted holds:
\* no acceptor's second response in a phase reaches the proposer.
NoDuplicateReply ==
  \A n, a \in Node :
    /\ Replied(n, a, "promise") /\ Current(txn[n], Head(reply[n][a]), 1)
         => a \notin txn[n].prom_yes \cup txn[n].prom_no
    /\ Replied(n, a, "accepted") /\ Current(txn[n], Head(reply[n][a]), 2)
         => a \notin txn[n].accd_yes \cup txn[n].accd_no

\* SAFE_ASSERT(0) of handle_msg_prepare (acceptor.c:141) is not reached: no
\* acceptor receives a prepare with the ballot it already promised.
NoUndefinedBid == \A a, n \in Node : ~ UndefinedBid(a, n)

\* get_accp_info (acceptor.c:64) asks to "make sure this is not a value that is
\* decided and forgotten": an acceptor that decided a slot and dropped it makes
\* no new promise for that slot to another node, whose prepare comes late.
ForgottenStaysClosed ==
  [][\A a \in Node : \A s \in decided[a] : \A n \in Node \ {a} :
       newest[a].sid > s + ForgetLag /\ <<a, s, n>> \in grants'
         => <<a, s, n>> \in grants]_vars

\* What an acceptor promised or accepted for a slot it keeps: bid_max never
\* falls, accepted proposals stay in place, a new one is not below bid_max; and
\* a slot is dropped only by a node that decided it ForgetLag slots ago.
AcceptorStep(a, s) ==
  LET old == acc[a][s]
      new == acc'[a][s]
  IN  \/ /\ new = Fresh
         /\ s \in decided[a] /\ newest'[a].sid = s + ForgetLag + 1
      \/ /\ new.bid_max >= old.bid_max
         /\ Len(new.props) >= Len(old.props)
         /\ \A i \in DOMAIN new.props :
              IF i \in DOMAIN old.props THEN new.props[i] = old.props[i]
              ELSE new.props[i].bid >= old.bid_max

AcceptorMemory == [][\A a \in Node, s \in Slot : AcceptorStep(a, s)]_vars

\* Every committed request is called back, in a group where one node proposes
\* and a minority of the others may die, unless the death takes the proposer
\* with it: no handler loses the transaction or waits for the dead.
EventuallyCalledBack ==
  \A n \in Proposer : \A k \in 1 .. MaxReq :
    (asked[n] >= k) ~> (done[n] >= k \/ ~ up[n])
=============================================================================
