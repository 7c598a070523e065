----------------------------- MODULE MPaxosProof -----------------------------
(***************************************************************************)
(* Machine-checked proofs about MPaxos, for every set of nodes and every   *)
(* bound: type correctness, the consecutive slots, and what an acceptor    *)
(* remembers, action by action; then the inductive invariant RememberedInv *)
(* (module MPaxosInv), from it agreement and the sole leader while nothing *)
(* is forgotten, and that a group implements the replicated log (module    *)
(* MPaxosLog) if its log is not longer than what the acceptors remember,   *)
(* or one node commits to it.                                              *)
(***************************************************************************)
EXTENDS MPaxosInv, MPaxosLog, FiniteSetTheorems, SequenceTheorems, TLAPS

USE DEF Bid, Slot, BidPrior, BidNormal

-----------------------------------------------------------------------------
\* The records the handlers build have their types.

\* What mpaxos_accept proposes is a proposal.
LEMMA ChosenPropType ==
  ASSUME NEW n \in Node, NEW t \in TxnInfo
  PROVE  ChosenProp(n, t) \in Prop
BY DEF ChosenProp, TxnInfo, Prop

\* A request that is broadcast for an attached transaction is a request.
LEMMA MessageType ==
  ASSUME NEW n \in Node, NEW t \in TxnInfo, t.req # 0
  PROVE  PrepareMsg(n, t) \in Request /\ AcceptMsg(n, t) \in Request
<1>1. t.req \in 1 .. MaxReq
  BY BoundAssumption DEF TxnInfo
<1> QED
  BY <1>1, ChosenPropType DEF PrepareMsg, AcceptMsg, Request, TxnInfo, Prop

\* A transaction without responses.
LEMMA NewTxnType ==
  ASSUME NEW p \in {-1, 0, 1, 2}, NEW k \in 0 .. MaxReq, NEW s \in Slot,
         NEW b \in Bid
  PROVE  /\ NewTxn(p, k, s, b) \in TxnInfo
         /\ NewTxn(p, k, s, b).in_phase = p /\ NewTxn(p, k, s, b).req = k
         /\ NewTxn(p, k, s, b).sid = s /\ NewTxn(p, k, s, b).bid = b
BY DEF NewTxn, TxnInfo

\* No transaction is a transaction without responses, too.
LEMMA IdleType == Idle \in TxnInfo /\ Idle.in_phase = 0
BY NewTxnType, BoundAssumption DEF Idle

\* The largest of a list of proposals is one of them, or the one before.
LEMMA BestPropType ==
  ASSUME NEW old \in Prop \cup {NoProp}, NEW props \in Seq(Prop)
  PROVE  BestProp(old, props) \in Prop \cup {NoProp}
BY DEF BestProp

\* Counting a response leaves a transaction a transaction, for the same slot.
Counted(t, u) == u \in TxnInfo /\ u.req = t.req /\ u.sid = t.sid /\ u.bid = t.bid

\* A response counted changes neither the phase nor what the transaction is for.
LEMMA CountType ==
  ASSUME NEW t \in TxnInfo, NEW a \in Node, NEW m \in Reply
  PROVE  /\ Counted(t, CountPromise(t, a, m))
         /\ Counted(t, CountAccepted(t, a, m))
<1>1. BestProp(t.prop_max, m.props) \in Prop \cup {NoProp}
  BY BestPropType DEF TxnInfo, Reply
<1>2. CountPromise(t, a, m) \in TxnInfo /\ CountAccepted(t, a, m) \in TxnInfo
  BY <1>1 DEF CountPromise, CountAccepted, TxnInfo, Reply
<1> QED
  BY <1>2 DEF CountPromise, CountAccepted, TxnInfo, Counted

\* So does moving it to another phase.
LEMMA PhaseType ==
  ASSUME NEW t \in TxnInfo, NEW p \in {-1, 0, 1, 2}
  PROVE  LET u == [t EXCEPT !.in_phase = p]
         IN  /\ Counted(t, u) /\ u.in_phase = p /\ u.prop_max = t.prop_max
             /\ u.prom_yes = t.prom_yes
BY DEF Counted, TxnInfo

\* A broadcast of a request keeps the connections' type.
LEMMA BroadcastType ==
  ASSUME link \in [Node -> [Node -> Seq(Request)]],
         NEW n \in Node, NEW m \in Request
  PROVE  Broadcast(n, m) \in [Node -> [Node -> Seq(Request)]]
BY DEF Broadcast
-----------------------------------------------------------------------------
\* Type correctness.  The newest slot stays within the bound because a node
\* advances it once per request it gets called back (SlotsConsecutive).
TypeInv == TypeOK /\ SlotsConsecutive

\* The newest slot of a node is a number.
LEMMA NewestType == ASSUME TypeOK PROVE \A q \in Node : newest[q].sid \in Nat
<1>1. newest \in [Node -> [sid : 1 .. MaxReq + 1, is_me : BOOLEAN]]
  BY DEF TypeOK
<1> QED
  BY <1>1, BoundAssumption

\* Initially nothing is attached and no slot is used.
LEMMA TypeInit == Init => TypeInv
<1> SUFFICES ASSUME Init PROVE TypeInv
  OBVIOUS
<1>1. Fresh \in AccpInfo
  BY DEF Fresh, AccpInfo
<1>2. TypeOK
  BY <1>1, IdleType, BoundAssumption DEF Init, TypeOK
<1>3. SlotsConsecutive
  BY IdleType, BoundAssumption DEF Init, SlotsConsecutive
<1> QED
  BY <1>2, <1>3 DEF TypeInv

\* What is on a connection is requests.
LEMMA HeadType ==
  ASSUME TypeOK, NEW n \in Node, NEW a \in Node, link[n][a] # <<>>
  PROVE  Head(link[n][a]) \in Request /\ Tail(link[n][a]) \in Seq(Request)
BY DEF TypeOK

\* Answer takes a request off a connection and puts a reply of the same
\* connection in its place.
LEMMA AnswerType ==
  ASSUME TypeOK, NEW a \in Node, NEW n \in Node, link[n][a] # <<>>,
         NEW type \in {"promise", "accepted"}, NEW ack \in Ack,
         NEW props \in Seq(Prop), Answer(a, n, type, ack, props)
  PROVE  /\ link' \in [Node -> [Node -> Seq(Request)]]
         /\ reply' \in [Node -> [Node -> Seq(Reply)]]
<1>1. Head(link[n][a]) \in Request /\ Tail(link[n][a]) \in Seq(Request)
  BY HeadType
<1>2. [type |-> type, req |-> Head(link[n][a]).req, sid |-> Head(link[n][a]).sid,
       bid |-> Head(link[n][a]).bid, ack |-> ack, props |-> props] \in Reply
  BY <1>1 DEF Request, Reply
<1> QED
  BY <1>1, <1>2, SMTT(30) DEF Answer, TypeOK

\* A commit only counts.
LEMMA CommitType ==
  ASSUME TypeInv, NEW n \in Node, Commit(n)
  PROVE  TypeInv'
<1>1. TypeOK'
  BY BoundAssumption DEF TypeInv, TypeOK, Commit
<1>2. SlotsConsecutive'
  <2>1. /\ asked' = [asked EXCEPT ![n] = @ + 1]
        /\ UNCHANGED <<done, newest, decided, txn>>
    BY DEF Commit
  <2>2. \A q \in Node : asked[q] \in Nat /\ done[q] \in Nat
    BY BoundAssumption DEF TypeInv, TypeOK
  <2>3. \A q \in Node : asked'[q] >= asked[q]
    BY <2>1, <2>2 DEF TypeInv, TypeOK
  <2>4. \A q \in Node : asked'[q] \in Nat
    BY <1>1, BoundAssumption DEF TypeOK
  <2> QED
    BY <2>1, <2>2, <2>3, <2>4 DEF TypeInv, SlotsConsecutive
<1> QED
  BY <1>1, <1>2 DEF TypeInv

\* The new transaction is for the newest slot and the next request.
LEMMA StartRequestType ==
  ASSUME TypeInv, NEW n \in Node, StartRequest(n)
  PROVE  TypeInv'
<1> DEFINE saveprep == newest[n].is_me
           p == IF saveprep THEN 2 ELSE 1
           b == IF saveprep THEN BidPrior ELSE BidNormal
           t == NewTxn(p, done[n] + 1, newest[n].sid, b)
           m == IF saveprep THEN AcceptMsg(n, t) ELSE PrepareMsg(n, t)
<1>1. /\ txn' = [txn EXCEPT ![n] = t]
      /\ link' = Broadcast(n, m)
  BY DEF StartRequest
<1>2. done[n] + 1 \in 1 .. MaxReq /\ newest[n].sid = done[n] + 1
  BY BoundAssumption DEF StartRequest, TypeInv, TypeOK, SlotsConsecutive
<1>3. t \in TxnInfo /\ t.req = done[n] + 1 /\ t.sid = newest[n].sid
  <2>1. p \in {-1, 0, 1, 2} /\ b \in Bid
    OBVIOUS
  <2> HIDE DEF p, b
  <2> QED
    BY <1>2, <2>1, NewTxnType
<1> HIDE DEF t
<1>4. m \in Request
  <2>1. PrepareMsg(n, t) \in Request /\ AcceptMsg(n, t) \in Request
    BY <1>2, <1>3, MessageType
  <2> QED
    BY <2>1
<1> HIDE DEF m
<1>5. TypeOK'
  <2>1. link' \in [Node -> [Node -> Seq(Request)]]
    BY <1>1, <1>4, BroadcastType DEF TypeInv, TypeOK
  <2>2. txn' \in [Node -> TxnInfo]
    BY <1>1, <1>3 DEF TypeInv, TypeOK
  <2>3. UNCHANGED <<up, asked, done, newest, decided, acc, reply, log, grants>>
    BY DEF StartRequest
  <2> QED
    BY <2>1, <2>2, <2>3 DEF TypeInv, TypeOK
<1>6. SlotsConsecutive'
  <2>1. /\ UNCHANGED <<asked, done, newest, decided>> /\ done[n] < asked[n]
        /\ txn'[n] = t /\ \A q \in Node \ {n} : txn'[q] = txn[q]
    BY <1>1 DEF StartRequest, TypeInv, TypeOK
  <2>2. SlotsConsecutive
    BY DEF TypeInv
  <2> QED
    BY <1>3, <2>1, <2>2 DEF SlotsConsecutive
<1> QED
  BY <1>5, <1>6 DEF TypeInv

\* The acceptor's handlers leave the proposers alone.
LEMMA HandlePrepareType ==
  ASSUME TypeInv, NEW a \in Node, NEW n \in Node, HandlePrepare(a, n)
  PROVE  TypeInv'
<1> DEFINE m == Head(link[n][a])
           ainfo == acc[a][m.sid]
           ok == m.bid > ainfo.bid_max
<1>1. m \in Request
  BY HeadType DEF HandlePrepare, Arrived, TypeInv
<1>2. ainfo \in AccpInfo /\ m.sid \in Slot /\ m.bid \in Bid
  BY <1>1 DEF TypeInv, TypeOK, Request
<1>3. /\ acc' = [acc EXCEPT ![a][m.sid].bid_max = IF ok THEN m.bid ELSE @]
      /\ grants' = IF ok THEN grants \cup {<<a, m.sid, n>>} ELSE grants
      /\ Answer(a, n, "promise", IF ok THEN "SUCCESS" ELSE "ERR_BID", ainfo.props)
      /\ link[n][a] # <<>>
      /\ UNCHANGED <<up, proposerVars, log>>
  BY DEF HandlePrepare, Arrived, Promised
<1> HIDE DEF m, ok
<1>4. acc' \in [Node -> [Slot -> AccpInfo]]
  BY <1>2, <1>3 DEF TypeInv, TypeOK, AccpInfo
<1>5. grants' \subseteq Node \X Slot \X Node
  BY <1>2, <1>3 DEF TypeInv, TypeOK
<1>6. /\ link' \in [Node -> [Node -> Seq(Request)]]
      /\ reply' \in [Node -> [Node -> Seq(Reply)]]
  <2> DEFINE ack == IF ok THEN "SUCCESS" ELSE "ERR_BID"
  <2>1. ack \in Ack /\ ainfo.props \in Seq(Prop) /\ TypeOK
    BY <1>2 DEF Ack, AccpInfo, TypeInv
  <2>2. Answer(a, n, "promise", ack, ainfo.props)
    BY <1>3
  <2> HIDE DEF ack, ainfo
  <2> QED
    BY <1>3, <2>1, <2>2, AnswerType
<1>7. TypeOK'
  BY <1>3, <1>4, <1>5, <1>6 DEF TypeInv, TypeOK, proposerVars
<1>8. SlotsConsecutive'
  BY <1>3 DEF TypeInv, SlotsConsecutive, proposerVars
<1> QED
  BY <1>7, <1>8 DEF TypeInv

\* An accepted proposal is added to the slot it is for.
LEMMA HandleAcceptType ==
  ASSUME TypeInv, NEW a \in Node, NEW n \in Node, HandleAccept(a, n)
  PROVE  TypeInv'
<1> DEFINE m == Head(link[n][a])
           ok == m.bid >= acc[a][m.sid].bid_max
           prop == [bid |-> m.bid, nid |-> m.nid]
<1>1. m \in Request
  BY HeadType DEF HandleAccept, Arrived, TypeInv
<1>2. acc[a][m.sid] \in AccpInfo /\ m.sid \in Slot /\ prop \in Prop
  BY <1>1 DEF TypeInv, TypeOK, Request, Prop
<1>3. /\ acc' = [acc EXCEPT ![a][m.sid].props = IF ok THEN Append(@, prop) ELSE @]
      /\ Answer(a, n, "accepted", IF ok THEN "SUCCESS" ELSE "ERR_BID", <<>>)
      /\ link[n][a] # <<>>
      /\ UNCHANGED <<up, proposerVars, log, grants>>
  BY DEF HandleAccept, Arrived, Accepted
<1> HIDE DEF m, ok, prop
<1>4. acc' \in [Node -> [Slot -> AccpInfo]]
  <2> DEFINE props == IF ok THEN Append(acc[a][m.sid].props, prop)
                            ELSE acc[a][m.sid].props
  <2>1. props \in Seq(Prop)
    BY <1>2 DEF AccpInfo
  <2>2. acc' = [acc EXCEPT ![a][m.sid].props = props]
    BY <1>3
  <2> HIDE DEF props
  <2> QED
    BY <1>2, <2>1, <2>2 DEF TypeInv, TypeOK, AccpInfo
<1>5. /\ link' \in [Node -> [Node -> Seq(Request)]]
      /\ reply' \in [Node -> [Node -> Seq(Reply)]]
  <2> DEFINE ack == IF ok THEN "SUCCESS" ELSE "ERR_BID"
  <2>1. ack \in Ack /\ <<>> \in Seq(Prop) /\ TypeOK
    BY DEF Ack, TypeInv
  <2>2. Answer(a, n, "accepted", ack, <<>>)
    BY <1>3
  <2> HIDE DEF ack
  <2> QED
    BY <1>3, <2>1, <2>2, AnswerType
<1>6. TypeOK'
  BY <1>3, <1>4, <1>5 DEF TypeInv, TypeOK, proposerVars
<1>7. SlotsConsecutive'
  BY <1>3 DEF TypeInv, SlotsConsecutive, proposerVars
<1> QED
  BY <1>6, <1>7 DEF TypeInv

\* What is in the reply queue of a connection is replies.
LEMMA ReplyHeadType ==
  ASSUME TypeOK, NEW n \in Node, NEW a \in Node, reply[n][a] # <<>>
  PROVE  /\ Head(reply[n][a]) \in Reply
         /\ [reply EXCEPT ![n][a] = Tail(@)] \in [Node -> [Node -> Seq(Reply)]]
<1>1. reply[n][a] \in Seq(Reply) /\ reply[n][a] # <<>>
  BY DEF TypeOK
<1>2. Head(reply[n][a]) \in Reply /\ Tail(reply[n][a]) \in Seq(Reply)
  BY <1>1
<1> QED
  BY <1>2 DEF TypeOK

\* A promise moves the transaction to another phase at most.
LEMMA HandlePromiseType ==
  ASSUME TypeInv, NEW n \in Node, NEW a \in Node, HandlePromise(n, a)
  PROVE  TypeInv'
<1> DEFINE m == Head(reply[n][a])
           t == CountPromise(txn[n], a, m)
           verdict == CheckMajority(t.prom_yes, t.prom_no)
           p == CASE verdict = "YES" -> 2 [] verdict = "NO" -> -1 [] OTHER -> 1
           t2 == [t EXCEPT !.in_phase = p]
<1>1. /\ \/ UNCHANGED <<up, txn, link>>
         \/ up' = [up EXCEPT ![n] = FALSE] /\ UNCHANGED <<txn, link>>
         \/ /\ Current(txn[n], m, 1)
            /\ txn' = [txn EXCEPT ![n] = t2]
            /\ link' = IF verdict = "YES" THEN Broadcast(n, AcceptMsg(n, t2))
                                          ELSE link
            /\ UNCHANGED up
      /\ reply' = [reply EXCEPT ![n][a] = Tail(@)]
      /\ reply[n][a] # <<>>
      /\ UNCHANGED <<asked, done, newest, decided, acc, log, grants>>
  BY DEF HandlePromise, Replied
<1>2. m \in Reply /\ reply' \in [Node -> [Node -> Seq(Reply)]]
  BY <1>1, ReplyHeadType DEF TypeInv
<1>3. txn[n] \in TxnInfo
  BY DEF TypeInv, TypeOK
<1>4. p \in {-1, 1, 2}
  OBVIOUS
<1> HIDE DEF p, verdict, m
<1>5. t2 \in TxnInfo /\ t2.req = txn[n].req /\ t2.sid = txn[n].sid
  <2>1. Counted(txn[n], t)
    BY <1>2, <1>3, CountType
  <2> HIDE DEF t
  <2>2. t \in TxnInfo /\ p \in {-1, 0, 1, 2}
    BY <1>4, <2>1 DEF Counted
  <2>3. Counted(t, t2)
    BY <2>2, PhaseType
  <2> QED
    BY <2>1, <2>3 DEF Counted
<1> HIDE DEF t2
<1>6. CASE \/ UNCHANGED <<up, txn, link>>
           \/ up' = [up EXCEPT ![n] = FALSE] /\ UNCHANGED <<txn, link>>
  <2>1. TypeOK'
    BY <1>1, <1>2, <1>6 DEF TypeInv, TypeOK
  <2>2. SlotsConsecutive'
    BY <1>1, <1>6 DEF TypeInv, SlotsConsecutive
  <2> QED
    BY <2>1, <2>2 DEF TypeInv
<1>7. CASE /\ Current(txn[n], m, 1)
           /\ txn' = [txn EXCEPT ![n] = t2]
           /\ link' = IF verdict = "YES" THEN Broadcast(n, AcceptMsg(n, t2))
                                         ELSE link
           /\ UNCHANGED up
  <2>1. txn[n].req # 0
    BY <1>2, <1>7 DEF Current, Reply
  <2>2. link' \in [Node -> [Node -> Seq(Request)]]
    BY <1>5, <1>7, <2>1, MessageType, BroadcastType DEF TypeInv, TypeOK
  <2>3. TypeOK'
    BY <1>1, <1>2, <1>5, <1>7, <2>2 DEF TypeInv, TypeOK
  <2>4. txn[n].in_phase # 0
    BY <1>7 DEF Current
  <2>5. SlotsConsecutive'
    BY <1>1, <1>5, <1>7, <2>4 DEF TypeInv, TypeOK, SlotsConsecutive
  <2> QED
    BY <2>3, <2>5 DEF TypeInv
<1> QED
  BY <1>1, <1>6, <1>7

\* What a decision does, the transaction being for the newest slot.
LEMMA DecideType ==
  ASSUME TypeInv, NEW n \in Node, NEW t \in TxnInfo,
         txn[n].in_phase # 0, t.req = txn[n].req, t.sid = txn[n].sid,
         Decide(n, t)
  PROVE  /\ txn' \in [Node -> TxnInfo]
         /\ done' \in [Node -> 0 .. MaxReq]
         /\ newest' \in [Node -> [sid : 1 .. MaxReq + 1, is_me : BOOLEAN]]
         /\ decided' \in [Node -> SUBSET Slot]
         /\ acc' \in [Node -> [Slot -> AccpInfo]]
         /\ log' \subseteq [sid : Slot, by : Node, req : 1 .. MaxReq]
         /\ newest'[n].sid = done'[n] + 1 /\ decided'[n] = 1 .. done'[n]
         /\ done'[n] = done[n] + 1 /\ done[n] < asked[n]
         /\ \A m \in Node \ {n} : /\ newest'[m] = newest[m]
                                  /\ decided'[m] = decided[m]
                                  /\ done'[m] = done[m] /\ txn'[m] = txn[m]
         /\ txn'[n] = Idle
<1> DEFINE s == t.sid
           mine == ChosenProp(n, t).nid = n
<1>1. /\ done[n] < asked[n] /\ s = newest[n].sid /\ s = done[n] + 1
      /\ t.req = done[n] + 1 /\ decided[n] = 1 .. done[n]
  BY DEF TypeInv, SlotsConsecutive
<1>2. /\ done[n] \in Nat /\ done[n] + 1 \in 1 .. MaxReq /\ s \in Slot
      /\ asked[n] \in 0 .. MaxReq
  BY <1>1, BoundAssumption DEF TypeInv, TypeOK
<1>3. newest' = [newest EXCEPT ![n] = [sid |-> s + 1, is_me |-> mine]]
  <2>1. newest[n].sid <= s
    BY <1>1, <1>2
  <2> QED
    BY <2>1 DEF Decide, NewestAfter
<1>4. /\ decided' = [decided EXCEPT ![n] = @ \cup {s}]
      /\ acc' = [acc EXCEPT ![n] = ForgetSlot(@, s)]
      /\ txn' = [txn EXCEPT ![n] = Idle]
      /\ done' = [done EXCEPT ![n] = @ + 1]
      /\ log' = log \cup {[sid |-> s, by |-> n, req |-> t.req]}
  BY DEF Decide
<1>5. mine \in BOOLEAN /\ Fresh \in AccpInfo
  BY DEF Fresh, AccpInfo
<1> HIDE DEF s, mine
<1>6. newest' \in [Node -> [sid : 1 .. MaxReq + 1, is_me : BOOLEAN]]
  <2>1. s + 1 \in 1 .. MaxReq + 1
    BY <1>2, BoundAssumption
  <2>2. [sid |-> s + 1, is_me |-> mine] \in [sid : 1 .. MaxReq + 1, is_me : BOOLEAN]
    BY <1>5, <2>1
  <2> QED
    BY <1>3, <2>2 DEF TypeInv, TypeOK
<1>7. acc' \in [Node -> [Slot -> AccpInfo]]
  <2>1. acc[n] \in [Slot -> AccpInfo]
    BY DEF TypeInv, TypeOK
  <2>2. ForgetSlot(acc[n], s) \in [Slot -> AccpInfo]
    BY <1>2, <1>5, <2>1, BoundAssumption DEF ForgetSlot
  <2> QED
    BY <1>4, <2>2 DEF TypeInv, TypeOK
<1>8. /\ txn' \in [Node -> TxnInfo]
      /\ done' \in [Node -> 0 .. MaxReq]
      /\ decided' \in [Node -> SUBSET Slot]
      /\ log' \subseteq [sid : Slot, by : Node, req : 1 .. MaxReq]
  <2>1. txn' \in [Node -> TxnInfo]
    BY <1>4, IdleType DEF TypeInv, TypeOK
  <2>2. done' \in [Node -> 0 .. MaxReq]
    BY <1>1, <1>2, <1>4 DEF TypeInv, TypeOK
  <2>3. decided' \in [Node -> SUBSET Slot]
    BY <1>2, <1>4 DEF TypeInv, TypeOK
  <2>4. log' \subseteq [sid : Slot, by : Node, req : 1 .. MaxReq]
    <3>1. [sid |-> s, by |-> n, req |-> t.req]
            \in [sid : Slot, by : Node, req : 1 .. MaxReq]
      BY <1>1, <1>2
    <3> QED
      BY <1>4, <3>1 DEF TypeInv, TypeOK
  <2> QED
    BY <2>1, <2>2, <2>3, <2>4
<1>9. /\ newest'[n].sid = done[n] + 2 /\ done'[n] = done[n] + 1
      /\ decided'[n] = 1 .. (done[n] + 1)
  BY <1>1, <1>2, <1>3, <1>4 DEF TypeInv, TypeOK
<1>10. \A m \in Node \ {n} : /\ newest'[m] = newest[m]
                             /\ decided'[m] = decided[m]
                             /\ done'[m] = done[m] /\ txn'[m] = txn[m]
  BY <1>3, <1>4 DEF TypeInv, TypeOK
<1>11. txn'[n] = Idle
  BY <1>4 DEF TypeInv, TypeOK
<1> QED
  BY <1>1, <1>2, <1>6, <1>7, <1>8, <1>9, <1>10, <1>11

\* An accepted reply ends the transaction or leaves it attached.
LEMMA HandleAcceptedType ==
  ASSUME TypeInv, NEW n \in Node, NEW a \in Node, HandleAccepted(n, a)
  PROVE  TypeInv'
<1> DEFINE m == Head(reply[n][a])
           t == CountAccepted(txn[n], a, m)
           verdict == CheckMajority(t.accd_yes, t.accd_no)
           p == IF verdict = "NO" THEN -1 ELSE 2
           t2 == [t EXCEPT !.in_phase = p]
<1>1. /\ \/ UNCHANGED <<up, done, txn, newest, decided, acc, log>>
         \/ /\ up' = [up EXCEPT ![n] = FALSE]
            /\ UNCHANGED <<done, txn, newest, decided, acc, log>>
         \/ /\ Current(txn[n], m, 2) /\ UNCHANGED up /\ Decide(n, t)
         \/ /\ Current(txn[n], m, 2) /\ UNCHANGED up
            /\ txn' = [txn EXCEPT ![n] = t2]
            /\ UNCHANGED <<done, newest, decided, acc, log>>
      /\ reply' = [reply EXCEPT ![n][a] = Tail(@)]
      /\ reply[n][a] # <<>>
      /\ UNCHANGED <<asked, link, grants>>
  BY DEF HandleAccepted, Replied
<1>2. m \in Reply /\ reply' \in [Node -> [Node -> Seq(Reply)]]
  BY <1>1, ReplyHeadType DEF TypeInv
<1>3. txn[n] \in TxnInfo
  BY DEF TypeInv, TypeOK
<1>4. p \in {-1, 2}
  OBVIOUS
<1> HIDE DEF p, verdict, m
<1>5. /\ t2 \in TxnInfo /\ t2.req = txn[n].req /\ t2.sid = txn[n].sid
      /\ t \in TxnInfo /\ t.req = txn[n].req /\ t.sid = txn[n].sid
  <2>1. Counted(txn[n], t)
    BY <1>2, <1>3, CountType
  <2> HIDE DEF t
  <2>2. t \in TxnInfo /\ p \in {-1, 0, 1, 2}
    BY <1>4, <2>1 DEF Counted
  <2>3. Counted(t, t2)
    BY <2>2, PhaseType
  <2> QED
    BY <2>1, <2>3 DEF Counted
<1> HIDE DEF t2, t
<1>6. CASE \/ UNCHANGED <<up, done, txn, newest, decided, acc, log>>
           \/ /\ up' = [up EXCEPT ![n] = FALSE]
              /\ UNCHANGED <<done, txn, newest, decided, acc, log>>
  <2>1. TypeOK'
    BY <1>1, <1>2, <1>6 DEF TypeInv, TypeOK
  <2>2. SlotsConsecutive'
    BY <1>1, <1>6 DEF TypeInv, SlotsConsecutive
  <2> QED
    BY <2>1, <2>2 DEF TypeInv
<1>7. CASE Current(txn[n], m, 2) /\ UNCHANGED up /\ Decide(n, t)
  <2>1. txn[n].in_phase # 0
    BY <1>7 DEF Current
  <2>2. TypeOK'
    BY <1>1, <1>2, <1>5, <1>7, <2>1, DecideType DEF TypeInv, TypeOK
  <2>3. SlotsConsecutive'
    <3> SUFFICES ASSUME NEW q \in Node
                 PROVE  /\ done'[q] <= asked'[q]
                        /\ newest'[q].sid = done'[q] + 1
                        /\ decided'[q] = 1 .. done'[q]
                        /\ txn'[q].in_phase # 0 =>
                             /\ done'[q] < asked'[q]
                             /\ txn'[q].sid = newest'[q].sid
                             /\ txn'[q].req = done'[q] + 1
      BY DEF SlotsConsecutive
    <3>1. /\ newest'[n].sid = done'[n] + 1 /\ decided'[n] = 1 .. done'[n]
          /\ done'[n] = done[n] + 1 /\ done[n] < asked[n]
          /\ \A q2 \in Node \ {n} : /\ newest'[q2] = newest[q2]
                                  /\ decided'[q2] = decided[q2]
                                  /\ done'[q2] = done[q2] /\ txn'[q2] = txn[q2]
          /\ txn'[n] = Idle
      BY <1>5, <1>7, <2>1, DecideType
    <3>2. CASE q = n
      <4>1. asked' = asked /\ done[n] \in Nat /\ asked[n] \in Nat
        BY <1>1, BoundAssumption DEF TypeInv, TypeOK
      <4> QED
        BY <3>1, <3>2, <4>1, IdleType
    <3>3. CASE q # n
      BY <1>1, <3>1, <3>3 DEF TypeInv, SlotsConsecutive
    <3> QED
      BY <3>2, <3>3
  <2> QED
    BY <2>2, <2>3 DEF TypeInv
<1>8. CASE /\ Current(txn[n], m, 2) /\ UNCHANGED up
           /\ txn' = [txn EXCEPT ![n] = t2]
           /\ UNCHANGED <<done, newest, decided, acc, log>>
  <2>1. TypeOK'
    BY <1>1, <1>2, <1>5, <1>8 DEF TypeInv, TypeOK
  <2>2. txn[n].in_phase # 0
    BY <1>8 DEF Current
  <2>3. SlotsConsecutive'
    BY <1>1, <1>5, <1>8, <2>2 DEF TypeInv, TypeOK, SlotsConsecutive
  <2> QED
    BY <2>1, <2>3 DEF TypeInv
<1> QED
  BY <1>1, <1>6, <1>7, <1>8

\* A process that stops leaves its state behind.
LEMMA DownType ==
  ASSUME TypeInv, NEW n \in Node, NEW a \in Node,
         Crash(n) \/ AbortOnPrepare(n, a) \/ AbortOnWrite(n, a)
  PROVE  TypeInv'
<1>1. /\ up' = [up EXCEPT ![n] = FALSE]
      /\ UNCHANGED <<proposerVars, acc, link, reply, log, grants>>
  BY DEF Crash, AbortOnPrepare, AbortOnWrite
<1>2. TypeOK'
  BY <1>1 DEF TypeInv, TypeOK, proposerVars
<1>3. SlotsConsecutive'
  BY <1>1 DEF TypeInv, SlotsConsecutive, proposerVars
<1> QED
  BY <1>2, <1>3 DEF TypeInv

\* Every step keeps the types and the numbering of the slots.
LEMMA TypeStep == TypeInv /\ [Next]_vars => TypeInv'
<1> SUFFICES ASSUME TypeInv, [Next]_vars PROVE TypeInv'
  OBVIOUS
<1>1. CASE UNCHANGED vars
  <2>1. TypeOK'
    BY <1>1 DEF TypeInv, TypeOK, vars, proposerVars
  <2>2. SlotsConsecutive'
    BY <1>1 DEF TypeInv, SlotsConsecutive, vars, proposerVars
  <2> QED
    BY <2>1, <2>2 DEF TypeInv
<1>2. CASE Next
  BY <1>2, CommitType, StartRequestType, HandlePrepareType, HandleAcceptType,
     HandlePromiseType, HandleAcceptedType, DownType DEF Next
<1> QED
  BY <1>1, <1>2

\* Every state of every behaviour is well typed.
THEOREM TypeCorrect == Spec => []TypeOK
<1>1. TypeInv => TypeOK
  BY DEF TypeInv
<1> QED
  BY <1>1, TypeInit, TypeStep, PTL DEF Spec

\* A node fills the slots in commit order, without gaps.
THEOREM SlotsAreConsecutive == Spec => []SlotsConsecutive
<1>1. TypeInv => SlotsConsecutive
  BY DEF TypeInv
<1> QED
  BY <1>1, TypeInit, TypeStep, PTL DEF Spec
-----------------------------------------------------------------------------
\* A slot that a step leaves alone.
LEMMA SlotUnchanged ==
  ASSUME TypeOK, NEW a \in Node, NEW s \in Slot, acc'[a][s] = acc[a][s]
  PROVE  AcceptorStep(a, s)
<1>1. acc[a][s] \in AccpInfo
  <2>1. acc \in [Node -> [Slot -> AccpInfo]]
    BY DEF TypeOK
  <2> QED
    BY <2>1
<1>2. acc[a][s].bid_max \in Int /\ acc[a][s].props \in Seq(Prop)
  BY <1>1 DEF AccpInfo
<1> QED
  BY <1>2 DEF AcceptorStep

\* A prepare raises bid_max or leaves it.
LEMMA HandlePrepareMemory ==
  ASSUME TypeInv, NEW a \in Node, NEW n \in Node, HandlePrepare(a, n),
         NEW b \in Node, NEW s \in Slot
  PROVE  AcceptorStep(b, s)
<1> DEFINE m == Head(link[n][a])
<1>1. m \in Request /\ acc' = [acc EXCEPT ![a][m.sid] = Promised(@, m)]
  BY HeadType DEF HandlePrepare, Arrived, TypeInv
<1>2. acc[a][m.sid] \in AccpInfo /\ m.sid \in Slot /\ m.bid \in Bid
  BY <1>1 DEF TypeInv, TypeOK, Request
<1> HIDE DEF m
<1>3. CASE b = a /\ s = m.sid
  <2>1. acc'[b][s] = Promised(acc[a][m.sid], m)
    BY <1>1, <1>2, <1>3 DEF TypeInv, TypeOK
  <2>2. /\ acc'[b][s].bid_max >= acc[b][s].bid_max
        /\ acc'[b][s].props = acc[b][s].props
    BY <1>2, <1>3, <2>1 DEF Promised, AccpInfo
  <2>3. acc[b][s].props \in Seq(Prop)
    BY <1>2, <1>3 DEF AccpInfo
  <2> QED
    BY <2>2, <2>3 DEF AcceptorStep
<1>4. CASE ~ (b = a /\ s = m.sid)
  <2>1. acc'[b][s] = acc[b][s]
    BY <1>1, <1>2, <1>4 DEF TypeInv, TypeOK
  <2> QED
    BY <2>1, SlotUnchanged DEF TypeInv
<1> QED
  BY <1>3, <1>4

\* An accept adds a proposal that is not below bid_max, behind the others.
LEMMA HandleAcceptMemory ==
  ASSUME TypeInv, NEW a \in Node, NEW n \in Node, HandleAccept(a, n),
         NEW b \in Node, NEW s \in Slot
  PROVE  AcceptorStep(b, s)
<1> DEFINE m == Head(link[n][a])
           prop == [bid |-> m.bid, nid |-> m.nid]
<1>1. m \in Request /\ acc' = [acc EXCEPT ![a][m.sid] = Accepted(@, m)]
  BY HeadType DEF HandleAccept, Arrived, TypeInv
<1>2. acc[a][m.sid] \in AccpInfo /\ m.sid \in Slot /\ m.bid \in Bid /\ prop \in Prop
  BY <1>1 DEF TypeInv, TypeOK, Request, Prop
<1>3. prop.bid = m.bid
  OBVIOUS
<1>4. Accepted(acc[a][m.sid], m)
        = [acc[a][m.sid] EXCEPT !.props = IF m.bid >= acc[a][m.sid].bid_max
                                          THEN Append(@, prop) ELSE @]
  BY DEF Accepted
<1> HIDE DEF m, prop
<1>5. CASE b = a /\ s = m.sid
  <2> DEFINE old == acc[b][s]
             new == acc'[b][s]
  <2>1. new = [old EXCEPT !.props = IF m.bid >= old.bid_max
                                    THEN Append(@, prop) ELSE @]
    BY <1>1, <1>2, <1>4, <1>5 DEF TypeInv, TypeOK
  <2>2. old.bid_max \in Int /\ old.props \in Seq(Prop) /\ m.bid \in Int
        /\ old \in AccpInfo
    BY <1>2, <1>5 DEF AccpInfo
  <2>3. new.bid_max = old.bid_max
        /\ new.props = IF m.bid >= old.bid_max THEN Append(old.props, prop)
                                               ELSE old.props
    BY <2>1, <2>2 DEF AccpInfo
  <2> HIDE DEF old, new
  <2>4. /\ Len(new.props) >= Len(old.props)
        /\ \A i \in DOMAIN new.props :
             IF i \in DOMAIN old.props THEN new.props[i] = old.props[i]
             ELSE new.props[i].bid >= old.bid_max
    <3>1. CASE m.bid >= old.bid_max
      BY <1>2, <1>3, <2>2, <2>3, <3>1
    <3>2. CASE ~ (m.bid >= old.bid_max)
      BY <2>2, <2>3, <3>2
    <3> QED
      BY <3>1, <3>2
  <2> QED
    BY <2>2, <2>3, <2>4 DEF AcceptorStep, old, new
<1>6. CASE ~ (b = a /\ s = m.sid)
  <2>1. acc'[b][s] = acc[b][s]
    BY <1>1, <1>2, <1>6 DEF TypeInv, TypeOK
  <2> QED
    BY <2>1, SlotUnchanged DEF TypeInv
<1> QED
  BY <1>5, <1>6

\* A decision drops a slot of its own node only, one it decided long before.
LEMMA HandleAcceptedMemory ==
  ASSUME TypeInv, NEW n \in Node, NEW a \in Node, HandleAccepted(n, a),
         NEW b \in Node, NEW s \in Slot
  PROVE  AcceptorStep(b, s)
<1> DEFINE m == Head(reply[n][a])
           t == CountAccepted(txn[n], a, m)
<1>1. /\ acc' = acc \/ (Current(txn[n], m, 2) /\ Decide(n, t))
      /\ reply[n][a] # <<>>
  BY DEF HandleAccepted, Replied
<1>2. m \in Reply /\ txn[n] \in TxnInfo
  BY <1>1, ReplyHeadType DEF TypeInv, TypeOK
<1>3. t.sid = txn[n].sid /\ t.req = txn[n].req /\ t \in TxnInfo
  BY <1>2, CountType DEF Counted
<1>4. CASE acc' = acc
  BY <1>4, SlotUnchanged DEF TypeInv
<1>5. CASE Current(txn[n], m, 2) /\ Decide(n, t)
  <2> HIDE DEF t
  <2>1. txn[n].in_phase # 0
    BY <1>5 DEF Current
  <2>2. t.sid = done[n] + 1 /\ done[n] \in Nat /\ decided[n] = 1 .. done[n]
    <3>1. txn[n].sid = newest[n].sid /\ newest[n].sid = done[n] + 1
          /\ decided[n] = 1 .. done[n]
      BY <2>1 DEF TypeInv, SlotsConsecutive
    <3>2. done[n] \in 0 .. MaxReq
      BY DEF TypeInv, TypeOK
    <3> QED
      BY <1>3, <3>1, <3>2, BoundAssumption
  <2>3. newest'[n].sid = done[n] + 2
    <3>1. newest'[n].sid = done'[n] + 1 /\ done'[n] = done[n] + 1
      BY <1>3, <1>5, <2>1, DecideType
    <3> QED
      BY <2>2, <3>1
  <2>4. acc' = [acc EXCEPT ![n] = ForgetSlot(@, t.sid)]
    BY <1>5 DEF Decide
  <2>5. CASE b = n /\ t.sid > ForgetLag /\ s = t.sid - ForgetLag
    <3>1. acc'[b][s] = Fresh
      BY <2>4, <2>5 DEF ForgetSlot, TypeInv, TypeOK
    <3>2. s \in decided[b] /\ newest'[b].sid = s + ForgetLag + 1
      BY <2>2, <2>3, <2>5, BoundAssumption
    <3> QED
      BY <3>1, <3>2 DEF AcceptorStep
  <2>6. CASE ~ (b = n /\ t.sid > ForgetLag /\ s = t.sid - ForgetLag)
    <3>1. acc'[b][s] = acc[b][s]
      BY <2>4, <2>6 DEF ForgetSlot, TypeInv, TypeOK
    <3> QED
      BY <3>1, SlotUnchanged DEF TypeInv
  <2> QED
    BY <2>5, <2>6
<1> QED
  BY <1>1, <1>4, <1>5

\* No step of anyone makes an acceptor break a promise or lose a proposal of a
\* slot it still has to remember.
THEOREM AcceptorsRemember == Spec => AcceptorMemory
<1>1. TypeInv /\ [Next]_vars => [\A a \in Node, s \in Slot : AcceptorStep(a, s)]_vars
  <2> SUFFICES ASSUME TypeInv, Next, NEW b \in Node, NEW s \in Slot
               PROVE  AcceptorStep(b, s)
    OBVIOUS
  <2>1. CASE \E n \in Node : Commit(n) \/ StartRequest(n) \/ Crash(n)
    BY <2>1, SlotUnchanged DEF Commit, StartRequest, Crash, TypeInv
  <2>2. CASE \E n, a \in Node : AbortOnPrepare(a, n) \/ AbortOnWrite(n, a)
    BY <2>2, SlotUnchanged DEF AbortOnPrepare, AbortOnWrite, TypeInv
  <2>3. CASE \E n, a \in Node : HandlePromise(n, a)
    BY <2>3, SlotUnchanged DEF HandlePromise, TypeInv
  <2>4. CASE \E n, a \in Node : \/ HandlePrepare(a, n) \/ HandleAccept(a, n)
                                \/ HandleAccepted(n, a)
    BY <2>4, HandlePrepareMemory, HandleAcceptMemory, HandleAcceptedMemory
  <2> QED
    BY <2>1, <2>2, <2>3, <2>4 DEF Next
<1> QED
  BY <1>1, TypeInit, TypeStep, PTL DEF Spec, AcceptorMemory

-----------------------------------------------------------------------------
\* Majorities.

\* The acceptors that promised slot 1 to n are finitely many.
LEMMA GrantedFinite ==
  ASSUME NEW n
  PROVE  /\ IsFiniteSet({a \in Node : <<a, 1, n>> \in grants})
         /\ Cardinality({a \in Node : <<a, 1, n>> \in grants}) \in Nat
         /\ Cardinality(Node) \in Nat
BY NodeAssumption, FS_Subset, FS_CardinalityType

\* Two majorities are more than all nodes.
LEMMA MajorityType ==
  Majority \in Nat /\ Majority + Majority > Cardinality(Node)
<1>1. \A c \in Nat : c \div 2 + 1 \in Nat /\ (c \div 2 + 1) + (c \div 2 + 1) > c
  OBVIOUS
<1>2. Cardinality(Node) \in Nat
  BY NodeAssumption, FS_CardinalityType
<1> QED
  BY <1>1, <1>2 DEF Majority

\* A set of granting acceptors as large as a majority makes n the winner.
LEMMA WonBy ==
  ASSUME NEW n, NEW Q \in SUBSET Node, \A a \in Q : <<a, 1, n>> \in grants,
         Cardinality(Q) >= Majority
  PROVE  Won(n)
<1> DEFINE G == {a \in Node : <<a, 1, n>> \in grants}
<1>1. Q \subseteq G /\ IsFiniteSet(G)
  BY GrantedFinite
<1>2. /\ Cardinality(Q) <= Cardinality(G)
      /\ Cardinality(Q) \in Nat /\ Cardinality(G) \in Nat
  BY <1>1, FS_Subset, FS_CardinalityType
<1>3. Majority \in Nat
  BY MajorityType
<1> QED
  BY <1>2, <1>3 DEF Won

\* Grants are never taken back, so a winner stays the winner.
LEMMA WonStable ==
  ASSUME NEW n, Won(n), grants \subseteq grants'
  PROVE  Won(n)'
<1> DEFINE G == {a \in Node : <<a, 1, n>> \in grants}
           H == {a \in Node : <<a, 1, n>> \in grants'}
<1>1. G \subseteq H /\ IsFiniteSet(H)
  BY NodeAssumption, FS_Subset
<1>2. /\ Cardinality(G) <= Cardinality(H)
      /\ Cardinality(G) \in Nat /\ Cardinality(H) \in Nat
  BY <1>1, FS_Subset, FS_CardinalityType
<1>3. Majority \in Nat
  BY MajorityType
<1> QED
  BY <1>2, <1>3 DEF Won

\* Two majorities share an acceptor, and it granted one node only.
LEMMA SoleWinner ==
  ASSUME GrantInv, NEW m \in Node, NEW n \in Node, Won(m), Won(n)
  PROVE  m = n
<1> DEFINE G(x) == {a \in Node : <<a, 1, x>> \in grants}
<1>1. /\ Cardinality(G(m)) \in Nat /\ Cardinality(G(n)) \in Nat
      /\ Cardinality(Node) \in Nat
      /\ Cardinality(G(m)) + Cardinality(G(n)) > Cardinality(Node)
  <2>1. /\ Cardinality(G(m)) \in Nat /\ Cardinality(G(n)) \in Nat
        /\ Cardinality(Node) \in Nat
    BY GrantedFinite
  <2>2. Cardinality(G(m)) >= Majority /\ Cardinality(G(n)) >= Majority
    BY DEF Won
  <2> HIDE DEF G
  <2> QED
    BY <2>1, <2>2, MajorityType
<1>2. G(m) \cap G(n) # {}
  BY <1>1, NodeAssumption, FS_MajoritiesIntersect
<1>3. PICK a \in Node : <<a, 1, m>> \in grants /\ <<a, 1, n>> \in grants
  BY <1>2
<1> QED
  BY <1>3 DEF GrantInv
-----------------------------------------------------------------------------
\* Connections.

\* What a broadcast does to a connection.
LEMMA Sent ==
  ASSUME TypeOK, NEW n \in Node, NEW m \in Request, link' = Broadcast(n, m),
         NEW p \in Node, NEW a \in Node
  PROVE  /\ DOMAIN link[p][a] = 1 .. Len(link[p][a]) /\ Len(link[p][a]) \in Nat
         /\ DOMAIN link'[p][a] = 1 .. Len(link'[p][a])
         /\ Len(link'[p][a]) = IF p = n THEN Len(link[p][a]) + 1
                                        ELSE Len(link[p][a])
         /\ \A k \in DOMAIN link[p][a] : link'[p][a][k] = link[p][a][k]
         /\ p = n => link'[p][a][Len(link[p][a]) + 1] = m
<1>1. link[p][a] \in Seq(Request)
  BY DEF TypeOK
<1>2. link'[p][a] = IF p = n THEN Append(link[p][a], m) ELSE link[p][a]
  BY DEF Broadcast, TypeOK
<1>3. CASE p = n
  BY <1>1, <1>2, <1>3
<1>4. CASE p # n
  BY <1>1, <1>2, <1>4
<1> QED
  BY <1>3, <1>4

\* The elements of a sequence without its first.
LEMMA TailElements ==
  ASSUME NEW S, NEW q \in Seq(S), q # <<>>
  PROVE  /\ DOMAIN q = 1 .. Len(q) /\ Len(q) \in Nat \ {0}
         /\ Len(Tail(q)) = Len(q) - 1 /\ DOMAIN Tail(q) = 1 .. Len(q) - 1
         /\ \A k \in DOMAIN Tail(q) : Tail(q)[k] = q[k + 1]
         /\ Head(q) = q[1]
<1>1. DOMAIN q = 1 .. Len(q) /\ Len(q) \in Nat
  OBVIOUS
<1>2. Len(q) # 0 /\ Head(q) = q[1]
  OBVIOUS
<1>3. /\ Tail(q) \in Seq(S) /\ Len(Tail(q)) = Len(q) - 1
      /\ \A i \in 1 .. Len(Tail(q)) : Tail(q)[i] = q[i + 1]
  BY HeadTailProperties
<1>4. DOMAIN Tail(q) = 1 .. Len(q) - 1
  BY <1>3
<1> QED
  BY <1>1, <1>2, <1>3, <1>4

\* What taking off the first request does to a connection.
LEMMA Received ==
  ASSUME TypeOK, NEW n \in Node, NEW a \in Node, link[n][a] # <<>>,
         link' = [link EXCEPT ![n][a] = Tail(@)]
  PROVE  /\ DOMAIN link[n][a] = 1 .. Len(link[n][a])
         /\ Len(link[n][a]) \in Nat \ {0}
         /\ Len(link'[n][a]) = Len(link[n][a]) - 1
         /\ DOMAIN link'[n][a] = 1 .. Len(link[n][a]) - 1
         /\ \A k \in DOMAIN link'[n][a] : link'[n][a][k] = link[n][a][k + 1]
         /\ Head(link[n][a]) = link[n][a][1]
         /\ \A p, b \in Node : p # n \/ b # a => link'[p][b] = link[p][b]
<1>1. link[n][a] \in Seq(Request) /\ link[n][a] # <<>>
  BY DEF TypeOK
<1>2. link'[n][a] = Tail(link[n][a])
  BY DEF TypeOK
<1>3. \A p, b \in Node : p # n \/ b # a => link'[p][b] = link[p][b]
  BY DEF TypeOK
<1> DEFINE q == link[n][a]
<1>4. q \in Seq(Request) /\ q # <<>>
  BY <1>1
<1> HIDE DEF q
<1>5. /\ DOMAIN q = 1 .. Len(q) /\ Len(q) \in Nat \ {0}
      /\ Len(Tail(q)) = Len(q) - 1 /\ DOMAIN Tail(q) = 1 .. Len(q) - 1
      /\ \A k \in DOMAIN Tail(q) : Tail(q)[k] = q[k + 1]
      /\ Head(q) = q[1]
  BY <1>4, TailElements
<1> QED
  BY <1>2, <1>3, <1>5 DEF q

\* The request that is received is the first one.
LEMMA HeadIsFirst ==
  ASSUME TypeOK, NEW n \in Node, NEW a \in Node, link[n][a] # <<>>
  PROVE  /\ 1 \in DOMAIN link[n][a] /\ Head(link[n][a]) = link[n][a][1]
         /\ DOMAIN link[n][a] = 1 .. Len(link[n][a])
<1> DEFINE q == link[n][a]
<1>1. q \in Seq(Request) /\ q # <<>>
  BY DEF TypeOK
<1> HIDE DEF q
<1>2. DOMAIN q = 1 .. Len(q) /\ Len(q) \in Nat \ {0} /\ Head(q) = q[1]
  BY <1>1, TailElements
<1> QED
  BY <1>2 DEF q

\* A prepare that was sent stays ahead of what is sent later.
LEMMA PreparedSent ==
  ASSUME TypeOK, NEW n \in Node, NEW m \in Request, link' = Broadcast(n, m),
         grants' = grants, NEW p \in Node, NEW a \in Node, NEW k \in Nat,
         PreparedBefore(p, a, k)
  PROVE  PreparedBefore(p, a, k)'
<1>1. CASE <<a, 1, p>> \in grants
  BY <1>1 DEF PreparedBefore
<1>2. CASE \E j \in DOMAIN link[p][a] : j < k /\ link[p][a][j].type = "prepare"
  <2>1. PICK j \in DOMAIN link[p][a] : j < k /\ link[p][a][j].type = "prepare"
    BY <1>2
  <2>2. j \in DOMAIN link'[p][a] /\ link'[p][a][j] = link[p][a][j]
    BY Sent
  <2> QED
    BY <2>1, <2>2 DEF PreparedBefore
<1> QED
  BY <1>1, <1>2 DEF PreparedBefore

\* A prepare that is received is granted, or still ahead of its accepts.
LEMMA PreparedReceived ==
  ASSUME TypeOK, NEW n \in Node, NEW a \in Node, link[n][a] # <<>>,
         link' = [link EXCEPT ![n][a] = Tail(@)], grants \subseteq grants',
         Head(link[n][a]).type = "prepare" => <<a, 1, n>> \in grants',
         NEW k \in Nat, PreparedBefore(n, a, k + 1)
  PROVE  PreparedBefore(n, a, k)'
<1>1. CASE <<a, 1, n>> \in grants'
  BY <1>1 DEF PreparedBefore
<1>2. CASE <<a, 1, n>> \notin grants'
  <2>1. PICK j \in DOMAIN link[n][a] :
           j < k + 1 /\ link[n][a][j].type = "prepare"
    BY <1>2 DEF PreparedBefore
  <2>2. j \in 1 .. Len(link[n][a]) /\ j # 1 /\ Len(link[n][a]) \in Nat
    <3>1. DOMAIN link[n][a] = 1 .. Len(link[n][a]) /\ Len(link[n][a]) \in Nat
      BY Received
    <3>2. Head(link[n][a]) = link[n][a][1]
      BY Received
    <3> QED
      BY <1>2, <2>1, <3>1, <3>2
  <2>3. j - 1 \in DOMAIN link'[n][a] /\ j - 1 < k
    BY <2>1, <2>2, Received
  <2>4. link'[n][a][j - 1] = link[n][a][(j - 1) + 1] /\ (j - 1) + 1 = j
    <3>1. (j - 1) + 1 = j
      BY <2>2
    <3>2. \A i \in DOMAIN link'[n][a] : link'[n][a][i] = link[n][a][i + 1]
      BY Received
    <3> QED
      BY <2>3, <3>1, <3>2
  <2> QED
    BY <2>1, <2>3, <2>4 DEF PreparedBefore
<1> QED
  BY <1>1, <1>2

\* Broadcasting a prepare for slot 1, or an accept of the winner, keeps what
\* is known of the connections.
LEMMA SendLinkInv ==
  ASSUME TypeOK, LinkInv, NEW n \in Node, NEW m \in Request,
         link' = Broadcast(n, m), grants' = grants,
         m.bid = BidOf(m.sid), m.type = "prepare" => m.sid = 1,
         m.type = "accept" =>
           /\ Won(n) /\ m.nid = n
           /\ m.sid = 1 => \A a \in Node :
                             PreparedBefore(n, a, Len(link[n][a]) + 1)
  PROVE  LinkInv'
<1> SUFFICES ASSUME NEW p \in Node, NEW a \in Node, NEW k \in DOMAIN link'[p][a]
             PROVE  LET q == link'[p][a][k]
                    IN  /\ q.bid = BidOf(q.sid)
                        /\ q.type = "prepare" => q.sid = 1
                        /\ q.type = "accept" =>
                             /\ Won(p)' /\ q.nid = p
                             /\ q.sid = 1 => PreparedBefore(p, a, k)'
  BY DEF LinkInv, BidOf
<1>1. Won(p) => Won(p)'
  BY WonStable
<1>2. \A j \in Nat : PreparedBefore(p, a, j) => PreparedBefore(p, a, j)'
  BY PreparedSent
<1>3. /\ DOMAIN link[p][a] = 1 .. Len(link[p][a]) /\ Len(link[p][a]) \in Nat
      /\ DOMAIN link'[p][a] = 1 .. Len(link'[p][a])
      /\ Len(link'[p][a]) = IF p = n THEN Len(link[p][a]) + 1
                                     ELSE Len(link[p][a])
      /\ \A j \in DOMAIN link[p][a] : link'[p][a][j] = link[p][a][j]
      /\ p = n => link'[p][a][Len(link[p][a]) + 1] = m
  BY Sent
<1>4. CASE k \in DOMAIN link[p][a]
  <2>1. k \in Nat /\ link'[p][a][k] = link[p][a][k]
    BY <1>3, <1>4
  <2> QED
    BY <1>1, <1>2, <1>4, <2>1 DEF LinkInv
<1>5. CASE k \notin DOMAIN link[p][a]
  <2>1. p = n /\ k = Len(link[p][a]) + 1 /\ k \in Nat /\ link'[p][a][k] = m
    BY <1>3, <1>5
  <2> QED
    BY <1>1, <1>2, <2>1
<1> QED
  BY <1>4, <1>5

\* So does receiving a request, when a prepare is granted.
LEMMA ReceiveLinkInv ==
  ASSUME TypeOK, LinkInv, NEW n \in Node, NEW a \in Node, link[n][a] # <<>>,
         link' = [link EXCEPT ![n][a] = Tail(@)], grants \subseteq grants',
         Head(link[n][a]).type = "prepare" => <<a, 1, n>> \in grants'
  PROVE  LinkInv'
<1> SUFFICES ASSUME NEW p \in Node, NEW b \in Node, NEW k \in DOMAIN link'[p][b]
             PROVE  LET q == link'[p][b][k]
                    IN  /\ q.bid = BidOf(q.sid)
                        /\ q.type = "prepare" => q.sid = 1
                        /\ q.type = "accept" =>
                             /\ Won(p)' /\ q.nid = p
                             /\ q.sid = 1 => PreparedBefore(p, b, k)'
  BY DEF LinkInv, BidOf
<1>1. Won(p) => Won(p)'
  BY WonStable
<1>2. CASE p = n /\ b = a
  <2>1. /\ DOMAIN link[n][a] = 1 .. Len(link[n][a]) /\ Len(link[n][a]) \in Nat
        /\ DOMAIN link'[n][a] = 1 .. Len(link[n][a]) - 1
        /\ \A j \in DOMAIN link'[n][a] : link'[n][a][j] = link[n][a][j + 1]
    BY Received
  <2>2. /\ k \in Nat /\ k + 1 \in DOMAIN link[p][b]
        /\ link'[p][b][k] = link[p][b][k + 1]
    BY <1>2, <2>1
  <2>3. PreparedBefore(p, b, k + 1) => PreparedBefore(p, b, k)'
    BY <1>2, <2>2, PreparedReceived
  <2> QED
    BY <1>1, <2>2, <2>3 DEF LinkInv
<1>3. CASE p # n \/ b # a
  <2>1. link'[p][b] = link[p][b]
    BY <1>3, Received
  <2>2. PreparedBefore(p, b, k) => PreparedBefore(p, b, k)'
    BY <2>1 DEF PreparedBefore
  <2>3. k \in DOMAIN link[p][b] /\ link'[p][b][k] = link[p][b][k]
    BY <2>1
  <2>4. LET q == link[p][b][k]
        IN  /\ q.bid = BidOf(q.sid)
            /\ q.type = "prepare" => q.sid = 1
            /\ q.type = "accept" =>
                 /\ Won(p) /\ q.nid = p
                 /\ q.sid = 1 => PreparedBefore(p, b, k)
    BY <2>3 DEF LinkInv
  <2> QED
    BY <1>1, <2>2, <2>3, <2>4
<1> QED
  BY <1>2, <1>3

\* And it leaves a proposer in phase 1 prepared everywhere.
LEMMA ReceivePhaseOne ==
  ASSUME TypeOK, PhaseOneInv, txn' = txn, NEW n \in Node, NEW a \in Node,
         link[n][a] # <<>>,
         link' = [link EXCEPT ![n][a] = Tail(@)], grants \subseteq grants',
         Head(link[n][a]).type = "prepare" => <<a, 1, n>> \in grants'
  PROVE  PhaseOneInv'
<1> SUFFICES ASSUME NEW p \in Node, NEW b \in Node, txn[p].in_phase = 1
             PROVE  PreparedBefore(p, b, Len(link[p][b]) + 1)'
  BY DEF PhaseOneInv
<1>1. PreparedBefore(p, b, Len(link[p][b]) + 1)
  BY DEF PhaseOneInv
<1>2. CASE p = n /\ b = a
  <2>1. Len(link[n][a]) \in Nat \ {0} /\ Len(link'[n][a]) = Len(link[n][a]) - 1
    BY Received
  <2> DEFINE k == Len(link[n][a])
  <2>2. k \in Nat /\ Len(link'[n][a]) + 1 = k
    BY <2>1
  <2>3. PreparedBefore(n, a, k + 1)
    BY <1>1, <1>2
  <2> HIDE DEF k
  <2>4. \E i \in Nat : i = k /\ PreparedBefore(n, a, i + 1)
    BY <2>2, <2>3
  <2>5. PICK i \in Nat : i = k /\ PreparedBefore(n, a, i + 1)
    BY <2>4
  <2>6. PreparedBefore(n, a, i)'
    BY <2>5, PreparedReceived
  <2> QED
    BY <1>2, <2>2, <2>5, <2>6 DEF PreparedBefore
<1>3. CASE p # n \/ b # a
  <2>1. link'[p][b] = link[p][b]
    BY <1>3, Received
  <2> QED
    BY <1>1, <2>1 DEF PreparedBefore
<1> QED
  BY <1>2, <1>3

\* A reply without a proposal, and a promise that was granted, may be added.
LEMMA AddReplyInv ==
  ASSUME TypeOK, ReplyInv, NEW n \in Node, NEW a \in Node, NEW r,
         reply' = [reply EXCEPT ![n][a] = Append(@, r)],
         grants \subseteq grants', r.props = <<>>,
         r.type = "promise" => r.ack = "SUCCESS" /\ <<a, 1, n>> \in grants'
  PROVE  ReplyInv'
<1> SUFFICES ASSUME NEW p \in Node, NEW b \in Node, NEW k \in DOMAIN reply'[p][b]
             PROVE  LET q == reply'[p][b][k]
                    IN  /\ q.props = <<>>
                        /\ q.type = "promise" =>
                             q.ack = "SUCCESS" /\ <<b, 1, p>> \in grants'
  BY DEF ReplyInv
<1>1. reply'[p][b] = IF p = n /\ b = a THEN Append(reply[p][b], r) ELSE reply[p][b]
  BY DEF TypeOK
<1>2. reply[p][b] \in Seq(Reply)
  BY DEF TypeOK
<1>3. CASE k \in DOMAIN reply[p][b]
  <2>1. reply'[p][b][k] = reply[p][b][k]
    BY <1>1, <1>2, <1>3
  <2> QED
    BY <1>3, <2>1 DEF ReplyInv
<1>4. CASE k \notin DOMAIN reply[p][b]
  <2>1. p = n /\ b = a /\ reply'[p][b][k] = r
    BY <1>1, <1>2, <1>4
  <2> QED
    BY <2>1
<1> QED
  BY <1>3, <1>4

\* The reply that is taken off is one of them.
LEMMA TakeReplyInv ==
  ASSUME TypeOK, ReplyInv, NEW n \in Node, NEW a \in Node, reply[n][a] # <<>>,
         reply' = [reply EXCEPT ![n][a] = Tail(@)], grants' = grants
  PROVE  /\ ReplyInv'
         /\ Head(reply[n][a]).props = <<>>
         /\ Head(reply[n][a]).type = "promise" =>
              Head(reply[n][a]).ack = "SUCCESS" /\ <<a, 1, n>> \in grants
<1> DEFINE q == reply[n][a]
<1>1. q \in Seq(Reply) /\ q # <<>>
  BY DEF TypeOK
<1>2. reply'[n][a] = Tail(q)
      /\ \A p, b \in Node : p # n \/ b # a => reply'[p][b] = reply[p][b]
  BY DEF TypeOK
<1>3. \A k \in DOMAIN q : /\ q[k].props = <<>>
                          /\ q[k].type = "promise" =>
                               q[k].ack = "SUCCESS" /\ <<a, 1, n>> \in grants
  BY DEF ReplyInv
<1> HIDE DEF q
<1>4. /\ DOMAIN q = 1 .. Len(q) /\ Len(q) \in Nat \ {0}
      /\ DOMAIN Tail(q) = 1 .. Len(q) - 1
      /\ \A k \in DOMAIN Tail(q) : Tail(q)[k] = q[k + 1]
      /\ Head(q) = q[1]
  BY <1>1, TailElements
<1>5. \A k \in DOMAIN Tail(q) : k + 1 \in DOMAIN q
  BY <1>4
<1>6. \A k \in DOMAIN Tail(q) :
        /\ Tail(q)[k].props = <<>>
        /\ Tail(q)[k].type = "promise" =>
             Tail(q)[k].ack = "SUCCESS" /\ <<a, 1, n>> \in grants
  BY <1>3, <1>4, <1>5
<1>7. ReplyInv'
  <2> SUFFICES ASSUME NEW p \in Node, NEW b \in Node, NEW k \in DOMAIN reply'[p][b]
               PROVE  /\ reply'[p][b][k].props = <<>>
                      /\ reply'[p][b][k].type = "promise" =>
                           /\ reply'[p][b][k].ack = "SUCCESS"
                           /\ <<b, 1, p>> \in grants'
    BY DEF ReplyInv
  <2>1. CASE p = n /\ b = a
    BY <1>2, <1>6, <2>1
  <2>2. CASE p # n \/ b # a
    <3>1. reply'[p][b] = reply[p][b] /\ k \in DOMAIN reply[p][b]
      BY <1>2, <2>2
    <3>2. /\ reply[p][b][k].props = <<>>
          /\ reply[p][b][k].type = "promise" =>
               reply[p][b][k].ack = "SUCCESS" /\ <<b, 1, p>> \in grants
      BY <3>1 DEF ReplyInv
    <3> QED
      BY <3>1, <3>2
  <2> QED
    BY <2>1, <2>2
<1>8. 1 \in DOMAIN q
  BY <1>4
<1> QED
  BY <1>3, <1>4, <1>7, <1>8 DEF q
-----------------------------------------------------------------------------
\* The inductive step, action by action.

\* Initially nothing is sent, granted or decided.
LEMMA CoreInit == Init => CoreInv
<1> SUFFICES ASSUME Init PROVE CoreInv
  OBVIOUS
<1>1. /\ Idle.in_phase = 0 /\ Idle.prop_max = NoProp /\ Idle.prom_yes = {}
      /\ Fresh.bid_max = 0 /\ Fresh.props = <<>>
  BY DEF Idle, NewTxn, Fresh
<1>2. ProposerInv /\ LogInv
  BY <1>1 DEF Init, ProposerInv, LogInv
<1>3. GrantInv
  BY <1>1, BoundAssumption DEF Init, GrantInv
<1>4. LinkInv /\ PhaseOneInv /\ ReplyInv
  BY <1>1 DEF Init, LinkInv, PhaseOneInv, ReplyInv
<1> QED
  BY <1>2, <1>3, <1>4 DEF CoreInv

\* Steps that only count or stop a process.
LEMMA StableCore ==
  ASSUME CoreInv, UNCHANGED <<txn, newest, acc, link, reply, log, grants>>
  PROVE  CoreInv'
<1>1. ProposerInv' /\ GrantInv' /\ LogInv'
  BY DEF CoreInv, ProposerInv, GrantInv, LogInv, Won, BidOf
<1>2. LinkInv'
  <2>1. \A n, a \in Node : /\ Won(n)' <=> Won(n)
                          /\ \A k : PreparedBefore(n, a, k)' <=> PreparedBefore(n, a, k)
    BY DEF Won, PreparedBefore
  <2> QED
    BY <2>1 DEF CoreInv, LinkInv, BidOf
<1>3. PhaseOneInv'
  BY DEF CoreInv, PhaseOneInv, PreparedBefore
<1>4. ReplyInv'
  BY DEF CoreInv, ReplyInv
<1> QED
  BY <1>1, <1>2, <1>3, <1>4 DEF CoreInv

\* A new transaction: the winner goes on with the next slot, any other node
\* asks for slot 1.
LEMMA StartRequestCore ==
  ASSUME TypeInv, CoreInv, NEW n \in Node, StartRequest(n)
  PROVE  CoreInv'
<1> DEFINE saveprep == newest[n].is_me
           p == IF saveprep THEN 2 ELSE 1
           b == IF saveprep THEN BidPrior ELSE BidNormal
           t == NewTxn(p, done[n] + 1, newest[n].sid, b)
           m == IF saveprep THEN AcceptMsg(n, t) ELSE PrepareMsg(n, t)
<1>1. /\ txn' = [txn EXCEPT ![n] = t]
      /\ link' = Broadcast(n, m)
      /\ txn[n].in_phase = 0
      /\ UNCHANGED <<newest, acc, reply, log, grants>>
  BY DEF StartRequest
<1>2. /\ done[n] + 1 \in 1 .. MaxReq /\ newest[n].sid = done[n] + 1
      /\ newest[n].sid \in Slot /\ newest[n].is_me \in BOOLEAN
  BY BoundAssumption DEF StartRequest, TypeInv, TypeOK, SlotsConsecutive
<1>3. /\ newest[n].is_me <=> newest[n].sid > 1
      /\ newest[n].sid > 1 => Won(n)
  BY DEF CoreInv, ProposerInv
<1>4. /\ t.in_phase = p /\ t.sid = newest[n].sid /\ t.bid = b
      /\ t.req = done[n] + 1 /\ t.prop_max = NoProp /\ t.prom_yes = {}
  BY DEF NewTxn
<1>5. /\ b = BidOf(t.sid)
      /\ p = 1 => t.sid = 1
      /\ p = 2 => Won(n) /\ t.sid # 1
      /\ p \in {1, 2}
  BY <1>2, <1>3, <1>4 DEF BidOf
<1>6. t \in TxnInfo /\ t.req # 0
  <2>1. p \in {-1, 0, 1, 2} /\ b \in Bid
    OBVIOUS
  <2> HIDE DEF p, b
  <2> QED
    BY <1>2, <2>1, NewTxnType
<1>7. /\ m.bid = BidOf(m.sid) /\ m.sid = t.sid
      /\ m.type = IF p = 2 THEN "accept" ELSE "prepare"
      /\ p = 2 => m.nid = n
  <2> HIDE DEF t
  <2> QED
    BY <1>4, <1>5 DEF AcceptMsg, PrepareMsg, ChosenProp
<1>8. m \in Request
  <2>1. PrepareMsg(n, t) \in Request /\ AcceptMsg(n, t) \in Request
    BY <1>6, MessageType
  <2> QED
    BY <2>1
<1> HIDE DEF m, t, p, b
<1>9. ProposerInv'
  BY <1>1, <1>4, <1>5 DEF CoreInv, ProposerInv, TypeInv, TypeOK, Won, BidOf
<1>10. GrantInv' /\ LogInv' /\ ReplyInv'
  <2>1. GrantInv'
    BY <1>1 DEF CoreInv, GrantInv
  <2>2. LogInv'
    BY <1>1 DEF CoreInv, LogInv, Won
  <2>3. ReplyInv'
    BY <1>1 DEF CoreInv, ReplyInv
  <2> QED
    BY <2>1, <2>2, <2>3
<1>11. LinkInv'
  <2>1. TypeOK /\ LinkInv /\ grants' = grants
    BY <1>1 DEF TypeInv, CoreInv
  <2>2. m.type = "prepare" => m.sid = 1
    BY <1>5, <1>7
  <2>3. m.type = "accept" => Won(n) /\ m.nid = n /\ m.sid # 1
    BY <1>5, <1>7
  <2> QED
    BY <1>1, <1>7, <1>8, <2>1, <2>2, <2>3, SendLinkInv
<1>12. PhaseOneInv'
  <2> SUFFICES ASSUME NEW q \in Node, NEW a \in Node, txn'[q].in_phase = 1
               PROVE  PreparedBefore(q, a, Len(link[q][a]) + 1)'
    BY DEF PhaseOneInv
  <2>1. TypeOK
    BY DEF TypeInv
  <2>2. /\ DOMAIN link[q][a] = 1 .. Len(link[q][a]) /\ Len(link[q][a]) \in Nat
        /\ DOMAIN link'[q][a] = 1 .. Len(link'[q][a])
        /\ Len(link'[q][a]) = IF q = n THEN Len(link[q][a]) + 1
                                       ELSE Len(link[q][a])
        /\ q = n => link'[q][a][Len(link[q][a]) + 1] = m
    BY <1>1, <1>8, <2>1, Sent
  <2>3. CASE q = n
    <3>1. p = 1
      BY <1>1, <1>4, <2>3 DEF TypeInv, TypeOK
    <3>2. m.type = "prepare"
      BY <1>7, <3>1
    <3>3. Len(link[q][a]) + 1 \in DOMAIN link'[q][a]
      BY <2>2, <2>3
    <3>4. /\ Len(link[q][a]) + 1 < Len(link'[q][a]) + 1
          /\ link'[q][a][Len(link[q][a]) + 1].type = "prepare"
      BY <2>2, <2>3, <3>2
    <3> QED
      BY <3>3, <3>4 DEF PreparedBefore
  <2>4. CASE q # n
    <3>1. txn[q].in_phase = 1
      BY <1>1, <2>4 DEF TypeInv, TypeOK
    <3>2. PreparedBefore(q, a, Len(link[q][a]) + 1)
      BY <3>1 DEF CoreInv, PhaseOneInv
    <3>3. link'[q][a] = link[q][a]
      BY <1>1, <2>1, <2>4 DEF Broadcast, TypeOK
    <3> QED
      BY <1>1, <3>2, <3>3 DEF PreparedBefore
  <2> QED
    BY <2>3, <2>4
<1> QED
  BY <1>9, <1>10, <1>11, <1>12 DEF CoreInv

\* A prepare is for slot 1 and its ballot is the only one there is, so that it
\* is the acceptor's first: it is granted, and reports no proposal.
LEMMA HandlePrepareCore ==
  ASSUME TypeInv, CoreInv, NEW a \in Node, NEW n \in Node, HandlePrepare(a, n)
  PROVE  CoreInv'
<1> DEFINE m == Head(link[n][a])
           ainfo == acc[a][m.sid]
           ok == m.bid > ainfo.bid_max
           r == [type |-> "promise", req |-> m.req, sid |-> m.sid,
                 bid |-> m.bid, ack |-> IF ok THEN "SUCCESS" ELSE "ERR_BID",
                 props |-> ainfo.props]
<1>1. /\ link[n][a] # <<>> /\ m.type = "prepare" /\ m.bid # ainfo.bid_max
      /\ acc' = [acc EXCEPT ![a][m.sid].bid_max = IF ok THEN m.bid ELSE @]
      /\ grants' = IF ok THEN grants \cup {<<a, m.sid, n>>} ELSE grants
      /\ link' = [link EXCEPT ![n][a] = Tail(@)]
      /\ reply' = [reply EXCEPT ![n][a] = Append(@, r)]
      /\ txn' = txn /\ newest' = newest /\ log' = log
  BY DEF HandlePrepare, Arrived, Answer, proposerVars, Promised
<1>2. m.sid = 1 /\ m.bid = BidNormal
  <2>1. TypeOK
    BY DEF TypeInv
  <2>2. 1 \in DOMAIN link[n][a] /\ m = link[n][a][1]
    BY <1>1, <2>1, HeadIsFirst
  <2>3. link[n][a][1].type = "prepare"
    BY <1>1, <2>2
  <2> HIDE DEF m
  <2>4. /\ link[n][a][1].bid = BidOf(link[n][a][1].sid)
        /\ link[n][a][1].sid = 1
    BY <2>2, <2>3 DEF CoreInv, LinkInv
  <2> QED
    BY <2>2, <2>4 DEF BidOf
<1>3. 1 \in Slot /\ acc[a][1] \in AccpInfo
  BY BoundAssumption DEF TypeInv, TypeOK
<1>4. ainfo.bid_max = 0 /\ ainfo.props = <<>>
  BY <1>1, <1>2, <1>3 DEF CoreInv, GrantInv
<1>5. ok
  BY <1>2, <1>4
<1> HIDE DEF ok, m
<1>6. /\ acc' = [acc EXCEPT ![a][1].bid_max = BidNormal]
      /\ grants' = grants \cup {<<a, 1, n>>}
  BY <1>1, <1>2, <1>5
<1>7. ProposerInv' /\ LogInv'
  <2>1. \A p \in Node : Won(p) => Won(p)'
    BY <1>6, WonStable
  <2>2. ProposerInv'
    BY <1>1, <1>6, <2>1 DEF CoreInv, ProposerInv
  <2>3. LogInv'
    <3>1. \A e \in log : e.by \in Node
      BY DEF TypeInv, TypeOK
    <3> QED
      BY <1>1, <2>1, <3>1 DEF CoreInv, LogInv
  <2> QED
    BY <2>2, <2>3
<1>8. GrantInv'
  <2>1. /\ acc'[a][1].bid_max = BidNormal
        /\ \A b \in Node : \A s \in Slot :
             b # a \/ s # 1 => acc'[b][s] = acc[b][s]
    BY <1>3, <1>6 DEF TypeInv, TypeOK, AccpInfo
  <2>2. \A p \in Node : <<a, 1, p>> \notin grants
    BY <1>2, <1>4 DEF CoreInv, GrantInv
  <2>3. \A g \in grants' : g[2] = 1 /\ acc'[g[1]][1].bid_max = BidNormal
    <3>1. \A g \in grants : g[1] \in Node
      BY DEF TypeInv, TypeOK
    <3>2. \A g \in grants : g[2] = 1 /\ acc[g[1]][1].bid_max = BidNormal
      BY DEF CoreInv, GrantInv
    <3> QED
      BY <1>3, <1>6, <2>1, <3>1, <3>2
  <2>4. \A b, p, q \in Node :
          <<b, 1, p>> \in grants' /\ <<b, 1, q>> \in grants' => p = q
    BY <1>6, <2>2 DEF CoreInv, GrantInv
  <2>5. /\ \A b \in Node : \A s \in Slot : acc'[b][s].bid_max \in {0, BidNormal}
        /\ \A b \in Node : \A s \in Slot \ {1} : acc'[b][s].bid_max = 0
        /\ \A b \in Node : acc'[b][1].bid_max = 0 => acc'[b][1].props = <<>>
    BY <1>3, <2>1 DEF CoreInv, GrantInv
  <2> QED
    BY <2>3, <2>4, <2>5 DEF GrantInv
<1>9. LinkInv' /\ PhaseOneInv'
  <2>1. TypeOK /\ LinkInv /\ PhaseOneInv
    BY DEF TypeInv, CoreInv
  <2>2. grants \subseteq grants' /\ <<a, 1, n>> \in grants'
    BY <1>6
  <2> QED
    BY <1>1, <2>1, <2>2, ReceiveLinkInv, ReceivePhaseOne
<1>10. ReplyInv'
  <2>1. TypeOK /\ ReplyInv /\ grants \subseteq grants' /\ <<a, 1, n>> \in grants'
    BY <1>6 DEF TypeInv, CoreInv
  <2>2. r.props = <<>> /\ r.ack = "SUCCESS"
    BY <1>4, <1>5
  <2> HIDE DEF r
  <2> QED
    BY <1>1, <2>1, <2>2, AddReplyInv
<1> QED
  BY <1>7, <1>8, <1>9, <1>10 DEF CoreInv

\* An accept for slot 1 comes behind the prepare it follows from, so that the
\* acceptor has promised by then.
LEMMA HandleAcceptCore ==
  ASSUME TypeInv, CoreInv, NEW a \in Node, NEW n \in Node, HandleAccept(a, n)
  PROVE  CoreInv'
<1> DEFINE m == Head(link[n][a])
           ok == m.bid >= acc[a][m.sid].bid_max
           prop == [bid |-> m.bid, nid |-> m.nid]
           props == IF ok THEN Append(acc[a][m.sid].props, prop)
                          ELSE acc[a][m.sid].props
           r == [type |-> "accepted", req |-> m.req, sid |-> m.sid,
                 bid |-> m.bid, ack |-> IF ok THEN "SUCCESS" ELSE "ERR_BID",
                 props |-> <<>>]
<1>1. /\ link[n][a] # <<>> /\ m.type = "accept"
      /\ acc' = [acc EXCEPT ![a][m.sid].props = props]
      /\ link' = [link EXCEPT ![n][a] = Tail(@)]
      /\ reply' = [reply EXCEPT ![n][a] = Append(@, r)]
      /\ txn' = txn /\ newest' = newest /\ log' = log /\ grants' = grants
  BY DEF HandleAccept, Arrived, Answer, proposerVars, Accepted
<1>2. TypeOK
  BY DEF TypeInv
<1>3. m \in Request /\ m.sid \in Slot /\ 1 \in Slot
  <2>1. m \in Request
    BY <1>1, <1>2, HeadType
  <2> QED
    BY <2>1, BoundAssumption DEF Request
<1>4. m.sid = 1 => <<a, 1, n>> \in grants
  <2>1. 1 \in DOMAIN link[n][a] /\ m = link[n][a][1]
        /\ DOMAIN link[n][a] = 1 .. Len(link[n][a])
    BY <1>1, <1>2, HeadIsFirst
  <2>2. m.sid = 1 => PreparedBefore(n, a, 1)
    <3>1. LinkInv
      BY DEF CoreInv
    <3>2. \A k \in DOMAIN link[n][a] :
            link[n][a][k].type = "accept" /\ link[n][a][k].sid = 1
              => PreparedBefore(n, a, k)
      BY <3>1 DEF LinkInv
    <3> QED
      BY <1>1, <2>1, <3>2
  <2> QED
    BY <2>1, <2>2 DEF PreparedBefore
<1> HIDE DEF m, props
<1>5. /\ \A b \in Node : \A s \in Slot : acc'[b][s].bid_max = acc[b][s].bid_max
      /\ \A b \in Node : \A s \in Slot :
           b # a \/ s # m.sid => acc'[b][s] = acc[b][s]
  <2>1. /\ acc \in [Node -> [Slot -> AccpInfo]]
        /\ acc' = [acc EXCEPT ![a] =
                     [acc[a] EXCEPT ![m.sid] = [acc[a][m.sid] EXCEPT !.props = props]]]
    BY <1>1, <1>2 DEF TypeOK
  <2>2. acc[a][m.sid] \in AccpInfo
    BY <1>3, <2>1
  <2> DEFINE new == [acc[a][m.sid] EXCEPT !.props = props]
  <2>3. new.bid_max = acc[a][m.sid].bid_max
    BY <2>2 DEF AccpInfo
  <2>4. acc' = [acc EXCEPT ![a] = [acc[a] EXCEPT ![m.sid] = new]]
    BY <2>1
  <2> HIDE DEF new
  <2>5. \A b \in Node : \A s \in Slot :
          acc'[b][s] = IF b = a /\ s = m.sid THEN new ELSE acc[b][s]
    <3> DEFINE row == [acc[a] EXCEPT ![m.sid] = new]
    <3>1. acc[a] \in [Slot -> AccpInfo]
      BY <2>1
    <3>2. \A s \in Slot : row[s] = IF s = m.sid THEN new ELSE acc[a][s]
      BY <1>3, <3>1
    <3>3. acc' = [acc EXCEPT ![a] = row]
      BY <2>4
    <3> HIDE DEF row
    <3>4. \A b \in Node : acc'[b] = IF b = a THEN row ELSE acc[b]
      BY <2>1, <3>3
    <3> QED
      BY <3>2, <3>4
  <2> QED
    BY <2>3, <2>5
<1>6. GrantInv'
  <2>1. \A g \in grants' : g[2] = 1 /\ acc'[g[1]][1].bid_max = BidNormal
    <3>1. \A g \in grants : g[1] \in Node
      BY <1>2 DEF TypeOK
    <3> QED
      BY <1>1, <1>3, <1>5, <3>1 DEF CoreInv, GrantInv
  <2>2. \A b, p, q \in Node :
          <<b, 1, p>> \in grants' /\ <<b, 1, q>> \in grants' => p = q
    BY <1>1 DEF CoreInv, GrantInv
  <2>3. /\ \A b \in Node : \A s \in Slot : acc'[b][s].bid_max \in {0, BidNormal}
        /\ \A b \in Node : \A s \in Slot \ {1} : acc'[b][s].bid_max = 0
    BY <1>5 DEF CoreInv, GrantInv
  <2>4. ASSUME NEW b \in Node, acc'[b][1].bid_max = 0
        PROVE  acc'[b][1].props = <<>>
    <3>1. acc[b][1].bid_max = 0
      BY <1>3, <1>5, <2>4
    <3>2. acc[b][1].props = <<>>
      BY <3>1 DEF CoreInv, GrantInv
    <3>3. b # a \/ m.sid # 1
      <4>1. <<a, 1, n>> \in grants => acc[a][1].bid_max = BidNormal
        BY DEF CoreInv, GrantInv
      <4> QED
        BY <1>4, <3>1, <4>1
    <3>4. acc'[b][1] = acc[b][1]
      BY <1>3, <1>5, <3>3
    <3> QED
      BY <3>2, <3>4
  <2> QED
    BY <2>1, <2>2, <2>3, <2>4 DEF GrantInv
<1>7. ProposerInv' /\ LogInv'
  BY <1>1 DEF CoreInv, ProposerInv, LogInv, Won, BidOf
<1>8. LinkInv' /\ PhaseOneInv'
  BY <1>1, <1>2, ReceiveLinkInv, ReceivePhaseOne DEF CoreInv, m
<1>9. ReplyInv'
  <2>1. r.props = <<>> /\ r.type = "accepted"
    OBVIOUS
  <2> HIDE DEF r
  <2> QED
    BY <1>1, <1>2, <2>1, AddReplyInv DEF CoreInv
<1> QED
  BY <1>6, <1>7, <1>8, <1>9 DEF CoreInv

\* What the responses counted so far and one more tell a proposer.
LEMMA CountedCore ==
  ASSUME NEW t \in TxnInfo, NEW a \in Node, NEW m \in Reply, m.props = <<>>,
         t.prop_max = NoProp
  PROVE  /\ CountPromise(t, a, m).prop_max = NoProp
         /\ CountPromise(t, a, m).prom_yes =
              IF m.ack = "SUCCESS" THEN t.prom_yes \cup {a} ELSE t.prom_yes
         /\ CountAccepted(t, a, m).prop_max = NoProp
         /\ CountAccepted(t, a, m).prom_yes = t.prom_yes
<1>1. BestProp(NoProp, <<>>) = NoProp
  BY DEF BestProp
<1> QED
  BY <1>1 DEF CountPromise, CountAccepted, TxnInfo

\* A majority of promises makes the proposer the winner, before it sends the
\* first accept.
LEMMA HandlePromiseCore ==
  ASSUME TypeInv, CoreInv, NEW n \in Node, NEW a \in Node, HandlePromise(n, a)
  PROVE  CoreInv'
<1> DEFINE m == Head(reply[n][a])
           t == CountPromise(txn[n], a, m)
           verdict == CheckMajority(t.prom_yes, t.prom_no)
           p == CASE verdict = "YES" -> 2 [] verdict = "NO" -> -1 [] OTHER -> 1
           u == [t EXCEPT !.in_phase = p]
<1>1. /\ \/ UNCHANGED <<txn, link>>
         \/ /\ Current(txn[n], m, 1)
            /\ txn' = [txn EXCEPT ![n] = u]
            /\ link' = IF verdict = "YES" THEN Broadcast(n, AcceptMsg(n, u))
                                          ELSE link
      /\ reply' = [reply EXCEPT ![n][a] = Tail(@)]
      /\ reply[n][a] # <<>> /\ m.type = "promise"
      /\ UNCHANGED <<newest, acc, log, grants>>
  BY DEF HandlePromise, Replied
<1>2. TypeOK /\ m \in Reply /\ txn[n] \in TxnInfo
  BY <1>1, ReplyHeadType DEF TypeInv, TypeOK
<1>3. /\ ReplyInv' /\ m.props = <<>> /\ m.ack = "SUCCESS"
      /\ <<a, 1, n>> \in grants
  <2>1. ReplyInv /\ grants' = grants
    BY <1>1 DEF CoreInv
  <2> QED
    BY <1>1, <1>2, <2>1, TakeReplyInv
<1>4. /\ p \in {-1, 1, 2} /\ (verdict = "YES" <=> p = 2)
      /\ verdict = "YES" => Cardinality(t.prom_yes) >= Majority
  <2>1. p \in {-1, 1, 2} /\ (verdict = "YES" <=> p = 2)
    OBVIOUS
  <2>2. ASSUME verdict = "YES" PROVE Cardinality(t.prom_yes) >= Majority
    <3>1. t \in TxnInfo
      BY <1>2, CountType DEF Counted
    <3>2. Cardinality(t.prom_yes) \in Nat
      BY <3>1, NodeAssumption, FS_Subset, FS_CardinalityType DEF TxnInfo
    <3>3. ~ (Cardinality(t.prom_yes) < Majority)
      BY <2>2 DEF CheckMajority
    <3> HIDE DEF t
    <3> QED
      BY <3>2, <3>3, MajorityType
  <2> QED
    BY <2>1, <2>2
<1> HIDE DEF m, p, verdict
<1>5. /\ u \in TxnInfo /\ u.in_phase = p /\ u.prop_max = NoProp
      /\ u.sid = txn[n].sid /\ u.bid = txn[n].bid /\ u.req = txn[n].req
      /\ u.prom_yes = txn[n].prom_yes \cup {a} /\ t.prom_yes = u.prom_yes
  <2>1. Counted(txn[n], t)
    BY <1>2, CountType
  <2>2. txn[n].prop_max = NoProp
    BY DEF CoreInv, ProposerInv
  <2>3. t.prop_max = NoProp /\ t.prom_yes = txn[n].prom_yes \cup {a}
    BY <1>2, <1>3, <2>2, CountedCore
  <2> HIDE DEF t
  <2>4. t \in TxnInfo /\ p \in {-1, 0, 1, 2}
    BY <1>4, <2>1 DEF Counted
  <2>5. /\ Counted(t, u) /\ u.in_phase = p /\ u.prop_max = t.prop_max
        /\ u.prom_yes = t.prom_yes
    BY <2>4, PhaseType
  <2> QED
    BY <2>1, <2>3, <2>5 DEF Counted
<1> HIDE DEF t, u
<1>6. GrantInv' /\ LogInv'
  BY <1>1 DEF CoreInv, GrantInv, LogInv, Won
<1>7. CASE UNCHANGED <<txn, link>>
  <2>1. ProposerInv'
    BY <1>1, <1>7 DEF CoreInv, ProposerInv, Won, BidOf
  <2>2. PhaseOneInv'
    BY <1>1, <1>7 DEF CoreInv, PhaseOneInv, PreparedBefore
  <2>3. LinkInv'
    <3>1. \A q, b \in Node : /\ Won(q)' <=> Won(q)
                             /\ \A k : PreparedBefore(q, b, k)' <=> PreparedBefore(q, b, k)
      BY <1>1, <1>7 DEF Won, PreparedBefore
    <3> QED
      BY <1>7, <3>1 DEF CoreInv, LinkInv, BidOf
  <2> QED
    BY <1>3, <1>6, <2>1, <2>2, <2>3 DEF CoreInv
<1>8. CASE /\ Current(txn[n], m, 1)
           /\ txn' = [txn EXCEPT ![n] = u]
           /\ link' = IF verdict = "YES" THEN Broadcast(n, AcceptMsg(n, u))
                                         ELSE link
  <2>1. /\ txn[n].in_phase = 1 /\ txn[n].sid = 1 /\ txn[n].bid = BidNormal
        /\ \A b \in u.prom_yes : <<b, 1, n>> \in grants
        /\ u.req # 0
    BY <1>2, <1>3, <1>5, <1>8 DEF Current, CoreInv, ProposerInv, BidOf, Reply
  <2>2. p = 2 => Won(n)
    <3>1. u.prom_yes \in SUBSET Node
      BY <1>5 DEF TxnInfo
    <3> QED
      BY <1>4, <1>5, <2>1, <3>1, WonBy
  <2>3. ProposerInv'
    <3>1. \A q \in Node : txn'[q] = IF q = n THEN u ELSE txn[q]
      BY <1>2, <1>8 DEF TypeOK
    <3>2. \A q \in Node : Won(q)' <=> Won(q)
      BY <1>1 DEF Won
    <3> QED
      BY <1>1, <1>4, <1>5, <2>1, <2>2, <3>1, <3>2 DEF CoreInv, ProposerInv, BidOf
  <2>4. LinkInv'
    <3>1. CASE verdict = "YES"
      <4> DEFINE q == AcceptMsg(n, u)
      <4>1. q \in Request
        BY <1>5, <2>1, MessageType
      <4>2. /\ q.type = "accept" /\ q.sid = 1 /\ q.nid = n /\ q.bid = BidNormal
        BY <1>5, <2>1 DEF AcceptMsg, ChosenProp
      <4>3. Won(n) /\ \A b \in Node : PreparedBefore(n, b, Len(link[n][b]) + 1)
        BY <1>4, <2>1, <2>2, <3>1 DEF CoreInv, PhaseOneInv
      <4>4. link' = Broadcast(n, q) /\ grants' = grants /\ LinkInv
        BY <1>1, <1>8, <3>1 DEF CoreInv
      <4>5. q.bid = BidOf(q.sid)
        BY <4>2 DEF BidOf
      <4> HIDE DEF q
      <4> QED
        BY <1>2, <4>1, <4>2, <4>3, <4>4, <4>5, SendLinkInv
    <3>2. CASE verdict # "YES"
      <4>1. link' = link /\ grants' = grants
        BY <1>1, <1>8, <3>2
      <4>2. \A q, b \in Node : /\ Won(q)' <=> Won(q)
                               /\ \A k : PreparedBefore(q, b, k)' <=> PreparedBefore(q, b, k)
        BY <4>1 DEF Won, PreparedBefore
      <4> QED
        BY <4>1, <4>2 DEF CoreInv, LinkInv, BidOf
    <3> QED
      BY <3>1, <3>2
  <2>5. PhaseOneInv'
    <3> SUFFICES ASSUME NEW q \in Node, NEW b \in Node, txn'[q].in_phase = 1
                 PROVE  PreparedBefore(q, b, Len(link[q][b]) + 1)'
      BY DEF PhaseOneInv
    <3>1. txn[q].in_phase = 1
      BY <1>2, <1>8, <2>1 DEF TypeOK
    <3>2. PreparedBefore(q, b, Len(link[q][b]) + 1)
      BY <3>1 DEF CoreInv, PhaseOneInv
    <3>3. link'[q][b] = link[q][b]
      <4>1. CASE q = n
        <5>1. txn'[n] = u
          BY <1>2, <1>8 DEF TypeOK
        <5>2. p = 1
          BY <1>5, <4>1, <5>1
        <5> QED
          BY <1>4, <1>8, <5>2
      <4>2. CASE q # n
        BY <1>2, <1>8, <4>2 DEF TypeOK, Broadcast
      <4> QED
        BY <4>1, <4>2
    <3> QED
      BY <1>1, <3>2, <3>3 DEF PreparedBefore
  <2> QED
    BY <1>3, <1>6, <2>3, <2>4, <2>5 DEF CoreInv
<1> QED
  BY <1>1, <1>7, <1>8

\* An entry of the log.
LEMMA LogType ==
  ASSUME TypeOK, NEW e \in log
  PROVE  /\ e.by \in Node /\ e.sid \in Nat \ {0}
         /\ e = [sid |-> e.sid, by |-> e.by, req |-> e.req]
<1>1. e \in [sid : Slot, by : Node, req : 1 .. MaxReq]
  BY DEF TypeOK
<1> QED
  BY <1>1

\* A decision: the winner numbers its slots without gaps, and with nothing
\* forgotten the acceptors keep their promises.
LEMMA HandleAcceptedCore ==
  ASSUME TypeInv, TypeInv', CoreInv, NothingForgotten', NEW n \in Node, NEW a \in Node,
         HandleAccepted(n, a)
  PROVE  CoreInv'
<1> DEFINE m == Head(reply[n][a])
           t == CountAccepted(txn[n], a, m)
           verdict == CheckMajority(t.accd_yes, t.accd_no)
           p == IF verdict = "NO" THEN -1 ELSE 2
           u == [t EXCEPT !.in_phase = p]
<1>1. /\ \/ UNCHANGED <<txn, newest, acc, log>>
         \/ Current(txn[n], m, 2) /\ Decide(n, t)
         \/ /\ Current(txn[n], m, 2)
            /\ txn' = [txn EXCEPT ![n] = u]
            /\ UNCHANGED <<newest, acc, log>>
      /\ reply' = [reply EXCEPT ![n][a] = Tail(@)]
      /\ reply[n][a] # <<>> /\ UNCHANGED <<link, grants>>
  BY DEF HandleAccepted, Replied
<1>2. TypeOK /\ m \in Reply /\ txn[n] \in TxnInfo
  BY <1>1, ReplyHeadType DEF TypeInv, TypeOK
<1>3. ReplyInv' /\ m.props = <<>>
  <2>1. ReplyInv /\ grants' = grants
    BY <1>1 DEF CoreInv
  <2> QED
    BY <1>1, <1>2, <2>1, TakeReplyInv
<1>4. p \in {-1, 2}
  OBVIOUS
<1> HIDE DEF m, p, verdict
<1>5. /\ Counted(txn[n], t) /\ t.prop_max = NoProp
      /\ t.prom_yes = txn[n].prom_yes
      /\ u.in_phase = p /\ u.prop_max = NoProp
      /\ u.sid = txn[n].sid /\ u.bid = txn[n].bid
      /\ u.prom_yes = txn[n].prom_yes
  <2>1. Counted(txn[n], t)
    BY <1>2, CountType
  <2>2. txn[n].prop_max = NoProp
    BY DEF CoreInv, ProposerInv
  <2>3. t.prop_max = NoProp /\ t.prom_yes = txn[n].prom_yes
    BY <1>2, <1>3, <2>2, CountedCore
  <2> HIDE DEF t
  <2>4. t \in TxnInfo /\ p \in {-1, 0, 1, 2}
    BY <1>4, <2>1 DEF Counted
  <2>5. /\ Counted(t, u) /\ u.in_phase = p /\ u.prop_max = t.prop_max
        /\ u.prom_yes = t.prom_yes
    BY <2>4, PhaseType
  <2> QED
    BY <2>1, <2>3, <2>5 DEF Counted
<1> HIDE DEF t, u
<1>6. \A q, b \in Node : /\ Won(q)' <=> Won(q)
                         /\ \A k : PreparedBefore(q, b, k)' <=> PreparedBefore(q, b, k)
  BY <1>1 DEF Won, PreparedBefore
<1>7. LinkInv'
  BY <1>1, <1>6 DEF CoreInv, LinkInv, BidOf
<1>8. CASE UNCHANGED <<txn, newest, acc, log>>
  <2>1. ProposerInv'
    BY <1>1, <1>8 DEF CoreInv, ProposerInv, Won, BidOf
  <2>2. GrantInv' /\ LogInv'
    BY <1>1, <1>8 DEF CoreInv, GrantInv, LogInv, Won
  <2>3. PhaseOneInv'
    BY <1>1, <1>8 DEF CoreInv, PhaseOneInv, PreparedBefore
  <2> QED
    BY <1>3, <1>7, <2>1, <2>2, <2>3 DEF CoreInv
<1>9. CASE Current(txn[n], m, 2) /\ Decide(n, t)
  <2> DEFINE s == t.sid
             e == [sid |-> s, by |-> n, req |-> t.req]
             mine == ChosenProp(n, t).nid = n
  <2>1. /\ txn[n].in_phase = 2 /\ Won(n)
    BY <1>9 DEF Current, CoreInv, ProposerInv
  <2>2. /\ s = newest[n].sid /\ t.req = s /\ s \in Nat \ {0}
    BY <1>2, <1>5, <2>1 DEF Counted, TxnInfo, TypeInv, SlotsConsecutive
  <2>3. mine
    BY <1>5 DEF ChosenProp
  <2>4. /\ newest' = [newest EXCEPT ![n] = [sid |-> s + 1, is_me |-> TRUE]]
        /\ txn' = [txn EXCEPT ![n] = Idle] /\ log' = log \cup {e}
        /\ acc' = [acc EXCEPT ![n] = ForgetSlot(@, s)]
    <3> HIDE DEF mine
    <3>1. newest' = [newest EXCEPT ![n] = [sid |-> s + 1, is_me |-> mine]]
      <4>1. newest' = [newest EXCEPT ![n] = NewestAfter(@, s, mine)]
        BY <1>9 DEF Decide, mine
      <4> HIDE DEF s
      <4>2. NewestAfter(newest[n], s, mine) = [sid |-> s + 1, is_me |-> mine]
        BY <2>2 DEF NewestAfter
      <4> QED
        BY <4>1, <4>2
    <3> QED
      BY <1>9, <2>3, <3>1 DEF Decide
  <2>5. \A q \in Node : /\ newest'[q] = IF q = n THEN [sid |-> s + 1, is_me |-> TRUE]
                                               ELSE newest[q]
                        /\ txn'[q] = IF q = n THEN Idle ELSE txn[q]
    BY <1>2, <2>4 DEF TypeOK
  <2>6. acc' = acc
    <3>1. s + 1 <= ForgetLag + 1
      BY <2>5 DEF NothingForgotten
    <3>2. ForgetSlot(acc[n], s) = acc[n]
      BY <2>2, <3>1, BoundAssumption DEF ForgetSlot
    <3> QED
      BY <1>2, <2>4, <3>2 DEF TypeOK
  <2> HIDE DEF s, mine
  <2>7. Idle.in_phase = 0 /\ Idle.prop_max = NoProp /\ Idle.prom_yes = {}
    BY DEF Idle, NewTxn
  <2>8. ProposerInv'
    <3> SUFFICES ASSUME NEW q \in Node
                 PROVE  /\ newest'[q].is_me <=> newest'[q].sid > 1
                        /\ newest'[q].sid > 1 => Won(q)
                        /\ txn'[q].in_phase # 0 => txn'[q].bid = BidOf(txn'[q].sid)
                        /\ txn'[q].in_phase = 1 => txn'[q].sid = 1
                        /\ txn'[q].in_phase = 2 => Won(q)
                        /\ txn'[q].prop_max = NoProp
                        /\ \A b \in txn'[q].prom_yes : <<b, 1, q>> \in grants
      BY <1>1, <1>6 DEF ProposerInv, BidOf
    <3>1. CASE q = n
      BY <2>1, <2>2, <2>5, <2>7, <3>1
    <3>2. CASE q # n
      BY <2>5, <3>2 DEF CoreInv, ProposerInv
    <3> QED
      BY <3>1, <3>2
  <2>9. GrantInv'
    BY <1>1, <2>6 DEF CoreInv, GrantInv
  <2>10. PhaseOneInv'
    BY <1>1, <2>5, <2>7 DEF CoreInv, PhaseOneInv, PreparedBefore
  <2>11. LogInv'
    <3>1. ASSUME NEW f \in log'
          PROVE  Won(f.by)' /\ f.sid < newest'[f.by].sid /\ f.req = f.sid
      <4>1. CASE f = e
        BY <1>6, <2>1, <2>2, <2>5, <4>1
      <4>2. CASE f \in log
        <5>1. f.by \in Node /\ f.sid \in Nat
          BY <1>2, <4>2, LogType
        <5>2. Won(f.by) /\ f.sid < newest[f.by].sid /\ f.req = f.sid
          BY <4>2 DEF CoreInv, LogInv
        <5>3. f.sid < newest'[f.by].sid
          BY <2>2, <2>5, <5>1, <5>2
        <5> QED
          BY <1>6, <5>1, <5>2, <5>3
      <4> QED
        BY <2>4, <3>1, <4>1, <4>2
    <3>2. ASSUME NEW q \in Node, NEW i \in 1 .. newest'[q].sid - 1
          PROVE  \E f \in log' : f.sid = i
      <4>1. CASE i \in 1 .. newest[q].sid - 1
        BY <2>4, <4>1 DEF CoreInv, LogInv
      <4>2. CASE i \notin 1 .. newest[q].sid - 1
        <5>1. q = n
          BY <2>5, <4>2
        <5>2. newest'[q].sid = s + 1
          BY <2>5, <5>1
        <5>3. i = s
          BY <2>2, <4>2, <5>1, <5>2
        <5>4. e \in log' /\ e.sid = s
          BY <2>4
        <5> QED
          BY <5>3, <5>4
      <4> QED
        BY <4>1, <4>2
    <3> QED
      BY <3>1, <3>2 DEF LogInv
  <2> QED
    BY <1>3, <1>7, <2>8, <2>9, <2>10, <2>11 DEF CoreInv
<1>10. CASE /\ Current(txn[n], m, 2)
            /\ txn' = [txn EXCEPT ![n] = u]
            /\ UNCHANGED <<newest, acc, log>>
  <2>1. txn[n].in_phase = 2
    BY <1>10 DEF Current
  <2>2. \A q \in Node : txn'[q] = IF q = n THEN u ELSE txn[q]
    BY <1>2, <1>10 DEF TypeOK
  <2>3. GrantInv' /\ LogInv'
    BY <1>1, <1>10 DEF CoreInv, GrantInv, LogInv, Won
  <2>4. ProposerInv'
    BY <1>1, <1>4, <1>5, <1>6, <1>10, <2>1, <2>2 DEF CoreInv, ProposerInv, BidOf
  <2>5. PhaseOneInv'
    BY <1>1, <1>4, <1>5, <2>2 DEF CoreInv, PhaseOneInv, PreparedBefore
  <2> QED
    BY <1>3, <1>7, <2>3, <2>4, <2>5 DEF CoreInv
<1> QED
  BY <1>1, <1>8, <1>9, <1>10
-----------------------------------------------------------------------------
\* A slot once forgotten stays so: the newest slot of a node never falls back.
LEMMA RememberedBefore ==
  TypeInv /\ TypeInv' /\ [Next]_vars /\ NothingForgotten' => NothingForgotten
<1> SUFFICES ASSUME TypeInv, TypeInv', [Next]_vars, NothingForgotten'
             PROVE  NothingForgotten
  OBVIOUS
<1>1. done' = done \/ \E n \in Node : done' = [done EXCEPT ![n] = @ + 1]
  <2>1. CASE \E n, a \in Node : HandleAccepted(n, a)
    BY <2>1 DEF HandleAccepted, Decide
  <2>2. CASE \E n \in Node : Commit(n) \/ StartRequest(n) \/ Crash(n)
    BY <2>2 DEF Commit, StartRequest, Crash, proposerVars
  <2>3. CASE \E n, a \in Node : \/ HandlePrepare(a, n) \/ AbortOnPrepare(a, n)
                                \/ HandleAccept(a, n) \/ AbortOnWrite(n, a)
    <3>1. CASE \E n, a \in Node : HandlePrepare(a, n) \/ HandleAccept(a, n)
      BY <3>1 DEF HandlePrepare, HandleAccept, proposerVars
    <3>2. CASE \E n, a \in Node : AbortOnPrepare(a, n) \/ AbortOnWrite(n, a)
      BY <3>2 DEF AbortOnPrepare, AbortOnWrite, proposerVars
    <3> QED
      BY <2>3, <3>1, <3>2
  <2>4. CASE \E n, a \in Node : HandlePromise(n, a)
    BY <2>4 DEF HandlePromise
  <2>5. CASE UNCHANGED vars
    BY <2>5 DEF vars, proposerVars
  <2> QED
    BY <2>1, <2>2, <2>3, <2>4, <2>5 DEF Next
<1>2. \A n \in Node : done[n] \in Nat /\ done[n] <= done'[n]
  <2>1. done \in [Node -> 0 .. MaxReq]
    BY DEF TypeInv, TypeOK
  <2> QED
    BY <1>1, <2>1, BoundAssumption
<1>3. \A n \in Node : /\ newest[n].sid = done[n] + 1
                      /\ newest'[n].sid = done'[n] + 1
                      /\ done'[n] \in Nat
  BY BoundAssumption DEF TypeInv, TypeOK, SlotsConsecutive
<1> QED
  BY <1>2, <1>3, BoundAssumption DEF NothingForgotten

\* The invariant and every step.
Inv == TypeInv /\ RememberedInv

\* Every step preserves the invariant; a step after which nothing is forgotten
\* starts where nothing was.
LEMMA InvStep == Inv /\ [Next]_vars => Inv'
<1> SUFFICES ASSUME Inv, [Next]_vars, NothingForgotten'
             PROVE  CoreInv'
  BY TypeStep DEF Inv, RememberedInv
<1>1. TypeInv /\ TypeInv' /\ CoreInv
  BY TypeStep, RememberedBefore DEF Inv, RememberedInv
<1>2. CASE UNCHANGED vars
  BY <1>1, <1>2, StableCore DEF vars, proposerVars
<1>3. CASE \E n \in Node : Commit(n) \/ Crash(n)
  BY <1>1, <1>3, StableCore DEF Commit, Crash, proposerVars
<1>4. CASE \E n, a \in Node : AbortOnPrepare(a, n) \/ AbortOnWrite(n, a)
  BY <1>1, <1>4, StableCore DEF AbortOnPrepare, AbortOnWrite, proposerVars
<1>5. CASE \E n \in Node : StartRequest(n)
  BY <1>1, <1>5, StartRequestCore
<1>6. CASE \E n, a \in Node : HandlePrepare(a, n) \/ HandleAccept(a, n)
  BY <1>1, <1>6, HandlePrepareCore, HandleAcceptCore
<1>7. CASE \E n, a \in Node : HandlePromise(n, a) \/ HandleAccepted(n, a)
  BY <1>1, <1>7, HandlePromiseCore, HandleAcceptedCore
<1> QED
  BY <1>2, <1>3, <1>4, <1>5, <1>6, <1>7 DEF Next

\* While nothing is forgotten the core invariant holds in every state.
THEOREM RememberedIsInvariant == Spec => []RememberedInv
<1>1. Init => Inv
  BY TypeInit, CoreInit DEF Inv, RememberedInv
<1>2. Inv => RememberedInv
  BY DEF Inv
<1> QED
  BY <1>1, <1>2, InvStep, PTL DEF Spec

\* Two requests called back as decided in one slot are one request: both are
\* the winner's, and a winner's request numbers are its slots.
THEOREM AgreementHolds == Spec => []AgreementWhileRemembered
<1>1. Inv => AgreementWhileRemembered
  <2> SUFFICES ASSUME Inv, NothingForgotten, NEW e \in log, NEW f \in log,
                      e.sid = f.sid
               PROVE  e = f
    BY DEF AgreementWhileRemembered, Agreement
  <2>1. LogInv /\ GrantInv /\ TypeOK
    BY DEF Inv, TypeInv, RememberedInv, CoreInv
  <2>2. e.by \in Node /\ f.by \in Node /\ Won(e.by) /\ Won(f.by)
    BY <2>1 DEF LogInv, TypeOK
  <2>3. e.by = f.by
    BY <2>1, <2>2, SoleWinner
  <2>4. e.req = f.req
    BY <2>1 DEF LogInv
  <2> QED
    BY <2>1, <2>3, <2>4, LogType
<1>2. Init => Inv
  BY TypeInit, CoreInit DEF Inv, RememberedInv
<1> QED
  BY <1>1, <1>2, InvStep, PTL DEF Spec

\* One node at most proposes without asking: a leader was granted slot 1 by a
\* majority.
THEOREM SoleLeaderHolds == Spec => []SoleLeader
<1>1. Inv => SoleLeader
  <2> SUFFICES ASSUME Inv, NothingForgotten, NEW m \in Node, NEW n \in Node,
                      Leads(m), Leads(n)
               PROVE  m = n
    BY DEF SoleLeader
  <2>1. GrantInv /\ Won(m) /\ Won(n)
    BY DEF Inv, RememberedInv, CoreInv, ProposerInv, Leads
  <2> QED
    BY <2>1, SoleWinner
<1>2. Init => Inv
  BY TypeInit, CoreInit DEF Inv, RememberedInv
<1> QED
  BY <1>1, <1>2, InvStep, PTL DEF Spec

-----------------------------------------------------------------------------
\* A log within the bound is never forgotten in part.
LEMMA ShortLogRemembered ==
  ASSUME MaxReq <= ForgetLag, TypeInv
  PROVE  NothingForgotten
BY BoundAssumption DEF TypeInv, TypeOK, NothingForgotten

\* Nothing is decided initially.
LEMMA RefinementInit == Init => Abstract!Init
BY DEF Init, Abstract!Init, DecidedIn, Abstract!Slot

\* Steps that decide nothing and commit nothing are invisible.
LEMMA Invisible ==
  ASSUME UNCHANGED <<asked, done, log>>
  PROVE  UNCHANGED Abstract!vars
BY DEF Abstract!vars, DecidedIn

\* A commit is a commit.
LEMMA CommitSubmits ==
  ASSUME TypeInv, NEW n \in Node, Commit(n)
  PROVE  Abstract!Submit(n)
BY DEF Commit, Abstract!Submit, DecidedIn

\* The slot of n's request is the first one that is empty.
FirstEmpty(n) ==
  /\ DecidedIn(newest[n].sid) = {}
  /\ \A r \in 1 .. newest[n].sid - 1 : DecidedIn(r) # {}

\* A log whose entries are elsewhere, with one in each slot before.
LEMMA FirstEmptySlot ==
  ASSUME NEW n \in Node,
         \A f \in log : f.sid # newest[n].sid,
         \A r \in 1 .. newest[n].sid - 1 : \E f \in log : f.sid = r
  PROVE  FirstEmpty(n)
<1>1. ASSUME NEW r \in 1 .. newest[n].sid - 1 PROVE DecidedIn(r) # {}
  <2>1. PICK f \in log : f.sid = r
    OBVIOUS
  <2> QED
    BY <2>1 DEF DecidedIn
<1>2. DecidedIn(newest[n].sid) = {}
  BY DEF DecidedIn
<1> QED
  BY <1>1, <1>2 DEF FirstEmpty

\* A decision appends the request to the log and calls it back.
LEMMA DecideAppends ==
  ASSUME TypeInv, NEW n \in Node, FirstEmpty(n), NEW t,
         txn[n].in_phase = 2, t.req = txn[n].req, t.sid = txn[n].sid,
         Decide(n, t), asked' = asked
  PROVE  Abstract!Append(n)
<1>1. /\ done[n] < asked[n] /\ t.sid = newest[n].sid /\ t.req = done[n] + 1
      /\ newest[n].sid = done[n] + 1 /\ TypeOK
  BY DEF TypeInv, SlotsConsecutive
<1>2. PICK s \in Slot : s = newest[n].sid
  BY <1>1, BoundAssumption DEF TypeOK
<1> DEFINE e == [sid |-> s, by |-> n, req |-> done[n] + 1]
<1>3. log' = log \cup {e} /\ done' = [done EXCEPT ![n] = @ + 1]
  BY <1>1, <1>2 DEF Decide
<1>4. DecidedIn(s) = {} /\ \A r \in 1 .. s - 1 : DecidedIn(r) # {}
  BY <1>2 DEF FirstEmpty
<1>5. ASSUME NEW f \in log PROVE f.sid # s
  <2>1. f.sid = s => [by |-> f.by, req |-> f.req] \in DecidedIn(s)
    BY DEF DecidedIn
  <2> QED
    BY <1>4, <2>1
<1>6. DecidedIn(s)' = {[by |-> n, req |-> done[n] + 1]}
  <2>1. {f \in log' : f.sid = s} = {e}
    BY <1>3, <1>5
  <2> HIDE DEF e
  <2>2. {[by |-> f.by, req |-> f.req] : f \in {f \in log' : f.sid = s}}
          = {[by |-> e.by, req |-> e.req]}
    BY <2>1
  <2>3. e.by = n /\ e.req = done[n] + 1
    BY DEF e
  <2> QED
    BY <2>2, <2>3 DEF DecidedIn
<1>7. \A r \in Slot \ {s} : DecidedIn(r)' = DecidedIn(r)
  <2> SUFFICES ASSUME NEW r \in Slot \ {s} PROVE DecidedIn(r)' = DecidedIn(r)
    OBVIOUS
  <2>1. {f \in log' : f.sid = r} = {f \in log : f.sid = r}
    BY <1>3
  <2> QED
    BY <2>1 DEF DecidedIn
<1> DEFINE C == [r \in Slot |-> DecidedIn(r)]
           c == {[by |-> n, req |-> done[n] + 1]}
<1>8. [r \in Slot |-> DecidedIn(r)'] = [C EXCEPT ![s] = c]
  <2>1. \A r \in Slot : DecidedIn(r)' = IF r = s THEN c ELSE DecidedIn(r)
    BY <1>6, <1>7
  <2>2. [C EXCEPT ![s] = c] = [r \in Slot |-> IF r = s THEN c ELSE DecidedIn(r)]
    <3>1. C = [r \in Slot |-> DecidedIn(r)]
      OBVIOUS
    <3> HIDE DEF c
    <3> QED
      BY <3>1
  <2> HIDE DEF c, C
  <2> QED
    BY <2>1, <2>2
<1>9. C[s] = {} /\ \A r \in 1 .. s - 1 : C[r] # {}
  <2>1. \A r \in 1 .. s - 1 : r \in Slot
    BY <1>2, BoundAssumption
  <2> QED
    BY <1>2, <1>4, <2>1
<1> QED
  BY <1>1, <1>2, <1>3, <1>8, <1>9 DEF Abstract!Append, Abstract!Slot

\* Every step of the protocol is a step of the log, or invisible.
LEMMA RefinementStep ==
  ASSUME TypeInv, \A n \in Node : txn[n].in_phase = 2 => FirstEmpty(n),
         [Next]_vars
  PROVE  [Abstract!Next]_(Abstract!vars)
<1>1. CASE UNCHANGED vars
  BY <1>1, Invisible DEF vars, proposerVars
<1>2. CASE \E n \in Node : Commit(n)
  BY <1>2, CommitSubmits DEF Abstract!Next
<1>3. CASE \E n \in Node : StartRequest(n) \/ Crash(n)
  BY <1>3, Invisible DEF StartRequest, Crash, proposerVars
<1>4. CASE \E n, a \in Node : \/ HandlePrepare(a, n) \/ AbortOnPrepare(a, n)
                              \/ HandleAccept(a, n) \/ AbortOnWrite(n, a)
  <2>1. CASE \E n, a \in Node : HandlePrepare(a, n) \/ HandleAccept(a, n)
    BY <2>1, Invisible DEF HandlePrepare, HandleAccept, proposerVars
  <2>2. CASE \E n, a \in Node : AbortOnPrepare(a, n) \/ AbortOnWrite(n, a)
    BY <2>2, Invisible DEF AbortOnPrepare, AbortOnWrite, proposerVars
  <2> QED
    BY <1>4, <2>1, <2>2
<1>5. CASE \E n, a \in Node : HandlePromise(n, a)
  BY <1>5, Invisible DEF HandlePromise
<1>6. ASSUME NEW n \in Node, NEW a \in Node, HandleAccepted(n, a)
      PROVE  [Abstract!Next]_(Abstract!vars)
  <2> DEFINE m == Head(reply[n][a])
             t == CountAccepted(txn[n], a, m)
  <2>1. /\ \/ UNCHANGED <<done, log>>
           \/ Current(txn[n], m, 2) /\ Decide(n, t)
        /\ reply[n][a] # <<>> /\ asked' = asked
    BY <1>6 DEF HandleAccepted, Replied
  <2>2. CASE UNCHANGED <<done, log>>
    BY <2>1, <2>2, Invisible
  <2>3. CASE Current(txn[n], m, 2) /\ Decide(n, t)
    <3>1. TypeOK /\ txn[n] \in TxnInfo
      BY DEF TypeInv, TypeOK
    <3>2. m \in Reply
      BY <2>1, <3>1, ReplyHeadType
    <3>3. t.req = txn[n].req /\ t.sid = txn[n].sid
      BY <3>1, <3>2, CountType DEF Counted
    <3>4. txn[n].in_phase = 2
      BY <2>3 DEF Current
    <3> HIDE DEF t
    <3> QED
      BY <2>1, <2>3, <3>3, <3>4, DecideAppends DEF Abstract!Next
  <2> QED
    BY <2>1, <2>2, <2>3
<1> QED
  BY <1>1, <1>2, <1>3, <1>4, <1>5, <1>6 DEF Next

-----------------------------------------------------------------------------
\* While nothing is forgotten only the winner of slot 1 decides, so that its
\* newest slot is the first empty one.
LEMMA WinnerFillsFirstEmpty ==
  ASSUME Inv, NothingForgotten, NEW n \in Node, txn[n].in_phase = 2
  PROVE  FirstEmpty(n)
<1>1. TypeOK /\ GrantInv /\ LogInv /\ Won(n)
  BY DEF Inv, TypeInv, RememberedInv, CoreInv, ProposerInv
<1>2. ASSUME NEW f \in log PROVE f.sid # newest[n].sid
  <2>1. f.by \in Node /\ Won(f.by) /\ f.sid < newest[f.by].sid /\ f.sid \in Nat
    BY <1>1, LogType DEF LogInv
  <2>2. f.by = n
    BY <1>1, <2>1, SoleWinner
  <2>3. newest[n].sid \in Nat
    BY <1>1, NewestType
  <2> QED
    BY <2>1, <2>2, <2>3
<1> QED
  BY <1>1, <1>2, FirstEmptySlot DEF LogInv

\* A group whose log stays within what an acceptor remembers implements the
\* replicated log: a request is called back when it is in the first empty slot,
\* and no slot is ever filled twice.
THEOREM Refinement ==
  ASSUME MaxReq <= ForgetLag
  PROVE  Spec => ImplementsLog
<1>1. Init => Inv /\ Abstract!Init
  BY TypeInit, CoreInit, RefinementInit DEF Inv, RememberedInv
<1>2. Inv => NothingForgotten
  BY ShortLogRemembered DEF Inv
<1>3. Inv /\ [Next]_vars => [Abstract!Next]_(Abstract!vars)
  BY <1>2, WinnerFillsFirstEmpty, RefinementStep DEF Inv
<1> QED
  BY <1>1, <1>3, InvStep, PTL DEF Spec, ImplementsLog, Abstract!Spec

-----------------------------------------------------------------------------
\* The log when no two nodes commit requests: what the only proposer decided.
SoloInv ==
  /\ TypeInv
  /\ \A n \in Node : asked[n] # 0 => n \in Proposer
  /\ \A f \in log : f.by \in Proposer /\ f.sid < newest[f.by].sid
  /\ \A n \in Proposer : \A r \in 1 .. newest[n].sid - 1 : \E f \in log : f.sid = r

\* Who has a transaction is a proposer.
LEMMA OnlyProposers ==
  ASSUME SoloInv, NEW n \in Node, txn[n].in_phase # 0
  PROVE  n \in Proposer
BY DEF SoloInv, TypeInv, TypeOK, SlotsConsecutive

\* Decisions are its own, in the next slot.
LEMMA SoloDecides ==
  ASSUME SoloInv, \A m, n \in Proposer : m = n, TypeInv',
         NEW n \in Node, NEW t, txn[n].in_phase = 2, t.sid = txn[n].sid,
         Decide(n, t), asked' = asked
  PROVE  SoloInv'
<1>1. n \in Proposer /\ newest[n].sid \in Nat /\ t.sid = newest[n].sid
  BY OnlyProposers, NewestType DEF SoloInv, TypeInv, SlotsConsecutive
<1>2. newest'[n].sid = newest[n].sid + 1
  BY <1>1 DEF Decide, NewestAfter, SoloInv, TypeInv, TypeOK
<1> DEFINE e == [sid |-> t.sid, by |-> n, req |-> t.req]
<1>3. log' = log \cup {e} /\ e.by = n /\ e.sid = newest[n].sid
  BY <1>1 DEF Decide
<1> HIDE DEF e
<1>4. \A f \in log : f.by = n /\ f.sid < newest[n].sid /\ f.sid \in Nat
  BY <1>1, LogType DEF SoloInv, TypeInv
<1>5. \A f \in log' : f.by \in Proposer /\ f.sid < newest'[f.by].sid
  BY <1>1, <1>2, <1>3, <1>4
<1>6. ASSUME NEW p \in Proposer, NEW r \in 1 .. newest'[p].sid - 1
      PROVE  \E f \in log' : f.sid = r
  <2>1. p = n
    BY <1>1
  <2>2. r \in 1 .. newest[n].sid - 1 \/ r = newest[n].sid
    BY <1>1, <1>2, <2>1
  <2> QED
    BY <1>1, <1>3, <2>2 DEF SoloInv
<1> QED
  BY <1>5, <1>6 DEF SoloInv

\* The other steps leave the log alone.
LEMMA SoloStep ==
  ASSUME SoloInv, \A m, n \in Proposer : m = n, [Next]_vars
  PROVE  SoloInv'
<1>1. TypeInv'
  BY TypeStep DEF SoloInv
<1>2. CASE UNCHANGED <<asked, newest, log>>
  BY <1>1, <1>2 DEF SoloInv
<1>3. ASSUME NEW n \in Node, Commit(n) PROVE SoloInv'
  BY <1>1, <1>3 DEF Commit, SoloInv, TypeInv, TypeOK
<1>4. ASSUME NEW n \in Node, NEW a \in Node, HandleAccepted(n, a) PROVE SoloInv'
  <2> DEFINE m == Head(reply[n][a])
             t == CountAccepted(txn[n], a, m)
  <2>1. /\ \/ UNCHANGED <<newest, log>>
           \/ Current(txn[n], m, 2) /\ Decide(n, t)
        /\ reply[n][a] # <<>> /\ asked' = asked
    BY <1>4 DEF HandleAccepted, Replied
  <2>2. TypeOK /\ txn[n] \in TxnInfo
    BY DEF SoloInv, TypeInv, TypeOK
  <2>3. m \in Reply
    BY <2>1, <2>2, ReplyHeadType
  <2>4. t.sid = txn[n].sid
    BY <2>2, <2>3, CountType DEF Counted
  <2>5. CASE Current(txn[n], m, 2) /\ Decide(n, t)
    <3>1. txn[n].in_phase = 2
      BY <2>5 DEF Current
    <3> HIDE DEF t
    <3> QED
      BY <1>1, <2>1, <2>4, <2>5, <3>1, SoloDecides
  <2> QED
    BY <1>2, <2>1, <2>5
<1>5. CASE \E n \in Node : StartRequest(n) \/ Crash(n)
  BY <1>2, <1>5 DEF StartRequest, Crash, proposerVars
<1>6. CASE \E n, a \in Node : HandlePrepare(a, n) \/ HandleAccept(a, n)
  BY <1>2, <1>6 DEF HandlePrepare, HandleAccept, proposerVars
<1>7. CASE \E n, a \in Node : AbortOnPrepare(a, n) \/ AbortOnWrite(n, a)
  BY <1>2, <1>7 DEF AbortOnPrepare, AbortOnWrite, proposerVars
<1>8. CASE \E n, a \in Node : HandlePromise(n, a)
  BY <1>2, <1>8 DEF HandlePromise
<1>9. CASE UNCHANGED vars
  BY <1>2, <1>9 DEF vars, proposerVars
<1> QED
  BY <1>3, <1>4, <1>5, <1>6, <1>7, <1>8, <1>9 DEF Next

\* The only proposer's newest slot is the first empty one.
LEMMA SoloFillsFirstEmpty ==
  ASSUME SoloInv, \A m, n \in Proposer : m = n, NEW n \in Node, txn[n].in_phase = 2
  PROVE  FirstEmpty(n)
<1>1. n \in Proposer /\ newest[n].sid \in Nat
  BY OnlyProposers, NewestType DEF SoloInv, TypeInv
<1>2. \A f \in log : f.sid # newest[n].sid
  BY <1>1, LogType DEF SoloInv, TypeInv
<1> QED
  BY <1>1, <1>2, FirstEmptySlot DEF SoloInv

\* A group to which at most one node commits implements the replicated log
\* however long it gets: acceptor_forget does no harm where nobody else asks
\* about the slots that were dropped.
THEOREM SoloRefinement ==
  ASSUME \A m, n \in Proposer : m = n
  PROVE  Spec => ImplementsLog
<1>1. Init => SoloInv /\ Abstract!Init
  <2>1. Init => TypeInv
    BY TypeInit
  <2>2. ASSUME Init PROVE \A n \in Node : asked[n] = 0 /\ newest[n].sid = 1
    BY <2>2 DEF Init
  <2> QED
    BY <2>1, <2>2, RefinementInit, NodeAssumption, BoundAssumption DEF Init, SoloInv
<1>2. SoloInv /\ [Next]_vars => [Abstract!Next]_(Abstract!vars)
  BY SoloFillsFirstEmpty, RefinementStep DEF SoloInv
<1>3. SoloInv /\ [Next]_vars => SoloInv'
  BY SoloStep
<1> QED
  BY <1>1, <1>2, <1>3, PTL DEF Spec, ImplementsLog, Abstract!Spec
=============================================================================
