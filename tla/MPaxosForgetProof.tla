-------------------------- MODULE MPaxosForgetProof --------------------------
(***************************************************************************)
(* Machine-checked proofs about MPaxos with acceptors that forget: every   *)
(* request is answered once (AnswerInv of MPaxosForget), so that           *)
(* SAFE_ASSERT(re == NULL) of the two reply handlers is not reached; the   *)
(* inductive invariant ForgottenInv, and from it that a proposer never     *)
(* learns a proposal (PropMaxIsNull) and that what was decided is held by  *)
(* a majority (DecidedIsHeld), for every set of nodes and every bound.     *)
(***************************************************************************)
EXTENDS MPaxosForget, MPaxosProof

USE DEF Bid, Slot, BidPrior, BidNormal

-----------------------------------------------------------------------------
\* Queues with one message of each round.

\* The elements of a sequence with one more at its end.
LEMMA AppendElements ==
  ASSUME NEW S, NEW q \in Seq(S), NEW x
  PROVE  /\ DOMAIN q = 1 .. Len(q) /\ Len(q) \in Nat
         /\ DOMAIN Append(q, x) = 1 .. Len(q) + 1
         /\ \A k \in DOMAIN q : Append(q, x)[k] = q[k]
         /\ \A k \in DOMAIN Append(q, x) :
              IF k \in DOMAIN q THEN Append(q, x)[k] = q[k]
              ELSE k = Len(q) + 1 /\ Append(q, x)[k] = x
<1>1. q \in Seq(S \cup {x}) /\ x \in S \cup {x}
  OBVIOUS
<1> QED
  BY <1>1

\* Two messages of a round a third one is of, too.
LEMMA SameRoundTwice ==
  ASSUME NEW x, NEW y, NEW z, SameRound(x, z), SameRound(y, z)
  PROVE  SameRound(x, y)
BY DEF SameRound

\* A message of a new round may be sent.
LEMMA OneEachSent ==
  ASSUME NEW S, NEW T, NEW sent \in Seq(S), NEW back \in Seq(T), NEW m,
         OneEach(sent, back),
         \A k \in DOMAIN sent : ~ SameRound(sent[k], m),
         \A k \in DOMAIN back : ~ SameRound(back[k], m)
  PROVE  OneEach(Append(sent, m), back)
<1> DEFINE new == Append(sent, m)
<1>1. \A k \in DOMAIN new : IF k \in DOMAIN sent THEN new[k] = sent[k]
                            ELSE k = Len(sent) + 1 /\ new[k] = m
  BY AppendElements
<1> HIDE DEF new
<1>2. \A x, y : SameRound(x, y) <=> SameRound(y, x)
  BY DEF SameRound
<1> QED
  BY <1>1, <1>2 DEF OneEach, new

\* A request may be replaced by its reply.
LEMMA OneEachAnswered ==
  ASSUME NEW S, NEW T, NEW sent \in Seq(S), NEW back \in Seq(T), NEW r,
         OneEach(sent, back), sent # <<>>, SameRound(Head(sent), r)
  PROVE  OneEach(Tail(sent), Append(back, r))
<1> DEFINE new == Append(back, r)
           rest == Tail(sent)
<1>1. \A k \in DOMAIN new : IF k \in DOMAIN back THEN new[k] = back[k]
                            ELSE k = Len(back) + 1 /\ new[k] = r
  BY AppendElements
<1>2. /\ 1 \in DOMAIN sent /\ Head(sent) = sent[1]
      /\ \A k \in DOMAIN rest : /\ rest[k] = sent[k + 1] /\ k + 1 \in DOMAIN sent
                                /\ k + 1 # 1 /\ k \in Nat
  <2>1. /\ DOMAIN sent = 1 .. Len(sent) /\ Len(sent) \in Nat \ {0}
        /\ DOMAIN rest = 1 .. Len(sent) - 1
        /\ \A k \in DOMAIN rest : rest[k] = sent[k + 1]
        /\ Head(sent) = sent[1]
    BY TailElements
  <2> HIDE DEF rest
  <2> QED
    BY <2>1
<1> HIDE DEF new, rest
<1>3. \A x, y : SameRound(x, y) <=> SameRound(y, x)
  BY DEF SameRound
<1>4. \A x : SameRound(x, r) => SameRound(x, sent[1])
  BY <1>2, <1>3, SameRoundTwice
<1>5. \A j, k \in DOMAIN rest : SameRound(rest[j], rest[k]) => j = k
  <2> SUFFICES ASSUME NEW j \in DOMAIN rest, NEW k \in DOMAIN rest,
                      SameRound(rest[j], rest[k])
               PROVE  j = k
    OBVIOUS
  <2>1. j + 1 = k + 1
    BY <1>2 DEF OneEach
  <2> QED
    BY <1>2, <2>1
<1>6. \A j, k \in DOMAIN new : SameRound(new[j], new[k]) => j = k
  BY <1>1, <1>2, <1>3, <1>4 DEF OneEach
<1>7. \A j \in DOMAIN rest, k \in DOMAIN new : ~ SameRound(rest[j], new[k])
  <2> SUFFICES ASSUME NEW j \in DOMAIN rest, NEW k \in DOMAIN new,
                      SameRound(rest[j], new[k])
               PROVE  FALSE
    OBVIOUS
  <2>1. CASE k \in DOMAIN back
    BY <1>1, <1>2, <2>1 DEF OneEach
  <2>2. CASE k \notin DOMAIN back
    <3>1. SameRound(sent[j + 1], sent[1])
      BY <1>1, <1>2, <1>4, <2>2
    <3>2. j + 1 = 1
      BY <1>2, <3>1 DEF OneEach
    <3> QED
      BY <1>2, <3>2
  <2> QED
    BY <2>1, <2>2
<1> QED
  BY <1>5, <1>6, <1>7 DEF OneEach, new, rest

\* Taking off a reply leaves none of its round.
LEMMA OneEachTaken ==
  ASSUME NEW T, NEW sent, NEW back \in Seq(T), OneEach(sent, back), back # <<>>
  PROVE  /\ OneEach(sent, Tail(back))
         /\ \A k \in DOMAIN sent : ~ SameRound(sent[k], Head(back))
         /\ \A k \in DOMAIN Tail(back) : ~ SameRound(Tail(back)[k], Head(back))
         /\ \A k \in DOMAIN Tail(back) : /\ Tail(back)[k] = back[k + 1]
                                         /\ k + 1 \in DOMAIN back
<1> DEFINE rest == Tail(back)
<1>1. /\ 1 \in DOMAIN back /\ Head(back) = back[1]
      /\ \A k \in DOMAIN rest : /\ rest[k] = back[k + 1] /\ k + 1 \in DOMAIN back
                                /\ k + 1 # 1 /\ k \in Nat
  <2>1. /\ DOMAIN back = 1 .. Len(back) /\ Len(back) \in Nat \ {0}
        /\ DOMAIN rest = 1 .. Len(back) - 1
        /\ \A k \in DOMAIN rest : rest[k] = back[k + 1]
        /\ Head(back) = back[1]
    BY TailElements
  <2> HIDE DEF rest
  <2> QED
    BY <2>1
<1> HIDE DEF rest
<1>2. \A j, k \in DOMAIN rest : SameRound(rest[j], rest[k]) => j = k
  <2> SUFFICES ASSUME NEW j \in DOMAIN rest, NEW k \in DOMAIN rest,
                      SameRound(rest[j], rest[k])
               PROVE  j = k
    OBVIOUS
  <2>1. j + 1 = k + 1
    BY <1>1 DEF OneEach
  <2> QED
    BY <1>1, <2>1
<1>3. \A k \in DOMAIN rest : ~ SameRound(rest[k], back[1])
  BY <1>1 DEF OneEach
<1>4. \A j \in DOMAIN sent, k \in DOMAIN rest : ~ SameRound(sent[j], rest[k])
  BY <1>1 DEF OneEach
<1>5. OneEach(sent, rest)
  BY <1>2, <1>4 DEF OneEach
<1>6. \A k \in DOMAIN sent : ~ SameRound(sent[k], back[1])
  BY <1>1 DEF OneEach
<1> QED
  BY <1>1, <1>3, <1>5, <1>6 DEF rest

-----------------------------------------------------------------------------
\* The exchange with one acceptor.

\* A request of a new round is sent.
LEMMA SendOnce ==
  ASSUME NEW S, NEW T, NEW sent \in Seq(S), NEW back \in Seq(T), NEW m,
         NEW t, NEW d, NEW u, NEW a,
         AnswersOnce(t, d, a, sent, back),
         \A x : Underway(t, d, a, x) => Underway(u, d, a, x) /\ ~ SameRound(x, m),
         Underway(u, d, a, m), m.sid = m.req,
         u.in_phase = 1 => u.accd_yes = {} /\ u.accd_no = {}
  PROVE  AnswersOnce(u, d, a, Append(sent, m), back)
<1> DEFINE new == Append(sent, m)
<1>1. \A k \in DOMAIN new : IF k \in DOMAIN sent THEN new[k] = sent[k]
                            ELSE k = Len(sent) + 1 /\ new[k] = m
  BY AppendElements
<1>2. OneEach(new, back)
  BY OneEachSent DEF AnswersOnce
<1> HIDE DEF new
<1>3. \A k \in DOMAIN new : Underway(u, d, a, new[k]) /\ new[k].sid = new[k].req
  BY <1>1 DEF AnswersOnce
<1>4. \A k \in DOMAIN back : Underway(u, d, a, back[k])
  BY DEF AnswersOnce
<1> QED
  BY <1>2, <1>3, <1>4 DEF AnswersOnce, new

\* A request that is handled becomes its reply.
LEMMA AnswerOnce ==
  ASSUME NEW S, NEW T, NEW sent \in Seq(S), NEW back \in Seq(T), NEW r,
         NEW t, NEW d, NEW a,
         AnswersOnce(t, d, a, sent, back), sent # <<>>, SameRound(Head(sent), r)
  PROVE  AnswersOnce(t, d, a, Tail(sent), Append(back, r))
<1> DEFINE new == Append(back, r)
           rest == Tail(sent)
<1>1. \A k \in DOMAIN new : IF k \in DOMAIN back THEN new[k] = back[k]
                            ELSE k = Len(back) + 1 /\ new[k] = r
  BY AppendElements
<1>2. /\ DOMAIN sent = 1 .. Len(sent) /\ Len(sent) \in Nat \ {0}
      /\ DOMAIN rest = 1 .. Len(sent) - 1
      /\ \A k \in DOMAIN rest : rest[k] = sent[k + 1]
      /\ Head(sent) = sent[1]
  BY TailElements
<1>3. OneEach(rest, new)
  BY OneEachAnswered DEF AnswersOnce
<1> HIDE DEF new, rest
<1>4. 1 \in DOMAIN sent /\ \A k \in DOMAIN rest : k + 1 \in DOMAIN sent
  BY <1>2
<1>5. Underway(t, d, a, sent[1])
  BY <1>4 DEF AnswersOnce
<1>6. Underway(t, d, a, r)
  BY <1>2, <1>5 DEF Underway, WasSent, Answered, SameRound
<1>7. \A k \in DOMAIN new : Underway(t, d, a, new[k])
  BY <1>1, <1>6 DEF AnswersOnce
<1>8. \A k \in DOMAIN rest : Underway(t, d, a, rest[k]) /\ rest[k].sid = rest[k].req
  BY <1>2, <1>4 DEF AnswersOnce
<1> QED
  BY <1>3, <1>7, <1>8 DEF AnswersOnce, new, rest

\* A reply is taken off and counted: that changes the state of its round only.
LEMMA TakeOnce ==
  ASSUME NEW T, NEW sent, NEW back \in Seq(T), NEW t, NEW d, NEW u, NEW e, NEW a,
         AnswersOnce(t, d, a, sent, back), back # <<>>,
         \A x : Underway(t, d, a, x) /\ ~ SameRound(x, Head(back))
                  => Underway(u, e, a, x),
         u.in_phase = 1 => u.accd_yes = {} /\ u.accd_no = {}
  PROVE  /\ AnswersOnce(u, e, a, sent, Tail(back))
         /\ Underway(t, d, a, Head(back))
<1> DEFINE rest == Tail(back)
<1>1. /\ OneEach(sent, rest)
      /\ \A k \in DOMAIN sent : ~ SameRound(sent[k], Head(back))
      /\ \A k \in DOMAIN rest : /\ ~ SameRound(rest[k], Head(back))
                                /\ rest[k] = back[k + 1] /\ k + 1 \in DOMAIN back
  BY OneEachTaken DEF AnswersOnce
<1>2. 1 \in DOMAIN back /\ Head(back) = back[1]
  BY TailElements
<1> HIDE DEF rest
<1>3. \A k \in DOMAIN sent : Underway(u, e, a, sent[k]) /\ sent[k].sid = sent[k].req
  BY <1>1 DEF AnswersOnce
<1>4. \A k \in DOMAIN rest : Underway(u, e, a, rest[k])
  BY <1>1 DEF AnswersOnce
<1> QED
  BY <1>1, <1>2, <1>3, <1>4 DEF AnswersOnce, rest

\* A change of the transaction alone.
LEMMA MoveOnce ==
  ASSUME NEW sent, NEW back, NEW t, NEW d, NEW u, NEW e, NEW a,
         AnswersOnce(t, d, a, sent, back),
         \A x : Underway(t, d, a, x) => Underway(u, e, a, x),
         u.in_phase = 1 => u.accd_yes = {} /\ u.accd_no = {}
  PROVE  AnswersOnce(u, e, a, sent, back)
BY DEF AnswersOnce
-----------------------------------------------------------------------------
\* The inductive step, action by action.

\* Nothing is underway at first.
LEMMA AnswerInit == Init => AnswerInv
<1>1. Idle.in_phase = 0
  BY DEF Idle, NewTxn
<1> QED
  BY <1>1 DEF Init, AnswerInv, AnswersOnce, OneEach

\* A new transaction has a new request number.
LEMMA StartRequestAnswers ==
  ASSUME TypeInv, AnswerInv, NEW n \in Node, StartRequest(n)
  PROVE  AnswerInv'
<1> DEFINE saveprep == newest[n].is_me
           p == IF saveprep THEN 2 ELSE 1
           b == IF saveprep THEN BidPrior ELSE BidNormal
           t == NewTxn(p, done[n] + 1, newest[n].sid, b)
           m == IF saveprep THEN AcceptMsg(n, t) ELSE PrepareMsg(n, t)
<1>1. /\ txn' = [txn EXCEPT ![n] = t] /\ link' = Broadcast(n, m)
      /\ txn[n].in_phase = 0 /\ UNCHANGED <<done, reply>>
  BY DEF StartRequest
<1>2. done[n] \in Nat /\ newest[n].sid = done[n] + 1
  BY BoundAssumption DEF TypeInv, TypeOK, SlotsConsecutive
<1>3. /\ t.in_phase = p /\ t.req = done[n] + 1
      /\ t.prom_yes = {} /\ t.prom_no = {} /\ t.accd_yes = {} /\ t.accd_no = {}
      /\ m.req = done[n] + 1 /\ m.sid = done[n] + 1 /\ p \in {1, 2}
      /\ PhaseOf(m) = p
  BY <1>2 DEF NewTxn, AcceptMsg, PrepareMsg, PhaseOf
<1> HIDE DEF t, m, p
<1> SUFFICES ASSUME NEW q \in Node, NEW a \in Node
             PROVE  AnswersOnce(txn'[q], done'[q], a, link'[q][a], reply'[q][a])
  BY DEF AnswerInv
<1>4. AnswersOnce(txn[q], done[q], a, link[q][a], reply[q][a])
  BY DEF AnswerInv
<1>5. CASE q # n
  BY <1>1, <1>4, <1>5 DEF Broadcast, TypeInv, TypeOK
<1>6. CASE q = n
  <2>1. txn'[n] = t /\ link'[n][a] = Append(link[n][a], m)
        /\ reply'[n][a] = reply[n][a] /\ done'[n] = done[n]
    BY <1>1 DEF Broadcast, TypeInv, TypeOK
  <2>2. link[n][a] \in Seq(Request) /\ reply[n][a] \in Seq(Reply)
    BY DEF TypeInv, TypeOK
  <2>3. \A x : Underway(txn[n], done[n], a, x)
                 => Underway(t, done[n], a, x) /\ ~ SameRound(x, m)
    BY <1>1, <1>2, <1>3 DEF Underway, WasSent, Answered, SameRound
  <2>4. Underway(t, done[n], a, m)
    BY <1>3 DEF Underway, WasSent, Answered
  <2> QED
    BY <1>3, <1>4, <1>6, <2>1, <2>2, <2>3, <2>4, SendOnce
<1> QED
  BY <1>5, <1>6

\* An acceptor's handler turns a request into its reply.
LEMMA AnswerAnswers ==
  ASSUME TypeInv, AnswerInv, NEW n \in Node, NEW a \in Node, link[n][a] # <<>>,
         NEW r, SameRound(Head(link[n][a]), r),
         link' = [link EXCEPT ![n][a] = Tail(@)],
         reply' = [reply EXCEPT ![n][a] = Append(@, r)],
         txn' = txn, done' = done
  PROVE  AnswerInv'
<1> SUFFICES ASSUME NEW q \in Node, NEW b \in Node
             PROVE  AnswersOnce(txn'[q], done'[q], b, link'[q][b], reply'[q][b])
  BY DEF AnswerInv
<1>1. AnswersOnce(txn[q], done[q], b, link[q][b], reply[q][b])
  BY DEF AnswerInv
<1>2. CASE q # n \/ b # a
  BY <1>1, <1>2 DEF TypeInv, TypeOK
<1>3. CASE q = n /\ b = a
  <2>1. link'[n][a] = Tail(link[n][a]) /\ reply'[n][a] = Append(reply[n][a], r)
    BY DEF TypeInv, TypeOK
  <2>2. link[n][a] \in Seq(Request) /\ reply[n][a] \in Seq(Reply)
    BY DEF TypeInv, TypeOK
  <2> QED
    BY <1>1, <1>3, <2>1, <2>2, AnswerOnce
<1> QED
  BY <1>2, <1>3

\* Both of them do.
LEMMA HandlersAnswers ==
  ASSUME TypeInv, AnswerInv, NEW a \in Node, NEW n \in Node,
         HandlePrepare(a, n) \/ HandleAccept(a, n)
  PROVE  AnswerInv'
<1> DEFINE m == Head(link[n][a])
<1>1. PICK r : /\ r.req = m.req /\ PhaseOf(r) = PhaseOf(m)
               /\ link[n][a] # <<>>
               /\ link' = [link EXCEPT ![n][a] = Tail(@)]
               /\ reply' = [reply EXCEPT ![n][a] = Append(@, r)]
               /\ txn' = txn /\ done' = done
  <2>1. CASE HandlePrepare(a, n)
    <3>1. PICK ack, props : Answer(a, n, "promise", ack, props)
      BY <2>1 DEF HandlePrepare
    <3> DEFINE r == [type |-> "promise", req |-> m.req, sid |-> m.sid,
                     bid |-> m.bid, ack |-> ack, props |-> props]
    <3>2. /\ link' = [link EXCEPT ![n][a] = Tail(@)]
          /\ reply' = [reply EXCEPT ![n][a] = Append(@, r)]
      BY <3>1 DEF Answer
    <3>3. r.req = m.req /\ PhaseOf(r) = PhaseOf(m)
      BY <2>1 DEF HandlePrepare, Arrived, PhaseOf
    <3> HIDE DEF r
    <3> QED
      BY <2>1, <3>2, <3>3 DEF HandlePrepare, Arrived, proposerVars
  <2>2. CASE HandleAccept(a, n)
    <3>1. PICK ack, props : Answer(a, n, "accepted", ack, props)
      BY <2>2 DEF HandleAccept
    <3> DEFINE r == [type |-> "accepted", req |-> m.req, sid |-> m.sid,
                     bid |-> m.bid, ack |-> ack, props |-> props]
    <3>2. /\ link' = [link EXCEPT ![n][a] = Tail(@)]
          /\ reply' = [reply EXCEPT ![n][a] = Append(@, r)]
      BY <3>1 DEF Answer
    <3>3. r.req = m.req /\ PhaseOf(r) = PhaseOf(m)
      BY <2>2 DEF HandleAccept, Arrived, PhaseOf
    <3> HIDE DEF r
    <3> QED
      BY <2>2, <3>2, <3>3 DEF HandleAccept, Arrived, proposerVars
  <2> QED
    BY <2>1, <2>2
<1>2. SameRound(m, r)
  BY <1>1 DEF SameRound
<1> QED
  BY <1>1, <1>2, AnswerAnswers

\* What a response changes in the sets of those who answered.
LEMMA CountSets ==
  ASSUME NEW t \in TxnInfo, NEW a \in Node, NEW m \in Reply
  PROVE  LET u == CountPromise(t, a, m)
             v == CountAccepted(t, a, m)
         IN  /\ u.in_phase = t.in_phase /\ v.in_phase = t.in_phase
             /\ u.prom_yes \cup u.prom_no = t.prom_yes \cup t.prom_no \cup {a}
             /\ u.accd_yes = t.accd_yes /\ u.accd_no = t.accd_no
             /\ v.accd_yes \cup v.accd_no = t.accd_yes \cup t.accd_no \cup {a}
             /\ v.prom_yes = t.prom_yes /\ v.prom_no = t.prom_no
             /\ u.req = t.req /\ v.req = t.req
BY DEF CountPromise, CountAccepted, TxnInfo, Reply, Ack

\* Moving the transaction to another phase changes none of them.
LEMMA PhaseSets ==
  ASSUME NEW t \in TxnInfo, NEW p
  PROVE  LET u == [t EXCEPT !.in_phase = p]
         IN  /\ u.in_phase = p /\ u.req = t.req /\ u.sid = t.sid
             /\ u.prom_yes = t.prom_yes /\ u.prom_no = t.prom_no
             /\ u.accd_yes = t.accd_yes /\ u.accd_no = t.accd_no
BY DEF TxnInfo

\* A reply is taken off and counted in the transaction, or dropped: that
\* concerns its round only.
LEMMA TakeAnswers ==
  ASSUME TypeInv, AnswerInv, NEW n \in Node, NEW a \in Node, reply[n][a] # <<>>,
         NEW t, \/ t = txn[n]
                \/ /\ t = CountPromise(txn[n], a, Head(reply[n][a]))
                   /\ Current(txn[n], Head(reply[n][a]), 1)
                   /\ Head(reply[n][a]).type = "promise"
                \/ /\ t = CountAccepted(txn[n], a, Head(reply[n][a]))
                   /\ Current(txn[n], Head(reply[n][a]), 2)
                   /\ Head(reply[n][a]).type = "accepted",
         reply' = [reply EXCEPT ![n][a] = Tail(@)]
  PROVE  /\ \A q, b \in Node :
              AnswersOnce(IF q = n THEN t ELSE txn[q], done[q], b, link[q][b],
                          reply'[q][b])
         /\ Underway(txn[n], done[n], a, Head(reply[n][a]))
         /\ t.in_phase = txn[n].in_phase /\ t.req = txn[n].req
<1> DEFINE m == Head(reply[n][a])
<1>1. txn[n] \in TxnInfo /\ m \in Reply /\ reply[n][a] \in Seq(Reply)
  BY ReplyHeadType DEF TypeInv, TypeOK
<1>2. /\ t.in_phase = txn[n].in_phase /\ t.req = txn[n].req
      /\ t.in_phase = 1 => t.accd_yes = txn[n].accd_yes /\ t.accd_no = txn[n].accd_no
  BY <1>1, CountSets DEF Current
<1>3. \A b \in Node : t.in_phase = 1 => t.accd_yes = {} /\ t.accd_no = {}
  BY <1>2 DEF AnswerInv, AnswersOnce
<1>4. \A b, x : Underway(txn[n], done[n], b, x) /\ (b # a \/ ~ SameRound(x, m))
                  => Underway(t, done[n], b, x)
  <2>1. CASE t = txn[n]
    BY <2>1
  <2>2. CASE /\ t = CountPromise(txn[n], a, m) /\ Current(txn[n], m, 1)
             /\ m.type = "promise"
    <3>1. /\ t.prom_yes \cup t.prom_no = txn[n].prom_yes \cup txn[n].prom_no \cup {a}
          /\ t.accd_yes = txn[n].accd_yes /\ t.accd_no = txn[n].accd_no
      BY <1>1, <2>2, CountSets
    <3>2. m.req = txn[n].req /\ PhaseOf(m) = 1
      BY <2>2 DEF Current, PhaseOf
    <3> HIDE DEF m
    <3> QED
      BY <1>2, <3>1, <3>2 DEF Underway, WasSent, Answered, SameRound
  <2>3. CASE /\ t = CountAccepted(txn[n], a, m) /\ Current(txn[n], m, 2)
             /\ m.type = "accepted"
    <3>1. /\ t.accd_yes \cup t.accd_no = txn[n].accd_yes \cup txn[n].accd_no \cup {a}
          /\ t.prom_yes = txn[n].prom_yes /\ t.prom_no = txn[n].prom_no
      BY <1>1, <2>3, CountSets
    <3>2. m.req = txn[n].req /\ PhaseOf(m) = 2
      BY <2>3 DEF Current, PhaseOf
    <3>3. \A x : PhaseOf(x) \in {1, 2}
      BY DEF PhaseOf
    <3> HIDE DEF m
    <3> QED
      BY <1>2, <3>1, <3>2, <3>3 DEF Underway, WasSent, Answered, SameRound
  <2> QED
    BY <2>1, <2>2, <2>3
<1> HIDE DEF m
<1>5. /\ AnswersOnce(txn[n], done[n], a, link[n][a], reply[n][a])
      /\ reply'[n][a] = Tail(reply[n][a])
  BY DEF AnswerInv, TypeInv, TypeOK
<1>6. AnswersOnce(t, done[n], a, link[n][a], reply'[n][a])
      /\ Underway(txn[n], done[n], a, Head(reply[n][a]))
  <2> DEFINE back == reply[n][a]
             sent == link[n][a]
             d == done[n]
             old == txn[n]
  <2>1. /\ AnswersOnce(old, d, a, sent, back) /\ back \in Seq(Reply) /\ back # <<>>
        /\ \A x : Underway(old, d, a, x) /\ ~ SameRound(x, Head(back))
                  => Underway(t, d, a, x)
        /\ t.in_phase = 1 => t.accd_yes = {} /\ t.accd_no = {}
    BY <1>1, <1>3, <1>4, <1>5 DEF m
  <2> HIDE DEF back, sent, d, old
  <2>2. /\ AnswersOnce(t, d, a, sent, Tail(back))
        /\ Underway(old, d, a, Head(back))
    BY <2>1, TakeOnce
  <2> QED
    BY <1>5, <2>2 DEF back, sent, d, old
<1>7. ASSUME NEW q \in Node, NEW b \in Node
      PROVE  AnswersOnce(IF q = n THEN t ELSE txn[q], done[q], b, link[q][b],
                         reply'[q][b])
  <2>1. AnswersOnce(txn[q], done[q], b, link[q][b], reply[q][b])
    BY DEF AnswerInv
  <2>2. CASE q = n /\ b = a
    BY <1>6, <2>2
  <2>3. CASE q = n /\ b # a
    <3>1. reply'[q][b] = reply[q][b]
      BY <2>3 DEF TypeInv, TypeOK
    <3> QED
      BY <1>3, <1>4, <2>1, <2>3, <3>1, MoveOnce
  <2>4. CASE q # n
    BY <2>1, <2>4 DEF TypeInv, TypeOK
  <2> QED
    BY <2>2, <2>3, <2>4
<1> QED
  BY <1>2, <1>6, <1>7

\* The majority of promises is the first reason to send the accept.
LEMMA HandlePromiseAnswers ==
  ASSUME TypeInv, AnswerInv, NEW n \in Node, NEW a \in Node, HandlePromise(n, a)
  PROVE  AnswerInv'
<1> DEFINE m == Head(reply[n][a])
           t == CountPromise(txn[n], a, m)
           verdict == CheckMajority(t.prom_yes, t.prom_no)
           p == CASE verdict = "YES" -> 2 [] verdict = "NO" -> -1 [] OTHER -> 1
           u == [t EXCEPT !.in_phase = p]
           x == AcceptMsg(n, u)
<1>1. /\ \/ UNCHANGED <<txn, link>>
         \/ /\ Current(txn[n], m, 1)
            /\ txn' = [txn EXCEPT ![n] = u]
            /\ link' = IF verdict = "YES" THEN Broadcast(n, x) ELSE link
      /\ reply' = [reply EXCEPT ![n][a] = Tail(@)]
      /\ reply[n][a] # <<>> /\ m.type = "promise" /\ done' = done
  BY DEF HandlePromise, Replied
<1>2. TypeOK /\ m \in Reply /\ txn[n] \in TxnInfo
  BY <1>1, ReplyHeadType DEF TypeInv, TypeOK
<1>3. p \in {-1, 1, 2} /\ (verdict = "YES" <=> p = 2)
  OBVIOUS
<1>4. CASE UNCHANGED <<txn, link>>
  <2>1. \A q, b \in Node :
          AnswersOnce(IF q = n THEN txn[n] ELSE txn[q], done[q], b, link[q][b],
                      reply'[q][b])
    BY <1>1, TakeAnswers
  <2>2. \A q, b \in Node :
          AnswersOnce(txn[q], done[q], b, link[q][b], reply'[q][b])
    BY <2>1
  <2> QED
    BY <1>1, <1>4, <2>2 DEF AnswerInv
<1>5. CASE /\ Current(txn[n], m, 1)
           /\ txn' = [txn EXCEPT ![n] = u]
           /\ link' = IF verdict = "YES" THEN Broadcast(n, x) ELSE link
  <2>1. /\ \A q, b \in Node :
             AnswersOnce(IF q = n THEN t ELSE txn[q], done[q], b, link[q][b],
                         reply'[q][b])
        /\ t.in_phase = txn[n].in_phase /\ t.req = txn[n].req
    BY <1>1, <1>5, TakeAnswers
  <2>2. t \in TxnInfo /\ t.sid = txn[n].sid
    BY <1>2, CountType DEF Counted
  <2>3. /\ txn[n].in_phase = 1 /\ txn[n].req = done[n] + 1 /\ done[n] \in Nat
        /\ txn[n].sid = done[n] + 1
    <3>1. txn[n].in_phase = 1
      BY <1>5 DEF Current
    <3> QED
      BY <3>1, BoundAssumption, SMTT(30) DEF TypeInv, TypeOK, SlotsConsecutive
  <2>4. t.accd_yes = {} /\ t.accd_no = {}
    BY <1>2, <2>3, CountSets DEF AnswerInv, AnswersOnce
  <2> HIDE DEF t, p
  <2>5. /\ u.in_phase = p /\ u.req = t.req /\ u.sid = t.sid
        /\ u.prom_yes = t.prom_yes /\ u.prom_no = t.prom_no
        /\ u.accd_yes = {} /\ u.accd_no = {}
    BY <2>2, <2>4, PhaseSets
  <2> HIDE DEF u
  <2>6. /\ x.req = done[n] + 1 /\ x.sid = x.req /\ PhaseOf(x) = 2
    BY <2>1, <2>2, <2>3, <2>5 DEF AcceptMsg, PhaseOf
  <2>7. \A b, y : Underway(t, done[n], b, y) => Underway(u, done[n], b, y)
    BY <1>3, <2>1, <2>3, <2>4, <2>5 DEF Underway, WasSent, Answered
  <2>8. \A b, y : Underway(t, done[n], b, y) => ~ SameRound(y, x)
    <3> HIDE DEF x
    <3> QED
      BY <2>1, <2>3, <2>6 DEF Underway, WasSent, Answered, SameRound
  <2> HIDE DEF x, m, verdict
  <2>9. ASSUME p = 2 PROVE \A b : Underway(u, done[n], b, x)
    BY <2>1, <2>3, <2>5, <2>6, <2>9 DEF Underway, WasSent, Answered
  <2>10. \A q \in Node : txn'[q] = IF q = n THEN u ELSE txn[q]
    BY <1>2, <1>5 DEF TypeOK
  <2> SUFFICES ASSUME NEW q \in Node, NEW b \in Node
               PROVE  AnswersOnce(txn'[q], done'[q], b, link'[q][b], reply'[q][b])
    BY DEF AnswerInv
  <2>11. CASE q = n /\ p = 2
    <3>1. AnswersOnce(t, done[n], b, link[n][b], reply'[n][b])
      BY <2>1, <2>11
    <3>2. link'[n][b] = Append(link[n][b], x)
      BY <1>2, <1>3, <1>5, <2>11 DEF Broadcast, TypeOK
    <3>3. link[n][b] \in Seq(Request) /\ reply'[n][b] \in Seq(Reply)
      <4>1. reply' \in [Node -> [Node -> Seq(Reply)]]
        BY <1>1, <1>2, ReplyHeadType
      <4> QED
        BY <1>2, <4>1 DEF TypeOK
    <3>4. AnswersOnce(u, done[n], b, Append(link[n][b], x), reply'[n][b])
      <4> DEFINE sent == link[n][b]
                 back == reply'[n][b]
                 d == done[n]
      <4>1. /\ AnswersOnce(t, d, b, sent, back) /\ sent \in Seq(Request)
            /\ back \in Seq(Reply)
            /\ \A y : Underway(t, d, b, y)
                        => Underway(u, d, b, y) /\ ~ SameRound(y, x)
            /\ Underway(u, d, b, x) /\ x.sid = x.req
            /\ u.in_phase = 1 => u.accd_yes = {} /\ u.accd_no = {}
        BY <2>5, <2>6, <2>7, <2>8, <2>9, <2>11, <3>1, <3>3
      <4> HIDE DEF sent, back, d
      <4>2. AnswersOnce(u, d, b, Append(sent, x), back)
        BY <4>1, SendOnce
      <4> QED
        BY <4>2 DEF sent, back, d
    <3> QED
      BY <1>1, <2>10, <2>11, <3>2, <3>4
  <2>12. CASE q = n /\ p # 2
    <3>1. AnswersOnce(t, done[n], b, link[n][b], reply'[n][b])
      BY <2>1, <2>12
    <3>2. link' = link
      BY <1>3, <1>5, <2>12
    <3>3. AnswersOnce(u, done[n], b, link[n][b], reply'[n][b])
      BY <2>5, <2>7, <3>1, MoveOnce
    <3> QED
      BY <1>1, <2>10, <2>12, <3>2, <3>3
  <2>13. CASE q # n
    <3>1. AnswersOnce(txn[q], done[q], b, link[q][b], reply'[q][b])
      BY <2>1, <2>13
    <3>2. link'[q][b] = link[q][b] /\ txn'[q] = txn[q]
      BY <1>2, <1>5, <2>10, <2>13 DEF Broadcast, TypeOK
    <3> QED
      BY <1>1, <3>1, <3>2
  <2> QED
    BY <2>11, <2>12, <2>13
<1> QED
  BY <1>1, <1>4, <1>5

\* A decision counts the request as done; the replies that are still underway
\* are for it or for earlier ones.
LEMMA HandleAcceptedAnswers ==
  ASSUME TypeInv, AnswerInv, NEW n \in Node, NEW a \in Node, HandleAccepted(n, a)
  PROVE  AnswerInv'
<1> DEFINE m == Head(reply[n][a])
           t == CountAccepted(txn[n], a, m)
           verdict == CheckMajority(t.accd_yes, t.accd_no)
           p == IF verdict = "NO" THEN -1 ELSE 2
           u == [t EXCEPT !.in_phase = p]
<1>1. /\ \/ UNCHANGED <<txn, done>>
         \/ Current(txn[n], m, 2) /\ Decide(n, t)
         \/ /\ Current(txn[n], m, 2)
            /\ txn' = [txn EXCEPT ![n] = u] /\ done' = done
      /\ reply' = [reply EXCEPT ![n][a] = Tail(@)]
      /\ reply[n][a] # <<>> /\ m.type = "accepted" /\ link' = link
  BY DEF HandleAccepted, Replied
<1>2. TypeOK /\ m \in Reply /\ txn[n] \in TxnInfo
  BY <1>1, ReplyHeadType DEF TypeInv, TypeOK
<1>3. p \in {-1, 2}
  OBVIOUS
<1>4. CASE UNCHANGED <<txn, done>>
  <2>1. \A q, b \in Node :
          AnswersOnce(IF q = n THEN txn[n] ELSE txn[q], done[q], b, link[q][b],
                      reply'[q][b])
    BY <1>1, TakeAnswers
  <2>2. \A q, b \in Node :
          AnswersOnce(txn[q], done[q], b, link[q][b], reply'[q][b])
    BY <2>1
  <2> QED
    BY <1>1, <1>4, <2>2 DEF AnswerInv
<1>5. CASE \/ Current(txn[n], m, 2) /\ Decide(n, t)
           \/ /\ Current(txn[n], m, 2)
              /\ txn' = [txn EXCEPT ![n] = u] /\ done' = done
  <2>1. /\ \A q, b \in Node :
             AnswersOnce(IF q = n THEN t ELSE txn[q], done[q], b, link[q][b],
                         reply'[q][b])
        /\ t.in_phase = txn[n].in_phase /\ t.req = txn[n].req
    BY <1>1, <1>5, TakeAnswers
  <2>2. t \in TxnInfo
    BY <1>2, CountType DEF Counted
  <2>3. txn[n].in_phase = 2 /\ txn[n].req = done[n] + 1 /\ done[n] \in Nat
    <3>1. txn[n].in_phase = 2
      BY <1>5 DEF Current
    <3> QED
      BY <3>1, BoundAssumption, SMTT(30) DEF TypeInv, TypeOK, SlotsConsecutive
  <2> HIDE DEF t, p
  <2>4. /\ u.in_phase = p /\ u.req = t.req
        /\ u.prom_yes = t.prom_yes /\ u.prom_no = t.prom_no
        /\ u.accd_yes = t.accd_yes /\ u.accd_no = t.accd_no
    BY <2>2, PhaseSets
  <2> HIDE DEF u, m, verdict
  <2>5. Idle.in_phase = 0
    BY DEF Idle, NewTxn
  <2>6. \A b, y : Underway(t, done[n], b, y) =>
                    Underway(u, done[n], b, y) /\ Underway(Idle, done[n] + 1, b, y)
    <3> SUFFICES ASSUME NEW b, NEW y, Underway(t, done[n], b, y)
                 PROVE  Underway(u, done[n], b, y)
                        /\ Underway(Idle, done[n] + 1, b, y)
      OBVIOUS
    <3>1. Underway(u, done[n], b, y)
      BY <1>3, <2>1, <2>3, <2>4 DEF Underway, WasSent, Answered
    <3>2. y.req \in 1 .. done[n] + 1
      BY <2>1, <2>3 DEF Underway, WasSent
    <3> QED
      BY <2>5, <3>1, <3>2 DEF Underway, WasSent, Answered
  <2> SUFFICES ASSUME NEW q \in Node, NEW b \in Node
               PROVE  AnswersOnce(txn'[q], done'[q], b, link'[q][b], reply'[q][b])
    BY DEF AnswerInv
  <2>7. CASE q = n
    <3>1. AnswersOnce(t, done[n], b, link[n][b], reply'[n][b])
      BY <2>1, <2>7
    <3>2. CASE Decide(n, t)
      <4>1. txn'[n] = Idle /\ done'[n] = done[n] + 1
        BY <1>2, <3>2 DEF Decide, TypeOK
      <4>2. AnswersOnce(Idle, done[n] + 1, b, link[n][b], reply'[n][b])
        BY <2>5, <2>6, <3>1, MoveOnce
      <4> QED
        BY <1>1, <2>7, <4>1, <4>2
    <3>3. CASE txn' = [txn EXCEPT ![n] = u] /\ done' = done
      <4>1. txn'[n] = u /\ done'[n] = done[n] /\ u.in_phase # 1
        BY <1>2, <1>3, <2>4, <3>3 DEF TypeOK
      <4>2. AnswersOnce(u, done[n], b, link[n][b], reply'[n][b])
        BY <2>6, <3>1, <4>1, MoveOnce
      <4> QED
        BY <1>1, <2>7, <4>1, <4>2
    <3> QED
      BY <1>5, <3>2, <3>3
  <2>8. CASE q # n
    <3>1. AnswersOnce(txn[q], done[q], b, link[q][b], reply'[q][b])
      BY <2>1, <2>8
    <3>2. txn'[q] = txn[q] /\ done'[q] = done[q]
      BY <1>2, <1>5, <2>8 DEF Decide, TypeOK
    <3> QED
      BY <1>1, <3>1, <3>2
  <2> QED
    BY <2>7, <2>8
<1> QED
  BY <1>1, <1>4, <1>5

\* Every step keeps every request answered once.
LEMMA AnswerStep ==
  ASSUME TypeInv, AnswerInv, [Next]_vars
  PROVE  AnswerInv'
<1>1. CASE UNCHANGED <<txn, done, link, reply>>
  BY <1>1 DEF AnswerInv
<1>2. CASE \E n \in Node : StartRequest(n)
  BY <1>2, StartRequestAnswers
<1>3. CASE \E n, a \in Node : HandlePrepare(a, n) \/ HandleAccept(a, n)
  BY <1>3, HandlersAnswers
<1>4. CASE \E n, a \in Node : HandlePromise(n, a) \/ HandleAccepted(n, a)
  BY <1>4, HandlePromiseAnswers, HandleAcceptedAnswers
<1>5. CASE \/ UNCHANGED vars
           \/ \E n \in Node : Commit(n) \/ Crash(n)
           \/ \E n, a \in Node : AbortOnPrepare(a, n) \/ AbortOnWrite(n, a)
  <2>1. UNCHANGED <<txn, done, link, reply>>
    BY <1>5 DEF vars, proposerVars, Commit, Crash, AbortOnPrepare, AbortOnWrite
  <2> QED
    BY <1>1, <2>1
<1> QED
  BY <1>2, <1>3, <1>4, <1>5 DEF Next

\* Between a proposer and an acceptor there is at most one message of each
\* phase of a request, acceptors that forget included.
THEOREM AnsweredOnce == Spec => []AnswerInv
<1>1. Init => TypeInv /\ AnswerInv
  BY TypeInit, AnswerInit
<1>2. TypeInv /\ AnswerInv /\ [Next]_vars => TypeInv' /\ AnswerInv'
  BY TypeStep, AnswerStep
<1> QED
  BY <1>1, <1>2, PTL DEF Spec

\* SAFE_ASSERT(re == NULL) of handle_msg_promise and handle_msg_accepted is not
\* reached: the head of a connection is not counted yet.
THEOREM RepliesAreNotDuplicate == Spec => []NoDuplicateReply
<1>1. TypeInv /\ AnswerInv => NoDuplicateReply
  <2> SUFFICES ASSUME TypeInv, AnswerInv, NEW n \in Node, NEW a \in Node,
                      reply[n][a] # <<>>
               PROVE  LET m == Head(reply[n][a])
                      IN  /\ m.type = "promise" /\ Current(txn[n], m, 1)
                               => a \notin txn[n].prom_yes \cup txn[n].prom_no
                          /\ m.type = "accepted" /\ Current(txn[n], m, 2)
                               => a \notin txn[n].accd_yes \cup txn[n].accd_no
    BY DEF NoDuplicateReply, Replied
  <2> DEFINE q == reply[n][a]
             m == Head(q)
  <2>1. q \in Seq(Reply) /\ q # <<>>
    BY DEF TypeInv, TypeOK
  <2>2. \A k \in DOMAIN q : Underway(txn[n], done[n], a, q[k])
    BY DEF AnswerInv, AnswersOnce
  <2> HIDE DEF q
  <2>3. 1 \in DOMAIN q /\ m = q[1]
    BY <2>1, TailElements
  <2>4. ~ Answered(txn[n], a, m)
    BY <2>2, <2>3 DEF Underway
  <2> QED
    BY <2>4 DEF Answered, Current, PhaseOf, q
<1>2. Init => TypeInv /\ AnswerInv
  BY TypeInit, AnswerInit
<1>3. TypeInv /\ AnswerInv /\ [Next]_vars => TypeInv' /\ AnswerInv'
  BY TypeStep, AnswerStep
<1> QED
  BY <1>1, <1>2, <1>3, PTL DEF Spec

-----------------------------------------------------------------------------
\* Majorities that overlap in few acceptors.

\* Two sets that share at most D have at most D more members than the nodes.
LEMMA PairSum ==
  ASSUME NEW A \in SUBSET Node, NEW B \in SUBSET Node, NEW D,
         IsFiniteSet(D), A \cap B \subseteq D
  PROVE  /\ Cardinality(A) \in Nat /\ Cardinality(B) \in Nat
         /\ Cardinality(Node) \in Nat /\ Cardinality(D) \in Nat
         /\ Cardinality(A) + Cardinality(B) <= Cardinality(Node) + Cardinality(D)
<1>1. IsFiniteSet(Node) /\ IsFiniteSet(A) /\ IsFiniteSet(B)
  BY NodeAssumption, FS_Subset
<1>2. IsFiniteSet(A \cap B) /\ Cardinality(A \cap B) <= Cardinality(D)
  BY FS_Subset
<1>3. /\ IsFiniteSet(A \cup B)
      /\ Cardinality(A \cup B) = Cardinality(A) + Cardinality(B) - Cardinality(A \cap B)
  BY <1>1, FS_Union
<1>4. Cardinality(A \cup B) <= Cardinality(Node)
  <2>1. A \cup B \subseteq Node
    OBVIOUS
  <2> QED
    BY <1>1, <2>1, FS_Subset
<1>5. /\ Cardinality(A) \in Nat /\ Cardinality(B) \in Nat
      /\ Cardinality(Node) \in Nat /\ Cardinality(D) \in Nat
      /\ Cardinality(A \cap B) \in Nat /\ Cardinality(A \cup B) \in Nat
  BY <1>1, <1>2, <1>3, FS_CardinalityType
<1> QED
  BY <1>2, <1>3, <1>4, <1>5

\* So have three, when no node is in all of them.
LEMMA TripleSum ==
  ASSUME NEW A \in SUBSET Node, NEW B \in SUBSET Node, NEW C \in SUBSET Node,
         NEW D, IsFiniteSet(D), A \cap B \subseteq D, A \cap C \subseteq D,
         B \cap C \subseteq D, A \cap B \cap C = {}
  PROVE  /\ Cardinality(A) \in Nat /\ Cardinality(B) \in Nat
         /\ Cardinality(C) \in Nat
         /\ Cardinality(Node) \in Nat /\ Cardinality(D) \in Nat
         /\ Cardinality(A) + Cardinality(B) + Cardinality(C)
              <= Cardinality(Node) + Cardinality(D)
<1> DEFINE X == A \cup B
           E == A \cap B
           F == X \cap C
<1>1. IsFiniteSet(Node) /\ IsFiniteSet(A) /\ IsFiniteSet(B) /\ IsFiniteSet(C)
  BY NodeAssumption, FS_Subset
<1>2. IsFiniteSet(X) /\ Cardinality(X) = Cardinality(A) + Cardinality(B) - Cardinality(E)
  BY <1>1, FS_Union
<1>3. /\ IsFiniteSet(X \cup C)
      /\ Cardinality(X \cup C) = Cardinality(X) + Cardinality(C) - Cardinality(F)
  BY <1>1, <1>2, FS_Union
<1>4. Cardinality(X \cup C) <= Cardinality(Node)
  <2>1. X \cup C \subseteq Node
    OBVIOUS
  <2> QED
    BY <1>1, <2>1, FS_Subset
<1>5. /\ IsFiniteSet(E) /\ IsFiniteSet(F)
      /\ Cardinality(E \cup F) = Cardinality(E) + Cardinality(F) - Cardinality(E \cap F)
  <2>1. IsFiniteSet(E) /\ IsFiniteSet(F)
    BY <1>1, <1>2, FS_Subset
  <2> QED
    BY <2>1, FS_Union
<1>6. Cardinality(E \cap F) = 0
  <2>1. E \cap F = {}
    OBVIOUS
  <2> QED
    BY <2>1, FS_EmptySet
<1>7. Cardinality(E \cup F) <= Cardinality(D)
  <2>1. E \cup F \subseteq D
    OBVIOUS
  <2> QED
    BY <2>1, FS_Subset
<1>8. /\ Cardinality(A) \in Nat /\ Cardinality(B) \in Nat /\ Cardinality(C) \in Nat
      /\ Cardinality(Node) \in Nat /\ Cardinality(D) \in Nat
      /\ Cardinality(X) \in Nat /\ Cardinality(E) \in Nat /\ Cardinality(F) \in Nat
  BY <1>1, <1>2, <1>5, FS_CardinalityType
<1> HIDE DEF X, E, F
<1> QED
  BY <1>2, <1>3, <1>4, <1>5, <1>6, <1>7, <1>8

\* One more than a majority and a majority share more than one node.
LEMMA NoOtherLeader ==
  ASSUME NEW A \in SUBSET Node, NEW B \in SUBSET Node, NEW b,
         A \cap B \subseteq {b},
         Cardinality(A) >= Majority + 1, Cardinality(B) >= Majority
  PROVE  FALSE
<1>1. IsFiniteSet({b}) /\ Cardinality({b}) = 1
  BY FS_Singleton
<1> DEFINE D == {b}
<1>2. IsFiniteSet(D) /\ Cardinality(D) = 1 /\ A \cap B \subseteq D
  BY <1>1
<1> HIDE DEF D
<1>3. /\ Cardinality(A) \in Nat /\ Cardinality(B) \in Nat
      /\ Cardinality(Node) \in Nat
      /\ Cardinality(A) + Cardinality(B) <= Cardinality(Node) + 1
  BY <1>2, PairSum
<1> QED
  BY <1>3, MajorityType

\* Two disjoint majorities do not exist.
LEMMA NoDisjointLeader ==
  ASSUME NEW A \in SUBSET Node, NEW B \in SUBSET Node, A \cap B = {},
         Cardinality(A) >= Majority, Cardinality(B) >= Majority
  PROVE  FALSE
<1> DEFINE D == {}
<1>1. IsFiniteSet(D) /\ Cardinality(D) = 0 /\ A \cap B \subseteq D
  BY FS_EmptySet
<1> HIDE DEF D
<1>2. /\ Cardinality(A) \in Nat /\ Cardinality(B) \in Nat
      /\ Cardinality(Node) \in Nat
      /\ Cardinality(A) + Cardinality(B) <= Cardinality(Node) + 0
  BY <1>1, PairSum
<1> QED
  BY <1>2, MajorityType

\* Three majorities share more than two nodes.
LEMMA NoThirdLeader ==
  ASSUME NEW A \in SUBSET Node, NEW B \in SUBSET Node, NEW C \in SUBSET Node,
         NEW m \in Node, NEW n \in Node, NEW p \in Node,
         m # n, n # p, m # p,
         A \cap B \subseteq {m, n}, A \cap C \subseteq {m, n},
         B \cap C \subseteq {m, n}, A \cap B \cap C = {},
         Cardinality(A) >= Majority, Cardinality(B) >= Majority,
         Cardinality(C) >= Majority
  PROVE  FALSE
<1> DEFINE D == {m, n}
           E == {m, n, p}
<1>1. IsFiniteSet(D) /\ Cardinality(D) = 2
  <2>1. IsFiniteSet({m}) /\ Cardinality({m}) = 1
    BY FS_Singleton
  <2>2. IsFiniteSet({m} \cup {n}) /\ Cardinality({m} \cup {n}) = Cardinality({m}) + 1
    BY <2>1, FS_AddElement
  <2>3. D = {m} \cup {n}
    OBVIOUS
  <2> QED
    BY <2>1, <2>2, <2>3
<1>2. IsFiniteSet(E) /\ Cardinality(E) = 3
  <2>1. IsFiniteSet(D \cup {p}) /\ Cardinality(D \cup {p}) = Cardinality(D) + 1
    BY <1>1, FS_AddElement
  <2>2. E = D \cup {p}
    OBVIOUS
  <2> HIDE DEF D, E
  <2> QED
    BY <1>1, <2>1, <2>2
<1>3. Cardinality(Node) >= 3 /\ Cardinality(Node) \in Nat
  <2>1. E \subseteq Node
    OBVIOUS
  <2>2. Cardinality(E) <= Cardinality(Node) /\ Cardinality(Node) \in Nat
    BY <2>1, NodeAssumption, FS_Subset, FS_CardinalityType
  <2> HIDE DEF E
  <2> QED
    BY <1>2, <2>2
<1> HIDE DEF D, E
<1>4. /\ Cardinality(A) \in Nat /\ Cardinality(B) \in Nat /\ Cardinality(C) \in Nat
      /\ Cardinality(A) + Cardinality(B) + Cardinality(C) <= Cardinality(Node) + 2
  <2>1. A \cap B \subseteq D /\ A \cap C \subseteq D /\ B \cap C \subseteq D
    BY DEF D
  <2> QED
    BY <1>1, <2>1, TripleSum
<1> QED
  BY <1>3, <1>4, MajorityType
-----------------------------------------------------------------------------
\* What stays as it is.

\* The invariant with the types it needs.
ForgetInv == TypeInv /\ ForgottenInv

\* Won in terms of the set of acceptors.
LEMMA WonGranted ==
  ASSUME NEW n
  PROVE  /\ Won(n) <=> Cardinality(Granted(n)) >= Majority
         /\ Granted(n) \in SUBSET Node
BY DEF Won, Granted

\* The acceptors that forgot have gone past slot 1, and lead.
LEMMA ForgotWon ==
  ASSUME TypeInv, LeaderInv, NEW a \in Node, Forgot(a)
  PROVE  newest[a].sid > 1 /\ Won(a)
<1>1. newest[a].sid \in Nat
  BY NewestType DEF TypeInv
<1>2. newest[a].sid > 1
  BY <1>1, BoundAssumption DEF Forgot
<1> QED
  BY <1>2 DEF LeaderInv

\* With the same promises, and slots that only grow, a safe leader stays so.
LEMMA SafeLeaderSame ==
  ASSUME TypeInv, TypeInv', grants' = grants,
         \A n \in Node : newest'[n].sid >= newest[n].sid,
         NEW b \in Node, SafeLeader(b)
  PROVE  SafeLeader(b)'
<1>1. Forgot(b)'
  BY BoundAssumption DEF SafeLeader, Forgot, TypeInv, TypeOK
<1>2. \A p : Won(p)' <=> Won(p)
  BY DEF Won
<1>3. \A p : Granted(p)' = Granted(p)
  BY DEF Granted
<1> QED
  BY <1>1, <1>2, <1>3 DEF SafeLeader

\* The element of a reply queue to which one was added.
LEMMA ReplyAdded ==
  ASSUME TypeOK, NEW n \in Node, NEW a \in Node, NEW r,
         reply' = [reply EXCEPT ![n][a] = Append(@, r)],
         NEW p \in Node, NEW b \in Node, NEW k \in DOMAIN reply'[p][b]
  PROVE  \/ k \in DOMAIN reply[p][b] /\ reply'[p][b][k] = reply[p][b][k]
         \/ p = n /\ b = a /\ reply'[p][b][k] = r
<1>1. reply'[p][b] = IF p = n /\ b = a THEN Append(reply[p][b], r) ELSE reply[p][b]
  BY DEF TypeOK
<1>2. reply[p][b] \in Seq(Reply)
  BY DEF TypeOK
<1>3. CASE p = n /\ b = a
  <2> DEFINE q == reply[p][b]
  <2>1. q \in Seq(Reply)
    BY <1>2
  <2> HIDE DEF q
  <2>2. \A j \in DOMAIN Append(q, r) :
          IF j \in DOMAIN q THEN Append(q, r)[j] = q[j]
          ELSE j = Len(q) + 1 /\ Append(q, r)[j] = r
    BY <2>1, AppendElements
  <2> QED
    BY <1>1, <1>3, <2>2 DEF q
<1>4. CASE p # n \/ b # a
  BY <1>1, <1>4
<1> QED
  BY <1>3, <1>4

\* The element of a reply queue from which one was taken.
LEMMA ReplyTaken ==
  ASSUME TypeOK, NEW n \in Node, NEW a \in Node, reply[n][a] # <<>>,
         reply' = [reply EXCEPT ![n][a] = Tail(@)]
  PROVE  /\ 1 \in DOMAIN reply[n][a] /\ Head(reply[n][a]) = reply[n][a][1]
         /\ \A p, b \in Node : \A k \in DOMAIN reply'[p][b] :
              \E j \in DOMAIN reply[p][b] : reply'[p][b][k] = reply[p][b][j]
<1> DEFINE q == reply[n][a]
<1>1. q \in Seq(Reply) /\ q # <<>> /\ reply'[n][a] = Tail(q)
  BY DEF TypeOK
<1>2. \A p, b \in Node : p # n \/ b # a => reply'[p][b] = reply[p][b]
  BY DEF TypeOK
<1> HIDE DEF q
<1>3. /\ 1 \in DOMAIN q /\ Head(q) = q[1]
      /\ \A k \in DOMAIN Tail(q) : k + 1 \in DOMAIN q /\ Tail(q)[k] = q[k + 1]
  <2>1. /\ DOMAIN q = 1 .. Len(q) /\ Len(q) \in Nat \ {0}
        /\ DOMAIN Tail(q) = 1 .. Len(q) - 1
        /\ \A k \in DOMAIN Tail(q) : Tail(q)[k] = q[k + 1]
        /\ Head(q) = q[1]
    BY <1>1, TailElements
  <2> QED
    BY <2>1
<1>4. ASSUME NEW p \in Node, NEW b \in Node, NEW k \in DOMAIN reply'[p][b]
      PROVE  \E j \in DOMAIN reply[p][b] : reply'[p][b][k] = reply[p][b][j]
  <2>1. CASE p = n /\ b = a
    BY <1>1, <1>3, <2>1 DEF q
  <2>2. CASE p # n \/ b # a
    BY <1>2, <2>2
  <2> QED
    BY <2>1, <2>2
<1> QED
  BY <1>3, <1>4 DEF q

\* Past survives unless an accept for slot 1 is sent.
LEMMA PastSent ==
  ASSUME TypeOK, NEW n \in Node, NEW m \in Request, link' = Broadcast(n, m),
         grants' = grants, NEW p \in Node, NEW a \in Node, Past(p, a),
         p = n => m.type # "accept" \/ m.sid # 1
  PROVE  Past(p, a)'
<1>1. /\ DOMAIN link[p][a] = 1 .. Len(link[p][a]) /\ Len(link[p][a]) \in Nat
      /\ DOMAIN link'[p][a] = 1 .. Len(link'[p][a])
      /\ Len(link'[p][a]) = IF p = n THEN Len(link[p][a]) + 1
                                     ELSE Len(link[p][a])
      /\ \A j \in DOMAIN link[p][a] : link'[p][a][j] = link[p][a][j]
      /\ p = n => link'[p][a][Len(link[p][a]) + 1] = m
  BY Sent
<1>2. \A k \in DOMAIN link'[p][a] :
        \/ k \in DOMAIN link[p][a] /\ link'[p][a][k] = link[p][a][k]
        \/ p = n /\ link'[p][a][k] = m
  BY <1>1
<1> QED
  BY <1>2 DEF Past, Granted

\* Past survives the handling of a request.
LEMMA PastReceived ==
  ASSUME TypeOK, NEW n \in Node, NEW a \in Node, link[n][a] # <<>>,
         link' = [link EXCEPT ![n][a] = Tail(@)], grants \subseteq grants',
         NEW p \in Node, NEW b \in Node, Past(p, b)
  PROVE  Past(p, b)'
<1>1. Granted(p) \subseteq Granted(p)'
  BY DEF Granted
<1>2. CASE p = n /\ b = a
  <2>1. /\ DOMAIN link[n][a] = 1 .. Len(link[n][a])
        /\ DOMAIN link'[n][a] = 1 .. Len(link[n][a]) - 1
        /\ Len(link[n][a]) \in Nat \ {0}
        /\ \A k \in DOMAIN link'[n][a] : link'[n][a][k] = link[n][a][k + 1]
    BY Received
  <2>2. \A k \in DOMAIN link'[n][a] : k + 1 \in DOMAIN link[n][a]
    BY <2>1
  <2> QED
    BY <1>1, <1>2, <2>1, <2>2 DEF Past
<1>3. CASE p # n \/ b # a
  <2>1. link'[p][b] = link[p][b]
    BY <1>3, Received
  <2> QED
    BY <1>1, <2>1 DEF Past
<1> QED
  BY <1>2, <1>3

\* Past depends on the promises and the connections only.
LEMMA PastSame ==
  ASSUME grants' = grants, link' = link, NEW p, NEW b
  PROVE  Past(p, b)' <=> Past(p, b)
BY DEF Past, Granted

\* Acceptors that keep what they hold, and no new answers.
LEMMA HeldSame ==
  ASSUME TypeOK, HeldInv, txn' = txn,
         \A b, q \in Node : \A x \in Slot :
           Holds(acc[b], newest[b].sid, q, x) => Holds(acc'[b], newest'[b].sid, q, x),
         \A q, b \in Node : \A k \in DOMAIN reply'[q][b] :
           \/ \E j \in DOMAIN reply[q][b] : reply'[q][b][k] = reply[q][b][j]
           \/ reply'[q][b][k].type # "accepted"
  PROVE  HeldInv'
<1> SUFFICES ASSUME NEW q \in Node, NEW b \in Node
             PROVE  /\ \A k \in DOMAIN reply'[q][b] :
                         reply'[q][b][k].type = "accepted"
                         /\ reply'[q][b][k].ack = "SUCCESS"
                           => Holds(acc'[b], newest'[b].sid, q, reply'[q][b][k].sid)
                    /\ b \in txn[q].accd_yes
                         => Holds(acc'[b], newest'[b].sid, q, txn[q].sid)
  BY DEF HeldInv
<1>1. \A j \in DOMAIN reply[q][b] : reply[q][b][j].sid \in Slot
  <2>1. reply[q][b] \in Seq(Reply)
    BY DEF TypeOK
  <2>2. \A j \in DOMAIN reply[q][b] : reply[q][b][j] \in Reply
    BY <2>1
  <2> QED
    BY <2>2 DEF Reply
<1>2. txn[q].sid \in Slot
  BY DEF TypeOK, TxnInfo
<1> QED
  BY <1>1, <1>2 DEF HeldInv

\* With the same promises, slots and acceptors, the promises granted stay
\* consistent.
LEMMA RegrantSame ==
  ASSUME RegrantInv, LateAcceptInv, UNCHANGED <<grants, newest, acc>>
  PROVE  RegrantInv' /\ LateAcceptInv'
<1>1. \A p : /\ Won(p)' <=> Won(p)
             /\ Granted(p)' = Granted(p)
             /\ Forgot(p)' <=> Forgot(p)
  BY DEF Won, Granted, Forgot
<1>2. RegrantInv'
  BY <1>1 DEF RegrantInv
<1>3. LateAcceptInv'
  BY <1>1 DEF LateAcceptInv, SafeLeader
<1> QED
  BY <1>2, <1>3
-----------------------------------------------------------------------------
\* The first state.
LEMMA ForgottenInit == Init => ForgottenInv
<1> SUFFICES ASSUME Init PROVE ForgottenInv
  OBVIOUS
<1>1. /\ Idle.in_phase = 0 /\ Idle.prom_yes = {} /\ Idle.accd_yes = {}
      /\ Fresh.bid_max = 0 /\ Fresh.props = <<>>
  BY DEF Idle, NewTxn, Fresh
<1>2. LeaderInv
  BY <1>1 DEF Init, LeaderInv
<1>3. \A p \in Node : ~ Won(p)
  <2>1. \A p : Granted(p) = {}
    BY DEF Init, Granted
  <2>2. Cardinality({}) = 0
    BY FS_EmptySet
  <2>3. Majority > 0
    <3>1. Cardinality(Node) \in Nat
      BY NodeAssumption, FS_CardinalityType
    <3> QED
      BY <3>1, MajorityType
  <2>4. \A p : Won(p) <=> 0 >= Majority
    BY <2>1, <2>2, WonGranted
  <2> QED
    BY <2>3, <2>4, MajorityType
<1>4. RegrantInv
  <2>1. \A p : Granted(p) = {}
    BY DEF Init, Granted
  <2> QED
    BY <1>1, <1>3, <2>1, BoundAssumption DEF Init, RegrantInv
<1>5. LateAcceptInv
  BY <1>1, BoundAssumption DEF Init, LateAcceptInv
<1>6. LinkInv /\ PhaseOneInv /\ PromiseInv /\ PastInv /\ HeldInv
  <2>1. LinkInv /\ PhaseOneInv
    BY <1>1 DEF Init, LinkInv, PhaseOneInv
  <2>2. PromiseInv /\ HeldInv
    BY <1>1 DEF Init, PromiseInv, HeldInv
  <2>3. PastInv
    BY <1>1 DEF Init, PastInv
  <2> QED
    BY <2>1, <2>2, <2>3
<1> QED
  BY <1>2, <1>4, <1>5, <1>6, AnswerInit DEF ForgottenInv

\* Steps that only count or stop a process.
LEMMA StableForgotten ==
  ASSUME ForgetInv, TypeInv',
         UNCHANGED <<txn, newest, acc, link, reply, grants, done>>
  PROVE  ForgottenInv'
<1>1. /\ RegrantInv' /\ LateAcceptInv'
  BY RegrantSame DEF ForgetInv, ForgottenInv
<1>2. \A p, b : /\ Won(p)' <=> Won(p)
                /\ Granted(p)' = Granted(p)
                /\ SafeLeader(p)' <=> SafeLeader(p)
                /\ Past(p, b)' <=> Past(p, b)
                /\ \A k : PreparedBefore(p, b, k)' <=> PreparedBefore(p, b, k)
  BY DEF Won, Granted, SafeLeader, Forgot, Past, PreparedBefore
<1>3. LeaderInv'
  BY <1>2 DEF ForgetInv, ForgottenInv, LeaderInv, BidOf
<1>4. LinkInv' /\ PhaseOneInv'
  <2>1. LinkInv'
    <3>1. \A q, c \in Node :
            /\ Won(q)' <=> Won(q)
            /\ \A k : PreparedBefore(q, c, k)' <=> PreparedBefore(q, c, k)
      BY DEF Won, PreparedBefore
    <3>2. LinkInv
      BY DEF ForgetInv, ForgottenInv
    <3> QED
      BY <3>1, <3>2 DEF LinkInv, BidOf
  <2>2. PhaseOneInv'
    BY DEF ForgetInv, ForgottenInv, PhaseOneInv, PreparedBefore
  <2> QED
    BY <2>1, <2>2
<1>5. PromiseInv' /\ PastInv' /\ HeldInv'
  BY <1>2 DEF ForgetInv, ForgottenInv, PromiseInv, PastInv, HeldInv
<1>6. AnswerInv'
  BY DEF ForgetInv, ForgottenInv, AnswerInv
<1> QED
  BY <1>1, <1>3, <1>4, <1>5, <1>6 DEF ForgottenInv

\* A new transaction: a leader goes on with its next slot, which is not slot 1,
\* any other node asks for slot 1.
LEMMA StartRequestForgotten ==
  ASSUME ForgetInv, TypeInv', NEW n \in Node, StartRequest(n)
  PROVE  ForgottenInv'
<1> DEFINE saveprep == newest[n].is_me
           p == IF saveprep THEN 2 ELSE 1
           b == IF saveprep THEN BidPrior ELSE BidNormal
           t == NewTxn(p, done[n] + 1, newest[n].sid, b)
           m == IF saveprep THEN AcceptMsg(n, t) ELSE PrepareMsg(n, t)
<1>1. /\ txn' = [txn EXCEPT ![n] = t] /\ link' = Broadcast(n, m)
      /\ UNCHANGED <<newest, acc, reply, grants>>
  BY DEF StartRequest
<1>2. TypeOK /\ TypeInv /\ LeaderInv /\ LinkInv /\ PhaseOneInv
  BY DEF ForgetInv, ForgottenInv, TypeInv
<1>3. /\ done[n] + 1 \in 1 .. MaxReq /\ newest[n].sid = done[n] + 1
      /\ newest[n].sid \in Slot /\ newest[n].is_me \in BOOLEAN
  BY <1>2, BoundAssumption DEF StartRequest, TypeInv, TypeOK, SlotsConsecutive
<1>4. /\ newest[n].is_me <=> newest[n].sid > 1
      /\ newest[n].sid > 1 => Won(n)
  BY <1>2 DEF LeaderInv
<1>5. /\ t.in_phase = p /\ t.sid = newest[n].sid /\ t.bid = b
      /\ t.req = done[n] + 1 /\ t.prop_max = NoProp
      /\ t.prom_yes = {} /\ t.accd_yes = {}
  BY DEF NewTxn
<1>6. /\ b = BidOf(t.sid)
      /\ p = 1 => t.sid = 1
      /\ p = 2 => Won(n) /\ t.sid # 1
      /\ p \in {1, 2}
  BY <1>3, <1>4, <1>5 DEF BidOf
<1>7. t \in TxnInfo /\ t.req # 0
  <2>1. p \in {-1, 0, 1, 2} /\ b \in Bid
    OBVIOUS
  <2> HIDE DEF p, b
  <2> QED
    BY <1>3, <2>1, NewTxnType
<1>8. /\ m.bid = BidOf(m.sid) /\ m.sid = t.sid
      /\ m.type = IF p = 2 THEN "accept" ELSE "prepare"
      /\ p = 2 => m.nid = n
  <2> HIDE DEF t
  <2> QED
    BY <1>5, <1>6 DEF AcceptMsg, PrepareMsg, ChosenProp
<1>9. m \in Request
  BY <1>7, MessageType
<1> HIDE DEF m, t, p, b
<1>10. \A q \in Node : txn'[q] = IF q = n THEN t ELSE txn[q]
  BY <1>1, <1>2 DEF TypeOK
<1>11. \A q : /\ Won(q)' <=> Won(q)
              /\ Granted(q)' = Granted(q)
              /\ SafeLeader(q)' <=> SafeLeader(q)
  BY <1>1 DEF Won, Granted, SafeLeader, Forgot
<1>12. LeaderInv'
  <2> SUFFICES ASSUME NEW q \in Node
               PROVE  /\ newest[q].is_me <=> newest[q].sid > 1
                      /\ newest[q].sid > 1 => Won(q)
                      /\ txn'[q].in_phase # 0 => txn'[q].bid = BidOf(txn'[q].sid)
                      /\ txn'[q].in_phase = 1 =>
                           /\ txn'[q].sid = 1
                           /\ txn'[q].prop_max # NoProp =>
                                \E c \in Node \ {q} : SafeLeader(c)
                      /\ txn'[q].in_phase = 2 => Won(q) /\ txn'[q].prop_max = NoProp
                      /\ txn'[q].prom_yes \subseteq Granted(q)
    BY <1>1, <1>11 DEF LeaderInv, BidOf
  <2>1. CASE q = n
    BY <1>4, <1>5, <1>6, <1>10, <2>1
  <2>2. CASE q # n
    BY <1>2, <1>10, <2>2 DEF LeaderInv
  <2> QED
    BY <2>1, <2>2
<1>13. RegrantInv' /\ LateAcceptInv'
  BY <1>1, RegrantSame DEF ForgetInv, ForgottenInv
<1>14. LinkInv'
  <2>1. grants' = grants
    BY <1>1
  <2>2. m.type = "prepare" => m.sid = 1
    BY <1>6, <1>8
  <2>3. m.type = "accept" => Won(n) /\ m.nid = n /\ m.sid # 1
    BY <1>6, <1>8
  <2> QED
    BY <1>1, <1>2, <1>8, <1>9, <2>1, <2>2, <2>3, SendLinkInv
<1>15. PhaseOneInv'
  <2> SUFFICES ASSUME NEW q \in Node, NEW a \in Node, txn'[q].in_phase = 1
               PROVE  PreparedBefore(q, a, Len(link[q][a]) + 1)'
    BY DEF PhaseOneInv
  <2>1. /\ DOMAIN link[q][a] = 1 .. Len(link[q][a]) /\ Len(link[q][a]) \in Nat
        /\ DOMAIN link'[q][a] = 1 .. Len(link'[q][a])
        /\ Len(link'[q][a]) = IF q = n THEN Len(link[q][a]) + 1
                                       ELSE Len(link[q][a])
        /\ q = n => link'[q][a][Len(link[q][a]) + 1] = m
    BY <1>1, <1>2, <1>9, Sent
  <2>2. CASE q = n
    <3>1. m.type = "prepare"
      BY <1>5, <1>8, <1>10, <2>2
    <3>2. Len(link[q][a]) + 1 \in DOMAIN link'[q][a]
      BY <2>1, <2>2
    <3>3. /\ Len(link[q][a]) + 1 < Len(link'[q][a]) + 1
          /\ link'[q][a][Len(link[q][a]) + 1].type = "prepare"
      BY <2>1, <2>2, <3>1, SMTT(30)
    <3> QED
      BY <3>2, <3>3 DEF PreparedBefore
  <2>3. CASE q # n
    <3>1. PreparedBefore(q, a, Len(link[q][a]) + 1)
      BY <1>2, <1>10, <2>3 DEF PhaseOneInv
    <3>2. link'[q][a] = link[q][a]
      BY <1>1, <1>2, <2>3 DEF Broadcast, TypeOK
    <3> QED
      BY <1>1, <3>1, <3>2 DEF PreparedBefore
  <2> QED
    BY <2>2, <2>3
<1>16. PromiseInv'
  BY <1>1, <1>11 DEF ForgetInv, ForgottenInv, PromiseInv
<1>17. PastInv'
  <2>1. m.type # "accept" \/ m.sid # 1
    BY <1>6, <1>8
  <2>2. \A q, a \in Node : Past(q, a) => Past(q, a)'
    BY <1>1, <1>2, <1>9, <2>1, PastSent
  <2>3. PastInv
    BY DEF ForgetInv, ForgottenInv
  <2>4. ASSUME NEW q \in Node, NEW a \in Node
        PROVE  /\ \A k \in DOMAIN reply'[q][a] :
                    reply'[q][a][k].type = "accepted" /\ reply'[q][a][k].sid = 1
                      => Past(q, a)'
               /\ txn'[q].sid = 1 /\ a \in txn'[q].accd_yes => Past(q, a)'
    BY <1>1, <1>5, <1>10, <2>2, <2>3 DEF PastInv
  <2>5. ASSUME NEW q \in Node, newest'[q].sid > 1
        PROVE  \E Q \in SUBSET Node : /\ Cardinality(Q) >= Majority
                                      /\ \A a \in Q : Past(q, a)'
    BY <1>1, <2>2, <2>3, <2>5 DEF PastInv
  <2> QED
    BY <2>4, <2>5 DEF PastInv
<1>18. HeldInv'
  BY <1>1, <1>5, <1>10, <1>11 DEF ForgetInv, ForgottenInv, HeldInv
<1>19. AnswerInv'
  BY StartRequestAnswers DEF ForgetInv, ForgottenInv
<1> QED
  BY <1>12, <1>13, <1>14, <1>15, <1>16, <1>17, <1>18, <1>19 DEF ForgottenInv

-----------------------------------------------------------------------------
\* A prepare: its ballot is the only one there is, so that the acceptor has
\* promised nothing, or dropped what it promised.

\* One more promise, by an acceptor that holds none.
LEMMA GrantMore ==
  ASSUME NEW a \in Node, NEW n \in Node, grants' = grants \cup {<<a, 1, n>>}
  PROVE  /\ \A p : Granted(p)' = IF p = n THEN Granted(p) \cup {a} ELSE Granted(p)
         /\ \A p \in Node : Won(p) => Won(p)'
<1>1. \A p : Granted(p)' = IF p = n THEN Granted(p) \cup {a} ELSE Granted(p)
  BY DEF Granted
<1>2. \A p \in Node : Won(p) => Won(p)'
  BY WonStable
<1> QED
  BY <1>1, <1>2

\* Those who hold two promises afterwards are leaders: they forgot.
LEMMA SharedByLeaders ==
  ASSUME TypeInv, LeaderInv, RegrantInv, NEW a \in Node, NEW n \in Node,
         acc[a][1].bid_max = 0, grants' = grants \cup {<<a, 1, n>>},
         NEW p \in Node, NEW q \in Node, p # q,
         NEW c \in Granted(p)' \cap Granted(q)'
  PROVE  c \in Node /\ Forgot(c) /\ Won(c)
<1>1. c \in Node
  BY DEF Granted
<1>2. CASE c = a
  <2>1. \E r \in Node : a \in Granted(r)
    BY <1>2, GrantMore
  <2> QED
    BY <1>1, <1>2, <2>1, ForgotWon DEF RegrantInv
<1>3. CASE c # a
  <2>1. c \in Granted(p) /\ c \in Granted(q)
    BY <1>3, GrantMore
  <2> QED
    BY <1>1, <2>1, ForgotWon DEF RegrantInv
<1> QED
  BY <1>2, <1>3

\* A safe leader stays the only one.
LEMMA SafeLeaderGrant ==
  ASSUME TypeInv, LeaderInv, RegrantInv, NEW a \in Node, NEW n \in Node,
         acc[a][1].bid_max = 0, grants' = grants \cup {<<a, 1, n>>},
         newest' = newest, NEW b \in Node, SafeLeader(b)
  PROVE  SafeLeader(b)'
<1>1. /\ Granted(b) \subseteq Granted(b)' /\ Granted(b)' \in SUBSET Node
  BY GrantMore DEF Granted
<1>2. Cardinality(Granted(b)') >= Majority + 1
  <2>1. IsFiniteSet(Granted(b)') /\ IsFiniteSet(Granted(b))
    BY <1>1, NodeAssumption, FS_Subset
  <2>2. /\ Cardinality(Granted(b)') \in Nat /\ Cardinality(Granted(b)) \in Nat
        /\ Cardinality(Granted(b)) <= Cardinality(Granted(b)')
    BY <1>1, <2>1, FS_Subset, FS_CardinalityType
  <2>3. Cardinality(Granted(b)) >= Majority + 1
    BY DEF SafeLeader
  <2> QED
    BY <2>2, <2>3, MajorityType
<1>3. ASSUME NEW p \in Node, Won(p)', p # b
      PROVE  FALSE
  <2> DEFINE A == Granted(b)'
             B == Granted(p)'
  <2>1. A \cap B \subseteq {b}
    BY <1>3, SharedByLeaders DEF SafeLeader
  <2>2. Cardinality(B) >= Majority /\ B \in SUBSET Node
    BY <1>3 DEF Won, Granted
  <2>3. Cardinality(A) >= Majority + 1 /\ A \in SUBSET Node
    BY <1>1, <1>2
  <2> HIDE DEF A, B
  <2> QED
    BY <2>1, <2>2, <2>3, NoOtherLeader
<1>4. Forgot(b)' /\ b \in Granted(b)'
  BY <1>1 DEF SafeLeader, Forgot
<1>5. Cardinality(Granted(b))' >= Majority' + 1
  BY <1>2 DEF Majority
<1> QED
  BY <1>3, <1>4, <1>5 DEF SafeLeader

\* No node becomes a third leader: each two share only acceptors that lead.
LEMMA TwoLeadersGrant ==
  ASSUME TypeInv, LeaderInv, RegrantInv, NEW a \in Node, NEW n \in Node,
         acc[a][1].bid_max = 0, grants' = grants \cup {<<a, 1, n>>},
         NEW p \in Node, NEW q \in Node, NEW r \in Node,
         Won(p)', Won(q)', Won(r)', p # q, q # r, p # r
  PROVE  FALSE
<1>1. \A x \in Node : x # n => (Won(x)' <=> Won(x))
  <2>1. \A x : Won(x) <=> Cardinality(Granted(x)) >= Majority
    BY WonGranted
  <2>2. \A x \in Node : Won(x)' <=> Cardinality(Granted(x)') >= Majority
    BY DEF Won, Granted, Majority
  <2> QED
    BY <2>1, <2>2, GrantMore
<1>2. \A x \in Node : Won(x) => Won(x)'
  BY GrantMore
<1> DEFINE A == Granted(p)'
           B == Granted(q)'
           C == Granted(r)'
<1>3. /\ A \in SUBSET Node /\ B \in SUBSET Node /\ C \in SUBSET Node
      /\ Cardinality(A) >= Majority /\ Cardinality(B) >= Majority
      /\ Cardinality(C) >= Majority
  BY DEF Won, Granted, Majority
<1>4. A \cap B \cap C = {}
  <2> SUFFICES ASSUME NEW c \in A \cap B \cap C PROVE FALSE
    OBVIOUS
  <2>1. c \in Node
    BY DEF Granted
  <2>2. CASE c # a
    BY <2>1, <2>2, GrantMore DEF RegrantInv
  <2>3. CASE c = a
    <3>1. \A x, y \in Node : a \in Granted(x) /\ a \in Granted(y) => x = y
      BY DEF RegrantInv
    <3> QED
      BY <2>3, <3>1, GrantMore
  <2> QED
    BY <2>2, <2>3
<1>5. PICK x \in Node, y \in Node, z \in Node :
        {p, q, r} = {x, y, z} /\ x # y /\ y # z /\ x # z /\ Won(x) /\ Won(y)
        /\ ~ Won(z)
  <2>1. ~ (Won(p) /\ Won(q) /\ Won(r))
    BY DEF RegrantInv
  <2>2. CASE p = n
    <3>1. ~ Won(p) /\ Won(q) /\ Won(r)
      BY <1>1, <2>1, <2>2
    <3>2. {p, q, r} = {q, r, p}
      OBVIOUS
    <3> QED
      BY <3>1, <3>2
  <2>3. CASE q = n
    <3>1. Won(p) /\ ~ Won(q) /\ Won(r)
      BY <1>1, <2>1, <2>3
    <3>2. {p, q, r} = {p, r, q}
      OBVIOUS
    <3> QED
      BY <3>1, <3>2
  <2>4. CASE r = n
    BY <1>1, <2>1, <2>4
  <2> QED
    BY <1>1, <2>1, <2>2, <2>3, <2>4
<1>6. \A c \in Node : Won(c) => c \in {x, y}
  BY <1>5 DEF RegrantInv
<1>7. A \cap B \subseteq {x, y} /\ A \cap C \subseteq {x, y} /\ B \cap C \subseteq {x, y}
  BY <1>6, SharedByLeaders
<1> HIDE DEF A, B, C
<1> QED
  BY <1>3, <1>4, <1>5, <1>7, NoThirdLeader

\* The head of a connection satisfies what is known of requests.
LEMMA HeadRequest ==
  ASSUME TypeOK, LinkInv, NEW n \in Node, NEW a \in Node, link[n][a] # <<>>
  PROVE  LET m == Head(link[n][a])
         IN  /\ m \in Request /\ m.sid \in Slot /\ m.bid = BidOf(m.sid)
             /\ m.type = "prepare" => m.sid = 1
             /\ m.type = "accept" => /\ Won(n) /\ m.nid = n
                                     /\ m.sid = 1 => <<a, 1, n>> \in grants
<1> DEFINE m == Head(link[n][a])
<1>1. /\ 1 \in DOMAIN link[n][a] /\ m = link[n][a][1]
      /\ DOMAIN link[n][a] = 1 .. Len(link[n][a])
  BY HeadIsFirst
<1>2. m \in Request
  BY HeadType
<1> HIDE DEF m
<1>3. m.sid \in Slot
  BY <1>2 DEF Request
<1>4. /\ m.bid = BidOf(m.sid)
      /\ m.type = "prepare" => m.sid = 1
      /\ m.type = "accept" => /\ Won(n) /\ m.nid = n
                              /\ m.sid = 1 => PreparedBefore(n, a, 1)
  BY <1>1 DEF LinkInv
<1>5. PreparedBefore(n, a, 1) => <<a, 1, n>> \in grants
  BY <1>1 DEF PreparedBefore
<1> QED
  BY <1>2, <1>3, <1>4, <1>5 DEF m

\* An acceptor that is asked for a promise, and has a proposal to report, is a
\* safe leader.
LEMMA HandlePrepareForgotten ==
  ASSUME ForgetInv, TypeInv', NEW a \in Node, NEW n \in Node, HandlePrepare(a, n)
  PROVE  ForgottenInv'
<1> DEFINE m == Head(link[n][a])
           ainfo == acc[a][m.sid]
           ok == m.bid > ainfo.bid_max
           r == [type |-> "promise", req |-> m.req, sid |-> m.sid,
                 bid |-> m.bid, ack |-> IF ok THEN "SUCCESS" ELSE "ERR_BID",
                 props |-> ainfo.props]
<1>1. /\ link[n][a] # <<>> /\ m.type = "prepare" /\ m.bid # ainfo.bid_max
      /\ acc' = [acc EXCEPT ![a][m.sid].bid_max = IF ok THEN m.bid ELSE @]
      /\ grants' = IF ok THEN grants \cup {<<a, m.sid, n>>} ELSE grants
      /\ link' = [link EXCEPT ![n][a] = Tail(@)]
      /\ reply' = [reply EXCEPT ![n][a] = Append(@, r)]
      /\ txn' = txn /\ newest' = newest
  BY DEF HandlePrepare, Arrived, Answer, proposerVars, Promised
<1>2. /\ TypeOK /\ TypeInv /\ LeaderInv /\ RegrantInv /\ LateAcceptInv
      /\ LinkInv /\ PhaseOneInv /\ PromiseInv /\ PastInv /\ HeldInv
  BY DEF ForgetInv, ForgottenInv, TypeInv
<1>3. m.sid = 1 /\ m.bid = BidNormal
  BY <1>1, <1>2, HeadRequest DEF BidOf
<1>4. 1 \in Slot /\ acc[a][1] \in AccpInfo /\ ainfo = acc[a][1]
  <2>1. 1 \in Slot
    BY BoundAssumption
  <2>2. acc[a][1] \in AccpInfo
    <3>1. acc \in [Node -> [Slot -> AccpInfo]]
      BY <1>2 DEF TypeOK
    <3> QED
      BY <2>1, <3>1
  <2> QED
    BY <1>3, <2>1, <2>2
<1>5. acc[a][1].bid_max = 0
  BY <1>1, <1>2, <1>3, <1>4 DEF RegrantInv
<1>6. ok
  BY <1>3, <1>4, <1>5
<1>7. r.type = "promise" /\ r.ack = "SUCCESS" /\ r.props = acc[a][1].props
  BY <1>4, <1>6
<1> HIDE DEF ok, m, ainfo, r
<1>8. /\ acc' = [acc EXCEPT ![a][1].bid_max = BidNormal]
      /\ grants' = grants \cup {<<a, 1, n>>}
  BY <1>1, <1>3, <1>6
<1>9. /\ acc'[a][1].bid_max = BidNormal /\ acc'[a][1].props = acc[a][1].props
      /\ \A b \in Node : \A s \in Slot :
           b # a \/ s # 1 => acc'[b][s] = acc[b][s]
  BY <1>2, <1>4, <1>8 DEF TypeOK, AccpInfo
<1>10. /\ \A p : Granted(p)' = IF p = n THEN Granted(p) \cup {a} ELSE Granted(p)
       /\ \A p \in Node : Won(p) => Won(p)'
  BY <1>8, GrantMore
<1>11. \A b \in Node : SafeLeader(b) => SafeLeader(b)'
  BY <1>1, <1>2, <1>5, <1>8, SafeLeaderGrant
<1>12. \A b : Forgot(b)' <=> Forgot(b)
  BY <1>1 DEF Forgot
<1>13. LeaderInv'
  <2> SUFFICES ASSUME NEW q \in Node
               PROVE  /\ newest[q].is_me <=> newest[q].sid > 1
                      /\ newest[q].sid > 1 => Won(q)'
                      /\ txn[q].in_phase # 0 => txn[q].bid = BidOf(txn[q].sid)
                      /\ txn[q].in_phase = 1 =>
                           /\ txn[q].sid = 1
                           /\ txn[q].prop_max # NoProp =>
                                \E c \in Node \ {q} : SafeLeader(c)'
                      /\ txn[q].in_phase = 2 => Won(q)' /\ txn[q].prop_max = NoProp
                      /\ txn[q].prom_yes \subseteq Granted(q)'
    BY <1>1 DEF LeaderInv, BidOf
  <2> QED
    BY <1>2, <1>10, <1>11 DEF LeaderInv
<1>14. RegrantInv'
  <2>1. \A g \in grants' : g[2] = 1
    BY <1>2, <1>8 DEF RegrantInv
  <2>2. \A b \in Node : \A s \in Slot :
          acc'[b][s].bid_max \in IF s = 1 THEN {0, BidNormal} ELSE {0}
    BY <1>2, <1>9 DEF RegrantInv
  <2>3. \A b, p \in Node :
          b \in Granted(p)' /\ acc'[b][1].bid_max = 0 => Forgot(b)
    <3> SUFFICES ASSUME NEW b \in Node, NEW p \in Node,
                        b \in Granted(p)', acc'[b][1].bid_max = 0
                 PROVE  Forgot(b)
      OBVIOUS
    <3>1. b # a
      BY <1>9
    <3>2. b \in Granted(p) /\ acc[b][1].bid_max = 0
      BY <1>4, <1>9, <1>10, <3>1
    <3> QED
      BY <1>2, <3>2 DEF RegrantInv
  <2>4. \A b, p, q \in Node :
          b \in Granted(p)' /\ b \in Granted(q)' /\ p # q
            => Forgot(b) /\ acc'[b][1].bid_max = BidNormal
    <3> SUFFICES ASSUME NEW b \in Node, NEW p \in Node, NEW q \in Node,
                        b \in Granted(p)', b \in Granted(q)', p # q
                 PROVE  Forgot(b) /\ acc'[b][1].bid_max = BidNormal
      OBVIOUS
    <3>1. Forgot(b)
      BY <1>2, <1>5, <1>8, SharedByLeaders
    <3>2. CASE b = a
      BY <1>9, <3>1, <3>2
    <3>3. CASE b # a
      <4>1. b \in Granted(p) /\ b \in Granted(q)
        BY <1>10, <3>3
      <4> QED
        BY <1>2, <1>4, <1>9, <3>1, <3>3, <4>1 DEF RegrantInv
    <3> QED
      BY <3>2, <3>3
  <2>5. \A b, p, q, x \in Node :
          b \in Granted(p)' /\ b \in Granted(q)' /\ b \in Granted(x)'
            => p = q \/ q = x \/ p = x
    <3> SUFFICES ASSUME NEW b \in Node, NEW p \in Node, NEW q \in Node, NEW x \in Node,
                        b \in Granted(p)', b \in Granted(q)', b \in Granted(x)'
                 PROVE  p = q \/ q = x \/ p = x
      OBVIOUS
    <3>1. CASE b # a
      <4>1. b \in Granted(p) /\ b \in Granted(q) /\ b \in Granted(x)
        BY <1>10, <3>1
      <4> QED
        BY <1>2, <4>1 DEF RegrantInv
    <3>2. CASE b = a
      <4>1. \A y, z \in Node : a \in Granted(y) /\ a \in Granted(z) => y = z
        BY <1>2, <1>5 DEF RegrantInv
      <4> QED
        BY <1>10, <3>2, <4>1
    <3> QED
      BY <3>1, <3>2
  <2>6. \A p, q, x \in Node :
          Won(p)' /\ Won(q)' /\ Won(x)' => p = q \/ q = x \/ p = x
    BY <1>2, <1>5, <1>8, TwoLeadersGrant
  <2> QED
    BY <1>12, <2>1, <2>2, <2>3, <2>4, <2>5, <2>6 DEF RegrantInv
<1>15. LateAcceptInv'
  <2> SUFFICES ASSUME NEW b \in Node, acc'[b][1].bid_max = 0, acc'[b][1].props # <<>>
               PROVE  SafeLeader(b)'
    BY DEF LateAcceptInv
  <2>1. b # a
    BY <1>9
  <2>2. acc'[b][1] = acc[b][1]
    BY <1>4, <1>9, <2>1
  <2> QED
    BY <1>2, <1>11, <2>2 DEF LateAcceptInv
<1>16. grants \subseteq grants' /\ <<a, 1, n>> \in grants'
  BY <1>8
<1>17. LinkInv' /\ PhaseOneInv'
  BY <1>1, <1>2, <1>16, ReceiveLinkInv, ReceivePhaseOne
<1>18. PromiseInv'
  <2> SUFFICES ASSUME NEW q \in Node, NEW b \in Node, NEW k \in DOMAIN reply'[q][b]
               PROVE  LET x == reply'[q][b][k]
                      IN  IF x.type = "promise"
                          THEN /\ x.ack = "SUCCESS" /\ b \in Granted(q)'
                               /\ x.props # <<>> => SafeLeader(b)'
                          ELSE x.props = <<>>
    BY DEF PromiseInv
  <2>1. \/ k \in DOMAIN reply[q][b] /\ reply'[q][b][k] = reply[q][b][k]
        \/ q = n /\ b = a /\ reply'[q][b][k] = r
    BY <1>1, <1>2, ReplyAdded
  <2>2. CASE k \in DOMAIN reply[q][b] /\ reply'[q][b][k] = reply[q][b][k]
    BY <1>2, <1>10, <1>11, <2>2 DEF PromiseInv
  <2>3. CASE q = n /\ b = a /\ reply'[q][b][k] = r
    <3>1. a \in Granted(n)'
      BY <1>10
    <3>2. r.props # <<>> => SafeLeader(a)'
      BY <1>2, <1>5, <1>7, <1>11 DEF LateAcceptInv
    <3> QED
      BY <1>7, <2>3, <3>1, <3>2
  <2> QED
    BY <2>1, <2>2, <2>3
<1>19. PastInv'
  <2>1. \A q, b \in Node : Past(q, b) => Past(q, b)'
    BY <1>1, <1>2, <1>16, PastReceived
  <2>2. ASSUME NEW q \in Node, NEW b \in Node, NEW k \in DOMAIN reply'[q][b],
               reply'[q][b][k].type = "accepted", reply'[q][b][k].sid = 1
        PROVE  Past(q, b)'
    <3>1. k \in DOMAIN reply[q][b] /\ reply'[q][b][k] = reply[q][b][k]
      BY <1>1, <1>2, <1>7, <2>2, ReplyAdded
    <3> QED
      BY <1>2, <2>1, <2>2, <3>1 DEF PastInv
  <2>3. ASSUME NEW q \in Node, NEW b \in Node, txn'[q].sid = 1, b \in txn'[q].accd_yes
        PROVE  Past(q, b)'
    BY <1>1, <1>2, <2>1, <2>3 DEF PastInv
  <2>4. ASSUME NEW q \in Node, newest'[q].sid > 1
        PROVE  \E Q \in SUBSET Node : /\ Cardinality(Q) >= Majority
                                      /\ \A b \in Q : Past(q, b)'
    BY <1>1, <1>2, <2>1, <2>4 DEF PastInv
  <2> QED
    BY <2>2, <2>3, <2>4 DEF PastInv
<1>20. HeldInv'
  <2>1. \A b, q \in Node : \A x \in Slot :
          Holds(acc[b], newest[b].sid, q, x) => Holds(acc'[b], newest'[b].sid, q, x)
    <3>1. \A b \in Node : \A x \in Slot : acc'[b][x].props = acc[b][x].props
      BY <1>4, <1>9
    <3> QED
      BY <1>1, <3>1 DEF Holds
  <2>2. \A q, b \in Node : \A k \in DOMAIN reply'[q][b] :
          \/ \E j \in DOMAIN reply[q][b] : reply'[q][b][k] = reply[q][b][j]
          \/ reply'[q][b][k].type # "accepted"
    BY <1>1, <1>2, <1>7, ReplyAdded
  <2> QED
    BY <1>1, <1>2, <2>1, <2>2, HeldSame
<1>21. AnswerInv'
  BY HandlersAnswers DEF ForgetInv, ForgottenInv
<1> QED
  BY <1>13, <1>14, <1>15, <1>17, <1>18, <1>19, <1>20, <1>21 DEF ForgottenInv

-----------------------------------------------------------------------------
\* An accept.

\* An acceptor that granted and holds no promise forgot; when an accept for
\* slot 1 still reaches it, that is its own, and it is a safe leader.
LEMMA LateAccept ==
  ASSUME ForgetInv, NEW a \in Node, NEW n \in Node,
         link[n][a] # <<>>, Head(link[n][a]).type = "accept",
         Head(link[n][a]).sid = 1, acc[a][1].bid_max = 0
  PROVE  SafeLeader(a)
<1>1. /\ TypeOK /\ TypeInv /\ LeaderInv /\ RegrantInv /\ LinkInv /\ PastInv
  BY DEF ForgetInv, ForgottenInv, TypeInv
<1>2. Won(n) /\ a \in Granted(n)
  BY <1>1, HeadRequest DEF Granted
<1>3. Forgot(a) /\ \A p \in Node : a \in Granted(p) => p = n
  BY <1>1, <1>2 DEF RegrantInv
<1>4. newest[a].sid > 1 /\ Won(a)
  BY <1>1, <1>3, ForgotWon
\* Nobody who waits for its accept at a has a among the acceptors it passed.
<1>5. ~ Past(n, a)
  <2>1. 1 \in DOMAIN link[n][a] /\ Head(link[n][a]) = link[n][a][1]
    BY <1>1, HeadIsFirst
  <2> QED
    BY <2>1 DEF Past
<1>6. ASSUME newest[n].sid > 1
      PROVE  Cardinality(Granted(n)) >= Majority + 1
  <2>1. PICK Q \in SUBSET Node : Cardinality(Q) >= Majority /\ \A b \in Q : Past(n, b)
    BY <1>1, <1>6 DEF PastInv
  <2>2. Q \cup {a} \subseteq Granted(n) /\ a \notin Q
    BY <1>2, <1>5, <2>1 DEF Past
  <2>3. IsFiniteSet(Q) /\ IsFiniteSet(Granted(n))
    BY NodeAssumption, FS_Subset DEF Granted
  <2>4. IsFiniteSet(Q \cup {a}) /\ Cardinality(Q \cup {a}) = Cardinality(Q) + 1
    BY <2>2, <2>3, FS_AddElement
  <2>5. Cardinality(Q \cup {a}) <= Cardinality(Granted(n))
    BY <2>2, <2>3, FS_Subset
  <2>6. Cardinality(Q) \in Nat /\ Cardinality(Granted(n)) \in Nat
    BY <2>3, FS_CardinalityType
  <2> QED
    BY <2>1, <2>4, <2>5, <2>6, MajorityType
<1>7. \A p \in Node : /\ Granted(p) \in SUBSET Node
                      /\ Won(p) => Cardinality(Granted(p)) >= Majority
  BY WonGranted
<1>8. CASE n = a
  <2>1. Cardinality(Granted(a)) >= Majority + 1 /\ a \in Granted(a)
    BY <1>2, <1>4, <1>6, <1>8
  <2>2. ASSUME NEW p \in Node, Won(p), p # a PROVE FALSE
    <3>1. \A c \in Node : Won(c) => c = a \/ c = p
      BY <1>1, <1>4, <2>2 DEF RegrantInv
    <3>2. \A c \in Granted(a) \cap Granted(p) : c \in Node /\ Won(c)
      BY <1>1, <2>2, ForgotWon DEF RegrantInv, Granted
    <3>3. a \notin Granted(p)
      BY <1>3, <1>8, <2>2
    <3>4. Granted(a) \cap Granted(p) \subseteq {p}
      BY <3>1, <3>2, <3>3
    <3> QED
      BY <1>7, <2>1, <2>2, <3>4, NoOtherLeader
  <2> QED
    BY <1>3, <2>1, <2>2 DEF SafeLeader
<1>9. CASE n # a
  <2>1. \A c \in Node : Won(c) => c = a \/ c = n
    BY <1>1, <1>2, <1>4, <1>9 DEF RegrantInv
  <2>2. \A c \in Granted(a) \cap Granted(n) : c \in Node /\ Forgot(c) /\ Won(c)
    BY <1>1, <1>9, ForgotWon DEF RegrantInv, Granted
  <2>3. a \notin Granted(a)
    BY <1>3, <1>9
  <2>4. CASE Forgot(n)
    <3>1. Cardinality(Granted(n)) >= Majority + 1
      BY <1>1, <1>6, <2>4, ForgotWon
    <3>2. Granted(n) \cap Granted(a) \subseteq {n}
      BY <2>1, <2>2, <2>3
    <3> QED
      BY <1>4, <1>7, <3>1, <3>2, NoOtherLeader
  <2>5. CASE ~ Forgot(n)
    <3>1. Granted(a) \cap Granted(n) = {}
      BY <2>1, <2>2, <2>3, <2>5
    <3> QED
      BY <1>2, <1>4, <1>7, <3>1, NoDisjointLeader
  <2> QED
    BY <2>4, <2>5
<1> QED
  BY <1>8, <1>9

\* What an accept changes in the acceptor: one proposal is added to one slot,
\* when it is acknowledged.
LEMMA AcceptStores ==
  ASSUME TypeOK, NEW a \in Node, NEW m \in Request, m.sid \in Slot,
         acc' = [acc EXCEPT ![a][m.sid] = Accepted(@, m)]
  PROVE  /\ \A b \in Node : \A s \in Slot :
              /\ acc'[b][s].bid_max = acc[b][s].bid_max
              /\ b # a \/ s # m.sid => acc'[b][s] = acc[b][s]
              /\ \A i \in DOMAIN acc[b][s].props :
                   /\ i \in DOMAIN acc'[b][s].props
                   /\ acc'[b][s].props[i] = acc[b][s].props[i]
         /\ m.bid >= acc[a][m.sid].bid_max =>
              \E i \in DOMAIN acc'[a][m.sid].props :
                acc'[a][m.sid].props[i].nid = m.nid
<1> DEFINE old == acc[a][m.sid]
           new == Accepted(old, m)
           prop == [bid |-> m.bid, nid |-> m.nid]
<1>1. acc \in [Node -> [Slot -> AccpInfo]] /\ old \in AccpInfo /\ old.props \in Seq(Prop)
  <2>1. acc \in [Node -> [Slot -> AccpInfo]]
    BY DEF TypeOK
  <2>2. old \in AccpInfo
    BY <2>1
  <2> QED
    BY <2>1, <2>2 DEF AccpInfo
<1>2. /\ new.bid_max = old.bid_max
      /\ new.props = IF m.bid >= old.bid_max THEN Append(old.props, prop)
                                             ELSE old.props
  <2> HIDE DEF old
  <2> QED
    BY <1>1 DEF Accepted, AccpInfo
<1>3. acc' = [acc EXCEPT ![a] = [acc[a] EXCEPT ![m.sid] = new]]
  OBVIOUS
<1> HIDE DEF new
<1>4. \A b \in Node : \A s \in Slot :
        acc'[b][s] = IF b = a /\ s = m.sid THEN new ELSE acc[b][s]
  <2> DEFINE row == [acc[a] EXCEPT ![m.sid] = new]
  <2>1. acc[a] \in [Slot -> AccpInfo]
    BY <1>1
  <2>2. \A s \in Slot : row[s] = IF s = m.sid THEN new ELSE acc[a][s]
    BY <2>1
  <2>3. acc' = [acc EXCEPT ![a] = row]
    BY <1>3
  <2> HIDE DEF row
  <2>4. \A b \in Node : acc'[b] = IF b = a THEN row ELSE acc[b]
    BY <1>1, <2>3
  <2> SUFFICES ASSUME NEW b \in Node, NEW s \in Slot
               PROVE  acc'[b][s] = IF b = a /\ s = m.sid THEN new ELSE acc[b][s]
    OBVIOUS
  <2>5. CASE b = a
    <3>1. acc'[b] = row
      BY <2>4, <2>5
    <3> QED
      BY <2>2, <2>5, <3>1
  <2>6. CASE b # a
    <3>1. acc'[b] = acc[b]
      BY <2>4, <2>6
    <3> QED
      BY <2>6, <3>1
  <2> QED
    BY <2>5, <2>6
<1> DEFINE q == old.props
<1>5. q \in Seq(Prop) /\ q = old.props
  BY <1>1
<1> HIDE DEF q, prop, old
<1>6. /\ \A i \in DOMAIN q : /\ i \in DOMAIN Append(q, prop)
                             /\ Append(q, prop)[i] = q[i]
      /\ Len(q) + 1 \in DOMAIN Append(q, prop)
      /\ Append(q, prop)[Len(q) + 1] = prop
  <2>1. /\ DOMAIN q = 1 .. Len(q) /\ Len(q) \in Nat
        /\ DOMAIN Append(q, prop) = 1 .. Len(q) + 1
        /\ \A k \in DOMAIN q : Append(q, prop)[k] = q[k]
        /\ \A k \in DOMAIN Append(q, prop) :
             IF k \in DOMAIN q THEN Append(q, prop)[k] = q[k]
             ELSE k = Len(q) + 1 /\ Append(q, prop)[k] = prop
    BY <1>5, AppendElements
  <2> QED
    BY <2>1
<1>7. /\ \A i \in DOMAIN old.props : /\ i \in DOMAIN new.props
                                     /\ new.props[i] = old.props[i]
      /\ m.bid >= old.bid_max => \E i \in DOMAIN new.props : new.props[i].nid = m.nid
  <2>1. \A i \in DOMAIN old.props : /\ i \in DOMAIN new.props
                                    /\ new.props[i] = old.props[i]
    BY <1>2, <1>5, <1>6
  <2>2. prop.nid = m.nid
    BY DEF prop
  <2>3. ASSUME m.bid >= old.bid_max
        PROVE  \E i \in DOMAIN new.props : new.props[i].nid = m.nid
    BY <1>2, <1>5, <1>6, <2>2, <2>3
  <2> QED
    BY <2>1, <2>3
<1>8. ASSUME NEW b \in Node, NEW s \in Slot
      PROVE  /\ acc'[b][s].bid_max = acc[b][s].bid_max
             /\ b # a \/ s # m.sid => acc'[b][s] = acc[b][s]
             /\ \A i \in DOMAIN acc[b][s].props :
                  /\ i \in DOMAIN acc'[b][s].props
                  /\ acc'[b][s].props[i] = acc[b][s].props[i]
  <2>1. CASE b = a /\ s = m.sid
    <3>1. acc'[b][s] = new /\ acc[b][s] = old
      BY <1>4, <2>1 DEF old
    <3> QED
      BY <1>2, <1>7, <2>1, <3>1
  <2>2. CASE b # a \/ s # m.sid
    <3>1. acc'[b][s] = acc[b][s]
      BY <1>4, <2>2
    <3> QED
      BY <3>1
  <2> QED
    BY <2>1, <2>2
<1>9. m.bid >= acc[a][m.sid].bid_max =>
        \E i \in DOMAIN acc'[a][m.sid].props :
          acc'[a][m.sid].props[i].nid = m.nid
  <2>1. acc'[a][m.sid] = new /\ acc[a][m.sid] = old
    BY <1>4 DEF old
  <2> QED
    BY <1>7, <2>1
<1> QED
  BY <1>8, <1>9

\* An accept is acknowledged, and its proposal held from then on.
LEMMA HandleAcceptForgotten ==
  ASSUME ForgetInv, TypeInv', NEW a \in Node, NEW n \in Node, HandleAccept(a, n)
  PROVE  ForgottenInv'
<1> DEFINE m == Head(link[n][a])
           ok == m.bid >= acc[a][m.sid].bid_max
           r == [type |-> "accepted", req |-> m.req, sid |-> m.sid,
                 bid |-> m.bid, ack |-> IF ok THEN "SUCCESS" ELSE "ERR_BID",
                 props |-> <<>>]
<1>1. /\ link[n][a] # <<>> /\ m.type = "accept"
      /\ acc' = [acc EXCEPT ![a][m.sid] = Accepted(@, m)]
      /\ link' = [link EXCEPT ![n][a] = Tail(@)]
      /\ reply' = [reply EXCEPT ![n][a] = Append(@, r)]
      /\ UNCHANGED <<txn, newest, grants, done>>
  BY DEF HandleAccept, Arrived, Answer, proposerVars
<1>2. /\ TypeOK /\ TypeInv /\ LeaderInv /\ RegrantInv /\ LateAcceptInv
      /\ LinkInv /\ PhaseOneInv /\ PromiseInv /\ PastInv /\ HeldInv /\ AnswerInv
  BY DEF ForgetInv, ForgottenInv, TypeInv
<1>3. /\ m \in Request /\ m.sid \in Slot /\ m.nid = n
      /\ m.sid = 1 => a \in Granted(n)
  BY <1>1, <1>2, HeadRequest DEF Granted
<1>4. /\ r.type = "accepted" /\ r.props = <<>> /\ r.sid = m.sid
      /\ r.ack = "SUCCESS" => ok
  OBVIOUS
<1>5. /\ \A b \in Node : \A s \in Slot :
           /\ acc'[b][s].bid_max = acc[b][s].bid_max
           /\ b # a \/ s # m.sid => acc'[b][s] = acc[b][s]
           /\ \A i \in DOMAIN acc[b][s].props :
                /\ i \in DOMAIN acc'[b][s].props
                /\ acc'[b][s].props[i] = acc[b][s].props[i]
      /\ ok => \E i \in DOMAIN acc'[a][m.sid].props :
                 acc'[a][m.sid].props[i].nid = m.nid
  BY <1>1, <1>2, <1>3, AcceptStores
<1> HIDE DEF m, ok, r
<1>6. 1 \in Slot
  BY BoundAssumption
<1>7. \A p : /\ Won(p)' <=> Won(p)
             /\ Granted(p)' = Granted(p)
             /\ Forgot(p)' <=> Forgot(p)
             /\ SafeLeader(p)' <=> SafeLeader(p)
  BY <1>1 DEF Won, Granted, Forgot, SafeLeader
<1>8. LeaderInv'
  BY <1>1, <1>2, <1>7 DEF LeaderInv, BidOf
<1>9. RegrantInv'
  BY <1>1, <1>2, <1>5, <1>6, <1>7 DEF RegrantInv
<1>10. LateAcceptInv'
  <2> SUFFICES ASSUME NEW b \in Node, acc'[b][1].bid_max = 0, acc'[b][1].props # <<>>
               PROVE  SafeLeader(b)
    BY <1>7 DEF LateAcceptInv
  <2>1. acc[b][1].bid_max = 0
    BY <1>5, <1>6
  <2>2. CASE b # a \/ m.sid # 1
    <3>1. acc'[b][1] = acc[b][1]
      BY <1>5, <1>6, <2>2
    <3> QED
      BY <1>2, <2>1, <3>1 DEF LateAcceptInv
  <2>3. CASE b = a /\ m.sid = 1
    BY <1>1, <2>1, <2>3, LateAccept DEF m
  <2> QED
    BY <2>2, <2>3
<1>11. LinkInv' /\ PhaseOneInv'
  BY <1>1, <1>2, ReceiveLinkInv, ReceivePhaseOne DEF m
<1>12. PromiseInv'
  <2> SUFFICES ASSUME NEW q \in Node, NEW b \in Node, NEW k \in DOMAIN reply'[q][b]
               PROVE  LET x == reply'[q][b][k]
                      IN  IF x.type = "promise"
                          THEN /\ x.ack = "SUCCESS" /\ b \in Granted(q)
                               /\ x.props # <<>> => SafeLeader(b)
                          ELSE x.props = <<>>
    BY <1>7 DEF PromiseInv
  <2>1. \/ k \in DOMAIN reply[q][b] /\ reply'[q][b][k] = reply[q][b][k]
        \/ q = n /\ b = a /\ reply'[q][b][k] = r
    BY <1>1, <1>2, ReplyAdded
  <2> QED
    BY <1>2, <1>4, <2>1 DEF PromiseInv
<1>13. PastInv'
  <2>1. \A q, b \in Node : Past(q, b) => Past(q, b)'
    BY <1>1, <1>2, PastReceived
  <2>2. m.sid = 1 => Past(n, a)'
    <3> SUFFICES ASSUME m.sid = 1, NEW k \in DOMAIN link'[n][a],
                        link'[n][a][k].type = "accept", link'[n][a][k].sid = 1
                 PROVE  FALSE
      BY <1>3, <1>7 DEF Past
    <3>1. /\ DOMAIN link[n][a] = 1 .. Len(link[n][a]) /\ Len(link[n][a]) \in Nat \ {0}
          /\ DOMAIN link'[n][a] = 1 .. Len(link[n][a]) - 1
          /\ link'[n][a][k] = link[n][a][k + 1] /\ m = link[n][a][1]
      BY <1>1, <1>2, Received, ZenonT(60) DEF m
    <3>2. k + 1 \in DOMAIN link[n][a] /\ 1 \in DOMAIN link[n][a] /\ k + 1 # 1
      BY <3>1
    <3>3. AnswersOnce(txn[n], done[n], a, link[n][a], reply[n][a])
      BY <1>2 DEF AnswerInv
    <3>4. link[n][a][k + 1].req = 1 /\ link[n][a][1].req = 1
      BY <3>1, <3>2, <3>3 DEF AnswersOnce
    <3>5. SameRound(link[n][a][k + 1], link[n][a][1])
      BY <1>1, <3>1, <3>4 DEF SameRound, PhaseOf
    <3> QED
      BY <3>2, <3>3, <3>5 DEF AnswersOnce, OneEach
  <2>3. ASSUME NEW q \in Node, NEW b \in Node, NEW k \in DOMAIN reply'[q][b],
               reply'[q][b][k].type = "accepted", reply'[q][b][k].sid = 1
        PROVE  Past(q, b)'
    <3>1. \/ k \in DOMAIN reply[q][b] /\ reply'[q][b][k] = reply[q][b][k]
          \/ q = n /\ b = a /\ reply'[q][b][k] = r
      BY <1>1, <1>2, ReplyAdded
    <3> QED
      BY <1>2, <1>4, <2>1, <2>2, <2>3, <3>1 DEF PastInv
  <2>4. ASSUME NEW q \in Node, NEW b \in Node, txn'[q].sid = 1, b \in txn'[q].accd_yes
        PROVE  Past(q, b)'
    BY <1>1, <1>2, <2>1, <2>4 DEF PastInv
  <2>5. ASSUME NEW q \in Node, newest'[q].sid > 1
        PROVE  \E Q \in SUBSET Node : /\ Cardinality(Q) >= Majority
                                      /\ \A b \in Q : Past(q, b)'
    BY <1>1, <1>2, <2>1, <2>5 DEF PastInv
  <2> QED
    BY <2>3, <2>4, <2>5 DEF PastInv
<1>14. HeldInv'
  <2>1. \A b, q \in Node : \A x \in Slot :
          Holds(acc[b], newest[b].sid, q, x) => Holds(acc'[b], newest'[b].sid, q, x)
    BY <1>1, <1>5 DEF Holds
  <2>2. r.ack = "SUCCESS" => Holds(acc'[a], newest'[a].sid, n, r.sid)
    BY <1>3, <1>4, <1>5 DEF Holds
  <2> SUFFICES ASSUME NEW q \in Node, NEW b \in Node
               PROVE  /\ \A k \in DOMAIN reply'[q][b] :
                           reply'[q][b][k].type = "accepted"
                           /\ reply'[q][b][k].ack = "SUCCESS"
                             => Holds(acc'[b], newest'[b].sid, q, reply'[q][b][k].sid)
                      /\ b \in txn'[q].accd_yes
                           => Holds(acc'[b], newest'[b].sid, q, txn'[q].sid)
    BY DEF HeldInv
  <2>3. txn[q].sid \in Slot
    BY <1>2 DEF TypeOK, TxnInfo
  <2>4. b \in txn'[q].accd_yes => Holds(acc'[b], newest'[b].sid, q, txn'[q].sid)
    BY <1>1, <1>2, <2>1, <2>3 DEF HeldInv
  <2>5. ASSUME NEW k \in DOMAIN reply'[q][b], reply'[q][b][k].type = "accepted",
               reply'[q][b][k].ack = "SUCCESS"
        PROVE  Holds(acc'[b], newest'[b].sid, q, reply'[q][b][k].sid)
    <3>1. \/ k \in DOMAIN reply[q][b] /\ reply'[q][b][k] = reply[q][b][k]
          \/ q = n /\ b = a /\ reply'[q][b][k] = r
      BY <1>1, <1>2, ReplyAdded
    <3>2. CASE k \in DOMAIN reply[q][b] /\ reply'[q][b][k] = reply[q][b][k]
      <4>1. reply[q][b][k].sid \in Slot
        <5>1. reply[q][b] \in Seq(Reply)
          BY <1>2 DEF TypeOK
        <5>2. reply[q][b][k] \in Reply
          BY <3>2, <5>1
        <5> QED
          BY <5>2 DEF Reply
      <4>2. Holds(acc[b], newest[b].sid, q, reply[q][b][k].sid)
        BY <1>2, <2>5, <3>2 DEF HeldInv
      <4> QED
        BY <2>1, <3>2, <4>1, <4>2
    <3>3. CASE q = n /\ b = a /\ reply'[q][b][k] = r
      BY <2>2, <2>5, <3>3
    <3> QED
      BY <3>1, <3>2, <3>3
  <2> QED
    BY <2>4, <2>5
<1>15. AnswerInv'
  BY <1>2, HandlersAnswers
<1> QED
  BY <1>8, <1>9, <1>10, <1>11, <1>12, <1>13, <1>14, <1>15 DEF ForgottenInv

-----------------------------------------------------------------------------
\* A promise.

\* What the response adds to the transaction: a proposal at most, and then its
\* sender is a safe leader.
LEMMA PromiseCounts ==
  ASSUME NEW t \in TxnInfo, NEW a \in Node, NEW m \in Reply, m.ack = "SUCCESS"
  PROVE  LET u == CountPromise(t, a, m)
         IN  /\ u.in_phase = t.in_phase
             /\ u.req = t.req /\ u.sid = t.sid /\ u.bid = t.bid
             /\ u.prom_yes = t.prom_yes \cup {a} /\ u.accd_yes = t.accd_yes
             /\ m.props = <<>> => u.prop_max = t.prop_max
<1>1. m.props = <<>> => BestProp(t.prop_max, m.props) = t.prop_max
  BY DEF BestProp
<1> QED
  BY <1>1 DEF CountPromise, TxnInfo

\* A majority for YES.
LEMMA MajorityYes ==
  ASSUME NEW Y \in SUBSET Node, NEW Z, CheckMajority(Y, Z) = "YES"
  PROVE  Cardinality(Y) >= Majority
<1>1. Cardinality(Y) \in Nat
  BY NodeAssumption, FS_Subset, FS_CardinalityType
<1>2. ~ (Cardinality(Y) < Majority)
  BY DEF CheckMajority
<1> QED
  BY <1>1, <1>2, MajorityType

\* A proposer that learned a proposal does not get a majority of promises: the
\* proposal comes from a safe leader.  So phase 2 starts with nothing learned.
LEMMA HandlePromiseForgotten ==
  ASSUME ForgetInv, TypeInv', NEW n \in Node, NEW a \in Node, HandlePromise(n, a)
  PROVE  ForgottenInv'
<1> DEFINE m == Head(reply[n][a])
           t == CountPromise(txn[n], a, m)
           verdict == CheckMajority(t.prom_yes, t.prom_no)
           p == CASE verdict = "YES" -> 2 [] verdict = "NO" -> -1 [] OTHER -> 1
           u == [t EXCEPT !.in_phase = p]
           x == AcceptMsg(n, u)
<1>1. /\ \/ UNCHANGED <<txn, link>>
         \/ /\ Current(txn[n], m, 1)
            /\ txn' = [txn EXCEPT ![n] = u]
            /\ link' = IF verdict = "YES" THEN Broadcast(n, x) ELSE link
      /\ reply' = [reply EXCEPT ![n][a] = Tail(@)]
      /\ reply[n][a] # <<>> /\ m.type = "promise"
      /\ UNCHANGED <<newest, acc, grants>>
  BY DEF HandlePromise, Replied
<1>2. /\ TypeOK /\ TypeInv /\ LeaderInv /\ RegrantInv /\ LateAcceptInv
      /\ LinkInv /\ PhaseOneInv /\ PromiseInv /\ PastInv /\ HeldInv /\ AnswerInv
  BY DEF ForgetInv, ForgottenInv, TypeInv
<1>3. m \in Reply /\ txn[n] \in TxnInfo
  BY <1>1, <1>2, ReplyHeadType DEF TypeOK
<1>4. /\ \A q, b \in Node : \A k \in DOMAIN reply'[q][b] :
           \E j \in DOMAIN reply[q][b] : reply'[q][b][k] = reply[q][b][j]
      /\ 1 \in DOMAIN reply[n][a] /\ m = reply[n][a][1]
  BY <1>1, <1>2, ReplyTaken
<1>5. /\ m.ack = "SUCCESS" /\ a \in Granted(n)
      /\ m.props # <<>> => SafeLeader(a)
  <2>1. \A k \in DOMAIN reply[n][a] :
          reply[n][a][k].type = "promise" =>
            /\ reply[n][a][k].ack = "SUCCESS" /\ a \in Granted(n)
            /\ reply[n][a][k].props # <<>> => SafeLeader(a)
    BY <1>2 DEF PromiseInv
  <2> QED
    BY <1>1, <1>4, <2>1
<1>6. \A q : /\ Won(q)' <=> Won(q)
             /\ Granted(q)' = Granted(q)
             /\ SafeLeader(q)' <=> SafeLeader(q)
  BY <1>1 DEF Won, Granted, Forgot, SafeLeader
<1>7. RegrantInv' /\ LateAcceptInv'
  BY <1>1, <1>2, RegrantSame
<1>8. PromiseInv'
  <2> SUFFICES ASSUME NEW q \in Node, NEW b \in Node, NEW k \in DOMAIN reply'[q][b]
               PROVE  LET y == reply'[q][b][k]
                      IN  IF y.type = "promise"
                          THEN /\ y.ack = "SUCCESS" /\ b \in Granted(q)
                               /\ y.props # <<>> => SafeLeader(b)
                          ELSE y.props = <<>>
    BY <1>6 DEF PromiseInv
  <2>1. PICK j \in DOMAIN reply[q][b] : reply'[q][b][k] = reply[q][b][j]
    BY <1>4
  <2> QED
    BY <1>2, <2>1 DEF PromiseInv
<1>9. AnswerInv'
  BY <1>2, HandlePromiseAnswers
<1>10. CASE UNCHANGED <<txn, link>>
  <2>1. LeaderInv'
    BY <1>1, <1>2, <1>6, <1>10 DEF LeaderInv, BidOf
  <2>2. LinkInv' /\ PhaseOneInv'
    <3>1. \A q, b \in Node : /\ Won(q)' <=> Won(q)
                             /\ \A k : PreparedBefore(q, b, k)' <=> PreparedBefore(q, b, k)
      BY <1>1, <1>10 DEF Won, PreparedBefore
    <3>2. LinkInv'
      BY <1>2, <1>10, <3>1 DEF LinkInv, BidOf
    <3>3. PhaseOneInv'
      BY <1>1, <1>2, <1>10 DEF PhaseOneInv, PreparedBefore
    <3> QED
      BY <3>2, <3>3
  <2>3. PastInv'
    <3>1. \A q, b : Past(q, b)' <=> Past(q, b)
      BY <1>1, <1>10, PastSame
    <3>2. ASSUME NEW q \in Node, NEW b \in Node, NEW k \in DOMAIN reply'[q][b],
                 reply'[q][b][k].type = "accepted", reply'[q][b][k].sid = 1
          PROVE  Past(q, b)
      BY <1>2, <1>4, <3>2 DEF PastInv
    <3>3. ASSUME NEW q \in Node, newest[q].sid > 1
          PROVE  \E Q \in SUBSET Node : /\ Cardinality(Q) >= Majority
                                        /\ \A b \in Q : Past(q, b)'
      BY <1>2, <3>1, <3>3 DEF PastInv
    <3>4. \A q, b \in Node : txn[q].sid = 1 /\ b \in txn[q].accd_yes => Past(q, b)
      BY <1>2 DEF PastInv
    <3> QED
      BY <1>1, <1>10, <3>1, <3>2, <3>3, <3>4 DEF PastInv
  <2>4. HeldInv'
    <3>1. \A b, q \in Node : \A s \in Slot :
            Holds(acc[b], newest[b].sid, q, s) => Holds(acc'[b], newest'[b].sid, q, s)
      BY <1>1
    <3>2. txn' = txn
      BY <1>10
    <3> QED
      BY <1>2, <1>4, <3>1, <3>2, HeldSame
  <2> QED
    BY <1>7, <1>8, <1>9, <2>1, <2>2, <2>3, <2>4 DEF ForgottenInv
<1>11. CASE /\ Current(txn[n], m, 1)
            /\ txn' = [txn EXCEPT ![n] = u]
            /\ link' = IF verdict = "YES" THEN Broadcast(n, x) ELSE link
  <2>1. /\ txn[n].in_phase = 1 /\ txn[n].sid = 1 /\ txn[n].bid = BidNormal
        /\ newest[n].sid = 1 /\ txn[n].req = 1 /\ done[n] = 0
    <3>1. txn[n].in_phase = 1
      BY <1>11 DEF Current
    <3>2. txn[n].sid = 1 /\ txn[n].bid = BidNormal
      BY <1>2, <3>1 DEF LeaderInv, BidOf
    <3>3. done[n] \in 0 .. MaxReq
      BY <1>2 DEF TypeOK
    <3>4. /\ newest[n].sid = done[n] + 1 /\ txn[n].sid = newest[n].sid
          /\ txn[n].req = done[n] + 1
      BY <1>2, <3>1 DEF TypeInv, SlotsConsecutive
    <3>5. newest[n].sid = 1 /\ done[n] = 0 /\ txn[n].req = 1
      BY <3>2, <3>3, <3>4, BoundAssumption
    <3> QED
      BY <3>1, <3>2, <3>5
  <2>2. a # n \/ m.props = <<>>
    <3>1. SafeLeader(n) => newest[n].sid > 1
      BY <1>2, ForgotWon DEF SafeLeader
    <3> QED
      BY <1>5, <2>1, <3>1
  <2>3. /\ t.in_phase = 1 /\ t.sid = 1 /\ t.bid = BidNormal /\ t.req = 1
        /\ t.prom_yes = txn[n].prom_yes \cup {a} /\ t.accd_yes = txn[n].accd_yes
        /\ m.props = <<>> => t.prop_max = txn[n].prop_max
        /\ t \in TxnInfo
    BY <1>3, <1>5, <2>1, PromiseCounts, CountType, SMTT(30) DEF Counted
  <2>4. t.prop_max # NoProp => \E b \in Node \ {n} : SafeLeader(b)
    <3>1. CASE m.props = <<>>
      BY <1>2, <2>1, <2>3, <3>1 DEF LeaderInv
    <3>2. CASE m.props # <<>>
      BY <1>5, <2>2, <3>2
    <3> QED
      BY <3>1, <3>2
  <2>5. t.prom_yes \subseteq Granted(n)
    BY <1>2, <1>5, <2>3 DEF LeaderInv
  <2>6. ASSUME verdict = "YES"
        PROVE  Won(n) /\ t.prop_max = NoProp
    <3>1. t.prom_yes \in SUBSET Node
      BY <2>3 DEF TxnInfo
    <3>2. Cardinality(t.prom_yes) >= Majority
      BY <2>6, <3>1, MajorityYes
    <3>3. \A b \in t.prom_yes : <<b, 1, n>> \in grants
      BY <2>5 DEF Granted
    <3> HIDE DEF t
    <3>4. Won(n)
      BY <3>1, <3>2, <3>3, WonBy
    <3> QED
      BY <2>4, <3>4 DEF SafeLeader
  <2>7. p \in {-1, 1, 2} /\ (verdict = "YES" <=> p = 2)
    OBVIOUS
  <2> HIDE DEF t, p, verdict
  <2>8. /\ u \in TxnInfo /\ u.in_phase = p /\ u.prop_max = t.prop_max
        /\ u.sid = 1 /\ u.bid = BidNormal /\ u.req = 1
        /\ u.prom_yes = t.prom_yes /\ u.accd_yes = t.accd_yes
    <3>1. p \in {-1, 0, 1, 2}
      BY <2>7
    <3>2. Counted(t, u) /\ u.in_phase = p /\ u.prop_max = t.prop_max
          /\ u.prom_yes = t.prom_yes
      BY <2>3, <3>1, PhaseType
    <3>3. u.accd_yes = t.accd_yes
      BY <2>3, PhaseSets
    <3> QED
      BY <2>3, <3>2, <3>3 DEF Counted
  <2> HIDE DEF u
  <2>9. \A q \in Node : txn'[q] = IF q = n THEN u ELSE txn[q]
    BY <1>2, <1>11 DEF TypeOK
  <2>10. LeaderInv'
    <3> SUFFICES ASSUME NEW q \in Node
                 PROVE  /\ newest[q].is_me <=> newest[q].sid > 1
                        /\ newest[q].sid > 1 => Won(q)
                        /\ txn'[q].in_phase # 0 => txn'[q].bid = BidOf(txn'[q].sid)
                        /\ txn'[q].in_phase = 1 =>
                             /\ txn'[q].sid = 1
                             /\ txn'[q].prop_max # NoProp =>
                                  \E c \in Node \ {q} : SafeLeader(c)
                        /\ txn'[q].in_phase = 2 => Won(q) /\ txn'[q].prop_max = NoProp
                        /\ txn'[q].prom_yes \subseteq Granted(q)
      BY <1>1, <1>6 DEF LeaderInv, BidOf
    <3>1. CASE q = n
      <4>1. newest[q].is_me <=> newest[q].sid > 1
        BY <1>2 DEF LeaderInv
      <4> QED
        BY <2>1, <2>4, <2>5, <2>6, <2>7, <2>8, <2>9, <3>1, <4>1 DEF BidOf
    <3>2. CASE q # n
      BY <1>2, <2>9, <3>2 DEF LeaderInv
    <3> QED
      BY <3>1, <3>2
  <2>11. ASSUME verdict = "YES"
         PROVE  /\ x \in Request /\ x.type = "accept" /\ x.sid = 1
                /\ x.bid = BidNormal /\ x.nid = n
    <3>1. x \in Request
      BY <2>8, MessageType
    <3>2. u.prop_max = NoProp
      BY <2>6, <2>8, <2>11
    <3> QED
      BY <2>8, <3>1, <3>2 DEF AcceptMsg, ChosenProp
  <2> HIDE DEF x
  <2>12. ASSUME verdict # "YES" PROVE link' = link
    BY <1>11, <2>12
  <2>13. LinkInv'
    <3>1. CASE verdict = "YES"
      <4>1. Won(n) /\ \A b \in Node : PreparedBefore(n, b, Len(link[n][b]) + 1)
        BY <1>2, <2>1, <2>6, <3>1 DEF PhaseOneInv
      <4>2. link' = Broadcast(n, x) /\ grants' = grants
        BY <1>1, <1>11, <3>1
      <4>3. x.bid = BidOf(x.sid)
        BY <2>11, <3>1 DEF BidOf
      <4> QED
        BY <1>2, <2>11, <3>1, <4>1, <4>2, <4>3, SendLinkInv
    <3>2. CASE verdict # "YES"
      <4>1. link' = link /\ grants' = grants
        BY <1>1, <2>12, <3>2
      <4>2. \A q, b \in Node : /\ Won(q)' <=> Won(q)
                               /\ \A k : PreparedBefore(q, b, k)' <=> PreparedBefore(q, b, k)
        BY <4>1 DEF Won, PreparedBefore
      <4> QED
        BY <1>2, <4>1, <4>2 DEF LinkInv, BidOf
    <3> QED
      BY <3>1, <3>2
  <2>14. PhaseOneInv'
    <3> SUFFICES ASSUME NEW q \in Node, NEW b \in Node, txn'[q].in_phase = 1
                 PROVE  PreparedBefore(q, b, Len(link[q][b]) + 1)'
      BY DEF PhaseOneInv
    <3>1. txn[q].in_phase = 1
      BY <2>1, <2>9
    <3>2. PreparedBefore(q, b, Len(link[q][b]) + 1)
      BY <1>2, <3>1 DEF PhaseOneInv
    <3>3. link'[q][b] = link[q][b]
      <4>1. CASE q = n
        BY <2>7, <2>8, <2>9, <2>12, <4>1
      <4>2. CASE q # n
        BY <1>2, <1>11, <4>2 DEF TypeOK, Broadcast
      <4> QED
        BY <4>1, <4>2
    <3> QED
      BY <1>1, <3>2, <3>3 DEF PreparedBefore
  <2>15. \A b \in Node : \A k \in DOMAIN reply[n][b] : reply[n][b][k].type # "accepted"
    <3> SUFFICES ASSUME NEW b \in Node, NEW k \in DOMAIN reply[n][b],
                        reply[n][b][k].type = "accepted"
                 PROVE  FALSE
      OBVIOUS
    <3>1. WasSent(txn[n], done[n], reply[n][b][k])
      BY <1>2 DEF AnswerInv, AnswersOnce, Underway
    <3>2. PhaseOf(reply[n][b][k]) = 2
      BY DEF PhaseOf
    <3> QED
      BY <2>1, <3>1, <3>2 DEF WasSent
  <2>16. txn[n].accd_yes = {}
    BY <1>2, <2>1 DEF AnswerInv, AnswersOnce
  <2>17. PastInv'
    <3>1. ASSUME NEW q \in Node, q # n, NEW b \in Node, Past(q, b)
          PROVE  Past(q, b)'
      <4>1. link'[q][b] = link[q][b]
        BY <1>2, <1>11, <3>1 DEF TypeOK, Broadcast
      <4> QED
        BY <1>1, <3>1, <4>1 DEF Past, Granted
    <3>2. ASSUME NEW q \in Node, NEW b \in Node, NEW k \in DOMAIN reply'[q][b],
                 reply'[q][b][k].type = "accepted", reply'[q][b][k].sid = 1
          PROVE  Past(q, b)'
      <4>1. PICK j \in DOMAIN reply[q][b] : reply'[q][b][k] = reply[q][b][j]
        BY <1>4
      <4>2. q # n
        BY <2>15, <3>2, <4>1
      <4>3. Past(q, b)
        BY <1>2, <3>2, <4>1 DEF PastInv
      <4> QED
        BY <3>1, <4>2, <4>3
    <3>3. ASSUME NEW q \in Node, NEW b \in Node,
                 txn'[q].sid = 1, b \in txn'[q].accd_yes
          PROVE  Past(q, b)'
      <4>1. q # n /\ txn'[q] = txn[q]
        BY <2>3, <2>8, <2>9, <2>16, <3>3
      <4>2. Past(q, b)
        BY <1>2, <3>3, <4>1 DEF PastInv
      <4> QED
        BY <3>1, <4>1, <4>2
    <3>4. ASSUME NEW q \in Node, newest'[q].sid > 1
          PROVE  \E Q \in SUBSET Node : /\ Cardinality(Q) >= Majority
                                        /\ \A b \in Q : Past(q, b)'
      <4>1. q # n /\ newest[q].sid > 1
        BY <1>1, <2>1, <3>4
      <4>2. PICK Q \in SUBSET Node : /\ Cardinality(Q) >= Majority
                                     /\ \A b \in Q : Past(q, b)
        BY <1>2, <4>1 DEF PastInv
      <4> QED
        BY <3>1, <4>1, <4>2
    <3> QED
      BY <3>2, <3>3, <3>4 DEF PastInv
  <2>18. HeldInv'
    <3> SUFFICES ASSUME NEW q \in Node, NEW b \in Node
                 PROVE  /\ \A k \in DOMAIN reply'[q][b] :
                             reply'[q][b][k].type = "accepted"
                             /\ reply'[q][b][k].ack = "SUCCESS"
                               => Holds(acc[b], newest[b].sid, q, reply'[q][b][k].sid)
                        /\ b \in txn'[q].accd_yes
                             => Holds(acc[b], newest[b].sid, q, txn'[q].sid)
      BY <1>1 DEF HeldInv
    <3>1. ASSUME NEW k \in DOMAIN reply'[q][b], reply'[q][b][k].type = "accepted",
                 reply'[q][b][k].ack = "SUCCESS"
          PROVE  Holds(acc[b], newest[b].sid, q, reply'[q][b][k].sid)
      <4>1. PICK j \in DOMAIN reply[q][b] : reply'[q][b][k] = reply[q][b][j]
        BY <1>4
      <4> QED
        BY <1>2, <3>1, <4>1 DEF HeldInv
    <3>2. b \in txn'[q].accd_yes => Holds(acc[b], newest[b].sid, q, txn'[q].sid)
      BY <1>2, <2>3, <2>8, <2>9, <2>16 DEF HeldInv
    <3> QED
      BY <3>1, <3>2
  <2> QED
    BY <1>7, <1>8, <1>9, <2>10, <2>13, <2>14, <2>17, <2>18 DEF ForgottenInv
<1> QED
  BY <1>1, <1>10, <1>11

-----------------------------------------------------------------------------
\* A response to an accept.

\* What forgetting a slot leaves of an acceptor.
LEMMA Forgets ==
  ASSUME NEW slots \in [Slot -> AccpInfo], NEW s \in Slot, NEW x \in Slot
  PROVE  IF s > ForgetLag /\ x = s - ForgetLag
         THEN /\ ForgetSlot(slots, s)[x].bid_max = 0
              /\ ForgetSlot(slots, s)[x].props = <<>>
         ELSE ForgetSlot(slots, s)[x] = slots[x]
<1>1. Fresh.bid_max = 0 /\ Fresh.props = <<>>
  BY DEF Fresh
<1>2. CASE s > ForgetLag
  <2>1. ForgetSlot(slots, s) = [slots EXCEPT ![s - ForgetLag] = Fresh]
    BY <1>2 DEF ForgetSlot
  <2>2. ForgetSlot(slots, s)[x] = IF x = s - ForgetLag THEN Fresh ELSE slots[x]
    BY <2>1
  <2> QED
    BY <1>1, <1>2, <2>2
<1>3. CASE ~ (s > ForgetLag)
  BY <1>3 DEF ForgetSlot
<1> QED
  BY <1>2, <1>3

\* What a response without a proposal adds to the transaction.
LEMMA AcceptedCounts ==
  ASSUME NEW t \in TxnInfo, NEW a \in Node, NEW m \in Reply, m.props = <<>>
  PROVE  LET u == CountAccepted(t, a, m)
         IN  /\ u.in_phase = t.in_phase
             /\ u.req = t.req /\ u.sid = t.sid /\ u.bid = t.bid
             /\ u.prom_yes = t.prom_yes /\ u.prop_max = t.prop_max
             /\ u.accd_yes = IF m.ack = "SUCCESS" THEN t.accd_yes \cup {a}
                                                  ELSE t.accd_yes
<1>1. BestProp(t.prop_max, m.props) = t.prop_max
  BY DEF BestProp
<1> QED
  BY <1>1 DEF CountAccepted, TxnInfo

\* What is known of the acceptors counted, the new one included.
LEMMA CountedHold ==
  ASSUME ForgetInv, NEW n \in Node, NEW a \in Node, reply[n][a] # <<>>,
         Head(reply[n][a]).type = "accepted", Current(txn[n], Head(reply[n][a]), 2)
  PROVE  LET u == CountAccepted(txn[n], a, Head(reply[n][a]))
         IN  /\ Head(reply[n][a]).props = <<>>
             /\ \A b \in u.accd_yes : /\ Holds(acc[b], newest[b].sid, n, txn[n].sid)
                                      /\ txn[n].sid = 1 => Past(n, b)
<1> DEFINE m == Head(reply[n][a])
           u == CountAccepted(txn[n], a, m)
<1>1. TypeOK /\ PromiseInv /\ PastInv /\ HeldInv
  BY DEF ForgetInv, ForgottenInv, TypeInv
<1>2. m \in Reply /\ txn[n] \in TxnInfo
  BY <1>1, ReplyHeadType DEF TypeOK
<1>3. 1 \in DOMAIN reply[n][a] /\ m = reply[n][a][1]
  <2> DEFINE q == reply[n][a]
  <2>1. q \in Seq(Reply) /\ q # <<>>
    BY <1>1 DEF TypeOK
  <2> HIDE DEF q
  <2>2. 1 \in DOMAIN q /\ Head(q) = q[1]
    BY <2>1, TailElements
  <2> QED
    BY <2>2 DEF q
<1>4. m.sid = txn[n].sid
  BY DEF Current
<1>5. m.props = <<>>
  BY <1>1, <1>3 DEF PromiseInv
<1>6. m.ack = "SUCCESS" => Holds(acc[a], newest[a].sid, n, m.sid)
  BY <1>1, <1>3 DEF HeldInv
<1>7. m.sid = 1 => Past(n, a)
  BY <1>1, <1>3 DEF PastInv
<1>8. \A b \in txn[n].accd_yes : /\ Holds(acc[b], newest[b].sid, n, txn[n].sid)
                                 /\ txn[n].sid = 1 => Past(n, b)
  <2>1. txn[n].accd_yes \subseteq Node
    BY <1>2 DEF TxnInfo
  <2> QED
    BY <1>1, <2>1 DEF HeldInv, PastInv
<1>9. u.accd_yes = IF m.ack = "SUCCESS" THEN txn[n].accd_yes \cup {a}
                                        ELSE txn[n].accd_yes
  BY <1>2, <1>5, AcceptedCounts
<1> HIDE DEF m, u
<1>10. \A b \in u.accd_yes : /\ Holds(acc[b], newest[b].sid, n, txn[n].sid)
                             /\ txn[n].sid = 1 => Past(n, b)
  BY <1>4, <1>6, <1>7, <1>8, <1>9
<1> QED
  BY <1>5, <1>10 DEF m, u

\* The effect of a decision, when the proposal is the node's own.
LEMMA DecideEffect ==
  ASSUME TypeInv, TypeInv', NEW n \in Node, NEW t \in TxnInfo, Decide(n, t),
         t.sid = newest[n].sid, t.prop_max = NoProp
  PROVE  /\ t.sid \in Slot
         /\ \A q \in Node :
              /\ newest'[q] = IF q = n THEN [sid |-> t.sid + 1, is_me |-> TRUE]
                                       ELSE newest[q]
              /\ txn'[q] = IF q = n THEN Idle ELSE txn[q]
              /\ acc'[q] = IF q = n THEN ForgetSlot(acc[n], t.sid) ELSE acc[q]
         /\ log' = log \cup {[sid |-> t.sid, by |-> n, req |-> t.req]}
<1> DEFINE s == t.sid
           mine == ChosenProp(n, t).nid = n
<1>1. s \in Slot /\ mine
  BY DEF TxnInfo, ChosenProp
<1>2. newest' = [newest EXCEPT ![n] = NewestAfter(@, s, mine)]
  BY DEF Decide
<1>3. /\ txn' = [txn EXCEPT ![n] = Idle]
      /\ acc' = [acc EXCEPT ![n] = ForgetSlot(@, s)]
      /\ log' = log \cup {[sid |-> t.sid, by |-> n, req |-> t.req]}
  BY DEF Decide
<1>4. /\ newest \in [Node -> [sid : 1 .. MaxReq + 1, is_me : BOOLEAN]]
      /\ txn \in [Node -> TxnInfo] /\ acc \in [Node -> [Slot -> AccpInfo]]
  BY DEF TypeInv, TypeOK
<1>5. newest[n].sid = s
  OBVIOUS
<1> HIDE DEF mine, s
<1>6. NewestAfter(newest[n], s, mine) = [sid |-> s + 1, is_me |-> TRUE]
  BY <1>1, <1>5, BoundAssumption DEF NewestAfter
<1>7. \A q \in Node :
        newest'[q] = IF q = n THEN [sid |-> s + 1, is_me |-> TRUE] ELSE newest[q]
  BY <1>2, <1>4, <1>6
<1>8. \A q \in Node : /\ txn'[q] = IF q = n THEN Idle ELSE txn[q]
                      /\ acc'[q] = IF q = n THEN ForgetSlot(acc[n], s) ELSE acc[q]
  BY <1>3, <1>4
<1> QED
  BY <1>1, <1>3, <1>7, <1>8 DEF s

\* A slot an acceptor holds stays held through a decision of its node: the slot
\* dropped is covered by the newest slot.
LEMMA DecideHolds ==
  ASSUME TypeInv, TypeInv', NEW n \in Node, NEW t \in TxnInfo, Decide(n, t),
         t.sid = newest[n].sid, t.prop_max = NoProp,
         NEW b \in Node, NEW q, NEW x \in Slot, Holds(acc[b], newest[b].sid, q, x)
  PROVE  Holds(acc'[b], newest'[b].sid, q, x)
<1> DEFINE s == t.sid
<1>1. /\ s \in Slot /\ s \in Nat /\ x \in Nat /\ newest[n].sid = s
      /\ newest'[b] = IF b = n THEN [sid |-> s + 1, is_me |-> TRUE] ELSE newest[b]
      /\ acc'[b] = IF b = n THEN ForgetSlot(acc[n], s) ELSE acc[b]
  BY DecideEffect, BoundAssumption
<1> HIDE DEF s
<1>2. CASE b # n
  BY <1>1, <1>2
<1>3. CASE b = n
  <2>1. acc[n] \in [Slot -> AccpInfo]
    BY DEF TypeInv, TypeOK
  <2>2. newest'[b].sid = s + 1 /\ acc'[b] = ForgetSlot(acc[n], s)
    BY <1>1, <1>3
  <2>3. CASE s > ForgetLag /\ x = s - ForgetLag
    <3>1. s + 1 > x + ForgetLag
      BY <1>1, <2>3, BoundAssumption
    <3> QED
      BY <2>2, <3>1 DEF Holds
  <2>4. CASE ~ (s > ForgetLag /\ x = s - ForgetLag)
    <3>1. acc'[b][x] = acc[b][x]
      BY <1>1, <1>3, <2>1, <2>2, <2>4, Forgets
    <3>2. newest[b].sid > x + ForgetLag => newest'[b].sid > x + ForgetLag
      BY <1>1, <1>3, <2>2, BoundAssumption
    <3> QED
      BY <3>1, <3>2 DEF Holds
  <2> QED
    BY <2>3, <2>4
<1> QED
  BY <1>2, <1>3

\* The promises stay consistent when a decision makes an acceptor drop slot 1:
\* it had promised the slot to one node at most until then.
LEMMA DecideRegrant ==
  ASSUME TypeInv, TypeInv', RegrantInv, LateAcceptInv, grants' = grants,
         NEW n \in Node, NEW t \in TxnInfo, Decide(n, t),
         t.sid = newest[n].sid, t.prop_max = NoProp
  PROVE  RegrantInv' /\ LateAcceptInv'
<1> DEFINE s == t.sid
<1>1. /\ s \in Slot /\ s \in Nat /\ newest[n].sid = s /\ 1 \in Slot
      /\ \A q \in Node :
           /\ newest'[q] = IF q = n THEN [sid |-> s + 1, is_me |-> TRUE] ELSE newest[q]
           /\ acc'[q] = IF q = n THEN ForgetSlot(acc[n], s) ELSE acc[q]
  BY DecideEffect, BoundAssumption
<1> HIDE DEF s
<1>2. acc[n] \in [Slot -> AccpInfo]
  BY DEF TypeInv, TypeOK
<1>3. \A x \in Slot : IF s > ForgetLag /\ x = s - ForgetLag
                      THEN acc'[n][x].bid_max = 0 /\ acc'[n][x].props = <<>>
                      ELSE acc'[n][x] = acc[n][x]
  BY <1>1, <1>2, Forgets
<1>4. newest'[n].sid = s + 1
  BY <1>1
<1>5. \A q \in Node \ {n} : acc'[q] = acc[q] /\ newest'[q] = newest[q]
  BY <1>1
<1>6. \A p : /\ Won(p)' <=> Won(p)
             /\ Granted(p)' = Granted(p)
  BY DEF Won, Granted
<1>7. \A q \in Node : Forgot(q) => Forgot(q)'
  BY <1>1, <1>4, <1>5, BoundAssumption DEF Forgot
<1>8. CASE s = ForgetLag + 1
  <2>1. Forgot(n)' /\ ~ Forgot(n)
    BY <1>1, <1>4, <1>8, BoundAssumption DEF Forgot
  <2>2. acc'[n][1].bid_max = 0 /\ acc'[n][1].props = <<>>
    BY <1>1, <1>3, <1>8, BoundAssumption
  <2>3. \A m, p \in Node : n \in Granted(m) /\ n \in Granted(p) => m = p
    BY <2>1 DEF RegrantInv
  <2> QED
    <3>1. \A b \in Node : b = n \/ (acc'[b] = acc[b] /\ newest'[b] = newest[b])
      BY <1>5
    <3>2. \A b \in Node : \A x \in Slot :
            acc'[b][x].bid_max \in IF x = 1 THEN {0, BidNormal} ELSE {0}
      <4> SUFFICES ASSUME NEW b \in Node, NEW x \in Slot
                   PROVE  acc'[b][x].bid_max \in IF x = 1 THEN {0, BidNormal} ELSE {0}
        OBVIOUS
      <4>1. acc[b][x].bid_max \in IF x = 1 THEN {0, BidNormal} ELSE {0}
        BY DEF RegrantInv
      <4> QED
        BY <1>3, <3>1, <4>1
    <3>3. \A b, p \in Node : b \in Granted(p) /\ acc'[b][1].bid_max = 0 => Forgot(b)'
      BY <1>7, <2>1, <3>1 DEF RegrantInv
    <3>4. \A b, m, p \in Node :
            b \in Granted(m) /\ b \in Granted(p) /\ m # p
              => Forgot(b)' /\ acc'[b][1].bid_max = BidNormal
      BY <1>7, <2>3, <3>1 DEF RegrantInv
    <3>5. RegrantInv'
      BY <1>6, <3>2, <3>3, <3>4 DEF RegrantInv
    <3>6. ASSUME NEW b \in Node, acc'[b][1].bid_max = 0, acc'[b][1].props # <<>>
          PROVE  SafeLeader(b)'
      <4>1. SafeLeader(b)
        BY <2>2, <3>1, <3>6 DEF LateAcceptInv
      <4>2. \A q \in Node : newest'[q].sid >= newest[q].sid
        <5>1. \A q \in Node : newest[q].sid \in Nat
          BY NewestType DEF TypeInv
        <5> QED
          BY <1>1, <1>4, <1>5, <5>1
      <4> QED
        BY <4>1, <4>2, SafeLeaderSame
    <3> QED
      BY <3>5, <3>6 DEF LateAcceptInv
<1>9. CASE s # ForgetLag + 1
  <2>1. acc'[n][1] = acc[n][1]
    BY <1>1, <1>3, <1>9, BoundAssumption
  <2>2. \A b \in Node : acc'[b][1] = acc[b][1]
    BY <1>5, <2>1
  <2>3. \A b \in Node : \A x \in Slot :
          acc'[b][x].bid_max \in IF x = 1 THEN {0, BidNormal} ELSE {0}
    <3> SUFFICES ASSUME NEW b \in Node, NEW x \in Slot
                 PROVE  acc'[b][x].bid_max \in IF x = 1 THEN {0, BidNormal} ELSE {0}
      OBVIOUS
    <3>1. acc[b][x].bid_max \in IF x = 1 THEN {0, BidNormal} ELSE {0}
      BY DEF RegrantInv
    <3> QED
      BY <1>3, <1>5, <3>1
  <2>4. RegrantInv'
    BY <1>6, <1>7, <2>2, <2>3 DEF RegrantInv
  <2>5. \A q \in Node : newest'[q].sid >= newest[q].sid
    <3>1. \A q \in Node : newest[q].sid \in Nat
      BY NewestType DEF TypeInv
    <3> QED
      BY <1>1, <1>4, <1>5, <3>1
  <2>6. LateAcceptInv'
    BY <2>2, <2>5, SafeLeaderSame DEF LateAcceptInv
  <2> QED
    BY <2>4, <2>6
<1> QED
  BY <1>8, <1>9

\* A decision: the majority that accepted is past slot 1, and what the
\* acceptor of the node drops makes nobody else a leader.
LEMMA HandleAcceptedForgotten ==
  ASSUME ForgetInv, TypeInv', NEW n \in Node, NEW a \in Node, HandleAccepted(n, a)
  PROVE  ForgottenInv'
<1> DEFINE m == Head(reply[n][a])
           t == CountAccepted(txn[n], a, m)
           verdict == CheckMajority(t.accd_yes, t.accd_no)
           p == IF verdict = "NO" THEN -1 ELSE 2
           u == [t EXCEPT !.in_phase = p]
<1>1. /\ \/ UNCHANGED <<txn, newest, acc>>
         \/ Current(txn[n], m, 2) /\ verdict = "YES" /\ Decide(n, t)
         \/ /\ Current(txn[n], m, 2)
            /\ txn' = [txn EXCEPT ![n] = u]
            /\ UNCHANGED <<newest, acc>>
      /\ reply' = [reply EXCEPT ![n][a] = Tail(@)]
      /\ reply[n][a] # <<>> /\ m.type = "accepted" /\ UNCHANGED <<link, grants>>
  BY DEF HandleAccepted, Replied
<1>2. /\ TypeOK /\ TypeInv /\ LeaderInv /\ RegrantInv /\ LateAcceptInv
      /\ LinkInv /\ PhaseOneInv /\ PromiseInv /\ PastInv /\ HeldInv /\ AnswerInv
  BY DEF ForgetInv, ForgottenInv, TypeInv
<1>3. m \in Reply /\ txn[n] \in TxnInfo
  BY <1>1, <1>2, ReplyHeadType DEF TypeOK
<1>4. \A q, b \in Node : \A k \in DOMAIN reply'[q][b] :
        \E j \in DOMAIN reply[q][b] : reply'[q][b][k] = reply[q][b][j]
  BY <1>1, <1>2, ReplyTaken
<1>5. \A q, b : /\ Won(q)' <=> Won(q)
                /\ Granted(q)' = Granted(q)
                /\ Past(q, b)' <=> Past(q, b)
  BY <1>1 DEF Won, Granted, Past
<1>6. AnswerInv'
  BY <1>2, HandleAcceptedAnswers
<1>7. /\ LinkInv'
      /\ (\A q \in Node : txn'[q].in_phase = 1 => txn[q].in_phase = 1) => PhaseOneInv'
  <2>1. link' = link /\ grants' = grants
    BY <1>1
  <2>2. \A q, b \in Node : /\ Won(q)' <=> Won(q)
                           /\ \A k : PreparedBefore(q, b, k)' <=> PreparedBefore(q, b, k)
    BY <2>1 DEF Won, PreparedBefore
  <2>3. LinkInv'
    BY <1>2, <2>1, <2>2 DEF LinkInv, BidOf
  <2>4. (\A q \in Node : txn'[q].in_phase = 1 => txn[q].in_phase = 1) => PhaseOneInv'
    BY <1>2, <2>1, <2>2 DEF PhaseOneInv
  <2> QED
    BY <2>3, <2>4
<1>8. Current(txn[n], m, 2) =>
        /\ txn[n].in_phase = 2 /\ Won(n) /\ txn[n].prop_max = NoProp
        /\ txn[n].sid = newest[n].sid /\ txn[n].bid = BidOf(txn[n].sid)
  BY <1>2 DEF Current, LeaderInv, TypeInv, SlotsConsecutive
<1>9. Current(txn[n], m, 2) =>
        \A b \in t.accd_yes : /\ Holds(acc[b], newest[b].sid, n, txn[n].sid)
                              /\ txn[n].sid = 1 => Past(n, b)
  BY <1>1, CountedHold
<1>10. Current(txn[n], m, 2) =>
         /\ t.in_phase = 2 /\ t.sid = txn[n].sid /\ t.bid = txn[n].bid
         /\ t.prom_yes = txn[n].prom_yes /\ t.prop_max = NoProp
         /\ t \in TxnInfo
  <2> SUFFICES ASSUME Current(txn[n], m, 2)
               PROVE  /\ t.in_phase = 2 /\ t.sid = txn[n].sid /\ t.bid = txn[n].bid
                      /\ t.prom_yes = txn[n].prom_yes /\ t.prop_max = NoProp
                      /\ t \in TxnInfo
    OBVIOUS
  <2>1. m.props = <<>>
    BY <1>1, CountedHold
  <2>2. t \in TxnInfo
    BY <1>3, CountType DEF Counted
  <2> QED
    BY <1>3, <1>8, <2>1, <2>2, AcceptedCounts
<1>11. p \in {-1, 2}
  OBVIOUS
<1>12. ASSUME \A q \in Node : SafeLeader(q) => SafeLeader(q)'
       PROVE  PromiseInv'
  <2> SUFFICES ASSUME NEW q \in Node, NEW b \in Node, NEW k \in DOMAIN reply'[q][b]
               PROVE  LET y == reply'[q][b][k]
                      IN  IF y.type = "promise"
                          THEN /\ y.ack = "SUCCESS" /\ b \in Granted(q)
                               /\ y.props # <<>> => SafeLeader(b)'
                          ELSE y.props = <<>>
    BY <1>5 DEF PromiseInv
  <2>1. PICK j \in DOMAIN reply[q][b] : reply'[q][b][k] = reply[q][b][j]
    BY <1>4
  <2> QED
    BY <1>2, <1>12, <2>1 DEF PromiseInv
<1>13. ASSUME NEW q \in Node, NEW b \in Node, NEW k \in DOMAIN reply'[q][b],
              reply'[q][b][k].type = "accepted", reply'[q][b][k].sid = 1
       PROVE  Past(q, b)'
  BY <1>2, <1>4, <1>5, <1>13 DEF PastInv
<1>14. ASSUME \A b, q \in Node : \A x \in Slot :
                Holds(acc[b], newest[b].sid, q, x) => Holds(acc'[b], newest'[b].sid, q, x),
              \A q, b \in Node :
                b \in txn'[q].accd_yes => Holds(acc[b], newest[b].sid, q, txn'[q].sid)
       PROVE  HeldInv'
  <2> SUFFICES ASSUME NEW q \in Node, NEW b \in Node
               PROVE  /\ \A k \in DOMAIN reply'[q][b] :
                           reply'[q][b][k].type = "accepted"
                           /\ reply'[q][b][k].ack = "SUCCESS"
                             => Holds(acc'[b], newest'[b].sid, q, reply'[q][b][k].sid)
                      /\ b \in txn'[q].accd_yes
                           => Holds(acc'[b], newest'[b].sid, q, txn'[q].sid)
    BY DEF HeldInv
  <2>1. \A j \in DOMAIN reply[q][b] : reply[q][b][j].sid \in Slot
    <3>1. reply[q][b] \in Seq(Reply)
      BY <1>2 DEF TypeOK
    <3>2. \A j \in DOMAIN reply[q][b] : reply[q][b][j] \in Reply
      BY <3>1
    <3> QED
      BY <3>2 DEF Reply
  <2>2. txn'[q].sid \in Slot
    BY DEF TypeInv, TypeOK, TxnInfo
  <2>3. ASSUME NEW k \in DOMAIN reply'[q][b], reply'[q][b][k].type = "accepted",
               reply'[q][b][k].ack = "SUCCESS"
        PROVE  Holds(acc'[b], newest'[b].sid, q, reply'[q][b][k].sid)
    <3>1. PICK j \in DOMAIN reply[q][b] : reply'[q][b][k] = reply[q][b][j]
      BY <1>4
    <3>2. Holds(acc[b], newest[b].sid, q, reply[q][b][j].sid)
      BY <1>2, <2>3, <3>1 DEF HeldInv
    <3> QED
      BY <1>14, <2>1, <3>1, <3>2
  <2> QED
    BY <1>14, <2>2, <2>3
<1>15. CASE UNCHANGED <<txn, newest, acc>>
  <2>1. \A q : SafeLeader(q)' <=> SafeLeader(q)
    BY <1>1, <1>5, <1>15 DEF SafeLeader, Forgot
  <2>2. LeaderInv'
    BY <1>2, <1>5, <1>15, <2>1 DEF LeaderInv, BidOf
  <2>3. RegrantInv' /\ LateAcceptInv'
    BY <1>1, <1>2, <1>15, RegrantSame
  <2>4. PhaseOneInv'
    BY <1>7, <1>15
  <2>5. PromiseInv'
    BY <1>12, <2>1
  <2>6. PastInv'
    BY <1>2, <1>5, <1>13, <1>15 DEF PastInv
  <2>7. HeldInv'
    <3>1. \A q, b \in Node :
            b \in txn'[q].accd_yes => Holds(acc[b], newest[b].sid, q, txn'[q].sid)
      BY <1>2, <1>15 DEF HeldInv
    <3> QED
      BY <1>14, <1>15, <3>1
  <2> QED
    BY <1>6, <1>7, <2>2, <2>3, <2>4, <2>5, <2>6, <2>7 DEF ForgottenInv
<1>16. CASE /\ Current(txn[n], m, 2)
            /\ txn' = [txn EXCEPT ![n] = u]
            /\ UNCHANGED <<newest, acc>>
  <2> HIDE DEF m, t, p, verdict
  <2>1. /\ u.in_phase = p /\ u.prop_max = NoProp /\ u.sid = txn[n].sid
        /\ u.bid = txn[n].bid /\ u.prom_yes = txn[n].prom_yes
        /\ u.accd_yes = t.accd_yes
    <3>1. t \in TxnInfo /\ p \in {-1, 0, 1, 2}
      BY <1>10, <1>11, <1>16
    <3>2. Counted(t, u) /\ u.in_phase = p /\ u.prop_max = t.prop_max
          /\ u.prom_yes = t.prom_yes
      BY <3>1, PhaseType
    <3>3. u.accd_yes = t.accd_yes
      BY <3>1, PhaseSets
    <3> QED
      BY <1>10, <1>16, <3>2, <3>3 DEF Counted
  <2> HIDE DEF u
  <2>2. \A q \in Node : txn'[q] = IF q = n THEN u ELSE txn[q]
    BY <1>2, <1>16 DEF TypeOK
  <2>3. \A q : SafeLeader(q)' <=> SafeLeader(q)
    BY <1>1, <1>5, <1>16 DEF SafeLeader, Forgot
  <2>4. LeaderInv'
    <3> SUFFICES ASSUME NEW q \in Node
                 PROVE  /\ newest[q].is_me <=> newest[q].sid > 1
                        /\ newest[q].sid > 1 => Won(q)
                        /\ txn'[q].in_phase # 0 => txn'[q].bid = BidOf(txn'[q].sid)
                        /\ txn'[q].in_phase = 1 =>
                             /\ txn'[q].sid = 1
                             /\ txn'[q].prop_max # NoProp =>
                                  \E c \in Node \ {q} : SafeLeader(c)
                        /\ txn'[q].in_phase = 2 => Won(q) /\ txn'[q].prop_max = NoProp
                        /\ txn'[q].prom_yes \subseteq Granted(q)
      BY <1>5, <1>16, <2>3 DEF LeaderInv, BidOf
    <3>1. CASE q = n
      <4>1. /\ newest[q].is_me <=> newest[q].sid > 1
            /\ newest[q].sid > 1 => Won(q)
            /\ txn[q].prom_yes \subseteq Granted(q)
        BY <1>2 DEF LeaderInv
      <4> QED
        BY <1>8, <1>11, <1>16, <2>1, <2>2, <3>1, <4>1
    <3>2. CASE q # n
      BY <1>2, <2>2, <3>2 DEF LeaderInv
    <3> QED
      BY <3>1, <3>2
  <2>5. RegrantInv' /\ LateAcceptInv'
    BY <1>1, <1>2, <1>16, RegrantSame
  <2>6. PhaseOneInv'
    BY <1>7, <1>11, <2>1, <2>2
  <2>7. PromiseInv'
    BY <1>12, <2>3
  <2>8. PastInv'
    <3>1. ASSUME NEW q \in Node, NEW b \in Node, txn'[q].sid = 1, b \in txn'[q].accd_yes
          PROVE  Past(q, b)
      BY <1>2, <1>9, <1>16, <2>1, <2>2, <3>1 DEF PastInv
    <3>2. ASSUME NEW q \in Node, newest[q].sid > 1
          PROVE  \E Q \in SUBSET Node : /\ Cardinality(Q) >= Majority
                                        /\ \A b \in Q : Past(q, b)
      BY <1>2, <3>2 DEF PastInv
    <3> QED
      BY <1>5, <1>13, <1>16, <3>1, <3>2 DEF PastInv
  <2>9. HeldInv'
    <3>1. \A q, b \in Node :
            b \in txn'[q].accd_yes => Holds(acc[b], newest[b].sid, q, txn'[q].sid)
      BY <1>2, <1>9, <1>16, <2>1, <2>2 DEF HeldInv
    <3> QED
      BY <1>14, <1>16, <3>1
  <2> QED
    BY <1>6, <1>7, <2>4, <2>5, <2>6, <2>7, <2>8, <2>9 DEF ForgottenInv
<1>17. CASE Current(txn[n], m, 2) /\ verdict = "YES" /\ Decide(n, t)
  <2> DEFINE s == t.sid
  <2>1. /\ s \in Slot /\ s \in Nat \ {0} /\ newest[n].sid = s /\ txn[n].sid = s
        /\ t.prop_max = NoProp /\ t \in TxnInfo /\ Won(n)
    BY <1>8, <1>10, <1>17, BoundAssumption DEF TxnInfo
  <2>2. Cardinality(t.accd_yes) >= Majority /\ t.accd_yes \in SUBSET Node
    <3>1. t.accd_yes \in SUBSET Node
      BY <2>1 DEF TxnInfo
    <3> QED
      BY <1>17, <3>1, MajorityYes
  <2> HIDE DEF m, t, p, verdict, u
  <2>3. \A q \in Node :
          /\ newest'[q] = IF q = n THEN [sid |-> s + 1, is_me |-> TRUE] ELSE newest[q]
          /\ txn'[q] = IF q = n THEN Idle ELSE txn[q]
    BY <1>2, <1>17, <2>1, DecideEffect
  <2>4. \A q \in Node : newest'[q].sid >= newest[q].sid
    <3>1. \A q \in Node : newest[q].sid \in Nat
      BY <1>2, NewestType
    <3> QED
      BY <2>1, <2>3, <3>1
  <2>5. \A q \in Node : SafeLeader(q) => SafeLeader(q)'
    BY <1>1, <1>2, <2>4, SafeLeaderSame
  <2>6. Idle.in_phase = 0 /\ Idle.accd_yes = {} /\ Idle.prom_yes = {}
    BY DEF Idle, NewTxn
  <2>7. RegrantInv' /\ LateAcceptInv'
    <3>1. grants' = grants
      BY <1>1
    <3> QED
      BY <1>2, <1>17, <2>1, <3>1, DecideRegrant
  <2>8. \A b, q \in Node : \A x \in Slot :
          Holds(acc[b], newest[b].sid, q, x) => Holds(acc'[b], newest'[b].sid, q, x)
    BY <1>2, <1>17, <2>1, DecideHolds
  <2> HIDE DEF s
  <2>9. LeaderInv'
    <3> SUFFICES ASSUME NEW q \in Node
                 PROVE  /\ newest'[q].is_me <=> newest'[q].sid > 1
                        /\ newest'[q].sid > 1 => Won(q)
                        /\ txn'[q].in_phase # 0 => txn'[q].bid = BidOf(txn'[q].sid)
                        /\ txn'[q].in_phase = 1 =>
                             /\ txn'[q].sid = 1
                             /\ txn'[q].prop_max # NoProp =>
                                  \E c \in Node \ {q} : SafeLeader(c)'
                        /\ txn'[q].in_phase = 2 => Won(q) /\ txn'[q].prop_max = NoProp
                        /\ txn'[q].prom_yes \subseteq Granted(q)
      BY <1>5 DEF LeaderInv, BidOf
    <3>1. CASE q = n
      BY <2>1, <2>3, <2>6, <3>1
    <3>2. CASE q # n
      BY <1>2, <2>3, <2>5, <3>2 DEF LeaderInv
    <3> QED
      BY <3>1, <3>2
  <2>10. PhaseOneInv'
    BY <1>7, <2>3, <2>6
  <2>11. PromiseInv'
    BY <1>12, <2>5
  <2>12. PastInv'
    <3>1. ASSUME NEW q \in Node, NEW b \in Node, txn'[q].sid = 1, b \in txn'[q].accd_yes
          PROVE  Past(q, b)
      BY <1>2, <2>3, <2>6, <3>1 DEF PastInv
    <3>2. ASSUME NEW q \in Node, newest'[q].sid > 1
          PROVE  \E Q \in SUBSET Node : /\ Cardinality(Q) >= Majority
                                        /\ \A b \in Q : Past(q, b)
      <4>1. CASE newest[q].sid > 1
        BY <1>2, <4>1 DEF PastInv
      <4>2. CASE ~ (newest[q].sid > 1)
        <5>1. q = n /\ s = 1
          BY <2>1, <2>3, <3>2, <4>2
        <5>2. \A b \in t.accd_yes : Past(q, b)
          BY <1>9, <1>17, <2>1, <5>1
        <5> QED
          BY <2>2, <5>2
      <4> QED
        BY <4>1, <4>2
    <3> QED
      BY <1>5, <1>13, <3>1, <3>2 DEF PastInv
  <2>13. HeldInv'
    <3>1. \A q, b \in Node :
            b \in txn'[q].accd_yes => Holds(acc[b], newest[b].sid, q, txn'[q].sid)
      BY <1>2, <2>3, <2>6 DEF HeldInv
    <3> QED
      BY <1>14, <2>8, <3>1
  <2> QED
    BY <1>6, <1>7, <2>7, <2>9, <2>10, <2>11, <2>12, <2>13 DEF ForgottenInv
<1> QED
  BY <1>1, <1>15, <1>16, <1>17

-----------------------------------------------------------------------------
\* All steps, and what follows from the invariant.

\* Every step preserves the invariant.
LEMMA ForgetStep == ForgetInv /\ [Next]_vars => ForgetInv'
<1> SUFFICES ASSUME ForgetInv, [Next]_vars
             PROVE  ForgetInv'
  OBVIOUS
<1>1. TypeInv'
  BY TypeStep DEF ForgetInv
<1>2. CASE \/ UNCHANGED vars
           \/ \E n \in Node : Commit(n) \/ Crash(n)
           \/ \E n, a \in Node : AbortOnPrepare(a, n) \/ AbortOnWrite(n, a)
  <2>1. UNCHANGED <<txn, newest, acc, link, reply, grants, done>>
    BY <1>2 DEF vars, proposerVars, Commit, Crash, AbortOnPrepare, AbortOnWrite
  <2> QED
    BY <1>1, <2>1, StableForgotten DEF ForgetInv
<1>3. CASE \E n \in Node : StartRequest(n)
  BY <1>1, <1>3, StartRequestForgotten DEF ForgetInv
<1>4. CASE \E n, a \in Node : HandlePrepare(a, n) \/ HandleAccept(a, n)
  BY <1>1, <1>4, HandlePrepareForgotten, HandleAcceptForgotten DEF ForgetInv
<1>5. CASE \E n, a \in Node : HandlePromise(n, a) \/ HandleAccepted(n, a)
  BY <1>1, <1>5, HandlePromiseForgotten, HandleAcceptedForgotten DEF ForgetInv
<1> QED
  BY <1>2, <1>3, <1>4, <1>5 DEF Next

\* The invariant, for any number of slots forgotten.
THEOREM ForgottenIsInvariant == Spec => []ForgottenInv
<1>1. Init => ForgetInv
  BY TypeInit, ForgottenInit DEF ForgetInv
<1>2. ForgetInv => ForgottenInv
  BY DEF ForgetInv
<1> QED
  BY <1>1, <1>2, ForgetStep, PTL DEF Spec

\* A node that decides has learned no proposal (mpaxos_accept: "for now it
\* should be null"), however many slots were forgotten.
THEOREM DecidersLearnNothing == Spec => []PropMaxIsNull
<1>1. ForgottenInv => PropMaxIsNull
  BY DEF ForgottenInv, LeaderInv, PropMaxIsNull
<1> QED
  BY <1>1, ForgottenIsInvariant, PTL

\* handle_msg_accepted decides only the node's own proposal for its newest slot,
\* and a majority of the acceptors holds it then.
LEMMA DecidesOwn ==
  ASSUME ForgetInv, NEW n \in Node, NEW a \in Node, HandleAccepted(n, a)
  PROVE  LET t == CountAccepted(txn[n], a, Head(reply[n][a]))
         IN  \/ UNCHANGED <<newest, acc, log>>
             \/ /\ Decide(n, t) /\ t \in TxnInfo
                /\ t.sid = newest[n].sid /\ t.prop_max = NoProp
                /\ t.accd_yes \in SUBSET Node
                /\ Cardinality(t.accd_yes) >= Majority
                /\ \A b \in t.accd_yes : Holds(acc[b], newest[b].sid, n, t.sid)
<1> DEFINE m == Head(reply[n][a])
           t == CountAccepted(txn[n], a, m)
           verdict == CheckMajority(t.accd_yes, t.accd_no)
<1>1. /\ \/ UNCHANGED <<newest, acc, log>>
         \/ Current(txn[n], m, 2) /\ verdict = "YES" /\ Decide(n, t)
      /\ reply[n][a] # <<>> /\ m.type = "accepted"
  BY DEF HandleAccepted, Replied
<1>2. TypeOK /\ TypeInv /\ LeaderInv
  BY DEF ForgetInv, ForgottenInv, TypeInv
<1>3. m \in Reply /\ txn[n] \in TxnInfo
  BY <1>1, <1>2, ReplyHeadType DEF TypeOK
<1>4. CASE Current(txn[n], m, 2) /\ verdict = "YES" /\ Decide(n, t)
  <2>1. txn[n].prop_max = NoProp /\ txn[n].sid = newest[n].sid
    BY <1>2, <1>4 DEF Current, LeaderInv, TypeInv, SlotsConsecutive
  <2>2. /\ m.props = <<>>
        /\ \A b \in t.accd_yes : Holds(acc[b], newest[b].sid, n, txn[n].sid)
    BY <1>1, <1>4, CountedHold
  <2>3. t \in TxnInfo
    BY <1>3, CountType DEF Counted
  <2>4. t.sid = txn[n].sid /\ t.prop_max = txn[n].prop_max
    BY <1>3, <2>2, AcceptedCounts
  <2>5. t.accd_yes \in SUBSET Node
    BY <2>3 DEF TxnInfo
  <2>6. Cardinality(t.accd_yes) >= Majority
    BY <1>4, <2>5, MajorityYes
  <2> HIDE DEF t
  <2>7. \A b \in t.accd_yes : Holds(acc[b], newest[b].sid, n, t.sid)
    BY <2>2, <2>4
  <2> QED
    BY <1>4, <2>1, <2>3, <2>4, <2>5, <2>6, <2>7 DEF t
<1> QED
  BY <1>1, <1>4

\* An accept takes no proposal away.
LEMMA AcceptKeeps ==
  ASSUME TypeOK, LinkInv, NEW a \in Node, NEW n \in Node, HandleAccept(a, n)
  PROVE  \A b \in Node : \A s \in Slot : \A i \in DOMAIN acc[b][s].props :
           /\ i \in DOMAIN acc'[b][s].props
           /\ acc'[b][s].props[i] = acc[b][s].props[i]
<1> DEFINE m == Head(link[n][a])
<1>1. link[n][a] # <<>> /\ acc' = [acc EXCEPT ![a][m.sid] = Accepted(@, m)]
  BY DEF HandleAccept, Arrived
<1>2. m \in Request /\ m.sid \in Slot
  BY <1>1, HeadRequest
<1>3. /\ \A b \in Node : \A s \in Slot :
           /\ acc'[b][s].bid_max = acc[b][s].bid_max
           /\ b # a \/ s # m.sid => acc'[b][s] = acc[b][s]
           /\ \A i \in DOMAIN acc[b][s].props :
                /\ i \in DOMAIN acc'[b][s].props
                /\ acc'[b][s].props[i] = acc[b][s].props[i]
      /\ m.bid >= acc[a][m.sid].bid_max =>
           \E i \in DOMAIN acc'[a][m.sid].props :
             acc'[a][m.sid].props[i].nid = m.nid
  BY <1>1, <1>2, AcceptStores, ZenonT(60)
<1> QED
  BY <1>3

\* What an acceptor holds it holds on, or its node goes ForgetLag slots further.
LEMMA HoldsOn ==
  ASSUME ForgetInv, TypeInv', [Next]_vars, NEW b \in Node, NEW q,
         NEW x \in Slot, Holds(acc[b], newest[b].sid, q, x)
  PROVE  Holds(acc'[b], newest'[b].sid, q, x)
<1>1. TypeInv /\ TypeOK /\ acc \in [Node -> [Slot -> AccpInfo]]
  BY DEF ForgetInv, TypeInv, TypeOK
<1>2. CASE UNCHANGED <<acc, newest>>
  BY <1>2
<1>3. ASSUME NEW n \in Node, NEW a \in Node, HandlePrepare(a, n)
      PROVE  Holds(acc'[b], newest'[b].sid, q, x)
  <2> DEFINE m == Head(link[n][a])
  <2>1. /\ acc' = [acc EXCEPT ![a][m.sid] = Promised(@, m)] /\ newest' = newest
    BY <1>3 DEF HandlePrepare, proposerVars
  <2> HIDE DEF m
  <2>2. acc[b] \in [Slot -> AccpInfo] /\ acc[b][x] \in AccpInfo
    BY <1>1
  <2>3. acc'[b][x] = acc[b][x] \/ acc'[b][x] = Promised(acc[b][x], m)
    BY <1>1, <2>1, <2>2
  <2>4. acc'[b][x].props = acc[b][x].props
    BY <2>2, <2>3 DEF Promised, AccpInfo
  <2> QED
    BY <2>1, <2>4 DEF Holds
<1>4. ASSUME NEW n \in Node, NEW a \in Node, HandleAccept(a, n)
      PROVE  Holds(acc'[b], newest'[b].sid, q, x)
  <2>1. newest' = newest
    BY <1>4 DEF HandleAccept, proposerVars
  <2>2. \A i \in DOMAIN acc[b][x].props :
          /\ i \in DOMAIN acc'[b][x].props
          /\ acc'[b][x].props[i] = acc[b][x].props[i]
    BY <1>1, <1>4, AcceptKeeps DEF ForgetInv, ForgottenInv
  <2> QED
    BY <2>1, <2>2 DEF Holds
<1>5. ASSUME NEW n \in Node, NEW a \in Node, HandleAccepted(n, a)
      PROVE  Holds(acc'[b], newest'[b].sid, q, x)
  <2> DEFINE t == CountAccepted(txn[n], a, Head(reply[n][a]))
  <2>1. \/ UNCHANGED <<newest, acc, log>>
        \/ /\ Decide(n, t) /\ t \in TxnInfo
           /\ t.sid = newest[n].sid /\ t.prop_max = NoProp
    BY <1>5, DecidesOwn
  <2> HIDE DEF t
  <2> QED
    BY <1>1, <1>2, <2>1, DecideHolds
<1>6. CASE \/ UNCHANGED vars
           \/ \E n \in Node : Commit(n) \/ Crash(n) \/ StartRequest(n)
           \/ \E n, a \in Node : AbortOnPrepare(a, n) \/ AbortOnWrite(n, a)
           \/ \E n, a \in Node : HandlePromise(n, a)
  <2>1. UNCHANGED <<acc, newest>>
    BY <1>6 DEF vars, proposerVars, Commit, Crash, StartRequest, AbortOnPrepare,
                AbortOnWrite, HandlePromise
  <2> QED
    BY <1>2, <2>1
<1> QED
  BY <1>3, <1>4, <1>5, <1>6 DEF Next

\* The log grows by decisions only.
LEMMA LogGrows ==
  ASSUME ForgetInv, TypeInv', [Next]_vars, NEW e \in log'
  PROVE  \/ e \in log
         \/ /\ e.by \in Node
            /\ \E Q \in SUBSET Node :
                 /\ Cardinality(Q) >= Majority
                 /\ \A b \in Q : Holds(acc[b], newest[b].sid, e.by, e.sid)
<1>1. CASE log' = log
  BY <1>1
<1>2. ASSUME NEW n \in Node, NEW a \in Node, HandleAccepted(n, a), e \notin log
      PROVE  /\ e.by \in Node
             /\ \E Q \in SUBSET Node :
                  /\ Cardinality(Q) >= Majority
                  /\ \A b \in Q : Holds(acc[b], newest[b].sid, e.by, e.sid)
  <2> DEFINE t == CountAccepted(txn[n], a, Head(reply[n][a]))
  <2>1. /\ Decide(n, t) /\ t.accd_yes \in SUBSET Node
        /\ Cardinality(t.accd_yes) >= Majority
        /\ \A b \in t.accd_yes : Holds(acc[b], newest[b].sid, n, t.sid)
    BY <1>2, DecidesOwn
  <2>2. e = [sid |-> t.sid, by |-> n, req |-> t.req]
    BY <1>2, <2>1 DEF Decide
  <2> HIDE DEF t
  <2>3. e.by = n /\ e.sid = t.sid
    BY <2>2
  <2> QED
    BY <2>1, <2>3
<1>3. CASE \/ UNCHANGED vars
           \/ \E n \in Node : Commit(n) \/ Crash(n) \/ StartRequest(n)
           \/ \E n, a \in Node : AbortOnPrepare(a, n) \/ AbortOnWrite(n, a)
           \/ \E n, a \in Node : HandlePrepare(a, n) \/ HandleAccept(a, n)
           \/ \E n, a \in Node : HandlePromise(n, a)
  <2>1. log' = log
    BY <1>3 DEF vars, Commit, Crash, StartRequest, AbortOnPrepare, AbortOnWrite,
                HandlePrepare, HandleAccept, HandlePromise
  <2> QED
    BY <1>1, <2>1
<1> QED
  BY <1>2, <1>3 DEF Next

\* What was decided is held by a majority of the acceptors from then on, but for
\* those whose own node went ForgetLag slots further.
THEOREM DecidedStaysHeld == Spec => []DecidedIsHeld
<1> DEFINE Held == \A e \in log : \E Q \in SUBSET Node :
                     /\ Cardinality(Q) >= Majority
                     /\ \A b \in Q : Holds(acc[b], newest[b].sid, e.by, e.sid)
<1>1. Init => ForgetInv /\ Held
  <2>1. Init => log = {}
    BY DEF Init
  <2> QED
    BY <2>1, TypeInit, ForgottenInit DEF ForgetInv
<1>2. ForgetInv /\ Held /\ [Next]_vars => ForgetInv' /\ Held'
  <2> SUFFICES ASSUME ForgetInv, Held, [Next]_vars, NEW e \in log'
               PROVE  \E Q \in SUBSET Node :
                        /\ Cardinality(Q) >= Majority
                        /\ \A b \in Q : Holds(acc'[b], newest'[b].sid, e.by, e.sid)
    BY ForgetStep
  <2>1. TypeInv'
    BY ForgetStep DEF ForgetInv
  <2>2. e.sid \in Slot
    BY <2>1 DEF TypeInv, TypeOK
  <2>3. PICK Q \in SUBSET Node :
               /\ Cardinality(Q) >= Majority
               /\ \A b \in Q : Holds(acc[b], newest[b].sid, e.by, e.sid)
    BY <2>1, LogGrows
  <2>4. \A b \in Q : Holds(acc'[b], newest'[b].sid, e.by, e.sid)
    BY <2>1, <2>2, <2>3, HoldsOn
  <2> QED
    BY <2>3, <2>4
<1>3. Held => DecidedIsHeld
  BY DEF DecidedIsHeld, Holds
<1> HIDE DEF Held
<1> QED
  BY <1>1, <1>2, <1>3, PTL DEF Spec
=============================================================================
