---------------------------- MODULE MprDagProof ----------------------------
(***************************************************************************)
(* Proofs about module MprDag, for every set of requests, every finite set *)
(* of groups and every capacity: types, which requests are given out, what *)
(* the queues hold, and that the DAG implements GroupOrder.                *)
(***************************************************************************)
EXTENDS MprDag, SequenceTheorems, FiniteSetTheorems, TLAPS

QueueType == [head : Req \cup {Null}, queue : Seq(Req)]

\* After an operation that ends with a peek, only an empty queue has no head.
Peeked(q) == q.head = Null => q.queue = <<>>

Distinct(s) == \A i, j \in DOMAIN s : s[i] = s[j] => i = j

\* The queue of a group holds the pending requests of the group, in order.
HoldsGroup(q) ==
  /\ Peeked(ht[q])
  /\ Range(Contents(ht[q])) = {r \in Range(pending) : q \in qids[r]}
  /\ \A i, j \in DOMAIN Contents(ht[q]) :
       i < j => Before(Contents(ht[q])[i], Contents(ht[q])[j])

\* r's life: committed with its groups, in hand while it is enlisted and first
\* everywhere, first everywhere from then until it is popped.
Follows(r) ==
  /\ qids[r] = {} <=> job[r] = "new"
  /\ r \in Range(pending) <=> job[r] \notin {"new", "popped"}
  /\ InHand(r) => job[r] = "enlisted"
  /\ job[r] = "enlisted" => (InHand(r) <=> AtHead(r, ht))
  /\ job[r] \in {"pooled", "started", "calledback"} => AtHead(r, ht)
  /\ job[r] = "enlisted" /\ ~ InHand(r) => color[r] # "WHITE"

DaemonInv ==
  /\ daemon.node = Null <=> daemon.at \notin {"gray", "give"}
  /\ daemon.node \notin Range(white)
  /\ Distinct(white)

\* The inductive invariant.  What is enlisted and in nobody's hand is not
\* white, or mpr_dag_pop would not put it in the white queue when its turn
\* comes; nothing more is known of the color, which is set without the lock.
DagInv ==
  /\ TypeOK
  /\ ~ crashed =>
       /\ Distinct(pending)
       /\ \A q \in Queue : HoldsGroup(q)
       /\ \A r \in Req : Follows(r)
       /\ DaemonInv

-----------------------------------------------------------------------------
\* What a queue that was just peeked holds, and that it can be peeked again.
LEMMA ContentsOfPeeked ==
  ASSUME NEW q \in QueueType, Peeked(q)
  PROVE  /\ Contents(q) \in Seq(Req)
         /\ q.head = Null <=> Contents(q) = <<>>
         /\ q.head # Null => /\ Contents(q) # <<>>
                             /\ Contents(q)[1] = q.head
                             /\ Head(Contents(q)) = q.head
                             /\ Tail(Contents(q)) = q.queue
<1>1. q.head \in Req \cup {Null} /\ q.queue \in Seq(Req)
  BY DEF QueueType
<1>2. CASE q.head = Null
  BY <1>1, <1>2 DEF Contents, Peeked
<1>3. CASE q.head # Null
  <2>1. Contents(q) = <<q.head>> \o q.queue /\ <<q.head>> \in Seq(Req)
    BY <1>1, <1>3 DEF Contents
  <2>2. /\ Contents(q) \in Seq(Req)
        /\ Len(Contents(q)) = Len(q.queue) + 1
        /\ Contents(q)[1] = q.head
        /\ \A i \in 1 .. Len(q.queue) : Contents(q)[i + 1] = q.queue[i]
    BY <1>1, <2>1, ConcatProperties
  <2>3. Contents(q) # <<>>
    BY <1>1, <2>2
  <2>4. /\ Tail(Contents(q)) \in Seq(Req)
        /\ Len(Tail(Contents(q))) = Len(q.queue)
        /\ \A i \in 1 .. Len(q.queue) : Tail(Contents(q))[i] = q.queue[i]
    BY <1>1, <2>2, <2>3, HeadTailProperties
  <2>5. Tail(Contents(q)) = q.queue
    BY <1>1, <2>4, SeqEqual
  <2> QED BY <1>3, <2>2, <2>3, <2>5
<1> QED BY <1>2, <1>3

\* mpr_queue_push and mpr_queue_peek put an element at the end.
LEMMA PushAppends ==
  ASSUME NEW q \in QueueType, Peeked(q), NEW r \in Req, HasRoom(q),
         NEW p, p = Peek(Push(q, r))
  PROVE  /\ p \in QueueType
         /\ Peeked(p)
         /\ Len(p.queue) <= Capacity
         /\ Contents(p) = Append(Contents(q), r)
         /\ p.head = IF q.head = Null THEN r ELSE q.head
<1>1. q.head \in Req \cup {Null} /\ q.queue \in Seq(Req)
  BY DEF QueueType
<1>2. Push(q, r) = [head |-> q.head, queue |-> Append(q.queue, r)]
  BY SMTT(30) DEF QueueType, Push
<1>3. /\ Append(q.queue, r) \in Seq(Req)
      /\ Append(q.queue, r) # <<>>
      /\ Len(Append(q.queue, r)) <= Capacity
  BY <1>1, CapacityAssumption, AppendProperties DEF HasRoom
<1>4. CASE q.head = Null
  <2>1. q.queue = <<>>
    BY <1>4 DEF Peeked
  <2>2. Head(Append(q.queue, r)) = r /\ Tail(Append(q.queue, r)) = <<>>
    BY <1>1, <2>1, HeadTailAppend
  <2>3. p = [head |-> r, queue |-> <<>>]
    BY <1>2, <1>3, <1>4, <2>2 DEF Peek
  <2>4. r # Null
    BY NodeAssumption
  <2>5. Contents(p) = <<r>> \o <<>> /\ Contents(q) = <<>>
    BY <1>4, <2>1, <2>3, <2>4 DEF Contents
  <2>6. Contents(p) = Append(Contents(q), r)
    BY <2>5
  <2> QED BY <1>4, <2>3, <2>4, <2>6, CapacityAssumption DEF QueueType, Peeked
<1>5. CASE q.head # Null
  <2>1. p = [head |-> q.head, queue |-> Append(q.queue, r)]
    BY <1>2, <1>5 DEF Peek
  <2>2. p \in QueueType /\ Peeked(p)
    BY <1>1, <1>3, <1>5, <2>1 DEF QueueType, Peeked
  <2>3. Contents(p) = <<q.head>> \o Append(q.queue, r) /\ Contents(q) = <<q.head>> \o q.queue
    BY <1>5, <2>1 DEF Contents
  <2>4. Contents(p) = Append(Contents(q), r)
    <3>1. <<q.head>> \in Seq(Req) /\ <<r>> \in Seq(Req)
      BY <1>1, <1>5
    <3>2. Contents(q) \in Seq(Req)
      BY <1>1, <2>3, <3>1, ConcatProperties
    <3>3. Append(q.queue, r) = q.queue \o <<r>> /\ Append(Contents(q), r) = Contents(q) \o <<r>>
      BY <1>1, <3>2, AppendIsConcat
    <3> QED BY <1>1, <2>3, <3>1, <3>3, ConcatAssociative
  <2>5. Len(p.queue) <= Capacity /\ p.head = q.head
    BY <1>3, <2>1
  <2>6. p.head = IF q.head = Null THEN r ELSE q.head
    BY <1>5, <2>5
  <2> QED BY <2>2, <2>4, <2>5, <2>6
<1> QED BY <1>4, <1>5

\* mpr_queue_trypop and mpr_queue_peek take the first element away.
LEMMA PopTakesHead ==
  ASSUME NEW q \in QueueType, Peeked(q), q.head # Null, Len(q.queue) <= Capacity,
         NEW p, p = Peek(TryPop(q))
  PROVE  /\ p \in QueueType
         /\ Peeked(p)
         /\ Len(p.queue) <= Capacity
         /\ Popped(q) = q.head
         /\ Contents(p) = Tail(Contents(q))
<1>1. q.head \in Req \cup {Null} /\ q.queue \in Seq(Req)
  BY DEF QueueType
<1>2. TryPop(q) = [head |-> Null, queue |-> q.queue]
  BY DEF QueueType, TryPop
<1>3. Tail(Contents(q)) = q.queue
  BY ContentsOfPeeked
<1>4. CASE q.queue = <<>>
  <2>1. p = [head |-> Null, queue |-> <<>>]
    BY <1>2, <1>4 DEF Peek
  <2> QED BY <1>3, <1>4, <2>1, CapacityAssumption DEF QueueType, Peeked, Contents, Popped
<1>5. CASE q.queue # <<>>
  <2>1. p = [head |-> Head(q.queue), queue |-> Tail(q.queue)]
    BY <1>2, <1>5 DEF Peek
  <2>2. /\ Head(q.queue) \in Req
        /\ Tail(q.queue) \in Seq(Req)
        /\ Len(Tail(q.queue)) = Len(q.queue) - 1
    BY <1>1, <1>5, HeadTailProperties
  <2>3. p \in QueueType /\ Peeked(p) /\ p.head # Null
    BY <2>1, <2>2, NodeAssumption DEF QueueType, Peeked
  <2>4. Len(p.queue) <= Capacity
    BY <1>1, <2>1, <2>2, CapacityAssumption
  <2>5. Contents(p) = q.queue
    <3>1. Contents(p) = <<Head(q.queue)>> \o Tail(q.queue)
      BY <2>1, <2>3 DEF Contents
    <3>2. <<Head(q.queue)>> \o Tail(q.queue) = q.queue
      BY <1>1, <1>5
    <3> QED BY <3>1, <3>2
  <2> QED BY <1>3, <2>3, <2>4, <2>5 DEF Popped
<1> QED BY <1>4, <1>5

-----------------------------------------------------------------------------
\* a comes before b in s.
Precedes(s, a, b) == \E i, j \in DOMAIN s : i < j /\ s[i] = a /\ s[j] = b

\* Appending: the new element is the last.
LEMMA AppendOrder ==
  ASSUME NEW S, NEW s \in Seq(S), NEW e \in S
  PROVE  /\ Append(s, e) \in Seq(S)
         /\ Range(Append(s, e)) = Range(s) \cup {e}
         /\ e \notin Range(s) /\ Distinct(s) => Distinct(Append(s, e))
         /\ \A a, b : Precedes(s, a, b) => Precedes(Append(s, e), a, b)
         /\ \A a \in Range(s) : Precedes(Append(s, e), a, e)
<1> DEFINE t == Append(s, e)
<1>1. /\ t \in Seq(S) /\ Len(t) = Len(s) + 1 /\ Len(s) \in Nat
      /\ \A i \in 1 .. Len(s) : t[i] = s[i]
      /\ t[Len(s) + 1] = e
      /\ DOMAIN s = 1 .. Len(s) /\ DOMAIN t = 1 .. Len(s) + 1
  BY AppendProperties, LenProperties
<1> HIDE DEF t
<1>2. Range(t) = Range(s) \cup {e}
  <2>1. ASSUME NEW x \in Range(t) PROVE x \in Range(s) \cup {e}
    BY <1>1, <2>1 DEF Range
  <2>2. ASSUME NEW x \in Range(s) PROVE x \in Range(t)
    BY <1>1, <2>2 DEF Range
  <2>3. e \in Range(t)
    BY <1>1 DEF Range
  <2> QED BY <2>1, <2>2, <2>3
<1>3. ASSUME e \notin Range(s), Distinct(s) PROVE Distinct(t)
  <2> SUFFICES ASSUME NEW i \in DOMAIN t, NEW j \in DOMAIN t, t[i] = t[j] PROVE i = j
    BY DEF Distinct
  <2>1. \A k \in 1 .. Len(s) : s[k] # e
    BY <1>1, <1>3 DEF Range
  <2> QED BY <1>1, <1>3, <2>1 DEF Distinct
<1>4. ASSUME NEW a, NEW b, Precedes(s, a, b) PROVE Precedes(t, a, b)
  BY <1>1, <1>4 DEF Precedes
<1>5. ASSUME NEW a \in Range(s) PROVE Precedes(t, a, e)
  BY <1>1, <1>5 DEF Precedes, Range
<1> QED BY <1>1, <1>2, <1>3, <1>4, <1>5 DEF t

\* Removing one element leaves the order of the others.
LEMMA RemoveOrder ==
  ASSUME NEW S, NEW s \in Seq(S), Distinct(s), NEW k \in DOMAIN s,
         NEW t, t = RemoveAt(s, k)
  PROVE  /\ t \in Seq(S)
         /\ Range(t) = Range(s) \ {s[k]}
         /\ Distinct(t)
         /\ \A a, b : Precedes(s, a, b) /\ a # s[k] /\ b # s[k] => Precedes(t, a, b)
<1>1. DOMAIN s = 1 .. Len(s) /\ Len(s) \in Nat /\ k \in 1 .. Len(s)
      /\ \A i \in 1 .. Len(s) : s[i] \in S
  BY LenProperties, ElementOfSeq
<1> DEFINE u == SubSeq(s, 1, k - 1)
           v == SubSeq(s, k + 1, Len(s))
<1>2. /\ u \in Seq(S) /\ Len(u) = k - 1
      /\ \A i \in 1 .. k - 1 : u[i] = s[i]
  <2>1. \A i \in 1 .. k - 1 : s[i] \in S
    BY <1>1
  <2> QED BY <1>1, <2>1, SubSeqProperties
<1>3. /\ v \in Seq(S) /\ Len(v) = Len(s) - k
      /\ \A i \in 1 .. Len(s) - k : v[i] = s[k + i]
  <2>1. \A i \in k + 1 .. Len(s) : s[i] \in S
    BY <1>1
  <2>2. k + 1 \in Int /\ Len(s) \in Int
    BY <1>1
  <2>3. /\ v \in Seq(S)
        /\ Len(v) = IF k + 1 <= Len(s) THEN Len(s) - (k + 1) + 1 ELSE 0
        /\ \A i \in 1 .. Len(s) - (k + 1) + 1 : v[i] = s[k + 1 + i - 1]
    BY <2>1, <2>2, SubSeqProperties
  <2>4. Len(v) = Len(s) - k
    BY <1>1, <2>3
  <2>5. ASSUME NEW i \in 1 .. Len(s) - k PROVE v[i] = s[k + i]
    <3>1. i \in 1 .. Len(s) - (k + 1) + 1 /\ k + 1 + i - 1 = k + i
      BY <1>1
    <3> QED BY <2>3, <3>1
  <2> QED BY <2>3, <2>4, <2>5
<1>4. /\ t \in Seq(S) /\ Len(t) = Len(s) - 1
      /\ \A i \in 1 .. Len(s) - 1 : t[i] = IF i < k THEN s[i] ELSE s[i + 1]
  <2>1. t = u \o v
    BY DEF RemoveAt
  <2>2. /\ t \in Seq(S) /\ Len(t) = k - 1 + (Len(s) - k)
        /\ \A i \in 1 .. k - 1 + (Len(s) - k) : t[i] = IF i <= k - 1 THEN u[i] ELSE v[i - (k - 1)]
    <3> HIDE DEF u, v
    <3>1. u \in Seq(S) /\ v \in Seq(S)
      BY <1>2, <1>3
    <3>2. /\ u \o v \in Seq(S) /\ Len(u \o v) = Len(u) + Len(v)
          /\ \A i \in 1 .. Len(u) + Len(v) : (u \o v)[i] = IF i <= Len(u) THEN u[i] ELSE v[i - Len(u)]
      BY <3>1, ConcatProperties
    <3>3. Len(u) = k - 1 /\ Len(v) = Len(s) - k
      BY <1>2, <1>3
    <3> QED BY <2>1, <3>2, <3>3
  <2>3. ASSUME NEW i \in 1 .. Len(s) - 1 PROVE t[i] = IF i < k THEN s[i] ELSE s[i + 1]
    <3>1. t[i] = IF i <= k - 1 THEN u[i] ELSE v[i - (k - 1)]
      BY <1>1, <2>2
    <3>2. CASE i < k
      <4>1. i \in 1 .. k - 1
        BY <1>1, <3>2
      <4> QED BY <1>1, <1>2, <3>1, <3>2, <4>1
    <3>3. CASE ~ (i < k)
      <4>1. i - (k - 1) \in 1 .. Len(s) - k /\ k + (i - (k - 1)) = i + 1 /\ ~ (i <= k - 1)
        BY <1>1, <3>3
      <4>2. v[i - (k - 1)] = s[k + (i - (k - 1))]
        BY <1>3, <4>1
      <4> QED BY <3>1, <3>3, <4>1, <4>2
    <3> QED BY <3>2, <3>3
  <2> QED BY <1>1, <2>2, <2>3
<1>5. DOMAIN t = 1 .. Len(s) - 1
  BY <1>4, LenProperties
<1>6. \A i \in DOMAIN s : i # k => \E m \in DOMAIN t : t[m] = s[i] /\ m = IF i < k THEN i ELSE i - 1
  BY <1>1, <1>4, <1>5
<1>7. \A m \in DOMAIN t : \E i \in DOMAIN s : i # k /\ t[m] = s[i] /\ i = IF m < k THEN m ELSE m + 1
  BY <1>1, <1>4, <1>5
<1>8. Range(t) = Range(s) \ {s[k]}
  <2>1. ASSUME NEW m \in DOMAIN t PROVE t[m] \in Range(s) \ {s[k]}
    BY <1>7 DEF Range, Distinct
  <2>2. ASSUME NEW i \in DOMAIN s, s[i] # s[k] PROVE s[i] \in Range(t)
    BY <1>6, <2>2 DEF Range
  <2> QED BY <2>1, <2>2 DEF Range
<1>9. Distinct(t)
  BY <1>1, <1>5, <1>7 DEF Distinct
<1>10. ASSUME NEW a, NEW b, Precedes(s, a, b), a # s[k], b # s[k] PROVE Precedes(t, a, b)
  <2>1. PICK i \in DOMAIN s, j \in DOMAIN s : i < j /\ s[i] = a /\ s[j] = b
    BY <1>10 DEF Precedes
  <2>2. PICK m \in DOMAIN t : t[m] = a /\ m = IF i < k THEN i ELSE i - 1
    BY <1>6, <1>10, <2>1
  <2>3. PICK n \in DOMAIN t : t[n] = b /\ n = IF j < k THEN j ELSE j - 1
    BY <1>6, <1>10, <2>1
  <2>4. m < n
    BY <1>1, <1>5, <1>10, <2>1, <2>2, <2>3
  <2> QED BY <2>2, <2>3, <2>4 DEF Precedes
<1> QED BY <1>4, <1>8, <1>9, <1>10

\* A sequence without its head.
LEMMA TailOrder ==
  ASSUME NEW S, NEW s \in Seq(S), s # <<>>, Distinct(s)
  PROVE  /\ Tail(s) \in Seq(S)
         /\ Head(s) \in S
         /\ Head(s) \in Range(s)
         /\ Range(Tail(s)) = Range(s) \ {Head(s)}
         /\ Distinct(Tail(s))
         /\ Len(Tail(s)) = Len(s) - 1
         /\ \A i \in DOMAIN Tail(s) : i + 1 \in DOMAIN s /\ Tail(s)[i] = s[i + 1]
<1>1. /\ Tail(s) \in Seq(S) /\ Head(s) \in S /\ Head(s) = s[1]
      /\ Len(Tail(s)) = Len(s) - 1
      /\ \A i \in 1 .. Len(Tail(s)) : Tail(s)[i] = s[i + 1]
  BY HeadTailProperties
<1>2. DOMAIN s = 1 .. Len(s) /\ Len(s) \in Nat \ {0} /\ DOMAIN Tail(s) = 1 .. Len(s) - 1
  BY <1>1, LenProperties, EmptySeq
<1>3. \A i \in DOMAIN Tail(s) : i + 1 \in DOMAIN s /\ Tail(s)[i] = s[i + 1]
  BY <1>1, <1>2
<1>4. Range(Tail(s)) = Range(s) \ {Head(s)}
  <2>1. ASSUME NEW i \in DOMAIN Tail(s) PROVE Tail(s)[i] \in Range(s) \ {Head(s)}
    <3>1. i + 1 \in DOMAIN s /\ 1 \in DOMAIN s /\ i + 1 # 1
      BY <1>2
    <3> QED BY <1>1, <1>3, <3>1 DEF Range, Distinct
  <2>2. ASSUME NEW i \in DOMAIN s, s[i] # Head(s) PROVE s[i] \in Range(Tail(s))
    <3>1. i - 1 \in DOMAIN Tail(s) /\ i - 1 + 1 = i
      BY <1>1, <1>2, <2>2
    <3> QED BY <1>3, <3>1 DEF Range
  <2> QED BY <2>1, <2>2 DEF Range
<1>5. Distinct(Tail(s))
  BY <1>2, <1>3 DEF Distinct
<1>6. Head(s) \in Range(s)
  BY <1>1, <1>2 DEF Range
<1> QED BY <1>1, <1>3, <1>4, <1>5, <1>6

\* Two sequences with no element in common.
LEMMA ConcatDistinct ==
  ASSUME NEW S, NEW s \in Seq(S), NEW t \in Seq(S), Distinct(s), Distinct(t),
         Range(s) \cap Range(t) = {}
  PROVE  /\ s \o t \in Seq(S)
         /\ Range(s \o t) = Range(s) \cup Range(t)
         /\ Distinct(s \o t)
<1>1. /\ s \o t \in Seq(S)
      /\ Len(s \o t) = Len(s) + Len(t)
      /\ \A i \in 1 .. Len(s) + Len(t) :
           (s \o t)[i] = IF i <= Len(s) THEN s[i] ELSE t[i - Len(s)]
  BY ConcatProperties
<1>2. /\ DOMAIN s = 1 .. Len(s) /\ DOMAIN t = 1 .. Len(t) /\ Len(s) \in Nat /\ Len(t) \in Nat
      /\ DOMAIN (s \o t) = 1 .. Len(s) + Len(t)
  BY <1>1, LenProperties
<1>3. ASSUME NEW i \in DOMAIN s, NEW j \in DOMAIN t PROVE s[i] # t[j]
  BY DEF Range
<1>4. ASSUME NEW i \in 1 .. Len(s) + Len(t), NEW j \in 1 .. Len(s) + Len(t),
             (s \o t)[i] = (s \o t)[j]
      PROVE  i = j
  <2>1. CASE i <= Len(s) /\ j <= Len(s)
    BY <1>1, <1>2, <1>4, <2>1 DEF Distinct
  <2>2. CASE i > Len(s) /\ j > Len(s)
    <3>1. i - Len(s) \in DOMAIN t /\ j - Len(s) \in DOMAIN t /\ ~ (i <= Len(s)) /\ ~ (j <= Len(s))
      BY <1>2, <2>2
    <3>2. t[i - Len(s)] = t[j - Len(s)]
      BY <1>1, <1>4, <3>1
    <3>3. i - Len(s) = j - Len(s)
      BY <3>1, <3>2 DEF Distinct
    <3> QED BY <1>2, <3>3
  <2>3. CASE i <= Len(s) /\ j > Len(s)
    <3>1. i \in DOMAIN s /\ j - Len(s) \in DOMAIN t /\ ~ (j <= Len(s))
      BY <1>2, <2>3
    <3> QED BY <1>1, <1>3, <1>4, <2>3, <3>1
  <2>4. CASE i > Len(s) /\ j <= Len(s)
    <3>1. j \in DOMAIN s /\ i - Len(s) \in DOMAIN t /\ ~ (i <= Len(s))
      BY <1>2, <2>4
    <3> QED BY <1>1, <1>3, <1>4, <2>4, <3>1
  <2> QED BY <1>2, <2>1, <2>2, <2>3, <2>4
<1>5. Distinct(s \o t)
  BY <1>2, <1>4 DEF Distinct
<1> QED BY <1>1, <1>5, RangeConcatenation

\* An enumeration of a finite set holds each of its elements once.
LEMMA EnumerationOfSet ==
  ASSUME NEW W, IsFiniteSet(W), NEW order \in SetToSeqs(W)
  PROVE  order \in Seq(W) /\ Range(order) = W /\ Distinct(order)
<1> DEFINE n == Cardinality(W)
<1>1. n \in Nat
  BY FS_CardinalityType
<1>2. order \in [1 .. n -> W] /\ \A i, j \in 1 .. n : i # j => order[i] # order[j]
  BY DEF SetToSeqs
<1>3. order \in Seq(W) /\ Distinct(order)
  BY <1>1, <1>2 DEF Distinct
<1>4. order \in Injection(1 .. n, W)
  BY <1>2 DEF Injection, IsInjective
<1>5. IsFiniteSet(1 .. n) /\ Cardinality(1 .. n) = n
  BY <1>1, FS_Interval
<1>6. order \in Surjection(1 .. n, W)
  BY <1>4, <1>5, FS_Injection
<1>7. Range(order) = W
  BY <1>2, <1>6 DEF Range, Surjection
<1> QED BY <1>3, <1>7

-----------------------------------------------------------------------------
\* Initially the queues, the DAG and the threads are empty.
LEMMA DagInit == Init => DagInv
<1> SUFFICES ASSUME Init PROVE DagInv
  OBVIOUS
<1>1. TypeOK
  <2>1. ht \in [Queue -> [head : Req \cup {Null}, queue : Seq(Req)]]
    BY DEF Init, NewQueue
  <2>2. ASSUME NEW q \in Queue PROVE Len(ht[q].queue) <= Capacity
    BY CapacityAssumption DEF Init, NewQueue
  <2>3. white \in Seq(Req) /\ pending \in Seq(Req)
    BY DEF Init
  <2> QED BY <2>1, <2>2, <2>3 DEF Init, TypeOK, Job, At, Stage
<1>2. Range(pending) = {} /\ Distinct(pending) /\ Range(white) = {} /\ Distinct(white)
  BY DEF Init, Range, Distinct
<1>3. ASSUME NEW q \in Queue PROVE HoldsGroup(q)
  <2>1. ht[q] = [head |-> Null, queue |-> <<>>]
    BY DEF Init, NewQueue
  <2>2. Peeked(ht[q]) /\ Contents(ht[q]) = <<>>
    BY <2>1 DEF Peeked, Contents
  <2>3. Range(Contents(ht[q])) = {} /\ DOMAIN Contents(ht[q]) = {}
    BY <2>2 DEF Range
  <2> QED BY <1>2, <2>2, <2>3 DEF HoldsGroup
<1>4. ASSUME NEW r \in Req PROVE Follows(r)
  <2>1. qids[r] = {} /\ job[r] = "new" /\ ~ InHand(r)
    BY <1>2, NodeAssumption DEF Init, InHand
  <2> QED BY <1>2, <2>1 DEF Follows
<1>5. DaemonInv
  BY <1>2 DEF Init, DaemonInv
<1> QED BY <1>1, <1>2, <1>3, <1>4, <1>5 DEF DagInv

\* What the invariant says of one queue.
LEMMA QueueOfGroup ==
  ASSUME DagInv, ~ crashed, NEW q \in Queue, NEW c, c = Contents(ht[q])
  PROVE  /\ ht[q] \in QueueType /\ Peeked(ht[q]) /\ Len(ht[q].queue) <= Capacity
         /\ c \in Seq(Req) /\ Distinct(c)
         /\ \A r \in Range(c) : r \in Range(pending) /\ q \in qids[r]
         /\ \A r \in Range(pending) : q \in qids[r] => r \in Range(c) /\ ht[q].head # Null
         /\ ht[q].head # Null => /\ ht[q].head \in Range(c)
                                 /\ \A r \in Range(c) : r # ht[q].head => Before(ht[q].head, r)
<1>1. ht[q] \in QueueType /\ Len(ht[q].queue) <= Capacity
  BY DEF DagInv, TypeOK, QueueType
<1>2. HoldsGroup(q) /\ Distinct(pending)
  BY DEF DagInv
<1>3. Peeked(ht[q])
  BY <1>2 DEF HoldsGroup
<1>4. /\ c \in Seq(Req)
      /\ ht[q].head = Null <=> c = <<>>
      /\ ht[q].head # Null => c # <<>> /\ c[1] = ht[q].head
  BY <1>1, <1>3, ContentsOfPeeked
<1>5. DOMAIN c = 1 .. Len(c) /\ Len(c) \in Nat /\ (c # <<>> => 1 \in DOMAIN c)
  BY <1>4, LenProperties, EmptySeq
<1>6. pending \in Seq(Req) /\ DOMAIN pending = 1 .. Len(pending) /\ Len(pending) \in Nat
  <2>1. pending \in Seq(Req)
    BY DEF DagInv, TypeOK
  <2> QED BY <2>1, LenProperties
<1>7. \A i, j \in DOMAIN c : i < j => Before(c[i], c[j])
  BY <1>2 DEF HoldsGroup
<1>8. Distinct(c)
  <2> SUFFICES ASSUME NEW i \in DOMAIN c, NEW j \in DOMAIN c, i < j PROVE c[i] # c[j]
    BY <1>5 DEF Distinct
  <2>1. Before(c[i], c[j])
    BY <1>7
  <2> QED BY <1>2, <1>6, <2>1 DEF Before, Distinct
<1>9. Range(c) = {r \in Range(pending) : q \in qids[r]}
  BY <1>2 DEF HoldsGroup
<1>10. ASSUME NEW r \in Range(pending), q \in qids[r] PROVE r \in Range(c) /\ ht[q].head # Null
  <2>1. r \in Range(c)
    BY <1>9, <1>10
  <2>2. c # <<>>
    BY <2>1 DEF Range
  <2> QED BY <1>4, <2>1, <2>2
<1>11. ASSUME ht[q].head # Null
       PROVE /\ ht[q].head \in Range(c)
             /\ \A r \in Range(c) : r # ht[q].head => Before(ht[q].head, r)
  <2>1. 1 \in DOMAIN c /\ c[1] = ht[q].head
    BY <1>4, <1>5, <1>11
  <2>2. ASSUME NEW r \in Range(c), r # ht[q].head PROVE Before(ht[q].head, r)
    <3>1. PICK j \in DOMAIN c : c[j] = r
      BY DEF Range
    <3>2. 1 < j
      BY <1>5, <2>1, <2>2, <3>1
    <3> QED BY <1>7, <2>1, <3>1, <3>2
  <2> QED BY <2>1, <2>2 DEF Range
<1> QED BY <1>1, <1>3, <1>4, <1>8, <1>9, <1>10, <1>11

\* A node that is pending is in a queue, so the sets of groups are not empty.
LEMMA Enlisted ==
  ASSUME DagInv, ~ crashed, NEW r \in Req, job[r] \notin {"new", "popped"}
  PROVE  /\ r \in Range(pending)
         /\ qids[r] # {} /\ qids[r] \subseteq Queue
         /\ \A q \in qids[r] : ht[q].head # Null
<1>1. Follows(r) /\ qids[r] \subseteq Queue
  BY DEF DagInv, TypeOK
<1>2. r \in Range(pending) /\ qids[r] # {}
  BY <1>1 DEF Follows
<1> QED BY <1>1, <1>2, QueueOfGroup

-----------------------------------------------------------------------------
\* A step that changes neither the queues nor the pending requests.
LEMMA QueuesUnchanged ==
  ASSUME DagInv, ~ crashed, UNCHANGED <<ht, qids, pending>>
  PROVE  /\ Distinct(pending)'
         /\ \A q \in Queue : HoldsGroup(q)'
         /\ \A r \in Req : AtHead(r, ht)' <=> AtHead(r, ht)
BY DEF DagInv, HoldsGroup, Before, AtHead

\* The steps of the daemon between check and pop, and those of mpaxos_destroy.
LEMMA LoopInv ==
  ASSUME DagInv, ~ crashed, UNCHANGED <<dagVars, job, crashed, pending>>,
         TypeOK', daemon'.node = daemon.node,
         daemon'.at \in {"gray", "give"} <=> daemon.at \in {"gray", "give"}
  PROVE  DagInv'
<1>1. /\ Distinct(pending)'
      /\ \A q \in Queue : HoldsGroup(q)'
      /\ \A r \in Req : AtHead(r, ht)' <=> AtHead(r, ht)
  BY QueuesUnchanged DEF dagVars
<1>2. ASSUME NEW r \in Req PROVE Follows(r)'
  <2>1. Follows(r) /\ (InHand(r)' <=> InHand(r))
    BY DEF DagInv, InHand, dagVars
  <2> QED BY <1>1, <2>1 DEF Follows, dagVars
<1>3. DaemonInv'
  <2>1. daemon'.at \in At
    BY DEF TypeOK
  <2> QED BY <2>1 DEF DagInv, DaemonInv, dagVars
<1> QED BY <1>1, <1>2, <1>3 DEF DagInv

\* The fields of the record the daemon keeps.
LEMMA DaemonRecord ==
  ASSUME TypeOK
  PROVE  /\ daemon = [at |-> daemon.at, node |-> daemon.node]
         /\ daemon.at \in At /\ daemon.node \in Req \cup {Null}
         /\ \A a : [daemon EXCEPT !.at = a] = [at |-> a, node |-> daemon.node]
BY DEF TypeOK

\* The daemon looks at the exit flag.
LEMMA DaemonCheckInv == ASSUME DagInv, DaemonCheck PROVE DagInv'
<1>1. daemon' = [at |-> daemon'.at, node |-> daemon.node] /\ daemon'.at \in {"exit", "pop"}
  BY DaemonRecord DEF DagInv, DaemonCheck
<1>2. daemon'.node = daemon.node
  BY <1>1
<1>3. TypeOK'
  BY <1>1, DaemonRecord DEF DagInv, TypeOK, DaemonCheck, dagVars, At
<1> QED BY <1>1, <1>2, <1>3, LoopInv DEF DaemonCheck

\* The daemon finds no node: it waits, or woken it looks at the flag again.
LEMMA DaemonNoNodeInv == ASSUME DagInv, DaemonNoNode PROVE DagInv'
<1>1. daemon' = [at |-> daemon'.at, node |-> daemon.node] /\ daemon'.at \in {"waiting", "check"}
  BY DaemonRecord DEF DagInv, DaemonNoNode
<1>2. daemon'.node = daemon.node
  BY <1>1
<1>3. TypeOK'
  BY <1>1, DaemonRecord DEF DagInv, TypeOK, DaemonNoNode, dagVars, At
<1> QED BY <1>1, <1>2, <1>3, LoopInv DEF DaemonNoNode

\* mpaxos_async_destroy interrupts the wait of the daemon.
LEMMA InterruptInv == ASSUME DagInv, Interrupt PROVE DagInv'
<1>1. daemon' = [at |-> daemon'.at, node |-> daemon.node]
      /\ daemon'.at = IF daemon.at = "waiting" THEN "woken" ELSE daemon.at
  BY DaemonRecord DEF DagInv, Interrupt
<1>2. daemon'.node = daemon.node
  BY <1>1
<1>3. TypeOK'
  BY <1>1, DaemonRecord DEF DagInv, TypeOK, Interrupt, dagVars, At, Stage
<1> QED BY <1>1, <1>2, <1>3, LoopInv DEF Interrupt

\* The steps of mpaxos_destroy.
LEMMA DestroyInv == ASSUME DagInv, DestroyComm \/ SetExit \/ Join PROVE DagInv'
<1>1. TypeOK' /\ UNCHANGED <<dagVars, job, daemon, crashed, pending>> /\ ~ crashed
  BY DEF DagInv, TypeOK, DestroyComm, SetExit, Join, dagVars, Stage
<1> QED BY <1>1, LoopInv

\* The node leaves the white queue for the daemon's hand.
LEMMA DaemonPopInv == ASSUME DagInv, DaemonPop PROVE DagInv'
<1>1. ~ crashed /\ daemon.node = Null /\ Distinct(white) /\ white \in Seq(Req) /\ white # <<>>
  BY DEF DagInv, DaemonInv, DaemonPop, TypeOK
<1>2. /\ daemon' = [at |-> "gray", node |-> Head(white)] /\ white' = Tail(white)
      /\ UNCHANGED <<ht, qids, color, job, stage, crashed, pending>>
  BY DEF DaemonPop
<1>3. /\ white' \in Seq(Req) /\ daemon'.node \in Req /\ daemon'.node \in Range(white)
      /\ Range(white') = Range(white) \ {daemon'.node}
      /\ Distinct(white')
      /\ daemon'.at = "gray"
  BY <1>1, <1>2, TailOrder
<1>4. TypeOK'
  BY <1>2, <1>3 DEF DagInv, TypeOK, At
<1>5. ASSUME NEW r \in Req PROVE Follows(r)'
  <2>1. InHand(r)' <=> InHand(r)
    BY <1>1, <1>3, NodeAssumption DEF InHand
  <2>2. Follows(r) /\ (AtHead(r, ht)' <=> AtHead(r, ht))
    BY <1>1, <1>2, QueuesUnchanged DEF DagInv
  <2> QED BY <1>2, <2>1, <2>2 DEF Follows
<1>6. DaemonInv'
  <2>1. daemon'.node # Null
    BY <1>3, NodeAssumption
  <2> QED BY <1>3, <2>1 DEF DaemonInv, Distinct
<1>7. Distinct(pending)' /\ \A q \in Queue : HoldsGroup(q)'
  BY <1>1, <1>2, QueuesUnchanged
<1> QED BY <1>4, <1>5, <1>6, <1>7 DEF DagInv

\* The node that turns gray is in hand.
LEMMA DaemonGrayInv == ASSUME DagInv, DaemonGray PROVE DagInv'
<1>1. ~ crashed /\ daemon.at = "gray" /\ daemon.node \in Req
  BY DEF DagInv, DaemonInv, DaemonGray, TypeOK
<1>2. /\ daemon' = [at |-> "give", node |-> daemon.node]
      /\ color' = [color EXCEPT ![daemon.node] = "GRAY"]
      /\ UNCHANGED <<ht, qids, white, job, stage, crashed, pending>>
  BY DaemonRecord DEF DagInv, DaemonGray
<1>3. TypeOK'
  BY <1>1, <1>2 DEF DagInv, TypeOK, At
<1>4. ASSUME NEW r \in Req PROVE Follows(r)'
  <2>1. InHand(r)' <=> InHand(r)
    BY <1>2 DEF InHand
  <2>2. color'[r] = "WHITE" => color[r] = "WHITE"
    BY <1>1, <1>2 DEF DagInv, TypeOK
  <2>3. Follows(r) /\ (AtHead(r, ht)' <=> AtHead(r, ht))
    BY <1>1, <1>2, QueuesUnchanged DEF DagInv
  <2> QED BY <1>2, <2>1, <2>2, <2>3 DEF Follows
<1>5. DaemonInv'
  BY <1>1, <1>2 DEF DagInv, DaemonInv
<1>6. Distinct(pending)' /\ \A q \in Queue : HoldsGroup(q)'
  BY <1>1, <1>2, QueuesUnchanged
<1> QED BY <1>3, <1>4, <1>5, <1>6 DEF DagInv

\* The node that is given to the pool was in hand, so it is first everywhere.
LEMMA DaemonGiveInv == ASSUME DagInv, DaemonGive PROVE DagInv'
<1>1. ~ crashed /\ daemon.node \in Req /\ InHand(daemon.node) /\ daemon.node \notin Range(white)
  BY DEF DagInv, DaemonInv, DaemonGive, TypeOK, InHand
<1>2. /\ daemon' = [at |-> "check", node |-> Null]
      /\ job' = [job EXCEPT ![daemon.node] = "pooled"]
      /\ UNCHANGED <<ht, qids, white, color, stage, crashed, pending>>
  BY DEF DaemonGive, dagVars
<1>3. TypeOK'
  BY <1>1, <1>2 DEF DagInv, TypeOK, At, Job
<1>4. ASSUME NEW r \in Req PROVE Follows(r)'
  <2>1. Follows(r) /\ (AtHead(r, ht)' <=> AtHead(r, ht))
    BY <1>1, <1>2, QueuesUnchanged DEF DagInv
  <2>2. InHand(r)' <=> InHand(r) /\ r # daemon.node
    BY <1>1, <1>2, NodeAssumption DEF InHand
  <2>3. job'[r] = IF r = daemon.node THEN "pooled" ELSE job[r]
    BY <1>1, <1>2 DEF DagInv, TypeOK
  <2>4. CASE r = daemon.node
    <3>1. job[r] = "enlisted" /\ AtHead(r, ht)
      BY <1>1, <2>1, <2>4 DEF Follows
    <3> QED BY <1>2, <2>1, <2>2, <2>3, <2>4, <3>1 DEF Follows
  <2>5. CASE r # daemon.node
    BY <1>2, <2>1, <2>2, <2>3, <2>5 DEF Follows
  <2> QED BY <2>4, <2>5
<1>5. DaemonInv'
  <2>1. Range(white) \subseteq Req /\ Distinct(white)
    BY <1>1, RangeOfSeq DEF DagInv, TypeOK, DaemonInv
  <2> QED BY <1>2, <2>1, NodeAssumption DEF DaemonInv
<1>6. Distinct(pending)' /\ \A q \in Queue : HoldsGroup(q)'
  BY <1>1, <1>2, QueuesUnchanged
<1> QED BY <1>3, <1>4, <1>5, <1>6 DEF DagInv

\* What is pooled, started or called back goes on being first everywhere.
LEMMA JobMovesInv ==
  ASSUME DagInv, ~ crashed, NEW r \in Req, NEW j \in {"started", "calledback"},
         job[r] \in {"pooled", "started"}, job' = [job EXCEPT ![r] = j],
         UNCHANGED <<dagVars, daemon, stage, crashed, pending>>
  PROVE  DagInv'
<1>1. TypeOK'
  BY DEF DagInv, TypeOK, dagVars, Job
<1>2. ASSUME NEW s \in Req PROVE Follows(s)'
  <2>1. Follows(s) /\ (AtHead(s, ht)' <=> AtHead(s, ht)) /\ (InHand(s)' <=> InHand(s))
    BY QueuesUnchanged DEF DagInv, InHand, dagVars
  <2>2. job'[s] = IF s = r THEN j ELSE job[s]
    BY DEF DagInv, TypeOK
  <2> QED BY <2>1, <2>2 DEF Follows, dagVars
<1>3. DaemonInv'
  BY DEF DagInv, DaemonInv, dagVars
<1>4. Distinct(pending)' /\ \A q \in Queue : HoldsGroup(q)'
  BY QueuesUnchanged DEF dagVars
<1> QED BY <1>1, <1>2, <1>3, <1>4 DEF DagInv

\* A pool thread starts a request.
LEMMA StartJobInv == ASSUME DagInv, NEW r \in Req, StartJob(r) PROVE DagInv'
BY JobMovesInv DEF StartJob

\* A request is called back.
LEMMA CallBackInv == ASSUME DagInv, NEW r \in Req, CallBack(r) PROVE DagInv'
BY JobMovesInv DEF CallBack

-----------------------------------------------------------------------------
\* mpr_dag_push puts r behind the requests of its groups: who was first in a
\* queue still is, and r is first in those that were empty.
LEMMA CommitInv == ASSUME DagInv, NEW r \in Req, Commit(r) PROVE DagInv'
<1> DEFINE Pushed(S) == [q \in Queue |-> IF q \in S THEN Peek(Push(ht[q], r)) ELSE ht[q]]
           First(S) == \A q \in S : Pushed(S)[q].head = r
<1>1. PICK S \in (SUBSET Queue) \ {{}} :
        /\ \A q \in S : HasRoom(ht[q])
        /\ ht' = Pushed(S)
        /\ qids' = [qids EXCEPT ![r] = S]
        /\ color' = [color EXCEPT ![r] = IF First(S) THEN "WHITE" ELSE "BLACK"]
        /\ white' = IF First(S) THEN Append(white, r) ELSE white
  BY DEF Commit, DagPush
<1>2. /\ ~ crashed /\ job[r] = "new"
      /\ job' = [job EXCEPT ![r] = "enlisted"]
      /\ pending' = Append(pending, r)
      /\ UNCHANGED <<daemon, stage, crashed>>
  BY DEF Commit
<1> HIDE DEF Pushed, First
<1>3. /\ TypeOK /\ Distinct(pending) /\ DaemonInv
      /\ \A q \in Queue : HoldsGroup(q)
      /\ \A s \in Req : Follows(s)
  BY <1>2 DEF DagInv
<1>4. r \notin Range(pending) /\ ~ InHand(r)
  BY <1>2, <1>3 DEF Follows
<1>5. /\ pending' \in Seq(Req) /\ Distinct(pending')
      /\ Range(pending') = Range(pending) \cup {r}
      /\ \A s, t : Before(s, t) => Precedes(pending', s, t)
      /\ \A s \in Range(pending) : Precedes(pending', s, r)
  <2>1. pending \in Seq(Req)
    BY <1>3 DEF TypeOK
  <2>2. /\ pending' \in Seq(Req) /\ Distinct(pending')
        /\ Range(pending') = Range(pending) \cup {r}
        /\ \A s, t : Precedes(pending, s, t) => Precedes(pending', s, t)
        /\ \A s \in Range(pending) : Precedes(pending', s, r)
    BY <1>2, <1>3, <1>4, <2>1, AppendOrder
  <2> QED BY <2>2 DEF Precedes, Before
<1>6. \A s \in Req : /\ job'[s] = IF s = r THEN "enlisted" ELSE job[s]
                     /\ qids'[s] = IF s = r THEN S ELSE qids[s]
                     /\ color'[s] = IF s # r THEN color[s] ELSE IF First(S) THEN "WHITE" ELSE "BLACK"
  BY <1>1, <1>2, <1>3 DEF TypeOK
<1>7. ASSUME NEW q \in Queue, q \notin S PROVE ht'[q] = ht[q]
  BY <1>1, <1>7 DEF Pushed
<1>8. ASSUME NEW q \in S
      PROVE  /\ q \in Queue /\ ht'[q] \in QueueType /\ Peeked(ht'[q]) /\ Len(ht'[q].queue) <= Capacity
             /\ Contents(ht'[q]) = Append(Contents(ht[q]), r)
             /\ ht'[q].head = IF ht[q].head = Null THEN r ELSE ht[q].head
  <2>1. q \in Queue /\ HasRoom(ht[q]) /\ ht'[q] = Peek(Push(ht[q], r))
    BY <1>1, <1>8 DEF Pushed
  <2>2. ht[q] \in QueueType /\ Peeked(ht[q])
    BY <1>2, <2>1, QueueOfGroup
  <2> QED BY <2>1, <2>2, PushAppends
<1>9. ASSUME NEW q \in Queue PROVE HoldsGroup(q)'
  <2> DEFINE c == Contents(ht[q])
             d == Contents(ht'[q])
  <2>1. /\ Peeked(ht[q]) /\ c \in Seq(Req) /\ Distinct(c)
        /\ Range(c) = {s \in Range(pending) : q \in qids[s]}
        /\ \A i, j \in DOMAIN c : i < j => Before(c[i], c[j])
    BY <1>2, <1>3, QueueOfGroup DEF HoldsGroup
  <2>2. Range(pending) \subseteq Req
    BY <1>3, RangeOfSeq DEF TypeOK
  <2>3. CASE q \notin S
    <3>1. ht'[q] = ht[q]
      BY <1>7, <2>3
    <3>2. {s \in Range(pending) : q \in qids[s]} = {s \in Range(pending') : q \in qids'[s]}
      BY <1>4, <1>5, <1>6, <2>2, <2>3
    <3>3. ASSUME NEW i \in DOMAIN c, NEW j \in DOMAIN c, i < j PROVE Precedes(pending', c[i], c[j])
      BY <1>5, <2>1, <3>3
    <3> QED BY <2>1, <3>1, <3>2, <3>3 DEF HoldsGroup, Precedes, Before
  <2>4. CASE q \in S
    <3>1. Peeked(ht'[q]) /\ d = Append(c, r)
      BY <1>8, <2>4
    <3>2. /\ Range(d) = Range(c) \cup {r}
          /\ DOMAIN d = 1 .. Len(c) + 1 /\ DOMAIN c = 1 .. Len(c) /\ Len(c) \in Nat
          /\ \A i \in 1 .. Len(c) : d[i] = c[i]
          /\ d[Len(c) + 1] = r
      <4> HIDE DEF c, d
      <4>1. d \in Seq(Req) /\ Range(d) = Range(c) \cup {r}
        BY <2>1, <3>1, AppendOrder
      <4>2. Len(d) = Len(c) + 1 /\ d[Len(c) + 1] = r /\ \A i \in 1 .. Len(c) : d[i] = c[i]
        BY <2>1, <3>1, AppendProperties
      <4> QED BY <2>1, <4>1, <4>2, LenProperties
    <3>3. Range(d) = {s \in Range(pending') : q \in qids'[s]}
      BY <1>4, <1>5, <1>6, <2>1, <2>2, <2>4, <3>2
    <3>4. ASSUME NEW i \in DOMAIN d, NEW j \in DOMAIN d, i < j
          PROVE Precedes(pending', d[i], d[j])
      <4>1. i \in DOMAIN c /\ d[i] = c[i] /\ c[i] \in Range(pending)
        BY <2>1, <3>2, <3>4 DEF Range
      <4>2. CASE j = Len(c) + 1
        BY <1>5, <3>2, <4>1, <4>2
      <4>3. CASE j # Len(c) + 1
        <5>1. j \in DOMAIN c /\ d[j] = c[j]
          BY <3>2, <4>3
        <5>2. Before(c[i], c[j])
          BY <2>1, <3>4, <4>1, <5>1
        <5> QED BY <1>5, <4>1, <5>1, <5>2
      <4> QED BY <4>2, <4>3
    <3> QED BY <3>1, <3>3, <3>4 DEF HoldsGroup, Precedes, Before
  <2> QED BY <2>3, <2>4
<1>10. AtHead(r, ht)' <=> First(S)
  BY <1>1, <1>6 DEF AtHead, First
<1>11. ASSUME NEW s \in Req, job[s] \notin {"new", "popped"} PROVE AtHead(s, ht)' <=> AtHead(s, ht)
  <2>1. /\ qids[s] \subseteq Queue /\ \A q \in qids[s] : ht[q].head # Null
        /\ s # r /\ qids'[s] = qids[s]
    BY <1>2, <1>6, <1>11, Enlisted
  <2>2. \A q \in qids[s] : ht'[q].head = ht[q].head
    BY <1>7, <1>8, <2>1
  <2> QED BY <2>1, <2>2 DEF AtHead
<1>12. /\ white' \in Seq(Req) /\ Distinct(white')
       /\ Range(white') = IF First(S) THEN Range(white) \cup {r} ELSE Range(white)
  <2>1. white \in Seq(Req) /\ Distinct(white) /\ r \notin Range(white)
    BY <1>3, <1>4 DEF TypeOK, DaemonInv, InHand
  <2> QED BY <1>1, <2>1, AppendOrder, ZenonT(60)
<1>13. ASSUME NEW s \in Req PROVE Follows(s)'
  <2>1. Follows(s)
    BY <1>3
  <2>2. CASE s = r
    <3>1. InHand(r)' <=> First(S)
      BY <1>2, <1>4, <1>12 DEF InHand
    <3>2. job'[r] = "enlisted" /\ qids'[r] # {} /\ r \in Range(pending')
      <4>1. S # {}
        BY <1>1
      <4> QED BY <1>5, <1>6, <4>1
    <3>3. ~ First(S) => color'[r] # "WHITE"
      BY <1>6
    <3> QED BY <1>10, <2>2, <3>1, <3>2, <3>3 DEF Follows
  <2>3. CASE s # r
    <3>1. InHand(s)' <=> InHand(s)
      BY <1>2, <1>12, <2>3 DEF InHand
    <3>2. job'[s] = job[s] /\ qids'[s] = qids[s] /\ color'[s] = color[s]
      BY <1>6, <2>3
    <3>3. s \in Range(pending') <=> s \in Range(pending)
      BY <1>5, <2>3
    <3> QED BY <1>11, <2>1, <3>1, <3>2, <3>3 DEF Follows
  <2> QED BY <2>2, <2>3
<1>14. DaemonInv'
  <2>1. daemon.node # r
    BY <1>4 DEF InHand
  <2> QED BY <1>2, <1>3, <1>12, <2>1 DEF DaemonInv
<1>15. TypeOK'
  <2>1. ASSUME NEW q \in Queue PROVE ht'[q] \in QueueType /\ Len(ht'[q].queue) <= Capacity
    BY <1>2, <1>7, <1>8, QueueOfGroup
  <2>2. ht' \in [Queue -> QueueType]
    BY <1>1, <2>1 DEF Pushed
  <2>3. /\ qids' \in [Req -> SUBSET Queue]
        /\ color' \in [Req -> {"BLACK", "WHITE", "GRAY"}]
        /\ job' \in [Req -> Job]
    BY <1>1, <1>2, <1>3 DEF TypeOK, Job
  <2> QED BY <1>2, <1>3, <1>5, <1>12, <2>1, <2>2, <2>3 DEF TypeOK, QueueType
<1> QED BY <1>5, <1>9, <1>13, <1>14, <1>15 DEF DagInv

-----------------------------------------------------------------------------
\* The nodes that come first in all their queues as r is popped.
Whitened(r, popped) ==
  {s \in Req : /\ \E q \in qids[r] : popped[q].head = s
               /\ color[s] # "WHITE" /\ AtHead(s, popped)}

\* No assertion of mpr_dag_pop or async_ready_callback fails.
LEMMA PopFindsRequest ==
  ASSUME DagInv, NEW r \in Req, Pop(r)
  PROVE  /\ ~ crashed
         /\ r \in Range(pending) /\ AtHead(r, ht) /\ qids[r] \subseteq Queue
         /\ \A q \in qids[r] : /\ ht'[q] \in QueueType /\ Peeked(ht'[q])
                               /\ Len(ht'[q].queue) <= Capacity
                               /\ ht[q].head = r
                               /\ Contents(ht'[q]) = Tail(Contents(ht[q]))
         /\ \A q \in Queue \ qids[r] : ht'[q] = ht[q]
         /\ ht' \in [Queue -> QueueType]
         /\ \E i \in DOMAIN pending : pending[i] = r /\ pending' = RemoveAt(pending, i)
         /\ job' = [job EXCEPT ![r] = "popped"]
         /\ color' = [s \in Req |-> IF s \in Whitened(r, ht') THEN "WHITE" ELSE color[s]]
         /\ \E order \in SetToSeqs(Whitened(r, ht')) : white' = white \o order
         /\ UNCHANGED <<qids, daemon, stage, crashed>>
<1>1. ~ crashed /\ job[r] = "calledback" /\ UNCHANGED <<daemon, stage>>
  BY DEF Pop
<1>2. AtHead(r, ht) /\ r \in Range(pending)
  <2>1. Follows(r)
    BY <1>1 DEF DagInv
  <2> QED BY <1>1, <2>1 DEF Follows
<1>3. qids[r] \subseteq Queue
  BY DEF DagInv, TypeOK
<1>4. ASSUME NEW q \in qids[r]
      PROVE  LET p == Peek(TryPop(ht[q]))
             IN  /\ p \in QueueType /\ Peeked(p) /\ Len(p.queue) <= Capacity
                 /\ ht[q].head = r /\ Popped(ht[q]) = r
                 /\ Contents(p) = Tail(Contents(ht[q]))
  <2>1. q \in Queue /\ ht[q].head = r /\ r # Null
    BY <1>2, <1>3, NodeAssumption DEF AtHead
  <2>2. ht[q] \in QueueType /\ Peeked(ht[q]) /\ Len(ht[q].queue) <= Capacity
    BY <1>1, <2>1, QueueOfGroup
  <2> QED BY <2>1, <2>2, PopTakesHead
<1>5. /\ DagPop(r)
      /\ job' = [job EXCEPT ![r] = "popped"]
      /\ \E i \in DOMAIN pending : pending[i] = r /\ pending' = RemoveAt(pending, i)
      /\ UNCHANGED crashed
  BY <1>4 DEF Pop
<1>6. /\ ht' = [q \in Queue |-> IF q \in qids[r] THEN Peek(TryPop(ht[q])) ELSE ht[q]]
      /\ UNCHANGED qids
  BY <1>5 DEF DagPop
<1>7. /\ color' = [s \in Req |-> IF s \in Whitened(r, ht') THEN "WHITE" ELSE color[s]]
      /\ \E order \in SetToSeqs(Whitened(r, ht')) : white' = white \o order
  BY <1>5, <1>6 DEF DagPop, Whitened
<1>8. ASSUME NEW q \in qids[r]
      PROVE  /\ ht'[q] \in QueueType /\ Peeked(ht'[q]) /\ Len(ht'[q].queue) <= Capacity
             /\ ht[q].head = r
             /\ Contents(ht'[q]) = Tail(Contents(ht[q]))
  <2>1. ht'[q] = Peek(TryPop(ht[q]))
    BY <1>3, <1>6
  <2> QED BY <1>4, <2>1
<1>9. \A q \in Queue \ qids[r] : ht'[q] = ht[q]
  BY <1>6
<1>10. ht' \in [Queue -> QueueType]
  <2>1. ASSUME NEW q \in Queue PROVE ht'[q] \in QueueType
    BY <1>1, <1>8, <1>9, QueueOfGroup
  <2> QED BY <1>6, <2>1
<1> QED BY <1>1, <1>2, <1>3, <1>5, <1>6, <1>7, <1>8, <1>9, <1>10

\* Without r, what is pending stays in order, and each queue holds its part.
LEMMA PopQueues ==
  ASSUME DagInv, NEW r \in Req, Pop(r)
  PROVE  /\ pending' \in Seq(Req) /\ Distinct(pending')
         /\ Range(pending') = Range(pending) \ {r}
         /\ \A q \in Queue : HoldsGroup(q)'
<1>1. /\ ~ crashed /\ UNCHANGED qids /\ qids[r] \subseteq Queue
      /\ pending \in Seq(Req) /\ Distinct(pending)
      /\ \A q \in Queue : HoldsGroup(q)
  BY PopFindsRequest DEF DagInv, TypeOK
<1>2. PICK k \in DOMAIN pending : pending[k] = r /\ pending' = RemoveAt(pending, k)
  BY PopFindsRequest
<1>3. /\ pending' \in Seq(Req) /\ Distinct(pending')
      /\ Range(pending') = Range(pending) \ {r}
      /\ \A s, t : Before(s, t) /\ s # r /\ t # r => Precedes(pending', s, t)
  <2>1. /\ pending' \in Seq(Req) /\ Distinct(pending')
        /\ Range(pending') = Range(pending) \ {r}
        /\ \A s, t : Precedes(pending, s, t) /\ s # r /\ t # r => Precedes(pending', s, t)
    BY <1>1, <1>2, RemoveOrder
  <2> QED BY <2>1 DEF Precedes, Before
<1>4. ASSUME NEW q \in Queue PROVE HoldsGroup(q)'
  <2> DEFINE c == Contents(ht[q])
             d == Contents(ht'[q])
  <2>1. /\ Peeked(ht[q]) /\ c \in Seq(Req) /\ Distinct(c)
        /\ Range(c) = {s \in Range(pending) : q \in qids[s]}
        /\ \A i, j \in DOMAIN c : i < j => Before(c[i], c[j])
    BY <1>1, QueueOfGroup DEF HoldsGroup
  <2>2. CASE q \notin qids[r]
    <3>1. ht'[q] = ht[q]
      BY <2>2, PopFindsRequest
    <3>2. Range(c) = {s \in Range(pending') : q \in qids'[s]}
      BY <1>1, <1>3, <2>1, <2>2
    <3>3. ASSUME NEW i \in DOMAIN c, NEW j \in DOMAIN c, i < j PROVE Precedes(pending', c[i], c[j])
      <4>1. c[i] # r /\ c[j] # r
        BY <2>1, <2>2 DEF Range
      <4> QED BY <1>3, <2>1, <3>3, <4>1
    <3> QED BY <2>1, <3>1, <3>2, <3>3 DEF HoldsGroup, Precedes, Before
  <2>3. CASE q \in qids[r]
    <3>1. Peeked(ht'[q]) /\ d = Tail(c) /\ ht[q].head = r
      BY <2>3, PopFindsRequest
    <3>2. c # <<>> /\ Head(c) = r
      <4>1. ht[q] \in QueueType
        BY <1>1, QueueOfGroup
      <4> QED BY <2>1, <3>1, <4>1, NodeAssumption, ContentsOfPeeked
    <3>3. /\ Range(d) = Range(c) \ {r} /\ d \in Seq(Req)
          /\ \A i \in DOMAIN d : i + 1 \in DOMAIN c /\ d[i] = c[i + 1]
      <4> HIDE DEF c, d
      <4> QED BY <2>1, <3>1, <3>2, TailOrder
    <3>4. Range(d) = {s \in Range(pending') : q \in qids'[s]}
      BY <1>1, <1>3, <2>1, <3>3
    <3>5. ASSUME NEW i \in DOMAIN d, NEW j \in DOMAIN d, i < j
          PROVE  Precedes(pending', d[i], d[j])
      <4>1. d[i] # r /\ d[j] # r
        BY <3>3 DEF Range
      <4>2. i \in Nat /\ j \in Nat
        <5> HIDE DEF d
        <5> QED BY <3>3, LenProperties
      <4>3. Before(c[i + 1], c[j + 1])
        BY <2>1, <3>3, <3>5, <4>2
      <4> QED BY <1>3, <3>3, <4>1, <4>3
    <3> QED BY <3>1, <3>4, <3>5 DEF HoldsGroup, Precedes, Before
  <2> QED BY <2>2, <2>3
<1> QED BY <1>3, <1>4

\* The whitened nodes are those whose turn it is now: enlisted, in nobody's
\* hand, and first in all their queues since r left.
LEMMA PopWhitens ==
  ASSUME DagInv, NEW r \in Req, Pop(r)
  PROVE  /\ IsFiniteSet(Whitened(r, ht'))
         /\ \A s \in Whitened(r, ht') : s # r /\ job[s] = "enlisted" /\ ~ InHand(s)
         /\ \A s \in Range(pending') :
              AtHead(s, ht)' <=> AtHead(s, ht) \/ s \in Whitened(r, ht')
         /\ \A s \in Req : job[s] = "enlisted" /\ ~ InHand(s) /\ AtHead(s, ht)'
                             => s \in Whitened(r, ht')
<1> DEFINE W == Whitened(r, ht')
<1>1. /\ ~ crashed /\ UNCHANGED qids /\ qids[r] \subseteq Queue
      /\ \A q \in qids[r] : ht[q].head = r
      /\ \A q \in Queue \ qids[r] : ht'[q] = ht[q]
      /\ \A s \in Req : Follows(s)
      /\ r \in Range(pending)
  BY PopFindsRequest DEF DagInv
<1>2. /\ pending' \in Seq(Req) /\ Range(pending') = Range(pending) \ {r}
      /\ \A q \in Queue : HoldsGroup(q)'
  BY PopQueues
<1>3. ASSUME NEW s \in Req PROVE AtHead(s, ht') <=> AtHead(s, ht)'
  BY <1>1 DEF AtHead
<1>4. ASSUME NEW q \in qids[r], ht'[q].head # Null
      PROVE  ht'[q].head \in Range(pending') /\ q \in qids[ht'[q].head]
  <2>1. ht'[q] \in QueueType /\ Peeked(ht'[q])
    BY PopFindsRequest
  <2>2. /\ Contents(ht'[q]) \in Seq(Req) /\ Contents(ht'[q]) # <<>>
        /\ Contents(ht'[q])[1] = ht'[q].head
    BY <1>4, <2>1, ContentsOfPeeked
  <2>3. 1 \in DOMAIN Contents(ht'[q])
    BY <2>2, LenProperties, EmptySeq
  <2>4. ht'[q].head \in Range(Contents(ht'[q]))
    BY <2>2, <2>3 DEF Range
  <2>5. Range(Contents(ht'[q])) = {s \in Range(pending') : q \in qids'[s]}
    BY <1>1, <1>2 DEF HoldsGroup
  <2> QED BY <1>1, <2>4, <2>5
<1>5. ASSUME NEW s \in Range(pending'), NEW q \in qids[r], q \in qids[s] PROVE ~ AtHead(s, ht)
  <2>1. s # r /\ ht[q].head = r
    BY <1>1, <1>2
  <2> QED BY <1>5, <2>1 DEF AtHead
<1>6. ASSUME NEW s \in W PROVE /\ s \in Range(pending') /\ ~ AtHead(s, ht) /\ s # r
                               /\ job[s] = "enlisted" /\ ~ InHand(s)
                               /\ \E q \in qids[r] : ht'[q].head = s
  <2>1. PICK q \in qids[r] : ht'[q].head = s
    BY DEF Whitened
  <2>2. s \in Req /\ s # Null
    BY NodeAssumption DEF Whitened
  <2>3. s \in Range(pending') /\ q \in qids[s]
    BY <1>4, <2>1, <2>2
  <2>4. ~ AtHead(s, ht) /\ s # r /\ s \in Range(pending)
    BY <1>2, <1>5, <2>3
  <2>5. job[s] = "enlisted" /\ ~ InHand(s)
    <3>1. job[s] \in Job
      BY <2>2 DEF DagInv, TypeOK
    <3> QED BY <1>1, <2>2, <2>4, <3>1 DEF Follows, Job
  <2> QED BY <2>1, <2>3, <2>4, <2>5
<1>7. IsFiniteSet(W)
  <2> DEFINE f == [s \in W |-> CHOOSE q \in Queue : ht'[q].head = s]
  <2>1. ASSUME NEW s \in W PROVE f[s] \in Queue /\ ht'[f[s]].head = s
    <3>1. \E q \in Queue : ht'[q].head = s
      BY <1>1, <1>6
    <3> QED BY <3>1
  <2> HIDE DEF W
  <2>2. f \in Injection(W, Queue)
    BY <2>1 DEF Injection, IsInjective
  <2> QED BY <2>2, GroupAssumption, FS_Injection
<1>8. ASSUME NEW s \in Req, ~ AtHead(s, ht), AtHead(s, ht)'
      PROVE  \E q \in qids[r] : ht'[q].head = s
  <2>1. PICK q \in qids[s] : ht[q].head # s
    BY <1>8 DEF AtHead
  <2>2. ht'[q].head = s /\ q \in Queue
    BY <1>1, <1>8, <2>1 DEF AtHead, DagInv, TypeOK
  <2> QED BY <1>1, <2>1, <2>2
<1>9. ASSUME NEW s \in Req, job[s] = "enlisted", ~ InHand(s), AtHead(s, ht)' PROVE s \in W
  <2>1. ~ AtHead(s, ht) /\ color[s] # "WHITE"
    BY <1>1, <1>9 DEF Follows
  <2>2. \E q \in qids[r] : ht'[q].head = s
    BY <1>8, <1>9, <2>1
  <2> QED BY <1>3, <1>9, <2>1, <2>2 DEF Whitened
<1>10. ASSUME NEW s \in Range(pending'), AtHead(s, ht) PROVE AtHead(s, ht)'
  <2>1. s \in Req
    BY <1>2, RangeOfSeq
  <2>2. ASSUME NEW q \in qids[s] PROVE ht'[q].head = s
    <3>1. q \notin qids[r]
      BY <1>5, <1>10, <2>2
    <3>2. q \in Queue /\ ht[q].head = s
      BY <1>10, <2>1 DEF AtHead, DagInv, TypeOK
    <3> QED BY <1>1, <3>1, <3>2
  <2> QED BY <1>1, <2>2 DEF AtHead
<1>11. ASSUME NEW s \in Range(pending'), AtHead(s, ht)', ~ AtHead(s, ht) PROVE s \in W
  <2>1. s \in Req /\ s \in Range(pending)
    BY <1>2, RangeOfSeq
  <2>2. job[s] = "enlisted" /\ ~ InHand(s)
    <3>1. job[s] \in Job
      BY <2>1 DEF DagInv, TypeOK
    <3> QED BY <1>1, <1>11, <2>1, <3>1 DEF Follows, Job
  <2> QED BY <1>9, <1>11, <2>1, <2>2
<1>12. ASSUME NEW s \in W PROVE AtHead(s, ht)'
  BY <1>3 DEF Whitened
<1> QED BY <1>6, <1>7, <1>9, <1>10, <1>11, <1>12

\* mpr_dag_pop: r leaves its queues, and whose turn it is becomes white.
LEMMA PopInv == ASSUME DagInv, NEW r \in Req, Pop(r) PROVE DagInv'
<1> DEFINE W == Whitened(r, ht')
<1>1. /\ ~ crashed /\ job[r] = "calledback"
      /\ job' = [job EXCEPT ![r] = "popped"]
      /\ color' = [s \in Req |-> IF s \in W THEN "WHITE" ELSE color[s]]
      /\ UNCHANGED <<qids, daemon, stage, crashed>>
      /\ TypeOK /\ DaemonInv /\ white \in Seq(Req) /\ W \subseteq Req
      /\ \A s \in Req : Follows(s)
  BY PopFindsRequest DEF DagInv, Pop, TypeOK, Whitened
<1>2. /\ pending' \in Seq(Req) /\ Distinct(pending')
      /\ Range(pending') = Range(pending) \ {r}
      /\ \A q \in Queue : HoldsGroup(q)'
  BY PopQueues
<1>3. /\ IsFiniteSet(W)
      /\ \A s \in W : s # r /\ job[s] = "enlisted" /\ ~ InHand(s)
      /\ \A s \in Range(pending') : AtHead(s, ht)' <=> AtHead(s, ht) \/ s \in W
      /\ \A s \in Req : job[s] = "enlisted" /\ ~ InHand(s) /\ AtHead(s, ht)' => s \in W
  BY PopWhitens
<1>4. PICK order \in SetToSeqs(W) : white' = white \o order
  BY PopFindsRequest
<1> HIDE DEF W
<1>5. order \in Seq(W) /\ Range(order) = W /\ Distinct(order)
  BY <1>3, EnumerationOfSet
<1>6. order \in Seq(Req)
  BY <1>1, <1>5, SeqMonotonic
<1>7. Range(white) \cap Range(order) = {} /\ Distinct(white)
  BY <1>1, <1>3, <1>5 DEF InHand, DaemonInv
<1>8. white' \in Seq(Req) /\ Distinct(white') /\ Range(white') = Range(white) \cup W
  BY <1>1, <1>4, <1>5, <1>6, <1>7, ConcatDistinct
<1>9. DaemonInv'
  <2>1. daemon.node \notin W
    BY <1>3 DEF InHand
  <2> QED BY <1>1, <1>8, <2>1 DEF DaemonInv
<1>10. ASSUME NEW s \in Req PROVE Follows(s)'
  <2>1. /\ Follows(s) /\ qids'[s] = qids[s]
        /\ job'[s] = IF s = r THEN "popped" ELSE job[s]
        /\ color'[s] = IF s \in W THEN "WHITE" ELSE color[s]
        /\ InHand(s)' <=> InHand(s) \/ s \in W
        /\ s \in Range(pending') <=> s \in Range(pending) /\ s # r
    BY <1>1, <1>2, <1>8 DEF InHand, TypeOK
  <2>2. CASE s = r
    <3>1. ~ InHand(s)'
      BY <1>1, <1>3, <2>1, <2>2 DEF Follows
    <3> QED BY <1>1, <2>1, <2>2, <3>1 DEF Follows
  <2>3. CASE s # r
    <3>1. CASE job[s] = "enlisted"
      <4>1. s \in Range(pending') /\ job'[s] = "enlisted"
        BY <2>1, <2>3, <3>1 DEF Follows
      <4>2. InHand(s)' <=> AtHead(s, ht)'
        BY <1>3, <2>1, <3>1, <4>1 DEF Follows
      <4>3. ~ InHand(s)' => color'[s] # "WHITE"
        BY <2>1, <3>1 DEF Follows
      <4> QED BY <2>1, <3>1, <4>1, <4>2, <4>3 DEF Follows
    <3>2. CASE job[s] # "enlisted"
      <4>1. s \notin W /\ job'[s] = job[s] /\ ~ InHand(s)'
        BY <1>3, <2>1, <2>3, <3>2 DEF Follows
      <4>2. job[s] \in {"pooled", "started", "calledback"} => AtHead(s, ht)'
        BY <1>3, <2>1, <2>3 DEF Follows
      <4>3. s \in Range(pending') <=> job'[s] \notin {"new", "popped"}
        BY <2>1, <2>3, <4>1 DEF Follows
      <4> QED BY <2>1, <3>2, <4>1, <4>2, <4>3 DEF Follows
    <3> QED BY <3>1, <3>2
  <2> QED BY <2>2, <2>3
<1>11. TypeOK'
  <2>1. ASSUME NEW q \in Queue PROVE Len(ht'[q].queue) <= Capacity
    BY <1>1, PopFindsRequest DEF TypeOK
  <2>2. ht' \in [Queue -> [head : Req \cup {Null}, queue : Seq(Req)]]
    BY PopFindsRequest DEF QueueType
  <2>3. /\ color' \in [Req -> {"BLACK", "WHITE", "GRAY"}]
        /\ job' \in [Req -> Job]
    BY <1>1 DEF TypeOK, Job
  <2> QED BY <1>1, <1>2, <1>8, <2>1, <2>2, <2>3 DEF TypeOK
<1> QED BY <1>2, <1>9, <1>10, <1>11 DEF DagInv

-----------------------------------------------------------------------------
\* A commit that finds a queue full aborts the process.
LEMMA CommitAbortsInv == ASSUME DagInv, NEW r \in Req, CommitAborts(r) PROVE DagInv'
<1>1. crashed' = TRUE /\ UNCHANGED <<ht, qids, color, white, job, daemon, stage, pending>>
  BY DEF CommitAborts, dagVars
<1> QED BY <1>1 DEF DagInv, TypeOK

\* Every step preserves the invariant.
LEMMA DagStep == DagInv /\ [Next]_vars => DagInv'
<1> SUFFICES ASSUME DagInv, [Next]_vars PROVE DagInv'
  OBVIOUS
<1>1. CASE \E r \in Req : Commit(r) \/ CommitAborts(r) \/ StartJob(r) \/ CallBack(r) \/ Pop(r)
  BY <1>1, CommitInv, CommitAbortsInv, StartJobInv, CallBackInv, PopInv
<1>2. CASE DaemonStep
  BY <1>2, DaemonCheckInv, DaemonPopInv, DaemonNoNodeInv, DaemonGrayInv, DaemonGiveInv
     DEF DaemonStep
<1>3. CASE DestroyComm \/ DestroyStep
  BY <1>3, DestroyInv, InterruptInv DEF DestroyStep
<1>4. CASE UNCHANGED vars
  <2>1. UNCHANGED <<ht, qids, color, white, job, daemon, stage, crashed, pending>>
    BY <1>4 DEF vars, dagVars
  <2>2. TypeOK'
    BY <2>1 DEF DagInv, TypeOK
  <2>3. CASE ~ crashed
    BY <2>1, <2>2, <2>3, LoopInv DEF dagVars
  <2>4. CASE crashed
    BY <2>1, <2>2, <2>4 DEF DagInv
  <2> QED BY <2>3, <2>4
<1> QED BY <1>1, <1>2, <1>3, <1>4 DEF Next

\* The invariant holds in every state.
LEMMA DagInvariant == Spec => []DagInv
BY DagInit, DagStep, PTL DEF Spec

\* The state of async.c has its types, and the queue of a group never holds
\* more than apr_queue_t has room for.
THEOREM DagTypeCorrect == Spec => []TypeOK
<1>1. DagInv => TypeOK
  BY DEF DagInv
<1> QED BY <1>1, DagInvariant, PTL

\* However commits, pops and the daemon interleave, an enlisted request is on
\* its way to the pool, once, if and only if it is first in all its queues.
THEOREM WhiteIsReady == Spec => []WhiteIffReady
<1>1. DagInv => WhiteIffReady
  BY DEF DagInv, WhiteIffReady, Follows, DaemonInv, Distinct
<1> QED BY <1>1, DagInvariant, PTL

\* The queue of each group holds its pending requests in commit order, and what
\* runs is first in all its queues.
THEOREM QueuesHoldGroups == Spec => []QueuesAreInOrder
<1>1. DagInv => QueuesAreInOrder
  BY DEF DagInv, QueuesAreInOrder, HoldsGroup, Follows, Distinct
<1> QED BY <1>1, DagInvariant, PTL

\* The assertions of mpr_dag_pop and the one after it never fail: to pop a
\* request that was called back always succeeds.
THEOREM PopNeverAborts == Spec => [][\A r \in Req : Pop(r) => job'[r] = "popped"]_vars
<1>1. ASSUME DagInv, NEW r \in Req, Pop(r) PROVE job'[r] = "popped"
  BY <1>1, PopFindsRequest DEF DagInv, TypeOK
<1>2. DagInv /\ [Next]_vars => [\A r \in Req : Pop(r) => job'[r] = "popped"]_vars
  BY <1>1
<1> QED BY <1>2, DagInvariant, PTL DEF Spec

\* Who finds a queue full finds one request more than the capacity in it.
LEMMA FullQueueHolds ==
  ASSUME DagInv, ~ crashed, NEW q \in Queue, ~ HasRoom(ht[q])
  PROVE  Len(Contents(ht[q])) = Capacity + 1
<1>1. ht[q] \in QueueType /\ Peeked(ht[q]) /\ Len(ht[q].queue) <= Capacity
  BY DEF DagInv, TypeOK, HoldsGroup, QueueType
<1>2. ht[q].head \in Req \cup {Null} /\ ht[q].queue \in Seq(Req)
  BY <1>1 DEF QueueType
<1>3. Len(ht[q].queue) = Capacity /\ ht[q].queue # <<>>
  BY <1>1, <1>2, CapacityAssumption DEF HasRoom
<1>4. ht[q].head # Null /\ Contents(ht[q]) = <<ht[q].head>> \o ht[q].queue
  BY <1>1, <1>3 DEF Peeked, Contents
<1>5. <<ht[q].head>> \in Seq(Req) /\ Len(<<ht[q].head>>) = 1
  BY <1>2, <1>4
<1> QED BY <1>2, <1>3, <1>4, <1>5, CapacityAssumption, ConcatProperties

\* Whatever the groups of the requests and the order of the threads' steps, no
\* assertion fails but the one in mpr_queue_push, and that one only with
\* Capacity + 1 requests of a group outstanding.
THEOREM AbortsOnlyWhenFull == Spec => []OnlyFullQueueAborts
<1>1. Init => OnlyFullQueueAborts
  BY DEF Init, OnlyFullQueueAborts
<1>2. DagInv /\ OnlyFullQueueAborts /\ [Next]_vars => OnlyFullQueueAborts'
  <2> SUFFICES ASSUME DagInv, OnlyFullQueueAborts, [Next]_vars PROVE OnlyFullQueueAborts'
    OBVIOUS
  <2>1. ASSUME NEW r \in Req, CommitAborts(r) PROVE OnlyFullQueueAborts'
    <3>1. ~ crashed /\ ht' = ht
      BY <2>1 DEF CommitAborts, dagVars
    <3>2. PICK q \in Queue : ~ HasRoom(ht[q])
      BY <2>1 DEF CommitAborts
    <3>3. Len(Contents(ht'[q])) = Capacity + 1
      BY <3>1, <3>2, FullQueueHolds
    <3> QED BY <3>3 DEF OnlyFullQueueAborts
  <2>2. ASSUME NEW r \in Req, Pop(r) PROVE OnlyFullQueueAborts'
    <3>1. ~ crashed /\ crashed' = crashed
      BY <2>2, PopFindsRequest
    <3> QED BY <3>1 DEF OnlyFullQueueAborts
  <2>3. ASSUME NEW r \in Req, Commit(r) \/ StartJob(r) \/ CallBack(r)
        PROVE  OnlyFullQueueAborts'
    <3>1. ~ crashed /\ crashed' = crashed
      BY <2>3 DEF Commit, StartJob, CallBack
    <3> QED BY <3>1 DEF OnlyFullQueueAborts
  <2>4. CASE DaemonStep \/ DestroyComm \/ DestroyStep
    <3>1. ~ crashed /\ crashed' = crashed
      BY <2>4 DEF DaemonStep, DaemonCheck, DaemonPop, DaemonNoNode, DaemonGray, DaemonGive,
                  DestroyComm, DestroyStep, SetExit, Interrupt, Join
    <3> QED BY <3>1 DEF OnlyFullQueueAborts
  <2>5. CASE UNCHANGED vars
    BY <2>5 DEF vars, dagVars, OnlyFullQueueAborts
  <2> QED BY <2>1, <2>2, <2>3, <2>4, <2>5 DEF Next
<1> QED BY <1>1, <1>2, DagInvariant, PTL DEF Spec

-----------------------------------------------------------------------------
\* No request before one that is first in all its queues shares a group with it.
LEMMA FirstIsNext ==
  ASSUME DagInv, ~ crashed, NEW r \in Range(pending), AtHead(r, ht)
  PROVE  \E i \in DOMAIN pending :
           /\ pending[i] = r
           /\ \A j \in 1 .. i - 1 : qids[pending[j]] \cap qids[r] = {}
<1>1. pending \in Seq(Req) /\ Distinct(pending)
  BY DEF DagInv, TypeOK
<1>2. DOMAIN pending = 1 .. Len(pending) /\ Len(pending) \in Nat
  BY <1>1, LenProperties
<1>3. PICK i \in DOMAIN pending : pending[i] = r
  BY DEF Range
<1>4. ASSUME NEW j \in 1 .. i - 1, NEW q \in qids[r], q \in qids[pending[j]] PROVE FALSE
  <2>1. j \in DOMAIN pending /\ pending[j] \in Range(pending) /\ j < i
    BY <1>2 DEF Range
  <2>2. r \in Req /\ q \in Queue /\ ht[q].head = r
    BY <1>1, <1>3, <1>4, <1>2 DEF DagInv, TypeOK, AtHead
  <2>3. pending[j] # r
    BY <1>1, <1>2, <1>3, <2>1 DEF Distinct
  <2>4. pending[j] \in Range(Contents(ht[q])) /\ ht[q].head # Null
    BY <1>4, <2>1, <2>2, QueueOfGroup
  <2>5. Before(r, pending[j])
    BY <2>2, <2>3, <2>4, QueueOfGroup
  <2>6. PICK m \in DOMAIN pending, n \in DOMAIN pending :
          m < n /\ pending[m] = r /\ pending[n] = pending[j]
    BY <2>5 DEF Before
  <2>7. m = i /\ n = j
    BY <1>1, <1>3, <2>1, <2>6 DEF Distinct
  <2> QED BY <1>2, <2>1, <2>6, <2>7
<1> QED BY <1>3, <1>4

\* The initial states of the DAG are initial states of GroupOrder.
LEMMA OrderInit == Init => Order!Init
BY DEF Init, Order!Init, Running

\* Commit, the daemon's giving out and Pop are the steps of GroupOrder; no other
\* step shows.
LEMMA OrderStep == DagInv /\ [Next]_vars => [Order!Next]_Order!vars
<1> SUFFICES ASSUME DagInv, [Next]_vars PROVE [Order!Next]_Order!vars
  OBVIOUS
<1> DEFINE Runs(r) == job[r] \in {"pooled", "started", "calledback"}
<1>1. job \in [Req -> Job]
  BY DEF DagInv, TypeOK
<1>2. ASSUME UNCHANGED <<qids, pending, job>> PROVE UNCHANGED Order!vars
  BY <1>2 DEF Order!vars, Running
<1>3. ASSUME NEW r \in Req, Commit(r) PROVE Order!Next
  <2>1. qids[r] = {} /\ r \notin Running /\ job[r] = "new"
    BY <1>3 DEF DagInv, Follows, Commit, Running
  <2>2. PICK S \in (SUBSET Queue) \ {{}} : qids' = [qids EXCEPT ![r] = S]
    BY <1>3 DEF Commit, DagPush
  <2>3. job' = [job EXCEPT ![r] = "enlisted"] /\ pending' = Append(pending, r)
    BY <1>3 DEF Commit
  <2>4. UNCHANGED Running
    BY <1>1, <2>1, <2>3 DEF Running
  <2>5. Order!Commit(r)
    BY <2>1, <2>2, <2>3, <2>4 DEF Order!Commit
  <2> QED BY <2>5 DEF Order!Next
<1>4. ASSUME DaemonGive PROVE Order!Next
  <2> DEFINE r == daemon.node
  <2>1. ~ crashed /\ r \in Req /\ InHand(r) /\ Follows(r)
    BY <1>4 DEF DagInv, DaemonInv, DaemonGive, TypeOK, InHand
  <2>2. job[r] = "enlisted" /\ AtHead(r, ht) /\ r \in Range(pending)
    BY <2>1 DEF Follows
  <2>3. job' = [job EXCEPT ![r] = "pooled"] /\ UNCHANGED <<qids, pending>>
    BY <1>4 DEF DaemonGive, dagVars
  <2>4. Running' = Running \cup {r} /\ r \notin Running
    BY <1>1, <2>1, <2>2, <2>3 DEF Running
  <2>5. \E i \in DOMAIN pending :
          /\ pending[i] = r
          /\ \A j \in 1 .. i - 1 : qids[pending[j]] \cap qids[r] = {}
    BY <2>1, <2>2, FirstIsNext
  <2>6. Order!Run(r)
    BY <2>3, <2>4, <2>5 DEF Order!Run
  <2> QED BY <2>1, <2>6 DEF Order!Next
<1>5. ASSUME NEW r \in Req, Pop(r) PROVE Order!Next
  <2>1. /\ job[r] = "calledback" /\ job' = [job EXCEPT ![r] = "popped"] /\ UNCHANGED qids
        /\ \E i \in DOMAIN pending : pending[i] = r /\ pending' = RemoveAt(pending, i)
    BY <1>5, PopFindsRequest DEF Pop
  <2>2. Running' = Running \ {r} /\ r \in Running
    BY <1>1, <2>1 DEF Running
  <2>3. Order!Finish(r)
    BY <2>1, <2>2 DEF Order!Finish, Order!RemoveAt, RemoveAt
  <2> QED BY <2>3 DEF Order!Next
<1>6. ASSUME NEW r \in Req, StartJob(r) \/ CallBack(r) PROVE UNCHANGED Order!vars
  <2>1. /\ job[r] \in {"pooled", "started"} /\ UNCHANGED <<qids, pending>>
        /\ job' = [job EXCEPT ![r] = "started"] \/ job' = [job EXCEPT ![r] = "calledback"]
    BY <1>6 DEF StartJob, CallBack, dagVars
  <2>2. UNCHANGED Running
    BY <1>1, <2>1 DEF Running
  <2> QED BY <2>1, <2>2 DEF Order!vars
<1>7. CASE \E r \in Req : CommitAborts(r)
  BY <1>2, <1>7 DEF CommitAborts, dagVars
<1>8. CASE DaemonCheck \/ DaemonPop \/ DaemonNoNode \/ DaemonGray \/ DestroyComm \/ DestroyStep
  BY <1>2, <1>8
     DEF DaemonCheck, DaemonPop, DaemonNoNode, DaemonGray, DestroyComm, DestroyStep,
         SetExit, Interrupt, Join, dagVars
<1>9. CASE UNCHANGED vars
  BY <1>2, <1>9 DEF vars, dagVars
<1> QED BY <1>3, <1>4, <1>5, <1>6, <1>7, <1>8, <1>9 DEF Next, DaemonStep

\* The DAG implements GroupOrder: requests that share a group run one at a time
\* and in the order of their commits.
THEOREM DagImplementsOrder == Spec => ServesGroupsInOrder
<1>1. Spec => Order!Spec
  BY OrderInit, OrderStep, DagInvariant, PTL DEF Spec, Order!Spec
<1> QED BY <1>1 DEF ServesGroupsInOrder
=============================================================================
