--------------------------- MODULE RpcChannelProof ---------------------------
(***************************************************************************)
(* Theorems about RpcChannel, for messages and buffers of any size.        *)
(*                                                                         *)
(* The control of the two ends (JobInv: pollset, removed jobs, poll        *)
(* mode, update_job) needs nothing of the data.  That messages arrive in   *)
(* order needs what the read handlers take from a buffer (Frames), wherever*)
(* it was cut: ReadTakes.  Frames and FlattenSeq are recursive, so that    *)
(* ReadTakes and the lemmas before it are by induction; SetInduction states*)
(* that as a fact about sets of numbers, and every use names its set.      *)
(* StreamInv then follows a message through output buffer, network and     *)
(* input buffer.                                                           *)
(***************************************************************************)
EXTENDS RpcChannel, Recursion

\* A message has more than the size in front, and its bytes are so many.
LEMMA BytesType ==
  ASSUME NEW m \in Message
  PROVE  /\ FrameSize(m) \in Nat /\ FrameSize(m) > SzSzmsg /\ SzSzmsg > 0
         /\ Bytes(m) \in Seq(Byte) /\ Len(Bytes(m)) = FrameSize(m)
         /\ \A i \in 1 .. FrameSize(m) : Bytes(m)[i].of = m
<1>1. FrameSize(m) \in Nat /\ FrameSize(m) > SzSzmsg /\ SzSzmsg > 0
  BY SizeAssumption DEF FrameSize, Message
<1> DEFINE n == FrameSize(m)
<1>2. \A i \in 1 .. n : [of |-> m, at |-> i] \in Byte
  BY <1>1 DEF Byte
<1> HIDE DEF n
<1>3. n \in Nat
  BY <1>1 DEF n
<1>4. [i \in 1 .. n |-> [of |-> m, at |-> i]] \in [1 .. n -> Byte]
  BY <1>2
<1>5. \A f \in [1 .. n -> Byte] : f \in Seq(Byte) /\ Len(f) = n
  BY <1>3
<1>6. Bytes(m) = [i \in 1 .. n |-> [of |-> m, at |-> i]]
  BY DEF Bytes, n
<1> QED
  BY <1>1, <1>4, <1>5, <1>6 DEF n

\* The sequences AllBytes puts together.
LEMMA FrameSeq ==
  ASSUME NEW ms \in Seq(Message)
  PROVE  /\ [i \in DOMAIN ms |-> Bytes(ms[i])] \in Seq(Seq(Byte))
         /\ Len([i \in DOMAIN ms |-> Bytes(ms[i])]) = Len(ms)
<1>1. DOMAIN ms = 1 .. Len(ms) /\ Len(ms) \in Nat /\ \A i \in 1 .. Len(ms) : ms[i] \in Message
  OBVIOUS
<1>2. [i \in DOMAIN ms |-> Bytes(ms[i])] \in [1 .. Len(ms) -> Seq(Byte)]
  BY <1>1, BytesType
<1>3. \A f \in [1 .. Len(ms) -> Seq(Byte)] : f \in Seq(Seq(Byte)) /\ Len(f) = Len(ms)
  BY <1>1
<1> QED
  BY <1>2, <1>3

\* Messages make bytes.
LEMMA AllBytesType == ASSUME NEW ms \in Seq(Message) PROVE AllBytes(ms) \in Seq(Byte)
BY FrameSeq, FlattenType DEF AllBytes

\* One message more is its bytes more.
LEMMA AllBytesAppend ==
  ASSUME NEW ms \in Seq(Message), NEW m \in Message
  PROVE  AllBytes(Append(ms, m)) = AllBytes(ms) \o Bytes(m)
<1> DEFINE ss == [i \in DOMAIN ms |-> Bytes(ms[i])]
           ns == Append(ms, m)
           tt == [i \in DOMAIN ns |-> Bytes(ns[i])]
<1>1. /\ ns \in Seq(Message) /\ Len(ns) = Len(ms) + 1 /\ ns[Len(ms) + 1] = m
      /\ \A i \in 1 .. Len(ms) : ns[i] = ms[i]
      /\ Len(ms) \in Nat /\ DOMAIN ms = 1 .. Len(ms) /\ DOMAIN ns = 1 .. Len(ms) + 1
  OBVIOUS
<1>2. /\ ss \in Seq(Seq(Byte)) /\ Len(ss) = Len(ms)
      /\ \A i \in 1 .. Len(ms) : ss[i] = Bytes(ms[i])
  BY <1>1, FrameSeq
<1>3. /\ tt \in Seq(Seq(Byte)) /\ Len(tt) = Len(ms) + 1
      /\ \A i \in 1 .. Len(ms) + 1 : tt[i] = Bytes(ns[i])
  <2> HIDE DEF ns
  <2> QED
    BY <1>1, FrameSeq
<1>4. Bytes(m) \in Seq(Byte)
  BY BytesType
<1> HIDE DEF ss, tt, ns
<1>5. tt = Append(ss, Bytes(m))
  <2>1. /\ Append(ss, Bytes(m)) \in Seq(Seq(Byte)) /\ Len(Append(ss, Bytes(m))) = Len(ms) + 1
        /\ \A i \in 1 .. Len(ms) : Append(ss, Bytes(m))[i] = ss[i]
        /\ Append(ss, Bytes(m))[Len(ms) + 1] = Bytes(m)
    BY <1>2, <1>4, AppendProperties
  <2>2. \A i \in 1 .. Len(ms) + 1 : tt[i] = Append(ss, Bytes(m))[i]
    BY <1>1, <1>2, <1>3, <2>1
  <2> QED
    BY <1>3, <2>1, <2>2, SeqEqual
<1> QED
  BY <1>2, <1>4, <1>5, FlattenAppend DEF AllBytes, ss, tt, ns

\* Nothing is appended for no message.
LEMMA NoBytes == AllBytes(<<>>) = <<>>
<1>1. [i \in DOMAIN <<>> |-> Bytes(<<>>[i])] = <<>>
  OBVIOUS
<1> QED
  BY <1>1 DEF AllBytes, FlattenSeq

\* The bytes of messages after one another.
LEMMA AllBytesConcat ==
  ASSUME NEW ms \in Seq(Message), NEW ns \in Seq(Message)
  PROVE  AllBytes(ms \o ns) = AllBytes(ms) \o AllBytes(ns)
<1> DEFINE S == {k \in Nat : \A rs \in Seq(Message) :
                   Len(rs) = k => AllBytes(ms \o rs) = AllBytes(ms) \o AllBytes(rs)}
<1>1. 0 \in S
  <2> SUFFICES ASSUME NEW rs \in Seq(Message), Len(rs) = 0
               PROVE  AllBytes(ms \o rs) = AllBytes(ms) \o AllBytes(rs)
    OBVIOUS
  <2>1. rs = <<>>
    OBVIOUS
  <2>2. ms \o <<>> = ms /\ AllBytes(ms) \o <<>> = AllBytes(ms)
    BY AllBytesType, ConcatEmptySeq
  <2> QED
    BY <2>1, <2>2, NoBytes
<1>2. ASSUME NEW k \in Nat, k \in S PROVE k + 1 \in S
  <2> SUFFICES ASSUME NEW rs \in Seq(Message), Len(rs) = k + 1
               PROVE  AllBytes(ms \o rs) = AllBytes(ms) \o AllBytes(rs)
    OBVIOUS
  <2>1. PICK qs \in Seq(Message), m \in Message : rs = Append(qs, m)
    <3>1. rs # <<>>
      OBVIOUS
    <3> QED
      BY <3>1, SequenceEmptyOrAppend
  <2>2. Len(qs) = k
    BY <2>1
  <2>3. AllBytes(ms \o qs) = AllBytes(ms) \o AllBytes(qs)
    BY <1>2, <2>2
  <2>4. ms \o rs = Append(ms \o qs, m) /\ ms \o qs \in Seq(Message)
    BY <2>1
  <2> HIDE DEF S
  <2>5. AllBytes(ms \o rs) = (AllBytes(ms) \o AllBytes(qs)) \o Bytes(m)
    BY <2>3, <2>4, AllBytesAppend
  <2>6. (AllBytes(ms) \o AllBytes(qs)) \o Bytes(m) = AllBytes(ms) \o (AllBytes(qs) \o Bytes(m))
    <3>1. /\ AllBytes(ms) \in Seq(Byte) /\ AllBytes(qs) \in Seq(Byte)
          /\ Bytes(m) \in Seq(Byte)
      BY AllBytesType, BytesType
    <3> QED
      BY <3>1, ConcatAssociative, SMTT(30)
  <2> QED
    BY <2>1, <2>5, <2>6, AllBytesAppend
<1> HIDE DEF S
<1>3. Len(ns) \in S
  BY <1>1, <1>2, SetInduction
<1> QED
  BY <1>3 DEF S

\* The bytes of the first message come first.
LEMMA AllBytesFirst ==
  ASSUME NEW ms \in Seq(Message), ms # <<>>
  PROVE  AllBytes(ms) = Bytes(ms[1]) \o AllBytes(Tail(ms))
<1>1. ms[1] \in Message /\ Tail(ms) \in Seq(Message) /\ <<ms[1]>> \in Seq(Message)
  OBVIOUS
<1>2. ms = <<ms[1]>> \o Tail(ms)
  OBVIOUS
<1>3. AllBytes(<<ms[1]>>) = Bytes(ms[1])
  <2>1. <<ms[1]>> = Append(<<>>, ms[1])
    OBVIOUS
  <2>2. AllBytes(Append(<<>>, ms[1])) = AllBytes(<<>>) \o Bytes(ms[1])
    BY <1>1, AllBytesAppend, EmptySeq
  <2>3. <<>> \o Bytes(ms[1]) = Bytes(ms[1])
    BY <1>1, BytesType, ConcatEmptySeq
  <2> QED
    BY <2>1, <2>2, <2>3, NoBytes
<1>4. AllBytes(<<ms[1]>> \o Tail(ms)) = AllBytes(<<ms[1]>>) \o AllBytes(Tail(ms))
  BY <1>1, AllBytesConcat
<1> QED
  BY <1>2, <1>3, <1>4

-----------------------------------------------------------------------------
\* The recursion of Frames: one step of it, what it does for the sequences of
\* less than n bytes, and for all.
CutSize(c) == Min({FrameSize(c[1].of), Len(c)})
CutRest(c) == SubSeq(c, CutSize(c) + 1, Len(c))
CutStep(f, c) ==
  IF Complete(c) THEN <<SubSeq(c, 1, CutSize(c))>> \o f[CutRest(c)] ELSE <<>>
Shorter(n)  == {c \in Seq(Byte) : Len(c) < n}
IsCut(f, n) == f = [c \in Shorter(n) |-> CutStep(f, c)]

\* A complete frame is cut at its end, which leaves less.
LEMMA CutLess ==
  ASSUME NEW c \in Seq(Byte), Complete(c)
  PROVE  /\ CutSize(c) = FrameSize(c[1].of) /\ CutSize(c) \in 1 .. Len(c)
         /\ SubSeq(c, 1, CutSize(c)) \in Seq(Byte)
         /\ CutRest(c) \in Seq(Byte)
         /\ Len(CutRest(c)) < Len(c)
<1>1. Len(c) \in Nat /\ Len(c) > SzSzmsg /\ FrameSize(c[1].of) <= Len(c)
  BY DEF Complete
<1>2. c[1].of \in Message
  <2>1. 1 \in 1 .. Len(c)
    BY <1>1, SizeAssumption
  <2>2. c[1] \in Byte
    BY <2>1, ElementOfSeq
  <2> QED
    BY <2>2 DEF Byte
<1>3. FrameSize(c[1].of) \in Nat /\ FrameSize(c[1].of) > 0
  <2>1. /\ FrameSize(c[1].of) \in Nat /\ FrameSize(c[1].of) > SzSzmsg
        /\ SzSzmsg > 0
    BY <1>2, BytesType
  <2> QED
    BY <2>1, SizeAssumption
<1>4. CutSize(c) = FrameSize(c[1].of)
  BY <1>1, <1>3 DEF CutSize, Min
<1> QED
  BY <1>1, <1>3, <1>4, SubSeqProperties DEF CutRest

\* What IsCut is for one sequence.
LEMMA CutAt ==
  ASSUME NEW f, NEW n, IsCut(f, n), NEW c \in Shorter(n)
  PROVE  f[c] = CutStep(f, c)
<1> DEFINE g == [d \in Shorter(n) |-> CutStep(f, d)]
<1>1. g[c] = CutStep(f, c)
  OBVIOUS
<1>2. f = g
  BY DEF IsCut
<1> HIDE DEF g
<1> QED
  BY <1>1, <1>2

\* Two functions that are the same for what is left make the same step.
LEMMA SameStep ==
  ASSUME NEW f, NEW g, NEW c \in Seq(Byte),
         Complete(c) => f[CutRest(c)]
                          = g[CutRest(c)]
  PROVE  CutStep(f, c) = CutStep(g, c)
BY DEF CutStep

\* The recursion has a value for sequences of any bounded length, ...
LEMMA CutExists == \A n \in Nat : \E f : IsCut(f, n)
<1> DEFINE S == {n \in Nat : \E f : IsCut(f, n)}
<1>1. 0 \in S
  <2>1. Shorter(0) = {}
    BY DEF Shorter
  <2> DEFINE f == [c \in Shorter(0) |-> {}]
  <2>2. f = [c \in Shorter(0) |-> CutStep(f, c)]
    BY <2>1
  <2> QED
    BY <2>2 DEF IsCut
<1>2. ASSUME NEW n \in Nat, n \in S PROVE n + 1 \in S
  <2>1. PICK f : IsCut(f, n)
    BY <1>2
  <2> DEFINE g == [c \in Shorter(n + 1) |-> CutStep(f, c)]
  <2>2. \A c \in Shorter(n) : c \in Shorter(n + 1) /\ f[c] = g[c]
    <3>1. \A c \in Shorter(n) : c \in Shorter(n + 1)
      BY DEF Shorter
    <3> QED
      BY <2>1, <3>1, CutAt
  <2>3. \A c \in Shorter(n + 1) : g[c] = CutStep(g, c)
    <3> SUFFICES ASSUME NEW c \in Shorter(n + 1) PROVE g[c] = CutStep(g, c)
      OBVIOUS
    <3>1. g[c] = CutStep(f, c)
      OBVIOUS
    <3> HIDE DEF g
    <3>2. c \in Seq(Byte) /\ Len(c) < n + 1
      BY DEF Shorter
    <3>3. Complete(c) => CutRest(c) \in Shorter(n)
      BY <3>2, CutLess DEF Shorter
    <3> QED
      BY <2>2, <3>1, <3>2, <3>3, SameStep
  <2>4. g = [c \in Shorter(n + 1) |-> g[c]]
    OBVIOUS
  <2>5. IsCut(g, n + 1)
    <3> HIDE DEF g
    <3> QED
      BY <2>3, <2>4 DEF IsCut
  <2> QED
    BY <2>5
<1> HIDE DEF S
<1>3. \A n \in Nat : n \in S
  BY <1>1, <1>2, SetInduction
<1> QED
  BY <1>3 DEF S

\* ... the same for every bound.
LEMMA CutUnique ==
  ASSUME NEW m \in Nat, NEW n \in Nat, NEW f, NEW g, IsCut(f, m), IsCut(g, n)
  PROVE  \A c \in Shorter(m) \cap Shorter(n) : f[c] = g[c]
<1> DEFINE S == {k \in Nat : \A c \in Shorter(m) \cap Shorter(n) :
                               Len(c) < k => f[c] = g[c]}
<1>1. 0 \in S
  BY DEF Shorter
<1>2. ASSUME NEW k \in Nat, k \in S PROVE k + 1 \in S
  <2> SUFFICES ASSUME NEW c \in Shorter(m) \cap Shorter(n), Len(c) < k + 1
               PROVE  f[c] = g[c]
    OBVIOUS
  <2>1. f[c] = CutStep(f, c) /\ g[c] = CutStep(g, c)
    BY CutAt
  <2> DEFINE d == CutRest(c)
  <2>2. c \in Seq(Byte) /\ Len(c) \in Nat /\ Len(c) < m /\ Len(c) < n
    BY DEF Shorter
  <2>3. Complete(c) => f[d] = g[d]
    <3> SUFFICES ASSUME Complete(c) PROVE f[d] = g[d]
      OBVIOUS
    <3>1. d \in Seq(Byte) /\ Len(d) < Len(c) /\ Len(d) \in Nat
      BY <2>2, CutLess
    <3> HIDE DEF d
    <3>2. d \in Shorter(m) \cap Shorter(n) /\ Len(d) < k
      BY <2>2, <3>1 DEF Shorter
    <3> QED
      BY <1>2, <3>2
  <2> QED
    BY <2>1, <2>2, <2>3, SameStep
<1> HIDE DEF S
<1>3. \A k \in Nat : k \in S
  BY <1>1, <1>2, SetInduction
<1> QED
  <2> SUFFICES ASSUME NEW c \in Shorter(m) \cap Shorter(n) PROVE f[c] = g[c]
    OBVIOUS
  <2>1. Len(c) \in Nat
    BY DEF Shorter
  <2>2. Len(c) + 1 \in S
    BY <1>3, <2>1
  <2> QED
    BY <2>1, <2>2 DEF S

\* One step of Frames.
LEMMA FramesStep ==
  ASSUME NEW b \in Seq(Byte)
  PROVE  Frames(b) = IF Complete(b)
                     THEN <<SubSeq(b, 1, CutSize(b))>>
                            \o Frames(CutRest(b))
                     ELSE <<>>
<1> DEFINE all == CHOOSE f : f = [c \in Seq(Byte) |-> CutStep(f, c)]
           G(n) == CHOOSE f : IsCut(f, n)
           h == [c \in Seq(Byte) |-> G(Len(c) + 1)[c]]
<1>1. \A c \in Seq(Byte) : Frames(c) = all[c]
  BY DEF Frames, CutStep, CutSize, CutRest
<1>2. \A n \in Nat : IsCut(G(n), n)
  BY CutExists
<1>3. \A c \in Seq(Byte) : h[c] = CutStep(h, c)
  <2> SUFFICES ASSUME NEW c \in Seq(Byte) PROVE h[c] = CutStep(h, c)
    OBVIOUS
  <2> DEFINE n == Len(c) + 1
             d == CutRest(c)
  <2>1. n \in Nat /\ c \in Shorter(n)
    BY DEF Shorter
  <2>2. h[c] = G(n)[c]
    OBVIOUS
  <2>3. Complete(c) => h[d] = G(n)[d]
    <3> SUFFICES ASSUME Complete(c) PROVE h[d] = G(n)[d]
      OBVIOUS
    <3>1. d \in Seq(Byte) /\ Len(d) < Len(c) /\ Len(d) \in Nat
      BY CutLess
    <3> HIDE DEF d, n
    <3>2. h[d] = G(Len(d) + 1)[d]
      BY <3>1
    <3>3. d \in Shorter(Len(d) + 1) \cap Shorter(n)
      BY <3>1 DEF Shorter, n
    <3>4. IsCut(G(Len(d) + 1), Len(d) + 1) /\ IsCut(G(n), n) /\ Len(d) + 1 \in Nat
      BY <1>2, <2>1, <3>1
    <3> HIDE DEF G
    <3> QED
      BY <2>1, <3>2, <3>3, <3>4, CutUnique
  <2> HIDE DEF n, G, h
  <2>4. G(n)[c] = CutStep(G(n), c)
    BY <1>2, <2>1, CutAt
  <2>5. CutStep(h, c) = CutStep(G(n), c)
    BY <2>3, SameStep
  <2> QED
    BY <2>2, <2>4, <2>5
<1>4. h = [c \in Seq(Byte) |-> h[c]]
  OBVIOUS
<1> HIDE DEF h
<1>5. h = [c \in Seq(Byte) |-> CutStep(h, c)]
  BY <1>3, <1>4
<1>6. all = [c \in Seq(Byte) |-> CutStep(all, c)]
  BY <1>5
<1> HIDE DEF all
<1>7. all[b] = CutStep(all, b)
  <2> DEFINE g == [c \in Seq(Byte) |-> CutStep(all, c)]
  <2>1. g[b] = CutStep(all, b)
    OBVIOUS
  <2>2. all = g
    BY <1>6
  <2> HIDE DEF g
  <2> QED
    BY <2>1, <2>2
<1> QED
  BY <1>1, <1>7, CutLess DEF CutStep

-----------------------------------------------------------------------------
\* Appending bytes is associative.
LEMMA ByteAssoc == \A u, v, w \in Seq(Byte) : (u \o v) \o w = u \o (v \o w)
BY ConcatAssociative

\* And for messages.
LEMMA MessageAssoc == \A u, v, w \in Seq(Message) : (u \o v) \o w = u \o (v \o w)
BY ConcatAssociative

\* From b, whose stream goes on with x, m is taken, and t is left of the stream.
FirstTaken(m, t, b, x) ==
  /\ SubSeq(b, 1, CutSize(b)) = Bytes(m)
  /\ CutRest(b) \in Seq(Byte) /\ CutRest(b) \o x = t
  /\ b = Bytes(m) \o CutRest(b)

\* The first frame of a stream that starts with m is m, and what is left is the
\* rest of the stream.
LEMMA FirstFrame ==
  ASSUME NEW m \in Message, NEW t \in Seq(Byte), NEW b \in Seq(Byte), NEW x \in Seq(Byte),
         b \o x = Bytes(m) \o t, Complete(b)
  PROVE  FirstTaken(m, t, b, x)
<1> DEFINE q == FrameSize(m)
           d == SubSeq(b, q + 1, Len(b))
<1>1. /\ q \in Nat \ {0} /\ Bytes(m) \in Seq(Byte) /\ Len(Bytes(m)) = q
      /\ \A i \in 1 .. q : Bytes(m)[i].of = m
  BY BytesType, SizeAssumption
<1> HIDE DEF q
<1>2. Len(b) \in Nat \ {0} /\ CutSize(b) = FrameSize(b[1].of) /\ CutSize(b) \in 1 .. Len(b)
  BY CutLess
<1>3. b[1] = Bytes(m)[1]
  <2>1. (b \o x)[1] = b[1]
    BY <1>2, ConcatProperties
  <2>2. (Bytes(m) \o t)[1] = Bytes(m)[1]
    BY <1>1, ConcatProperties
  <2> QED
    BY <2>1, <2>2
<1>4. CutSize(b) = q /\ q <= Len(b)
  BY <1>1, <1>2, <1>3 DEF q
<1>5. /\ SubSeq(b, 1, q) \in Seq(Byte) /\ Len(SubSeq(b, 1, q)) = q
      /\ \A i \in 1 .. q : SubSeq(b, 1, q)[i] = b[i]
      /\ d \in Seq(Byte)
  BY <1>1, <1>2, <1>4, SubSeqProperties
<1>6. SubSeq(b, 1, q) = Bytes(m)
  <2>1. \A i \in 1 .. q : b[i] = Bytes(m)[i]
    <3> SUFFICES ASSUME NEW i \in 1 .. q PROVE b[i] = Bytes(m)[i]
      OBVIOUS
    <3>1. (b \o x)[i] = b[i]
      BY <1>1, <1>2, <1>4, ConcatProperties
    <3>2. (Bytes(m) \o t)[i] = Bytes(m)[i]
      BY <1>1, ConcatProperties
    <3> QED
      BY <3>1, <3>2
  <2> QED
    BY <1>1, <1>5, <2>1, SeqEqual
<1>7. b = Bytes(m) \o d
  <2>1. SubSeq(b, 1, q) \o SubSeq(b, q + 1, Len(b)) = SubSeq(b, 1, Len(b))
    BY <1>1, <1>2, <1>4, ConcatAdjacentSubSeq
  <2> QED
    BY <1>6, <2>1, SubSeqFull
<1> HIDE DEF d
<1>8. Bytes(m) \o (d \o x) = Bytes(m) \o t
  <2>1. (Bytes(m) \o d) \o x = Bytes(m) \o (d \o x)
    <3>1. Bytes(m) \in Seq(Byte) /\ d \in Seq(Byte) /\ x \in Seq(Byte)
      BY <1>1, <1>5
    <3> QED
      BY <3>1, ConcatAssociative
  <2> QED
    BY <1>7, <2>1
<1>9. d \o x \in Seq(Byte)
  BY <1>5, ConcatProperties
<1>10. d \o x = t
  BY <1>1, <1>8, <1>9, ConcatSimplifications
<1> QED
  BY <1>4, <1>5, <1>6, <1>7, <1>10 DEF d, CutRest, FirstTaken

\* The first messages of ms, as bytes.
FirstBytes(ms, k) == [i \in 1 .. k |-> Bytes(ms[i])]

\* What FirstBytes is for one message more in front.
LEMMA FirstBytesNext ==
  ASSUME NEW ms \in Seq(Message), ms # <<>>, NEW k \in 0 .. Len(Tail(ms))
  PROVE  /\ FirstBytes(ms, k + 1) = <<Bytes(ms[1])>> \o FirstBytes(Tail(ms), k)
         /\ AllBytes(SubSeq(ms, 1, k + 1))
              = Bytes(ms[1]) \o AllBytes(SubSeq(Tail(ms), 1, k))
<1>1. /\ Len(ms) \in Nat /\ Len(Tail(ms)) = Len(ms) - 1 /\ k \in Nat /\ k + 1 <= Len(ms)
      /\ Tail(ms) \in Seq(Message)
      /\ \A i \in 1 .. Len(ms) : ms[i] \in Message
      /\ \A i \in 1 .. Len(ms) - 1 : Tail(ms)[i] = ms[i + 1]
  OBVIOUS
<1>2. FirstBytes(Tail(ms), k) \in Seq(Seq(Byte)) /\ Len(FirstBytes(Tail(ms), k)) = k
  <2>1. FirstBytes(Tail(ms), k) \in [1 .. k -> Seq(Byte)]
    BY <1>1, BytesType DEF FirstBytes
  <2>2. \A f \in [1 .. k -> Seq(Byte)] : f \in Seq(Seq(Byte)) /\ Len(f) = k
    BY <1>1
  <2> QED
    BY <2>1, <2>2
<1>3. FirstBytes(ms, k + 1) \in Seq(Seq(Byte)) /\ Len(FirstBytes(ms, k + 1)) = k + 1
  <2>1. FirstBytes(ms, k + 1) \in [1 .. k + 1 -> Seq(Byte)]
    BY <1>1, BytesType DEF FirstBytes
  <2>2. \A f \in [1 .. k + 1 -> Seq(Byte)] : f \in Seq(Seq(Byte)) /\ Len(f) = k + 1
    BY <1>1
  <2> QED
    BY <2>1, <2>2
<1>4. FirstBytes(ms, k + 1) = <<Bytes(ms[1])>> \o FirstBytes(Tail(ms), k)
  <2> DEFINE u == <<Bytes(ms[1])>>
             v == FirstBytes(Tail(ms), k)
  <2>1. u \in Seq(Seq(Byte)) /\ Len(u) = 1 /\ u[1] = Bytes(ms[1])
    BY <1>1, BytesType
  <2>2. /\ u \o v \in Seq(Seq(Byte)) /\ Len(u \o v) = k + 1
        /\ \A i \in 1 .. k + 1 : (u \o v)[i] = IF i <= 1 THEN u[i] ELSE v[i - 1]
    <3>1. v \in Seq(Seq(Byte)) /\ Len(v) = k
      BY <1>2
    <3> HIDE DEF u, v
    <3> QED
      <4>1. Len(u) + Len(v) = k + 1 /\ k \in Nat
        BY <1>1, <2>1, <3>1
      <4>2. /\ u \o v \in Seq(Seq(Byte)) /\ Len(u \o v) = Len(u) + Len(v)
            /\ \A i \in 1 .. Len(u) + Len(v) :
                 (u \o v)[i] = IF i <= Len(u) THEN u[i] ELSE v[i - Len(u)]
        BY <2>1, <3>1, ConcatProperties
      <4> QED
        BY <2>1, <4>1, <4>2
  <2>3. \A i \in 1 .. k + 1 : FirstBytes(ms, k + 1)[i] = (u \o v)[i]
    <3> SUFFICES ASSUME NEW i \in 1 .. k + 1 PROVE FirstBytes(ms, k + 1)[i] = (u \o v)[i]
      OBVIOUS
    <3>1. FirstBytes(ms, k + 1)[i] = Bytes(ms[i])
      BY DEF FirstBytes
    <3>2. CASE i = 1
      BY <2>1, <2>2, <3>1, <3>2
    <3>3. CASE i # 1
      <4>1. v[i - 1] = Bytes(Tail(ms)[i - 1])
        BY <1>1, <3>3 DEF FirstBytes
      <4>2. Tail(ms)[i - 1] = ms[i - 1 + 1] /\ i - 1 + 1 = i /\ ~ (i <= 1)
        BY <1>1, <3>3
      <4> HIDE DEF u, v
      <4> QED
        BY <2>2, <3>1, <4>1, <4>2
    <3> QED
      BY <3>2, <3>3
  <2> HIDE DEF u, v
  <2>4. FirstBytes(ms, k + 1) = u \o v
    BY <1>3, <2>2, <2>3, SeqEqual
  <2> QED
    BY <2>4 DEF u, v
<1>5. AllBytes(SubSeq(ms, 1, k + 1)) = Bytes(ms[1]) \o AllBytes(SubSeq(Tail(ms), 1, k))
  <2> DEFINE w == SubSeq(ms, 1, k + 1)
  <2>1. /\ w \in Seq(Message) /\ Len(w) = k + 1 /\ w[1] = ms[1] /\ w # <<>>
        /\ \A i \in 1 .. k + 1 : w[i] = ms[i]
    BY <1>1
  <2> HIDE DEF w
  <2>2. Tail(w) \in Seq(Message) /\ Len(Tail(w)) = k /\ \A i \in 1 .. k : Tail(w)[i] = w[i + 1]
    BY <1>1, <2>1, HeadTailProperties
  <2>3. /\ SubSeq(Tail(ms), 1, k) \in Seq(Message) /\ Len(SubSeq(Tail(ms), 1, k)) = k
        /\ \A i \in 1 .. k : SubSeq(Tail(ms), 1, k)[i] = Tail(ms)[i]
    BY <1>1
  <2>4. \A i \in 1 .. k : Tail(w)[i] = SubSeq(Tail(ms), 1, k)[i]
    BY <1>1, <2>1, <2>2, <2>3
  <2>5. Tail(w) = SubSeq(Tail(ms), 1, k)
    BY <2>2, <2>3, <2>4, SeqEqual
  <2> QED
    BY <2>1, <2>5, AllBytesFirst DEF w
<1> QED
  BY <1>4, <1>5

\* From c, the first of the messages ns are taken.
TakesWhole(ns, c) ==
  \E k \in 0 .. Len(ns), r \in Seq(Byte) :
    Frames(c) = FirstBytes(ns, k) /\ c = AllBytes(SubSeq(ns, 1, k)) \o r

\* One message more in front.
LEMMA TakesNext ==
  ASSUME NEW ns \in Seq(Message), ns # <<>>, NEW c \in Seq(Byte), NEW d \in Seq(Byte),
         c = Bytes(ns[1]) \o d, Frames(c) = <<Bytes(ns[1])>> \o Frames(d),
         TakesWhole(Tail(ns), d)
  PROVE  TakesWhole(ns, c)
<1>1. PICK k \in 0 .. Len(Tail(ns)), r \in Seq(Byte) :
        Frames(d) = FirstBytes(Tail(ns), k) /\ d = AllBytes(SubSeq(Tail(ns), 1, k)) \o r
  BY DEF TakesWhole
<1> DEFINE w == AllBytes(SubSeq(Tail(ns), 1, k))
           y == Bytes(ns[1])
<1>2. ns[1] \in Message /\ Tail(ns) \in Seq(Message) /\ k + 1 \in 0 .. Len(ns)
  BY <1>1
<1>3. w \in Seq(Byte) /\ y \in Seq(Byte)
  <2>1. SubSeq(Tail(ns), 1, k) \in Seq(Message)
    BY <1>2
  <2> QED
    BY <1>2, <2>1, AllBytesType, BytesType
<1>4. /\ FirstBytes(ns, k + 1) = <<y>> \o FirstBytes(Tail(ns), k)
      /\ AllBytes(SubSeq(ns, 1, k + 1)) = y \o w
  BY FirstBytesNext
<1>5. Frames(c) = FirstBytes(ns, k + 1)
  BY <1>1, <1>4
<1>6. c = y \o (w \o r)
  BY <1>1
<1> HIDE DEF w, y
<1>7. (y \o w) \o r = y \o (w \o r)
  BY <1>3, ByteAssoc, SMTT(30)
<1>8. c = AllBytes(SubSeq(ns, 1, k + 1)) \o r
  BY <1>4, <1>6, <1>7
<1> QED
  BY <1>2, <1>5, <1>8 DEF TakesWhole

\* Nothing is taken as long as the first message is not complete.
LEMMA TakesNone ==
  ASSUME NEW ns \in Seq(Message), NEW c \in Seq(Byte), ~ Complete(c)
  PROVE  TakesWhole(ns, c)
<1>1. Frames(c) = <<>>
  BY FramesStep
<1>2. FirstBytes(ns, 0) = <<>>
  BY DEF FirstBytes
<1>3. SubSeq(ns, 1, 0) = <<>>
  BY SubSeqEmpty
<1>4. c = <<>> \o c
  BY ConcatEmptySeq
<1>5. 0 \in 0 .. Len(ns)
  OBVIOUS
<1> QED
  BY <1>1, <1>2, <1>3, <1>4, <1>5, NoBytes DEF TakesWhole

\* So it is with the streams of j messages, whatever is still to come.
StreamsTaken(j) ==
  \A ns \in Seq(Message), c, x \in Seq(Byte) :
    Len(ns) = j /\ c \o x = AllBytes(ns) => TakesWhole(ns, c)

\* The streams of no message.
LEMMA StreamsTakenNone == StreamsTaken(0)
<1> SUFFICES ASSUME NEW ns \in Seq(Message), NEW c \in Seq(Byte), NEW x \in Seq(Byte),
                    Len(ns) = 0, c \o x = AllBytes(ns)
             PROVE  TakesWhole(ns, c)
  BY DEF StreamsTaken
<1>1. ns = <<>>
  OBVIOUS
<1>2. c = <<>>
  BY <1>1, NoBytes, ConcatEqualIffEmpty
<1>3. ~ Complete(c)
  BY <1>2, SizeAssumption DEF Complete
<1> QED
  BY <1>3, TakesNone

\* The streams of one message more.
LEMMA StreamsTakenNext ==
  ASSUME NEW j \in Nat, StreamsTaken(j)
  PROVE  StreamsTaken(j + 1)
<1> SUFFICES ASSUME NEW ns \in Seq(Message), NEW c \in Seq(Byte), NEW x \in Seq(Byte),
                    Len(ns) = j + 1, c \o x = AllBytes(ns)
             PROVE  TakesWhole(ns, c)
  BY DEF StreamsTaken
<1>1. CASE ~ Complete(c)
  BY <1>1, TakesNone
<1>2. CASE Complete(c)
  <2> DEFINE d == CutRest(c)
             m == ns[1]
             t == AllBytes(Tail(ns))
  <2>1. /\ ns # <<>> /\ m \in Message /\ Tail(ns) \in Seq(Message)
        /\ Len(Tail(ns)) = j
    OBVIOUS
  <2>2. AllBytes(ns) = Bytes(m) \o t /\ t \in Seq(Byte)
    BY <2>1, AllBytesFirst, AllBytesType
  <2>3. c \o x = Bytes(m) \o t /\ m \in Message /\ t \in Seq(Byte)
    BY <2>1, <2>2
  <2> HIDE DEF m, t
  <2>4. /\ SubSeq(c, 1, CutSize(c)) = Bytes(m) /\ d \in Seq(Byte)
        /\ d \o x = t /\ c = Bytes(m) \o d
    <3>1. FirstTaken(m, t, c, x)
      BY <1>2, <2>3, FirstFrame
    <3> QED
      BY <3>1 DEF FirstTaken
  <2>5. Frames(c) = <<Bytes(m)>> \o Frames(d)
    BY <1>2, <2>4, FramesStep
  <2> HIDE DEF d
  <2>6. TakesWhole(Tail(ns), d)
    BY <2>1, <2>4 DEF StreamsTaken, t
  <2> QED
    BY <2>1, <2>4, <2>5, <2>6, TakesNext DEF m
<1> QED
  BY <1>1, <1>2

\* Wherever the stream of some messages was cut, Frames takes the messages that
\* are there completely, and no byte of the next.
LEMMA FramesOfStream ==
  ASSUME NEW ms \in Seq(Message), NEW b \in Seq(Byte), NEW x \in Seq(Byte),
         b \o x = AllBytes(ms)
  PROVE  TakesWhole(ms, b)
<1> DEFINE S == {j \in Nat : StreamsTaken(j)}
<1>1. 0 \in S
  BY StreamsTakenNone
<1>2. \A j \in Nat : j \in S => j + 1 \in S
  BY StreamsTakenNext
<1> HIDE DEF S
<1>3. \A j \in Nat : j \in S
  BY <1>1, <1>2, SetInduction
<1>4. StreamsTaken(Len(ms))
  BY <1>3 DEF S
<1> QED
  BY <1>4 DEF StreamsTaken

-----------------------------------------------------------------------------
\* What a read handler takes from the stream of some messages: the first ones,
\* each with its bytes, and the rest is the stream of the others.
LEMMA ReadTakes ==
  ASSUME NEW ms \in Seq(Message), NEW b \in Seq(Byte), NEW x \in Seq(Byte),
         b \o x = AllBytes(ms)
  PROVE  \E k \in 0 .. Len(ms) :
           /\ Len(Frames(b)) = k
           /\ [i \in DOMAIN Frames(b) |-> Parsed(Frames(b)[i])] = SubSeq(ms, 1, k)
           /\ Rest(b) \in Seq(Byte)
           /\ Rest(b) \o x = AllBytes(SubSeq(ms, k + 1, Len(ms)))
<1>1. PICK k \in 0 .. Len(ms), r \in Seq(Byte) :
        Frames(b) = FirstBytes(ms, k) /\ b = AllBytes(SubSeq(ms, 1, k)) \o r
  BY FramesOfStream DEF TakesWhole
<1> DEFINE us == SubSeq(ms, 1, k)
           vs == SubSeq(ms, k + 1, Len(ms))
<1>2. /\ us \in Seq(Message) /\ Len(us) = k /\ \A i \in 1 .. k : us[i] = ms[i]
      /\ vs \in Seq(Message) /\ k \in Nat /\ us \o vs = ms
      /\ \A i \in 1 .. k : ms[i] \in Message
  <2>1. us \o vs = SubSeq(ms, 1, Len(ms)) /\ SubSeq(ms, 1, Len(ms)) = ms
    <3>1. /\ 1 \in 1 .. Len(ms) + 1 /\ k \in 1 - 1 .. Len(ms)
          /\ Len(ms) \in k .. Len(ms)
      BY <1>1
    <3>2. SubSeq(ms, 1, k) \o SubSeq(ms, k + 1, Len(ms)) = SubSeq(ms, 1, Len(ms))
      BY <3>1, ConcatAdjacentSubSeq
    <3> QED
      BY <3>2, SubSeqFull
  <2>2. /\ us \in Seq(Message) /\ Len(us) = k /\ \A i \in 1 .. k : us[i] = ms[i]
        /\ k \in Nat /\ \A i \in 1 .. k : ms[i] \in Message
    BY <1>1
  <2>3. vs \in Seq(Message)
    BY <1>1
  <2> QED
    BY <2>1, <2>2, <2>3
<1> HIDE DEF us, vs
<1>3. DOMAIN Frames(b) = 1 .. k /\ \A i \in 1 .. k : Frames(b)[i] = Bytes(ms[i])
  BY <1>1 DEF FirstBytes
<1>4. Len(Frames(b)) = k
  BY <1>1, <1>2 DEF FirstBytes
<1>5. [i \in DOMAIN Frames(b) |-> Parsed(Frames(b)[i])] = us
  <2>1. \A i \in 1 .. k : Parsed(Frames(b)[i]) = us[i]
    <3> SUFFICES ASSUME NEW i \in 1 .. k PROVE Parsed(Frames(b)[i]) = us[i]
      OBVIOUS
    <3> DEFINE m == ms[i]
    <3>1. m \in Message /\ us[i] = m /\ Frames(b)[i] = Bytes(m)
      BY <1>2, <1>3
    <3> HIDE DEF m
    <3>2. FrameSize(m) > 0 /\ \A j \in 1 .. FrameSize(m) : Bytes(m)[j].of = m
      BY <3>1, BytesType, SizeAssumption
    <3>3. 1 \in 1 .. FrameSize(m)
      BY <3>1, <3>2, BytesType
    <3>4. Bytes(m)[1].of = m
      BY <3>2, <3>3
    <3>5. Parsed(Bytes(m)) = m
      BY <3>4 DEF Parsed
    <3> QED
      BY <3>1, <3>5
  <2>2. us = [i \in 1 .. k |-> us[i]]
    BY <1>2
  <2> QED
    BY <1>3, <2>1, <2>2
<1>6. FlattenSeq(Frames(b)) = AllBytes(us)
  <2>1. DOMAIN us = 1 .. k
    BY <1>2
  <2>2. [i \in DOMAIN us |-> Bytes(us[i])] = FirstBytes(ms, k)
    BY <1>2, <2>1 DEF FirstBytes
  <2> QED
    BY <1>1, <2>2 DEF AllBytes
<1> DEFINE w == AllBytes(us)
<1>7. w \in Seq(Byte) /\ b = w \o r /\ AllBytes(vs) \in Seq(Byte)
  BY <1>1, <1>2, AllBytesType DEF us
<1>8. AllBytes(ms) = w \o AllBytes(vs)
  BY <1>2, AllBytesConcat
<1> HIDE DEF w
<1>9. Rest(b) = r
  <2>1. Rest(b) = SubSeq(b, Len(w) + 1, Len(b))
    BY <1>6 DEF Rest, w
  <2>2. /\ Len(w) \in Nat /\ Len(r) \in Nat /\ Len(b) = Len(w) + Len(r)
        /\ \A i \in 1 .. Len(w) + Len(r) : b[i] = IF i <= Len(w) THEN w[i] ELSE r[i - Len(w)]
    BY <1>7, ConcatProperties, LenProperties
  <2>3. /\ Rest(b) \in Seq(Byte) /\ Len(Rest(b)) = Len(r)
        /\ \A i \in 1 .. Len(r) : Rest(b)[i] = b[Len(w) + i]
    BY <2>1, <2>2, SubSeqProperties
  <2>4. \A i \in 1 .. Len(r) : b[Len(w) + i] = r[i]
    <3> SUFFICES ASSUME NEW i \in 1 .. Len(r) PROVE b[Len(w) + i] = r[i]
      OBVIOUS
    <3>1. /\ Len(w) + i \in 1 .. Len(w) + Len(r) /\ ~ (Len(w) + i <= Len(w))
          /\ Len(w) + i - Len(w) = i
      BY <2>2
    <3> QED
      BY <2>2, <3>1
  <2> QED
    BY <2>3, <2>4, SeqEqual
<1>10. r \o x = AllBytes(vs)
  <2>1. (w \o r) \o x = w \o (r \o x)
    BY <1>7, ByteAssoc, SMTT(30)
  <2>2. w \o (r \o x) = w \o AllBytes(vs)
    BY <1>7, <1>8, <2>1
  <2>3. r \o x \in Seq(Byte)
    BY ConcatProperties
  <2> QED
    BY <1>7, <2>2, <2>3, ConcatSimplifications
<1> QED
  BY <1>4, <1>5, <1>9, <1>10 DEF us, vs

-----------------------------------------------------------------------------
\* The control state has its types.
ControlTypeOK ==
  /\ proc \in [End -> {"up", "dead", "write", "pollset"}]
  /\ wantout \in [End -> BOOLEAN] /\ inset \in [End -> BOOLEAN] /\ ps \in [End -> BOOLEAN]
  /\ round \in [End -> SUBSET {"IN", "OUT"}]
  /\ caller \in {"idle", "checked", "removed"}
  /\ DOMAIN obuf = End

\* The pollset has the descriptor of a job that is not removed, but for the time
\* in which update_job has taken it out; and a send buffer with something in it
\* is polled for, unless a pool thread is about to see to it.
JobInv ==
  /\ ControlTypeOK
  /\ \A e \in End : Up(e) =>
       /\ inset[e] = (ps[e] /\ ~ (e = "cli" /\ caller = "removed"))
       /\ obuf[e] # <<>> /\ ps[e] /\ (e = "cli" => caller = "idle") => wantout[e]
  /\ caller = "removed" => ps["cli"]

\* Initially nothing is sent and both descriptors are in the pollsets.
LEMMA JobInit == Init => JobInv
<1> SUFFICES ASSUME Init PROVE JobInv
  OBVIOUS
<1>1. ControlTypeOK
  BY DEF Init, ControlTypeOK
<1>2. ASSUME NEW e \in End
      PROVE  inset[e] /\ ps[e] /\ obuf[e] = <<>> /\ caller = "idle"
  BY DEF Init
<1> QED
  BY <1>1, <1>2 DEF JobInv, ControlTypeOK, End

\* A dead process's control state is of no interest, the other's stays.
LEMMA JobGone ==
  ASSUME JobInv, NEW e \in End, NEW why \in {"dead", "write", "pollset"}, Gone(e, why),
         UNCHANGED <<wantout, inset, ps, caller>>, round' \in [End -> SUBSET {"IN", "OUT"}],
         DOMAIN obuf' = End, \A f \in End \ {e} : obuf'[f] = obuf[f]
  PROVE  JobInv'
BY DEF JobInv, ControlTypeOK, Up, Gone

\* A call leaves the output to the poll thread only if it is polled for, or the
\* job is gone.
LEMMA JobCall == ASSUME JobInv, Call PROVE JobInv'
<1>1. PICK ms \in NewMessages("cli", 1) : Put("cli", ms)
  BY DEF Call
<1>2. DOMAIN obuf' = End /\ obuf'["srv"] = obuf["srv"]
  BY <1>1 DEF Put, JobInv, ControlTypeOK, End
<1>3. /\ caller = "idle" /\ UNCHANGED <<proc, wantout, inset, ps, round>>
      /\ caller' = IF ~ wantout["cli"] /\ ps["cli"] THEN "checked" ELSE "idle"
  BY DEF Call, jobVars
<1> QED
  BY <1>2, <1>3 DEF JobInv, ControlTypeOK, Up, End

\* update_job takes out what is there.
LEMMA JobCallRemove == ASSUME JobInv, CallRemove PROVE JobInv'
<1>1. CASE inset["cli"]
  BY <1>1 DEF CallRemove, JobInv, ControlTypeOK, Up, End
<1>2. CASE ~ inset["cli"]
  BY <1>2, JobGone DEF CallRemove, JobInv, ControlTypeOK, End
<1> QED
  BY <1>1, <1>2

\* It puts back what it took out, with the mode for output.
LEMMA JobCallAdd == ASSUME JobInv, CallAdd PROVE JobInv'
BY DEF CallAdd, JobInv, ControlTypeOK, Up, End

\* Polling changes no job.
LEMMA JobPoll == ASSUME JobInv, NEW e \in End, Poll(e) PROVE JobInv'
BY DEF Poll, Events, JobInv, ControlTypeOK, Up, End, jobVars

\* A read handler that sends sets the mode in the same step; a job is removed
\* only when the pollset has it.
LEMMA JobRead == ASSUME JobInv, NEW e \in End, Read(e) PROVE JobInv'
<1> DEFINE b == ibuf[e] \o net[Peer(e)]
<1>1. PICK ms \in Sends(e, Len(Frames(b))) :
        /\ Put(e, ms)
        /\ wantout' = [wantout EXCEPT ![e] = @ \/ (ms # <<>> /\ ps[e])]
  BY DEF Read
<1>2. /\ DOMAIN obuf' = End /\ \A f \in End \ {e} : obuf'[f] = obuf[f]
      /\ obuf'[e] = obuf[e] \o AllBytes(ms)
  BY <1>1 DEF Put, JobInv, ControlTypeOK
<1>3. obuf[e] = <<>> /\ ms = <<>> => obuf'[e] = <<>>
  BY <1>2, NoBytes
<1>4. /\ round' \in [End -> SUBSET {"IN", "OUT"}] /\ caller' = caller /\ Up(e)
      /\ wantout' \in [End -> BOOLEAN]
  BY <1>1 DEF Read, JobInv, ControlTypeOK
<1>5. CASE AtEnd(e) /\ ~ inset[e]
  <2>1. Gone(e, "pollset") /\ inset' = inset /\ ps' = ps
    BY <1>5 DEF Read
  <2>2. proc' = [proc EXCEPT ![e] = "pollset"]
    BY <2>1 DEF Gone
  <2>3. ASSUME NEW f \in End, Up(f)'
        PROVE  f # e /\ Up(f) /\ obuf'[f] = obuf[f] /\ wantout'[f] = wantout[f]
    <3>1. f # e /\ Up(f)
      BY <2>2, <2>3 DEF Up, JobInv, ControlTypeOK
    <3> QED
      BY <1>1, <1>2, <3>1 DEF JobInv, ControlTypeOK
  <2>4. ControlTypeOK'
    BY <1>2, <1>4, <2>1, <2>2 DEF JobInv, ControlTypeOK
  <2>5. ASSUME NEW f \in End, Up(f)'
        PROVE  /\ inset'[f] = (ps'[f] /\ ~ (f = "cli" /\ caller' = "removed"))
               /\ obuf'[f] # <<>> /\ ps'[f] /\ (f = "cli" => caller' = "idle")
                    => wantout'[f]
    BY <1>4, <2>1, <2>3, <2>5 DEF JobInv
  <2>6. caller' = "removed" => ps'["cli"]
    BY <1>4, <2>1 DEF JobInv
  <2> QED
    BY <2>4, <2>5, <2>6 DEF JobInv, Up
<1>6. CASE ~ (AtEnd(e) /\ ~ inset[e])
  <2>1. /\ inset' = [inset EXCEPT ![e] = @ /\ ~ AtEnd(e)]
        /\ ps' = [ps EXCEPT ![e] = @ /\ ~ AtEnd(e)]
        /\ proc' = proc
    BY <1>6 DEF Read
  <2>2. ASSUME NEW f \in End, Up(f)
        PROVE  inset'[f] = (ps'[f] /\ ~ (f = "cli" /\ caller = "removed"))
    BY <1>6, <2>1, <2>2 DEF JobInv, ControlTypeOK
  <2>3. ASSUME NEW f \in End, Up(f), obuf'[f] # <<>>, ps'[f],
               f = "cli" => caller = "idle"
        PROVE  wantout'[f]
    <3>1. ps[f]
      BY <2>1, <2>3 DEF JobInv, ControlTypeOK
    <3>2. CASE f # e
      BY <1>1, <1>2, <2>3, <3>1, <3>2 DEF JobInv, ControlTypeOK
    <3>3. CASE f = e
      BY <1>1, <1>3, <2>3, <3>1, <3>3 DEF JobInv, ControlTypeOK
    <3> QED
      BY <3>2, <3>3
  <2>4. caller = "removed" => ps'["cli"]
    BY <1>4, <1>6, <2>1 DEF JobInv, ControlTypeOK, End
  <2>5. ControlTypeOK'
    BY <1>2, <1>4, <2>1 DEF JobInv, ControlTypeOK
  <2> QED
    BY <1>4, <2>1, <2>2, <2>3, <2>4, <2>5 DEF JobInv, Up
<1> QED
  BY <1>5, <1>6

\* A write handler takes the mode away only when the buffer is empty.
LEMMA JobWrite == ASSUME JobInv, NEW e \in End, Write(e) PROVE JobInv'
<1>1. PICK rest : /\ obuf' = [obuf EXCEPT ![e] = rest]
                  /\ wantout' = [wantout EXCEPT ![e] = ModeAfterWrite(e, rest)]
  BY DEF Write
<1>2. UNCHANGED <<proc, inset, ps, caller>> /\ round' = [round EXCEPT ![e] = {}]
  BY DEF Write, Writing
<1> QED
  BY <1>1, <1>2 DEF ModeAfterWrite, JobInv, ControlTypeOK, Up

\* A write that fails ends the process or the job.
LEMMA JobWriteFails == ASSUME JobInv, NEW e \in End, WriteFails(e) PROVE JobInv'
<1>1. CASE e = "cli"
  BY <1>1, JobGone DEF WriteFails, Writing, JobInv, ControlTypeOK
<1>2. CASE e # "cli"
  <2>1. /\ inset' = [inset EXCEPT ![e] = FALSE] /\ ps' = [ps EXCEPT ![e] = FALSE]
        /\ round' = [round EXCEPT ![e] = {}]
        /\ UNCHANGED <<proc, obuf, wantout, caller>>
    BY <1>2 DEF WriteFails, Writing
  <2>2. ControlTypeOK'
    BY <2>1 DEF JobInv, ControlTypeOK
  <2> QED
    BY <1>2, <2>1, <2>2 DEF JobInv, ControlTypeOK, Up, End
<1> QED
  BY <1>1, <1>2

\* Every step keeps JobInv.
LEMMA JobStep == JobInv /\ [Next]_vars => JobInv'
<1> SUFFICES ASSUME JobInv, [Next]_vars PROVE JobInv'
  OBVIOUS
<1>1. CASE Call \/ CallStep
  BY <1>1, JobCall, JobCallRemove, JobCallAdd DEF CallStep
<1>2. ASSUME NEW e \in End, Die(e) PROVE JobInv'
  BY <1>2, JobGone DEF Die, jobVars, JobInv, ControlTypeOK
<1>3. CASE \E e \in End : Poll(e) \/ Read(e) \/ Write(e) \/ WriteFails(e) \/ Die(e)
  BY <1>2, <1>3, JobPoll, JobRead, JobWrite, JobWriteFails
<1>4. CASE UNCHANGED vars
  BY <1>4 DEF vars, jobVars, JobInv, ControlTypeOK, Up
<1> QED
  BY <1>1, <1>3, <1>4 DEF Next

\* Output never waits without being polled for, whichever of callers, write
\* handler and removal came last.
THEOREM OutputIsAlwaysPolled == Spec => []OutputIsPolled
<1>1. JobInv => OutputIsPolled
  BY DEF JobInv, OutputIsPolled, End
<1> QED
  BY <1>1, JobInit, JobStep, PTL DEF Spec

-----------------------------------------------------------------------------
\* The data state has its types.
DataTypeOK ==
  /\ sent \in [End -> Seq(Message)] /\ got \in [End -> Seq(Message)]
  /\ obuf \in [End -> Seq(Byte)] /\ ibuf \in [End -> Seq(Byte)]
  /\ net \in [End -> Seq(Byte)] /\ \A e \in End : Len(net[e]) <= NetCap

\* Neither process ended.
BothUp == Up("cli") /\ Up("srv")

\* The messages of e that were not handed over are what is in the input buffer,
\* in the network and still to come, after one another; while both processes
\* live, what is still to come is in the output buffer.
Stream(e) ==
  \E ms \in Seq(Message), x \in Seq(Byte) :
    /\ sent[e] = got[Peer(e)] \o ms
    /\ (ibuf[Peer(e)] \o net[e]) \o x = AllBytes(ms)
    /\ BothUp => x = obuf[e]

StreamInv == DataTypeOK /\ \A e \in End : Stream(e)

\* The types at one end.
LEMMA DataTypes ==
  ASSUME DataTypeOK, NEW e \in End
  PROVE  /\ sent[e] \in Seq(Message) /\ got[e] \in Seq(Message)
         /\ obuf[e] \in Seq(Byte) /\ ibuf[e] \in Seq(Byte) /\ net[e] \in Seq(Byte)
         /\ Len(net[e]) \in Nat /\ Len(obuf[e]) \in Nat /\ Len(net[e]) <= NetCap
         /\ Peer(e) \in End /\ Peer(Peer(e)) = e /\ Peer(e) # e
<1>1. net[e] \in Seq(Byte) /\ obuf[e] \in Seq(Byte)
  BY DEF DataTypeOK
<1>2. Len(net[e]) \in Nat /\ Len(obuf[e]) \in Nat
  BY <1>1
<1>3. Peer(e) \in End /\ Peer(Peer(e)) = e /\ Peer(e) # e
  BY DEF Peer, End
<1> QED
  BY <1>1, <1>2, <1>3 DEF DataTypeOK

\* A sequence of bytes in two parts.
LEMMA ByteSplit ==
  ASSUME NEW c \in Seq(Byte), NEW k \in 0 .. Len(c)
  PROVE  /\ SubSeq(c, 1, k) \in Seq(Byte) /\ SubSeq(c, k + 1, Len(c)) \in Seq(Byte)
         /\ c = SubSeq(c, 1, k) \o SubSeq(c, k + 1, Len(c))
         /\ Len(SubSeq(c, 1, k)) = k
         /\ k = Len(c) => SubSeq(c, 1, k) = c /\ SubSeq(c, k + 1, Len(c)) = <<>>
<1>1. Len(c) \in Nat /\ k \in Nat /\ k <= Len(c)
  OBVIOUS
<1>2. /\ 1 \in 1 .. Len(c) + 1 /\ k \in 1 - 1 .. Len(c) /\ Len(c) \in k .. Len(c)
  BY <1>1
<1>3. SubSeq(c, 1, k) \o SubSeq(c, k + 1, Len(c)) = SubSeq(c, 1, Len(c))
  BY <1>2, ConcatAdjacentSubSeq
<1>4. SubSeq(c, 1, Len(c)) = c
  BY SubSeqFull
<1>5. k = Len(c) => SubSeq(c, k + 1, Len(c)) = <<>>
  BY <1>1, SubSeqEmpty
<1>6. /\ SubSeq(c, 1, k) \in Seq(Byte) /\ SubSeq(c, k + 1, Len(c)) \in Seq(Byte)
      /\ Len(SubSeq(c, 1, k)) = k
  BY <1>1, SubSeqProperties
<1> QED
  BY <1>3, <1>4, <1>5, <1>6

\* Messages that are sent come after all others, and of the network only the
\* end can be lost, when a process is gone.
LEMMA StreamSends ==
  ASSUME DataTypeOK, NEW e \in End, Stream(e), NEW ns \in Seq(Message),
         sent'[e] = sent[e] \o ns,
         got'[Peer(e)] = got[Peer(e)], ibuf'[Peer(e)] = ibuf[Peer(e)],
         NEW k \in 0 .. Len(net[e]), net'[e] = SubSeq(net[e], 1, k),
         BothUp' => /\ BothUp /\ k = Len(net[e])
                    /\ obuf'[e] = obuf[e] \o AllBytes(ns)
  PROVE  Stream(e)'
<1>1. PICK ms \in Seq(Message), x \in Seq(Byte) :
        /\ sent[e] = got[Peer(e)] \o ms
        /\ (ibuf[Peer(e)] \o net[e]) \o x = AllBytes(ms)
        /\ BothUp => x = obuf[e]
  BY DEF Stream
<1> DEFINE i == ibuf[Peer(e)]
           g == got[Peer(e)]
           n == net[e]
           n1 == SubSeq(n, 1, k)
           n2 == SubSeq(n, k + 1, Len(n))
           y == AllBytes(ns)
<1>2. /\ i \in Seq(Byte) /\ n \in Seq(Byte) /\ g \in Seq(Message)
      /\ n1 \in Seq(Byte) /\ n2 \in Seq(Byte) /\ n = n1 \o n2
      /\ k = Len(n) => n2 = <<>>
      /\ y \in Seq(Byte)
  BY DataTypes, ByteSplit, AllBytesType
<1> HIDE DEF i, g, n, n1, n2, y
<1>3. g \o (ms \o ns) = sent'[e] /\ ms \o ns \in Seq(Message)
  <2>1. (g \o ms) \o ns = g \o (ms \o ns)
    BY <1>2, MessageAssoc, Zenon
  <2> QED
    BY <1>1, <2>1, ConcatProperties DEF g
<1>4. (i \o n1) \o ((n2 \o x) \o y) = AllBytes(ms \o ns)
  <2>1. /\ i \o n1 \in Seq(Byte) /\ n1 \o n2 \in Seq(Byte) /\ n2 \o x \in Seq(Byte)
    BY <1>2, ConcatProperties
  <2>2. ((i \o n1) \o (n2 \o x)) \o y = (i \o n1) \o ((n2 \o x) \o y)
    <3> DEFINE p == i \o n1
               q == n2 \o x
    <3>1. p \in Seq(Byte) /\ q \in Seq(Byte) /\ y \in Seq(Byte)
      BY <1>2, <2>1
    <3> HIDE DEF p, q
    <3>2. (p \o q) \o y = p \o (q \o y)
      BY <3>1, ByteAssoc, Zenon
    <3> QED
      BY <3>2 DEF p, q
  <2>3. ((i \o n1) \o n2) \o x = (i \o n1) \o (n2 \o x)
    <3> DEFINE p == i \o n1
    <3>1. p \in Seq(Byte)
      BY <2>1
    <3> HIDE DEF p
    <3>2. (p \o n2) \o x = p \o (n2 \o x)
      BY <1>2, <3>1, ByteAssoc, Zenon
    <3> QED
      BY <3>2 DEF p
  <2>4. (i \o n1) \o n2 = i \o (n1 \o n2)
    <3>1. i \in Seq(Byte) /\ n1 \in Seq(Byte) /\ n2 \in Seq(Byte)
      BY <1>2, Zenon
    <3> QED
      BY <3>1, ByteAssoc, Zenon
  <2>5. (i \o n) \o x = (i \o n1) \o (n2 \o x)
    <3>1. n = n1 \o n2
      BY <1>2, Zenon
    <3>2. i \o n = (i \o n1) \o n2
      BY <2>4, <3>1, Zenon
    <3> QED
      BY <2>3, <3>2, Zenon
  <2>6. AllBytes(ms) \o y = (i \o n1) \o ((n2 \o x) \o y)
    <3>1. (i \o n) \o x = AllBytes(ms)
      BY <1>1, Zenon DEF i, n
    <3> QED
      BY <2>2, <2>5, <3>1, Zenon
  <2> QED
    BY <2>6, AllBytesConcat DEF y
<1>5. (n2 \o x) \o y \in Seq(Byte)
  <2>1. n2 \o x \in Seq(Byte)
    BY <1>2, ConcatProperties
  <2> QED
    BY <1>2, <2>1, ConcatProperties
<1>6. BothUp' => (n2 \o x) \o y = obuf'[e]
  <2> SUFFICES ASSUME BothUp' PROVE (n2 \o x) \o y = obuf'[e]
    OBVIOUS
  <2>1. n2 = <<>> /\ x = obuf[e] /\ obuf'[e] = obuf[e] \o y
    BY <1>1, <1>2 DEF n, y
  <2>2. <<>> \o x = x
    BY ConcatEmptySeq
  <2> QED
    BY <2>1, <2>2
<1>7. sent'[e] = got'[Peer(e)] \o (ms \o ns)
  BY <1>3 DEF g
<1>8. (ibuf'[Peer(e)] \o net'[e]) \o ((n2 \o x) \o y) = AllBytes(ms \o ns)
  BY <1>4 DEF i, n1, n
<1> QED
  BY <1>3, <1>5, <1>6, <1>7, <1>8 DEF Stream

\* The same without a message.
LEMMA StreamCut ==
  ASSUME DataTypeOK, NEW e \in End, Stream(e),
         sent'[e] = sent[e],
         got'[Peer(e)] = got[Peer(e)], ibuf'[Peer(e)] = ibuf[Peer(e)],
         NEW k \in 0 .. Len(net[e]), net'[e] = SubSeq(net[e], 1, k),
         BothUp' => BothUp /\ k = Len(net[e]) /\ obuf'[e] = obuf[e]
  PROVE  Stream(e)'
<1>1. <<>> \in Seq(Message)
  BY EmptySeq
<1>2. sent[e] \o <<>> = sent[e] /\ obuf[e] \o <<>> = obuf[e]
  BY DataTypes, ConcatEmptySeq
<1>3. sent'[e] = sent[e] \o <<>>
  BY <1>2
<1>4. BothUp' => BothUp /\ k = Len(net[e]) /\ obuf'[e] = obuf[e] \o AllBytes(<<>>)
  BY <1>2, NoBytes
<1> QED
  BY <1>1, <1>3, <1>4, StreamSends

\* What a write handler gives to the network is the beginning of its buffer.
LEMMA StreamWrites ==
  ASSUME DataTypeOK, NEW e \in End, Stream(e), BothUp,
         sent'[e] = sent[e],
         got'[Peer(e)] = got[Peer(e)], ibuf'[Peer(e)] = ibuf[Peer(e)],
         NEW k \in 0 .. Len(obuf[e]), net'[e] = net[e] \o SubSeq(obuf[e], 1, k),
         obuf'[e] = SubSeq(obuf[e], k + 1, Len(obuf[e]))
  PROVE  Stream(e)'
<1>1. PICK ms \in Seq(Message), x \in Seq(Byte) :
        /\ sent[e] = got[Peer(e)] \o ms
        /\ (ibuf[Peer(e)] \o net[e]) \o x = AllBytes(ms)
        /\ BothUp => x = obuf[e]
  BY DEF Stream
<1> DEFINE i == ibuf[Peer(e)]
           n == net[e]
           o1 == SubSeq(obuf[e], 1, k)
           o2 == SubSeq(obuf[e], k + 1, Len(obuf[e]))
<1>2. /\ i \in Seq(Byte) /\ n \in Seq(Byte)
      /\ o1 \in Seq(Byte) /\ o2 \in Seq(Byte) /\ obuf[e] = o1 \o o2
  BY DataTypes, ByteSplit
<1>3. net'[e] = n \o o1 /\ obuf'[e] = o2
  OBVIOUS
<1> HIDE DEF i, n, o1, o2
<1>4. (i \o (n \o o1)) \o o2 = AllBytes(ms)
  <2>1. i \o n \in Seq(Byte) /\ n \o o1 \in Seq(Byte)
    BY <1>2, ConcatProperties
  <2>2. (i \o n) \o o1 = i \o (n \o o1)
    BY <1>2, ByteAssoc, Zenon
  <2>3. ((i \o n) \o o1) \o o2 = (i \o n) \o (o1 \o o2)
    <3> DEFINE p == i \o n
    <3>1. p \in Seq(Byte)
      BY <2>1
    <3> HIDE DEF p
    <3>2. (p \o o1) \o o2 = p \o (o1 \o o2)
      BY <1>2, <3>1, ByteAssoc, Zenon
    <3> QED
      BY <3>2 DEF p
  <2>4. (i \o n) \o (o1 \o o2) = AllBytes(ms)
    BY <1>1, <1>2 DEF i, n
  <2> QED
    BY <2>2, <2>3, <2>4
<1>5. sent'[e] = got'[Peer(e)] \o ms
  BY <1>1
<1>6. (ibuf'[Peer(e)] \o net'[e]) \o o2 = AllBytes(ms)
  BY <1>3, <1>4 DEF i
<1> QED
  BY <1>2, <1>3, <1>5, <1>6 DEF Stream

\* What a read handler hands over are the next messages.
LEMMA StreamReads ==
  ASSUME DataTypeOK, NEW e \in End, Stream(e), NEW b, b = ibuf[Peer(e)] \o net[e],
         sent'[e] = sent[e],
         got'[Peer(e)] = got[Peer(e)]
                           \o [i \in DOMAIN Frames(b) |-> Parsed(Frames(b)[i])],
         ibuf'[Peer(e)] = Rest(b), net'[e] = <<>>,
         BothUp' => BothUp /\ obuf'[e] = obuf[e]
  PROVE  /\ Stream(e)' /\ got'[Peer(e)] \in Seq(Message) /\ Rest(b) \in Seq(Byte)
         /\ Len(Frames(b)) \in Nat
<1>1. PICK ms \in Seq(Message), x \in Seq(Byte) :
        /\ sent[e] = got[Peer(e)] \o ms
        /\ (ibuf[Peer(e)] \o net[e]) \o x = AllBytes(ms)
        /\ BothUp => x = obuf[e]
  BY DEF Stream
<1> DEFINE g == got[Peer(e)]
<1>2. g \in Seq(Message) /\ b \in Seq(Byte) /\ b \o x = AllBytes(ms)
  BY <1>1, DataTypes, ConcatProperties
<1>3. PICK k \in 0 .. Len(ms) :
        /\ Len(Frames(b)) = k
        /\ [i \in DOMAIN Frames(b) |-> Parsed(Frames(b)[i])] = SubSeq(ms, 1, k)
        /\ Rest(b) \in Seq(Byte)
        /\ Rest(b) \o x = AllBytes(SubSeq(ms, k + 1, Len(ms)))
  BY <1>2, ReadTakes
<1> DEFINE us == SubSeq(ms, 1, k)
           vs == SubSeq(ms, k + 1, Len(ms))
<1>4. us \in Seq(Message) /\ vs \in Seq(Message) /\ us \o vs = ms
  <2>1. /\ 1 \in 1 .. Len(ms) + 1 /\ k \in 1 - 1 .. Len(ms)
        /\ Len(ms) \in k .. Len(ms)
    BY <1>3
  <2>2. SubSeq(ms, 1, k) \o SubSeq(ms, k + 1, Len(ms)) = SubSeq(ms, 1, Len(ms))
    BY <2>1, ConcatAdjacentSubSeq
  <2>3. SubSeq(ms, 1, Len(ms)) = ms
    BY SubSeqFull
  <2>4. us \in Seq(Message) /\ vs \in Seq(Message)
    BY <1>3
  <2> QED
    BY <2>2, <2>3, <2>4
<1> HIDE DEF g, us, vs
<1>5. got'[Peer(e)] = g \o us /\ g \o us \in Seq(Message)
  BY <1>2, <1>3, <1>4, ConcatProperties DEF g, us
<1>6. sent'[e] = got'[Peer(e)] \o vs
  <2>1. (g \o us) \o vs = g \o (us \o vs)
    BY <1>2, <1>4, MessageAssoc, Zenon
  <2> QED
    BY <1>1, <1>4, <1>5, <2>1 DEF g
<1>7. (ibuf'[Peer(e)] \o net'[e]) \o x = AllBytes(vs)
  <2>1. Rest(b) \o <<>> = Rest(b)
    BY <1>3, ConcatEmptySeq
  <2> QED
    BY <1>3, <2>1 DEF vs
<1>8. BothUp' => x = obuf'[e]
  BY <1>1
<1>9. Stream(e)'
  BY <1>4, <1>6, <1>7, <1>8 DEF Stream
<1>10. Len(Frames(b)) \in Nat
  BY <1>3
<1>11. got'[Peer(e)] \in Seq(Message)
  BY <1>5
<1> QED
  BY <1>3, <1>9, <1>10, <1>11

-----------------------------------------------------------------------------
\* Initially nothing is under way.
LEMMA StreamInit == Init => StreamInv
<1> SUFFICES ASSUME Init PROVE StreamInv
  OBVIOUS
<1>1. DataTypeOK
  <2>1. <<>> \in Seq(Message) /\ <<>> \in Seq(Byte) /\ Len(<<>>) = 0
    BY EmptySeq
  <2> QED
    BY <2>1, BoundAssumption DEF Init, DataTypeOK
<1>2. ASSUME NEW e \in End PROVE Stream(e)
  <2>1. /\ sent[e] = <<>> /\ got[Peer(e)] = <<>> /\ ibuf[Peer(e)] = <<>>
        /\ net[e] = <<>> /\ obuf[e] = <<>>
    BY <1>1, DataTypes DEF Init
  <2>2. <<>> \in Seq(Message) /\ <<>> \in Seq(Byte)
    BY EmptySeq
  <2>3. <<>> \o <<>> = <<>>
    BY <2>2, ConcatEmptySeq
  <2> QED
    BY <2>1, <2>2, <2>3, NoBytes DEF Stream
<1> QED
  BY <1>1, <1>2 DEF StreamInv

\* Steps that move no data.
LEMMA StreamSame ==
  ASSUME StreamInv, UNCHANGED <<proc, sent, got, obuf, ibuf, net>>
  PROVE  StreamInv'
BY DEF StreamInv, DataTypeOK, Stream, BothUp, Up

\* What the end of a process does to the network.
LEMMA GoneCuts ==
  ASSUME JobInv, DataTypeOK, NEW e \in End, NEW why \in {"dead", "write", "pollset"},
         Gone(e, why)
  PROVE  /\ ~ BothUp' /\ net'[Peer(e)] = <<>>
         /\ net' \in [End -> Seq(Byte)] /\ \A f \in End : Len(net'[f]) <= NetCap
         /\ \A f \in End : \E k \in 0 .. Len(net[f]) : net'[f] = SubSeq(net[f], 1, k)
<1>1. PICK k \in 0 .. Len(net[e]) :
        net' = [net EXCEPT ![e] = SubSeq(@, 1, k), ![Peer(e)] = <<>>]
  BY DEF Gone
<1>2. proc'[e] = why /\ why # "up"
  BY DEF Gone, JobInv, ControlTypeOK
<1>3. ~ BothUp'
  BY <1>2 DEF BothUp, Up, End
<1>4. /\ Peer(e) \in End /\ Peer(e) # e /\ \A f \in End : f = e \/ f = Peer(e)
      /\ net[e] \in Seq(Byte) /\ Len(net[e]) \in Nat /\ Len(net[e]) <= NetCap
      /\ Len(net[Peer(e)]) \in Nat
  <2>1. Peer(e) \in End /\ Peer(e) # e /\ \A f \in End : f = e \/ f = Peer(e)
    BY DEF Peer, End
  <2> QED
    BY <2>1, DataTypes
<1>5. net'[e] = SubSeq(net[e], 1, k) /\ net'[Peer(e)] = <<>>
  BY <1>1, <1>4 DEF DataTypeOK
<1>6. /\ SubSeq(net[e], 1, k) \in Seq(Byte) /\ Len(SubSeq(net[e], 1, k)) <= NetCap
      /\ <<>> \in Seq(Byte) /\ Len(<<>>) <= NetCap
  <2>1. Len(SubSeq(net[e], 1, k)) = k /\ SubSeq(net[e], 1, k) \in Seq(Byte)
    BY <1>4, ByteSplit
  <2>2. k <= NetCap
    BY <1>4, BoundAssumption
  <2> QED
    BY <2>1, <2>2, BoundAssumption, EmptySeq
<1>7. net' \in [End -> Seq(Byte)]
  BY <1>1, <1>4, <1>6 DEF DataTypeOK
<1>8. ASSUME NEW f \in End PROVE \E j \in 0 .. Len(net[f]) : net'[f] = SubSeq(net[f], 1, j)
  <2>1. CASE f = e
    BY <1>5, <2>1
  <2>2. CASE f = Peer(e)
    <3>1. SubSeq(net[f], 1, 0) = <<>>
      BY SubSeqEmpty
    <3>2. 0 \in 0 .. Len(net[f])
      BY <1>4, <2>2
    <3> QED
      BY <1>5, <2>2, <3>1, <3>2
  <2> QED
    BY <1>4, <2>1, <2>2
<1>9. \A f \in End : Len(net'[f]) <= NetCap
  BY <1>4, <1>5, <1>6
<1> QED
  BY <1>3, <1>5, <1>7, <1>8, <1>9

\* A process that ends in a step that moves no other data.
LEMMA StreamGone ==
  ASSUME JobInv, StreamInv, NEW e \in End, NEW why \in {"dead", "write", "pollset"},
         Gone(e, why), UNCHANGED <<sent, got, obuf, ibuf>>
  PROVE  StreamInv'
<1>1. /\ ~ BothUp'
      /\ net' \in [End -> Seq(Byte)] /\ \A f \in End : Len(net'[f]) <= NetCap
      /\ \A f \in End : \E k \in 0 .. Len(net[f]) : net'[f] = SubSeq(net[f], 1, k)
  BY GoneCuts DEF StreamInv
<1>2. DataTypeOK'
  BY <1>1 DEF StreamInv, DataTypeOK
<1>3. ASSUME NEW f \in End PROVE Stream(f)'
  <2>1. PICK k \in 0 .. Len(net[f]) : net'[f] = SubSeq(net[f], 1, k)
    BY <1>1
  <2> QED
    BY <1>1, <2>1, StreamCut DEF StreamInv
<1> QED
  BY <1>2, <1>3 DEF StreamInv

\* New messages are messages.
LEMMA NewMessagesType ==
  ASSUME DataTypeOK, NEW e \in End, NEW n \in Nat, NEW ms \in NewMessages(e, n)
  PROVE  ms \in Seq(Message)
<1>1. PICK f \in [1 .. n -> 1 .. MaxSize] :
        ms = [i \in 1 .. n |-> [by |-> e, no |-> Len(sent[e]) + i, sz |-> f[i]]]
  BY DEF NewMessages
<1>2. sent[e] \in Seq(Message) /\ Len(sent[e]) \in Nat
  <2>1. sent[e] \in Seq(Message)
    BY DataTypes
  <2> QED
    BY <2>1
<1>3. \A i \in 1 .. n : [by |-> e, no |-> Len(sent[e]) + i, sz |-> f[i]] \in Message
  <2> SUFFICES ASSUME NEW i \in 1 .. n
               PROVE  [by |-> e, no |-> Len(sent[e]) + i, sz |-> f[i]] \in Message
    OBVIOUS
  <2>1. Len(sent[e]) + i \in Nat \ {0} /\ f[i] \in 1 .. MaxSize
    BY <1>2
  <2> QED
    BY <2>1 DEF Message
<1>4. ms \in [1 .. n -> Message]
  BY <1>1, <1>3
<1> QED
  BY <1>4

\* What Put does to the data state.
LEMMA PutTypes ==
  ASSUME DataTypeOK, NEW e \in End, NEW ms \in Seq(Message), Put(e, ms)
  PROVE  /\ sent' \in [End -> Seq(Message)] /\ obuf' \in [End -> Seq(Byte)]
         /\ sent'[e] = sent[e] \o ms /\ obuf'[e] = obuf[e] \o AllBytes(ms)
         /\ \A f \in End \ {e} : sent'[f] = sent[f] /\ obuf'[f] = obuf[f]
<1>1. sent[e] \o ms \in Seq(Message) /\ obuf[e] \o AllBytes(ms) \in Seq(Byte)
  BY DataTypes, AllBytesType, ConcatProperties
<1> QED
  BY <1>1 DEF Put, DataTypeOK

\* All of the network stays where it is.
LEMMA NetSame ==
  ASSUME DataTypeOK, NEW e \in End, net'[e] = net[e]
  PROVE  /\ Len(net[e]) \in 0 .. Len(net[e])
         /\ net'[e] = SubSeq(net[e], 1, Len(net[e]))
<1>1. net[e] \in Seq(Byte) /\ Len(net[e]) \in Nat
  BY DataTypes
<1> QED
  BY <1>1, SubSeqFull

\* A call appends a message.
LEMMA StreamCall == ASSUME StreamInv, Call PROVE StreamInv'
<1>1. PICK ms \in NewMessages("cli", 1) : Put("cli", ms)
  BY DEF Call
<1>2. "cli" \in End /\ 1 \in Nat /\ DataTypeOK
  BY DEF End, StreamInv
<1>3. ms \in Seq(Message)
  BY <1>2, NewMessagesType
<1>4. /\ sent' \in [End -> Seq(Message)] /\ obuf' \in [End -> Seq(Byte)]
      /\ sent'["cli"] = sent["cli"] \o ms /\ obuf'["cli"] = obuf["cli"] \o AllBytes(ms)
      /\ \A f \in End \ {"cli"} : sent'[f] = sent[f] /\ obuf'[f] = obuf[f]
  BY <1>1, <1>2, <1>3, PutTypes
<1>5. UNCHANGED <<proc, got, ibuf, net>>
  BY DEF Call
<1>6. DataTypeOK'
  BY <1>2, <1>4, <1>5 DEF DataTypeOK
<1>7. ASSUME NEW f \in End PROVE Stream(f)'
  <2>1. Stream(f) /\ (BothUp' => BothUp)
    BY <1>5 DEF StreamInv, BothUp, Up
  <2>2. Len(net[f]) \in 0 .. Len(net[f]) /\ net'[f] = SubSeq(net[f], 1, Len(net[f]))
    BY <1>2, <1>5, NetSame
  <2>3. CASE f = "cli"
    BY <1>2, <1>3, <1>4, <1>5, <2>1, <2>2, <2>3, StreamSends
  <2>4. CASE f # "cli"
    BY <1>2, <1>4, <1>5, <2>1, <2>2, <2>4, StreamCut
  <2> QED
    BY <2>3, <2>4
<1> QED
  BY <1>6, <1>7 DEF StreamInv

\* A write handler moves bytes on, or loses them to a dead process.
LEMMA StreamWrite == ASSUME StreamInv, NEW e \in End, Write(e) PROVE StreamInv'
<1>1. PICK k \in 0 .. Len(obuf[e]) :
        /\ Up(Peer(e)) => Len(net[e]) + k <= NetCap
        /\ obuf' = [obuf EXCEPT ![e] = SubSeq(obuf[e], k + 1, Len(obuf[e]))]
        /\ net' = IF Up(Peer(e))
                  THEN [net EXCEPT ![e] = @ \o SubSeq(obuf[e], 1, k)] ELSE net
  BY DEF Write
<1>2. UNCHANGED <<proc, sent, got, ibuf>> /\ Up(e) /\ DataTypeOK
  BY DEF Write, Writing, StreamInv
<1> DEFINE o1 == SubSeq(obuf[e], 1, k)
           o2 == SubSeq(obuf[e], k + 1, Len(obuf[e]))
<1>3. /\ obuf[e] \in Seq(Byte) /\ o1 \in Seq(Byte) /\ o2 \in Seq(Byte) /\ Len(o1) = k
      /\ net[e] \in Seq(Byte) /\ Len(net[e]) \in Nat /\ k \in Nat
      /\ net[e] \o o1 \in Seq(Byte) /\ Len(net[e] \o o1) = Len(net[e]) + k
  <2>1. /\ obuf[e] \in Seq(Byte) /\ o1 \in Seq(Byte) /\ o2 \in Seq(Byte) /\ Len(o1) = k
        /\ net[e] \in Seq(Byte) /\ Len(net[e]) \in Nat /\ k \in Nat
    BY <1>2, DataTypes, ByteSplit
  <2> HIDE DEF o1, o2
  <2> QED
    BY <2>1, ConcatProperties
<1>4. /\ obuf' = [obuf EXCEPT ![e] = o2]
      /\ net' = IF Up(Peer(e)) THEN [net EXCEPT ![e] = net[e] \o o1] ELSE net
  BY <1>1, <1>2 DEF DataTypeOK
<1> HIDE DEF o1, o2
<1>5. DataTypeOK'
  <2>1. obuf' \in [End -> Seq(Byte)]
    BY <1>2, <1>3, <1>4 DEF DataTypeOK
  <2>2. net' \in [End -> Seq(Byte)] /\ \A f \in End : Len(net'[f]) <= NetCap
    BY <1>1, <1>2, <1>3, <1>4 DEF DataTypeOK
  <2> QED
    BY <1>2, <2>1, <2>2 DEF DataTypeOK
<1>6. ASSUME NEW f \in End, ~ (f = e /\ BothUp) PROVE Stream(f)'
  <2>1. Stream(f) /\ (BothUp' => BothUp)
    BY <1>2 DEF StreamInv, BothUp, Up
  <2>2. net'[f] = net[f]
    <3>1. f = e => ~ Up(Peer(e))
      BY <1>2, <1>6 DEF BothUp, Peer, End
    <3> QED
      BY <1>2, <1>4, <3>1 DEF DataTypeOK
  <2>3. Len(net[f]) \in 0 .. Len(net[f]) /\ net'[f] = SubSeq(net[f], 1, Len(net[f]))
    BY <1>2, <2>2, NetSame
  <2>4. BothUp' => obuf'[f] = obuf[f]
    BY <1>2, <1>4, <1>6, <2>1 DEF DataTypeOK
  <2> QED
    BY <1>2, <2>1, <2>3, <2>4, StreamCut
<1>7. ASSUME BothUp PROVE Stream(e)'
  <2>1. Up(Peer(e)) /\ Stream(e)
    BY <1>7 DEF BothUp, Peer, StreamInv
  <2>2. net'[e] = net[e] \o o1 /\ obuf'[e] = o2
    BY <1>2, <1>4, <2>1 DEF DataTypeOK
  <2> QED
    BY <1>2, <1>7, <2>1, <2>2, StreamWrites DEF o1, o2
<1> QED
  BY <1>5, <1>6, <1>7 DEF StreamInv

\* A read handler hands over what is complete, and sends.
LEMMA StreamRead == ASSUME JobInv, StreamInv, NEW e \in End, Read(e) PROVE StreamInv'
<1> DEFINE d == Peer(e)
           b == ibuf[e] \o net[d]
<1>1. /\ DataTypeOK /\ d \in End /\ Peer(d) = e /\ d # e
      /\ \A f \in End : f = e \/ f = d
  <2>1. DataTypeOK
    BY DEF StreamInv
  <2>2. \A f \in End : f = e \/ f = Peer(e)
    BY DEF Peer, End
  <2> QED
    BY <2>1, <2>2, DataTypes
<1>2. PICK ms \in Sends(e, Len(Frames(b))) : Put(e, ms)
  BY DEF Read
<1>3. /\ got' = [got EXCEPT ![e] = @ \o [i \in DOMAIN Frames(b) |-> Parsed(Frames(b)[i])]]
      /\ ibuf' = [ibuf EXCEPT ![e] = Rest(b)]
  BY DEF Read
<1> HIDE DEF b
<1>4. /\ net' \in [End -> Seq(Byte)] /\ \A f \in End : Len(net'[f]) <= NetCap
      /\ net'[d] = <<>>
      /\ \E k \in 0 .. Len(net[e]) : /\ net'[e] = SubSeq(net[e], 1, k)
                                     /\ BothUp' => BothUp /\ k = Len(net[e])
  <2>1. CASE AtEnd(e) /\ ~ inset[e]
    <3>1. Gone(e, "pollset")
      BY <2>1 DEF Read
    <3> QED
      BY <1>1, <3>1, GoneCuts
  <2>2. CASE ~ (AtEnd(e) /\ ~ inset[e])
    <3>1. net' = [net EXCEPT ![d] = <<>>] /\ proc' = proc
      BY <2>2 DEF Read
    <3>2. net'[d] = <<>> /\ net'[e] = net[e]
      BY <1>1, <3>1 DEF DataTypeOK
    <3>3. <<>> \in Seq(Byte) /\ Len(<<>>) <= NetCap
      BY EmptySeq, BoundAssumption
    <3>4. net' \in [End -> Seq(Byte)]
      BY <1>1, <3>1, <3>3 DEF DataTypeOK
    <3>5. \A f \in End : Len(net'[f]) <= NetCap
      BY <1>1, <3>2, <3>3 DEF DataTypeOK
    <3>6. Len(net[e]) \in 0 .. Len(net[e]) /\ net'[e] = SubSeq(net[e], 1, Len(net[e]))
      BY <1>1, <3>2, NetSame
    <3>7. BothUp' => BothUp
      BY <3>1 DEF BothUp, Up
    <3> QED
      BY <3>2, <3>4, <3>5, <3>6, <3>7
  <2> QED
    BY <2>1, <2>2
<1>5. BothUp' => BothUp
  BY <1>4
<1>6. \A f \in End \ {e} : sent'[f] = sent[f] /\ obuf'[f] = obuf[f]
  BY <1>1, <1>2 DEF Put, DataTypeOK
<1>7. /\ Stream(d)' /\ got'[e] \in Seq(Message) /\ Rest(b) \in Seq(Byte)
      /\ Len(Frames(b)) \in Nat
  <2>1. Stream(d) /\ b = ibuf[Peer(d)] \o net[d]
    BY <1>1 DEF StreamInv, b
  <2>2. sent'[d] = sent[d] /\ obuf'[d] = obuf[d]
    BY <1>1, <1>6
  <2>3. /\ got'[Peer(d)] = got[Peer(d)] \o [i \in DOMAIN Frames(b) |-> Parsed(Frames(b)[i])]
        /\ ibuf'[Peer(d)] = Rest(b)
    BY <1>1, <1>3 DEF DataTypeOK
  <2> HIDE DEF d
  <2>4. /\ Stream(d)' /\ got'[Peer(d)] \in Seq(Message) /\ Rest(b) \in Seq(Byte)
        /\ Len(Frames(b)) \in Nat
    BY <1>1, <1>4, <1>5, <2>1, <2>2, <2>3, StreamReads
  <2> QED
    BY <1>1, <2>4
<1>8. ms \in Seq(Message)
  <2>1. CASE ms = <<>>
    BY <2>1, EmptySeq
  <2>2. CASE ms \in NewMessages(e, Len(Frames(b)))
    BY <1>1, <1>7, <2>2, NewMessagesType
  <2>3. CASE ms \in NewMessages(e, 1)
    BY <1>1, <2>3, NewMessagesType
  <2> QED
    BY <1>2, <2>1, <2>2, <2>3 DEF Sends
<1>9. /\ sent' \in [End -> Seq(Message)] /\ obuf' \in [End -> Seq(Byte)]
      /\ sent'[e] = sent[e] \o ms /\ obuf'[e] = obuf[e] \o AllBytes(ms)
  BY <1>1, <1>2, <1>8, PutTypes
<1>10. DataTypeOK'
  <2>1. got' \in [End -> Seq(Message)]
    BY <1>1, <1>3, <1>7 DEF DataTypeOK
  <2>2. ibuf' \in [End -> Seq(Byte)]
    BY <1>1, <1>3, <1>7 DEF DataTypeOK
  <2> QED
    BY <1>4, <1>9, <2>1, <2>2 DEF DataTypeOK
<1>11. Stream(e)'
  <2>1. PICK k \in 0 .. Len(net[e]) : /\ net'[e] = SubSeq(net[e], 1, k)
                                      /\ BothUp' => BothUp /\ k = Len(net[e])
    BY <1>4
  <2>2. got'[d] = got[d] /\ ibuf'[d] = ibuf[d] /\ Stream(e)
    BY <1>1, <1>3 DEF DataTypeOK, StreamInv
  <2> QED
    BY <1>1, <1>8, <1>9, <2>1, <2>2, StreamSends
<1> QED
  BY <1>1, <1>7, <1>10, <1>11 DEF StreamInv

\* Every step keeps StreamInv.
LEMMA StreamStep == JobInv /\ StreamInv /\ [Next]_vars => StreamInv'
<1> SUFFICES ASSUME JobInv, StreamInv, [Next]_vars PROVE StreamInv'
  OBVIOUS
<1>1. CASE CallRemove
  <2>1. CASE inset["cli"]
    BY <1>1, <2>1, StreamSame DEF CallRemove
  <2>2. CASE ~ inset["cli"]
    BY <1>1, <2>2, StreamGone DEF CallRemove, End
  <2> QED
    BY <2>1, <2>2
<1>2. CASE CallAdd
  BY <1>2, StreamSame DEF CallAdd
<1>3. ASSUME NEW e \in End, Poll(e) PROVE StreamInv'
  BY <1>3, StreamSame DEF Poll
<1>4. ASSUME NEW e \in End, WriteFails(e) PROVE StreamInv'
  <2>1. CASE e = "cli"
    BY <1>4, <2>1, StreamGone DEF WriteFails, Writing
  <2>2. CASE e # "cli"
    BY <1>4, <2>2, StreamSame DEF WriteFails, Writing
  <2> QED
    BY <2>1, <2>2
<1>5. ASSUME NEW e \in End, Die(e) PROVE StreamInv'
  BY <1>5, StreamGone DEF Die
<1>6. CASE UNCHANGED vars
  BY <1>6, StreamSame DEF vars
<1> QED
  BY <1>1, <1>2, <1>3, <1>4, <1>5, <1>6, StreamCall, StreamRead, StreamWrite
     DEF Next, CallStep

\* What the invariant says of one direction.
LEMMA StreamDelivers ==
  ASSUME DataTypeOK, NEW e \in End, Stream(e)
  PROVE  /\ IsPrefix(got[Peer(e)], sent[e])
         /\ BothUp => AllBytes(got[Peer(e)]) \o ibuf[Peer(e)] \o net[e] \o obuf[e]
                        = AllBytes(sent[e])
<1>1. PICK ms \in Seq(Message), x \in Seq(Byte) :
        /\ sent[e] = got[Peer(e)] \o ms
        /\ (ibuf[Peer(e)] \o net[e]) \o x = AllBytes(ms)
        /\ BothUp => x = obuf[e]
  BY DEF Stream
<1> DEFINE g == got[Peer(e)]
           i == ibuf[Peer(e)]
           n == net[e]
           w == AllBytes(g)
<1>2. /\ g \in Seq(Message) /\ i \in Seq(Byte) /\ n \in Seq(Byte) /\ w \in Seq(Byte)
      /\ Len(g) \in Nat /\ Len(ms) \in Nat
  <2>1. g \in Seq(Message) /\ i \in Seq(Byte) /\ n \in Seq(Byte)
    BY DataTypes
  <2> QED
    BY <2>1, AllBytesType, LenProperties
<1> HIDE DEF g, i, n, w
<1>3. IsPrefix(g, g \o ms)
  <2>1. /\ g \o ms \in Seq(Message) /\ Len(g \o ms) = Len(g) + Len(ms)
        /\ \A j \in 1 .. Len(g) + Len(ms) :
             (g \o ms)[j] = IF j <= Len(g) THEN g[j] ELSE ms[j - Len(g)]
    BY <1>2, ConcatProperties
  <2>2. /\ SubSeq(g \o ms, 1, Len(g)) \in Seq(Message)
        /\ Len(SubSeq(g \o ms, 1, Len(g))) = Len(g)
        /\ \A j \in 1 .. Len(g) : SubSeq(g \o ms, 1, Len(g))[j] = (g \o ms)[j]
    BY <1>2, <2>1, SubSeqProperties
  <2>3. \A j \in 1 .. Len(g) : SubSeq(g \o ms, 1, Len(g))[j] = g[j]
    BY <1>2, <2>1, <2>2
  <2>4. SubSeq(g \o ms, 1, Len(g)) = g
    BY <1>2, <2>2, <2>3, SeqEqual
  <2>5. SubSeq(g, 1, Len(g)) = g
    BY <1>2, SubSeqFull
  <2> QED
    BY <1>2, <2>1, <2>4, <2>5 DEF IsPrefix
<1>4. ((w \o i) \o n) \o x = AllBytes(g \o ms)
  <2> DEFINE p == w \o i
             q == i \o n
  <2>1. p \in Seq(Byte) /\ q \in Seq(Byte)
    BY <1>2, ConcatProperties
  <2>2. p \o n = w \o q
    BY <1>2, ByteAssoc, Zenon
  <2>3. q \o x = AllBytes(ms)
    BY <1>1 DEF i, n
  <2> HIDE DEF p, q
  <2>4. (w \o q) \o x = w \o (q \o x)
    BY <1>2, <2>1, ByteAssoc, Zenon
  <2>5. (p \o n) \o x = w \o AllBytes(ms)
    BY <2>2, <2>3, <2>4
  <2>6. AllBytes(g \o ms) = w \o AllBytes(ms)
    BY <1>2, AllBytesConcat DEF w
  <2> QED
    BY <2>5, <2>6 DEF p
<1> QED
  BY <1>1, <1>3, <1>4 DEF g, i, n, w

\* The messages reach the handlers whole, in order and once, however the stream
\* was cut; while both processes live no byte is lost.
THEOREM MessagesArriveInOrder == Spec => []DeliversInOrder
<1>1. StreamInv => DeliversInOrder
  BY StreamDelivers DEF StreamInv, DeliversInOrder, BothUp
<1> QED
  BY <1>1, JobInit, JobStep, StreamInit, StreamStep, PTL DEF Spec

\* Type correctness: what is handed over are messages, too.
THEOREM ChannelTypeCorrect == Spec => []TypeOK
<1>1. JobInv /\ StreamInv => TypeOK
  BY DEF JobInv, ControlTypeOK, StreamInv, DataTypeOK, TypeOK
<1> QED
  BY <1>1, JobInit, JobStep, StreamInit, StreamStep, PTL DEF Spec
=============================================================================
