------------------------------ MODULE BufProof ------------------------------
(***************************************************************************)
(* Theorems about Buf, for blocks of any first size and any content.       *)
(*                                                                         *)
(* buf_readjust and buf_from_sock are loops, recursive functions in Buf;   *)
(* LoopExists says that such a loop has a value if a measure goes down with*)
(* every round, and SetInduction what holds for every number of rounds.    *)
(* ReadjustMakesRoom and FromSockTakes are what the loops do to the        *)
(* content; every action then puts bytes in or takes some out.             *)
(***************************************************************************)
EXTENDS Buf, Recursion

\* What is in a buffer.
LEMMA BufferType ==
  ASSUME NEW b \in Buffer
  PROVE  /\ b.raw \in Seq(Byte \cup {Junk}) /\ Len(b.raw) = b.sz
         /\ b.sz \in Nat /\ b.idx_read \in Nat /\ b.idx_write \in Nat
         /\ b.sz >= 2 /\ b.idx_read <= b.idx_write /\ b.idx_write <= b.sz
         /\ Content(b) \in Seq(Byte) /\ Len(Content(b)) = b.idx_write - b.idx_read
         /\ \A i \in 1 .. b.idx_write - b.idx_read : Content(b)[i] = b.raw[b.idx_read + i]
         /\ Room(b) \in Nat
         /\ b = [raw |-> b.raw, sz |-> b.sz, idx_read |-> b.idx_read,
                 idx_write |-> b.idx_write]
<1>1. /\ b.raw \in Seq(Byte \cup {Junk}) /\ DOMAIN b.raw = 1 .. b.sz
      /\ b.sz \in Nat /\ b.idx_read \in Nat /\ b.idx_write \in Nat
      /\ b.sz >= 2 /\ b.idx_read <= b.idx_write /\ b.idx_write <= b.sz
      /\ Content(b) \in Seq(Byte)
      /\ b = [raw |-> b.raw, sz |-> b.sz, idx_read |-> b.idx_read,
              idx_write |-> b.idx_write]
  BY DEF Buffer
<1>2. Len(b.raw) = b.sz
  BY <1>1, LenProperties
<1>3. /\ Len(Content(b)) = b.idx_write - b.idx_read
      /\ \A i \in 1 .. b.idx_write - b.idx_read : Content(b)[i] = b.raw[b.idx_read + i]
  <2>1. /\ b.idx_read + 1 \in 1 .. Len(b.raw) + 1
        /\ b.idx_write \in (b.idx_read + 1) - 1 .. Len(b.raw)
    BY <1>1, <1>2
  <2> DEFINE r == b.raw
             m == b.idx_read + 1
             n == b.idx_write
  <2>2. r \in Seq(Byte \cup {Junk}) /\ m \in 1 .. Len(r) + 1 /\ n \in m - 1 .. Len(r)
    BY <1>1, <2>1
  <2> HIDE DEF r, m, n
  <2>3. /\ Len(SubSeq(r, m, n)) = n - m + 1
        /\ \A i \in 1 .. n - m + 1 : SubSeq(r, m, n)[i] = r[m + i - 1]
    BY <2>2, SubSeqProperties
  <2>4. n - m + 1 = b.idx_write - b.idx_read
    BY <1>1 DEF m, n
  <2>5. \A i \in 1 .. b.idx_write - b.idx_read : m + i - 1 = b.idx_read + i
    BY <1>1 DEF m
  <2>6. Content(b) = SubSeq(r, m, n)
    BY DEF Content, r, m, n
  <2>7. Len(SubSeq(r, m, n)) = b.idx_write - b.idx_read
    BY <2>3, <2>4
  <2>8. \A i \in 1 .. b.idx_write - b.idx_read : SubSeq(r, m, n)[i] = r[b.idx_read + i]
    BY <2>3, <2>4, <2>5
  <2> QED
    BY <2>6, <2>7, <2>8 DEF r
<1>4. Room(b) \in Nat
  BY <1>1 DEF Room
<1> QED
  BY <1>1, <1>2, <1>3, <1>4

\* What makes a buffer with a given content.
LEMMA MakeBuffer ==
  ASSUME NEW r \in Seq(Byte \cup {Junk}), Len(r) >= 2,
         NEW m \in Nat, NEW n \in Nat, m <= n, n <= Len(r),
         NEW q \in Seq(Byte), Len(q) = n - m, \A i \in 1 .. Len(q) : r[m + i] = q[i]
  PROVE  LET b == [raw |-> r, sz |-> Len(r), idx_read |-> m, idx_write |-> n]
         IN  b \in Buffer /\ Content(b) = q
<1> DEFINE b == [raw |-> r, sz |-> Len(r), idx_read |-> m, idx_write |-> n]
<1>1. /\ Len(r) \in Nat /\ DOMAIN r = 1 .. Len(r) /\ Len(q) \in Nat
  BY LenProperties
<1>2. SubSeq(r, m + 1, n) = q
  <2>1. m + 1 \in 1 .. Len(r) + 1 /\ n \in (m + 1) - 1 .. Len(r)
    BY <1>1
  <2>2. /\ SubSeq(r, m + 1, n) \in Seq(Byte \cup {Junk})
        /\ Len(SubSeq(r, m + 1, n)) = n - (m + 1) + 1
        /\ \A i \in 1 .. n - (m + 1) + 1 : SubSeq(r, m + 1, n)[i] = r[(m + 1) + i - 1]
    BY <2>1, SubSeqProperties
  <2>3. n - (m + 1) + 1 = Len(q) /\ \A i \in Nat : (m + 1) + i - 1 = m + i
    BY <1>1
  <2>4. q \in Seq(Byte \cup {Junk})
    BY SeqMonotonic
  <2>5. \A i \in 1 .. Len(q) : i \in Nat
    BY <1>1
  <2> DEFINE t == SubSeq(r, m + 1, n)
  <2>6. t \in Seq(Byte \cup {Junk}) /\ Len(t) = Len(q)
    BY <2>2, <2>3
  <2>7. \A i \in 1 .. Len(q) : t[i] = r[m + i]
    BY <2>2, <2>3, <2>5
  <2> HIDE DEF t
  <2>8. \A i \in 1 .. Len(t) : t[i] = q[i]
    BY <2>6, <2>7
  <2>9. t = q
    BY <2>4, <2>6, <2>8, SeqEqual
  <2> QED
    BY <2>9 DEF t
<1>3. Content(b) = q
  BY <1>2 DEF Content
<1> QED
  BY <1>1, <1>3 DEF Buffer

\* Store appends to the content.
LEMMA StoreAppends ==
  ASSUME NEW b \in Buffer, NEW data \in Seq(Byte), Len(data) <= Room(b)
  PROVE  /\ Store(b, data) \in Buffer
         /\ Content(Store(b, data)) = Content(b) \o data
         /\ Room(Store(b, data)) = Room(b) - Len(data)
         /\ Store(b, data).sz = b.sz /\ Store(b, data).idx_read = b.idx_read
         /\ Store(b, data).idx_write = b.idx_write + Len(data)
<1> DEFINE s == b.sz
           m == b.idx_read
           w == b.idx_write
           n == Len(data)
           r == [i \in 1 .. s |-> IF i \in w + 1 .. w + n THEN data[i - w] ELSE b.raw[i]]
           c == Store(b, data)
           q == Content(b) \o data
<1>1. /\ b.raw \in Seq(Byte \cup {Junk}) /\ Len(b.raw) = s /\ s \in Nat /\ m \in Nat
      /\ w \in Nat /\ s >= 2 /\ m <= w /\ w <= s /\ Content(b) \in Seq(Byte)
      /\ Len(Content(b)) = w - m /\ \A i \in 1 .. w - m : Content(b)[i] = b.raw[m + i]
      /\ Room(b) = s - w
      /\ b = [raw |-> b.raw, sz |-> s, idx_read |-> m, idx_write |-> w]
  BY BufferType DEF Room
<1>2. n \in Nat /\ w + n <= s /\ \A i \in 1 .. n : data[i] \in Byte
  BY <1>1, LenProperties, ElementOfSeq
<1>3. c = [raw |-> r, sz |-> s, idx_read |-> m, idx_write |-> w + n]
  <2>1. c = [b EXCEPT !.raw = r, !.idx_write = w + n]
    BY DEF Store
  <2> HIDE DEF r, c, s, m, w, n
  <2>2. c = [[raw |-> b.raw, sz |-> s, idx_read |-> m, idx_write |-> w]
               EXCEPT !.raw = r, !.idx_write = w + n]
    BY <1>1, <2>1
  <2> QED
    BY <2>2
<1>4. /\ q \in Seq(Byte) /\ Len(q) = (w - m) + n
      /\ \A i \in 1 .. (w - m) + n :
           q[i] = IF i <= w - m THEN Content(b)[i] ELSE data[i - (w - m)]
  <2> DEFINE p == Content(b)
  <2>1. p \in Seq(Byte) /\ Len(p) = w - m
    BY <1>1
  <2> HIDE DEF p, w, m
  <2>2. /\ p \o data \in Seq(Byte) /\ Len(p \o data) = Len(p) + Len(data)
        /\ \A i \in 1 .. Len(p) + Len(data) :
             (p \o data)[i] = IF i <= Len(p) THEN p[i] ELSE data[i - Len(p)]
    BY <2>1, ConcatProperties
  <2> QED
    BY <2>1, <2>2 DEF p
<1>5. r \in Seq(Byte \cup {Junk}) /\ Len(r) = s
  <2>1. \A i \in 1 .. s : b.raw[i] \in Byte \cup {Junk}
    BY <1>1, ElementOfSeq
  <2>2. \A i \in 1 .. s : r[i] \in Byte \cup {Junk}
    <3> SUFFICES ASSUME NEW i \in 1 .. s PROVE r[i] \in Byte \cup {Junk}
      OBVIOUS
    <3>1. CASE i \in w + 1 .. w + n
      <4>1. i - w \in 1 .. n /\ r[i] = data[i - w]
        BY <1>1, <1>2, <3>1
      <4> QED
        BY <1>2, <4>1
    <3>2. CASE i \notin w + 1 .. w + n
      BY <2>1, <3>2
    <3> QED
      BY <3>1, <3>2
  <2>3. r \in [1 .. s -> Byte \cup {Junk}]
    BY <2>2
  <2> HIDE DEF r
  <2>4. s \in Nat
    BY <1>1
  <2> QED
    BY <2>3, <2>4, FunctionIsSeq
<1>6. \A i \in 1 .. Len(q) : r[m + i] = q[i]
  <2> SUFFICES ASSUME NEW i \in 1 .. (w - m) + n PROVE r[m + i] = q[i]
    BY <1>4
  <2>1. i \in Nat /\ i >= 1 /\ m + i \in 1 .. s
    BY <1>1, <1>2
  <2>2. r[m + i] = IF m + i \in w + 1 .. w + n THEN data[(m + i) - w] ELSE b.raw[m + i]
    BY <2>1
  <2>3. CASE i <= w - m
    <3>1. m + i \notin w + 1 .. w + n /\ i \in 1 .. w - m
      BY <1>1, <1>2, <2>1, <2>3
    <3> HIDE DEF r, q, w, m, n
    <3> QED
      BY <1>1, <1>4, <2>2, <2>3, <3>1
  <2>4. CASE ~ (i <= w - m)
    <3>1. m + i \in w + 1 .. w + n /\ (m + i) - w = i - (w - m)
      BY <1>1, <1>2, <2>1, <2>4, SMTT(30)
    <3> HIDE DEF r, q, w, m, n
    <3> QED
      BY <1>1, <1>4, <2>2, <2>4, <3>1
  <2> QED
    BY <2>3, <2>4
<1> HIDE DEF r, c, q, s, m, w, n
<1>7. c \in Buffer /\ Content(c) = q
  <2>1. w + n \in Nat /\ m <= w + n /\ w + n <= Len(r) /\ Len(q) = (w + n) - m /\ Len(r) >= 2
    BY <1>1, <1>2, <1>4, <1>5
  <2> DEFINE e == w + n
  <2>2. c = [raw |-> r, sz |-> Len(r), idx_read |-> m, idx_write |-> e]
    BY <1>3, <1>5
  <2>3. /\ r \in Seq(Byte \cup {Junk}) /\ m \in Nat /\ e \in Nat /\ m <= e
        /\ e <= Len(r) /\ Len(r) >= 2 /\ q \in Seq(Byte) /\ Len(q) = e - m
    BY <1>1, <1>4, <1>5, <2>1
  <2> HIDE DEF e
  <2>4. LET b1 == [raw |-> r, sz |-> Len(r), idx_read |-> m, idx_write |-> e]
        IN  b1 \in Buffer /\ Content(b1) = q
    BY <1>6, <2>3, MakeBuffer
  <2> QED
    BY <2>2, <2>4
<1>8. /\ c.sz = s /\ c.idx_read = m /\ c.idx_write = w + n /\ s - (w + n) = (s - w) - n
  BY <1>1, <1>2, <1>3
<1> QED
  BY <1>1, <1>7, <1>8 DEF c, q, s, m, w, n, Room

\* A new block is an empty buffer.
LEMMA MallocEmpty ==
  ASSUME NEW n \in Nat, n >= 2
  PROVE  /\ Malloc(n) \in Buffer /\ Content(Malloc(n)) = <<>> /\ Malloc(n).sz = n
         /\ Malloc(n).idx_read = 0 /\ Malloc(n).idx_write = 0 /\ Room(Malloc(n)) = n
<1> DEFINE r == [i \in 1 .. n |-> Junk]
<1>1. r \in Seq(Byte \cup {Junk}) /\ Len(r) = n
  <2>1. r \in [1 .. n -> Byte \cup {Junk}]
    OBVIOUS
  <2> HIDE DEF r
  <2> QED
    BY <2>1, FunctionIsSeq
<1>2. Malloc(n) = [raw |-> r, sz |-> n, idx_read |-> 0, idx_write |-> 0]
  BY DEF Malloc
<1> HIDE DEF r
<1>3. <<>> \in Seq(Byte) /\ Len(<<>>) = 0
  BY EmptySeq
<1>4. Malloc(n) \in Buffer /\ Content(Malloc(n)) = <<>>
  <2> DEFINE q == <<>>
             z == 0
             c == Malloc(n)
  <2>1. /\ q \in Seq(Byte) /\ z \in Nat /\ z <= z /\ z <= Len(r) /\ Len(r) >= 2
        /\ Len(q) = z - z /\ \A i \in 1 .. Len(q) : r[z + i] = q[i]
    BY <1>1, <1>3
  <2>2. c = [raw |-> r, sz |-> Len(r), idx_read |-> z, idx_write |-> z]
    BY <1>1, <1>2
  <2> HIDE DEF q, z, c
  <2>4. LET b == [raw |-> r, sz |-> Len(r), idx_read |-> z, idx_write |-> z]
        IN  b \in Buffer /\ Content(b) = q
    BY <1>1, <2>1, MakeBuffer
  <2>3. c \in Buffer /\ Content(c) = q
    BY <2>2, <2>4
  <2> QED
    BY <2>3 DEF c, q
<1> QED
  BY <1>2, <1>4 DEF Room

\* buf_realloc moves the content to the front of a block that is large enough.
LEMMA ReallocMoves ==
  ASSUME NEW b \in Buffer, NEW n \in Nat, n >= 2, Len(Content(b)) <= n
  PROVE  /\ Realloc(b, n) \in Buffer /\ Content(Realloc(b, n)) = Content(b)
         /\ Realloc(b, n).sz = n /\ Realloc(b, n).idx_read = 0
         /\ Room(Realloc(b, n)) = n - Len(Content(b))
<1> DEFINE q == Content(b)
           c == Malloc(n)
<1>1. q \in Seq(Byte)
  BY BufferType
<1>2. c \in Buffer /\ Content(c) = <<>> /\ c.sz = n /\ c.idx_read = 0 /\ Room(c) = n
  BY MallocEmpty
<1>3. Realloc(b, n) = Store(c, q)
  BY DEF Realloc
<1> HIDE DEF c
<1>4. /\ Store(c, q) \in Buffer /\ Content(Store(c, q)) = <<>> \o q
      /\ Room(Store(c, q)) = n - Len(q) /\ Store(c, q).sz = n /\ Store(c, q).idx_read = 0
  BY <1>1, <1>2, StoreAppends, ZenonT(60)
<1>5. <<>> \o q = q
  BY <1>1, ConcatEmptySeq
<1> QED
  BY <1>3, <1>4, <1>5

-----------------------------------------------------------------------------
\* How far buf_readjust is from room for n bytes: what the block is too small
\* by, and whether there are read bytes in front.
Missing(b, n) == Len(Content(b)) + n - b.sz
Need(b, n) == 2 * (IF Missing(b, n) > 0 THEN Missing(b, n) ELSE 0)
              + (IF b.idx_read = 0 THEN 0 ELSE 1)

\* One round keeps the content and comes nearer; it doubles the block only for
\* content that needs more than half of it.
LEMMA ResizedNearer ==
  ASSUME NEW b \in Buffer, NEW n \in Nat, Room(b) < n
  PROVE  /\ Resized(b) \in Buffer /\ Content(Resized(b)) = Content(b)
         /\ Need(b, n) \in Nat /\ Need(Resized(b), n) \in Nat
         /\ Need(Resized(b), n) < Need(b, n)
         /\ \/ Resized(b).sz = b.sz
            \/ Resized(b).sz <= 4 * (Len(Content(b)) + n)
<1> DEFINE l == Len(Content(b))
           c == Resized(b)
<1>1. /\ b.sz \in Nat /\ b.sz >= 2 /\ b.idx_read \in Nat /\ b.idx_write \in Nat
      /\ b.idx_read <= b.idx_write /\ b.idx_write <= b.sz /\ l = b.idx_write - b.idx_read
      /\ b.sz - b.idx_write < n
  BY BufferType DEF Room
<1>2. CASE b.idx_read < b.sz \div 2
  <2>1. c = Realloc(b, b.sz * 2)
    BY <1>2 DEF Resized
  <2>2. b.sz * 2 \in Nat /\ b.sz * 2 >= 2 /\ l <= b.sz * 2
    BY <1>1
  <2> DEFINE m == b.sz * 2
  <2>3. c \in Buffer /\ Content(c) = Content(b) /\ c.sz = m /\ c.idx_read = 0
    <3>1. m \in Nat /\ m >= 2 /\ Len(Content(b)) <= m
      BY <2>2
    <3> HIDE DEF m
    <3>2. /\ Realloc(b, m) \in Buffer /\ Content(Realloc(b, m)) = Content(b)
          /\ Realloc(b, m).sz = m /\ Realloc(b, m).idx_read = 0
      BY <3>1, ReallocMoves
    <3> QED
      BY <2>1, <3>2 DEF m
  <2>4. b.sz * 2 <= 4 * (l + n)
    BY <1>1, <1>2
  <2> HIDE DEF l, c
  <2>5. Missing(c, n) = l + n - 2 * b.sz /\ Missing(b, n) = l + n - b.sz
    BY <1>1, <2>3 DEF Missing, l
  <2>6. b.idx_read = 0 => l + n - b.sz > 0
    BY <1>1
  <2>7. Need(b, n) \in Nat /\ Need(c, n) \in Nat /\ Need(c, n) < Need(b, n)
    BY <1>1, <2>3, <2>5, <2>6 DEF Need
  <2> QED
    BY <2>3, <2>4, <2>7 DEF c, l
<1>3. CASE ~ (b.idx_read < b.sz \div 2)
  <2>1. c = Realloc(b, b.sz)
    BY <1>3 DEF Resized
  <2>2. c \in Buffer /\ Content(c) = Content(b) /\ c.sz = b.sz /\ c.idx_read = 0
    <3>1. Len(Content(b)) <= b.sz
      BY <1>1
    <3> QED
      BY <1>1, <2>1, <3>1, ReallocMoves
  <2>3. b.idx_read # 0
    BY <1>1, <1>3
  <2> HIDE DEF l, c
  <2>4. Missing(c, n) = l + n - b.sz /\ Missing(b, n) = l + n - b.sz
    BY <1>1, <2>2 DEF Missing, l
  <2>5. Need(b, n) \in Nat /\ Need(c, n) \in Nat /\ Need(c, n) < Need(b, n)
    BY <1>1, <2>2, <2>3, <2>4 DEF Need
  <2> QED
    BY <2>2, <2>5 DEF c, l
<1> QED
  BY <1>2, <1>3

\* The measure is a number with or without room.
LEMMA NeedType == ASSUME NEW b \in Buffer, NEW n \in Nat PROVE Need(b, n) \in Nat
<1>1. Len(Content(b)) \in Nat /\ b.sz \in Nat
  BY BufferType, LenProperties
<1> QED
  BY <1>1 DEF Need, Missing

\* The recursion of buf_readjust, one round.
LEMMA ReadjustStep ==
  ASSUME NEW b \in Buffer, NEW n \in Nat
  PROVE  Readjust(b, n) = IF Room(b) < n THEN Readjust(Resized(b), n) ELSE b
<1> DEFINE T == {c \in Buffer : ~ (Room(c) < n)}
           g == [c \in Buffer |-> Resized(c)]
           h == [c \in Buffer |-> c]
           mu == [c \in Buffer |-> Need(c, n)]
           all == CHOOSE f : f = [c \in Buffer |->
                                    IF Room(c) < n THEN f[Resized(c)] ELSE c]
<1>1. \A c \in Buffer : Readjust(c, n) = all[c]
  BY DEF Readjust
<1>2. Descends(Buffer, T, g, mu)
  BY NeedType, ResizedNearer DEF Descends
<1>3. \E f : IsLoop(f, Buffer, T, g, h)
  <2> HIDE DEF T, g, h, mu
  <2> QED
    BY <1>2, LoopExists
<1>4. \E f : f = [c \in Buffer |-> IF Room(c) < n THEN f[Resized(c)] ELSE c]
  <2>1. PICK f : IsLoop(f, Buffer, T, g, h)
    BY <1>3
  <2>2. \A c \in Buffer : (IF c \in T THEN h[c] ELSE f[g[c]])
                            = IF Room(c) < n THEN f[Resized(c)] ELSE c
    OBVIOUS
  <2>3. f = [c \in Buffer |-> IF c \in T THEN h[c] ELSE f[g[c]]]
    BY <2>1 DEF IsLoop
  <2> HIDE DEF T, g, h
  <2>4. f = [c \in Buffer |-> IF Room(c) < n THEN f[Resized(c)] ELSE c]
    BY <2>2, <2>3
  <2> QED
    BY <2>4
<1>5. all = [c \in Buffer |-> IF Room(c) < n THEN all[Resized(c)] ELSE c]
  BY <1>4
<1> HIDE DEF all
<1>6. all[b] = IF Room(b) < n THEN all[Resized(b)] ELSE b
  <2> DEFINE k == [c \in Buffer |-> IF Room(c) < n THEN all[Resized(c)] ELSE c]
  <2>1. k[b] = IF Room(b) < n THEN all[Resized(b)] ELSE b
    OBVIOUS
  <2>2. all = k
    BY <1>5
  <2> HIDE DEF k
  <2> QED
    BY <2>1, <2>2
<1>7. Room(b) < n => Resized(b) \in Buffer
  BY ResizedNearer
<1> QED
  BY <1>1, <1>6, <1>7

\* c is b with room for n more bytes, and not enlarged for less than it holds.
MadeRoom(c, b, n) ==
  /\ c \in Buffer /\ Content(c) = Content(b) /\ Room(c) >= n
  /\ c.sz = b.sz \/ c.sz <= 4 * (Len(Content(b)) + n)

\* buf_readjust makes room.
LEMMA ReadjustMakesRoom ==
  ASSUME NEW b \in Buffer, NEW n \in Nat
  PROVE  MadeRoom(Readjust(b, n), b, n)
<1> DEFINE N == {k \in Nat : \A c \in Buffer :
                               Need(c, n) < k => MadeRoom(Readjust(c, n), c, n)}
<1>1. 0 \in N
  BY NeedType
<1>2. ASSUME NEW k \in Nat, k \in N PROVE k + 1 \in N
  <2> SUFFICES ASSUME NEW c \in Buffer, Need(c, n) < k + 1
               PROVE  MadeRoom(Readjust(c, n), c, n)
    OBVIOUS
  <2>1. CASE Room(c) < n
    <3> DEFINE d == Resized(c)
               r == Readjust(d, n)
    <3>1. /\ d \in Buffer /\ Content(d) = Content(c)
          /\ Need(c, n) \in Nat /\ Need(d, n) \in Nat /\ Need(d, n) < Need(c, n)
          /\ d.sz = c.sz \/ d.sz <= 4 * (Len(Content(c)) + n)
      BY <2>1, ResizedNearer
    <3>2. Need(d, n) < k
      <4> HIDE DEF d
      <4> QED
        BY <3>1
    <3>3. MadeRoom(r, d, n)
      BY <1>2, <3>1, <3>2
    <3>4. Readjust(c, n) = r
      BY <2>1, ReadjustStep
    <3> HIDE DEF r, d
    <3> QED
      BY <3>1, <3>3, <3>4 DEF MadeRoom
  <2>2. CASE ~ (Room(c) < n)
    <3>1. Readjust(c, n) = c
      BY <2>2, ReadjustStep
    <3>2. Room(c) \in Nat
      BY BufferType
    <3> QED
      BY <2>2, <3>1, <3>2 DEF MadeRoom
  <2> QED
    BY <2>1, <2>2
<1> HIDE DEF N
<1>3. \A k \in Nat : k \in N
  BY <1>1, <1>2, SetInduction
<1>4. Need(b, n) \in Nat /\ Need(b, n) < Need(b, n) + 1
  BY NeedType
<1>5. Need(b, n) + 1 \in N
  BY <1>3, <1>4
<1> QED
  BY <1>4, <1>5 DEF N

-----------------------------------------------------------------------------
\* A sequence of bytes in two parts.
LEMMA ByteSplit ==
  ASSUME NEW q \in Seq(Byte), NEW k \in 0 .. Len(q)
  PROVE  /\ SubSeq(q, 1, k) \in Seq(Byte) /\ SubSeq(q, k + 1, Len(q)) \in Seq(Byte)
         /\ SubSeq(q, 1, k) \o SubSeq(q, k + 1, Len(q)) = q
         /\ Len(SubSeq(q, 1, k)) = k /\ Len(SubSeq(q, k + 1, Len(q))) = Len(q) - k
<1>1. Len(q) \in Nat /\ k \in Nat /\ k <= Len(q)
  BY LenProperties
<1>2. 1 \in 1 .. Len(q) + 1 /\ k \in 1 - 1 .. Len(q) /\ Len(q) \in k .. Len(q)
  BY <1>1
<1>3. SubSeq(q, 1, k) \o SubSeq(q, k + 1, Len(q)) = SubSeq(q, 1, Len(q))
  BY <1>2, ConcatAdjacentSubSeq
<1>4. SubSeq(q, 1, Len(q)) = q
  BY SubSeqFull
<1>5. SubSeq(q, 1, k) \in Seq(Byte) /\ Len(SubSeq(q, 1, k)) = k
  BY <1>1, <1>2, SubSeqProperties
<1>6. k + 1 \in 1 .. Len(q) + 1 /\ Len(q) \in (k + 1) - 1 .. Len(q)
      /\ Len(q) - (k + 1) + 1 = Len(q) - k
  BY <1>1
<1> DEFINE m == k + 1
           n == Len(q)
<1>7. SubSeq(q, m, n) \in Seq(Byte) /\ Len(SubSeq(q, m, n)) = n - m + 1
  <2>1. m \in 1 .. Len(q) + 1 /\ n \in m - 1 .. Len(q)
    BY <1>6
  <2> HIDE DEF m, n
  <2> QED
    BY <2>1, SubSeqProperties
<1> QED
  BY <1>3, <1>4, <1>5, <1>6, <1>7

\* Appending bytes is associative.
LEMMA ByteAssoc == \A u, v, w \in Seq(Byte) : (u \o v) \o w = u \o (v \o w)
BY ConcatAssociative

\* One call of apr_socket_recv in buf_from_sock: the buffer and the bytes that
\* wait in the socket after it.
Received(p) ==
  LET c == Readjust(p[1], 1)
      k == Min({Room(c), Len(p[2])})
  IN  <<Store(c, SubSeq(p[2], 1, k)), SubSeq(p[2], k + 1, Len(p[2]))>>

\* What is in the buffer or waits is the same, and less waits; the block was
\* enlarged only for what was in it.
LEMMA ReceivedMoves ==
  ASSUME NEW b \in Buffer, NEW w \in Seq(Byte), w # <<>>
  PROVE  LET p == Received(<<b, w>>)
         IN  /\ p \in Buffer \X Seq(Byte)
             /\ Content(p[1]) \o p[2] = Content(b) \o w
             /\ Len(p[2]) \in Nat /\ Len(p[2]) < Len(w)
             /\ p[1].sz = b.sz \/ p[1].sz <= 4 * (Len(Content(b)) + 1)
<1> DEFINE c == Readjust(b, 1)
           k == Min({Room(c), Len(w)})
           u == SubSeq(w, 1, k)
           v == SubSeq(w, k + 1, Len(w))
           d == Store(c, u)
<1>1. MadeRoom(c, b, 1)
  BY ReadjustMakesRoom
<1>2. /\ c \in Buffer /\ Room(c) \in Nat /\ Room(c) >= 1 /\ Content(c) = Content(b)
      /\ c.sz = b.sz \/ c.sz <= 4 * (Len(Content(b)) + 1)
  <2> HIDE DEF c
  <2> QED
    BY <1>1, BufferType DEF MadeRoom
<1>3. Len(w) \in Nat /\ Len(w) >= 1
  BY LenProperties, EmptySeq
<1> HIDE DEF c
<1>4. k \in 1 .. Len(w) /\ k <= Room(c)
  <2>1. \E x \in {Room(c), Len(w)} : \A y \in {Room(c), Len(w)} : x =< y
    BY <1>2, <1>3
  <2>2. k \in {Room(c), Len(w)} /\ \A y \in {Room(c), Len(w)} : k =< y
    BY <2>1 DEF Min
  <2> QED
    BY <1>2, <1>3, <2>2
<1> HIDE DEF k
<1>5. /\ u \in Seq(Byte) /\ v \in Seq(Byte) /\ u \o v = w
      /\ Len(u) = k /\ Len(v) = Len(w) - k
  BY <1>3, <1>4, ByteSplit
<1> HIDE DEF u, v
<1>6. d \in Buffer /\ Content(d) = Content(c) \o u /\ d.sz = c.sz
  BY <1>2, <1>4, <1>5, StoreAppends
<1>7. (Content(c) \o u) \o v = Content(b) \o w
  <2> DEFINE q == Content(b)
  <2>1. q \in Seq(Byte) /\ u \in Seq(Byte) /\ v \in Seq(Byte)
    BY <1>5, BufferType
  <2> HIDE DEF q
  <2>2. (q \o u) \o v = q \o (u \o v)
    BY <2>1, ByteAssoc
  <2> QED
    BY <1>2, <1>5, <2>2 DEF q
<1>8. Len(v) \in Nat /\ Len(v) < Len(w)
  BY <1>3, <1>4, <1>5
<1>9. Received(<<b, w>>) = <<d, v>>
  BY DEF Received, c, k, u, v
<1> HIDE DEF d
<1>10. /\ <<d, v>> \in Buffer \X Seq(Byte)
       /\ Content(d) \o v = Content(b) \o w
       /\ d.sz = b.sz \/ d.sz <= 4 * (Len(Content(b)) + 1)
  BY <1>2, <1>5, <1>6, <1>7
<1>11. <<d, v>>[1] = d /\ <<d, v>>[2] = v
  OBVIOUS
<1> QED
  BY <1>8, <1>9, <1>10, <1>11

\* The recursion of buf_from_sock, one round.
LEMMA FromSockStep ==
  ASSUME NEW b \in Buffer, NEW w \in Seq(Byte)
  PROVE  FromSock(b, w) = IF w = <<>> THEN Readjust(b, 1)
                          ELSE FromSock(Received(<<b, w>>)[1], Received(<<b, w>>)[2])
<1> DEFINE S == Buffer \X Seq(Byte)
           T == {p \in S : p[2] = <<>>}
           g == [p \in S |-> Received(p)]
           h == [p \in S |-> Readjust(p[1], 1)]
           mu == [p \in S |-> Len(p[2])]
           all == CHOOSE f : f = [p \in S |-> IF p[2] = <<>> THEN Readjust(p[1], 1)
                                              ELSE f[Received(p)]]
<1>1. \A c \in Buffer, x \in Seq(Byte) : FromSock(c, x) = all[<<c, x>>]
  BY DEF FromSock, Received
<1>2. Descends(S, T, g, mu)
  <2>1. mu \in [S -> Nat]
    BY LenProperties
  <2>2. ASSUME NEW p \in S, p \notin T PROVE g[p] \in S /\ mu[g[p]] < mu[p]
    <3>1. p = <<p[1], p[2]>> /\ p[1] \in Buffer /\ p[2] \in Seq(Byte) /\ p[2] # <<>>
      BY <2>2
    <3>2. Received(p) \in S /\ Len(Received(p)[2]) < Len(p[2])
      BY <3>1, ReceivedMoves
    <3> QED
      BY <3>2
  <2> QED
    BY <2>1, <2>2 DEF Descends
<1>3. \E f : IsLoop(f, S, T, g, h)
  <2> HIDE DEF S, T, g, h, mu
  <2> QED
    BY <1>2, LoopExists
<1>4. \E f : f = [p \in S |-> IF p[2] = <<>> THEN Readjust(p[1], 1) ELSE f[Received(p)]]
  <2>1. PICK f : IsLoop(f, S, T, g, h)
    BY <1>3
  <2>2. \A p \in S : (IF p \in T THEN h[p] ELSE f[g[p]])
                       = IF p[2] = <<>> THEN Readjust(p[1], 1) ELSE f[Received(p)]
    OBVIOUS
  <2>3. f = [p \in S |-> IF p \in T THEN h[p] ELSE f[g[p]]]
    BY <2>1 DEF IsLoop
  <2> HIDE DEF S, T, g, h
  <2>4. f = [p \in S |-> IF p[2] = <<>> THEN Readjust(p[1], 1) ELSE f[Received(p)]]
    BY <2>2, <2>3
  <2> QED
    BY <2>4
<1>5. all = [p \in S |-> IF p[2] = <<>> THEN Readjust(p[1], 1) ELSE all[Received(p)]]
  BY <1>4
<1> HIDE DEF all
<1>6. \A p \in S : all[p] = IF p[2] = <<>> THEN Readjust(p[1], 1) ELSE all[Received(p)]
  <2> SUFFICES ASSUME NEW p \in S
               PROVE  all[p] = IF p[2] = <<>> THEN Readjust(p[1], 1) ELSE all[Received(p)]
    OBVIOUS
  <2> DEFINE k == [q \in S |-> IF q[2] = <<>> THEN Readjust(q[1], 1) ELSE all[Received(q)]]
  <2>1. k[p] = IF p[2] = <<>> THEN Readjust(p[1], 1) ELSE all[Received(p)]
    OBVIOUS
  <2>2. all = k
    BY <1>5
  <2> HIDE DEF k
  <2> QED
    BY <2>1, <2>2
<1>7. all[<<b, w>>] = IF w = <<>> THEN Readjust(b, 1) ELSE all[Received(<<b, w>>)]
  <2> DEFINE p == <<b, w>>
  <2>1. p \in S /\ p[1] = b /\ p[2] = w
    OBVIOUS
  <2> HIDE DEF p, S
  <2>2. all[p] = IF w = <<>> THEN Readjust(b, 1) ELSE all[Received(p)]
    BY <1>6, <2>1
  <2> QED
    BY <2>2 DEF p
<1>8. ASSUME w # <<>>
      PROVE  all[Received(<<b, w>>)]
               = FromSock(Received(<<b, w>>)[1], Received(<<b, w>>)[2])
  <2> DEFINE r == Received(<<b, w>>)
  <2>1. r \in Buffer \X Seq(Byte)
    BY <1>8, ReceivedMoves
  <2> HIDE DEF r
  <2>2. r[1] \in Buffer /\ r[2] \in Seq(Byte) /\ r = <<r[1], r[2]>>
    BY <2>1
  <2>3. FromSock(r[1], r[2]) = all[<<r[1], r[2]>>]
    BY <1>1, <2>2
  <2> QED
    BY <2>2, <2>3 DEF r
<1> QED
  BY <1>1, <1>7, <1>8

\* c is b with the bytes w, and not enlarged for less than it holds.
Took(c, b, w) ==
  /\ c \in Buffer /\ Content(c) = Content(b) \o w
  /\ c.sz = b.sz \/ c.sz <= 4 * (Len(Content(c)) + 1)

\* buf_from_sock takes all bytes that wait.
LEMMA FromSockTakes ==
  ASSUME NEW b \in Buffer, NEW w \in Seq(Byte)
  PROVE  Took(FromSock(b, w), b, w)
<1> DEFINE N == {k \in Nat : \A c \in Buffer, x \in Seq(Byte) :
                               Len(x) < k => Took(FromSock(c, x), c, x)}
<1>1. 0 \in N
  BY LenProperties
<1>2. ASSUME NEW k \in Nat, k \in N PROVE k + 1 \in N
  <2> SUFFICES ASSUME NEW c \in Buffer, NEW x \in Seq(Byte), Len(x) < k + 1
               PROVE  Took(FromSock(c, x), c, x)
    OBVIOUS
  <2>1. CASE x = <<>>
    <3> DEFINE r == Readjust(c, 1)
               q == Content(c)
    <3>1. FromSock(c, x) = r
      BY <2>1, FromSockStep
    <3>2. MadeRoom(r, c, 1)
      BY ReadjustMakesRoom
    <3>3. q \in Seq(Byte)
      BY BufferType
    <3> HIDE DEF r, q
    <3>4. q \o <<>> = q
      BY <3>3, ConcatEmptySeq
    <3> QED
      BY <2>1, <3>1, <3>2, <3>4 DEF MadeRoom, Took, q
  <2>2. CASE x # <<>>
    <3> DEFINE r == Received(<<c, x>>)
               d == r[1]
               y == r[2]
               e == FromSock(d, y)
    <3>1. FromSock(c, x) = e
      BY <2>2, FromSockStep
    <3>2. /\ r \in Buffer \X Seq(Byte) /\ Content(d) \o y = Content(c) \o x
          /\ Len(y) \in Nat /\ Len(y) < Len(x)
          /\ d.sz = c.sz \/ d.sz <= 4 * (Len(Content(c)) + 1)
      BY <2>2, ReceivedMoves
    <3>3. d \in Buffer /\ y \in Seq(Byte) /\ Len(x) \in Nat
      <4> HIDE DEF r
      <4> QED
        BY <3>2, LenProperties
    <3> HIDE DEF r, d, y
    <3>4. Took(e, d, y)
      <4>1. Len(y) < k
        BY <3>2, <3>3
      <4> QED
        BY <1>2, <3>3, <4>1
    <3> HIDE DEF e
    <3>5. Content(e) = Content(c) \o x /\ Len(Content(c)) <= Len(Content(e))
          /\ Len(Content(c)) \in Nat /\ Len(Content(e)) \in Nat
      <4> DEFINE q == Content(c)
      <4>1. q \in Seq(Byte) /\ Len(q) \in Nat /\ Len(x) \in Nat
        BY BufferType, LenProperties
      <4> HIDE DEF q
      <4>2. Len(q \o x) = Len(q) + Len(x)
        BY <4>1, ConcatProperties
      <4>3. Content(e) = q \o x
        BY <3>2, <3>4 DEF Took, q
      <4> QED
        BY <4>1, <4>2, <4>3 DEF q
    <3>6. c.sz \in Nat /\ d.sz \in Nat /\ e.sz \in Nat
      BY <3>3, <3>4, BufferType DEF Took
    <3>7. e.sz = c.sz \/ e.sz <= 4 * (Len(Content(e)) + 1)
      BY <3>2, <3>4, <3>5, <3>6 DEF Took
    <3> QED
      BY <3>1, <3>4, <3>5, <3>7 DEF Took
  <2> QED
    BY <2>1, <2>2
<1> HIDE DEF N
<1>3. \A k \in Nat : k \in N
  BY <1>1, <1>2, SetInduction
<1>4. Len(w) \in Nat /\ Len(w) < Len(w) + 1
  BY LenProperties
<1>5. Len(w) + 1 \in N
  BY <1>3, <1>4
<1> QED
  BY <1>4, <1>5 DEF N

-----------------------------------------------------------------------------
\* The first k bytes leave the content when idx_read moves.
LEMMA ReadTakes ==
  ASSUME NEW b \in Buffer, NEW k \in 0 .. Len(Content(b))
  PROVE  LET c == [b EXCEPT !.idx_read = @ + k]
         IN  /\ c \in Buffer /\ c.sz = b.sz
             /\ Content(c) = SubSeq(Content(b), k + 1, Len(Content(b)))
<1> DEFINE r == b.raw
           s == b.sz
           m == b.idx_read
           w == b.idx_write
           q == Content(b)
           t == SubSeq(q, k + 1, Len(q))
           c == [b EXCEPT !.idx_read = m + k]
<1>1. /\ r \in Seq(Byte \cup {Junk}) /\ Len(r) = s /\ s >= 2 /\ s \in Nat
      /\ m \in Nat /\ w \in Nat /\ m <= w /\ w <= s
      /\ q \in Seq(Byte) /\ Len(q) = w - m /\ \A i \in 1 .. w - m : q[i] = r[m + i]
      /\ b = [raw |-> r, sz |-> s, idx_read |-> m, idx_write |-> w]
  BY BufferType
<1>2. k \in 0 .. Len(q)
  OBVIOUS
<1> HIDE DEF r, s, m, w, q
<1>3. /\ t \in Seq(Byte) /\ Len(t) = Len(q) - k
      /\ \A i \in 1 .. Len(q) - k : t[i] = q[k + i]
  <2>1. k + 1 \in 1 .. Len(q) + 1 /\ Len(q) \in (k + 1) - 1 .. Len(q)
    BY <1>1, <1>2
  <2> DEFINE x == k + 1
             y == Len(q)
  <2>2. /\ x \in 1 .. Len(q) + 1 /\ y \in x - 1 .. Len(q) /\ y - x + 1 = Len(q) - k
        /\ \A i \in 1 .. Len(q) - k : x + i - 1 = k + i
    BY <1>1, <1>2, <2>1
  <2> HIDE DEF x, y
  <2>3. /\ SubSeq(q, x, y) \in Seq(Byte) /\ Len(SubSeq(q, x, y)) = y - x + 1
        /\ \A i \in 1 .. y - x + 1 : SubSeq(q, x, y)[i] = q[x + i - 1]
    BY <1>1, <2>2, SubSeqProperties, SMTT(30)
  <2>4. SubSeq(q, x, y) = t
    BY DEF x, y
  <2> HIDE DEF t
  <2>5. \A i \in 1 .. Len(q) - k : t[i] = q[k + i]
    BY <2>2, <2>3, <2>4
  <2> QED
    BY <2>2, <2>3, <2>4, <2>5
<1> HIDE DEF t
<1> DEFINE n == m + k
<1>4. n \in Nat /\ n <= w /\ w <= Len(r) /\ Len(t) = w - n /\ Len(r) >= 2
  BY <1>1, <1>2, <1>3
<1>5. \A i \in 1 .. Len(t) : r[n + i] = t[i]
  <2> SUFFICES ASSUME NEW i \in 1 .. Len(q) - k PROVE r[n + i] = t[i]
    BY <1>3
  <2>1. k + i \in 1 .. w - m /\ m + (k + i) = n + i
    BY <1>1, <1>2
  <2>2. t[i] = q[k + i]
    BY <1>3
  <2> HIDE DEF n
  <2> QED
    BY <1>1, <2>1, <2>2
<1>6. c = [raw |-> r, sz |-> Len(r), idx_read |-> n, idx_write |-> w]
  <2>1. c = [[raw |-> r, sz |-> s, idx_read |-> m, idx_write |-> w] EXCEPT !.idx_read = n]
    BY <1>1
  <2> QED
    BY <1>1, <2>1
<1> HIDE DEF n, c
<1>7. LET d == [raw |-> r, sz |-> Len(r), idx_read |-> n, idx_write |-> w]
      IN  d \in Buffer /\ Content(d) = t
  BY <1>1, <1>3, <1>4, <1>5, MakeBuffer
<1>8. c \in Buffer /\ Content(c) = t /\ c.sz = s
  BY <1>1, <1>6, <1>7
<1>9. c = [b EXCEPT !.idx_read = @ + k]
  BY DEF c, m
<1> QED
  BY <1>8, <1>9 DEF t, q, s

\* A step that puts data in, and one that takes k bytes out.
Puts(data) ==
  /\ buf' \in Buffer /\ Content(buf') = Content(buf) \o data /\ ret' = <<>>
  /\ buf'.sz = buf.sz \/ buf'.sz <= 4 * (Len(Content(buf')) + 1)

Takes(k) ==
  /\ buf' \in Buffer /\ Content(buf') = SubSeq(Content(buf), k + 1, Len(Content(buf)))
  /\ ret' = SubSeq(Content(buf), 1, k)
  /\ buf'.sz = buf.sz

\* What is put in by one call.
LEMMA BoundedType ==
  ASSUME NEW data \in BoundedSeq(Byte, MaxData)
  PROVE  data \in Seq(Byte)
<1>1. PICK m \in 0 .. MaxData : data \in [1 .. m -> Byte]
  BY DEF BoundedSeq, SeqOf
<1> QED
  BY <1>1, DataAssumption, FunctionIsSeq

\* buf_write puts in.
LEMMA WritePuts ==
  ASSUME TypeOK, Write
  PROVE  \E data \in BoundedSeq(Byte, MaxData) : Puts(data)
<1>1. PICK data \in BoundedSeq(Byte, MaxData) :
        buf' = Store(Readjust(buf, Len(data)), data) /\ ret' = <<>> /\ data # <<>>
  BY DEF Write
<1> DEFINE n == Len(data)
           c == Readjust(buf, n)
           q == Content(buf)
<1>2. data \in Seq(Byte) /\ n \in Nat /\ n >= 1 /\ buf \in Buffer
  BY <1>1, BoundedType, LenProperties, EmptySeq DEF TypeOK
<1> HIDE DEF n
<1>3. MadeRoom(c, buf, n)
  BY <1>2, ReadjustMakesRoom
<1> HIDE DEF c
<1>4. c \in Buffer /\ n <= Room(c) /\ Content(c) = q /\ q \in Seq(Byte)
  BY <1>2, <1>3, BufferType DEF MadeRoom
<1>5. /\ Store(c, data) \in Buffer /\ Content(Store(c, data)) = Content(c) \o data
      /\ Store(c, data).sz = c.sz
  BY <1>2, <1>4, StoreAppends DEF n
<1>6. buf' = Store(c, data)
  BY <1>1 DEF c, n
<1> HIDE DEF q
<1>7. Len(q \o data) = Len(q) + n /\ Len(q) \in Nat
  BY <1>2, <1>4, ConcatProperties, LenProperties DEF n
<1>8. buf'.sz = buf.sz \/ buf'.sz <= 4 * (Len(Content(buf')) + 1)
  <2>1. c.sz \in Nat
    BY <1>4, BufferType
  <2>2. c.sz = buf.sz \/ c.sz <= 4 * (Len(q) + n)
    BY <1>3 DEF MadeRoom, q
  <2>3. Len(Content(buf')) = Len(q) + n
    BY <1>4, <1>5, <1>6, <1>7
  <2> QED
    BY <1>2, <1>5, <1>6, <1>7, <2>1, <2>2, <2>3
<1> QED
  BY <1>1, <1>4, <1>5, <1>6, <1>8 DEF Puts, q

\* buf_from_sock puts in.
LEMMA ReceivePuts ==
  ASSUME TypeOK, Receive
  PROVE  \E data \in BoundedSeq(Byte, MaxData) : Puts(data)
<1>1. PICK data \in BoundedSeq(Byte, MaxData) :
        buf' = FromSock(buf, data) /\ ret' = <<>>
  BY DEF Receive
<1>2. data \in Seq(Byte) /\ buf \in Buffer
  BY BoundedType DEF TypeOK
<1>3. Took(FromSock(buf, data), buf, data)
  BY <1>2, FromSockTakes
<1> QED
  BY <1>1, <1>3 DEF Took, Puts

\* buf_read takes out.
LEMMA ReadStep ==
  ASSUME TypeOK, Read
  PROVE  \E k \in 0 .. Len(Content(buf)) : Takes(k)
<1> DEFINE q == Content(buf)
<1>1. PICK n \in 1 .. MaxData :
        ret' = Peeked(buf, n) /\ buf' = [buf EXCEPT !.idx_read = @ + Len(ret')]
  BY DEF Read
<1> DEFINE k == Min({n, Len(q)})
<1>2. buf \in Buffer /\ q \in Seq(Byte) /\ Len(q) \in Nat
  BY BufferType, LenProperties DEF TypeOK
<1> HIDE DEF q
<1>3. k \in 0 .. Len(q)
  <2>1. n \in Nat
    BY DataAssumption
  <2>2. \E x \in {n, Len(q)} : \A y \in {n, Len(q)} : x =< y
    BY <1>2, <2>1
  <2>3. k \in {n, Len(q)} /\ \A y \in {n, Len(q)} : k =< y
    BY <2>2 DEF Min
  <2> QED
    BY <1>2, <2>1, <2>3
<1>4. ret' = SubSeq(q, 1, k)
  BY <1>1 DEF Peeked, q
<1> HIDE DEF k
<1>5. Len(ret') = k
  BY <1>2, <1>3, <1>4, ByteSplit
<1>6. buf' = [buf EXCEPT !.idx_read = @ + k]
  BY <1>1, <1>5
<1>7. /\ buf' \in Buffer /\ Content(buf') = SubSeq(q, k + 1, Len(q))
      /\ buf'.sz = buf.sz
  BY <1>2, <1>3, <1>6, ReadTakes DEF q
<1> QED
  BY <1>3, <1>4, <1>7 DEF Takes, q

\* buf_to_sock takes out.
LEMMA ToSockStep ==
  ASSUME TypeOK, ToSock
  PROVE  \E k \in 0 .. Len(Content(buf)) : Takes(k)
<1> DEFINE q == Content(buf)
<1>1. PICK k \in 0 .. Len(q) :
        ret' = Peeked(buf, k) /\ buf' = [buf EXCEPT !.idx_read = @ + k]
  BY DEF ToSock
<1>2. buf \in Buffer /\ q \in Seq(Byte) /\ Len(q) \in Nat
  BY BufferType, LenProperties DEF TypeOK
<1> HIDE DEF q
<1>3. Min({k, Len(q)}) = k
  <2>1. \E x \in {k, Len(q)} : \A y \in {k, Len(q)} : x =< y
    BY <1>2
  <2> DEFINE x == Min({k, Len(q)})
  <2>2. x \in {k, Len(q)} /\ \A y \in {k, Len(q)} : x =< y
    BY <2>1 DEF Min
  <2> HIDE DEF x
  <2>3. x = k
    BY <1>2, <2>2
  <2> QED
    BY <2>3 DEF x
<1>4. ret' = SubSeq(q, 1, k)
  BY <1>1, <1>3 DEF Peeked, q
<1>5. /\ buf' \in Buffer /\ Content(buf') = SubSeq(q, k + 1, Len(q))
      /\ buf'.sz = buf.sz
  BY <1>1, <1>2, ReadTakes DEF q
<1> QED
  BY <1>4, <1>5 DEF Takes, q

\* A step puts in or takes out.
LEMMA Steps ==
  ASSUME TypeOK, Next
  PROVE  \/ \E data \in BoundedSeq(Byte, MaxData) : Puts(data)
         \/ \E k \in 0 .. Len(Content(buf)) : Takes(k)
BY WritePuts, ReceivePuts, ReadStep, ToSockStep DEF Next

\* SAFE_ASSERT in buf_realloc: the block that buf_readjust asks for is larger
\* than the content.
THEOREM ReallocFits == \A b \in Buffer : Resized(b).sz > Len(Content(b))
<1> SUFFICES ASSUME NEW b \in Buffer PROVE Resized(b).sz > Len(Content(b))
  OBVIOUS
<1> DEFINE l == Len(Content(b))
           m == b.sz * 2
<1>1. /\ b.sz \in Nat /\ b.sz >= 2 /\ b.idx_read \in Nat /\ b.idx_write \in Nat
      /\ b.idx_read <= b.idx_write /\ b.idx_write <= b.sz /\ l = b.idx_write - b.idx_read
  BY BufferType
<1>2. m \in Nat /\ m >= 2 /\ l < m /\ l <= b.sz
  BY <1>1
<1>3. ~ (b.idx_read < b.sz \div 2) => l < b.sz
  BY <1>1
<1> HIDE DEF m
<1>4. Realloc(b, m).sz = m /\ Realloc(b, b.sz).sz = b.sz
  BY <1>1, <1>2, ReallocMoves
<1>5. Resized(b) = IF b.idx_read < b.sz \div 2 THEN Realloc(b, m) ELSE Realloc(b, b.sz)
  BY DEF Resized, m
<1> QED
  BY <1>2, <1>3, <1>4, <1>5

\* The first block is empty.
LEMMA TypeInit == Init => TypeOK /\ Content(buf) = <<>>
BY MallocEmpty, SizeAssumption, EmptySeq DEF Init, TypeOK

\* Every step keeps the types.
LEMMA TypeStep == TypeOK /\ [Next]_vars => TypeOK'
<1> SUFFICES ASSUME TypeOK, [Next]_vars PROVE TypeOK'
  OBVIOUS
<1>1. ASSUME NEW data \in BoundedSeq(Byte, MaxData), Puts(data) PROVE TypeOK'
  BY <1>1, EmptySeq DEF Puts, TypeOK
<1>2. ASSUME NEW k \in 0 .. Len(Content(buf)), Takes(k) PROVE TypeOK'
  <2>1. Content(buf) \in Seq(Byte)
    BY BufferType DEF TypeOK
  <2>2. ret' \in Seq(Byte)
    BY <1>2, <2>1, ByteSplit DEF Takes
  <2> QED
    BY <1>2, <2>2 DEF Takes, TypeOK
<1>3. CASE UNCHANGED vars
  BY <1>3 DEF vars, TypeOK
<1> QED
  BY <1>1, <1>2, <1>3, Steps

\* Type correctness: through every compaction and enlargement the indexes stay
\* in the block and no byte is handed out that malloc left there.
THEOREM BufTypeCorrect == Spec => []TypeOK
BY TypeInit, TypeStep, PTL DEF Spec

\* The memory implements the queue of bytes.
THEOREM BufImplementsQueue == Spec => IsByteQueue
<1>1. Init => Queue!Init
  BY TypeInit DEF Init, Queue!Init
<1>2. TypeOK /\ [Next]_vars => [Queue!Next]_(Queue!vars)
  <2> SUFFICES ASSUME TypeOK, [Next]_vars PROVE [Queue!Next]_(Queue!vars)
    OBVIOUS
  <2>1. ASSUME NEW data \in BoundedSeq(Byte, MaxData), Puts(data) PROVE Queue!Next
    BY <2>1
       DEF Puts, Queue!Next, Queue!Put, BoundedSeq, SeqOf, Queue!BoundedSeq, Queue!SeqOf
  <2>2. ASSUME NEW k \in 0 .. Len(Content(buf)), Takes(k) PROVE Queue!Next
    BY <2>2 DEF Takes, Queue!Next, Queue!Take
  <2>3. CASE UNCHANGED vars
    BY <2>3 DEF vars, Queue!vars
  <2> QED
    BY <2>1, <2>2, <2>3, Steps
<1> QED
  BY <1>1, <1>2, TypeInit, TypeStep, PTL DEF Spec, IsByteQueue, Queue!Spec

\* The block grows only for what is in it.
THEOREM BufGrowsWithContent == Spec => GrowsWithContent
<1>1. TypeOK /\ [Next]_vars
        => [buf'.sz > buf.sz => buf'.sz <= 4 * (Len(Content(buf')) + 1)]_vars
  <2> SUFFICES ASSUME TypeOK, Next, buf'.sz > buf.sz
               PROVE  buf'.sz <= 4 * (Len(Content(buf')) + 1)
    OBVIOUS
  <2>1. buf.sz \in Nat
    BY BufferType DEF TypeOK
  <2> QED
    BY <2>1, Steps DEF Puts, Takes
<1> QED
  BY <1>1, TypeInit, TypeStep, PTL DEF Spec, GrowsWithContent
=============================================================================
