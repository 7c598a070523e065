--------------------------- MODULE ProtobufCProof ---------------------------
(***************************************************************************)
(* Proofs about modules ProtobufC and MPaxosMessages: what one node packs  *)
(* another unpacks, for every message of every type of this program, with  *)
(* whatever numbers and bytes in it and however many rounds or responses.  *)
(* First the numbers and bytes (varints, keys, lengths); then one member,  *)
(* scanned and parsed; then the members of a message one after the other,  *)
(* in the three loops of pack, scan and parse; and last the messages, from *)
(* the innermost level to the outermost.  That the packed bytes take the   *)
(* room get_packed_size says is proved along with it.                      *)
(***************************************************************************)
EXTENDS MPaxosMessages, Recursion

\* Strings of bytes.
Bytes == Seq(Octet)

\* A byte is a number below 256.
LEMMA BytesType ==
  ASSUME NEW data \in Bytes
  PROVE  /\ data \in Seq(Octet) /\ Len(data) \in Nat /\ DOMAIN data = 1 .. Len(data)
         /\ \A i \in 1 .. Len(data) : data[i] \in Octet /\ data[i] \in Nat /\ data[i] < 256
<1>1. Len(data) \in Nat /\ \A i \in 1 .. Len(data) : data[i] \in Octet
  BY DEF Bytes
<1>2. \A o \in Octet : o \in Nat /\ o < 256
  BY DEF Octet
<1> QED
  BY <1>1, <1>2 DEF Bytes

\* The first byte below 128 ends a varint.
LEMMA VarintEnds ==
  ASSUME NEW data \in Bytes, NEW max \in Nat, NEW n \in 1 .. max, n <= Len(data),
         data[n] < 128, \A i \in 1 .. n - 1 : data[i] >= 128
  PROVE  VarintLen(data, max) = n
<1> DEFINE ends == {i \in 1 .. Least(Len(data), max) : data[i] < 128}
<1>1. n \in ends /\ \A j \in ends : n <= j
  <2>1. Len(data) \in Nat /\ \A i \in 1 .. Len(data) : data[i] \in Nat
    BY BytesType
  <2>2. n \in ends
    BY <2>1 DEF Least
  <2>3. ASSUME NEW j \in ends, ~ n <= j PROVE FALSE
    <3>1. j \in 1 .. n - 1 /\ j \in 1 .. Len(data)
      BY <2>1, <2>3 DEF Least
    <3> QED
      BY <2>1, <2>3, <3>1
  <2> QED
    BY <2>2, <2>3
<1>2. ends \subseteq Nat
  BY DEF Least, Bytes
<1>3. ends # {} /\ \A i \in ends : (\A j \in ends : i <= j) => i = n
  BY <1>1, <1>2
<1>4. VarintLen(data, max) = IF ends = {} THEN 0 ELSE CHOOSE i \in ends : \A j \in ends : i <= j
  BY DEF VarintLen
<1> HIDE DEF ends
<1>5. (CHOOSE i \in ends : \A j \in ends : i <= j) = n
  BY <1>1, <1>3
<1> QED
  BY <1>3, <1>4, <1>5

\* Where one ends, it is within the data and the limit.
LEMMA VarintType ==
  ASSUME NEW data \in Bytes, NEW max \in Nat
  PROVE  VarintLen(data, max) \in 0 .. Least(Len(data), max)
<1> DEFINE ends == {i \in 1 .. Least(Len(data), max) : data[i] < 128}
<1>1. VarintLen(data, max) = IF ends = {} THEN 0 ELSE CHOOSE i \in ends : \A j \in ends : i <= j
  BY DEF VarintLen
<1>2. Len(data) \in Nat /\ Least(Len(data), max) \in Nat
  BY DEF Least, Bytes
<1>3. ends \subseteq 1 .. Least(Len(data), max)
  OBVIOUS
<1> HIDE DEF ends
<1>4. CASE ends = {}
  BY <1>1, <1>2, <1>4
<1>5. CASE ends # {}
  <2> DEFINE S == {n \in Nat : \A i \in ends : i <= n => \E k \in ends : \A j \in ends : k <= j}
  <2>1. 0 \in S
    BY <1>2, <1>3
  <2>2. ASSUME NEW n \in Nat, n \in S PROVE n + 1 \in S
    <3> SUFFICES ASSUME NEW i \in ends, i <= n + 1, \A j \in ends : ~ j <= n
                 PROVE  \E k \in ends : \A j \in ends : k <= j
      BY <2>2
    <3>1. \A j \in ends : i <= j
      BY <1>2, <1>3
    <3> QED
      BY <3>1
  <2> HIDE DEF S
  <2>3. \A n \in Nat : n \in S
    BY <2>1, <2>2, SetInduction
  <2>4. \E k \in ends : \A j \in ends : k <= j
    <3>1. PICK i \in ends : TRUE
      BY <1>5
    <3>2. i \in Nat /\ i <= i
      BY <1>2, <1>3
    <3> QED
      BY <2>3, <3>2 DEF S
  <2>5. (CHOOSE i \in ends : \A j \in ends : i <= j) \in ends
    BY <2>4
  <2>6. VarintLen(data, max) \in ends
    BY <1>1, <1>5, <2>5
  <2>7. \A l \in Nat : \A k \in 1 .. l : k \in 0 .. l
    OBVIOUS
  <2> QED
    BY <1>2, <1>3, <2>6, <2>7
<1> QED
  BY <1>4, <1>5

\* A varint of a number takes the bytes uint32_size says, ends there, and is the
\* number, whatever follows it.
LEMMA PackedUInt32 ==
  ASSUME NEW v \in UInt32
  PROVE  /\ uint32_size(v) \in 1 .. 5
         /\ uint32_pack(v) \in Bytes /\ Len(uint32_pack(v)) = uint32_size(v)
         /\ \A i \in 1 .. uint32_size(v) - 1 : uint32_pack(v)[i] >= 128
         /\ uint32_pack(v)[uint32_size(v)] < 128
         /\ uint32_size(v) = 5 => uint32_pack(v)[5] < 8
         /\ parse_uint32(uint32_size(v), uint32_pack(v)) = v
<1> DEFINE q7 == v \div 2^7  q14 == v \div 2^14  q21 == v \div 2^21  q28 == v \div 2^28
<1>0. v \in Nat /\ q28 < 8
  BY SMT DEF UInt32
<1>1. /\ q7 \in Nat /\ q14 \in Nat /\ q21 \in Nat /\ q28 \in Nat
      /\ v = q7 * 128 + (v % 128) /\ v % 128 \in 0 .. 127
  BY <1>0, SMT
<1>2. q7 = q14 * 128 + (q7 % 128) /\ q7 % 128 \in 0 .. 127
  BY <1>0, SMT
<1>3. q14 = q21 * 128 + (q14 % 128) /\ q14 % 128 \in 0 .. 127
  BY <1>0, SMT
<1>4. q21 = q28 * 128 + (q21 % 128) /\ q21 % 128 \in 0 .. 127
  BY <1>0, SMT
<1>5. \A a \in 0 .. 127 : /\ (128 + a) % 128 = a /\ a % 128 = a /\ 128 + a \in Octet
                          /\ a \in Octet /\ 128 + a >= 128
  BY DEF Octet
<1>6. q28 % 16 = q28 /\ q28 \in Octet
  BY <1>0, <1>1 DEF Octet
<1> DEFINE m0 == 128 + (v % 128)  m7 == 128 + (q7 % 128)  m14 == 128 + (q14 % 128)
           m21 == 128 + (q21 % 128)
           r0 == v % 128  r7 == q7 % 128  r14 == q14 % 128  r21 == q21 % 128
<1>7. /\ m0 % 128 = r0 /\ m0 \in Octet /\ m0 >= 128
      /\ m7 % 128 = r7 /\ m7 \in Octet /\ m7 >= 128
      /\ m14 % 128 = r14 /\ m14 \in Octet /\ m14 >= 128
      /\ m21 % 128 = r21 /\ m21 \in Octet /\ m21 >= 128
  <2> HIDE DEF q7, q14, q21
  <2> QED
    BY <1>1, <1>2, <1>3, <1>4, <1>5
<1>8. v = q7 * 128 + r0 /\ q7 = q14 * 128 + r7 /\ q14 = q21 * 128 + r14 /\ q21 = q28 * 128 + r21
  BY <1>1, <1>2, <1>3, <1>4
<1>9. r0 \in 0 .. 127 /\ r7 \in 0 .. 127 /\ r14 \in 0 .. 127 /\ r21 \in 0 .. 127
  BY <1>1, <1>2, <1>3, <1>4
<1>a. CASE v < 2^7
  <2>1. uint32_size(v) = 1 /\ uint32_pack(v) = <<v>>
    BY <1>a DEF uint32_size, uint32_pack
  <2>2. v \in 0 .. 127 /\ v \in Octet /\ v % 128 = v
    BY <1>0, <1>a, <1>5
  <2>3. parse_uint32(1, <<v>>) = v
    BY <2>2 DEF parse_uint32, Group
  <2> QED
    BY <2>1, <2>2, <2>3, <1>5 DEF Bytes
<1>b. CASE ~ v < 2^7 /\ v < 2^14
  <2>1. uint32_size(v) = 2 /\ uint32_pack(v) = <<m0, q7>>
    BY <1>b DEF uint32_size, uint32_pack
  <2>2. q7 \in 0 .. 127 /\ q7 \in Octet /\ q7 % 128 = q7 /\ q7 < 128
    BY <1>0, <1>b, <1>5
  <2> HIDE DEF m0, q7, r0
  <2>3. parse_uint32(2, <<m0, q7>>) = r0 + q7 * 128
    BY <1>7, <1>9, <2>2 DEF parse_uint32, Group
  <2>4. <<m0, q7>> \in Seq(Octet) /\ Len(<<m0, q7>>) = 2
    BY <1>7, <2>2
  <2>5. parse_uint32(2, <<m0, q7>>) = v
    BY <1>8, <1>9, <2>2, <2>3
  <2> QED
    BY <2>1, <2>2, <2>4, <2>5, <1>7 DEF Bytes
<1>c. CASE ~ v < 2^14 /\ v < 2^21
  <2>1. uint32_size(v) = 3 /\ uint32_pack(v) = <<m0, m7, q14>>
    BY <1>0, <1>c DEF uint32_size, uint32_pack
  <2>2. q14 \in 0 .. 127 /\ q14 \in Octet /\ q14 % 128 = q14 /\ q14 < 128
    BY <1>0, <1>c, <1>5
  <2> HIDE DEF m0, m7, q7, q14, r0, r7
  <2>3. parse_uint32(3, <<m0, m7, q14>>) = r0 + r7 * 128 + q14 * 16384
    BY <1>7, <1>9, <2>2 DEF parse_uint32, Group
  <2>4. <<m0, m7, q14>> \in Seq(Octet) /\ Len(<<m0, m7, q14>>) = 3
    BY <1>7, <2>2
  <2>5. parse_uint32(3, <<m0, m7, q14>>) = v
    BY <1>8, <1>9, <2>2, <2>3
  <2> QED
    BY <2>1, <2>2, <2>4, <2>5, <1>7 DEF Bytes
<1>d. CASE ~ v < 2^21 /\ v < 2^28
  <2>1. uint32_size(v) = 4 /\ uint32_pack(v) = <<m0, m7, m14, q21>>
    BY <1>0, <1>d DEF uint32_size, uint32_pack
  <2>2. q21 \in 0 .. 127 /\ q21 \in Octet /\ q21 % 128 = q21 /\ q21 < 128
    BY <1>0, <1>d, <1>5
  <2> HIDE DEF m0, m7, m14, q7, q14, q21, r0, r7, r14
  <2>3. parse_uint32(4, <<m0, m7, m14, q21>>) = r0 + r7 * 128 + r14 * 16384 + q21 * 2^21
    BY <1>7, <1>9, <2>2 DEF parse_uint32, Group
  <2>4. <<m0, m7, m14, q21>> \in Seq(Octet) /\ Len(<<m0, m7, m14, q21>>) = 4
    BY <1>7, <2>2
  <2>5. parse_uint32(4, <<m0, m7, m14, q21>>) = v
    BY <1>8, <1>9, <2>2, <2>3
  <2> QED
    BY <2>1, <2>2, <2>4, <2>5, <1>7 DEF Bytes
<1>e. CASE ~ v < 2^28
  <2>1. uint32_size(v) = 5 /\ uint32_pack(v) = <<m0, m7, m14, m21, q28>>
    BY <1>0, <1>e DEF uint32_size, uint32_pack
  <2>2. q28 \in Nat /\ q28 < 8
    BY <1>0, <1>1
  <2> HIDE DEF m0, m7, m14, m21, q7, q14, q21, q28, r0, r7, r14, r21
  <2>3. parse_uint32(5, <<m0, m7, m14, m21, q28>>)
          = r0 + r7 * 128 + r14 * 16384 + r21 * 2^21 + q28 * 2^28
    BY <1>6, <1>7, <1>9, <2>2 DEF parse_uint32, Group
  <2>4. <<m0, m7, m14, m21, q28>> \in Seq(Octet) /\ Len(<<m0, m7, m14, m21, q28>>) = 5
    BY <1>6, <1>7
  <2>5. parse_uint32(5, <<m0, m7, m14, m21, q28>>) = v
    BY <1>8, <1>9, <2>2, <2>3
  <2> QED
    BY <2>1, <2>2, <2>4, <2>5, <1>7 DEF Bytes
<1> QED
  BY <1>a, <1>b, <1>c, <1>d, <1>e

\* Of what follows the bytes of a varint the parsers see nothing.
LEMMA GroupPrefix ==
  ASSUME NEW p \in Bytes, NEW rest \in Bytes, NEW len \in Nat, len <= Len(p)
  PROVE  /\ p \o rest \in Bytes /\ Len(p \o rest) = Len(p) + Len(rest)
         /\ \A i \in 1 .. Len(p) : (p \o rest)[i] = p[i]
         /\ \A i \in Nat \ {0} : \A weight : Group(i, len, p \o rest, weight) = Group(i, len, p, weight)
         /\ parse_uint32(len, p \o rest) = parse_uint32(len, p)
<1>1. /\ p \o rest \in Bytes /\ Len(p \o rest) = Len(p) + Len(rest)
      /\ \A i \in 1 .. Len(p) : (p \o rest)[i] = p[i]
  BY DEF Bytes
<1>2. Len(p) \in Nat
  BY BytesType
<1> DEFINE d == p \o rest
<1>3. \A i \in Nat \ {0} : \A weight : Group(i, len, d, weight) = Group(i, len, p, weight)
  <2> SUFFICES ASSUME NEW i \in Nat \ {0}, NEW weight, i <= len
               PROVE  (d[i] % 128) * weight = (p[i] % 128) * weight
    BY DEF Group
  <2>1. i \in 1 .. Len(p)
    BY <1>2
  <2> QED
    BY <1>1, <2>1
<1>4. 5 <= len => d[5] = p[5]
  BY <1>1, <1>2
<1> HIDE DEF d
<1>5. parse_uint32(len, d) = parse_uint32(len, p)
  BY <1>3, <1>4 DEF parse_uint32
<1> QED
  BY <1>1, <1>3, <1>5 DEF d

\* The four groups uint64_pack takes from lo, and what is left of it.
LEMMA LowGroups ==
  ASSUME NEW v \in UInt32
  PROVE  /\ v % 128 \in 0 .. 127 /\ (v \div 2^7) % 128 \in 0 .. 127
         /\ (v \div 2^14) % 128 \in 0 .. 127 /\ (v \div 2^21) % 128 \in 0 .. 127
         /\ v \div 2^28 \in 0 .. 7
         /\ v = (v % 128) + ((v \div 2^7) % 128) * 2^7 + ((v \div 2^14) % 128) * 2^14
                + ((v \div 2^21) % 128) * 2^21 + (v \div 2^28) * 2^28
<1> DEFINE q7 == v \div 2^7  q14 == v \div 2^14  q21 == v \div 2^21  q28 == v \div 2^28
<1>0. v \in Nat /\ q28 < 8
  BY SMT DEF UInt32
<1>1. /\ q7 \in Nat /\ q14 \in Nat /\ q21 \in Nat /\ q28 \in Nat
      /\ v = q7 * 128 + (v % 128) /\ v % 128 \in 0 .. 127
  BY <1>0, SMT
<1>2. q7 = q14 * 128 + (q7 % 128) /\ q7 % 128 \in 0 .. 127
  BY <1>0, SMT
<1>3. q14 = q21 * 128 + (q14 % 128) /\ q14 % 128 \in 0 .. 127
  BY <1>0, SMT
<1>4. q21 = q28 * 128 + (q21 % 128) /\ q21 % 128 \in 0 .. 127
  BY <1>0, SMT
<1>5. q28 \in 0 .. 7
  BY <1>0, <1>1
<1> DEFINE a == v % 128  b == q7 % 128  c == q14 % 128  d == q21 % 128
<1>6. v = a + b * 2^7 + c * 2^14 + d * 2^21 + q28 * 2^28
  <2> HIDE DEF q7, q14, q21, q28, a, b, c, d
  <2>1. /\ v = q7 * 128 + a /\ q7 = q14 * 128 + b /\ q14 = q21 * 128 + c /\ q21 = q28 * 128 + d
        /\ a \in Nat /\ b \in Nat /\ c \in Nat /\ d \in Nat /\ q28 \in Nat
    BY <1>1, <1>2, <1>3, <1>4 DEF a, b, c, d
  <2> QED
    BY <2>1, SMT
<1> QED
  BY <1>1, <1>2, <1>3, <1>4, <1>5, <1>6

\* The bytes of the three parts of a packed uint64_t.
FiveAndMore(v0, v1, v2, v3, v4, t) == <<v0, v1, v2, v3>> \o (<<v4>> \o t)

\* From the sixth byte on q is t.
BehindFive(q, t) == \A i \in 1 .. Len(t) : q[5 + i] = t[i]

\* They are five bytes and t.
LEMMA FiveAnd ==
  ASSUME NEW v0 \in Octet, NEW v1 \in Octet, NEW v2 \in Octet, NEW v3 \in Octet,
         NEW v4 \in Octet, NEW t \in Bytes
  PROVE  /\ FiveAndMore(v0, v1, v2, v3, v4, t) \in Bytes
         /\ Len(FiveAndMore(v0, v1, v2, v3, v4, t)) = 5 + Len(t)
         /\ FiveAndMore(v0, v1, v2, v3, v4, t)[1] = v0
         /\ FiveAndMore(v0, v1, v2, v3, v4, t)[2] = v1
         /\ FiveAndMore(v0, v1, v2, v3, v4, t)[3] = v2
         /\ FiveAndMore(v0, v1, v2, v3, v4, t)[4] = v3
         /\ FiveAndMore(v0, v1, v2, v3, v4, t)[5] = v4
         /\ BehindFive(FiveAndMore(v0, v1, v2, v3, v4, t), t)
<1> DEFINE x == <<v0, v1, v2, v3>>
           y == <<v4>>
           z == y \o t
<1>1. /\ x \in Seq(Octet) /\ Len(x) = 4 /\ y \in Seq(Octet) /\ Len(y) = 1
      /\ x[1] = v0 /\ x[2] = v1 /\ x[3] = v2 /\ x[4] = v3 /\ y[1] = v4
      /\ t \in Seq(Octet) /\ Len(t) \in Nat
  BY DEF Bytes
<1> HIDE DEF x, y
<1>2. /\ z \in Seq(Octet) /\ Len(z) = 1 + Len(t) /\ z[1] = v4
      /\ \A i \in 1 .. Len(t) : z[1 + i] = t[i]
  <2>1. /\ z \in Seq(Octet) /\ Len(z) = Len(y) + Len(t)
        /\ \A i \in 1 .. Len(y) + Len(t) : z[i] = IF i <= Len(y) THEN y[i] ELSE t[i - Len(y)]
    BY <1>1, ConcatProperties
  <2> HIDE DEF z
  <2>2. ASSUME NEW i \in 1 .. Len(t) PROVE z[1 + i] = t[i]
    <3>1. 1 + i \in 1 .. Len(y) + Len(t) /\ ~ 1 + i <= Len(y) /\ 1 + i - Len(y) = i
      BY <1>1
    <3> QED
      BY <2>1, <3>1
  <2>3. z[1] = v4
    BY <1>1, <2>1
  <2> QED
    BY <1>1, <2>1, <2>2, <2>3
<1> HIDE DEF z
<1> DEFINE q == FiveAndMore(v0, v1, v2, v3, v4, t)
<1>3. /\ q \in Seq(Octet) /\ Len(q) = 4 + Len(z)
      /\ \A i \in 1 .. 4 : q[i] = x[i]
      /\ \A i \in 1 .. Len(z) : q[4 + i] = z[i]
  <2>1. q = x \o z
    BY DEF x, y, z, FiveAndMore
  <2> HIDE DEF q
  <2>2. /\ q \in Seq(Octet) /\ Len(q) = Len(x) + Len(z)
        /\ \A i \in 1 .. Len(x) + Len(z) : q[i] = IF i <= Len(x) THEN x[i] ELSE z[i - Len(x)]
    BY <1>1, <1>2, <2>1, ConcatProperties
  <2>3. ASSUME NEW i \in 1 .. Len(z) PROVE q[4 + i] = z[i]
    <3>1. 4 + i \in 1 .. Len(x) + Len(z) /\ ~ 4 + i <= Len(x) /\ 4 + i - Len(x) = i
      BY <1>1, <1>2
    <3> QED
      BY <2>2, <3>1
  <2>4. ASSUME NEW i \in 1 .. 4 PROVE q[i] = x[i]
    BY <1>1, <1>2, <2>2
  <2> QED
    BY <1>1, <2>2, <2>3, <2>4
<1> HIDE DEF q
<1>4. q[1] = v0 /\ q[2] = v1 /\ q[3] = v2 /\ q[4] = v3 /\ q[4 + 1] = v4
  BY <1>1, <1>2, <1>3
<1>5. ASSUME NEW i \in 1 .. Len(t) PROVE q[5 + i] = t[i]
  <2>1. 1 + i \in 1 .. Len(z) /\ 4 + (1 + i) = 5 + i
    BY <1>1, <1>2
  <2> QED
    BY <1>2, <1>3, <2>1
<1> QED
  BY <1>1, <1>2, <1>3, <1>4, <1>5 DEF Bytes, q, BehindFive

\* The same of a uint64_t.
LEMMA PackedUInt64 ==
  ASSUME NEW w \in UInt64
  PROVE  /\ uint64_size(w) \in 1 .. 9
         /\ uint64_pack(w) \in Bytes /\ Len(uint64_pack(w)) = uint64_size(w)
         /\ \A i \in 1 .. uint64_size(w) - 1 : uint64_pack(w)[i] >= 128
         /\ uint64_pack(w)[uint64_size(w)] < 128
         /\ parse_uint64(uint64_size(w), uint64_pack(w)) = w
<1>0. w.hi \in UInt32 /\ w.lo \in UInt32 /\ w = [hi |-> w.hi, lo |-> w.lo]
  BY DEF UInt64
<1>1. /\ w.hi \in Nat /\ w.hi \div 8 \in Nat /\ w.hi = (w.hi \div 8) * 8 + (w.hi % 8)
      /\ w.hi % 8 \in 0 .. 7 /\ w.hi \div 8 < 2^28
  <2>1. w.hi \in Nat /\ w.hi \div 8 < 2^28
    BY <1>0, SMT DEF UInt32
  <2> QED
    BY <2>1, SMT
<1> DEFINE a == w.lo % 128
           b == (w.lo \div 2^7) % 128
           c == (w.lo \div 2^14) % 128
           d == (w.lo \div 2^21) % 128
           e == w.lo \div 2^28
<1>2. /\ a \in 0 .. 127 /\ b \in 0 .. 127 /\ c \in 0 .. 127 /\ d \in 0 .. 127 /\ e \in 0 .. 7
      /\ w.lo = a + b * 2^7 + c * 2^14 + d * 2^21 + e * 2^28
  BY <1>0, LowGroups
<1>2a. uint64_pack(w) =
         LET lo4 == <<128 + a, 128 + b, 128 + c, 128 + d>>
             middle == (w.hi % 8) * 16 + e
         IN  IF w.hi = 0 THEN uint32_pack(w.lo)
             ELSE IF w.hi < 8 THEN lo4 \o <<middle>>
             ELSE lo4 \o (<<128 + middle>> \o uint32_pack(w.hi \div 8))
  BY DEF uint64_pack
<1> HIDE DEF a, b, c, d, e
<1>3. \A x \in 0 .. 127 : /\ (128 + x) % 128 = x /\ x % 128 = x /\ 128 + x \in Octet
                          /\ x \in Octet /\ 128 + x >= 128
  BY DEF Octet
<1> DEFINE hi == w.hi
           lo == w.lo
           lo4 == <<128 + a, 128 + b, 128 + c, 128 + d>>
           middle == (hi % 8) * 16 + e
           u == hi \div 8
<1>4. /\ middle \in 0 .. 127 /\ middle % 128 = middle /\ middle \div 16 = hi % 8
      /\ (128 + middle) % 128 = middle /\ (128 + middle) % 16 = e /\ middle % 16 = e
      /\ middle \in Octet /\ 128 + middle \in Octet
  <2> DEFINE x == hi % 8
  <2>1. x \in 0 .. 7
    BY <1>1
  <2> HIDE DEF x
  <2>2. LET m == x * 16 + e
        IN  m \in 0 .. 127 /\ m \div 16 = x /\ m % 16 = e /\ (128 + m) % 16 = e
    BY <1>2, <2>1, SMT
  <2> QED
    BY <1>3, <2>2 DEF x
<1>a. CASE hi = 0
  <2>1. uint64_size(w) = uint32_size(lo) /\ uint64_pack(w) = uint32_pack(lo)
    BY <1>a DEF uint64_size, uint64_pack
  <2> DEFINE p == uint32_pack(lo)
             n == uint32_size(lo)
  <2>2. /\ n \in 1 .. 5 /\ p \in Bytes /\ Len(p) = n /\ p[n] < 128
        /\ \A i \in 1 .. n - 1 : p[i] >= 128
        /\ n = 5 => p[5] < 8
        /\ parse_uint32(n, p) = lo
    BY <1>0, PackedUInt32
  <2> HIDE DEF p, n
  <2>3. CASE n < 5
    <3>1. parse_uint64(n, p) = [hi |-> 0, lo |-> lo]
      BY <2>3, <2>2 DEF parse_uint64, Word64
    <3>2. parse_uint64(n, p) = w
      BY <3>1, <1>0, <1>a
    <3> QED
      BY <3>2, <2>1, <2>2 DEF n, p
  <2>4. CASE n = 5
    <3>1. p[5] \in Nat
      BY <2>2, <2>4, BytesType
    <3>2. (p[5] % 128) \div 16 = 0
      BY <3>1, <2>2, <2>4, SMT
    <3>3. parse_uint64(5, p) = [hi |-> 0, lo |-> lo]
      BY <2>2, <2>4, <3>2 DEF parse_uint64, Group
    <3>4. parse_uint64(n, p) = w
      BY <3>3, <2>4, <1>0, <1>a
    <3> QED
      BY <3>4, <2>1, <2>2 DEF n, p
  <2> QED
    BY <2>2, <2>3, <2>4
<1> DEFINE A == 128 + a  B == 128 + b  C == 128 + c  D == 128 + d  M == 128 + middle
<1>4a. A \in Octet /\ B \in Octet /\ C \in Octet /\ D \in Octet /\ M \in Octet /\ middle \in Octet
  BY <1>2, <1>3, <1>4
<1>4b. /\ w = [hi |-> hi, lo |-> lo] /\ hi \in Nat /\ u \in Nat /\ hi = u * 8 + (hi % 8)
       /\ hi % 8 \in 0 .. 7 /\ u < 2^28
       /\ lo = a + b * 2^7 + c * 2^14 + d * 2^21 + e * 2^28
  BY <1>0, <1>1, <1>2
<1>4c. /\ uint64_size(w) = IF hi = 0 THEN uint32_size(lo)
                  ELSE IF hi < 2^3 THEN 5 ELSE IF hi < 2^10 THEN 6
                  ELSE IF hi < 2^17 THEN 7 ELSE IF hi < 2^24 THEN 8 ELSE 9
  BY DEF uint64_size
<1>4d. hi = 0 => uint64_pack(w) = uint32_pack(lo)
  BY <1>2a
<1>4e. hi # 0 /\ hi < 8 => uint64_pack(w) = <<A, B, C, D>> \o <<middle>>
  BY <1>2a
<1>4f. hi # 0 /\ ~ hi < 8 => uint64_pack(w) = <<A, B, C, D>> \o (<<M>> \o uint32_pack(u))
  BY <1>2a
<1> HIDE DEF hi, lo, u, middle, A, B, C, D, M
<1>5. ASSUME NEW p \in Bytes,
             p[1] = A, p[2] = B, p[3] = C, p[4] = D, p[5] \in {middle, M}
      PROVE  /\ parse_uint32(5, p) = lo
             /\ (p[5] % 128) \div 16 = hi % 8
             /\ \A i \in 1 .. 4 : p[i] >= 128
  <2>1. p[5] % 16 = e /\ p[5] % 128 = middle
    BY <1>4, <1>5 DEF M
  <2>2. /\ Group(1, 5, p, 1) = a * 1 /\ Group(2, 5, p, 2^7) = b * 2^7
        /\ Group(3, 5, p, 2^14) = c * 2^14 /\ Group(4, 5, p, 2^21) = d * 2^21
    BY <1>5, <1>2, <1>3 DEF Group, A, B, C, D
  <2>3. parse_uint32(5, p) = lo
    BY <2>1, <2>2, <1>2, <1>4b DEF parse_uint32
  <2>4. \A i \in 1 .. 4 : p[i] >= 128
    BY <1>2, <1>5 DEF A, B, C, D
  <2> QED
    BY <2>1, <2>3, <2>4, <1>4
<1>b. CASE hi # 0 /\ hi < 8
  <2> DEFINE t == <<>>
             p == FiveAndMore(A, B, C, D, middle, t)
  <2>1. uint64_size(w) = 5 /\ uint64_pack(w) = p
    <3>1. <<middle>> \o <<>> = <<middle>>
      BY <1>4a
    <3> QED
      BY <1>b, <1>4c, <1>4e, <3>1 DEF FiveAndMore
  <2>2. t \in Bytes /\ Len(t) = 0
    BY DEF Bytes
  <2> HIDE DEF t
  <2>3. /\ p \in Bytes /\ Len(p) = 5
        /\ p[1] = A /\ p[2] = B /\ p[3] = C /\ p[4] = D /\ p[5] = middle
    <3>0. t \in Bytes
      BY <2>2
    <3>1. p \in Bytes /\ Len(p) = 5 + Len(t)
      BY <1>4a, <3>0, FiveAnd, BytesType
    <3>2. p[1] = A /\ p[2] = B /\ p[3] = C /\ p[4] = D /\ p[5] = middle
      BY <1>4a, <3>0, FiveAnd
    <3> QED
      BY <2>2, <3>1, <3>2
  <2> HIDE DEF p
  <2>4. /\ parse_uint32(5, p) = lo /\ (p[5] % 128) \div 16 = hi % 8
        /\ \A i \in 1 .. 4 : p[i] >= 128
    BY <2>3, <1>5
  <2>5. hi % 8 = hi
    BY <1>4b, <1>b
  <2>6. parse_uint64(5, p) = [hi |-> hi, lo |-> lo]
    <3>1. /\ Group(6, 5, p, 2^3) = 0 /\ Group(7, 5, p, 2^10) = 0 /\ Group(8, 5, p, 2^17) = 0
          /\ Group(9, 5, p, 2^24) = 0
      BY DEF Group
    <3>2. ((p[5] % 128) \div 16) + 0 + 0 + 0 + 0 = hi
      BY <2>4, <2>5, <1>4b
    <3>3. parse_uint64(5, p)
            = [hi |-> ((p[5] % 128) \div 16) + 0 + 0 + 0 + 0, lo |-> parse_uint32(5, p)]
      BY <3>1 DEF parse_uint64
    <3> QED
      BY <2>4, <3>2, <3>3
  <2>7. parse_uint64(5, p) = w /\ p[5] < 128 /\ Len(p) = 5
    BY <2>2, <2>3, <2>6, <1>4b, <1>4
  <2> QED
    BY <2>1, <2>3, <2>4, <2>7
<1>c. CASE ~ hi < 8
  <2> DEFINE t == uint32_pack(u)
             n == uint32_size(u)
             p == FiveAndMore(A, B, C, D, M, t)
  <2>1. u \in UInt32
    BY <1>4b, SMT DEF UInt32
  <2>2. /\ n \in 1 .. 5 /\ t \in Bytes /\ Len(t) = n /\ t[n] < 128
        /\ \A i \in 1 .. n - 1 : t[i] >= 128
        /\ parse_uint32(n, t) = u
    BY <2>1, PackedUInt32
  <2>3. n \in 1 .. 4 /\ uint64_size(w) = 5 + n
    <3>1. n = IF u < 2^7 THEN 1 ELSE IF u < 2^14 THEN 2 ELSE IF u < 2^21 THEN 3 ELSE 4
      BY <1>4b, SMT DEF uint32_size
    <3> HIDE DEF n
    <3> QED
      BY <1>4b, <1>4c, <1>c, <3>1, SMT
  <2>4. uint64_pack(w) = p
    BY <1>c, <1>4b, <1>4f DEF FiveAndMore
  <2> HIDE DEF t, n
  <2>5. /\ p \in Bytes /\ Len(p) = 5 + n
        /\ p[1] = A /\ p[2] = B /\ p[3] = C /\ p[4] = D /\ p[5] = M
        /\ \A i \in 1 .. n : p[5 + i] = t[i]
    <3>0. t \in Bytes
      BY <2>2
    <3>1. Len(t) = n
      BY <2>2
    <3>2. p \in Bytes /\ Len(p) = 5 + Len(t)
      BY <1>4a, <3>0, FiveAnd, BytesType
    <3>3. p[1] = A /\ p[2] = B /\ p[3] = C /\ p[4] = D /\ p[5] = M
      BY <1>4a, <3>0, FiveAnd
    <3>4. BehindFive(p, t)
      BY <1>4a, <3>0, FiveAnd
    <3> QED
      BY <3>1, <3>2, <3>3, <3>4 DEF BehindFive
  <2> HIDE DEF p
  <2>6. /\ parse_uint32(5, p) = lo /\ (p[5] % 128) \div 16 = hi % 8
        /\ \A i \in 1 .. 4 : p[i] >= 128
    <3>1. p \in Bytes /\ p[5] \in {middle, M}
      BY <2>5
    <3> QED
      BY <3>1, <2>5, <1>5
  <2>7. p[5] >= 128
    BY <2>5, <1>4 DEF M
  <2> DEFINE g1 == Group(1, n, t, 1)  g2 == Group(2, n, t, 2^7)  g3 == Group(3, n, t, 2^14)
             g4 == Group(4, n, t, 2^21)
  <2>8. u = g1 + g2 + g3 + g4
    <3>1. parse_uint32(n, t) = g1 + g2 + g3 + g4 + 0
      BY <2>3 DEF parse_uint32
    <3>2. g1 \in Nat /\ g2 \in Nat /\ g3 \in Nat /\ g4 \in Nat
      <4>1. \A i \in 1 .. n : t[i] \in Nat
        BY <2>2, BytesType
      <4> QED
        BY <4>1, <2>3 DEF Group
    <3> HIDE DEF g1, g2, g3, g4
    <3> QED
      BY <2>2, <3>1, <3>2
  <2>9. /\ Group(6, 5 + n, p, 2^3) = 8 * g1 /\ Group(7, 5 + n, p, 2^10) = 8 * g2
        /\ Group(8, 5 + n, p, 2^17) = 8 * g3 /\ Group(9, 5 + n, p, 2^24) = 8 * g4
    <3>1. \A i \in 1 .. n : t[i] \in Nat
      BY <2>2, BytesType
    <3>2. ASSUME NEW i \in 1 .. 4, NEW weight \in Nat
          PROVE  Group(5 + i, 5 + n, p, 8 * weight) = 8 * Group(i, n, t, weight)
      <4>1. CASE i <= n
        <5>1. 5 + i <= 5 + n /\ p[5 + i] = t[i] /\ t[i] % 128 \in Nat
          BY <2>3, <2>5, <3>1, <4>1
        <5> DEFINE x == t[i] % 128
        <5>2. x \in Nat => x * (8 * weight) = 8 * (x * weight)
          <6> HIDE DEF x
          <6> QED
            BY SMT
        <5> QED
          BY <4>1, <5>1, <5>2 DEF Group
      <4>2. CASE ~ i <= n
        BY <2>3, <4>2 DEF Group
      <4> QED
        BY <4>1, <4>2
    <3>3. /\ Group(5 + 1, 5 + n, p, 8 * 1) = 8 * g1
          /\ Group(5 + 2, 5 + n, p, 8 * 2^7) = 8 * g2
          /\ Group(5 + 3, 5 + n, p, 8 * 2^14) = 8 * g3
          /\ Group(5 + 4, 5 + n, p, 8 * 2^21) = 8 * g4
      BY <3>2
    <3> QED
      BY <3>3
  <2>10. g1 \in Nat /\ g2 \in Nat /\ g3 \in Nat /\ g4 \in Nat
    <3>1. \A i \in 1 .. n : t[i] \in Nat
      BY <2>2, BytesType
    <3> QED
      BY <3>1, <2>3 DEF Group
  <2> HIDE DEF g1, g2, g3, g4
  <2>11. parse_uint64(5 + n, p) = w
    <3>1. parse_uint64(5 + n, p)
            = [hi |-> ((p[5] % 128) \div 16) + 8 * g1 + 8 * g2 + 8 * g3 + 8 * g4,
               lo |-> parse_uint32(5, p)]
      BY <2>3, <2>9 DEF parse_uint64
    <3>2. (hi % 8) + 8 * g1 + 8 * g2 + 8 * g3 + 8 * g4 = hi
      BY <2>8, <2>10, <1>4b, SMT
    <3> QED
      BY <2>6, <3>1, <3>2, <1>4b
  <2>12. \A i \in 1 .. 5 + n - 1 : p[i] >= 128
    <3> SUFFICES ASSUME NEW i \in 1 .. 5 + n - 1 PROVE p[i] >= 128
      OBVIOUS
    <3>1. CASE i <= 5
      <4>1. i \in 1 .. 4 \/ i = 5
        BY <2>3, <3>1
      <4> QED
        BY <2>6, <2>7, <4>1
    <3>2. CASE i > 5
      <4> DEFINE j == i - 5
      <4>1. j \in 1 .. n - 1 /\ j \in 1 .. n /\ i = 5 + j
        BY <2>3, <3>2
      <4> HIDE DEF j
      <4> QED
        BY <2>2, <2>5, <4>1
    <3> QED
      BY <2>3, <3>1, <3>2
  <2>13. p[5 + n] < 128 /\ 5 + n \in 1 .. 9
    BY <2>2, <2>3, <2>5
  <2> QED
    BY <2>3, <2>4, <2>5, <2>11, <2>12, <2>13
<1> QED
  BY <1>a, <1>b, <1>c, <1>4b

-----------------------------------------------------------------------------
\* What stands behind p in p \o rest, and p itself.
LEMMA Parts ==
  ASSUME NEW p \in Bytes, NEW rest \in Bytes
  PROVE  /\ p \o rest \in Bytes /\ Len(p \o rest) = Len(p) + Len(rest)
         /\ Len(p) \in Nat /\ Len(rest) \in Nat
         /\ \A i \in 1 .. Len(p) : (p \o rest)[i] = p[i]
         /\ SubSeq(p \o rest, 1, Len(p)) = p
         /\ SubSeq(p \o rest, Len(p) + 1, Len(p \o rest)) = rest
<1>1. /\ p \o rest \in Seq(Octet) /\ Len(p \o rest) = Len(p) + Len(rest)
      /\ Len(p) \in Nat /\ Len(rest) \in Nat
      /\ \A i \in 1 .. Len(p) + Len(rest) :
           (p \o rest)[i] = IF i <= Len(p) THEN p[i] ELSE rest[i - Len(p)]
  BY ConcatProperties DEF Bytes
<1>2. SubSeq(p \o rest, 1, Len(p)) = p
  <2>1. CASE p = <<>>
    <3>1. Len(p) = 0
      BY <2>1
    <3>2. SubSeq(p \o rest, 1, 0) = <<>>
      BY SubSeqEmpty
    <3> QED
      BY <2>1, <3>1, <3>2
  <2>2. CASE p # <<>>
    <3>1. 1 \in 1 .. Len(p) /\ Len(p) \in 1 .. Len(p)
      BY <1>1, <2>2 DEF Bytes
    <3>2. SubSeq(p \o rest, 1, Len(p)) = SubSeq(p, 1, Len(p))
      BY <3>1, SubSeqOfConcat1 DEF Bytes
    <3> QED
      BY <3>2, SubSeqFull DEF Bytes
  <2> QED
    BY <2>1, <2>2
<1>3. SubSeq(p \o rest, Len(p) + 1, Len(p \o rest)) = rest
  <2>1. CASE rest = <<>>
    <3>1. Len(rest) = 0
      BY <2>1
    <3>2. SubSeq(p \o rest, Len(p) + 1, Len(p)) = <<>>
      BY <1>1, SubSeqEmpty
    <3> QED
      BY <1>1, <2>1, <3>1, <3>2
  <2>2. CASE rest # <<>>
    <3>1. Len(p) + 1 \in Len(p) + 1 .. Len(p) + Len(rest)
          /\ Len(p) + Len(rest) \in Len(p) + 1 .. Len(p) + Len(rest)
      BY <1>1, <2>2 DEF Bytes
    <3>2. SubSeq(p \o rest, Len(p) + 1, Len(p) + Len(rest))
            = SubSeq(rest, Len(p) + 1 - Len(p), Len(p) + Len(rest) - Len(p))
      BY <3>1, SubSeqOfConcat2 DEF Bytes
    <3>3. Len(p) + 1 - Len(p) = 1 /\ Len(p) + Len(rest) - Len(p) = Len(rest)
      BY <1>1
    <3>4. SubSeq(rest, 1, Len(rest)) = rest
      BY SubSeqFull DEF Bytes
    <3> QED
      BY <1>1, <3>2, <3>3, <3>4
  <2> QED
    BY <2>1, <2>2
<1>4. \A i \in 1 .. Len(p) : (p \o rest)[i] = p[i]
  BY <1>1
<1> QED
  BY <1>1, <1>2, <1>3, <1>4 DEF Bytes

\* Concatenation is associative.
LEMMA PartsAssociate ==
  ASSUME NEW p \in Bytes, NEW q \in Bytes, NEW r \in Bytes
  PROVE  (p \o q) \o r = p \o (q \o r)
BY ConcatAssociative DEF Bytes

\* The length of a varint does not depend on what follows it.
LEMMA VarintAhead ==
  ASSUME NEW p \in Bytes, NEW rest \in Bytes, NEW max \in Nat, NEW n \in 1 .. max, Len(p) = n,
         p[n] < 128, \A i \in 1 .. n - 1 : p[i] >= 128
  PROVE  VarintLen(p \o rest, max) = n
<1>1. p \o rest \in Bytes /\ n <= Len(p \o rest)
  BY Parts
<1>2. \A i \in 1 .. n : (p \o rest)[i] = p[i]
  BY Parts
<1>3. (p \o rest)[n] < 128 /\ \A i \in 1 .. n - 1 : (p \o rest)[i] >= 128
  BY <1>2
<1> QED
  BY <1>1, <1>3, VarintEnds

\* The size of a tag.
LEMMA TagSize ==
  ASSUME NEW id \in Nat, NEW wire_type \in 0 .. 7
  PROVE  get_tag_size(id) = uint32_size(id * 8 + wire_type)
BY SMT DEF get_tag_size, uint32_size

\* The low bits of a varint are those of its first byte.
LEMMA FirstByte ==
  ASSUME NEW v \in UInt32
  PROVE  uint32_pack(v)[1] % 8 = v % 8
<1>1. v \in Nat
  BY DEF UInt32
<1>2. (128 + (v % 128)) % 8 = v % 8
  BY <1>1, SMT
<1>3. uint32_pack(v)[1] = v \/ uint32_pack(v)[1] = 128 + (v % 128)
  <2> DEFINE more(x) == 128 + (x % 128)
  <2>1. uint32_pack(v) =
           IF v < 2^7 THEN <<v>>
           ELSE IF v < 2^14 THEN <<more(v), v \div 2^7>>
           ELSE IF v < 2^21 THEN <<more(v), more(v \div 2^7), v \div 2^14>>
           ELSE IF v < 2^28 THEN <<more(v), more(v \div 2^7), more(v \div 2^14), v \div 2^21>>
           ELSE <<more(v), more(v \div 2^7), more(v \div 2^14), more(v \div 2^21), v \div 2^28>>
    BY DEF uint32_pack
  <2>2. more(v) = 128 + (v % 128)
    OBVIOUS
  <2> HIDE DEF more
  <2> QED
    BY <2>1, <2>2
<1> QED
  BY <1>2, <1>3

\* A tag as it is read.
LEMMA TagRead ==
  ASSUME NEW id \in Nat, NEW wire_type \in 0 .. 7, id * 8 + wire_type \in UInt32,
         NEW rest \in Bytes
  PROVE  /\ tag_pack(id, wire_type) \in Bytes
         /\ Len(tag_pack(id, wire_type)) = get_tag_size(id) /\ get_tag_size(id) \in 1 .. 5
         /\ parse_tag_and_wiretype(tag_pack(id, wire_type) \o rest)
              = [used |-> get_tag_size(id), wire_type |-> wire_type, tag |-> id]
<1> DEFINE v == id * 8 + wire_type
           p == uint32_pack(v)
           n == uint32_size(v)
           data == p \o rest
<1>1. tag_pack(id, wire_type) = p /\ get_tag_size(id) = n /\ v \in UInt32
  BY TagSize DEF tag_pack
<1>2. v % 8 = wire_type /\ v \div 8 = id
  BY SMT
<1> HIDE DEF v
<1>3. /\ n \in 1 .. 5 /\ p \in Bytes /\ Len(p) = n /\ p[n] < 128
      /\ \A i \in 1 .. n - 1 : p[i] >= 128
      /\ parse_uint32(n, p) = v
  BY <1>1, PackedUInt32
<1>4. p[1] % 8 = wire_type
  BY <1>1, <1>2, FirstByte
<1> HIDE DEF p, n
<1>5. VarintLen(data, 5) = n
  BY <1>3, VarintAhead
<1>6. parse_uint32(n, data) = v /\ data[1] = p[1]
  BY <1>3, GroupPrefix
<1> HIDE DEF data
<1>7. parse_tag_and_wiretype(data) = [used |-> n, wire_type |-> wire_type, tag |-> id]
  BY <1>2, <1>3, <1>4, <1>5, <1>6 DEF parse_tag_and_wiretype
<1> QED
  BY <1>1, <1>3, <1>7 DEF data

\* What follows a tag: bytes c whose extent does not depend on what is behind them.
IsContent(wire_type, prefix_len, c) ==
  /\ c \in Bytes /\ c # <<>>
  /\ \A rest \in Bytes :
       MemberExtent(wire_type, c \o rest) = [prefix_len |-> prefix_len, len |-> Len(c)]

\* Integers, ...
LEMMA VarintContent ==
  ASSUME NEW p \in Bytes, NEW n \in 1 .. 10, Len(p) = n, p[n] < 128,
         \A i \in 1 .. n - 1 : p[i] >= 128
  PROVE  IsContent(VARINT, 0, p) /\ SubSeq(p, 1, Len(p)) = p
<1>1. p # <<>>
  <2>1. Len(<<>>) = 0
    OBVIOUS
  <2> QED
    BY <2>1
<1>2. ASSUME NEW rest \in Bytes
      PROVE  MemberExtent(VARINT, p \o rest) = [prefix_len |-> 0, len |-> Len(p)]
  <2>1. VarintLen(p \o rest, 10) = n
    BY VarintAhead
  <2> QED
    BY <2>1 DEF MemberExtent
<1>3. SubSeq(p, 1, Len(p)) = p
  BY SubSeqFull DEF Bytes
<1> QED
  BY <1>1, <1>2, <1>3 DEF IsContent

\* ... and byte strings.
LEMMA DataContent ==
  ASSUME NEW bd \in Bytes, Len(bd) \in UInt32
  PROVE  /\ IsContent(LENGTH_PREFIXED, uint32_size(Len(bd)), binary_data_pack(bd))
         /\ Len(binary_data_pack(bd)) = uint32_size(Len(bd)) + Len(bd)
         /\ SubSeq(binary_data_pack(bd), uint32_size(Len(bd)) + 1, Len(binary_data_pack(bd))) = bd
<1> DEFINE v == Len(bd)
           p == uint32_pack(v)
           n == uint32_size(v)
           c == p \o bd
<1>1. /\ n \in 1 .. 5 /\ p \in Bytes /\ Len(p) = n /\ p[n] < 128
      /\ \A i \in 1 .. n - 1 : p[i] >= 128
      /\ parse_uint32(n, p) = v
  BY PackedUInt32
<1>2. c = binary_data_pack(bd)
  BY DEF binary_data_pack
<1> HIDE DEF n, p
<1>3. c \in Bytes /\ Len(c) = n + v /\ SubSeq(c, n + 1, Len(c)) = bd
  BY <1>1, Parts
<1>4. v \in Nat
  BY BytesType
<1>5. ASSUME NEW rest \in Bytes
      PROVE  MemberExtent(LENGTH_PREFIXED, c \o rest) = [prefix_len |-> n, len |-> n + v]
  <2> DEFINE q == bd \o rest
             data == c \o rest
  <2>1. q \in Bytes /\ data = p \o q /\ data \in Bytes /\ Len(data) = n + v + Len(rest)
        /\ Len(rest) \in Nat
    <3>1. q \in Bytes
      BY Parts
    <3>2. data = p \o q
      BY <1>1, PartsAssociate
    <3>3. data \in Bytes /\ Len(data) = Len(c) + Len(rest) /\ Len(rest) \in Nat
      BY <1>3, Parts
    <3> QED
      BY <1>3, <3>1, <3>2, <3>3
  <2> HIDE DEF q, data, v, c
  <2>2. VarintLen(data, 5) = n
    BY <1>1, <2>1, VarintAhead
  <2>3. parse_uint32(n, data) = v
    BY <1>1, <2>1, GroupPrefix
  <2>4. ~ (n = 0 \/ n + v > Len(data))
    BY <1>1, <1>4, <2>1
  <2>5. scan_length_prefixed_data(data)
          = [prefix_len |-> n, len |-> IF n = 0 \/ n + v > Len(data) THEN 0 ELSE n + v]
    BY <2>2, <2>3 DEF scan_length_prefixed_data
  <2>6. MemberExtent(LENGTH_PREFIXED, data) = scan_length_prefixed_data(data)
    BY DEF MemberExtent, VARINT, WIRE_64BIT, LENGTH_PREFIXED
  <2> QED
    BY <2>4, <2>5, <2>6 DEF data
<1>6. c # <<>>
  <2>1. Len(<<>>) = 0
    OBVIOUS
  <2> QED
    BY <1>1, <1>3, <1>4, <2>1
<1>7. IsContent(LENGTH_PREFIXED, n, c)
  BY <1>3, <1>5, <1>6 DEF IsContent
<1> QED
  BY <1>2, <1>3, <1>7 DEF n

\* The member that is scanned from a tag and its content, whatever follows.
LEMMA MemberScanned ==
  ASSUME NEW desc, NEW id \in Nat, NEW wire_type \in 0 .. 7, id * 8 + wire_type \in UInt32,
         NEW prefix_len, NEW c, IsContent(wire_type, prefix_len, c), NEW rest \in Bytes
  PROVE  ScanMember(desc, (tag_pack(id, wire_type) \o c) \o rest)
           = [tag |-> id, wire_type |-> wire_type, used |-> get_tag_size(id),
              index |-> int_range_lookup(desc.field_ranges, id),
              prefix_len |-> prefix_len, data |-> c]
<1> DEFINE p == tag_pack(id, wire_type)
           n == get_tag_size(id)
           q == c \o rest
           data == (p \o c) \o rest
<1>1. c \in Bytes /\ q \in Bytes
  BY Parts DEF IsContent
<1>2. p \in Bytes /\ Len(p) = n /\ n \in 1 .. 5
  BY TagRead
<1>3. data = p \o q
  BY <1>1, <1>2, PartsAssociate
<1>4. parse_tag_and_wiretype(data) = [used |-> n, wire_type |-> wire_type, tag |-> id]
  BY <1>1, <1>3, TagRead
<1>5. SubSeq(data, n + 1, Len(data)) = q
  <2>1. SubSeq(p \o q, Len(p) + 1, Len(p \o q)) = q
    BY <1>1, <1>2, Parts
  <2> HIDE DEF data, p, q, n
  <2> QED
    BY <1>2, <1>3, <2>1
<1>6. MemberExtent(wire_type, q) = [prefix_len |-> prefix_len, len |-> Len(c)]
  BY DEF IsContent
<1>7. SubSeq(q, 1, Len(c)) = c
  BY <1>1, Parts
<1> HIDE DEF data, p, q, n
<1>8. ScanMember(desc, data)
        = [tag |-> id, wire_type |-> wire_type, used |-> n,
           index |-> int_range_lookup(desc.field_ranges, id),
           prefix_len |-> prefix_len, data |-> c]
  <2> DEFINE header == parse_tag_and_wiretype(data)
             body   == SubSeq(data, header.used + 1, Len(data))
             extent == MemberExtent(header.wire_type, body)
  <2>1. header.tag = id /\ header.wire_type = wire_type /\ header.used = n
    BY <1>4
  <2>2. body = q
    BY <1>5, <2>1
  <2>3. extent.prefix_len = prefix_len /\ extent.len = Len(c)
    <3>1. extent = MemberExtent(wire_type, q)
      BY <2>1, <2>2
    <3> HIDE DEF extent
    <3> QED
      BY <1>6, <3>1
  <2>4. ~ header.used = 0
    BY <1>2, <2>1
  <2>5. ScanMember(desc, data)
          = [tag |-> header.tag, wire_type |-> header.wire_type, used |-> header.used,
             index |-> int_range_lookup(desc.field_ranges, header.tag),
             prefix_len |-> extent.prefix_len,
             data |-> IF header.used = 0 THEN <<>> ELSE SubSeq(body, 1, extent.len)]
    BY DEF ScanMember
  <2> HIDE DEF header, body, extent
  <2> QED
    BY <1>7, <2>1, <2>2, <2>3, <2>4, <2>5
<1> QED
  BY <1>8 DEF data, p, n

-----------------------------------------------------------------------------
\* A varint that is within the data is a number.
LEMMA ParsedType ==
  ASSUME NEW data \in Bytes, NEW len \in Nat, len <= Len(data)
  PROVE  parse_uint32(len, data) \in Nat
<1>1. ASSUME NEW i \in Nat \ {0}, NEW weight \in Nat PROVE Group(i, len, data, weight) \in Nat
  <2>1. CASE i <= len
    <3>1. data[i] \in Nat
      BY <2>1, BytesType
    <3>2. data[i] % 128 \in Nat
      BY <3>1, SMT
    <3> DEFINE x == data[i] % 128
    <3>3. x * weight \in Nat
      <4> HIDE DEF x
      <4> QED
        BY <3>2 DEF x
    <3> QED
      BY <2>1, <3>3 DEF Group
  <2>2. CASE ~ i <= len
    BY <2>2 DEF Group
  <2> QED
    BY <2>1, <2>2
<1>2. 5 <= len => (data[5] % 16) * 2^28 \in Nat
  <2> SUFFICES ASSUME 5 <= len PROVE (data[5] % 16) * 2^28 \in Nat
    OBVIOUS
  <2>1. data[5] \in Nat
    BY BytesType
  <2> QED
    BY <2>1, SMT
<1>3. /\ Group(1, len, data, 1) \in Nat /\ Group(2, len, data, 2^7) \in Nat
      /\ Group(3, len, data, 2^14) \in Nat /\ Group(4, len, data, 2^21) \in Nat
  <2>1. 1 \in Nat /\ 2^7 \in Nat /\ 2^14 \in Nat /\ 2^21 \in Nat
    BY SMT
  <2>2. 1 \in Nat \ {0} /\ 2 \in Nat \ {0} /\ 3 \in Nat \ {0} /\ 4 \in Nat \ {0}
    OBVIOUS
  <2> QED
    BY <1>1, <2>1, <2>2, Zenon
<1> QED
  BY <1>2, <1>3, SMTT(60) DEF parse_uint32

\* The extent of a member is within the data.
LEMMA ExtentType ==
  ASSUME NEW wire_type, NEW data \in Bytes
  PROVE  MemberExtent(wire_type, data).len \in 0 .. Len(data)
<1>0. Len(data) \in Nat
  BY BytesType
<1> DEFINE fixed(n) == [prefix_len |-> 0, len |-> IF Len(data) < n THEN 0 ELSE n]
<1>1. VarintLen(data, 10) \in 0 .. Len(data)
  BY <1>0, VarintType DEF Least
<1>2. fixed(8).len \in 0 .. Len(data) /\ fixed(4).len \in 0 .. Len(data)
  BY <1>0
<1>3. scan_length_prefixed_data(data).len \in 0 .. Len(data)
  <2> DEFINE hdr_len == VarintLen(data, 5)
             len == hdr_len + parse_uint32(hdr_len, data)
  <2>1. hdr_len \in Nat /\ hdr_len <= Len(data)
    BY <1>0, VarintType DEF Least
  <2>2. parse_uint32(hdr_len, data) \in Nat
    BY <2>1, ParsedType
  <2>3. len \in Nat
    BY <2>1, <2>2
  <2>4. scan_length_prefixed_data(data).len = IF hdr_len = 0 \/ len > Len(data) THEN 0 ELSE len
    BY DEF scan_length_prefixed_data
  <2> HIDE DEF hdr_len, len
  <2> QED
    BY <1>0, <2>3, <2>4
<1> QED
  BY <1>0, <1>1, <1>2, <1>3 DEF MemberExtent

\* What ScanMember makes of any bytes.
Scanned(desc) == {ScanMember(desc, data) : data \in Bytes}

\* The bytes behind the member at the head of data.
After(desc, data) ==
  SubSeq(data, ScanMember(desc, data).used + Len(ScanMember(desc, data).data) + 1, Len(data))

\* A member scanned is bytes of the data, and what is behind it is shorter.
LEMMA ScannedType ==
  ASSUME NEW desc, NEW data \in Bytes
  PROVE  /\ ScanMember(desc, data).used \in Nat
         /\ ScanMember(desc, data).data \in Bytes
         /\ After(desc, data) \in Bytes
         /\ ScanMember(desc, data).data # <<>> => Len(After(desc, data)) < Len(data)
<1> DEFINE used == VarintLen(data, 5)
           body == SubSeq(data, used + 1, Len(data))
           m == ScanMember(desc, data)
<1>1. used \in Nat /\ used <= Len(data) /\ Len(data) \in Nat
  <2>1. Len(data) \in Nat
    BY BytesType
  <2> QED
    BY <2>1, VarintType DEF Least
<1>2. \A i \in 1 .. Len(data) : data[i] \in Octet
  BY BytesType
<1>3. body \in Bytes /\ Len(body) = Len(data) - used
  <2>1. \A i \in used + 1 .. Len(data) : data[i] \in Octet
    BY <1>1, <1>2
  <2>2. /\ body \in Seq(Octet)
        /\ Len(body) = IF used + 1 <= Len(data) THEN Len(data) - (used + 1) + 1 ELSE 0
    BY <1>1, <2>1, SubSeqProperties
  <2> HIDE DEF used, body
  <2> QED
    BY <1>1, <2>2 DEF Bytes
<1>4. m.used = used
  BY DEF ScanMember, parse_tag_and_wiretype
<1> DEFINE extent == MemberExtent(parse_tag_and_wiretype(data).wire_type, body)
<1>5. m.data = IF used = 0 THEN <<>> ELSE SubSeq(body, 1, extent.len)
  BY DEF ScanMember, parse_tag_and_wiretype
<1>6. extent.len \in 0 .. Len(body)
  BY <1>3, ExtentType
<1> HIDE DEF used, body, extent
<1>7. m.data \in Bytes /\ Len(m.data) \in 0 .. Len(body)
  <2>1. CASE used = 0
    BY <1>1, <1>3, <1>5, <2>1 DEF Bytes
  <2>2. CASE used # 0
    <3>1. Len(body) \in Nat /\ \A i \in 1 .. Len(body) : body[i] \in Octet
      BY <1>3, BytesType
    <3>2. 1 \in Int /\ extent.len \in Int /\ \A i \in 1 .. extent.len : body[i] \in Octet
      BY <1>6, <3>1
    <3>3. /\ SubSeq(body, 1, extent.len) \in Seq(Octet)
          /\ Len(SubSeq(body, 1, extent.len)) = IF 1 <= extent.len THEN extent.len - 1 + 1 ELSE 0
      BY <3>2, SubSeqProperties
    <3> QED
      BY <1>5, <1>6, <2>2, <3>1, <3>3 DEF Bytes
  <2> QED
    BY <2>1, <2>2
<1> DEFINE end == used + Len(m.data)
<1>8. end \in Nat /\ (m.data # <<>> => end > 0)
  <2>1. m.data # <<>> => Len(m.data) > 0
    BY <1>7 DEF Bytes
  <2> HIDE DEF m
  <2> QED
    BY <1>1, <1>7, <2>1
<1>9. After(desc, data) = SubSeq(data, end + 1, Len(data))
  BY <1>4 DEF After
<1> HIDE DEF m, end
<1>10. After(desc, data) \in Bytes /\ (m.data # <<>> => Len(After(desc, data)) < Len(data))
  <2>1. \A i \in end + 1 .. Len(data) : data[i] \in Octet
    BY <1>2, <1>8
  <2>2. /\ After(desc, data) \in Seq(Octet)
        /\ Len(After(desc, data)) = IF end + 1 <= Len(data) THEN Len(data) - (end + 1) + 1 ELSE 0
    BY <1>1, <1>8, <1>9, <2>1, SubSeqProperties
  <2>3. m.data # <<>> => Len(data) > 0
    <3> SUFFICES ASSUME m.data # <<>>, Len(data) = 0 PROVE FALSE
      BY <1>1
    <3>1. Len(m.data) = 0
      BY <1>1, <1>3, <1>7
    <3> QED
      BY <1>7, <3>1 DEF Bytes
  <2> QED
    BY <1>1, <1>8, <2>2, <2>3 DEF Bytes
<1> QED
  BY <1>1, <1>4, <1>7, <1>10 DEF m

\* f is the recursion of ScanMembers.
IsScan(f, desc) ==
  f = [rest \in Seq(Octet) |->
        IF rest = <<>> THEN <<>> ELSE ScanOn(ScanMember(desc, rest), rest, f)]

\* It has a value: each member takes something from the data.
LEMMA ScanExists == ASSUME NEW desc PROVE \E f : IsScan(f, desc)
<1> DEFINE T  == {d \in Bytes : d = <<>> \/ ScanMember(desc, d).data = <<>>}
           g  == [d \in Bytes |-> After(desc, d)]
           h  == [d \in Bytes |-> IF d = <<>> THEN <<>> ELSE <<ScanMember(desc, d)>>]
           a  == [d \in Bytes |-> <<ScanMember(desc, d)>>]
           mu == [d \in Bytes |-> Len(d)]
<1>1. Descends(Bytes, T, g, mu)
  <2>1. mu \in [Bytes -> Nat]
    BY BytesType
  <2>2. \A c \in Bytes \ T : g[c] \in Bytes /\ mu[g[c]] < mu[c]
    BY ScannedType
  <2> HIDE DEF mu, g, T
  <2> QED
    BY <2>1, <2>2 DEF Descends
<1>2. PICK f : IsChain(f, Bytes, T, g, h, a)
  <2> HIDE DEF T, g, h, a, mu
  <2> QED
    BY <1>1, ChainExists
<1>3. \A c \in Bytes : (IF c \in T THEN h[c] ELSE Behind(a, c, f[g[c]]))
        = IF c = <<>> THEN <<>>
          ELSE IF ScanMember(desc, c).data = <<>> THEN <<ScanMember(desc, c)>>
          ELSE <<ScanMember(desc, c)>> \o f[After(desc, c)]
  BY DEF Behind
<1>4. f = [c \in Bytes |-> IF c \in T THEN h[c] ELSE Behind(a, c, f[g[c]])]
  BY <1>2 DEF IsChain
<1> HIDE DEF T, g, h, a
<1>5. f = [c \in Bytes |-> IF c = <<>> THEN <<>>
          ELSE IF ScanMember(desc, c).data = <<>> THEN <<ScanMember(desc, c)>>
          ELSE <<ScanMember(desc, c)>> \o f[After(desc, c)]]
  BY <1>3, <1>4
<1> QED
  BY <1>5 DEF IsScan, ScanOn, After, Bytes

\* What ScanMembers gives: the member at the head of the data, and then those
\* behind it.
LEMMA MembersScanned ==
  ASSUME NEW desc
  PROVE  /\ ScanMembers(desc, <<>>) = <<>>
         /\ \A d \in Bytes : d # <<>> /\ ScanMember(desc, d).data # <<>> =>
              ScanMembers(desc, d) = <<ScanMember(desc, d)>> \o ScanMembers(desc, After(desc, d))
         /\ \A d \in Bytes : ScanMembers(desc, d) \in Seq(Scanned(desc))
<1> DEFINE f == CHOOSE f : IsScan(f, desc)
<1>1. IsScan(f, desc)
  BY ScanExists
<1>2. \A d : ScanMembers(desc, d) = f[d]
  BY DEF ScanMembers, IsScan
<1> HIDE DEF f
<1>3. f = [c \in Bytes |-> IF c = <<>> THEN <<>>
             ELSE IF ScanMember(desc, c).data = <<>> THEN <<ScanMember(desc, c)>>
             ELSE <<ScanMember(desc, c)>> \o f[After(desc, c)]]
  BY <1>1 DEF IsScan, ScanOn, After, Bytes
<1> DEFINE k == [c \in Bytes |-> IF c = <<>> THEN <<>>
             ELSE IF ScanMember(desc, c).data = <<>> THEN <<ScanMember(desc, c)>>
             ELSE <<ScanMember(desc, c)>> \o f[After(desc, c)]]
<1>4. \A c \in Bytes : k[c] = IF c = <<>> THEN <<>>
             ELSE IF ScanMember(desc, c).data = <<>> THEN <<ScanMember(desc, c)>>
             ELSE <<ScanMember(desc, c)>> \o f[After(desc, c)]
  OBVIOUS
<1>5. \A c \in Bytes : f[c] = IF c = <<>> THEN <<>>
             ELSE IF ScanMember(desc, c).data = <<>> THEN <<ScanMember(desc, c)>>
             ELSE <<ScanMember(desc, c)>> \o f[After(desc, c)]
  <2>1. f = k
    BY <1>3
  <2> HIDE DEF k
  <2> QED
    BY <1>4, <2>1
<1> HIDE DEF k
<1> DEFINE N == {n \in Nat : \A d \in Bytes : Len(d) < n => f[d] \in Seq(Scanned(desc))}
<1>6. 0 \in N
  BY BytesType
<1>7. ASSUME NEW n \in Nat, n \in N PROVE n + 1 \in N
  <2> SUFFICES ASSUME NEW d \in Bytes, Len(d) < n + 1 PROVE f[d] \in Seq(Scanned(desc))
    OBVIOUS
  <2> DEFINE m == ScanMember(desc, d)
  <2>1. m \in Scanned(desc) /\ <<m>> \in Seq(Scanned(desc))
    <3>1. m \in Scanned(desc)
      BY DEF Scanned
    <3> HIDE DEF m
    <3> QED
      BY <3>1
  <2>2. m.data # <<>> => f[After(desc, d)] \in Seq(Scanned(desc))
    <3> SUFFICES ASSUME m.data # <<>> PROVE f[After(desc, d)] \in Seq(Scanned(desc))
      OBVIOUS
    <3>1. After(desc, d) \in Bytes /\ Len(After(desc, d)) < Len(d)
      BY ScannedType
    <3>2. Len(After(desc, d)) < n
      BY <3>1, BytesType
    <3> QED
      BY <1>7, <3>1, <3>2
  <2>3. f[d] = IF d = <<>> THEN <<>> ELSE IF m.data = <<>> THEN <<m>>
               ELSE <<m>> \o f[After(desc, d)]
    BY <1>5
  <2> HIDE DEF m
  <2>4. <<>> \in Seq(Scanned(desc))
    OBVIOUS
  <2>5. m.data # <<>> => <<m>> \o f[After(desc, d)] \in Seq(Scanned(desc))
    BY <2>1, <2>2, ConcatProperties
  <2> QED
    BY <2>1, <2>3, <2>4, <2>5
<1> HIDE DEF N
<1>8. \A n \in Nat : n \in N
  BY <1>6, <1>7, SetInduction
<1>9. \A d \in Bytes : f[d] \in Seq(Scanned(desc))
  <2> SUFFICES ASSUME NEW d \in Bytes PROVE f[d] \in Seq(Scanned(desc))
    OBVIOUS
  <2>1. Len(d) \in Nat /\ Len(d) < Len(d) + 1 /\ Len(d) + 1 \in Nat
    BY BytesType
  <2> QED
    BY <1>8, <2>1 DEF N
<1>10. <<>> \in Bytes
  BY DEF Bytes
<1> QED
  BY <1>2, <1>5, <1>9, <1>10

\* The scanned member of a field with the given tag and content.
ScannedFrom(desc, id, wire_type, prefix_len, c) ==
  [tag |-> id, wire_type |-> wire_type, used |-> get_tag_size(id),
   index |-> int_range_lookup(desc.field_ranges, id), prefix_len |-> prefix_len, data |-> c]

\* q at the head of the data is scanned as s.
Ahead(desc, q, s) ==
  /\ q \in Bytes /\ s \in Scanned(desc)
  /\ \A rest \in Bytes : ScanMembers(desc, q \o rest) = <<s>> \o ScanMembers(desc, rest)

\* A tag and its content at the head of the data are the first member.
LEMMA MemberAhead ==
  ASSUME NEW desc, NEW id \in Nat, NEW wire_type \in 0 .. 7, id * 8 + wire_type \in UInt32,
         NEW prefix_len, NEW c, IsContent(wire_type, prefix_len, c)
  PROVE  /\ Ahead(desc, tag_pack(id, wire_type) \o c,
                  ScannedFrom(desc, id, wire_type, prefix_len, c))
         /\ Len(tag_pack(id, wire_type) \o c) = get_tag_size(id) + Len(c)
<1> DEFINE p == tag_pack(id, wire_type)
           n == get_tag_size(id)
           s == ScannedFrom(desc, id, wire_type, prefix_len, c)
           q == p \o c
<1>1. c \in Bytes /\ c # <<>>
  BY DEF IsContent
<1>2. <<>> \in Bytes
  BY DEF Bytes
<1>3. p \in Bytes /\ Len(p) = n /\ n \in 1 .. 5
  BY <1>2, TagRead
<1>4. q \in Bytes /\ Len(q) = n + Len(c) /\ Len(c) \in Nat
  BY <1>1, <1>3, Parts
<1>5. ASSUME NEW rest \in Bytes PROVE ScanMember(desc, q \o rest) = s
  <2>1. ScanMember(desc, (tag_pack(id, wire_type) \o c) \o rest)
           = [tag |-> id, wire_type |-> wire_type, used |-> get_tag_size(id),
              index |-> int_range_lookup(desc.field_ranges, id),
              prefix_len |-> prefix_len, data |-> c]
    BY MemberScanned, ZenonT(60)
  <2> QED
    BY <2>1 DEF ScannedFrom
<1>6. s.used = n /\ s.data = c
  BY DEF ScannedFrom
<1> HIDE DEF p, q, s, n
<1>7. s \in Scanned(desc)
  <2>1. q \o <<>> \in Bytes /\ ScanMember(desc, q \o <<>>) = s
    BY <1>2, <1>4, <1>5, Parts
  <2> QED
    BY <2>1 DEF Scanned
<1>8. ASSUME NEW rest \in Bytes
      PROVE  ScanMembers(desc, q \o rest) = <<s>> \o ScanMembers(desc, rest)
  <2> DEFINE d == q \o rest
  <2>1. d \in Bytes /\ Len(d) = Len(q) + Len(rest) /\ Len(rest) \in Nat /\ Len(q) \in Nat
        /\ SubSeq(d, Len(q) + 1, Len(d)) = rest
    BY <1>4, Parts
  <2>2. ScanMember(desc, d) = s
    BY <1>5
  <2> HIDE DEF d
  <2>3. After(desc, d) = rest
    BY <1>4, <1>6, <2>1, <2>2 DEF After
  <2>4. d # <<>>
    <3>1. Len(d) > 0
      BY <1>3, <1>4, <2>1
    <3>2. Len(<<>>) = 0
      OBVIOUS
    <3> QED
      BY <3>1, <3>2
  <2>5. ScanMembers(desc, d) = <<ScanMember(desc, d)>> \o ScanMembers(desc, After(desc, d))
    BY <1>1, <1>6, <2>1, <2>2, <2>4, MembersScanned
  <2> QED
    BY <2>2, <2>3, <2>5 DEF d
<1> QED
  BY <1>4, <1>7, <1>8 DEF p, q, s, n, Ahead

-----------------------------------------------------------------------------
\* f is the recursion of Total.
IsSum(f, numbers, n) == f = [i \in 0 .. n |-> IF i = 0 THEN 0 ELSE f[i - 1] + numbers[i]]

\* What that is for i.
LEMMA SumAt ==
  ASSUME NEW f, NEW numbers, NEW n \in Nat, IsSum(f, numbers, n), NEW i \in 0 .. n
  PROVE  f[i] = IF i = 0 THEN 0 ELSE f[i - 1] + numbers[i]
<1> DEFINE k == [j \in 0 .. n |-> IF j = 0 THEN 0 ELSE f[j - 1] + numbers[j]]
<1>1. k[i] = IF i = 0 THEN 0 ELSE f[i - 1] + numbers[i]
  OBVIOUS
<1>2. f = k
  BY DEF IsSum
<1> HIDE DEF k
<1> QED
  BY <1>1, <1>2

\* It has a value.
LEMMA SumExists == ASSUME NEW numbers PROVE \A n \in Nat : \E f : IsSum(f, numbers, n)
<1> DEFINE S == {n \in Nat : \E f : IsSum(f, numbers, n)}
<1>1. 0 \in S
  <2> DEFINE f == [i \in 0 .. 0 |-> 0]
  <2>1. f = [i \in 0 .. 0 |-> IF i = 0 THEN 0 ELSE f[i - 1] + numbers[i]]
    OBVIOUS
  <2> QED
    BY <2>1 DEF IsSum
<1>2. ASSUME NEW n \in Nat, n \in S PROVE n + 1 \in S
  <2>1. PICK f : IsSum(f, numbers, n)
    BY <1>2
  <2> DEFINE k == [i \in 0 .. n + 1 |-> IF i = 0 THEN 0 ELSE f[i - 1] + numbers[i]]
  <2>2. \A i \in 0 .. n : k[i] = f[i]
    <3>1. \A i \in 0 .. n : f[i] = IF i = 0 THEN 0 ELSE f[i - 1] + numbers[i]
      BY <2>1, SumAt
    <3> QED
      BY <3>1
  <2>3. \A i \in 0 .. n + 1 : k[i] = IF i = 0 THEN 0 ELSE k[i - 1] + numbers[i]
    <3>1. \A i \in 0 .. n + 1 : i # 0 => i - 1 \in 0 .. n
      OBVIOUS
    <3> QED
      BY <2>2, <3>1
  <2>4. k = [i \in 0 .. n + 1 |-> k[i]]
    OBVIOUS
  <2>5. IsSum(k, numbers, n + 1)
    <3> HIDE DEF k
    <3> QED
      BY <2>3, <2>4 DEF IsSum
  <2> QED
    BY <2>5
<1> HIDE DEF S
<1>3. \A n \in Nat : n \in S
  BY <1>1, <1>2, SetInduction
<1> QED
  BY <1>3 DEF S

\* And only one, which rests on the numbers so far.
LEMMA SumUnique ==
  ASSUME NEW f, NEW g, NEW numbers, NEW others, NEW n \in Nat, NEW m \in 0 .. n,
         IsSum(f, numbers, n), IsSum(g, others, m), \A i \in 1 .. m : numbers[i] = others[i]
  PROVE  f[m] = g[m]
<1> DEFINE S == {k \in Nat : k <= m => f[k] = g[k]}
<1>1. 0 \in S
  <2>1. 0 \in 0 .. m /\ 0 \in 0 .. n
    OBVIOUS
  <2>2. f[0] = 0 /\ g[0] = 0
    BY <2>1, SumAt
  <2> QED
    BY <2>2
<1>2. ASSUME NEW k \in Nat, k \in S PROVE k + 1 \in S
  <2> SUFFICES ASSUME k + 1 <= m PROVE f[k + 1] = g[k + 1]
    OBVIOUS
  <2>1. k + 1 \in 0 .. m /\ k + 1 \in 0 .. n /\ k + 1 \in 1 .. m
    OBVIOUS
  <2>2. /\ f[k + 1] = IF k + 1 = 0 THEN 0 ELSE f[k + 1 - 1] + numbers[k + 1]
        /\ g[k + 1] = IF k + 1 = 0 THEN 0 ELSE g[k + 1 - 1] + others[k + 1]
    BY <2>1, SumAt
  <2>3. k + 1 - 1 = k /\ f[k] = g[k]
    BY <1>2
  <2> QED
    BY <2>1, <2>2, <2>3
<1> HIDE DEF S
<1>3. m \in S
  BY <1>1, <1>2, SetInduction
<1> QED
  BY <1>3 DEF S

\* Total of a sequence.
LEMMA TotalValue ==
  ASSUME NEW numbers, Len(numbers) \in Nat
  PROVE  \E f : IsSum(f, numbers, Len(numbers)) /\ Total(numbers) = f[Len(numbers)]
<1> DEFINE n == Len(numbers)
           sum == CHOOSE f : f = [i \in 0 .. n |-> IF i = 0 THEN 0 ELSE f[i - 1] + numbers[i]]
<1>1. Total(numbers) = sum[n]
  BY DEF Total
<1>2. IsSum(sum, numbers, n)
  BY SumExists DEF IsSum
<1> QED
  BY <1>1, <1>2

\* The sum of one number more.
LEMMA TotalAppend ==
  ASSUME NEW m \in Nat, NEW numbers, NEW others, Len(numbers) = m, Len(others) = m + 1,
         \A i \in 1 .. m : others[i] = numbers[i]
  PROVE  Total(others) = Total(numbers) + others[m + 1]
<1>1. PICK f : IsSum(f, numbers, m) /\ Total(numbers) = f[m]
  BY TotalValue
<1>2. PICK g : IsSum(g, others, m + 1) /\ Total(others) = g[m + 1]
  BY TotalValue
<1>3. g[m + 1] = IF m + 1 = 0 THEN 0 ELSE g[m + 1 - 1] + others[m + 1]
  BY <1>2, SumAt
<1>4. g[m] = f[m]
  BY <1>1, <1>2, SumUnique
<1>5. m + 1 # 0 /\ m + 1 - 1 = m
  OBVIOUS
<1> QED
  BY <1>1, <1>2, <1>3, <1>4, <1>5

\* No numbers sum up to 0.
LEMMA TotalEmpty == ASSUME NEW numbers, Len(numbers) = 0 PROVE Total(numbers) = 0
<1>1. PICK f : IsSum(f, numbers, 0) /\ Total(numbers) = f[0]
  BY TotalValue
<1> QED
  BY <1>1, SumAt

\* Round i of the last loop of message_unpack, after which f has the message.
Round(f, desc, members, inner, i) ==
  IF i = 0 THEN message_init(desc) ELSE parse_member(desc, f[i - 1], members[i], inner)

\* f is the recursion of parse_all.
IsParse(f, desc, members, inner, n) ==
  f = [i \in 0 .. n |-> Round(f, desc, members, inner, i)]

\* What that is for i.
LEMMA ParseAt ==
  ASSUME NEW f, NEW desc, NEW inner, NEW members, NEW n \in Nat,
         IsParse(f, desc, members, inner, n), NEW i \in 0 .. n
  PROVE  f[i] = Round(f, desc, members, inner, i)
<1> DEFINE k == [j \in 0 .. n |-> Round(f, desc, members, inner, j)]
<1>1. k[i] = Round(f, desc, members, inner, i)
  OBVIOUS
<1>2. f = k
  BY DEF IsParse
<1> HIDE DEF k
<1> QED
  BY <1>1, <1>2

\* It has a value.
LEMMA ParseExists ==
  ASSUME NEW desc, NEW inner, NEW members
  PROVE  \A n \in Nat : \E f : IsParse(f, desc, members, inner, n)
<1> DEFINE S == {n \in Nat : \E f : IsParse(f, desc, members, inner, n)}
<1>1. 0 \in S
  <2> DEFINE f == [i \in 0 .. 0 |-> message_init(desc)]
  <2>1. f = [i \in 0 .. 0 |-> Round(f, desc, members, inner, i)]
    BY DEF Round
  <2> QED
    BY <2>1 DEF IsParse, Round
<1>2. ASSUME NEW n \in Nat, n \in S PROVE n + 1 \in S
  <2>1. PICK f : IsParse(f, desc, members, inner, n)
    BY <1>2
  <2> DEFINE k == [i \in 0 .. n + 1 |-> Round(f, desc, members, inner, i)]
  <2>2. \A i \in 0 .. n : k[i] = f[i]
    <3>1. \A i \in 0 .. n : f[i] = Round(f, desc, members, inner, i)
      BY <2>1, ParseAt
    <3> QED
      BY <3>1 DEF Round
  <2>3. \A i \in 0 .. n + 1 : k[i] = Round(k, desc, members, inner, i)
    <3>1. \A i \in 0 .. n + 1 : i # 0 => i - 1 \in 0 .. n
      OBVIOUS
    <3> QED
      BY <2>2, <3>1 DEF Round
  <2>4. k = [i \in 0 .. n + 1 |-> k[i]]
    OBVIOUS
  <2>5. IsParse(k, desc, members, inner, n + 1)
    <3> HIDE DEF k
    <3> QED
      BY <2>3, <2>4 DEF IsParse
  <2> QED
    BY <2>5
<1> HIDE DEF S
<1>3. \A n \in Nat : n \in S
  BY <1>1, <1>2, SetInduction
<1> QED
  BY <1>3 DEF S

\* And only one, which rests on the members so far.
LEMMA ParseUnique ==
  ASSUME NEW f, NEW g, NEW desc, NEW inner, NEW members, NEW others,
         NEW n \in Nat, NEW m \in 0 .. n,
         IsParse(f, desc, members, inner, n), IsParse(g, desc, others, inner, m),
         \A i \in 1 .. m : members[i] = others[i]
  PROVE  f[m] = g[m]
<1> DEFINE S == {k \in Nat : k <= m => f[k] = g[k]}
<1>1. 0 \in S
  <2>1. 0 \in 0 .. m /\ 0 \in 0 .. n
    OBVIOUS
  <2>2. f[0] = message_init(desc) /\ g[0] = message_init(desc)
    BY <2>1, ParseAt DEF Round
  <2> QED
    BY <2>2
<1>2. ASSUME NEW k \in Nat, k \in S PROVE k + 1 \in S
  <2> SUFFICES ASSUME k + 1 <= m PROVE f[k + 1] = g[k + 1]
    OBVIOUS
  <2>1. k + 1 \in 0 .. m /\ k + 1 \in 0 .. n /\ k + 1 \in 1 .. m
    OBVIOUS
  <2>2. /\ f[k + 1] = Round(f, desc, members, inner, k + 1)
        /\ g[k + 1] = Round(g, desc, others, inner, k + 1)
    BY <2>1, ParseAt
  <2>3. k + 1 - 1 = k /\ f[k] = g[k]
    BY <1>2
  <2> QED
    BY <2>1, <2>2, <2>3 DEF Round
<1> HIDE DEF S
<1>3. m \in S
  BY <1>1, <1>2, SetInduction
<1> QED
  BY <1>3 DEF S

\* parse_all of a sequence.
LEMMA ParseValue ==
  ASSUME NEW desc, NEW inner, NEW members, Len(members) \in Nat
  PROVE  \E f : /\ IsParse(f, desc, members, inner, Len(members))
               /\ parse_all(desc, members, inner) = f[Len(members)]
<1> DEFINE n == Len(members)
           parsed == CHOOSE f : f = [i \in 0 .. n |-> Round(f, desc, members, inner, i)]
<1>1. parse_all(desc, members, inner) = parsed[n]
  BY DEF parse_all, Round
<1>2. IsParse(parsed, desc, members, inner, n)
  BY ParseExists DEF IsParse
<1> QED
  BY <1>1, <1>2

\* What is parsed with one member more.
LEMMA ParseAppend ==
  ASSUME NEW m \in Nat, NEW desc, NEW inner, NEW members, NEW others,
         Len(members) = m, Len(others) = m + 1,
         \A i \in 1 .. m : others[i] = members[i]
  PROVE  parse_all(desc, others, inner)
           = parse_member(desc, parse_all(desc, members, inner), others[m + 1], inner)
<1>1. PICK f : IsParse(f, desc, members, inner, m) /\ parse_all(desc, members, inner) = f[m]
  BY ParseValue
<1>2. PICK g : IsParse(g, desc, others, inner, m + 1) /\ parse_all(desc, others, inner) = g[m + 1]
  BY ParseValue
<1>3. g[m + 1] = Round(g, desc, others, inner, m + 1)
  BY <1>2, ParseAt
<1>4. g[m] = f[m]
  BY <1>1, <1>2, ParseUnique
<1>5. m + 1 # 0 /\ m + 1 - 1 = m
  OBVIOUS
<1> QED
  BY <1>1, <1>2, <1>3, <1>4, <1>5 DEF Round

\* No members leave the message as message_init made it.
LEMMA ParseEmpty ==
  ASSUME NEW desc, NEW inner, NEW members, Len(members) = 0
  PROVE  parse_all(desc, members, inner) = message_init(desc)
<1>1. PICK f : IsParse(f, desc, members, inner, 0) /\ parse_all(desc, members, inner) = f[0]
  BY ParseValue
<1> QED
  BY <1>1, ParseAt DEF Round

-----------------------------------------------------------------------------
\* The search of int_range_lookup, the range of mid, and what the search gives.
RangeFirst(ranges, r) == ranges[r + 1][1]
RangeAfter(ranges, r) == RangeFirst(ranges, r) + ranges[r + 2][2] - ranges[r + 1][2]
RangeIndex(ranges, value, r) == value - RangeFirst(ranges, r) + ranges[r + 1][2]

SearchStep(search, ranges, value, part) ==
  LET start == part[1]
      n     == part[2]
      mid   == start + n \div 2
  IN  IF n > 1 /\ value < RangeFirst(ranges, mid) THEN search[<<start, mid - start>>]
      ELSE IF n > 1 /\ value >= RangeAfter(ranges, mid)
           THEN search[<<mid + 1, start + n - (mid + 1)>>]
      ELSE IF n > 1 THEN RangeIndex(ranges, value, mid)
      ELSE IF n = 1 /\ RangeFirst(ranges, start) <= value /\ value < RangeAfter(ranges, start)
           THEN RangeIndex(ranges, value, start)
      ELSE -1

IsSearch(search, ranges, value) ==
  search = [part \in Nat \X Nat |-> SearchStep(search, ranges, value, part)]

\* It ends: each step leaves fewer ranges.
LEMMA SearchExists == ASSUME NEW ranges, NEW value PROVE \E f : IsSearch(f, ranges, value)
<1> DEFINE mid(c) == c[1] + c[2] \div 2
           S == Nat \X Nat
           down(c) == c[2] > 1 /\ value < RangeFirst(ranges, mid(c))
           up(c) == c[2] > 1 /\ value >= RangeAfter(ranges, mid(c))
           T == {c \in S : ~ down(c) /\ ~ up(c)}
           g == [c \in S |-> IF down(c) THEN <<c[1], mid(c) - c[1]>>
                             ELSE <<mid(c) + 1, c[1] + c[2] - (mid(c) + 1)>>]
           h == [c \in S |->
                  IF c[2] > 1 THEN RangeIndex(ranges, value, mid(c))
                  ELSE IF /\ c[2] = 1 /\ RangeFirst(ranges, c[1]) <= value
                          /\ value < RangeAfter(ranges, c[1])
                       THEN RangeIndex(ranges, value, c[1]) ELSE -1]
           mu == [c \in S |-> c[2]]
<1>1. Descends(S, T, g, mu)
  <2>1. mu \in [S -> Nat]
    OBVIOUS
  <2>2. ASSUME NEW c \in S \ T PROVE g[c] \in S /\ mu[g[c]] < mu[c]
    <3>1. PICK a \in Nat, n \in Nat : c = <<a, n>>
      OBVIOUS
    <3>2. c[1] = a /\ c[2] = n
      BY <3>1
    <3>3. n > 1
      BY <3>2
    <3> DEFINE half == n \div 2
    <3>4. half \in Nat /\ half < n /\ half > 0
      BY <3>3, SMT
    <3> HIDE DEF half
    <3>5. c[1] + c[2] \div 2 = a + half
      BY <3>2 DEF half
    <3>6. g[c] = <<a, half>> \/ g[c] = <<a + half + 1, n - half - 1>>
      <4> DEFINE m == c[1] + c[2] \div 2
      <4>1. g[c] = <<c[1], m - c[1]>> \/ g[c] = <<m + 1, c[1] + c[2] - (m + 1)>>
        OBVIOUS
      <4>2. m = a + half
        BY <3>5
      <4> HIDE DEF g, m
      <4>3. m - a = half /\ a + n - (m + 1) = n - half - 1
        BY <3>1, <3>4, <4>2
      <4>4. g[c] = <<a, m - a>> \/ g[c] = <<m + 1, a + n - (m + 1)>>
        BY <3>2, <4>1, Zenon
      <4>5. g[c] = <<a, half>> \/ g[c] = <<m + 1, n - half - 1>>
        BY <4>3, <4>4, Zenon
      <4> QED
        BY <4>2, <4>5, Zenon
    <3>7. /\ <<a, half>> \in S /\ <<a + half + 1, n - half - 1>> \in S
          /\ mu[<<a, half>>] = half /\ mu[<<a + half + 1, n - half - 1>>] = n - half - 1
          /\ mu[c] = n
      BY <3>1, <3>4
    <3> HIDE DEF g, mu, S
    <3> QED
      BY <3>1, <3>4, <3>6, <3>7
  <2> HIDE DEF S, T, g, mu
  <2> QED
    BY <2>1, <2>2 DEF Descends
<1>2. PICK f : IsLoop(f, S, T, g, h)
  <2> HIDE DEF S, T, g, h, mu
  <2> QED
    BY <1>1, LoopExists
<1>3. ASSUME NEW part \in Nat \X Nat
      PROVE  (IF part \in T THEN h[part] ELSE f[g[part]])
        = SearchStep(f, ranges, value, part)
  <2>1. part \in S
    OBVIOUS
  <2>2. part \in T <=> ~ down(part) /\ ~ up(part)
    OBVIOUS
  <2>3. g[part] = IF down(part) THEN <<part[1], mid(part) - part[1]>>
                  ELSE <<mid(part) + 1, part[1] + part[2] - (mid(part) + 1)>>
    OBVIOUS
  <2>4. h[part] = IF part[2] > 1 THEN RangeIndex(ranges, value, mid(part))
                  ELSE IF /\ part[2] = 1 /\ RangeFirst(ranges, part[1]) <= value
                          /\ value < RangeAfter(ranges, part[1])
                       THEN RangeIndex(ranges, value, part[1]) ELSE -1
    OBVIOUS
  <2> HIDE DEF T, g, h, S
  <2>5. CASE down(part)
    BY <2>2, <2>3, <2>5 DEF SearchStep
  <2>6. CASE ~ down(part) /\ up(part)
    BY <2>2, <2>3, <2>6 DEF SearchStep
  <2>7. CASE ~ down(part) /\ ~ up(part)
    BY <2>2, <2>4, <2>7 DEF SearchStep
  <2> QED
    BY <2>5, <2>6, <2>7
<1>4. f = [part \in Nat \X Nat |-> IF part \in T THEN h[part] ELSE f[g[part]]]
  BY <1>2 DEF IsLoop
<1> HIDE DEF S, T, g, h, mu
<1> QED
  BY <1>3, <1>4 DEF IsSearch

\* The value of the search.
LEMMA LookupValue ==
  ASSUME NEW ranges, NEW value, Len(ranges) \in Nat \ {0}
  PROVE  \E search : /\ \A part \in Nat \X Nat :
                         search[part] = SearchStep(search, ranges, value, part)
                    /\ int_range_lookup(ranges, value) = search[<<0, Len(ranges) - 1>>]
<1> DEFINE search == CHOOSE search : IsSearch(search, ranges, value)
<1>1. IsSearch(search, ranges, value)
  BY SearchExists
<1>2. int_range_lookup(ranges, value) = search[<<0, Len(ranges) - 1>>]
  BY DEF int_range_lookup, IsSearch, SearchStep, RangeFirst, RangeAfter, RangeIndex
<1> HIDE DEF search
<1> DEFINE k == [part \in Nat \X Nat |-> SearchStep(search, ranges, value, part)]
<1>3. \A part \in Nat \X Nat : k[part] = SearchStep(search, ranges, value, part)
  OBVIOUS
<1>4. search = k
  BY <1>1 DEF IsSearch
<1> HIDE DEF k
<1> QED
  BY <1>2, <1>3, <1>4

\* Tags without a gap from 1 to n, ...
LEMMA LookupOneRange ==
  ASSUME NEW n \in Nat, NEW i \in 1 .. n
  PROVE  int_range_lookup(<< <<1, 0>>, <<0, n>> >>, i) = i - 1
<1> DEFINE ranges == << <<1, 0>>, <<0, n>> >>
<1>1. PICK search : /\ \A part \in Nat \X Nat :
                         search[part] = SearchStep(search, ranges, i, part)
                    /\ int_range_lookup(ranges, i) = search[<<0, Len(ranges) - 1>>]
  <2>1. Len(ranges) \in Nat \ {0}
    OBVIOUS
  <2> HIDE DEF ranges
  <2> QED
    BY <2>1, LookupValue
<1>2. /\ RangeFirst(ranges, 0) = 1 /\ RangeAfter(ranges, 0) = n + 1
      /\ RangeIndex(ranges, i, 0) = i - 1 /\ Len(ranges) - 1 = 1
  BY DEF RangeFirst, RangeAfter, RangeIndex
<1> HIDE DEF ranges
<1>3. search[<<0, 1>>] = SearchStep(search, ranges, i, <<0, 1>>)
  BY <1>1
<1>4. SearchStep(search, ranges, i, <<0, 1>>) = i - 1
  BY <1>2 DEF SearchStep
<1> QED
  BY <1>1, <1>2, <1>3, <1>4 DEF ranges

\* ... and the tags of msg_accept, 1 and 3.
LEMMA LookupTwoRanges ==
  /\ int_range_lookup(<< <<1, 0>>, <<3, 1>>, <<0, 2>> >>, 1) = 0
  /\ int_range_lookup(<< <<1, 0>>, <<3, 1>>, <<0, 2>> >>, 3) = 1
<1> DEFINE ranges == << <<1, 0>>, <<3, 1>>, <<0, 2>> >>
<1>1. \A i \in {1, 3} : \E search :
        /\ \A part \in Nat \X Nat : search[part] = SearchStep(search, ranges, i, part)
        /\ int_range_lookup(ranges, i) = search[<<0, Len(ranges) - 1>>]
  <2>1. Len(ranges) \in Nat \ {0}
    OBVIOUS
  <2> HIDE DEF ranges
  <2> QED
    BY <2>1, LookupValue
<1>2. /\ RangeFirst(ranges, 0) = 1 /\ RangeAfter(ranges, 0) = 2
      /\ RangeFirst(ranges, 1) = 3 /\ RangeAfter(ranges, 1) = 4
      /\ RangeIndex(ranges, 1, 0) = 0 /\ RangeIndex(ranges, 3, 1) = 1
      /\ Len(ranges) - 1 = 2
  BY DEF RangeFirst, RangeAfter, RangeIndex
<1> HIDE DEF ranges
<1>3. int_range_lookup(ranges, 1) = 0
  <2>1. PICK search :
        /\ \A part \in Nat \X Nat : search[part] = SearchStep(search, ranges, 1, part)
        /\ int_range_lookup(ranges, 1) = search[<<0, Len(ranges) - 1>>]
    BY <1>1
  <2>2. search[<<0, 2>>] = search[<<0, 1>>]
    <3>1. search[<<0, 2>>] = SearchStep(search, ranges, 1, <<0, 2>>)
      BY <2>1
    <3>2. SearchStep(search, ranges, 1, <<0, 2>>) = search[<<0, 1 - 0>>]
      BY <1>2 DEF SearchStep
    <3> QED
      BY <3>1, <3>2
  <2>3. search[<<0, 1>>] = 0
    <3>1. search[<<0, 1>>] = SearchStep(search, ranges, 1, <<0, 1>>)
      BY <2>1
    <3>2. SearchStep(search, ranges, 1, <<0, 1>>) = 0
      BY <1>2 DEF SearchStep
    <3> QED
      BY <3>1, <3>2
  <2> QED
    BY <1>2, <2>1, <2>2, <2>3
<1>4. int_range_lookup(ranges, 3) = 1
  <2>1. PICK search :
        /\ \A part \in Nat \X Nat : search[part] = SearchStep(search, ranges, 3, part)
        /\ int_range_lookup(ranges, 3) = search[<<0, Len(ranges) - 1>>]
    BY <1>1
  <2>2. search[<<0, 2>>] = 1
    <3>1. search[<<0, 2>>] = SearchStep(search, ranges, 3, <<0, 2>>)
      BY <2>1
    <3>2. SearchStep(search, ranges, 3, <<0, 2>>) = 1
      BY <1>2 DEF SearchStep
    <3> QED
      BY <3>1, <3>2
  <2> QED
    BY <1>2, <2>1, <2>2
<1> QED
  BY <1>3, <1>4 DEF ranges

-----------------------------------------------------------------------------
\* The descriptors of the generated code: a member for each name, tags that fit and
\* that the ranges find, and nothing repeated but messages.
WellFormed(desc) ==
  /\ Len(desc.fields) \in Nat /\ DOMAIN desc.fields = 1 .. Len(desc.fields)
  /\ \A i, j \in 1 .. Len(desc.fields) : desc.fields[i].name = desc.fields[j].name => i = j
  /\ \A i \in 1 .. Len(desc.fields) :
       LET field == desc.fields[i]
       IN  /\ field.id \in Nat /\ field.id * 8 + 7 \in UInt32
           /\ field.label \in {"REQUIRED", "OPTIONAL", "REPEATED"}
           /\ field.type \in {"UINT32", "ENUM", "UINT64", "BYTES", "MESSAGE"}
           /\ field.label = "REPEATED" => field.type = "MESSAGE"
           /\ field.name \notin {"has", "unknown"}
           /\ int_range_lookup(desc.field_ranges, field.id) = i - 1

\* What may stand in one field: P has the embedded messages, packed.
IsItem(field, x, P) ==
  /\ field.type \in {"UINT32", "ENUM"} => x \in UInt32
  /\ field.type = "UINT64" => x \in UInt64
  /\ field.type = "BYTES" => x \in Bytes /\ Len(x) \in UInt32
  /\ field.type = "MESSAGE" => /\ x # NULL /\ P[<<field.descriptor, x>>] \in Bytes
                               /\ Len(P[<<field.descriptor, x>>]) \in UInt32

\* The bytes behind the tag, and how many of them are a length.
ItemContent(field, x, P) ==
  IF field.type \in {"UINT32", "ENUM"} THEN uint32_pack(x)
  ELSE IF field.type = "UINT64" THEN uint64_pack(x)
  ELSE IF field.type = "BYTES" THEN binary_data_pack(x)
  ELSE binary_data_pack(P[<<field.descriptor, x>>])

ItemPrefix(field, x, P) ==
  IF field.type \in {"UINT32", "ENUM", "UINT64"} THEN 0
  ELSE IF field.type = "BYTES" THEN uint32_size(Len(x))
  ELSE uint32_size(Len(P[<<field.descriptor, x>>]))

\* The member that is scanned from it.
ItemScanned(desc, field, x, P) ==
  ScannedFrom(desc, field.id, WireType(field.type), ItemPrefix(field, x, P),
              ItemContent(field, x, P))

\* The content of one field has the size that was promised.
LEMMA ItemSized ==
  ASSUME NEW field, NEW x, NEW P, NEW S, IsItem(field, x, P),
         field.type \in {"UINT32", "ENUM", "UINT64", "BYTES", "MESSAGE"},
         field.type = "MESSAGE" => S[<<field.descriptor, x>>] = Len(P[<<field.descriptor, x>>])
  PROVE  required_field_get_packed_size(field, x, S)
           = get_tag_size(field.id) + Len(ItemContent(field, x, P))
<1>1. CASE field.type \in {"UINT32", "ENUM"}
  <2>1. x \in UInt32 /\ ItemContent(field, x, P) = uint32_pack(x)
    BY <1>1 DEF IsItem, ItemContent
  <2>2. Len(uint32_pack(x)) = uint32_size(x)
    BY <2>1, PackedUInt32
  <2>3. required_field_get_packed_size(field, x, S) = get_tag_size(field.id) + uint32_size(x)
    BY <1>1 DEF required_field_get_packed_size
  <2> QED
    BY <2>1, <2>2, <2>3
<1>2. CASE field.type = "UINT64"
  <2>1. x \in UInt64 /\ ItemContent(field, x, P) = uint64_pack(x)
    BY <1>2 DEF IsItem, ItemContent
  <2>2. Len(uint64_pack(x)) = uint64_size(x)
    BY <2>1, PackedUInt64
  <2>3. required_field_get_packed_size(field, x, S) = get_tag_size(field.id) + uint64_size(x)
    BY <1>2 DEF required_field_get_packed_size
  <2> QED
    BY <2>1, <2>2, <2>3
<1>3. CASE field.type = "BYTES"
  <2>1. /\ x \in Bytes /\ Len(x) \in UInt32
        /\ ItemContent(field, x, P) = binary_data_pack(x)
    BY <1>3 DEF IsItem, ItemContent
  <2>2. Len(binary_data_pack(x)) = uint32_size(Len(x)) + Len(x)
    BY <2>1, DataContent
  <2>3. required_field_get_packed_size(field, x, S)
          = get_tag_size(field.id) + (uint32_size(Len(x)) + Len(x))
    BY <1>3 DEF required_field_get_packed_size
  <2> QED
    BY <2>1, <2>2, <2>3
<1>4. CASE field.type = "MESSAGE"
  <2> DEFINE y == P[<<field.descriptor, x>>]
  <2>1. /\ x # NULL /\ y \in Bytes /\ Len(y) \in UInt32
        /\ ItemContent(field, x, P) = binary_data_pack(y)
    BY <1>4 DEF IsItem, ItemContent
  <2>2. S[<<field.descriptor, x>>] = Len(y)
    BY <1>4
  <2>3. required_field_get_packed_size(field, x, S)
          = get_tag_size(field.id) + (uint32_size(Len(y)) + Len(y))
    BY <1>4, <2>1, <2>2 DEF required_field_get_packed_size
  <2> HIDE DEF y
  <2>4. Len(binary_data_pack(y)) = uint32_size(Len(y)) + Len(y)
    BY <2>1, DataContent
  <2> QED
    BY <2>1, <2>3, <2>4
<1> QED
  BY <1>1, <1>2, <1>3, <1>4

\* The value parsed from s is x, whatever the field held before.
ParsedTo(field, s, x) ==
  \A old, maybe_clear, U : parse_required_member(field, s, old, maybe_clear, U) = x

\* It is scanned whole, and a scalar is parsed to what it was.
LEMMA ItemParsed ==
  ASSUME NEW field, NEW x, NEW P, NEW desc, IsItem(field, x, P),
         field.type \in {"UINT32", "ENUM", "UINT64", "BYTES", "MESSAGE"}
  PROVE  /\ IsContent(WireType(field.type), ItemPrefix(field, x, P), ItemContent(field, x, P))
         /\ required_field_pack(field, x, P)
              = tag_pack(field.id, WireType(field.type)) \o ItemContent(field, x, P)
         /\ field.type = "MESSAGE" =>
              ContentOf(ItemScanned(desc, field, x, P)) = P[<<field.descriptor, x>>]
         /\ field.type # "MESSAGE" => ParsedTo(field, ItemScanned(desc, field, x, P), x)
<1> DEFINE s == ItemScanned(desc, field, x, P)
           c == ItemContent(field, x, P)
<1>0. s.data = c /\ s.prefix_len = ItemPrefix(field, x, P)
  BY DEF ItemScanned, ScannedFrom
<1>1. CASE field.type \in {"UINT32", "ENUM"}
  <2>1. x \in UInt32 /\ c = uint32_pack(x) /\ ItemPrefix(field, x, P) = 0
    BY <1>1 DEF IsItem, ItemContent, ItemPrefix
  <2>2. /\ IsContent(VARINT, 0, uint32_pack(x)) /\ Len(uint32_pack(x)) = uint32_size(x)
        /\ parse_uint32(Len(uint32_pack(x)), uint32_pack(x)) = x
    <3> DEFINE p == uint32_pack(x)
               n == uint32_size(x)
    <3>1. /\ n \in 1 .. 5 /\ p \in Bytes /\ Len(p) = n /\ p[n] < 128
          /\ \A i \in 1 .. n - 1 : p[i] >= 128
          /\ parse_uint32(n, p) = x
      BY <2>1, PackedUInt32
    <3> HIDE DEF p, n
    <3>2. n \in 1 .. 10
      BY <3>1
    <3>3. IsContent(VARINT, 0, p)
      BY <3>1, <3>2, VarintContent
    <3> QED
      BY <3>1, <3>3 DEF p, n
  <2>3. WireType(field.type) = VARINT
    BY <1>1 DEF WireType
  <2>4. required_field_pack(field, x, P) = tag_pack(field.id, WireType(field.type)) \o c
    BY <1>1, <2>1 DEF required_field_pack
  <2>5. \A old, maybe_clear, U :
           parse_required_member(field, s, old, maybe_clear, U) = parse_uint32(Len(c), c)
    BY <1>0, <1>1 DEF parse_required_member
  <2> QED
    BY <1>1, <2>1, <2>2, <2>3, <2>4, <2>5 DEF ParsedTo
<1>2. CASE field.type = "UINT64"
  <2>1. x \in UInt64 /\ c = uint64_pack(x) /\ ItemPrefix(field, x, P) = 0
    BY <1>2 DEF IsItem, ItemContent, ItemPrefix
  <2>2. /\ IsContent(VARINT, 0, uint64_pack(x)) /\ Len(uint64_pack(x)) = uint64_size(x)
        /\ parse_uint64(Len(uint64_pack(x)), uint64_pack(x)) = x
    <3> DEFINE p == uint64_pack(x)
               n == uint64_size(x)
    <3>1. /\ n \in 1 .. 9 /\ p \in Bytes /\ Len(p) = n /\ p[n] < 128
          /\ \A i \in 1 .. n - 1 : p[i] >= 128
          /\ parse_uint64(n, p) = x
      BY <2>1, PackedUInt64
    <3> HIDE DEF p, n
    <3>2. n \in 1 .. 10
      BY <3>1
    <3>3. IsContent(VARINT, 0, p)
      BY <3>1, <3>2, VarintContent
    <3> QED
      BY <3>1, <3>3 DEF p, n
  <2>3. WireType(field.type) = VARINT
    BY <1>2 DEF WireType
  <2>4. required_field_pack(field, x, P) = tag_pack(field.id, WireType(field.type)) \o c
    BY <1>2, <2>1 DEF required_field_pack
  <2>5. \A old, maybe_clear, U :
           parse_required_member(field, s, old, maybe_clear, U) = parse_uint64(Len(c), c)
    BY <1>0, <1>2 DEF parse_required_member
  <2> QED
    BY <1>2, <2>1, <2>2, <2>3, <2>4, <2>5 DEF ParsedTo
<1>3. CASE field.type = "BYTES"
  <2>1. /\ x \in Bytes /\ Len(x) \in UInt32 /\ c = binary_data_pack(x)
        /\ ItemPrefix(field, x, P) = uint32_size(Len(x))
    BY <1>3 DEF IsItem, ItemContent, ItemPrefix
  <2>2. /\ IsContent(LENGTH_PREFIXED, uint32_size(Len(x)), c)
        /\ Len(c) = uint32_size(Len(x)) + Len(x)
        /\ SubSeq(c, uint32_size(Len(x)) + 1, Len(c)) = x
    BY <2>1, DataContent
  <2>3. WireType(field.type) = LENGTH_PREFIXED
    BY <1>3 DEF WireType
  <2>4. required_field_pack(field, x, P) = tag_pack(field.id, WireType(field.type)) \o c
    BY <1>3, <2>1 DEF required_field_pack
  <2>5. ContentOf(s) = x
    BY <1>0, <2>1, <2>2 DEF ContentOf
  <2>6. \A old, maybe_clear, U : parse_required_member(field, s, old, maybe_clear, U) = x
    BY <1>3, <2>5 DEF parse_required_member
  <2> QED
    BY <1>3, <2>1, <2>2, <2>3, <2>4, <2>6 DEF ParsedTo
<1>4. CASE field.type = "MESSAGE"
  <2> DEFINE y == P[<<field.descriptor, x>>]
  <2>1. /\ x # NULL /\ y \in Bytes /\ Len(y) \in UInt32 /\ c = binary_data_pack(y)
        /\ ItemPrefix(field, x, P) = uint32_size(Len(y))
    BY <1>4 DEF IsItem, ItemContent, ItemPrefix
  <2>2. required_field_pack(field, x, P) = tag_pack(field.id, WireType(field.type)) \o c
    BY <1>4, <2>1 DEF required_field_pack, prefixed_message_pack
  <2> HIDE DEF y
  <2>5. /\ IsContent(LENGTH_PREFIXED, uint32_size(Len(y)), c)
        /\ Len(c) = uint32_size(Len(y)) + Len(y)
        /\ SubSeq(c, uint32_size(Len(y)) + 1, Len(c)) = y
    BY <2>1, DataContent
  <2>6. WireType(field.type) = LENGTH_PREFIXED
    BY <1>4 DEF WireType
  <2>7. ContentOf(s) = y
    BY <1>0, <2>1, <2>5 DEF ContentOf
  <2> QED
    BY <1>4, <2>1, <2>2, <2>5, <2>6, <2>7 DEF y
<1> QED
  BY <1>1, <1>2, <1>3, <1>4

\* The bytes b, with any others behind them, are scanned as members, each of which
\* is good, with the field indexes in I and the embedded messages in E; what is
\* parsed from them is m, if U unpacks what P packed as C says.
Reads(desc, P, C, E, I, b, members, m) ==
  /\ b \in Bytes /\ members \in Seq(Scanned(desc))
  /\ \A rest \in Bytes : ScanMembers(desc, b \o rest) = members \o ScanMembers(desc, rest)
  /\ \A s \in Range(members) :
       /\ s.data # <<>> /\ s.index \in 0 .. Len(desc.fields) - 1
       /\ s.wire_type = WireType(desc.fields[s.index + 1].type)
  /\ {s.index : s \in Range(members)} = I
  /\ PackedIn(desc, members) = {<<q[1], P[q]>> : q \in E}
  /\ \A U : (\A q \in E : U[<<q[1], P[q]>>] = C[q]) => parse_all(desc, members, U) = m

\* The embedded message of an item, and the value it is unpacked to.
ItemEmbedded(field, x) == IF field.type = "MESSAGE" THEN {<<field.descriptor, x>>} ELSE {}
ItemUnpacked(field, x, C) == IF field.type = "MESSAGE" THEN C[<<field.descriptor, x>>] ELSE x

\* The message m with the value v in a field.
WithMember(m, field, v) ==
  IF field.label = "REPEATED" THEN [m EXCEPT ![field.name] = Append(@, v)]
  ELSE [m EXCEPT ![field.name] = v,
                 !.has = IF field.label = "OPTIONAL" /\ field.type # "MESSAGE"
                         THEN @ \cup {field.name} ELSE @]

\* Range of a sequence with one element more.
LEMMA RangeOfAppend ==
  ASSUME NEW A, NEW ss \in Seq(A), NEW x
  PROVE  Range(Append(ss, x)) = Range(ss) \cup {x}
<1>1. /\ Len(ss) \in Nat /\ DOMAIN ss = 1 .. Len(ss)
      /\ DOMAIN Append(ss, x) = 1 .. Len(ss) + 1
      /\ \A i \in 1 .. Len(ss) : Append(ss, x)[i] = ss[i]
      /\ Append(ss, x)[Len(ss) + 1] = x
  OBVIOUS
<1> DEFINE t == Append(ss, x)
           n == Len(ss)
<1>2. n + 1 \in 1 .. n + 1 /\ \A i \in 1 .. n + 1 : i \in 1 .. n \/ i = n + 1
  BY <1>1
<1>3. \A i \in 1 .. n : i \in 1 .. n + 1
  BY <1>1
<1> HIDE DEF t, n
<1>4. DOMAIN ss = 1 .. n /\ DOMAIN t = 1 .. n + 1
  BY <1>1 DEF t, n
<1>5. \A i \in 1 .. n : t[i] = ss[i]
  BY <1>1 DEF t, n
<1>6. t[n + 1] = x
  BY <1>1 DEF t, n
<1>7. Range(t) = Range(ss) \cup {x}
  BY <1>2, <1>3, <1>4, <1>5, <1>6, Zenon DEF Range
<1> QED
  BY <1>7 DEF t

\* One item more.
LEMMA ReadItem ==
  ASSUME NEW desc, WellFormed(desc), NEW i \in 1 .. Len(desc.fields), NEW field,
         field = desc.fields[i],
         NEW P, NEW C, NEW E, NEW I, NEW b, NEW members, NEW m, NEW x,
         Reads(desc, P, C, E, I, b, members, m), IsItem(field, x, P),
         field.label # "REPEATED" /\ field.type = "MESSAGE" => m[field.name] = NULL
  PROVE  Reads(desc, P, C, E \cup ItemEmbedded(field, x), I \cup {i - 1},
               b \o required_field_pack(field, x, P),
               Append(members, ItemScanned(desc, field, x, P)),
               WithMember(m, field, ItemUnpacked(field, x, C)))
<1> DEFINE s == ItemScanned(desc, field, x, P)
           c == ItemContent(field, x, P)
           w == WireType(field.type)
           p == required_field_pack(field, x, P)
           ms == Append(members, s)
           D == E \cup ItemEmbedded(field, x)
<1>1. /\ field.id \in Nat /\ field.id * 8 + 7 \in UInt32
      /\ field.label \in {"REQUIRED", "OPTIONAL", "REPEATED"}
      /\ field.type \in {"UINT32", "ENUM", "UINT64", "BYTES", "MESSAGE"}
      /\ field.name \notin {"has", "unknown"}
      /\ int_range_lookup(desc.field_ranges, field.id) = i - 1
  BY DEF WellFormed
<1>2. w \in 0 .. 7 /\ field.id * 8 + w \in UInt32
  <2>1. w \in {0, 2}
    BY DEF WireType, VARINT, LENGTH_PREFIXED
  <2> HIDE DEF w
  <2> QED
    BY <1>1, <2>1 DEF UInt32
<1>3. /\ IsContent(w, ItemPrefix(field, x, P), c) /\ p = tag_pack(field.id, w) \o c
      /\ field.type = "MESSAGE" => ContentOf(s) = P[<<field.descriptor, x>>]
      /\ field.type # "MESSAGE" => ParsedTo(field, s, x)
  BY <1>1, ItemParsed
<1>4. s.index = i - 1 /\ s.data = c /\ s.wire_type = w /\ c # <<>>
  BY <1>1, <1>3 DEF ItemScanned, ScannedFrom, IsContent
<1>5. /\ p \in Bytes /\ s \in Scanned(desc)
      /\ \A rest \in Bytes : ScanMembers(desc, p \o rest) = <<s>> \o ScanMembers(desc, rest)
  <2> DEFINE l == ItemPrefix(field, x, P)
  <2>1. s = ScannedFrom(desc, field.id, w, l, c)
    BY DEF ItemScanned
  <2> HIDE DEF s, c, w, p, l
  <2>2. IsContent(w, l, c) /\ p = tag_pack(field.id, w) \o c
    BY <1>3 DEF l
  <2>3. Ahead(desc, tag_pack(field.id, w) \o c, ScannedFrom(desc, field.id, w, l, c))
    BY <1>1, <1>2, <2>2, MemberAhead
  <2> QED
    BY <2>1, <2>2, <2>3 DEF Ahead
<1>6. b \in Bytes /\ members \in Seq(Scanned(desc))
  BY DEF Reads
<1>7. Len(desc.fields) \in Nat /\ i - 1 \in 0 .. Len(desc.fields) - 1 /\ i - 1 + 1 = i
  BY DEF WellFormed
<1>8. Range(ms) = Range(members) \cup {s}
  BY <1>6, RangeOfAppend
<1> HIDE DEF s, c, w, p
<1>9. b \o p \in Bytes /\ ms \in Seq(Scanned(desc))
  BY <1>5, <1>6, Parts, AppendProperties
<1>10. ASSUME NEW rest \in Bytes
       PROVE  ScanMembers(desc, (b \o p) \o rest) = ms \o ScanMembers(desc, rest)
  <2>1. p \o rest \in Bytes /\ (b \o p) \o rest = b \o (p \o rest)
    BY <1>5, <1>6, Parts, PartsAssociate
  <2>2. ScanMembers(desc, b \o (p \o rest)) = members \o (<<s>> \o ScanMembers(desc, rest))
    BY <1>5, <2>1 DEF Reads
  <2>3. ScanMembers(desc, rest) \in Seq(Scanned(desc)) /\ <<s>> \in Seq(Scanned(desc))
    BY <1>5, MembersScanned
  <2>4. members \o (<<s>> \o ScanMembers(desc, rest))
          = (members \o <<s>>) \o ScanMembers(desc, rest)
    BY <1>6, <2>3, ConcatAssociative
  <2>5. ms = members \o <<s>>
    BY <1>5, <1>6, AppendIsConcat
  <2> QED
    BY <2>1, <2>2, <2>4, <2>5
<1>11. \A t \in Range(ms) :
         /\ t.data # <<>> /\ t.index \in 0 .. Len(desc.fields) - 1
         /\ t.wire_type = WireType(desc.fields[t.index + 1].type)
  <2>1. /\ s.data # <<>> /\ s.index \in 0 .. Len(desc.fields) - 1
        /\ s.wire_type = WireType(desc.fields[s.index + 1].type)
    BY <1>4, <1>7 DEF w
  <2>2. \A t \in Range(members) :
         /\ t.data # <<>> /\ t.index \in 0 .. Len(desc.fields) - 1
         /\ t.wire_type = WireType(desc.fields[t.index + 1].type)
    BY DEF Reads
  <2> QED
    BY <1>8, <2>1, <2>2
<1>12. {t.index : t \in Range(ms)} = I \cup {i - 1}
  <2>1. {t.index : t \in Range(members)} = I
    BY DEF Reads
  <2> QED
    BY <1>4, <1>8, <2>1
<1>13. PackedIn(desc, ms) = {<<q[1], P[q]>> : q \in D}
  <2>1. PackedIn(desc, members) = {<<q[1], P[q]>> : q \in E}
    BY DEF Reads
  <2>2. s.index >= 0 /\ desc.fields[s.index + 1] = field
    BY <1>4, <1>7
  <2>3. CASE field.type = "MESSAGE"
    <3>1. PackedIn(desc, ms) = PackedIn(desc, members) \cup {<<field.descriptor, ContentOf(s)>>}
      BY <1>8, <2>2, <2>3 DEF PackedIn
    <3>2. D = E \cup {<<field.descriptor, x>>}
      BY <2>3 DEF ItemEmbedded
    <3>3. ContentOf(s) = P[<<field.descriptor, x>>]
      BY <1>3, <2>3
    <3> HIDE DEF D, ms
    <3> QED
      BY <2>1, <3>1, <3>2, <3>3
  <2>4. CASE field.type # "MESSAGE"
    <3>1. PackedIn(desc, ms) = PackedIn(desc, members)
      BY <1>8, <2>2, <2>4 DEF PackedIn
    <3>2. D = E
      BY <2>4 DEF ItemEmbedded
    <3> QED
      BY <2>1, <3>1, <3>2
  <2> QED
    BY <2>3, <2>4
<1>14. ASSUME NEW U, \A q \in D : U[<<q[1], P[q]>>] = C[q]
       PROVE  parse_all(desc, ms, U) = WithMember(m, field, ItemUnpacked(field, x, C))
  <2>1. parse_all(desc, members, U) = m
    BY <1>14 DEF Reads
  <2>2. parse_all(desc, ms, U) = parse_member(desc, m, s, U)
    <3> DEFINE n == Len(members)
    <3>1. /\ n \in Nat /\ Len(ms) = n + 1 /\ \A j \in 1 .. n : ms[j] = members[j]
          /\ ms[n + 1] = s
      BY <1>6
    <3> HIDE DEF n, ms
    <3>2. parse_all(desc, ms, U) = parse_member(desc, parse_all(desc, members, U), ms[n + 1], U)
      BY <3>1, ParseAppend DEF n
    <3> QED
      BY <2>1, <3>1, <3>2
  <2>3. desc.fields[s.index + 1] = field /\ ~ s.index < 0
    BY <1>4, <1>7
  <2> DEFINE v(old, maybe_clear) == parse_required_member(field, s, old, maybe_clear, U)
  <2>4. parse_member(desc, m, s, U)
          = IF field.label = "REPEATED"
            THEN [m EXCEPT ![field.name] = Append(@, v(NULL, FALSE))]
            ELSE [m EXCEPT ![field.name] = v(@, TRUE),
                    !.has = IF field.label = "OPTIONAL" /\ field.type # "MESSAGE"
                            THEN @ \cup {field.name} ELSE @]
    BY <2>3 DEF parse_member
  <2>5. /\ v(NULL, FALSE) = ItemUnpacked(field, x, C)
        /\ field.label # "REPEATED" => v(m[field.name], TRUE) = ItemUnpacked(field, x, C)
    <3>1. CASE field.type = "MESSAGE"
      <4>1. U[<<field.descriptor, ContentOf(s)>>] = C[<<field.descriptor, x>>]
        <5>1. <<field.descriptor, x>> \in D
          BY <3>1 DEF ItemEmbedded
        <5>2. U[<<field.descriptor, P[<<field.descriptor, x>>]>>] = C[<<field.descriptor, x>>]
          BY <1>14, <5>1
        <5> QED
          BY <1>3, <3>1, <5>2
      <4> QED
        BY <3>1, <4>1 DEF parse_required_member, ItemUnpacked
    <3>2. CASE field.type # "MESSAGE"
      BY <1>3, <3>2 DEF ItemUnpacked, ParsedTo
    <3> QED
      BY <3>1, <3>2
  <2> HIDE DEF v
  <2>6. parse_member(desc, m, s, U) = WithMember(m, field, ItemUnpacked(field, x, C))
    BY <2>4, <2>5 DEF WithMember
  <2> QED
    BY <2>2, <2>6
<1> HIDE DEF ms, D
<1>15. Reads(desc, P, C, D, I \cup {i - 1}, b \o p, ms,
             WithMember(m, field, ItemUnpacked(field, x, C)))
  BY <1>9, <1>10, <1>11, <1>12, <1>13, <1>14 DEF Reads
<1> QED
  BY <1>15 DEF D, p, ms, s

-----------------------------------------------------------------------------
\* The first n elements of F.
Prefix(F, n) == [i \in 1 .. n |-> F[i]]

\* Byte strings one behind the other.
LEMMA FlattenPrefix ==
  ASSUME NEW F, NEW n \in Nat, \A i \in 1 .. n : F[i] \in Bytes
  PROVE  /\ FlattenSeq(Prefix(F, 0)) = <<>>
         /\ \A k \in 0 .. n : FlattenSeq(Prefix(F, k)) \in Bytes
         /\ \A k \in 0 .. n - 1 :
              FlattenSeq(Prefix(F, k + 1)) = FlattenSeq(Prefix(F, k)) \o F[k + 1]
<1>1. FlattenSeq(Prefix(F, 0)) = <<>>
  <2>1. Prefix(F, 0) = <<>>
    BY DEF Prefix
  <2>2. FlattenSeq(<<>>) = <<>>
    BY DEF FlattenSeq
  <2> QED
    BY <2>1, <2>2
<1>2. ASSUME NEW k \in 0 .. n PROVE Prefix(F, k) \in Seq(Bytes)
  <2>1. \A i \in 1 .. k : F[i] \in Bytes
    OBVIOUS
  <2>2. Prefix(F, k) \in [1 .. k -> Bytes]
    BY <2>1 DEF Prefix
  <2>3. k \in Nat
    OBVIOUS
  <2> QED
    BY <2>2, <2>3, FunctionIsSeq
<1>3. ASSUME NEW k \in 0 .. n PROVE FlattenSeq(Prefix(F, k)) \in Bytes
  BY <1>2, FlattenType DEF Bytes
<1>4. ASSUME NEW k \in 0 .. n - 1
      PROVE  FlattenSeq(Prefix(F, k + 1)) = FlattenSeq(Prefix(F, k)) \o F[k + 1]
  <2>1. k \in 0 .. n /\ k + 1 \in 1 .. n /\ k \in Nat
    OBVIOUS
  <2>2. Prefix(F, k) \in Seq(Bytes) /\ F[k + 1] \in Bytes
    BY <1>2, <2>1
  <2>3. Prefix(F, k + 1) = Append(Prefix(F, k), F[k + 1])
    BY <2>1 DEF Prefix
  <2> QED
    BY <2>2, <2>3, FlattenAppend DEF Bytes
<1> QED
  BY <1>1, <1>3, <1>4

\* A function on 1 .. n is its own prefix.
LEMMA PrefixWhole ==
  ASSUME NEW F, NEW n \in Nat, F = [i \in 1 .. n |-> F[i]]
  PROVE  Prefix(F, n) = F
BY DEF Prefix

\* The length of byte strings one behind the other.
LEMMA FlattenLen ==
  ASSUME NEW F, NEW L, NEW n \in Nat, \A i \in 1 .. n : F[i] \in Bytes /\ Len(F[i]) = L[i]
  PROVE  Len(FlattenSeq(Prefix(F, n))) = Total(Prefix(L, n))
<1> DEFINE S == {k \in Nat : k <= n => Len(FlattenSeq(Prefix(F, k))) = Total(Prefix(L, k))}
<1>1. \A k \in Nat : Len(Prefix(L, k)) = k
  BY DEF Prefix
<1>2. 0 \in S
  <2>1. Len(<<>>) = 0
    OBVIOUS
  <2>2. Total(Prefix(L, 0)) = 0
    BY <1>1, TotalEmpty
  <2>3. FlattenSeq(Prefix(F, 0)) = <<>>
    BY FlattenPrefix
  <2> QED
    BY <2>1, <2>2, <2>3
<1>3. ASSUME NEW k \in Nat, k \in S PROVE k + 1 \in S
  <2> SUFFICES ASSUME k + 1 <= n
               PROVE  Len(FlattenSeq(Prefix(F, k + 1))) = Total(Prefix(L, k + 1))
    OBVIOUS
  <2>1. k \in 0 .. n - 1 /\ k \in 0 .. n /\ k + 1 \in 1 .. n
    OBVIOUS
  <2>2. /\ FlattenSeq(Prefix(F, k + 1)) = FlattenSeq(Prefix(F, k)) \o F[k + 1]
        /\ FlattenSeq(Prefix(F, k)) \in Bytes
    BY <2>1, FlattenPrefix
  <2>3. Len(FlattenSeq(Prefix(F, k + 1))) = Len(FlattenSeq(Prefix(F, k))) + Len(F[k + 1])
    BY <2>1, <2>2, Parts
  <2>4. Total(Prefix(L, k + 1)) = Total(Prefix(L, k)) + Prefix(L, k + 1)[k + 1]
    <3>1. \A i \in 1 .. k : Prefix(L, k + 1)[i] = Prefix(L, k)[i]
      BY DEF Prefix
    <3>2. Len(Prefix(L, k)) = k /\ Len(Prefix(L, k + 1)) = k + 1
      BY <1>1
    <3> QED
      BY <3>1, <3>2, TotalAppend
  <2>5. Prefix(L, k + 1)[k + 1] = Len(F[k + 1])
    BY <2>1 DEF Prefix
  <2>6. Len(FlattenSeq(Prefix(F, k))) = Total(Prefix(L, k))
    BY <1>3, <2>1
  <2> QED
    BY <2>3, <2>4, <2>5, <2>6
<1> HIDE DEF S
<1>4. n \in S
  BY <1>2, <1>3, SetInduction
<1> QED
  BY <1>4 DEF S

-----------------------------------------------------------------------------
\* A message with members of the types its descriptor gives them.
Typed(desc, m, P) ==
  /\ m = [name \in MemberNames(desc) |-> m[name]]
  /\ m.unknown = <<>>
  /\ m.has \subseteq {desc.fields[i].name : i \in {j \in 1 .. Len(desc.fields) :
       desc.fields[j].label = "OPTIONAL" /\ desc.fields[j].type # "MESSAGE"}}
  /\ \A i \in 1 .. Len(desc.fields) :
       LET field == desc.fields[i]
           x     == m[field.name]
       IN  /\ field.label = "REQUIRED" => IsItem(field, x, P)
           /\ field.label = "OPTIONAL" /\ IsSet(field, m) => IsItem(field, x, P)
           /\ field.label = "REPEATED" =>
                /\ Len(x) \in Nat /\ x = [j \in 1 .. Len(x) |-> x[j]]
                /\ \A j \in 1 .. Len(x) : IsItem(field, x[j], P)

\* What a receiver makes of a field: embedded messages as C has them, and an
\* optional scalar whose quantifier is not set as the init function leaves it.
MemberThrough(field, m, C) ==
  LET x == m[field.name]
  IN  IF field.label = "REPEATED" THEN [j \in 1 .. Len(x) |-> ItemUnpacked(field, x[j], C)]
      ELSE IF field.label = "REQUIRED" \/ IsSet(field, m) THEN ItemUnpacked(field, x, C)
      ELSE EmptyMember(field)

Through(desc, m, C) ==
  [name \in MemberNames(desc) |->
     IF name = "has" THEN m.has ELSE IF name = "unknown" THEN <<>>
     ELSE MemberThrough(FieldNamed(desc, name), m, C)]

\* The optional scalars among the first k fields that are set.
HasUpTo(desc, m, k) ==
  {desc.fields[i].name : i \in {j \in 1 .. k :
     /\ desc.fields[j].label = "OPTIONAL" /\ desc.fields[j].type # "MESSAGE"
     /\ desc.fields[j].name \in m.has}}

\* The message when the first k fields are parsed.
ThroughUpTo(desc, m, C, k) ==
  [name \in MemberNames(desc) |->
     IF name = "has" THEN HasUpTo(desc, m, k) ELSE IF name = "unknown" THEN <<>>
     ELSE IF \E i \in 1 .. k : desc.fields[i].name = name
     THEN MemberThrough(FieldNamed(desc, name), m, C) ELSE EmptyMember(FieldNamed(desc, name))]

\* The embedded messages of a field, and of the first k fields.
FieldEmbedded(field, m) ==
  IF field.type = "MESSAGE" THEN {<<field.descriptor, x>> : x \in MembersOf(field, m)} ELSE {}
EmbeddedUpTo(desc, m, k) == UNION {FieldEmbedded(desc.fields[i], m) : i \in 1 .. k}

\* Whether a field is in the bytes, and the indexes of those among the first k.
IsPresent(field, m) ==
  \/ field.label = "REQUIRED"
  \/ field.label = "OPTIONAL" /\ IsSet(field, m)
  \/ field.label = "REPEATED" /\ Len(m[field.name]) # 0
IndexesUpTo(desc, m, k) == {i - 1 : i \in {j \in 1 .. k : IsPresent(desc.fields[j], m)}}

\* A name is that of one field only.
LEMMA NamedField ==
  ASSUME NEW desc, WellFormed(desc), NEW i \in 1 .. Len(desc.fields)
  PROVE  /\ FieldNamed(desc, desc.fields[i].name) = desc.fields[i]
         /\ desc.fields[i].name \in MemberNames(desc)
<1> DEFINE n == Len(desc.fields)
           F == desc.fields
<1>1. Range(F) = {F[j] : j \in 1 .. n}
  BY DEF WellFormed, Range
<1>2. \A j \in 1 .. n : F[j].name = F[i].name => j = i
  BY DEF WellFormed
<1>3. F[i] \in Range(F)
  BY <1>1
<1>4. \A f \in Range(F) : f.name = F[i].name => f = F[i]
  BY <1>1, <1>2
<1>5. FieldNamed(desc, F[i].name) = F[i]
  <2> DEFINE c == CHOOSE f \in Range(F) : f.name = F[i].name
  <2>1. c \in Range(F) /\ c.name = F[i].name
    BY <1>3
  <2> HIDE DEF c
  <2>2. c = F[i]
    BY <1>4, <2>1
  <2> QED
    BY <2>2 DEF FieldNamed, c
<1> QED
  BY <1>3, <1>5 DEF MemberNames

\* What the k-th field adds to what is read.
FieldMore(desc, m, C, k, field) ==
  /\ ThroughUpTo(desc, m, C, k - 1)[field.name] = EmptyMember(field)
  /\ ThroughUpTo(desc, m, C, k) =
       [ThroughUpTo(desc, m, C, k - 1) EXCEPT
          ![field.name] = MemberThrough(field, m, C),
          !.has = IF /\ field.label = "OPTIONAL" /\ field.type # "MESSAGE"
                     /\ field.name \in m.has
                  THEN @ \cup {field.name} ELSE @]
  /\ EmbeddedUpTo(desc, m, k) = EmbeddedUpTo(desc, m, k - 1) \cup FieldEmbedded(field, m)
  /\ IndexesUpTo(desc, m, k) = IndexesUpTo(desc, m, k - 1)
                                 \cup (IF IsPresent(field, m) THEN {k - 1} ELSE {})

\* Before any field, ...
LEMMA ThroughNone ==
  ASSUME NEW desc, NEW m, NEW C
  PROVE  /\ ThroughUpTo(desc, m, C, 0) = message_init(desc)
         /\ EmbeddedUpTo(desc, m, 0) = {} /\ IndexesUpTo(desc, m, 0) = {}
<1>1. HasUpTo(desc, m, 0) = {}
  BY DEF HasUpTo
<1>2. ThroughUpTo(desc, m, C, 0) = message_init(desc)
  BY <1>1 DEF ThroughUpTo, message_init
<1> QED
  BY <1>2 DEF EmbeddedUpTo, IndexesUpTo

\* ... with one field more, ...
LEMMA ThroughOneMore ==
  ASSUME NEW desc, WellFormed(desc), NEW m, NEW C, NEW k \in 1 .. Len(desc.fields), NEW field,
         field = desc.fields[k]
  PROVE  FieldMore(desc, m, C, k, field)
<1> DEFINE n == Len(desc.fields)
           S == ThroughUpTo(desc, m, C, k - 1)
           T == ThroughUpTo(desc, m, C, k)
           N == MemberNames(desc)
           new == /\ field.label = "OPTIONAL" /\ field.type # "MESSAGE"
                  /\ field.name \in m.has
<1>1. /\ n \in Nat /\ k \in 1 .. n /\ field.name \notin {"has", "unknown"}
      /\ \A i, j \in 1 .. n : desc.fields[i].name = desc.fields[j].name => i = j
  BY DEF WellFormed
<1>2. FieldNamed(desc, field.name) = field /\ field.name \in N
  BY NamedField
<1>3. 1 .. k = (1 .. k - 1) \cup {k} /\ \A i \in 1 .. k - 1 : i \in 1 .. n /\ i # k
  BY <1>1
<1>4. \A name : (\E i \in 1 .. k : desc.fields[i].name = name)
                  <=> (\E i \in 1 .. k - 1 : desc.fields[i].name = name) \/ name = field.name
  BY <1>3
<1>5. ~ \E i \in 1 .. k - 1 : desc.fields[i].name = field.name
  BY <1>1, <1>3
<1>6. HasUpTo(desc, m, k) = HasUpTo(desc, m, k - 1) \cup (IF new THEN {field.name} ELSE {})
  BY <1>3 DEF HasUpTo
<1>7. S[field.name] = EmptyMember(field)
  BY <1>1, <1>2, <1>5 DEF ThroughUpTo
<1>8. EmbeddedUpTo(desc, m, k) = EmbeddedUpTo(desc, m, k - 1) \cup FieldEmbedded(field, m)
  BY <1>3 DEF EmbeddedUpTo
<1>9. IndexesUpTo(desc, m, k) = IndexesUpTo(desc, m, k - 1)
                                  \cup (IF IsPresent(field, m) THEN {k - 1} ELSE {})
  BY <1>3 DEF IndexesUpTo
<1>10. "has" \in N
  BY DEF MemberNames
<1>11. T = [S EXCEPT ![field.name] = MemberThrough(field, m, C),
                     !.has = IF new THEN @ \cup {field.name} ELSE @]
  <2> DEFINE V == [S EXCEPT ![field.name] = MemberThrough(field, m, C),
                            !.has = IF new THEN @ \cup {field.name} ELSE @]
  <2>1. /\ \A name \in N : S[name] =
             IF name = "has" THEN HasUpTo(desc, m, k - 1) ELSE IF name = "unknown" THEN <<>>
             ELSE IF \E i \in 1 .. k - 1 : desc.fields[i].name = name
             THEN MemberThrough(FieldNamed(desc, name), m, C)
             ELSE EmptyMember(FieldNamed(desc, name))
        /\ S = [name \in N |-> S[name]]
    BY DEF ThroughUpTo
  <2>2. /\ \A name \in N : T[name] =
             IF name = "has" THEN HasUpTo(desc, m, k) ELSE IF name = "unknown" THEN <<>>
             ELSE IF \E i \in 1 .. k : desc.fields[i].name = name
             THEN MemberThrough(FieldNamed(desc, name), m, C)
             ELSE EmptyMember(FieldNamed(desc, name))
        /\ T = [name \in N |-> T[name]]
    BY DEF ThroughUpTo
  <2> HIDE DEF S, T, new, N
  <2>3. /\ V = [name \in N |-> V[name]]
        /\ \A name \in N : V[name] =
             IF name = "has" THEN IF new THEN S.has \cup {field.name} ELSE S.has
             ELSE IF name = field.name THEN MemberThrough(field, m, C) ELSE S[name]
    BY <1>1, <1>2, <1>10, <2>1
  <2> HIDE DEF V
  <2>4. ASSUME NEW name \in N PROVE T[name] = V[name]
    <3>1. CASE name = "has"
      BY <1>6, <1>10, <2>1, <2>2, <2>3, <3>1
    <3>2. CASE name = "unknown"
      BY <1>1, <2>1, <2>2, <2>3, <3>2
    <3>3. CASE name = field.name
      BY <1>1, <1>2, <1>4, <2>2, <2>3, <3>3
    <3>4. CASE name \notin {"has", "unknown", field.name}
      BY <1>4, <2>1, <2>2, <2>3, <3>4
    <3> QED
      BY <3>1, <3>2, <3>3, <3>4
  <2> QED
    BY <2>2, <2>3, <2>4 DEF V
<1> QED
  BY <1>7, <1>8, <1>9, <1>11 DEF FieldMore

\* ... and with all of them.
LEMMA ThroughAll ==
  ASSUME NEW desc, WellFormed(desc), NEW m, NEW C, NEW P, Typed(desc, m, P)
  PROVE  /\ ThroughUpTo(desc, m, C, Len(desc.fields)) = Through(desc, m, C)
         /\ EmbeddedUpTo(desc, m, Len(desc.fields)) = Embedded(desc, m)
<1> DEFINE n == Len(desc.fields)
           F == desc.fields
<1>1. n \in Nat /\ DOMAIN F = 1 .. n
  BY DEF WellFormed
<1>2. HasUpTo(desc, m, n) = m.has
  BY DEF HasUpTo, Typed
<1>3. ASSUME NEW name \in MemberNames(desc), name \notin {"has", "unknown"}
      PROVE  \E i \in 1 .. n : F[i].name = name
  BY <1>1, <1>3 DEF MemberNames, Range
<1>4. ThroughUpTo(desc, m, C, n) = Through(desc, m, C)
  BY <1>2, <1>3 DEF ThroughUpTo, Through
<1>5. EmbeddedUpTo(desc, m, n) = Embedded(desc, m)
  <2>1. Range(F) = {F[i] : i \in 1 .. n}
    BY <1>1 DEF Range
  <2>2. \A i \in 1 .. n : FieldEmbedded(F[i], m) = IF F[i].type = "MESSAGE"
          THEN {<<F[i].descriptor, x>> : x \in MembersOf(F[i], m)} ELSE {}
    BY DEF FieldEmbedded
  <2>3. Embedded(desc, m) = UNION {{<<field.descriptor, member>> : member \in MembersOf(field, m)} :
                                     field \in {f \in Range(F) : f.type = "MESSAGE"}}
    BY DEF Embedded
  <2>4. ASSUME NEW e \in EmbeddedUpTo(desc, m, n) PROVE e \in Embedded(desc, m)
    <3>1. PICK i \in 1 .. n : e \in FieldEmbedded(F[i], m)
      BY <2>4 DEF EmbeddedUpTo
    <3>2. F[i].type = "MESSAGE" /\ e \in {<<F[i].descriptor, x>> : x \in MembersOf(F[i], m)}
      BY <2>2, <3>1
    <3>3. F[i] \in {f \in Range(F) : f.type = "MESSAGE"}
      BY <2>1, <3>2
    <3> QED
      BY <2>3, <3>2, <3>3
  <2>5. ASSUME NEW e \in Embedded(desc, m) PROVE e \in EmbeddedUpTo(desc, m, n)
    <3>1. PICK f \in {g \in Range(F) : g.type = "MESSAGE"} :
            e \in {<<f.descriptor, x>> : x \in MembersOf(f, m)}
      BY <2>3, <2>5
    <3>2. PICK i \in 1 .. n : f = F[i]
      BY <2>1, <3>1
    <3>3. e \in FieldEmbedded(F[i], m)
      BY <2>2, <3>1, <3>2
    <3> QED
      BY <3>3 DEF EmbeddedUpTo
  <2> QED
    BY <2>4, <2>5
<1> QED
  BY <1>4, <1>5

-----------------------------------------------------------------------------
\* An item is packed into bytes, as many as its size says.
LEMMA ItemPacked ==
  ASSUME NEW desc, WellFormed(desc), NEW i \in 1 .. Len(desc.fields), NEW field,
         field = desc.fields[i], NEW P, NEW S, NEW x, IsItem(field, x, P),
         field.type = "MESSAGE" => S[<<field.descriptor, x>>] = Len(P[<<field.descriptor, x>>])
  PROVE  /\ required_field_pack(field, x, P) \in Bytes
         /\ Len(required_field_pack(field, x, P)) = required_field_get_packed_size(field, x, S)
<1> DEFINE w == WireType(field.type)
           c == ItemContent(field, x, P)
           l == ItemPrefix(field, x, P)
<1>1. /\ field.id \in Nat /\ field.id * 8 + 7 \in UInt32
      /\ field.type \in {"UINT32", "ENUM", "UINT64", "BYTES", "MESSAGE"}
  BY DEF WellFormed
<1>2. IsContent(w, l, c) /\ required_field_pack(field, x, P) = tag_pack(field.id, w) \o c
  BY <1>1, ItemParsed
<1>3. w \in 0 .. 7 /\ field.id * 8 + w \in UInt32
  <2>1. w \in {0, 2}
    BY DEF WireType, VARINT, LENGTH_PREFIXED
  <2> HIDE DEF w
  <2> QED
    BY <1>1, <2>1 DEF UInt32
<1>4. required_field_get_packed_size(field, x, S) = get_tag_size(field.id) + Len(c)
  BY <1>1, ItemSized
<1> HIDE DEF w, c, l
<1>5. /\ Ahead(desc, tag_pack(field.id, w) \o c, ScannedFrom(desc, field.id, w, l, c))
      /\ Len(tag_pack(field.id, w) \o c) = get_tag_size(field.id) + Len(c)
  BY <1>1, <1>2, <1>3, MemberAhead
<1> QED
  BY <1>2, <1>4, <1>5 DEF Ahead

\* The items of a repeated field, packed.
ItemsPacked(field, x, P) == [j \in 1 .. Len(x) |-> required_field_pack(field, x[j], P)]

\* The first l elements of x in m0, the message before them.
WithItems(m0, field, x, C, l) ==
  [m0 EXCEPT ![field.name] = [j \in 1 .. l |-> ItemUnpacked(field, x[j], C)]]

\* Some members are scanned from the bytes and parsed to the message.
ReadTo(desc, P, C, E, I, b, m) == \E members : Reads(desc, P, C, E, I, b, members, m)

\* What has been read of a repeated field after l elements.
ItemsReadTo(desc, P, C, E, I, b, m0, i, x, l) ==
  ReadTo(desc, P, C, E \cup {<<desc.fields[i].descriptor, x[j]>> : j \in 1 .. l},
         I \cup (IF l # 0 THEN {i - 1} ELSE {}),
         b \o FlattenSeq(Prefix(ItemsPacked(desc.fields[i], x, P), l)),
         WithItems(m0, desc.fields[i], x, C, l))

\* Nothing at first, ...
LEMMA ReadNoItem ==
  ASSUME NEW desc, WellFormed(desc), NEW i \in 1 .. Len(desc.fields), NEW field,
         field = desc.fields[i], NEW P, NEW C, NEW E, NEW I, NEW b, NEW m0, NEW x,
         ReadTo(desc, P, C, E, I, b, m0),
         m0 = [name \in MemberNames(desc) |-> m0[name]], m0[field.name] = <<>>
  PROVE  ItemsReadTo(desc, P, C, E, I, b, m0, i, x, 0)
<1> DEFINE F == ItemsPacked(field, x, P)
<1>1. b \in Bytes
  BY DEF ReadTo, Reads
<1>2. field.name \in MemberNames(desc)
  BY NamedField
<1> HIDE DEF F
<1>3. b \o FlattenSeq(Prefix(F, 0)) = b
  <2>1. FlattenSeq(Prefix(F, 0)) = <<>>
    <3>1. 0 \in Nat /\ \A j \in 1 .. 0 : F[j] \in Bytes
      OBVIOUS
    <3> QED
      BY <3>1, FlattenPrefix
  <2> QED
    BY <1>1, <2>1, ConcatEmptySeq DEF Bytes
<1>4. WithItems(m0, field, x, C, 0) = m0
  <2>1. [j \in 1 .. 0 |-> ItemUnpacked(field, x[j], C)] = <<>>
    OBVIOUS
  <2>2. [m0 EXCEPT ![field.name] = <<>>] = m0
    BY <1>2
  <2> QED
    BY <2>1, <2>2 DEF WithItems
<1>5. /\ E \cup {<<field.descriptor, x[j]>> : j \in 1 .. 0} = E
      /\ I \cup (IF 0 # 0 THEN {i - 1} ELSE {}) = I
  OBVIOUS
<1> QED
  BY <1>3, <1>4, <1>5 DEF ItemsReadTo, F

\* ... then one element more, ...
LEMMA ReadOneItem ==
  ASSUME NEW desc, WellFormed(desc), NEW i \in 1 .. Len(desc.fields), NEW field,
         field = desc.fields[i], field.label = "REPEATED",
         NEW P, NEW C, NEW E, NEW I, NEW b \in Bytes, NEW m0, NEW x, NEW n \in Nat,
         \A j \in 1 .. n : IsItem(field, x[j], P), Len(x) = n,
         m0 = [name \in MemberNames(desc) |-> m0[name]],
         NEW l \in 0 .. n - 1, ItemsReadTo(desc, P, C, E, I, b, m0, i, x, l)
  PROVE  ItemsReadTo(desc, P, C, E, I, b, m0, i, x, l + 1)
<1> DEFINE F == ItemsPacked(field, x, P)
           y == x[l + 1]
           E0 == E \cup {<<field.descriptor, x[j]>> : j \in 1 .. l}
           E1 == E \cup {<<field.descriptor, x[j]>> : j \in 1 .. l + 1}
           I0 == I \cup (IF l # 0 THEN {i - 1} ELSE {})
           I1 == I \cup (IF l + 1 # 0 THEN {i - 1} ELSE {})
           f0 == FlattenSeq(Prefix(F, l))
           f1 == FlattenSeq(Prefix(F, l + 1))
           p == required_field_pack(field, y, P)
           M0 == WithItems(m0, field, x, C, l)
           M1 == WithItems(m0, field, x, C, l + 1)
<1>1. field.type = "MESSAGE" /\ field.name \in MemberNames(desc)
  BY NamedField DEF WellFormed
<1>2. \A j \in 1 .. n : F[j] \in Bytes /\ F[j] = required_field_pack(field, x[j], P)
  <2> SUFFICES ASSUME NEW j \in 1 .. n PROVE required_field_pack(field, x[j], P) \in Bytes
    BY DEF ItemsPacked
  <2> DEFINE S == [q \in {<<field.descriptor, x[j]>>} |-> Len(P[q])]
  <2>1. S[<<field.descriptor, x[j]>>] = Len(P[<<field.descriptor, x[j]>>])
    OBVIOUS
  <2> HIDE DEF S
  <2>2. IsItem(field, x[j], P)
    OBVIOUS
  <2> QED
    BY <2>1, <2>2, ItemPacked
<1>3. l \in 0 .. n /\ l \in 0 .. n - 1 /\ l + 1 \in 1 .. n
  OBVIOUS
<1>4. IsItem(field, y, P)
  BY <1>3
<1>5. E0 \cup ItemEmbedded(field, y) = E1
  <2>1. 1 .. l + 1 = (1 .. l) \cup {l + 1}
    OBVIOUS
  <2> QED
    BY <1>1, <2>1 DEF ItemEmbedded
<1>6. I0 \cup {i - 1} = I1
  OBVIOUS
<1>7. (b \o f0) \o p = b \o f1
  <2> HIDE DEF F
  <2>1. f1 = f0 \o F[l + 1] /\ f0 \in Bytes
    BY <1>2, <1>3, FlattenPrefix
  <2>2. F[l + 1] = p /\ p \in Bytes
    BY <1>2, <1>3
  <2> HIDE DEF f0, f1, p
  <2>3. (b \o f0) \o p = b \o (f0 \o p)
    BY <2>1, <2>2, PartsAssociate
  <2> QED
    BY <2>1, <2>2, <2>3
<1>8. WithMember(M0, field, ItemUnpacked(field, y, C)) = M1
  <2> DEFINE A == [j \in 1 .. l |-> ItemUnpacked(field, x[j], C)]
             B == [j \in 1 .. l + 1 |-> ItemUnpacked(field, x[j], C)]
             v == ItemUnpacked(field, y, C)
  <2>1. Append(A, v) = B
    OBVIOUS
  <2>2. M0 = [m0 EXCEPT ![field.name] = A] /\ M1 = [m0 EXCEPT ![field.name] = B]
    BY DEF WithItems
  <2> HIDE DEF A, B, v, M0, M1
  <2>3. WithMember(M0, field, v) = [M0 EXCEPT ![field.name] = Append(@, v)]
    BY DEF WithMember
  <2>4. [[m0 EXCEPT ![field.name] = A] EXCEPT ![field.name] = Append(@, v)]
          = [m0 EXCEPT ![field.name] = Append(A, v)]
    BY <1>1
  <2> QED
    BY <2>1, <2>2, <2>3, <2>4 DEF v
<1>9. ReadTo(desc, P, C, E0, I0, b \o f0, M0)
  BY DEF ItemsReadTo
<1> HIDE DEF F, y, E0, E1, I0, I1, f0, f1, p, M0, M1
<1>10. PICK members : Reads(desc, P, C, E0, I0, b \o f0, members, M0)
  BY <1>9 DEF ReadTo
<1>11. Reads(desc, P, C, E0 \cup ItemEmbedded(field, y), I0 \cup {i - 1},
             (b \o f0) \o required_field_pack(field, y, P),
             Append(members, ItemScanned(desc, field, y, P)),
             WithMember(M0, field, ItemUnpacked(field, y, C)))
  BY <1>4, <1>10, ReadItem
<1>12. ReadTo(desc, P, C, E1, I1, b \o f1, M1)
  BY <1>5, <1>6, <1>7, <1>8, <1>11 DEF ReadTo, p
<1> QED
  BY <1>12 DEF ItemsReadTo, E1, I1, f1, F, M1

\* ... and all of them in the end.
LEMMA ReadItems ==
  ASSUME NEW desc, WellFormed(desc), NEW i \in 1 .. Len(desc.fields), NEW field,
         field = desc.fields[i], field.label = "REPEATED",
         NEW P, NEW C, NEW E, NEW I, NEW b \in Bytes, NEW m0, NEW x, NEW n \in Nat,
         \A j \in 1 .. n : IsItem(field, x[j], P), Len(x) = n,
         ReadTo(desc, P, C, E, I, b, m0),
         m0 = [name \in MemberNames(desc) |-> m0[name]], m0[field.name] = <<>>
  PROVE  ItemsReadTo(desc, P, C, E, I, b, m0, i, x, n)
<1> DEFINE K == {l \in Nat : l <= n => ItemsReadTo(desc, P, C, E, I, b, m0, i, x, l)}
<1>1. 0 \in K
  <2>1. ItemsReadTo(desc, P, C, E, I, b, m0, i, x, 0)
    BY ReadNoItem
  <2> QED
    BY <2>1
<1>2. ASSUME NEW l \in Nat, l \in K PROVE l + 1 \in K
  <2>1. ASSUME l + 1 <= n PROVE ItemsReadTo(desc, P, C, E, I, b, m0, i, x, l + 1)
    <3>1. l \in 0 .. n - 1 /\ ItemsReadTo(desc, P, C, E, I, b, m0, i, x, l)
      BY <1>2, <2>1
    <3> QED
      BY <3>1, ReadOneItem
  <2> QED
    BY <2>1
<1> HIDE DEF K
<1>3. n \in K
  BY <1>1, <1>2, SetInduction
<1> QED
  BY <1>3 DEF K

-----------------------------------------------------------------------------
\* What has been read of a message after its first k fields.
FieldsReadTo(desc, m, P, C, b, k) ==
  ReadTo(desc, P, C, EmbeddedUpTo(desc, m, k), IndexesUpTo(desc, m, k), b,
         ThroughUpTo(desc, m, C, k))

\* A field that holds one value is read, ...
LEMMA SingleFieldRead ==
  ASSUME NEW desc, WellFormed(desc), NEW m, NEW P, NEW C, Typed(desc, m, P),
         NEW k \in 1 .. Len(desc.fields), NEW field, field = desc.fields[k], NEW b,
         FieldsReadTo(desc, m, P, C, b, k - 1),
         \/ field.label = "REQUIRED"
         \/ field.label = "OPTIONAL" /\ IsSet(field, m)
  PROVE  FieldsReadTo(desc, m, P, C, b \o field_pack(field, m, P), k)
<1> DEFINE x == m[field.name]
           E == EmbeddedUpTo(desc, m, k - 1)
           I == IndexesUpTo(desc, m, k - 1)
           M == ThroughUpTo(desc, m, C, k - 1)
           v == ItemUnpacked(field, x, C)
<1>1. IsItem(field, x, P)
  BY DEF Typed
<1>2. field_pack(field, m, P) = required_field_pack(field, x, P)
  BY DEF field_pack, optional_field_pack
<1>3. FieldEmbedded(field, m) = ItemEmbedded(field, x)
  <2>1. CASE field.type = "MESSAGE"
    <3>1. x # NULL
      BY <1>1, <2>1 DEF IsItem
    <3>2. MembersOf(field, m) = {x}
      BY <3>1 DEF MembersOf
    <3> QED
      BY <2>1, <3>2 DEF FieldEmbedded, ItemEmbedded
  <2>2. CASE field.type # "MESSAGE"
    BY <2>2 DEF FieldEmbedded, ItemEmbedded
  <2> QED
    BY <2>1, <2>2
<1>4. IsPresent(field, m)
  BY DEF IsPresent
<1>5. field.label # "REPEATED" /\ field.name \notin {"has", "unknown"}
  BY DEF WellFormed
<1>6. MemberThrough(field, m, C) = v
  BY <1>5 DEF MemberThrough
<1>7. /\ M[field.name] = EmptyMember(field)
      /\ ThroughUpTo(desc, m, C, k) =
           [M EXCEPT ![field.name] = MemberThrough(field, m, C),
                     !.has = IF /\ field.label = "OPTIONAL" /\ field.type # "MESSAGE"
                                /\ field.name \in m.has
                             THEN @ \cup {field.name} ELSE @]
      /\ EmbeddedUpTo(desc, m, k) = E \cup FieldEmbedded(field, m)
      /\ IndexesUpTo(desc, m, k) = I \cup (IF IsPresent(field, m) THEN {k - 1} ELSE {})
  <2>1. FieldMore(desc, m, C, k, field)
    BY ThroughOneMore
  <2> QED
    BY <2>1 DEF FieldMore
<1>8. field.type = "MESSAGE" => M[field.name] = NULL
  BY <1>5, <1>7 DEF EmptyMember
<1>9. field.label = "OPTIONAL" /\ field.type # "MESSAGE" => field.name \in m.has
  BY DEF IsSet
<1> HIDE DEF x, E, I, M, v
<1>10. WithMember(M, field, v) = ThroughUpTo(desc, m, C, k)
  BY <1>5, <1>6, <1>7, <1>9 DEF WithMember
<1>11. PICK members : Reads(desc, P, C, E, I, b, members, M)
  BY DEF FieldsReadTo, ReadTo, E, I, M
<1>12. Reads(desc, P, C, E \cup ItemEmbedded(field, x), I \cup {k - 1},
             b \o required_field_pack(field, x, P),
             Append(members, ItemScanned(desc, field, x, P)), WithMember(M, field, v))
  BY <1>1, <1>8, <1>11, ReadItem DEF v
<1>13. ReadTo(desc, P, C, EmbeddedUpTo(desc, m, k), IndexesUpTo(desc, m, k),
              b \o field_pack(field, m, P), ThroughUpTo(desc, m, C, k))
  BY <1>2, <1>3, <1>4, <1>7, <1>10, <1>12 DEF ReadTo
<1> QED
  BY <1>13 DEF FieldsReadTo

\* ... one that is not set is not in the bytes, ...
LEMMA UnsetFieldRead ==
  ASSUME NEW desc, WellFormed(desc), NEW m, NEW P, NEW C, Typed(desc, m, P),
         NEW k \in 1 .. Len(desc.fields), NEW field, field = desc.fields[k], NEW b,
         FieldsReadTo(desc, m, P, C, b, k - 1), field.label = "OPTIONAL", ~ IsSet(field, m)
  PROVE  FieldsReadTo(desc, m, P, C, b \o field_pack(field, m, P), k)
<1> DEFINE E == EmbeddedUpTo(desc, m, k - 1)
           I == IndexesUpTo(desc, m, k - 1)
           M == ThroughUpTo(desc, m, C, k - 1)
<1>1. b \in Bytes
  BY DEF FieldsReadTo, ReadTo, Reads
<1>2. field_pack(field, m, P) = <<>>
  BY DEF field_pack, optional_field_pack
<1>3. b \o <<>> = b
  BY <1>1, ConcatEmptySeq DEF Bytes
<1>4. FieldEmbedded(field, m) = {} /\ ~ IsPresent(field, m)
  BY DEF FieldEmbedded, IsPresent, MembersOf, IsSet
<1>5. MemberThrough(field, m, C) = EmptyMember(field)
  BY DEF MemberThrough
<1>6. /\ M[field.name] = EmptyMember(field)
      /\ ThroughUpTo(desc, m, C, k) =
           [M EXCEPT ![field.name] = MemberThrough(field, m, C),
                     !.has = IF /\ field.label = "OPTIONAL" /\ field.type # "MESSAGE"
                                /\ field.name \in m.has
                             THEN @ \cup {field.name} ELSE @]
      /\ EmbeddedUpTo(desc, m, k) = E \cup FieldEmbedded(field, m)
      /\ IndexesUpTo(desc, m, k) = I \cup (IF IsPresent(field, m) THEN {k - 1} ELSE {})
  <2>1. FieldMore(desc, m, C, k, field)
    BY ThroughOneMore
  <2> QED
    BY <2>1 DEF FieldMore
<1>7. ~ (field.label = "OPTIONAL" /\ field.type # "MESSAGE" /\ field.name \in m.has)
  BY DEF IsSet
<1>8. M = [name \in DOMAIN M |-> M[name]]
  BY DEF ThroughUpTo
<1>9. ReadTo(desc, P, C, E, I, b, M)
  BY DEF FieldsReadTo
<1> HIDE DEF E, I, M
<1>10. ThroughUpTo(desc, m, C, k) = M
  <2>1. ThroughUpTo(desc, m, C, k) =
          [M EXCEPT ![field.name] = M[field.name], !.has = @]
    BY <1>5, <1>6, <1>7
  <2> QED
    BY <1>8, <2>1
<1> QED
  BY <1>2, <1>3, <1>4, <1>6, <1>9, <1>10 DEF FieldsReadTo

\* ... and one that holds an array is read element for element.
LEMMA RepeatedFieldRead ==
  ASSUME NEW desc, WellFormed(desc), NEW m, NEW P, NEW C, Typed(desc, m, P),
         NEW k \in 1 .. Len(desc.fields), NEW field, field = desc.fields[k], NEW b,
         FieldsReadTo(desc, m, P, C, b, k - 1), field.label = "REPEATED"
  PROVE  FieldsReadTo(desc, m, P, C, b \o field_pack(field, m, P), k)
<1> DEFINE x == m[field.name]
           n == Len(x)
           F == ItemsPacked(field, x, P)
           E == EmbeddedUpTo(desc, m, k - 1)
           I == IndexesUpTo(desc, m, k - 1)
           M == ThroughUpTo(desc, m, C, k - 1)
<1>1. n \in Nat /\ x = [j \in 1 .. n |-> x[j]] /\ \A j \in 1 .. n : IsItem(field, x[j], P)
  BY DEF Typed
<1>2. b \in Bytes /\ ReadTo(desc, P, C, E, I, b, M)
  BY DEF FieldsReadTo, ReadTo, Reads
<1>3. field.type = "MESSAGE" /\ field.name \notin {"has", "unknown"}
  BY DEF WellFormed
<1>4. field_pack(field, m, P) = FlattenSeq(Prefix(F, n))
  <2>1. F = [j \in 1 .. n |-> F[j]]
    BY DEF ItemsPacked
  <2>2. Prefix(F, n) = F
    BY <1>1, <2>1, PrefixWhole
  <2> QED
    BY <2>2 DEF field_pack, repeated_field_pack, ItemsPacked
<1>5. FieldEmbedded(field, m) = {<<field.descriptor, x[j]>> : j \in 1 .. n}
  <2>1. Range(x) = {x[j] : j \in 1 .. n}
    BY <1>1 DEF Range
  <2> QED
    BY <1>3, <2>1 DEF FieldEmbedded, MembersOf
<1>6. IsPresent(field, m) <=> n # 0
  BY DEF IsPresent
<1>7. MemberThrough(field, m, C) = [j \in 1 .. n |-> ItemUnpacked(field, x[j], C)]
  BY DEF MemberThrough
<1>8. /\ M[field.name] = EmptyMember(field)
      /\ ThroughUpTo(desc, m, C, k) =
           [M EXCEPT ![field.name] = MemberThrough(field, m, C),
                     !.has = IF /\ field.label = "OPTIONAL" /\ field.type # "MESSAGE"
                                /\ field.name \in m.has
                             THEN @ \cup {field.name} ELSE @]
      /\ EmbeddedUpTo(desc, m, k) = E \cup FieldEmbedded(field, m)
      /\ IndexesUpTo(desc, m, k) = I \cup (IF IsPresent(field, m) THEN {k - 1} ELSE {})
  <2>1. FieldMore(desc, m, C, k, field)
    BY ThroughOneMore
  <2> QED
    BY <2>1 DEF FieldMore
<1>9. M[field.name] = <<>> /\ M = [name \in MemberNames(desc) |-> M[name]]
  BY <1>8 DEF EmptyMember, ThroughUpTo
<1> HIDE DEF x, n, F, E, I, M
<1>10. ItemsReadTo(desc, P, C, E, I, b, M, k, x, n)
  BY <1>1, <1>2, <1>9, ReadItems DEF n
<1>11. WithItems(M, field, x, C, n) = ThroughUpTo(desc, m, C, k)
  <2>1. [M EXCEPT ![field.name] = MemberThrough(field, m, C)] = ThroughUpTo(desc, m, C, k)
    <3> DEFINE N == [M EXCEPT ![field.name] = MemberThrough(field, m, C)]
    <3>1. N = [name \in MemberNames(desc) |-> N[name]]
      BY <1>9
    <3>2. ThroughUpTo(desc, m, C, k) = [N EXCEPT !.has = @]
      BY <1>3, <1>8
    <3> HIDE DEF N
    <3> QED
      BY <3>1, <3>2 DEF N
  <2> QED
    BY <1>7, <2>1 DEF WithItems
<1>12. ReadTo(desc, P, C, E \cup {<<field.descriptor, x[j]>> : j \in 1 .. n},
              I \cup (IF n # 0 THEN {k - 1} ELSE {}),
              b \o FlattenSeq(Prefix(F, n)), WithItems(M, field, x, C, n))
  BY <1>10 DEF ItemsReadTo, F
<1>13. ReadTo(desc, P, C, EmbeddedUpTo(desc, m, k), IndexesUpTo(desc, m, k),
              b \o field_pack(field, m, P), ThroughUpTo(desc, m, C, k))
  BY <1>4, <1>5, <1>6, <1>8, <1>11, <1>12
<1> QED
  BY <1>13 DEF FieldsReadTo

\* So every field is read.
LEMMA FieldRead ==
  ASSUME NEW desc, WellFormed(desc), NEW m, NEW P, NEW C, Typed(desc, m, P),
         NEW k \in 1 .. Len(desc.fields), NEW b, FieldsReadTo(desc, m, P, C, b, k - 1)
  PROVE  FieldsReadTo(desc, m, P, C, b \o field_pack(desc.fields[k], m, P), k)
<1>1. desc.fields[k].label \in {"REQUIRED", "OPTIONAL", "REPEATED"}
  BY DEF WellFormed
<1> QED
  BY <1>1, SingleFieldRead, UnsetFieldRead, RepeatedFieldRead

-----------------------------------------------------------------------------
\* S has the sizes of the embedded messages, packed as in P.
SizesOf(S, P, E) == \A q \in E : S[q] = Len(P[q])

\* The items of a field, packed into bytes of the promised size.
LEMMA FieldPacked ==
  ASSUME NEW desc, WellFormed(desc), NEW m, NEW P, NEW S, Typed(desc, m, P),
         SizesOf(S, P, Embedded(desc, m)), NEW k \in 1 .. Len(desc.fields), NEW field,
         field = desc.fields[k]
  PROVE  /\ field_pack(field, m, P) \in Bytes
         /\ Len(field_pack(field, m, P)) = field_get_packed_size(field, m, S)
<1> DEFINE x == m[field.name]
<1>1. /\ field.label \in {"REQUIRED", "OPTIONAL", "REPEATED"}
      /\ field.label = "REPEATED" => field.type = "MESSAGE"
  BY DEF WellFormed
<1>2. FieldEmbedded(field, m) \subseteq Embedded(desc, m)
  <2>1. FieldEmbedded(field, m) \subseteq EmbeddedUpTo(desc, m, Len(desc.fields))
    BY DEF EmbeddedUpTo
  <2> QED
    BY <2>1, ThroughAll
<1>3. CASE field.label = "REQUIRED" \/ (field.label = "OPTIONAL" /\ IsSet(field, m))
  <2>1. IsItem(field, x, P)
    BY <1>3 DEF Typed
  <2>2. field.type = "MESSAGE" => S[<<field.descriptor, x>>] = Len(P[<<field.descriptor, x>>])
    <3> SUFFICES ASSUME field.type = "MESSAGE"
                 PROVE  S[<<field.descriptor, x>>] = Len(P[<<field.descriptor, x>>])
      OBVIOUS
    <3>1. x # NULL
      BY <2>1 DEF IsItem
    <3>2. x \in MembersOf(field, m)
      BY <1>3, <3>1 DEF MembersOf
    <3>3. <<field.descriptor, x>> \in FieldEmbedded(field, m)
      BY <3>2 DEF FieldEmbedded
    <3> QED
      BY <1>2, <3>3 DEF SizesOf
  <2>3. /\ field_pack(field, m, P) = required_field_pack(field, x, P)
        /\ field_get_packed_size(field, m, S) = required_field_get_packed_size(field, x, S)
    BY <1>3 DEF field_pack, optional_field_pack, field_get_packed_size,
                optional_field_get_packed_size
  <2> HIDE DEF x
  <2>4. /\ required_field_pack(field, x, P) \in Bytes
        /\ Len(required_field_pack(field, x, P)) = required_field_get_packed_size(field, x, S)
    <3>1. CASE field.type = "MESSAGE"
      <4>1. S[<<field.descriptor, x>>] = Len(P[<<field.descriptor, x>>])
        BY <2>2, <3>1
      <4> QED
        BY <2>1, <4>1, ItemPacked
    <3>2. CASE field.type # "MESSAGE"
      BY <2>1, <3>2, ItemPacked
    <3> QED
      BY <3>1, <3>2
  <2> QED
    BY <2>3, <2>4
<1>4. CASE field.label = "OPTIONAL" /\ ~ IsSet(field, m)
  <2>1. field_pack(field, m, P) = <<>> /\ field_get_packed_size(field, m, S) = 0
    BY <1>4 DEF field_pack, optional_field_pack, field_get_packed_size,
                optional_field_get_packed_size
  <2> QED
    BY <2>1, EmptySeq DEF Bytes
<1>5. CASE field.label = "REPEATED"
  <2> DEFINE n == Len(x)
             F == ItemsPacked(field, x, P)
             L == [j \in 1 .. n |-> required_field_get_packed_size(field, x[j], S)]
  <2>1. n \in Nat /\ x = [j \in 1 .. n |-> x[j]] /\ \A j \in 1 .. n : IsItem(field, x[j], P)
    BY <1>5 DEF Typed
  <2>2. ASSUME NEW j \in 1 .. n PROVE F[j] \in Bytes /\ Len(F[j]) = L[j]
    <3>1. <<field.descriptor, x[j]>> \in FieldEmbedded(field, m)
      <4>1. x[j] \in MembersOf(field, m)
        BY <1>5, <2>1 DEF MembersOf, Range
      <4> QED
        BY <1>1, <1>5, <4>1 DEF FieldEmbedded
    <3>2. S[<<field.descriptor, x[j]>>] = Len(P[<<field.descriptor, x[j]>>])
      BY <1>2, <3>1 DEF SizesOf
    <3>3. IsItem(field, x[j], P)
      BY <2>1
    <3>4. F[j] = required_field_pack(field, x[j], P)
      BY DEF ItemsPacked
    <3>5. L[j] = required_field_get_packed_size(field, x[j], S)
      OBVIOUS
    <3> DEFINE y == x[j]
    <3> HIDE DEF y, F, L
    <3>6. /\ required_field_pack(field, y, P) \in Bytes
          /\ Len(required_field_pack(field, y, P)) = required_field_get_packed_size(field, y, S)
      BY <3>2, <3>3, ItemPacked DEF y
    <3> QED
      BY <3>4, <3>5, <3>6 DEF y
  <2>3. F = [j \in 1 .. n |-> F[j]] /\ L = [j \in 1 .. n |-> L[j]]
    BY DEF ItemsPacked
  <2>4. field_pack(field, m, P) = FlattenSeq(F)
    BY <1>5 DEF field_pack, repeated_field_pack, ItemsPacked
  <2>5. field_get_packed_size(field, m, S) = Total(L)
    BY <1>5 DEF field_get_packed_size, repeated_field_get_packed_size
  <2> HIDE DEF x, n, F, L
  <2>6. Prefix(F, n) = F /\ Prefix(L, n) = L
    BY <2>1, <2>3, PrefixWhole
  <2>7. FlattenSeq(Prefix(F, n)) \in Bytes
    BY <2>1, <2>2, FlattenPrefix
  <2>8. Len(FlattenSeq(Prefix(F, n))) = Total(Prefix(L, n))
    BY <2>1, <2>2, FlattenLen
  <2> QED
    BY <2>4, <2>5, <2>6, <2>7, <2>8
<1> QED
  BY <1>1, <1>3, <1>4, <1>5

\* The fields of a message, packed.
FieldsPacked(desc, m, P) == [k \in 1 .. Len(desc.fields) |-> field_pack(desc.fields[k], m, P)]

\* A message is packed into bytes of the promised size: those of its fields.
LEMMA MessagePacked ==
  ASSUME NEW desc, WellFormed(desc), NEW m, NEW P, NEW S, Typed(desc, m, P),
         SizesOf(S, P, Embedded(desc, m))
  PROVE  /\ fields_pack(desc, m, P)
              = FlattenSeq(Prefix(FieldsPacked(desc, m, P), Len(desc.fields)))
         /\ fields_pack(desc, m, P) \in Bytes
         /\ Len(fields_pack(desc, m, P)) = fields_get_packed_size(desc, m, S)
         /\ \A k \in 1 .. Len(desc.fields) : FieldsPacked(desc, m, P)[k] \in Bytes
<1> DEFINE n == Len(desc.fields)
           F == FieldsPacked(desc, m, P)
           L == [k \in 1 .. n |-> field_get_packed_size(desc.fields[k], m, S)]
<1>1. n \in Nat
  BY DEF WellFormed
<1>2. ASSUME NEW k \in 1 .. n PROVE F[k] \in Bytes /\ Len(F[k]) = L[k]
  <2>1. F[k] = field_pack(desc.fields[k], m, P)
    BY DEF FieldsPacked
  <2>2. L[k] = field_get_packed_size(desc.fields[k], m, S)
    OBVIOUS
  <2> DEFINE field == desc.fields[k]
  <2> HIDE DEF field, F, L
  <2>3. /\ field_pack(field, m, P) \in Bytes
        /\ Len(field_pack(field, m, P)) = field_get_packed_size(field, m, S)
    BY FieldPacked DEF field
  <2> QED
    BY <2>1, <2>2, <2>3 DEF field
<1>3. F = [k \in 1 .. n |-> F[k]] /\ L = [k \in 1 .. n |-> L[k]]
  BY DEF FieldsPacked
<1>4. m.unknown = <<>>
  BY DEF Typed
<1>5. FlattenSeq([i \in 1 .. Len(m.unknown) |-> unknown_field_pack(m.unknown[i])]) = <<>>
  <2>1. [i \in 1 .. Len(m.unknown) |-> unknown_field_pack(m.unknown[i])] = <<>>
    BY <1>4
  <2>2. FlattenSeq(<<>>) = <<>>
    BY DEF FlattenSeq
  <2> QED
    BY <2>1, <2>2
<1>6. Total([i \in 1 .. Len(m.unknown) |-> unknown_field_get_packed_size(m.unknown[i])]) = 0
  <2>1. Len([i \in 1 .. Len(m.unknown) |-> unknown_field_get_packed_size(m.unknown[i])]) = 0
    BY <1>4
  <2> QED
    BY <2>1, TotalEmpty
<1>7. fields_pack(desc, m, P) = FlattenSeq(F) \o <<>>
  BY <1>5 DEF fields_pack, FieldsPacked
<1>8. fields_get_packed_size(desc, m, S) = Total(L) + 0
  BY <1>6 DEF fields_get_packed_size
<1> HIDE DEF F, L, n
<1>9. Prefix(F, n) = F /\ Prefix(L, n) = L
  BY <1>1, <1>3, PrefixWhole
<1>10. FlattenSeq(Prefix(F, n)) \in Bytes
  <2>1. n \in 0 .. n
    BY <1>1
  <2>2. \A k \in 1 .. n : F[k] \in Bytes
    BY <1>2
  <2> QED
    BY <1>1, <2>1, <2>2, FlattenPrefix
<1>11. Len(FlattenSeq(Prefix(F, n))) = Total(Prefix(L, n))
  BY <1>1, <1>2, FlattenLen
<1>12. FlattenSeq(F) \o <<>> = FlattenSeq(F)
  BY <1>9, <1>10, ConcatEmptySeq DEF Bytes
<1>13. Len(FlattenSeq(F)) \in Nat
  BY <1>9, <1>10 DEF Bytes
<1>14. Total(L) + 0 = Total(L)
  BY <1>9, <1>11, <1>13
<1> QED
  BY <1>2, <1>7, <1>8, <1>9, <1>10, <1>11, <1>12, <1>14 DEF F, n

\* Before the first field nothing is read.
LEMMA NoFieldRead ==
  ASSUME NEW desc, NEW m, NEW P, NEW C
  PROVE  FieldsReadTo(desc, m, P, C, <<>>, 0)
<1> DEFINE members == <<>>
<1>1. <<>> \in Bytes /\ <<>> \in Seq(Scanned(desc))
  BY EmptySeq DEF Bytes
<1>2. ASSUME NEW rest \in Bytes
      PROVE  ScanMembers(desc, <<>> \o rest) = <<>> \o ScanMembers(desc, rest)
  <2>1. <<>> \o rest = rest
    BY ConcatEmptySeq DEF Bytes
  <2>2. ScanMembers(desc, rest) \in Seq(Scanned(desc))
    BY MembersScanned
  <2>3. <<>> \o ScanMembers(desc, rest) = ScanMembers(desc, rest)
    BY <2>2, ConcatEmptySeq
  <2> QED
    BY <2>1, <2>3
<1>3. Range(<<>>) = {}
  BY DEF Range
<1>4. {s.index : s \in Range(<<>>)} = {}
  BY <1>3
<1>5. PackedIn(desc, <<>>) = {<<q[1], P[q]>> : q \in {}}
  BY <1>3 DEF PackedIn
<1>6. \A U : parse_all(desc, <<>>, U) = message_init(desc)
  <2>1. Len(<<>>) = 0
    OBVIOUS
  <2> QED
    BY <2>1, ParseEmpty
<1>7. Reads(desc, P, C, {}, {}, <<>>, <<>>, message_init(desc))
  BY <1>1, <1>2, <1>3, <1>4, <1>5, <1>6 DEF Reads
<1> QED
  BY <1>7, ThroughNone DEF FieldsReadTo, ReadTo

\* All of them are read.
LEMMA MessageRead ==
  ASSUME NEW desc, WellFormed(desc), NEW m, NEW P, NEW S, NEW C, Typed(desc, m, P),
         SizesOf(S, P, Embedded(desc, m))
  PROVE  FieldsReadTo(desc, m, P, C, fields_pack(desc, m, P), Len(desc.fields))
<1> DEFINE n == Len(desc.fields)
           F == FieldsPacked(desc, m, P)
           b(k) == FlattenSeq(Prefix(F, k))
           K == {k \in Nat : k <= n =>
                   FieldsReadTo(desc, m, P, C, FlattenSeq(Prefix(F, k)), k)}
<1>1. n \in Nat
  BY DEF WellFormed
<1>2. \A k \in 1 .. n : F[k] \in Bytes /\ F[k] = field_pack(desc.fields[k], m, P)
  BY MessagePacked DEF FieldsPacked
<1>3. fields_pack(desc, m, P) = FlattenSeq(Prefix(F, n))
  BY MessagePacked
<1> HIDE DEF F
<1>4. /\ FlattenSeq(Prefix(F, 0)) = <<>>
      /\ \A k \in 0 .. n - 1 : FlattenSeq(Prefix(F, k + 1)) = FlattenSeq(Prefix(F, k)) \o F[k + 1]
  <2> HIDE DEF n
  <2> QED
    BY <1>1, <1>2, FlattenPrefix
<1>5. 0 \in K
  BY <1>4, NoFieldRead
<1>6. ASSUME NEW k \in Nat, k \in K PROVE k + 1 \in K
  <2>1. ASSUME k + 1 <= n
        PROVE  FieldsReadTo(desc, m, P, C, FlattenSeq(Prefix(F, k + 1)), k + 1)
    <3>1. k + 1 \in 1 .. n /\ k \in 0 .. n - 1 /\ k + 1 - 1 = k
      BY <1>1, <2>1
    <3>2. FieldsReadTo(desc, m, P, C, FlattenSeq(Prefix(F, k)), k)
      BY <1>6, <3>1
    <3> DEFINE j == k + 1
    <3> HIDE DEF j
    <3>3. FieldsReadTo(desc, m, P, C,
                       FlattenSeq(Prefix(F, k)) \o field_pack(desc.fields[j], m, P), j)
      BY <3>1, <3>2, FieldRead DEF j
    <3> QED
      BY <1>2, <1>4, <3>1, <3>3 DEF j
  <2> QED
    BY <2>1
<1> HIDE DEF K
<1>7. n \in K
  BY <1>1, <1>5, <1>6, SetInduction
<1> QED
  BY <1>1, <1>3, <1>7 DEF K

\* The members of the message m are parsed to what C makes of it.
UnpacksTo(desc, m, P, C, members) ==
  /\ PackedIn(desc, members) = {<<q[1], P[q]>> : q \in Embedded(desc, m)}
  /\ \A U : (\A q \in Embedded(desc, m) : U[<<q[1], P[q]>>] = C[q] /\ C[q] # NULL) =>
       parse_members(desc, members, U) = Through(desc, m, C)

\* What message_unpack makes of a packed message, if it unpacks the embedded ones
\* as C says.
LEMMA MessageUnpacked ==
  ASSUME NEW desc, WellFormed(desc), NEW m, NEW P, NEW S, NEW C, Typed(desc, m, P),
         SizesOf(S, P, Embedded(desc, m)), NEW b, b = fields_pack(desc, m, P),
         NEW members, members = ScanMembers(desc, b)
  PROVE  UnpacksTo(desc, m, P, C, members)
<1> DEFINE n == Len(desc.fields)
           I == IndexesUpTo(desc, m, n)
           E == Embedded(desc, m)
<1>1. n \in Nat
  BY DEF WellFormed
<1>2. /\ EmbeddedUpTo(desc, m, n) = E
      /\ ThroughUpTo(desc, m, C, n) = Through(desc, m, C)
  BY ThroughAll
<1>3. ReadTo(desc, P, C, E, I, b, Through(desc, m, C))
  BY <1>2, MessageRead DEF FieldsReadTo
<1>4. PICK ms : Reads(desc, P, C, E, I, b, ms, Through(desc, m, C))
  BY <1>3 DEF ReadTo
<1>5. members = ms
  <2>1. b \in Bytes /\ ms \in Seq(Scanned(desc)) /\ <<>> \in Bytes
    BY <1>4, EmptySeq DEF Reads, Bytes
  <2>2. ScanMembers(desc, b \o <<>>) = ms \o ScanMembers(desc, <<>>)
    BY <1>4, <2>1 DEF Reads
  <2>3. ScanMembers(desc, <<>>) = <<>>
    BY MembersScanned
  <2>4. b \o <<>> = b
    BY <2>1, ConcatEmptySeq DEF Bytes
  <2>5. ms \o <<>> = ms
    BY <2>1, ConcatEmptySeq
  <2> QED
    BY <2>2, <2>3, <2>4, <2>5
<1>6. PackedIn(desc, members) = {<<q[1], P[q]>> : q \in E}
  BY <1>4, <1>5 DEF Reads
<1>7. ASSUME NEW U, \A q \in E : U[<<q[1], P[q]>>] = C[q] /\ C[q] # NULL
      PROVE  parse_members(desc, members, U) = Through(desc, m, C)
  <2>1. parse_all(desc, members, U) = Through(desc, m, C)
    BY <1>4, <1>5, <1>7 DEF Reads
  <2>2. \A i \in 1 .. n : desc.fields[i].label = "REQUIRED" =>
          i - 1 \in {s.index : s \in Range(members)}
    <3>1. {s.index : s \in Range(members)} = I
      BY <1>4, <1>5 DEF Reads
    <3> QED
      BY <3>1 DEF IndexesUpTo, IsPresent
  <2>3. ASSUME NEW s \in Range(members)
        PROVE  /\ s.data # <<>>
               /\ s.index >= 0 => Parses(desc.fields[s.index + 1], s, U)
    <3>1. /\ s.data # <<>> /\ s.index \in 0 .. n - 1
          /\ s.wire_type = WireType(desc.fields[s.index + 1].type)
      BY <1>4, <1>5 DEF Reads
    <3> DEFINE field == desc.fields[s.index + 1]
    <3>2. ASSUME field.type = "MESSAGE"
          PROVE  U[<<field.descriptor, ContentOf(s)>>] # NULL
      <4>1. <<field.descriptor, ContentOf(s)>> \in PackedIn(desc, members)
        BY <3>1, <3>2 DEF PackedIn
      <4>2. PICK q \in E : <<field.descriptor, ContentOf(s)>> = <<q[1], P[q]>>
        BY <1>6, <4>1
      <4> HIDE DEF field
      <4> QED
        BY <1>7, <4>2
    <3>3. Parses(field, s, U)
      BY <3>1, <3>2 DEF Parses
    <3> QED
      BY <3>1, <3>3
  <2>4. \A i \in 1 .. Len(members) : members[i] \in Range(members)
    <3>1. members \in Seq(Scanned(desc))
      BY <1>4, <1>5 DEF Reads
    <3> QED
      BY <3>1 DEF Range
  <2> QED
    BY <2>1, <2>2, <2>3, <2>4 DEF parse_members
<1> QED
  BY <1>6, <1>7 DEF UnpacksTo

-----------------------------------------------------------------------------
\* At each level of nesting: the message of p is packed into bytes of the promised
\* size, which unpack to c.
RoundTrip1(p, c) == /\ pack1(p) \in Bytes /\ Len(pack1(p)) = packed_size1(p)
                    /\ unpack1(<<p[1], pack1(p)>>) = c
RoundTrip2(p, c) == /\ pack2(p) \in Bytes /\ Len(pack2(p)) = packed_size2(p)
                    /\ unpack2(<<p[1], pack2(p)>>) = c
RoundTrip3(p, c) == /\ pack3(p) \in Bytes /\ Len(pack3(p)) = packed_size3(p)
                    /\ unpack3(<<p[1], pack3(p)>>) = c
RoundTrip(desc, m, c) ==
  /\ message_pack(desc, m) \in Bytes
  /\ Len(message_pack(desc, m)) = message_get_packed_size(desc, m)
  /\ message_unpack(desc, message_pack(desc, m)) = c

\* So it is with a message that embeds no other, ...
LEMMA RoundTripOf1 ==
  ASSUME NEW desc, WellFormed(desc), NEW m, Typed(desc, m, <<>>), Embedded(desc, m) = {}, NEW C
  PROVE  RoundTrip1(<<desc, m>>, Through(desc, m, C))
<1> DEFINE b == fields_pack(desc, m, <<>>)
           members == ScanMembers(desc, b)
<1>1. SizesOf(<<>>, <<>>, Embedded(desc, m))
  BY DEF SizesOf
<1>2. b \in Bytes /\ Len(b) = fields_get_packed_size(desc, m, <<>>)
  BY <1>1, MessagePacked
<1>3. /\ pack1(<<desc, m>>) = b /\ packed_size1(<<desc, m>>) = fields_get_packed_size(desc, m, <<>>)
      /\ unpack1(<<desc, b>>) = parse_members(desc, members, <<>>)
  BY DEF pack1, packed_size1, unpack1
<1> HIDE DEF b, members
<1>4. parse_members(desc, members, <<>>) = Through(desc, m, C)
  <2>1. UnpacksTo(desc, m, <<>>, C, members)
    BY <1>1, MessageUnpacked DEF b, members
  <2> QED
    BY <2>1 DEF UnpacksTo
<1> QED
  BY <1>2, <1>3, <1>4 DEF RoundTrip1

\* ... with one that embeds messages of the first level, ...
LEMMA RoundTripOf2 ==
  ASSUME NEW desc, WellFormed(desc), NEW m, NEW P, NEW C,
         P = [q \in Embedded(desc, m) |-> pack1(q)], Typed(desc, m, P),
         \A q \in Embedded(desc, m) : RoundTrip1(q, C[q]) /\ C[q] # NULL
  PROVE  RoundTrip2(<<desc, m>>, Through(desc, m, C))
<1> DEFINE E == Embedded(desc, m)
           S == [q \in E |-> packed_size1(q)]
           b == fields_pack(desc, m, P)
           members == ScanMembers(desc, b)
           U == [q \in PackedIn(desc, members) |-> unpack1(q)]
<1>1. \A q \in E : P[q] = pack1(q)
  OBVIOUS
<1>2. SizesOf(S, P, E)
  BY <1>1 DEF SizesOf, RoundTrip1
<1>3. /\ pack2(<<desc, m>>) = b /\ packed_size2(<<desc, m>>) = fields_get_packed_size(desc, m, S)
      /\ unpack2(<<desc, b>>) = parse_members(desc, members, U)
  BY DEF pack2, packed_size2, unpack2
<1> HIDE DEF S
<1>4. b \in Bytes /\ Len(b) = fields_get_packed_size(desc, m, S)
  BY <1>2, MessagePacked
<1>5. UnpacksTo(desc, m, P, C, members)
  BY <1>2, MessageUnpacked
<1>6. ASSUME NEW q \in E PROVE U[<<q[1], P[q]>>] = C[q] /\ C[q] # NULL
  <2>1. <<q[1], P[q]>> \in PackedIn(desc, members)
    BY <1>5 DEF UnpacksTo
  <2>2. unpack1(<<q[1], P[q]>>) = C[q]
    BY <1>1 DEF RoundTrip1
  <2> HIDE DEF members
  <2>3. U[<<q[1], P[q]>>] = unpack1(<<q[1], P[q]>>)
    BY <2>1
  <2> QED
    BY <2>2, <2>3
<1> HIDE DEF b, members, U
<1>7. parse_members(desc, members, U) = Through(desc, m, C)
  BY <1>5, <1>6 DEF UnpacksTo
<1> QED
  BY <1>3, <1>4, <1>7 DEF RoundTrip2

\* ... of the second, ...
LEMMA RoundTripOf3 ==
  ASSUME NEW desc, WellFormed(desc), NEW m, NEW P, NEW C,
         P = [q \in Embedded(desc, m) |-> pack2(q)], Typed(desc, m, P),
         \A q \in Embedded(desc, m) : RoundTrip2(q, C[q]) /\ C[q] # NULL
  PROVE  RoundTrip3(<<desc, m>>, Through(desc, m, C))
<1> DEFINE E == Embedded(desc, m)
           S == [q \in E |-> packed_size2(q)]
           b == fields_pack(desc, m, P)
           members == ScanMembers(desc, b)
           U == [q \in PackedIn(desc, members) |-> unpack2(q)]
<1>1. \A q \in E : P[q] = pack2(q)
  OBVIOUS
<1>2. SizesOf(S, P, E)
  BY <1>1 DEF SizesOf, RoundTrip2
<1>3. /\ pack3(<<desc, m>>) = b /\ packed_size3(<<desc, m>>) = fields_get_packed_size(desc, m, S)
      /\ unpack3(<<desc, b>>) = parse_members(desc, members, U)
  BY DEF pack3, packed_size3, unpack3
<1> HIDE DEF S
<1>4. b \in Bytes /\ Len(b) = fields_get_packed_size(desc, m, S)
  BY <1>2, MessagePacked
<1>5. UnpacksTo(desc, m, P, C, members)
  BY <1>2, MessageUnpacked
<1>6. ASSUME NEW q \in E PROVE U[<<q[1], P[q]>>] = C[q] /\ C[q] # NULL
  <2>1. <<q[1], P[q]>> \in PackedIn(desc, members)
    BY <1>5 DEF UnpacksTo
  <2>2. unpack2(<<q[1], P[q]>>) = C[q]
    BY <1>1 DEF RoundTrip2
  <2> HIDE DEF members
  <2>3. U[<<q[1], P[q]>>] = unpack2(<<q[1], P[q]>>)
    BY <2>1
  <2> QED
    BY <2>2, <2>3
<1> HIDE DEF b, members, U
<1>7. parse_members(desc, members, U) = Through(desc, m, C)
  BY <1>5, <1>6 DEF UnpacksTo
<1> QED
  BY <1>3, <1>4, <1>7 DEF RoundTrip3

\* What protobuf_c_message_pack makes of a message has the size that
\* get_packed_size promised, and protobuf_c_message_unpack makes of it, in the
\* order of its fields, what the embedded messages unpack to and every member that
\* is set: for each well-formed descriptor, and every message of its types.
THEOREM RoundTripWhole ==
  ASSUME NEW desc, WellFormed(desc), NEW m, NEW P, NEW C,
         P = [q \in Embedded(desc, m) |-> pack3(q)], Typed(desc, m, P),
         \A q \in Embedded(desc, m) : RoundTrip3(q, C[q]) /\ C[q] # NULL
  PROVE  RoundTrip(desc, m, Through(desc, m, C))
<1> DEFINE E == Embedded(desc, m)
           S == [q \in E |-> packed_size3(q)]
           b == fields_pack(desc, m, P)
           members == ScanMembers(desc, b)
           U == [q \in PackedIn(desc, members) |-> unpack3(q)]
<1>1. \A q \in E : P[q] = pack3(q)
  OBVIOUS
<1>2. SizesOf(S, P, E)
  BY <1>1 DEF SizesOf, RoundTrip3
<1>3. /\ message_pack(desc, m) = b
      /\ message_get_packed_size(desc, m) = fields_get_packed_size(desc, m, S)
      /\ message_unpack(desc, b) = parse_members(desc, members, U)
  BY DEF message_pack, message_get_packed_size, message_unpack
<1> HIDE DEF S
<1>4. b \in Bytes /\ Len(b) = fields_get_packed_size(desc, m, S)
  BY <1>2, MessagePacked
<1>5. UnpacksTo(desc, m, P, C, members)
  BY <1>2, MessageUnpacked
<1>6. ASSUME NEW q \in E PROVE U[<<q[1], P[q]>>] = C[q] /\ C[q] # NULL
  <2>1. <<q[1], P[q]>> \in PackedIn(desc, members)
    BY <1>5 DEF UnpacksTo
  <2>2. unpack3(<<q[1], P[q]>>) = C[q]
    BY <1>1 DEF RoundTrip3
  <2> HIDE DEF members
  <2>3. U[<<q[1], P[q]>>] = unpack3(<<q[1], P[q]>>)
    BY <2>1
  <2> QED
    BY <2>2, <2>3
<1> HIDE DEF b, members, U
<1>7. parse_members(desc, members, U) = Through(desc, m, C)
  BY <1>5, <1>6 DEF UnpacksTo
<1> QED
  BY <1>3, <1>4, <1>7 DEF RoundTrip

-----------------------------------------------------------------------------
\* Fields whose tags are 1 to n, in order.
NumberedFromOne(fields, n) ==
  /\ Len(fields) = n /\ DOMAIN fields = 1 .. n
  /\ \A i, j \in 1 .. n : fields[i].name = fields[j].name => i = j
  /\ \A i \in 1 .. n : /\ fields[i].id = i /\ i < 16
                       /\ fields[i].label \in {"REQUIRED", "OPTIONAL", "REPEATED"}
                       /\ fields[i].type \in {"UINT32", "ENUM", "UINT64", "BYTES", "MESSAGE"}
                       /\ fields[i].label = "REPEATED" => fields[i].type = "MESSAGE"
                       /\ fields[i].name \notin {"has", "unknown"}

\* The descriptors of mpaxos.pb-c.c are well-formed: those with such tags ...
LEMMA WellFormedOneRange ==
  ASSUME NEW fields, NEW n \in Nat, NumberedFromOne(fields, n)
  PROVE  WellFormed(Descriptor(fields, << <<1, 0>>, <<0, n>> >>))
<1> DEFINE ranges == << <<1, 0>>, <<0, n>> >>
           desc == Descriptor(fields, ranges)
<1>1. desc.fields = fields /\ desc.field_ranges = ranges
  BY DEF Descriptor
<1>2. \A i \in 1 .. n : int_range_lookup(ranges, i) = i - 1
  BY LookupOneRange
<1>3. \A i \in 1 .. n : i < 16 => i \in Nat /\ i * 8 + 7 \in UInt32
  BY DEF UInt32
<1> HIDE DEF ranges, desc
<1>4. \A i \in 1 .. n : /\ fields[i].id \in Nat /\ fields[i].id * 8 + 7 \in UInt32
                        /\ int_range_lookup(ranges, fields[i].id) = i - 1
  BY <1>2, <1>3 DEF NumberedFromOne
<1>5. WellFormed(desc)
  BY <1>1, <1>4 DEF WellFormed, NumberedFromOne
<1> QED
  BY <1>5 DEF desc, ranges

\* The descriptors of all messages but the accept, whose ids have a gap, are well formed.
LEMMA DescriptorsWellFormed ==
  /\ WellFormed(roundid_t) /\ WellFormed(msg_header) /\ WellFormed(coded_value_t)
  /\ WellFormed(proposal) /\ WellFormed(response_t) /\ WellFormed(msg_prepare)
  /\ WellFormed(msg_promise) /\ WellFormed(msg_accepted)
<1>1. WellFormed(roundid_t)
  <2> DEFINE fields == <<required("UINT32", "gid", 1), required("UINT64", "sid", 2),
                         required("UINT64", "bid", 3)>>
  <2>1. NumberedFromOne(fields, 3)
    BY DEF NumberedFromOne, required, Field
  <2> HIDE DEF fields
  <2> QED
    BY <2>1, WellFormedOneRange DEF roundid_t, fields
<1>2. WellFormed(msg_header)
  <2> DEFINE fields == <<required("ENUM", "t", 1), required("UINT32", "nid", 2),
                         required("UINT64", "tid", 3)>>
  <2>1. NumberedFromOne(fields, 3)
    BY DEF NumberedFromOne, required, Field
  <2> HIDE DEF fields
  <2> QED
    BY <2>1, WellFormedOneRange DEF msg_header, fields
<1>3. WellFormed(coded_value_t)
  <2> DEFINE fields == <<required("UINT32", "sz", 1), required("UINT32", "k", 2),
                         required("UINT32", "n", 3), required("UINT32", "id", 4),
                         required("BYTES", "value", 5)>>
  <2>1. NumberedFromOne(fields, 5)
    BY DEF NumberedFromOne, required, Field
  <2> HIDE DEF fields
  <2> QED
    BY <2>1, WellFormedOneRange DEF coded_value_t, fields
<1>4. WellFormed(proposal)
  <2> DEFINE fields == <<repeated_message("rids", 1, roundid_t), required("UINT64", "tid", 2),
                         required("UINT32", "nid", 3), Field("OPTIONAL", "BYTES", "value", 4, NULL),
                         Field("OPTIONAL", "MESSAGE", "coded_value", 5, coded_value_t)>>
  <2>1. NumberedFromOne(fields, 5)
    BY DEF NumberedFromOne, required, repeated_message, Field
  <2> HIDE DEF fields
  <2> QED
    BY <2>1, WellFormedOneRange DEF proposal, fields
<1>5. WellFormed(response_t)
  <2> DEFINE fields == <<required_message("rid", 1, roundid_t), required("ENUM", "ack", 2),
                         repeated_message("props", 3, proposal)>>
  <2>1. NumberedFromOne(fields, 3)
    BY DEF NumberedFromOne, required, required_message, repeated_message, Field
  <2> HIDE DEF fields
  <2> QED
    BY <2>1, WellFormedOneRange DEF response_t, fields
<1>6. ASSUME NEW name, name \notin {"has", "unknown", "h"}, NEW desc
      PROVE  WellFormed(Descriptor(<<required_message("h", 1, msg_header),
                                     repeated_message(name, 2, desc)>>, << <<1, 0>>, <<0, 2>> >>))
  <2> DEFINE fields == <<required_message("h", 1, msg_header), repeated_message(name, 2, desc)>>
  <2>1. NumberedFromOne(fields, 2)
    BY <1>6 DEF NumberedFromOne, required_message, repeated_message, Field
  <2> HIDE DEF fields
  <2> QED
    BY <2>1, WellFormedOneRange DEF fields
<1>7. WellFormed(msg_prepare) /\ WellFormed(msg_promise) /\ WellFormed(msg_accepted)
  <2>1. "rids" \notin {"has", "unknown", "h"} /\ "ress" \notin {"has", "unknown", "h"}
    OBVIOUS
  <2> QED
    BY <1>6, <2>1 DEF msg_prepare, msg_promise, msg_accepted
<1> QED
  BY <1>1, <1>2, <1>3, <1>4, <1>5, <1>7

\* ... and msg_accept, without the tag 2.
LEMMA AcceptWellFormed == WellFormed(msg_accept)
<1> DEFINE fields == <<required_message("h", 1, msg_header), required_message("prop", 3, proposal)>>
           ranges == << <<1, 0>>, <<3, 1>>, <<0, 2>> >>
<1>1. msg_accept.fields = fields /\ msg_accept.field_ranges = ranges
  BY DEF msg_accept, Descriptor
<1>2. /\ Len(fields) = 2 /\ DOMAIN fields = 1 .. 2
      /\ \A i, j \in 1 .. 2 : fields[i].name = fields[j].name => i = j
      /\ \A i \in 1 .. 2 :
           /\ fields[i].id \in {1, 3} /\ fields[i].id = 2 * i - 1
           /\ fields[i].label = "REQUIRED" /\ fields[i].type = "MESSAGE"
           /\ fields[i].name \notin {"has", "unknown"}
  BY DEF required_message, Field
<1>3. int_range_lookup(ranges, 1) = 0 /\ int_range_lookup(ranges, 3) = 1
  BY LookupTwoRanges
<1> HIDE DEF fields, ranges
<1>4. \A i \in 1 .. 2 : int_range_lookup(ranges, fields[i].id) = i - 1
  BY <1>2, <1>3
<1>5. \A id \in {1, 3} : id \in Nat /\ id * 8 + 7 \in UInt32
  BY DEF UInt32
<1> QED
  BY <1>1, <1>2, <1>4, <1>5 DEF WellFormed

-----------------------------------------------------------------------------
\* What becomes of a message is known field by field.
LEMMA ThroughIs ==
  ASSUME NEW desc, WellFormed(desc), NEW m, NEW C, NEW w,
         w = [name \in MemberNames(desc) |-> w[name]], w.has = m.has, w.unknown = <<>>,
         \A i \in 1 .. Len(desc.fields) :
           MemberThrough(desc.fields[i], m, C) = w[desc.fields[i].name]
  PROVE  Through(desc, m, C) = w
<1> DEFINE T == Through(desc, m, C)
           N == MemberNames(desc)
<1>1. /\ T = [name \in N |-> T[name]]
      /\ \A name \in N : T[name] = IF name = "has" THEN m.has
                                   ELSE IF name = "unknown" THEN <<>>
                                   ELSE MemberThrough(FieldNamed(desc, name), m, C)
  BY DEF Through
<1>2. ASSUME NEW name \in N PROVE T[name] = w[name]
  <2>1. CASE name \in {"has", "unknown"}
    BY <1>1, <2>1
  <2>2. CASE name \notin {"has", "unknown"}
    <3>1. PICK i \in 1 .. Len(desc.fields) : desc.fields[i].name = name
      BY <2>2 DEF MemberNames, Range, WellFormed
    <3>2. FieldNamed(desc, name) = desc.fields[i]
      BY <3>1, NamedField
    <3> HIDE DEF T, N
    <3> QED
      BY <1>1, <2>2, <3>1, <3>2
  <2> QED
    BY <2>1, <2>2
<1> HIDE DEF T
<1>3. T = w
  BY <1>1, <1>2
<1> QED
  BY <1>3 DEF T

\* A sum, number for number.
LEMMA TotalSteps ==
  ASSUME NEW L
  PROVE  /\ Total(Prefix(L, 0)) = 0
         /\ \A k \in Nat : Total(Prefix(L, k + 1)) = Total(Prefix(L, k)) + L[k + 1]
<1>1. \A k \in Nat : Len(Prefix(L, k)) = k
  BY DEF Prefix
<1>2. Total(Prefix(L, 0)) = 0
  BY <1>1, TotalEmpty
<1>3. ASSUME NEW k \in Nat PROVE Total(Prefix(L, k + 1)) = Total(Prefix(L, k)) + L[k + 1]
  <2>1. \A i \in 1 .. k : Prefix(L, k + 1)[i] = Prefix(L, k)[i]
    BY DEF Prefix
  <2>2. Len(Prefix(L, k)) = k /\ Len(Prefix(L, k + 1)) = k + 1
    BY <1>1
  <2>3. Prefix(L, k + 1)[k + 1] = L[k + 1]
    BY DEF Prefix
  <2> QED
    BY <2>1, <2>2, <2>3, TotalAppend
<1> QED
  BY <1>2, <1>3

\* The sizes of the fields of a message.
FieldSizes(desc, m, S) == [k \in 1 .. Len(desc.fields) |->
                             field_get_packed_size(desc.fields[k], m, S)]

\* z is the sum of the first n numbers in L.
IsSumOf(z, L, n) == /\ n = 2 => z = L[1] + L[2]
                    /\ n = 3 => z = L[1] + L[2] + L[3]
                    /\ n = 5 => z = L[1] + L[2] + L[3] + L[4] + L[5]

\* The size of a message is their sum, for as many fields as they have here.
LEMMA MessageSize ==
  ASSUME NEW desc, WellFormed(desc), NEW m, m.unknown = <<>>, NEW S, NEW L,
         L = FieldSizes(desc, m, S), NEW b \in Nat, \A k \in 1 .. Len(desc.fields) : L[k] \in 0 .. b
  PROVE  IsSumOf(fields_get_packed_size(desc, m, S), L, Len(desc.fields))
<1> DEFINE n == Len(desc.fields)
<1>1. L = [k \in 1 .. n |-> L[k]] /\ n \in Nat
  BY DEF FieldSizes, WellFormed
<1>2. fields_get_packed_size(desc, m, S) = Total(L) + 0
  <2>1. Len([i \in 1 .. Len(m.unknown) |-> unknown_field_get_packed_size(m.unknown[i])]) = 0
    OBVIOUS
  <2>2. Total([i \in 1 .. Len(m.unknown) |-> unknown_field_get_packed_size(m.unknown[i])]) = 0
    BY <2>1, TotalEmpty
  <2> QED
    BY <2>2 DEF fields_get_packed_size, FieldSizes
<1>3. Total(L) = Total(Prefix(L, n))
  BY <1>1, PrefixWhole
<1>4. /\ Total(Prefix(L, 0)) = 0 /\ Total(Prefix(L, 1)) = 0 + L[1]
      /\ Total(Prefix(L, 2)) = Total(Prefix(L, 1)) + L[2]
      /\ Total(Prefix(L, 3)) = Total(Prefix(L, 2)) + L[3]
      /\ Total(Prefix(L, 4)) = Total(Prefix(L, 3)) + L[4]
      /\ Total(Prefix(L, 5)) = Total(Prefix(L, 4)) + L[5]
  <2>1. /\ Total(Prefix(L, 0 + 1)) = Total(Prefix(L, 0)) + L[0 + 1]
        /\ Total(Prefix(L, 1 + 1)) = Total(Prefix(L, 1)) + L[1 + 1]
        /\ Total(Prefix(L, 2 + 1)) = Total(Prefix(L, 2)) + L[2 + 1]
        /\ Total(Prefix(L, 3 + 1)) = Total(Prefix(L, 3)) + L[3 + 1]
        /\ Total(Prefix(L, 4 + 1)) = Total(Prefix(L, 4)) + L[4 + 1]
        /\ Total(Prefix(L, 0)) = 0
    BY TotalSteps
  <2> QED
    BY <2>1
<1> HIDE DEF n
<1>5. \A k \in 1 .. n : L[k] \in Nat
  BY DEF n
<1>6. CASE n = 2
  <2>1. L[1] \in Nat /\ L[2] \in Nat
    BY <1>5, <1>6
  <2>2. fields_get_packed_size(desc, m, S) = L[1] + L[2]
    BY <1>2, <1>3, <1>4, <1>6, <2>1
  <2> QED
    BY <1>6, <2>2 DEF n, IsSumOf
<1>7. CASE n = 3
  <2>1. L[1] \in Nat /\ L[2] \in Nat /\ L[3] \in Nat
    BY <1>5, <1>7
  <2>2. fields_get_packed_size(desc, m, S) = L[1] + L[2] + L[3]
    BY <1>2, <1>3, <1>4, <1>7, <2>1
  <2> QED
    BY <1>7, <2>2 DEF n, IsSumOf
<1>8. CASE n = 5
  <2>1. L[1] \in Nat /\ L[2] \in Nat /\ L[3] \in Nat /\ L[4] \in Nat /\ L[5] \in Nat
    BY <1>5, <1>8
  <2>2. fields_get_packed_size(desc, m, S) = L[1] + L[2] + L[3] + L[4] + L[5]
    <3>1. Total(Prefix(L, 3)) = L[1] + L[2] + L[3]
      BY <1>4, <2>1
    <3>2. Total(Prefix(L, 5)) = Total(Prefix(L, 3)) + L[4] + L[5]
      BY <1>4
    <3>3. fields_get_packed_size(desc, m, S) = Total(Prefix(L, 5)) + 0
      BY <1>2, <1>3, <1>8
    <3> DEFINE t == Total(Prefix(L, 3))
               u == Total(Prefix(L, 5))
               z == fields_get_packed_size(desc, m, S)
               l4 == L[4]
               l5 == L[5]
    <3>4. t \in Nat /\ u = t + l4 + l5 /\ l4 \in Nat /\ l5 \in Nat /\ z = u + 0
      BY <2>1, <3>1, <3>2, <3>3
    <3> HIDE DEF t, u, z, l4, l5
    <3>5. z = t + l4 + l5
      BY <3>4
    <3> QED
      BY <3>1, <3>5 DEF t, z, l4, l5
  <2> QED
    BY <1>8, <2>2 DEF n, IsSumOf
<1> QED
  BY <1>6, <1>7, <1>8 DEF n, IsSumOf

\* A field with one scalar takes 10 bytes at most.
LEMMA ScalarSize ==
  ASSUME NEW field, field.id \in 1 .. 15, NEW x, NEW S,
         \/ field.type \in {"UINT32", "ENUM"} /\ x \in UInt32
         \/ field.type = "UINT64" /\ x \in UInt64
  PROVE  required_field_get_packed_size(field, x, S) \in 0 .. 10
<1>1. get_tag_size(field.id) = 1
  BY DEF get_tag_size
<1>2. \A v : uint32_size(v) \in 1 .. 5
  BY DEF uint32_size
<1>3. uint64_size(x) \in 1 .. 9
  BY <1>2 DEF uint64_size
<1>4. CASE field.type \in {"UINT32", "ENUM"}
  BY <1>1, <1>2, <1>4 DEF required_field_get_packed_size
<1>5. CASE field.type = "UINT64"
  <2>1. field.type \notin {"UINT32", "ENUM"}
    BY <1>5
  <2> QED
    BY <1>1, <1>3, <1>5, <2>1 DEF required_field_get_packed_size
<1> QED
  BY <1>4, <1>5

\* One with bytes or with a message, 6 more than these.
LEMMA PrefixedSize ==
  ASSUME NEW field, field.id \in 1 .. 15, NEW x, NEW S, NEW n \in Nat,
         \/ field.type = "BYTES" /\ Len(x) \in 0 .. n
         \/ field.type = "MESSAGE" /\ x # NULL /\ S[<<field.descriptor, x>>] \in 0 .. n
  PROVE  required_field_get_packed_size(field, x, S) \in 0 .. n + 6
<1>1. get_tag_size(field.id) = 1
  BY DEF get_tag_size
<1>2. \A v : uint32_size(v) \in 1 .. 5
  BY DEF uint32_size
<1>3. CASE field.type = "BYTES"
  BY <1>1, <1>2, <1>3 DEF required_field_get_packed_size
<1>4. CASE field.type = "MESSAGE"
  <2> DEFINE y == S[<<field.descriptor, x>>]
  <2>1. required_field_get_packed_size(field, x, S) = get_tag_size(field.id) + (uint32_size(y) + y)
    BY <1>4 DEF required_field_get_packed_size
  <2>2. y \in 0 .. n
    BY <1>4
  <2> HIDE DEF y
  <2> QED
    BY <1>1, <1>2, <2>1, <2>2
<1> QED
  BY <1>3, <1>4

-----------------------------------------------------------------------------
\* What is sent of a message at the second and the third level: w comes out of it,
\* and it takes n bytes at most.
Sent2(desc, m, w, n) == RoundTrip2(<<desc, m>>, w) /\ Len(pack2(<<desc, m>>)) \in 0 .. n
Sent3(desc, m, w, n) == RoundTrip3(<<desc, m>>, w) /\ Len(pack3(<<desc, m>>)) \in 0 .. n

\* A message without embedded ones, at either level.
LEMMA LeafSent ==
  ASSUME NEW desc, WellFormed(desc), \A i \in 1 .. Len(desc.fields) : desc.fields[i].type # "MESSAGE",
         NEW m, Typed(desc, m, <<>>), NEW w, Through(desc, m, <<>>) = w,
         NEW n \in Nat, fields_get_packed_size(desc, m, <<>>) \in 0 .. n
  PROVE  Sent2(desc, m, w, n) /\ Sent3(desc, m, w, n)
<1>1. Embedded(desc, m) = {}
  BY DEF Embedded, Range, WellFormed
<1>2. <<>> = [q \in Embedded(desc, m) |-> pack1(q)] /\ <<>> = [q \in Embedded(desc, m) |-> pack2(q)]
      /\ <<>> = [q \in Embedded(desc, m) |-> packed_size1(q)]
      /\ <<>> = [q \in Embedded(desc, m) |-> packed_size2(q)]
  BY <1>1
<1>3. RoundTrip2(<<desc, m>>, w)
  <2>1. RoundTrip2(<<desc, m>>, Through(desc, m, <<>>))
    BY <1>1, <1>2, RoundTripOf2
  <2> QED
    BY <2>1
<1>4. RoundTrip3(<<desc, m>>, w)
  <2>1. RoundTrip3(<<desc, m>>, Through(desc, m, <<>>))
    BY <1>1, <1>2, RoundTripOf3
  <2> QED
    BY <2>1
<1>5. packed_size2(<<desc, m>>) = fields_get_packed_size(desc, m, <<>>)
  BY <1>2 DEF packed_size2
<1>6. packed_size3(<<desc, m>>) = fields_get_packed_size(desc, m, <<>>)
  BY <1>2 DEF packed_size3
<1> QED
  BY <1>3, <1>4, <1>5, <1>6 DEF Sent2, Sent3, RoundTrip2, RoundTrip3

\* A message of three scalars, at either level.
IsScalar(field, x) == \/ field.type \in {"UINT32", "ENUM"} /\ x \in UInt32
                      \/ field.type = "UINT64" /\ x \in UInt64

\* Packed in 30 bytes at most, and unpacked to itself.
LEMMA ThreeScalarsSent ==
  ASSUME NEW desc, WellFormed(desc), Len(desc.fields) = 3, NEW m,
         m = [name \in MemberNames(desc) |-> m[name]], m.has = {}, m.unknown = <<>>,
         \A i \in 1 .. 3 : /\ desc.fields[i].label = "REQUIRED" /\ desc.fields[i].id \in 1 .. 15
                           /\ IsScalar(desc.fields[i], m[desc.fields[i].name])
  PROVE  Sent2(desc, m, m, 30) /\ Sent3(desc, m, m, 30)
<1> DEFINE F == desc.fields
<1>1. /\ Len(F) = 3
      /\ \A i \in 1 .. 3 : /\ F[i].label = "REQUIRED" /\ F[i].type # "MESSAGE"
                           /\ IsScalar(F[i], m[F[i].name])
  BY DEF IsScalar
<1> HIDE DEF F
<1>2. \A i \in 1 .. 3 : IsItem(F[i], m[F[i].name], <<>>)
  BY <1>1 DEF IsScalar, IsItem
<1>3. Typed(desc, m, <<>>)
  BY <1>1, <1>2 DEF Typed, F
<1>4. \A i \in 1 .. 3 : MemberThrough(F[i], m, <<>>) = m[F[i].name]
  BY <1>1 DEF MemberThrough, ItemUnpacked
<1>5. Through(desc, m, <<>>) = m
  BY <1>1, <1>4, ThroughIs DEF F
<1>6. fields_get_packed_size(desc, m, <<>>) \in 0 .. 30
  <2> DEFINE L == FieldSizes(desc, m, <<>>)
  <2>1. \A i \in 1 .. 3 : L[i] = required_field_get_packed_size(F[i], m[F[i].name], <<>>)
    BY <1>1 DEF FieldSizes, field_get_packed_size, F
  <2>2. ASSUME NEW i \in 1 .. 3 PROVE L[i] \in 0 .. 10
    <3> DEFINE x == m[F[i].name]
               f == F[i]
    <3>1. f.id \in 1 .. 15 /\ IsScalar(f, x)
      BY <1>1 DEF F
    <3> HIDE DEF x, f
    <3>2. required_field_get_packed_size(f, x, <<>>) \in 0 .. 10
      BY <3>1, ScalarSize DEF IsScalar
    <3> QED
      BY <2>1, <3>2 DEF x, f
  <2> HIDE DEF L
  <2>3. fields_get_packed_size(desc, m, <<>>) = L[1] + L[2] + L[3]
    <3>1. /\ Len(desc.fields) = 3 /\ L = FieldSizes(desc, m, <<>>) /\ 10 \in Nat
          /\ \A k \in 1 .. Len(desc.fields) : L[k] \in 0 .. 10
      BY <1>1, <2>2 DEF F, L
    <3>2. IsSumOf(fields_get_packed_size(desc, m, <<>>), L, Len(desc.fields))
      BY <3>1, MessageSize
    <3> QED
      BY <3>1, <3>2 DEF IsSumOf
  <2> QED
    BY <2>2, <2>3, SMTT(60)
<1>7. \A i \in 1 .. Len(desc.fields) : desc.fields[i].type # "MESSAGE"
  BY <1>1 DEF F
<1> QED
  BY <1>3, <1>5, <1>6, <1>7, LeafSent

\* A round id, and a header.
LEMMA RoundidSent ==
  ASSUME NEW r \in Roundid
  PROVE  Sent2(roundid_t, r, r, 30) /\ Sent3(roundid_t, r, r, 30)
<1> DEFINE F == roundid_t.fields
<1>1. /\ F = <<required("UINT32", "gid", 1), required("UINT64", "sid", 2),
               required("UINT64", "bid", 3)>>
      /\ Len(F) = 3
      /\ MemberNames(roundid_t) = {"gid", "sid", "bid", "has", "unknown"}
  BY DEF roundid_t, Descriptor, MemberNames, Range, required, Field
<1>2. /\ F[1].label = "REQUIRED" /\ F[1].type = "UINT32" /\ F[1].name = "gid" /\ F[1].id = 1
      /\ F[2].label = "REQUIRED" /\ F[2].type = "UINT64" /\ F[2].name = "sid" /\ F[2].id = 2
      /\ F[3].label = "REQUIRED" /\ F[3].type = "UINT64" /\ F[3].name = "bid" /\ F[3].id = 3
  BY <1>1 DEF required, Field
<1>3. /\ r = [name \in MemberNames(roundid_t) |-> r[name]] /\ r.has = {} /\ r.unknown = <<>>
      /\ r.gid \in UInt32 /\ r.sid \in UInt64 /\ r.bid \in UInt64
  BY <1>1 DEF Roundid
<1>4. WellFormed(roundid_t)
  BY DescriptorsWellFormed
<1> HIDE DEF F
<1>5. \A i \in 1 .. 3 : /\ F[i].label = "REQUIRED" /\ F[i].id \in 1 .. 15
                        /\ IsScalar(F[i], r[F[i].name])
  BY <1>2, <1>3 DEF IsScalar
<1> QED
  BY <1>1, <1>3, <1>4, <1>5, ThreeScalarsSent DEF F

\* Headers go through.
LEMMA HeaderSent ==
  ASSUME NEW h \in Header_t
  PROVE  Sent3(msg_header, h, h, 30)
<1> DEFINE F == msg_header.fields
<1>1. /\ F = <<required("ENUM", "t", 1), required("UINT32", "nid", 2),
               required("UINT64", "tid", 3)>>
      /\ Len(F) = 3
      /\ MemberNames(msg_header) = {"t", "nid", "tid", "has", "unknown"}
  BY DEF msg_header, Descriptor, MemberNames, Range, required, Field
<1>2. /\ F[1].label = "REQUIRED" /\ F[1].type = "ENUM" /\ F[1].name = "t" /\ F[1].id = 1
      /\ F[2].label = "REQUIRED" /\ F[2].type = "UINT32" /\ F[2].name = "nid" /\ F[2].id = 2
      /\ F[3].label = "REQUIRED" /\ F[3].type = "UINT64" /\ F[3].name = "tid" /\ F[3].id = 3
  BY <1>1 DEF required, Field
<1>3. /\ h = [name \in MemberNames(msg_header) |-> h[name]] /\ h.has = {} /\ h.unknown = <<>>
      /\ h.t \in UInt32 /\ h.nid \in UInt32 /\ h.tid \in UInt64
  BY <1>1 DEF Header_t, PREPARE, ACCEPTED, UInt32
<1>4. WellFormed(msg_header)
  BY DescriptorsWellFormed
<1> HIDE DEF F
<1>5. \A i \in 1 .. 3 : /\ F[i].label = "REQUIRED" /\ F[i].id \in 1 .. 15
                        /\ IsScalar(F[i], h[F[i].name])
  BY <1>2, <1>3 DEF IsScalar
<1> QED
  BY <1>1, <1>3, <1>4, <1>5, ThreeScalarsSent DEF F

\* A coded value, for a proposal.
LEMMA CodedValueSent ==
  ASSUME NEW c \in CodedValue
  PROVE  Sent2(coded_value_t, c, c, MaxValueLen + 46)
<1> DEFINE desc == coded_value_t
           F == desc.fields
<1>1. /\ F = <<required("UINT32", "sz", 1), required("UINT32", "k", 2), required("UINT32", "n", 3),
               required("UINT32", "id", 4), required("BYTES", "value", 5)>>
      /\ Len(F) = 5
      /\ MemberNames(desc) = {"sz", "k", "n", "id", "value", "has", "unknown"}
  BY DEF coded_value_t, Descriptor, MemberNames, Range, required, Field
<1>2. /\ F[1].label = "REQUIRED" /\ F[1].type = "UINT32" /\ F[1].name = "sz" /\ F[1].id = 1
      /\ F[2].label = "REQUIRED" /\ F[2].type = "UINT32" /\ F[2].name = "k" /\ F[2].id = 2
      /\ F[3].label = "REQUIRED" /\ F[3].type = "UINT32" /\ F[3].name = "n" /\ F[3].id = 3
      /\ F[4].label = "REQUIRED" /\ F[4].type = "UINT32" /\ F[4].name = "id" /\ F[4].id = 4
      /\ F[5].label = "REQUIRED" /\ F[5].type = "BYTES" /\ F[5].name = "value" /\ F[5].id = 5
  BY <1>1 DEF required, Field
<1>3. /\ c = [name \in MemberNames(desc) |-> c[name]] /\ c.has = {} /\ c.unknown = <<>>
      /\ c.sz \in UInt32 /\ c.k \in UInt32 /\ c.n \in UInt32 /\ c.id \in UInt32
      /\ c.value \in Bytes /\ Len(c.value) <= MaxValueLen
  BY <1>1 DEF CodedValue, Bytes
<1>4. WellFormed(desc)
  BY DescriptorsWellFormed
<1>5. Len(c.value) \in 0 .. MaxValueLen /\ Len(c.value) \in UInt32 /\ MaxValueLen \in Nat
      /\ 4 <= MaxValueLen
  BY <1>3 DEF Bytes, UInt32, MaxValueLen
<1> HIDE DEF F
<1>6. \A i \in 1 .. 5 : IsItem(F[i], c[F[i].name], <<>>)
  BY <1>2, <1>3, <1>5 DEF IsItem
<1>7. Typed(desc, c, <<>>)
  BY <1>1, <1>2, <1>3, <1>6 DEF Typed, F
<1>8. \A i \in 1 .. Len(F) : MemberThrough(F[i], c, <<>>) = c[F[i].name]
  BY <1>1, <1>2 DEF MemberThrough, ItemUnpacked
<1>9. Through(desc, c, <<>>) = c
  BY <1>3, <1>4, <1>8, ThroughIs DEF F
<1>10. fields_get_packed_size(desc, c, <<>>) \in 0 .. MaxValueLen + 46
  <2> DEFINE L == FieldSizes(desc, c, <<>>)
             b == MaxValueLen + 6
  <2>1. \A i \in 1 .. 5 : L[i] = required_field_get_packed_size(F[i], c[F[i].name], <<>>)
    BY <1>1, <1>2 DEF FieldSizes, field_get_packed_size, F
  <2>2. ASSUME NEW i \in 1 .. 4 PROVE L[i] \in 0 .. 10
    <3> DEFINE x == c[F[i].name]
               f == F[i]
    <3>1. f.id \in 1 .. 15 /\ f.type \in {"UINT32", "ENUM"} /\ x \in UInt32
      BY <1>2, <1>3
    <3> HIDE DEF x, f
    <3>2. required_field_get_packed_size(f, x, <<>>) \in 0 .. 10
      BY <3>1, ScalarSize
    <3> QED
      BY <2>1, <3>2 DEF x, f
  <2>3. L[5] \in 0 .. b
    <3> DEFINE x == c.value
               f == F[5]
    <3>1. f.id \in 1 .. 15 /\ f.type = "BYTES" /\ Len(x) \in 0 .. MaxValueLen /\ MaxValueLen \in Nat
      BY <1>2, <1>5
    <3> HIDE DEF x, f
    <3>2. required_field_get_packed_size(f, x, <<>>) \in 0 .. MaxValueLen + 6
      BY <3>1, PrefixedSize
    <3> QED
      BY <1>2, <2>1, <3>2 DEF x, f
  <2> HIDE DEF L
  <2>4. b \in Nat /\ b = MaxValueLen + 6 /\ 10 <= b
    BY <1>5
  <2> HIDE DEF b
  <2>5. fields_get_packed_size(desc, c, <<>>) = L[1] + L[2] + L[3] + L[4] + L[5]
    <3>1. \A k \in 1 .. 5 : L[k] \in 0 .. b
      BY <2>2, <2>3, <2>4
    <3>2. /\ Len(desc.fields) = 5 /\ L = FieldSizes(desc, c, <<>>)
          /\ \A k \in 1 .. Len(desc.fields) : L[k] \in 0 .. b
      BY <1>1, <3>1 DEF F, L
    <3>3. IsSumOf(fields_get_packed_size(desc, c, <<>>), L, Len(desc.fields))
      BY <1>3, <1>4, <2>4, <3>2, MessageSize
    <3> QED
      BY <3>2, <3>3 DEF IsSumOf
  <2>6. L[1] \in 0 .. 10 /\ L[2] \in 0 .. 10 /\ L[3] \in 0 .. 10 /\ L[4] \in 0 .. 10
    BY <2>2
  <2> DEFINE l1 == L[1]
             l2 == L[2]
             l3 == L[3]
             l4 == L[4]
             l5 == L[5]
             n  == MaxValueLen
             z  == fields_get_packed_size(desc, c, <<>>)
  <2>7. /\ l1 \in 0 .. 10 /\ l2 \in 0 .. 10 /\ l3 \in 0 .. 10 /\ l4 \in 0 .. 10
        /\ l5 \in 0 .. n + 6 /\ n \in Nat /\ z = l1 + l2 + l3 + l4 + l5
    BY <1>5, <2>3, <2>4, <2>5, <2>6
  <2> HIDE DEF l1, l2, l3, l4, l5, n, z
  <2>8. z \in 0 .. n + 46
    BY <2>7
  <2> QED
    BY <2>8 DEF n, z
<1>11. \A i \in 1 .. Len(desc.fields) : desc.fields[i].type # "MESSAGE"
  BY <1>1, <1>2 DEF F
<1>12. MaxValueLen + 46 \in Nat
  BY <1>5
<1> QED
  BY <1>4, <1>7, <1>9, <1>10, <1>11, <1>12, LeafSent

\* A value of the largest length leaves room for what is packed around it.
LEMMA ValueFits ==
  /\ 4 <= MaxValueLen /\ MaxValueLen \in Nat
  /\ \A n \in 0 .. MaxValueLen + 46 : n \in UInt32
  /\ \A n \in 0 .. MaxValueLen + 200 : n \in UInt32
<1>1. 4 <= MaxValueLen /\ MaxValueLen \in Nat
  BY SMT DEF MaxValueLen
<1>2. \A n \in 0 .. MaxValueLen + 46 : n \in UInt32
  BY SMT DEF MaxValueLen, UInt32
<1>3. \A n \in 0 .. MaxValueLen + 200 : n \in UInt32
  BY SMT DEF MaxValueLen, UInt32
<1> QED
  BY <1>1, <1>2, <1>3

\* A proposal with one round, which leaves its value behind.
WithoutValue(prop) == [prop EXCEPT !.value = <<>>]

\* It is unpacked to the proposal without the value.
LEMMA ProposalSent ==
  ASSUME NEW prop \in Proposal, Len(prop.rids) = 1
  PROVE  Sent3(proposal, prop, WithoutValue(prop), MaxValueLen + 200)
<1> DEFINE desc == proposal
           F == desc.fields
           E == Embedded(desc, prop)
           P == [q \in E |-> pack2(q)]
           S == [q \in E |-> packed_size2(q)]
           C == [q \in E |-> q[2]]
           w == WithoutValue(prop)
           r == prop.rids[1]
           c == prop.coded_value
           qr == <<roundid_t, r>>
           qc == <<coded_value_t, c>>
<1>1. /\ F = <<repeated_message("rids", 1, roundid_t), required("UINT64", "tid", 2),
               required("UINT32", "nid", 3), Field("OPTIONAL", "BYTES", "value", 4, NULL),
               Field("OPTIONAL", "MESSAGE", "coded_value", 5, coded_value_t)>>
      /\ Len(F) = 5
      /\ MemberNames(desc) = {"rids", "tid", "nid", "value", "coded_value", "has", "unknown"}
  BY DEF proposal, Descriptor, MemberNames, Range, required, repeated_message, Field
<1>2. /\ F[1].label = "REPEATED" /\ F[1].type = "MESSAGE" /\ F[1].name = "rids" /\ F[1].id = 1
      /\ F[1].descriptor = roundid_t
      /\ F[2].label = "REQUIRED" /\ F[2].type = "UINT64" /\ F[2].name = "tid" /\ F[2].id = 2
      /\ F[3].label = "REQUIRED" /\ F[3].type = "UINT32" /\ F[3].name = "nid" /\ F[3].id = 3
      /\ F[4].label = "OPTIONAL" /\ F[4].type = "BYTES" /\ F[4].name = "value" /\ F[4].id = 4
      /\ F[5].label = "OPTIONAL" /\ F[5].type = "MESSAGE" /\ F[5].name = "coded_value"
      /\ F[5].id = 5 /\ F[5].descriptor = coded_value_t
  BY <1>1 DEF required, repeated_message, Field
<1>3. /\ prop = [name \in MemberNames(desc) |-> prop[name]]
      /\ prop.has = {} /\ prop.unknown = <<>>
      /\ prop.rids \in Seq(Roundid) /\ prop.tid \in UInt64 /\ prop.nid \in UInt32
      /\ prop.value \in Bytes /\ c \in CodedValue \cup {NULL}
  BY <1>1 DEF Proposal, Bytes
<1>4. WellFormed(desc)
  BY DescriptorsWellFormed
<1>5. r \in Roundid /\ r # NULL /\ prop.rids = [j \in 1 .. 1 |-> prop.rids[j]]
      /\ \A j \in 1 .. 1 : prop.rids[j] = r
  BY <1>3, NullAssumption
<1>6. E = {qr} \cup (IF c = NULL THEN {} ELSE {qc})
  <2>1. Range(F) = {F[1], F[2], F[3], F[4], F[5]}
    BY <1>1 DEF Range
  <2>2. {f \in Range(F) : f.type = "MESSAGE"} = {F[1], F[5]}
    <3> HIDE DEF F
    <3> QED
      BY <1>2, <2>1
  <2>3. MembersOf(F[1], prop) = {r}
    BY <1>2, <1>5 DEF MembersOf, Range
  <2>4. MembersOf(F[5], prop) = {c} \ {NULL}
    BY <1>2 DEF MembersOf
  <2> HIDE DEF F, r, c
  <2>5. {<<F[1].descriptor, member>> : member \in MembersOf(F[1], prop)} = {qr}
    BY <1>2, <2>3
  <2>6. {<<F[5].descriptor, member>> : member \in MembersOf(F[5], prop)}
          = IF c = NULL THEN {} ELSE {qc}
    BY <1>2, <2>4
  <2>7. E = UNION {{<<field.descriptor, member>> : member \in MembersOf(field, prop)} :
                     field \in {F[1], F[5]}}
    BY <2>2 DEF Embedded, F
  <2> HIDE DEF qr, qc
  <2> QED
    BY <2>5, <2>6, <2>7
<1>7. Sent2(roundid_t, r, r, 30)
  BY <1>5, RoundidSent
<1>8. c # NULL => Sent2(coded_value_t, c, c, MaxValueLen + 46)
  BY <1>3, CodedValueSent
<1>9. /\ 4 <= MaxValueLen /\ MaxValueLen \in Nat
      /\ \A n \in 0 .. MaxValueLen + 46 : n \in UInt32
  BY ValueFits
<1>10. /\ qr \in E /\ P[qr] = pack2(qr) /\ S[qr] = packed_size2(qr) /\ C[qr] = r
       /\ P[qr] \in Bytes /\ Len(P[qr]) \in 0 .. 30 /\ S[qr] = Len(P[qr])
       /\ RoundTrip2(qr, C[qr])
  BY <1>6, <1>7 DEF Sent2, RoundTrip2
<1>11. c # NULL =>
       /\ qc \in E /\ P[qc] = pack2(qc) /\ S[qc] = packed_size2(qc) /\ C[qc] = c
       /\ P[qc] \in Bytes /\ Len(P[qc]) \in 0 .. MaxValueLen + 46 /\ S[qc] = Len(P[qc])
       /\ RoundTrip2(qc, C[qc])
  BY <1>6, <1>8 DEF Sent2, RoundTrip2
<1>12. \A q \in E : RoundTrip2(q, C[q]) /\ C[q] # NULL
  BY <1>5, <1>6, <1>10, <1>11
<1> HIDE DEF F, E, P, S, C, r, c
<1>13. IsItem(F[1], r, P)
  <2> DEFINE n == Len(P[qr])
  <2>1. n \in 0 .. 30
    BY <1>10
  <2> HIDE DEF n
  <2>2. n \in 0 .. MaxValueLen + 46
    BY <1>9, <2>1
  <2>3. Len(P[qr]) \in UInt32
    BY <1>9, <2>2 DEF n
  <2> QED
    BY <1>2, <1>5, <1>10, <2>3 DEF IsItem
<1>14. ASSUME c # NULL PROVE IsItem(F[5], c, P)
  <2>1. Len(P[qc]) \in UInt32
    BY <1>9, <1>11, <1>14
  <2> QED
    BY <1>2, <1>11, <1>14, <2>1 DEF IsItem
<1>15. IsItem(F[2], prop.tid, P) /\ IsItem(F[3], prop.nid, P)
  BY <1>2, <1>3 DEF IsItem
<1>16. ~ IsSet(F[4], prop) /\ (IsSet(F[5], prop) <=> c # NULL)
  BY <1>2, <1>3 DEF IsSet, c
<1>17. Typed(desc, prop, P)
  <2>1. /\ Len(prop.rids) \in Nat
        /\ prop.rids = [j \in 1 .. Len(prop.rids) |-> prop.rids[j]]
        /\ \A j \in 1 .. Len(prop.rids) : IsItem(F[1], prop.rids[j], P)
    BY <1>5, <1>13
  <2>2. ASSUME NEW i \in 1 .. 5
        PROVE  LET x == prop[F[i].name]
               IN  /\ F[i].label = "REQUIRED" => IsItem(F[i], x, P)
                   /\ F[i].label = "OPTIONAL" /\ IsSet(F[i], prop) => IsItem(F[i], x, P)
                   /\ F[i].label = "REPEATED" =>
                        /\ Len(x) \in Nat /\ x = [j \in 1 .. Len(x) |-> x[j]]
                        /\ \A j \in 1 .. Len(x) : IsItem(F[i], x[j], P)
    <3>1. CASE i = 1
      BY <1>2, <2>1, <3>1
    <3>2. CASE i \in {2, 3}
      BY <1>2, <1>15, <3>2
    <3>3. CASE i \in {4, 5}
      BY <1>2, <1>14, <1>16, <3>3 DEF c
    <3> QED
      BY <3>1, <3>2, <3>3
  <2> QED
    BY <1>1, <1>3, <2>2 DEF Typed, F
<1>18. Through(desc, prop, C) = w
  <2>1. MemberThrough(F[1], prop, C) = prop.rids
    <3>1. C[<<F[1].descriptor, r>>] = r
      BY <1>2, <1>10
    <3>2. \A j \in 1 .. 1 : ItemUnpacked(F[1], prop.rids[j], C) = prop.rids[j]
      BY <1>2, <1>5, <3>1 DEF ItemUnpacked
    <3>3. MemberThrough(F[1], prop, C) = [j \in 1 .. 1 |-> ItemUnpacked(F[1], prop.rids[j], C)]
      BY <1>2 DEF MemberThrough
    <3> QED
      BY <1>5, <3>2, <3>3
  <2>2. MemberThrough(F[2], prop, C) = prop.tid /\ MemberThrough(F[3], prop, C) = prop.nid
    BY <1>2 DEF MemberThrough, ItemUnpacked
  <2>3. MemberThrough(F[4], prop, C) = <<>>
    BY <1>2, <1>16 DEF MemberThrough, EmptyMember
  <2>4. MemberThrough(F[5], prop, C) = c
    BY <1>2, <1>11, <1>16 DEF MemberThrough, ItemUnpacked, EmptyMember, c
  <2>5. /\ w.rids = prop.rids /\ w.tid = prop.tid /\ w.nid = prop.nid /\ w.value = <<>>
        /\ w.coded_value = c /\ w.has = {} /\ w.unknown = <<>>
        /\ w = [name \in MemberNames(desc) |-> w[name]]
    BY <1>1, <1>3 DEF Proposal, c, WithoutValue
  <2> HIDE DEF w
  <2>6. \A i \in 1 .. Len(F) : MemberThrough(F[i], prop, C) = w[F[i].name]
    BY <1>1, <1>2, <2>1, <2>2, <2>3, <2>4, <2>5
  <2>7. w.has = prop.has
    BY <1>3, <2>5
  <2> QED
    BY <1>4, <2>5, <2>6, <2>7, ThroughIs DEF F
<1>19. fields_get_packed_size(desc, prop, S) \in 0 .. MaxValueLen + 200
  <2> DEFINE L == FieldSizes(desc, prop, S)
             b == MaxValueLen + 52
  <2>1. L[1] \in 0 .. 36
    <3> DEFINE sizes == [i \in 1 .. 1 |-> required_field_get_packed_size(F[1], prop.rids[i], S)]
               x == required_field_get_packed_size(F[1], r, S)
    <3>1. L[1] = Total(sizes)
      BY <1>1, <1>2, <1>5 DEF FieldSizes, field_get_packed_size, repeated_field_get_packed_size, F
    <3>2. sizes = [i \in 1 .. 1 |-> x]
      BY <1>5
    <3>3. x \in 0 .. 30 + 6
      <4>1. F[1].id \in 1 .. 15 /\ F[1].type = "MESSAGE" /\ r # NULL /\ 30 \in Nat
        BY <1>2, <1>5
      <4>2. S[<<F[1].descriptor, r>>] \in 0 .. 30
        BY <1>2, <1>10
      <4> QED
        BY <4>1, <4>2, PrefixedSize
    <3> HIDE DEF x
    <3>4. Total(sizes) = x
      <4>1. Prefix(sizes, 1) = sizes /\ sizes[1] = x
        BY <3>2 DEF Prefix
      <4> HIDE DEF sizes
      <4>2. Total(Prefix(sizes, 0)) = 0 /\ Total(Prefix(sizes, 0 + 1)) = Total(Prefix(sizes, 0)) + sizes[0 + 1]
        BY TotalSteps
      <4> QED
        BY <3>3, <4>1, <4>2
    <3> HIDE DEF L, sizes
    <3> QED
      BY <3>1, <3>3, <3>4
  <2>2. L[2] \in 0 .. 10
    <3>1. L[2] = required_field_get_packed_size(F[2], prop.tid, S)
      BY <1>1, <1>2 DEF FieldSizes, field_get_packed_size, F
    <3>2. F[2].id \in 1 .. 15 /\ F[2].type = "UINT64" /\ prop.tid \in UInt64
      BY <1>2, <1>3
    <3> HIDE DEF L
    <3> QED
      BY <3>1, <3>2, ScalarSize
  <2>3. L[3] \in 0 .. 10
    <3>1. L[3] = required_field_get_packed_size(F[3], prop.nid, S)
      BY <1>1, <1>2 DEF FieldSizes, field_get_packed_size, F
    <3>2. F[3].id \in 1 .. 15 /\ F[3].type \in {"UINT32", "ENUM"} /\ prop.nid \in UInt32
      BY <1>2, <1>3
    <3> HIDE DEF L
    <3> QED
      BY <3>1, <3>2, ScalarSize
  <2>4. L[4] = 0
    BY <1>1, <1>2, <1>16 DEF FieldSizes, field_get_packed_size, optional_field_get_packed_size, F
  <2>5. L[5] \in 0 .. b
    <3>1. L[5] = IF c # NULL THEN required_field_get_packed_size(F[5], c, S) ELSE 0
      BY <1>1, <1>2, <1>16 DEF FieldSizes, field_get_packed_size, optional_field_get_packed_size, F, c
    <3>2. CASE c = NULL
      BY <1>9, <3>1, <3>2
    <3>3. CASE c # NULL
      <4>1. F[5].id \in 1 .. 15 /\ F[5].type = "MESSAGE" /\ MaxValueLen + 46 \in Nat
            /\ S[<<F[5].descriptor, c>>] \in 0 .. MaxValueLen + 46
        BY <1>2, <1>9, <1>11, <3>3
      <4> DEFINE z == required_field_get_packed_size(F[5], c, S)
      <4>2. z \in 0 .. (MaxValueLen + 46) + 6
        BY <3>3, <4>1, PrefixedSize
      <4>3. L[5] = z
        BY <3>1, <3>3
      <4> HIDE DEF z, L
      <4> QED
        BY <1>9, <4>2, <4>3
    <3> QED
      BY <3>2, <3>3
  <2> HIDE DEF L
  <2>6. b \in Nat /\ b = MaxValueLen + 52 /\ 36 <= b
    BY <1>9
  <2> HIDE DEF b
  <2>7. fields_get_packed_size(desc, prop, S) = L[1] + L[2] + L[3] + L[4] + L[5]
    <3>1. \A k \in 1 .. 5 : L[k] \in 0 .. b
      BY <2>1, <2>2, <2>3, <2>4, <2>5, <2>6
    <3>2. /\ Len(desc.fields) = 5 /\ L = FieldSizes(desc, prop, S)
          /\ \A k \in 1 .. Len(desc.fields) : L[k] \in 0 .. b
      BY <1>1, <3>1 DEF F, L
    <3>3. IsSumOf(fields_get_packed_size(desc, prop, S), L, Len(desc.fields))
      BY <1>3, <1>4, <2>6, <3>2, MessageSize
    <3> QED
      BY <3>2, <3>3 DEF IsSumOf
  <2> DEFINE l1 == L[1]
             l2 == L[2]
             l3 == L[3]
             l4 == L[4]
             l5 == L[5]
             n  == MaxValueLen
             z  == fields_get_packed_size(desc, prop, S)
  <2>8. /\ l1 \in 0 .. 36 /\ l2 \in 0 .. 10 /\ l3 \in 0 .. 10 /\ l4 = 0
        /\ l5 \in 0 .. n + 52 /\ n \in Nat /\ z = l1 + l2 + l3 + l4 + l5
    BY <1>9, <2>1, <2>2, <2>3, <2>4, <2>5, <2>6, <2>7
  <2> HIDE DEF l1, l2, l3, l4, l5, n, z
  <2>9. z \in 0 .. n + 200
    BY <2>8
  <2> QED
    BY <2>9 DEF n, z
<1>20. RoundTrip3(<<desc, prop>>, w)
  <2>1. RoundTrip3(<<desc, prop>>, Through(desc, prop, C))
    <3>1. P = [q \in Embedded(desc, prop) |-> pack2(q)]
      BY DEF P, E
    <3>2. \A q \in Embedded(desc, prop) : RoundTrip2(q, C[q]) /\ C[q] # NULL
      BY <1>12 DEF E
    <3> QED
      BY <1>4, <1>17, <3>1, <3>2, RoundTripOf3
  <2> QED
    BY <1>18, <2>1
<1>21. packed_size3(<<desc, prop>>) = fields_get_packed_size(desc, prop, S)
  BY DEF packed_size3, S, E
<1> QED
  BY <1>19, <1>20, <1>21 DEF Sent3, RoundTrip3

\* A response that hands on no proposal.
LEMMA ResponseSent ==
  ASSUME NEW res \in Bare
  PROVE  Sent3(response_t, res, res, 60)
<1> DEFINE desc == response_t
           F == desc.fields
           E == Embedded(desc, res)
           P == [q \in E |-> pack2(q)]
           S == [q \in E |-> packed_size2(q)]
           C == [q \in E |-> q[2]]
           r == res.rid
           qr == <<roundid_t, r>>
<1>1. /\ F = <<required_message("rid", 1, roundid_t), required("ENUM", "ack", 2),
               repeated_message("props", 3, proposal)>>
      /\ Len(F) = 3
      /\ MemberNames(desc) = {"rid", "ack", "props", "has", "unknown"}
  BY DEF response_t, Descriptor, MemberNames, Range, required, required_message, repeated_message,
         Field
<1>2. /\ F[1].label = "REQUIRED" /\ F[1].type = "MESSAGE" /\ F[1].name = "rid" /\ F[1].id = 1
      /\ F[1].descriptor = roundid_t
      /\ F[2].label = "REQUIRED" /\ F[2].type = "ENUM" /\ F[2].name = "ack" /\ F[2].id = 2
      /\ F[3].label = "REPEATED" /\ F[3].type = "MESSAGE" /\ F[3].name = "props" /\ F[3].id = 3
  BY <1>1 DEF required, required_message, repeated_message, Field
<1>3. /\ res = [name \in MemberNames(desc) |-> res[name]]
      /\ res.has = {} /\ res.unknown = <<>> /\ res.props = <<>>
      /\ r \in Roundid /\ res.ack \in UInt32
  BY <1>1 DEF Bare, Response_t, SUCCESS, ERR_BID, UInt32
<1>4. WellFormed(desc)
  BY DescriptorsWellFormed
<1>5. r # NULL
  BY <1>3, NullAssumption
<1>6. E = {qr}
  <2>1. Range(F) = {F[1], F[2], F[3]}
    BY <1>1 DEF Range
  <2>2. {f \in Range(F) : f.type = "MESSAGE"} = {F[1], F[3]}
    <3> HIDE DEF F
    <3> QED
      BY <1>2, <2>1
  <2>3. MembersOf(F[1], res) = {r}
    BY <1>2, <1>5 DEF MembersOf
  <2>4. MembersOf(F[3], res) = {}
    BY <1>2, <1>3 DEF MembersOf, Range
  <2> HIDE DEF F, r
  <2>5. {<<F[1].descriptor, member>> : member \in MembersOf(F[1], res)} = {qr}
    BY <1>2, <2>3
  <2>6. {<<F[3].descriptor, member>> : member \in MembersOf(F[3], res)} = {}
    BY <2>4
  <2>7. E = UNION {{<<field.descriptor, member>> : member \in MembersOf(field, res)} :
                     field \in {F[1], F[3]}}
    BY <2>2 DEF Embedded, F
  <2> HIDE DEF qr
  <2> QED
    BY <2>5, <2>6, <2>7
<1>7. Sent2(roundid_t, r, r, 30)
  BY <1>3, RoundidSent
<1>8. /\ qr \in E /\ P[qr] = pack2(qr) /\ S[qr] = packed_size2(qr) /\ C[qr] = r
      /\ P[qr] \in Bytes /\ Len(P[qr]) \in 0 .. 30 /\ S[qr] = Len(P[qr])
      /\ RoundTrip2(qr, C[qr])
  BY <1>6, <1>7 DEF Sent2, RoundTrip2
<1>9. \A q \in E : RoundTrip2(q, C[q]) /\ C[q] # NULL
  BY <1>5, <1>6, <1>8
<1> HIDE DEF F, E, P, S, C, r
<1>10. IsItem(F[1], r, P)
  <2>1. \A n \in 0 .. 30 : n \in UInt32
    BY DEF UInt32
  <2>2. Len(P[qr]) \in UInt32
    BY <1>8, <2>1
  <2> QED
    BY <1>2, <1>5, <1>8, <2>2 DEF IsItem
<1>11. IsItem(F[2], res.ack, P)
  BY <1>2, <1>3 DEF IsItem
<1>12. Typed(desc, res, P)
  <2>1. /\ Len(res.props) = 0 /\ res.props = [j \in 1 .. Len(res.props) |-> res.props[j]]
    BY <1>3
  <2>2. ASSUME NEW i \in 1 .. 3
        PROVE  LET x == res[F[i].name]
               IN  /\ F[i].label = "REQUIRED" => IsItem(F[i], x, P)
                   /\ F[i].label = "OPTIONAL" /\ IsSet(F[i], res) => IsItem(F[i], x, P)
                   /\ F[i].label = "REPEATED" =>
                        /\ Len(x) \in Nat /\ x = [j \in 1 .. Len(x) |-> x[j]]
                        /\ \A j \in 1 .. Len(x) : IsItem(F[i], x[j], P)
    <3>1. CASE i = 1
      BY <1>2, <1>10, <3>1 DEF r
    <3>2. CASE i = 2
      BY <1>2, <1>11, <3>2
    <3>3. CASE i = 3
      BY <1>2, <2>1, <3>3
    <3> QED
      BY <3>1, <3>2, <3>3
  <2> QED
    BY <1>1, <1>3, <2>2 DEF Typed, F
<1>13. Through(desc, res, C) = res
  <2>1. MemberThrough(F[1], res, C) = r
    <3>1. C[<<F[1].descriptor, r>>] = r
      BY <1>2, <1>8
    <3> QED
      BY <1>2, <3>1 DEF MemberThrough, ItemUnpacked, r
  <2>2. MemberThrough(F[2], res, C) = res.ack
    BY <1>2 DEF MemberThrough, ItemUnpacked
  <2>3. MemberThrough(F[3], res, C) = res.props
    <3>1. Len(res.props) = 0
      BY <1>3
    <3>2. MemberThrough(F[3], res, C) = [j \in 1 .. 0 |-> ItemUnpacked(F[3], res.props[j], C)]
      BY <1>2, <3>1 DEF MemberThrough
    <3> QED
      BY <1>3, <3>2
  <2>4. \A i \in 1 .. Len(F) : MemberThrough(F[i], res, C) = res[F[i].name]
    BY <1>1, <1>2, <2>1, <2>2, <2>3 DEF r
  <2> QED
    BY <1>3, <1>4, <2>4, ThroughIs DEF F
<1>14. fields_get_packed_size(desc, res, S) \in 0 .. 60
  <2> DEFINE L == FieldSizes(desc, res, S)
  <2>1. L[1] \in 0 .. 36
    <3>1. L[1] = required_field_get_packed_size(F[1], r, S)
      BY <1>1, <1>2 DEF FieldSizes, field_get_packed_size, F, r
    <3>2. F[1].id \in 1 .. 15 /\ F[1].type = "MESSAGE" /\ r # NULL /\ 30 \in Nat
      BY <1>2, <1>5
    <3>3. S[<<F[1].descriptor, r>>] \in 0 .. 30
      BY <1>2, <1>8
    <3>4. required_field_get_packed_size(F[1], r, S) \in 0 .. 30 + 6
      BY <3>2, <3>3, PrefixedSize
    <3> HIDE DEF L
    <3> QED
      BY <3>1, <3>4
  <2>2. L[2] \in 0 .. 10
    <3>1. L[2] = required_field_get_packed_size(F[2], res.ack, S)
      BY <1>1, <1>2 DEF FieldSizes, field_get_packed_size, F
    <3>2. F[2].id \in 1 .. 15 /\ F[2].type \in {"UINT32", "ENUM"} /\ res.ack \in UInt32
      BY <1>2, <1>3
    <3> HIDE DEF L
    <3> QED
      BY <3>1, <3>2, ScalarSize
  <2>3. L[3] = 0
    <3> DEFINE sizes == [i \in 1 .. Len(res.props) |->
                           required_field_get_packed_size(F[3], res.props[i], S)]
    <3>1. L[3] = Total(sizes)
      BY <1>1, <1>2, SMTT(60) DEF FieldSizes, field_get_packed_size, repeated_field_get_packed_size, F
    <3>2. Len(sizes) = 0
      BY <1>3
    <3> HIDE DEF L, sizes
    <3> QED
      BY <3>1, <3>2, TotalEmpty
  <2> HIDE DEF L
  <2>4. fields_get_packed_size(desc, res, S) = L[1] + L[2] + L[3]
    <3>1. /\ Len(desc.fields) = 3 /\ L = FieldSizes(desc, res, S) /\ 36 \in Nat
          /\ \A k \in 1 .. Len(desc.fields) : L[k] \in 0 .. 36
      BY <1>1, <2>1, <2>2, <2>3 DEF F, L
    <3>2. IsSumOf(fields_get_packed_size(desc, res, S), L, Len(desc.fields))
      BY <1>3, <1>4, <3>1, MessageSize
    <3> QED
      BY <3>1, <3>2 DEF IsSumOf
  <2> QED
    BY <2>1, <2>2, <2>3, <2>4
<1>15. RoundTrip3(<<desc, res>>, res)
  <2>1. RoundTrip3(<<desc, res>>, Through(desc, res, C))
    <3>1. P = [q \in Embedded(desc, res) |-> pack2(q)]
      BY DEF P, E
    <3>2. \A q \in Embedded(desc, res) : RoundTrip2(q, C[q]) /\ C[q] # NULL
      BY <1>9 DEF E
    <3> QED
      BY <1>4, <1>12, <3>1, <3>2, RoundTripOf3
  <2> QED
    BY <1>13, <2>1
<1>16. packed_size3(<<desc, res>>) = fields_get_packed_size(desc, res, S)
  BY DEF packed_size3, S, E
<1> QED
  BY <1>14, <1>15, <1>16 DEF Sent3, RoundTrip3

-----------------------------------------------------------------------------
\* The layout of msg_prepare, msg_promise and msg_accepted: a header and a list.
ListMessage(name, d) ==
  Descriptor(<<required_message("h", 1, msg_header), repeated_message(name, 2, d)>>,
             << <<1, 0>>, <<0, 2>> >>)

\* The sizes of small messages fit.
LEMMA SmallFits == (\A n \in 0 .. 60 : n \in UInt32) /\ (\A n \in 0 .. 30 : n \in UInt32)
BY SMT DEF UInt32

IsListMessage(name, m) ==
  /\ name \notin {"has", "unknown", "h"}
  /\ m = [x \in {"h", name, "has", "unknown"} |-> m[x]]
  /\ m.has = {} /\ m.unknown = <<>> /\ m.h \in Header_t

\* Such a message comes out as it went in, if each element of the list does.
LEMMA ListMessageSent ==
  ASSUME NEW name, NEW d, WellFormed(ListMessage(name, d)), NEW m, IsListMessage(name, m),
         NEW T, m[name] \in Seq(T),
         \A x \in T : x # NULL /\ Sent3(d, x, x, 60)
  PROVE  RoundTrip(ListMessage(name, d), m, m)
<1> DEFINE desc == ListMessage(name, d)
           F == desc.fields
           E == Embedded(desc, m)
           P == [q \in E |-> pack3(q)]
           C == [q \in E |-> q[2]]
           h == m.h
           list == m[name]
           R == {list[j] : j \in 1 .. Len(list)}
           Q == {<<d, x>> : x \in R}
           qh == <<msg_header, h>>
<1>1. /\ F = <<required_message("h", 1, msg_header), repeated_message(name, 2, d)>>
      /\ Len(F) = 2
      /\ MemberNames(desc) = {"h", name, "has", "unknown"}
  BY DEF ListMessage, Descriptor, MemberNames, Range, required_message, repeated_message, Field
<1>2. /\ F[1].label = "REQUIRED" /\ F[1].type = "MESSAGE" /\ F[1].name = "h"
      /\ F[1].descriptor = msg_header
      /\ F[2].label = "REPEATED" /\ F[2].type = "MESSAGE" /\ F[2].name = name
      /\ F[2].descriptor = d
  BY <1>1 DEF required_message, repeated_message, Field
<1>3. /\ Len(list) \in Nat /\ list = [j \in 1 .. Len(list) |-> list[j]]
      /\ \A j \in 1 .. Len(list) : list[j] \in T
  OBVIOUS
<1>4. h # NULL /\ Sent3(msg_header, h, h, 30)
  BY HeaderSent, NullAssumption DEF IsListMessage
<1>5. E = {qh} \cup Q
  <2>1. Range(F) = {F[1], F[2]}
    BY <1>1 DEF Range
  <2>2. {f \in Range(F) : f.type = "MESSAGE"} = {F[1], F[2]}
    <3> HIDE DEF F
    <3> QED
      BY <1>2, <2>1
  <2>3. MembersOf(F[1], m) = {h}
    BY <1>2, <1>4 DEF MembersOf
  <2>4. MembersOf(F[2], m) = R
    BY <1>2, <1>3 DEF MembersOf, Range
  <2> HIDE DEF F, h, list, R
  <2>5. {<<F[1].descriptor, member>> : member \in MembersOf(F[1], m)} = {qh}
    BY <1>2, <2>3
  <2>6. {<<F[2].descriptor, member>> : member \in MembersOf(F[2], m)} = Q
    BY <1>2, <2>4
  <2>7. E = UNION {{<<field.descriptor, member>> : member \in MembersOf(field, m)} :
                     field \in {F[1], F[2]}}
    BY <2>2 DEF Embedded, F
  <2> HIDE DEF qh, Q
  <2> QED
    BY <2>5, <2>6, <2>7
<1>6. \A n \in 0 .. 60 : n \in UInt32
  BY SmallFits
<1>14. /\ \A x \in R : x \in T /\ <<d, x>> \in Q /\ <<d, x>>[2] = x
       /\ \A q \in Q : \E x \in R : q = <<d, x>>
       /\ \A j \in 1 .. Len(list) : list[j] \in R
  BY <1>3
<1>15. /\ m = [x \in MemberNames(desc) |-> m[x]] /\ m.has = {} /\ m.unknown = <<>>
       /\ m[F[1].name] = h /\ m[F[2].name] = list
  BY <1>1, <1>2 DEF IsListMessage
<1> HIDE DEF F, E, list, h, desc, R, Q
<1>7. /\ qh \in E /\ P[qh] = pack3(qh) /\ C[qh] = h
      /\ P[qh] \in Bytes /\ Len(P[qh]) \in 0 .. 60 /\ RoundTrip3(qh, C[qh])
  BY <1>4, <1>5 DEF Sent3, RoundTrip3
<1>8. ASSUME NEW x \in R
      PROVE  LET q == <<d, x>>
             IN  /\ q \in E /\ P[q] = pack3(q) /\ C[q] = x /\ x # NULL
                 /\ P[q] \in Bytes /\ Len(P[q]) \in 0 .. 60 /\ RoundTrip3(q, C[q])
  <2>1. <<d, x>> \in E
    BY <1>5, <1>14
  <2>2. Sent3(d, x, x, 60) /\ x # NULL
    BY <1>14
  <2> QED
    BY <2>1, <2>2 DEF Sent3, RoundTrip3
<1>9. \A q \in E : RoundTrip3(q, C[q]) /\ C[q] # NULL
  <2>1. ASSUME NEW q \in Q PROVE RoundTrip3(q, C[q]) /\ C[q] # NULL
    <3>1. PICK x \in R : q = <<d, x>>
      BY <1>14
    <3>2. RoundTrip3(<<d, x>>, C[<<d, x>>]) /\ C[<<d, x>>] = x /\ x # NULL
      BY <1>8
    <3> QED
      BY <3>1, <3>2
  <2> QED
    BY <1>4, <1>5, <1>7, <2>1
<1> HIDE DEF P, C
<1>10. IsItem(F[1], h, P)
  BY <1>2, <1>4, <1>6, <1>7 DEF IsItem
<1>11. \A j \in 1 .. Len(list) : IsItem(F[2], list[j], P)
  BY <1>2, <1>6, <1>8, <1>14 DEF IsItem
<1>12. Typed(desc, m, P)
  <2>1. ASSUME NEW i \in 1 .. 2
        PROVE  LET x == m[F[i].name]
               IN  /\ F[i].label = "REQUIRED" => IsItem(F[i], x, P)
                   /\ F[i].label = "OPTIONAL" /\ IsSet(F[i], m) => IsItem(F[i], x, P)
                   /\ F[i].label = "REPEATED" =>
                        /\ Len(x) \in Nat /\ x = [j \in 1 .. Len(x) |-> x[j]]
                        /\ \A j \in 1 .. Len(x) : IsItem(F[i], x[j], P)
    <3>1. CASE i = 1
      BY <1>2, <1>10, <1>15, <3>1
    <3>2. CASE i = 2
      BY <1>2, <1>3, <1>11, <1>15, <3>2
    <3> QED
      BY <3>1, <3>2
  <2> QED
    BY <1>1, <1>15, <2>1 DEF Typed, F
<1>13. Through(desc, m, C) = m
  <2>1. MemberThrough(F[1], m, C) = h
    <3>1. C[<<F[1].descriptor, h>>] = h
      BY <1>2, <1>7
    <3> QED
      BY <1>2, <3>1 DEF MemberThrough, ItemUnpacked, h
  <2>2. MemberThrough(F[2], m, C) = list
    <3>1. \A j \in 1 .. Len(list) : ItemUnpacked(F[2], list[j], C) = list[j]
      BY <1>2, <1>8, <1>14 DEF ItemUnpacked
    <3>2. MemberThrough(F[2], m, C) = [j \in 1 .. Len(list) |-> ItemUnpacked(F[2], list[j], C)]
      BY <1>2 DEF MemberThrough, list
    <3> QED
      BY <1>3, <3>1, <3>2
  <2>3. \A i \in 1 .. Len(F) : MemberThrough(F[i], m, C) = m[F[i].name]
    BY <1>1, <1>15, <2>1, <2>2
  <2>4. WellFormed(desc)
    BY DEF desc
  <2> QED
    BY <1>15, <2>3, <2>4, ThroughIs DEF F
<1>16. RoundTrip(desc, m, Through(desc, m, C))
  <2>1. P = [q \in Embedded(desc, m) |-> pack3(q)] /\ WellFormed(desc)
    BY DEF P, E, desc
  <2>2. \A q \in Embedded(desc, m) : RoundTrip3(q, C[q]) /\ C[q] # NULL
    BY <1>9 DEF E
  <2> QED
    BY <1>12, <2>1, <2>2, RoundTripWhole
<1> QED
  BY <1>13, <1>16 DEF desc

\* A prepare goes through, ...
LEMMA PrepareSent == ASSUME NEW m \in Prepare_t PROVE RoundTrip(msg_prepare, m, m)
<1>1. msg_prepare = ListMessage("rids", roundid_t) /\ "rids" \notin {"has", "unknown", "h"}
  BY DEF msg_prepare, ListMessage
<1>2. IsListMessage("rids", m) /\ m["rids"] \in Seq(Roundid)
  BY <1>1 DEF Prepare_t, IsListMessage
<1>3. ASSUME NEW r \in Roundid PROVE r # NULL /\ Sent3(roundid_t, r, r, 60)
  BY RoundidSent, NullAssumption DEF Sent3
<1> QED
  BY <1>1, <1>2, <1>3, DescriptorsWellFormed, ListMessageSent

\* ... and so do the answers, of both phases, ...
LEMMA AnswerSent ==
  ASSUME NEW m \in Answer_t PROVE RoundTrip(msg_promise, m, m) /\ RoundTrip(msg_accepted, m, m)
<1>1. /\ msg_promise = ListMessage("ress", response_t) /\ msg_accepted = ListMessage("ress", response_t)
      /\ "ress" \notin {"has", "unknown", "h"}
  BY DEF msg_promise, msg_accepted, ListMessage
<1>2. IsListMessage("ress", m) /\ m["ress"] \in Seq(Bare)
  BY <1>1 DEF Answer_t, IsListMessage
<1>3. ASSUME NEW r \in Bare PROVE r # NULL /\ Sent3(response_t, r, r, 60)
  BY ResponseSent, NullAssumption DEF Bare
<1>4. WellFormed(ListMessage("ress", response_t))
  BY <1>1, DescriptorsWellFormed
<1> QED
  BY <1>1, <1>2, <1>3, <1>4, ListMessageSent

\* ... and an accept, but for the value of its proposal.
LEMMA AcceptSent ==
  ASSUME NEW m \in Accept_t, NEW w,
         w = [x \in {"h", "prop", "has", "unknown"} |-> w[x]], w.has = {}, w.unknown = <<>>,
         w.h = m.h, w.prop = WithoutValue(m.prop)
  PROVE  RoundTrip(msg_accept, m, w)
<1> DEFINE desc == msg_accept
           F == desc.fields
           E == Embedded(desc, m)
           P == [q \in E |-> pack3(q)]
           C == [q \in E |-> IF q = <<proposal, m.prop>> THEN WithoutValue(m.prop) ELSE q[2]]
           h == m.h
           prop == m.prop
           qh == <<msg_header, h>>
           qp == <<proposal, prop>>
<1>1. /\ F = <<required_message("h", 1, msg_header), required_message("prop", 3, proposal)>>
      /\ Len(F) = 2
      /\ MemberNames(desc) = {"h", "prop", "has", "unknown"}
  BY DEF msg_accept, Descriptor, MemberNames, Range, required_message, Field
<1>2. /\ F[1].label = "REQUIRED" /\ F[1].type = "MESSAGE" /\ F[1].name = "h"
      /\ F[1].descriptor = msg_header
      /\ F[2].label = "REQUIRED" /\ F[2].type = "MESSAGE" /\ F[2].name = "prop"
      /\ F[2].descriptor = proposal
  BY <1>1 DEF required_message, Field
<1>3. /\ m = [x \in MemberNames(desc) |-> m[x]] /\ m.has = {} /\ m.unknown = <<>>
      /\ h \in Header_t /\ prop \in Proposal /\ Len(prop.rids) = 1
  BY <1>1 DEF Accept_t
<1>4. h # NULL /\ Sent3(msg_header, h, h, 30)
  BY <1>3, HeaderSent, NullAssumption
<1>5. prop # NULL /\ Sent3(proposal, prop, WithoutValue(prop), MaxValueLen + 200)
  BY <1>3, ProposalSent, NullAssumption
<1>6. E = {qh, qp}
  <2>1. Range(F) = {F[1], F[2]}
    BY <1>1 DEF Range
  <2>2. {f \in Range(F) : f.type = "MESSAGE"} = {F[1], F[2]}
    <3> HIDE DEF F
    <3> QED
      BY <1>2, <2>1
  <2>3. MembersOf(F[1], m) = {h}
    BY <1>2, <1>4 DEF MembersOf
  <2>4. MembersOf(F[2], m) = {prop}
    BY <1>2, <1>5 DEF MembersOf
  <2> HIDE DEF F, h, prop
  <2>5. {<<F[1].descriptor, member>> : member \in MembersOf(F[1], m)} = {qh}
    BY <1>2, <2>3
  <2>6. {<<F[2].descriptor, member>> : member \in MembersOf(F[2], m)} = {qp}
    BY <1>2, <2>4
  <2>7. E = UNION {{<<field.descriptor, member>> : member \in MembersOf(field, m)} :
                     field \in {F[1], F[2]}}
    BY <2>2 DEF Embedded, F
  <2> HIDE DEF qh, qp
  <2> QED
    BY <2>5, <2>6, <2>7
<1>7. qh # qp
  <2>1. h # prop
    <3>1. DOMAIN h = {"t", "nid", "tid", "has", "unknown"} /\ "rids" \in DOMAIN prop
      BY <1>3 DEF Header_t, Proposal
    <3> QED
      BY <3>1
  <2> QED
    BY <2>1
<1>8. WithoutValue(prop) # NULL
  <2>1. <<>> \in Seq(Octet)
    OBVIOUS
  <2>2. WithoutValue(prop) \in Proposal
    BY <1>3, <2>1 DEF WithoutValue, Proposal
  <2> QED
    BY <2>2, NullAssumption
<1> HIDE DEF F, E, h, prop
<1>9. /\ qh \in E /\ P[qh] = pack3(qh) /\ C[qh] = h
      /\ P[qh] \in Bytes /\ Len(P[qh]) \in 0 .. 30 /\ RoundTrip3(qh, C[qh])
  BY <1>4, <1>6, <1>7 DEF Sent3, RoundTrip3, prop
<1>10. /\ qp \in E /\ P[qp] = pack3(qp) /\ C[qp] = WithoutValue(prop)
       /\ P[qp] \in Bytes /\ Len(P[qp]) \in 0 .. MaxValueLen + 200 /\ RoundTrip3(qp, C[qp])
  BY <1>5, <1>6 DEF Sent3, RoundTrip3, prop
<1>11. \A q \in E : RoundTrip3(q, C[q]) /\ C[q] # NULL
  BY <1>4, <1>6, <1>8, <1>9, <1>10
<1> HIDE DEF P, C
<1>12. IsItem(F[1], h, P)
  <2>1. \A n \in 0 .. 30 : n \in UInt32
    BY SmallFits
  <2> QED
    BY <1>2, <1>4, <1>9, <2>1 DEF IsItem
<1>13. IsItem(F[2], prop, P)
  <2>1. Len(P[qp]) \in UInt32
    BY <1>10, ValueFits
  <2> QED
    BY <1>2, <1>5, <1>10, <2>1 DEF IsItem
<1>14. Typed(desc, m, P)
  <2>1. ASSUME NEW i \in 1 .. 2
        PROVE  F[i].label = "REQUIRED" /\ IsItem(F[i], m[F[i].name], P)
    <3>1. CASE i = 1
      BY <1>2, <1>12, <3>1 DEF h
    <3>2. CASE i = 2
      BY <1>2, <1>13, <3>2 DEF prop
    <3> QED
      BY <3>1, <3>2
  <2> QED
    BY <1>1, <1>3, <2>1 DEF Typed, F
<1>15. Through(desc, m, C) = w
  <2>1. MemberThrough(F[1], m, C) = h
    <3>1. C[<<F[1].descriptor, h>>] = h
      BY <1>2, <1>9
    <3> QED
      BY <1>2, <3>1 DEF MemberThrough, ItemUnpacked, h
  <2>2. MemberThrough(F[2], m, C) = WithoutValue(prop)
    <3>1. C[<<F[2].descriptor, prop>>] = WithoutValue(prop)
      BY <1>2, <1>10
    <3> QED
      BY <1>2, <3>1 DEF MemberThrough, ItemUnpacked, prop
  <2>3. \A i \in 1 .. Len(F) : MemberThrough(F[i], m, C) = w[F[i].name]
    BY <1>1, <1>2, <2>1, <2>2 DEF h, prop
  <2>4. w = [x \in MemberNames(desc) |-> w[x]] /\ w.has = m.has
    BY <1>1, <1>3
  <2> QED
    BY <2>3, <2>4, AcceptWellFormed, ThroughIs DEF F
<1>16. RoundTrip(desc, m, Through(desc, m, C))
  <2>1. P = [q \in Embedded(desc, m) |-> pack3(q)]
    BY DEF P, E
  <2>2. \A q \in Embedded(desc, m) : RoundTrip3(q, C[q]) /\ C[q] # NULL
    BY <1>11 DEF E
  <2> QED
    BY <1>14, <2>1, <2>2, AcceptWellFormed, RoundTripWhole
<1> QED
  BY <1>15, <1>16
=============================================================================
