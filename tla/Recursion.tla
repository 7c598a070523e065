----------------------------- MODULE Recursion -----------------------------
(***************************************************************************)
(* Lemmas about recursive functions for the proof modules, in none of which*)
(* anything of the system occurs.  The library states induction and the    *)
(* existence of recursive functions over operators, which the provers do   *)
(* not instantiate; here both are about sets and functions: SetInduction,  *)
(* and for a loop or a chain of steps a function that maps each element to *)
(* the next and a measure that goes down.                                  *)
(***************************************************************************)
EXTENDS Integers, SequencesExt, FiniteSetTheorems, SequenceTheorems, TLAPS

\* Induction, as a fact about sets: a set that has 0 and with every number its
\* successor has all numbers.
LEMMA SetInduction ==
  ASSUME NEW S, 0 \in S, \A n \in Nat : n \in S => n + 1 \in S
  PROVE  \A n \in Nat : n \in S
<1> SUFFICES ASSUME NEW n \in Nat, n \notin S PROVE FALSE
  OBVIOUS
<1> DEFINE A == (0 .. n) \cap S
           B == A \ {0}
           f == [i \in A |-> i + 1]
<1>1. IsFiniteSet(A)
  <2>1. IsFiniteSet(0 .. n)
    BY FS_Interval
  <2> QED
    BY <2>1, FS_Subset
<1>2. \A i \in A : i \in Nat /\ i + 1 \in B /\ f[i] = i + 1
  BY SMT
<1>3. f \in Injection(A, B)
  <2>1. f \in [A -> B]
    BY <1>2
  <2>2. \A i, j \in A : f[i] = f[j] => i = j
    BY <1>2
  <2> QED
    BY <2>1, <2>2 DEF Injection, IsInjective
<1>4. 0 \in A
  OBVIOUS
<1>5. /\ IsFiniteSet(B) /\ Cardinality(B) = Cardinality(A) - 1
      /\ Cardinality(A) \in Nat
  BY <1>1, <1>4, FS_RemoveElement, FS_CardinalityType
<1> HIDE DEF A, B, f
<1>6. Cardinality(A) <= Cardinality(B)
  BY <1>3, <1>5, FS_Injection
<1> QED
  BY <1>5, <1>6

-----------------------------------------------------------------------------
\* g is what FlattenSeq computes for the first n elements of ss.
IsFlat(g, ss, n) ==
  g = [i \in 1 .. n |-> IF i = 1 THEN ss[i] ELSE g[i - 1] \o ss[i]]

\* What that is for the i-th element.
LEMMA FlatAt ==
  ASSUME NEW g, NEW ss, NEW n, IsFlat(g, ss, n), NEW i \in 1 .. n
  PROVE  g[i] = IF i = 1 THEN ss[i] ELSE g[i - 1] \o ss[i]
<1> DEFINE f == [j \in 1 .. n |-> IF j = 1 THEN ss[j] ELSE g[j - 1] \o ss[j]]
<1>1. f[i] = IF i = 1 THEN ss[i] ELSE g[i - 1] \o ss[i]
  OBVIOUS
<1>2. g = f
  BY DEF IsFlat
<1> HIDE DEF f
<1> QED
  BY <1>1, <1>2

\* FlattenSeq's recursion has a value.
LEMMA FlatExists == ASSUME NEW ss PROVE \A n \in Nat : \E g : IsFlat(g, ss, n)
<1> DEFINE S == {n \in Nat : \E g : IsFlat(g, ss, n)}
<1>1. 0 \in S
  <2> DEFINE g == [i \in 1 .. 0 |-> {}]
  <2>1. g = [i \in 1 .. 0 |-> IF i = 1 THEN ss[i] ELSE g[i - 1] \o ss[i]]
    OBVIOUS
  <2> QED
    BY <2>1 DEF IsFlat
<1>2. ASSUME NEW n \in Nat, n \in S PROVE n + 1 \in S
  <2>1. PICK g : IsFlat(g, ss, n)
    BY <1>2
  <2> DEFINE h == [i \in 1 .. n + 1 |-> IF i = 1 THEN ss[i] ELSE g[i - 1] \o ss[i]]
  <2>2. \A i \in 1 .. n : g[i] = h[i]
    <3>1. \A i \in 1 .. n : g[i] = IF i = 1 THEN ss[i] ELSE g[i - 1] \o ss[i]
      BY <2>1, FlatAt
    <3> QED
      BY <3>1
  <2>3. \A i \in 1 .. n + 1 : h[i] = IF i = 1 THEN ss[i] ELSE h[i - 1] \o ss[i]
    <3>1. \A i \in 1 .. n + 1 : i # 1 => i - 1 \in 1 .. n
      OBVIOUS
    <3> QED
      BY <2>2, <3>1
  <2>4. h = [i \in 1 .. n + 1 |-> h[i]]
    OBVIOUS
  <2>5. IsFlat(h, ss, n + 1)
    <3> HIDE DEF h
    <3> QED
      BY <2>3, <2>4 DEF IsFlat
  <2> QED
    BY <2>5
<1> HIDE DEF S
<1>3. \A n \in Nat : n \in S
  BY <1>1, <1>2, SetInduction
<1> QED
  BY <1>3 DEF S

\* And only one, which rests on the elements so far.
LEMMA FlatUnique ==
  ASSUME NEW ss, NEW tt, NEW n \in Nat, NEW m \in 1 .. n, NEW g, NEW h,
         IsFlat(g, ss, n), IsFlat(h, tt, m), \A i \in 1 .. m : ss[i] = tt[i]
  PROVE  g[m] = h[m]
<1> DEFINE S == {k \in Nat : k \in 1 .. m => g[k] = h[k]}
<1>1. 0 \in S
  OBVIOUS
<1>2. ASSUME NEW k \in Nat, k \in S PROVE k + 1 \in S
  <2> SUFFICES ASSUME k + 1 \in 1 .. m PROVE g[k + 1] = h[k + 1]
    OBVIOUS
  <2>1. /\ g[k + 1] = IF k + 1 = 1 THEN ss[k + 1] ELSE g[k + 1 - 1] \o ss[k + 1]
        /\ h[k + 1] = IF k + 1 = 1 THEN tt[k + 1] ELSE h[k + 1 - 1] \o tt[k + 1]
    <3>1. k + 1 \in 1 .. n
      OBVIOUS
    <3> QED
      BY <3>1, FlatAt
  <2>2. k + 1 # 1 => g[k + 1 - 1] = h[k + 1 - 1]
    BY <1>2
  <2> QED
    BY <2>1, <2>2
<1> HIDE DEF S
<1>3. m \in S
  BY <1>1, <1>2, SetInduction
<1> QED
  BY <1>3 DEF S

\* FlattenSeq of a sequence that is not empty.
LEMMA FlattenValue ==
  ASSUME NEW ss, Len(ss) \in Nat \ {0}
  PROVE  \E g : IsFlat(g, ss, Len(ss)) /\ FlattenSeq(ss) = g[Len(ss)]
<1> DEFINE flatten == CHOOSE g :
             g = [i \in 1 .. Len(ss) |-> IF i = 1 THEN ss[i] ELSE g[i - 1] \o ss[i]]
<1>1. FlattenSeq(ss) = flatten[Len(ss)]
  BY DEF FlattenSeq
<1>2. IsFlat(flatten, ss, Len(ss))
  BY FlatExists DEF IsFlat
<1> QED
  BY <1>1, <1>2

\* FlattenSeq of sequences over A is one, too.
LEMMA FlattenType ==
  ASSUME NEW A, NEW ss \in Seq(Seq(A))
  PROVE  FlattenSeq(ss) \in Seq(A)
<1>1. CASE ss = <<>>
  <2>1. FlattenSeq(<<>>) = <<>>
    BY DEF FlattenSeq
  <2> QED
    BY <1>1, <2>1, EmptySeq
<1>2. CASE ss # <<>>
  <2>1. Len(ss) \in Nat \ {0} /\ \A i \in 1 .. Len(ss) : ss[i] \in Seq(A)
    BY <1>2
  <2>2. PICK g : IsFlat(g, ss, Len(ss)) /\ FlattenSeq(ss) = g[Len(ss)]
    BY <2>1, FlattenValue
  <2> DEFINE S == {k \in Nat : k \in 1 .. Len(ss) => g[k] \in Seq(A)}
  <2>3. 0 \in S
    OBVIOUS
  <2>4. ASSUME NEW k \in Nat, k \in S PROVE k + 1 \in S
    <3> SUFFICES ASSUME k + 1 \in 1 .. Len(ss) PROVE g[k + 1] \in Seq(A)
      OBVIOUS
    <3>1. g[k + 1] = IF k + 1 = 1 THEN ss[k + 1] ELSE g[k + 1 - 1] \o ss[k + 1]
      BY <2>2, FlatAt
    <3>2. k + 1 # 1 => g[k + 1 - 1] \in Seq(A)
      BY <2>1, <2>4
    <3> QED
      BY <2>1, <3>1, <3>2, ConcatProperties
  <2> HIDE DEF S
  <2>5. Len(ss) \in S
    BY <2>1, <2>3, <2>4, SetInduction
  <2> QED
    BY <2>1, <2>2, <2>5 DEF S
<1> QED
  BY <1>1, <1>2

\* FlattenSeq of one more sequence.
LEMMA FlattenAppend ==
  ASSUME NEW A, NEW ss \in Seq(Seq(A)), NEW x \in Seq(A)
  PROVE  FlattenSeq(Append(ss, x)) = FlattenSeq(ss) \o x
<1> DEFINE tt == Append(ss, x)
           n == Len(ss)
<1>1. /\ n \in Nat /\ Len(tt) = n + 1 /\ tt[n + 1] = x
      /\ \A i \in 1 .. n : tt[i] = ss[i]
  OBVIOUS
<1> HIDE DEF tt, n
<1>2. PICK g : IsFlat(g, tt, n + 1) /\ FlattenSeq(tt) = g[n + 1]
  BY <1>1, FlattenValue
<1>3. g[n + 1] = IF n + 1 = 1 THEN tt[n + 1] ELSE g[n + 1 - 1] \o tt[n + 1]
  BY <1>1, <1>2, FlatAt
<1>4. CASE n = 0
  <2>1. FlattenSeq(ss) = <<>>
    <3>1. ss = <<>>
      BY <1>4 DEF n
    <3> QED
      BY <3>1 DEF FlattenSeq
  <2>2. <<>> \o x = x
    BY ConcatEmptySeq
  <2>3. FlattenSeq(tt) = x
    BY <1>1, <1>2, <1>3, <1>4
  <2> QED
    BY <2>1, <2>2, <2>3 DEF tt
<1>5. CASE n # 0
  <2>1. PICK h : IsFlat(h, ss, n) /\ FlattenSeq(ss) = h[n]
    BY <1>1, <1>5, FlattenValue DEF n
  <2>2. g[n] = h[n]
    BY <1>1, <1>2, <1>5, <2>1, FlatUnique
  <2>3. n + 1 # 1 /\ n + 1 - 1 = n
    BY <1>1, <1>5
  <2>4. g[n + 1] = h[n] \o x
    BY <1>1, <1>3, <2>2, <2>3
  <2> QED
    BY <1>2, <2>1, <2>4 DEF tt
<1> QED
  BY <1>4, <1>5

\* A function on 1 .. n is a sequence.
LEMMA FunctionIsSeq ==
  ASSUME NEW A, NEW n \in Nat, NEW f \in [1 .. n -> A]
  PROVE  f \in Seq(A) /\ Len(f) = n
OBVIOUS

-----------------------------------------------------------------------------
\* v behind what a has for c, if it has anything.
Behind(a, c, v) == IF c \in DOMAIN a THEN a[c] \o v ELSE v

\* f repeats g on the elements of S until one is in T, and gives h of that, behind
\* what a has for the elements on the way.
IsChain(f, S, T, g, h, a) == f = [c \in S |-> IF c \in T THEN h[c] ELSE Behind(a, c, f[g[c]])]

\* What that is for one element.
LEMMA ChainAt ==
  ASSUME NEW f, NEW S, NEW T, NEW g, NEW h, NEW a, IsChain(f, S, T, g, h, a), NEW c \in S
  PROVE  f[c] = IF c \in T THEN h[c] ELSE Behind(a, c, f[g[c]])
<1> DEFINE k == [d \in S |-> IF d \in T THEN h[d] ELSE Behind(a, d, f[g[d]])]
<1>1. k[c] = IF c \in T THEN h[c] ELSE Behind(a, c, f[g[c]])
  OBVIOUS
<1>2. f = k
  BY DEF IsChain
<1> HIDE DEF k
<1> QED
  BY <1>1, <1>2

\* Every step brings the measure down.
Descends(S, T, g, mu) ==
  /\ mu \in [S -> Nat]
  /\ \A c \in S \ T : g[c] \in S /\ mu[g[c]] < mu[c]

\* The elements from which the chain ends within n steps.
Below(S, mu, n) == {c \in S : mu[c] < n}

\* There is such an f on them, ...
LEMMA ChainBelow ==
  ASSUME NEW S, NEW T, NEW g, NEW h, NEW a, NEW mu, Descends(S, T, g, mu)
  PROVE  \A n \in Nat : \E f : IsChain(f, Below(S, mu, n), T, g, h, a)
<1> DEFINE N == {n \in Nat : \E f : IsChain(f, Below(S, mu, n), T, g, h, a)}
<1>1. 0 \in N
  <2>1. Below(S, mu, 0) = {}
    BY DEF Below, Descends
  <2> DEFINE f == [c \in Below(S, mu, 0) |-> {}]
  <2>2. f = [c \in Below(S, mu, 0) |-> IF c \in T THEN h[c] ELSE Behind(a, c, f[g[c]])]
    BY <2>1
  <2> HIDE DEF f
  <2> QED
    BY <2>2 DEF IsChain
<1>2. ASSUME NEW n \in Nat, n \in N PROVE n + 1 \in N
  <2>1. PICK f : IsChain(f, Below(S, mu, n), T, g, h, a)
    BY <1>2
  <2> DEFINE k == [c \in Below(S, mu, n + 1) |-> IF c \in T THEN h[c] ELSE Behind(a, c, f[g[c]])]
  <2>2. \A c \in Below(S, mu, n) : k[c] = f[c]
    <3>1. \A c \in Below(S, mu, n) : c \in Below(S, mu, n + 1)
      BY DEF Below, Descends
    <3> QED
      BY <2>1, <3>1, ChainAt
  <2>3. \A c \in Below(S, mu, n + 1) : c \notin T => g[c] \in Below(S, mu, n)
    BY DEF Below, Descends
  <2>4. \A c \in Below(S, mu, n + 1) : k[c] = IF c \in T THEN h[c] ELSE Behind(a, c, f[g[c]])
    OBVIOUS
  <2>5. k = [c \in Below(S, mu, n + 1) |-> k[c]]
    OBVIOUS
  <2> HIDE DEF k
  <2>6. \A c \in Below(S, mu, n + 1) : k[c] = IF c \in T THEN h[c] ELSE Behind(a, c, k[g[c]])
    BY <2>2, <2>3, <2>4
  <2>7. IsChain(k, Below(S, mu, n + 1), T, g, h, a)
    BY <2>5, <2>6 DEF IsChain
  <2> QED
    BY <2>7
<1> HIDE DEF N
<1>3. \A n \in Nat : n \in N
  BY <1>1, <1>2, SetInduction
<1> QED
  BY <1>3 DEF N

\* ... the same for every bound, ...
LEMMA ChainUnique ==
  ASSUME NEW S, NEW T, NEW g, NEW h, NEW a, NEW mu, Descends(S, T, g, mu),
         NEW m \in Nat, NEW n \in Nat, NEW f, NEW k,
         IsChain(f, Below(S, mu, m), T, g, h, a), IsChain(k, Below(S, mu, n), T, g, h, a)
  PROVE  \A c \in Below(S, mu, m) \cap Below(S, mu, n) : f[c] = k[c]
<1> DEFINE B == Below(S, mu, m) \cap Below(S, mu, n)
           N == {i \in Nat : \A c \in B : mu[c] < i => f[c] = k[c]}
<1>1. 0 \in N
  BY DEF Below, Descends
<1>2. ASSUME NEW i \in Nat, i \in N PROVE i + 1 \in N
  <2> SUFFICES ASSUME NEW c \in B, mu[c] < i + 1 PROVE f[c] = k[c]
    OBVIOUS
  <2>1. /\ f[c] = IF c \in T THEN h[c] ELSE Behind(a, c, f[g[c]])
        /\ k[c] = IF c \in T THEN h[c] ELSE Behind(a, c, k[g[c]])
    BY ChainAt
  <2>2. c \notin T => g[c] \in B /\ mu[g[c]] < i
    BY DEF Below, Descends
  <2>3. c \notin T => f[g[c]] = k[g[c]]
    BY <1>2, <2>2
  <2> QED
    BY <2>1, <2>3
<1> HIDE DEF N
<1>3. \A i \in Nat : i \in N
  BY <1>1, <1>2, SetInduction
<1> QED
  <2> SUFFICES ASSUME NEW c \in B PROVE f[c] = k[c]
    OBVIOUS
  <2>1. mu[c] \in Nat /\ mu[c] < mu[c] + 1
    BY DEF Below, Descends
  <2>2. mu[c] + 1 \in N
    BY <1>3, <2>1
  <2> QED
    BY <2>1, <2>2 DEF N

\* ... so that it has one on all of S.
LEMMA ChainExists ==
  ASSUME NEW S, NEW T, NEW g, NEW h, NEW a, NEW mu, Descends(S, T, g, mu)
  PROVE  \E f : IsChain(f, S, T, g, h, a)
<1> DEFINE G(n) == CHOOSE f : IsChain(f, Below(S, mu, n), T, g, h, a)
           k == [c \in S |-> G(mu[c] + 1)[c]]
<1>1. \A n \in Nat : IsChain(G(n), Below(S, mu, n), T, g, h, a)
  BY ChainBelow
<1>2. \A c \in S : k[c] = IF c \in T THEN h[c] ELSE Behind(a, c, k[g[c]])
  <2> SUFFICES ASSUME NEW c \in S PROVE k[c] = IF c \in T THEN h[c] ELSE Behind(a, c, k[g[c]])
    OBVIOUS
  <2> DEFINE n == mu[c] + 1
             d == g[c]
             j == mu[d] + 1
  <2>1. n \in Nat /\ c \in Below(S, mu, n)
    BY DEF Below, Descends
  <2>2. k[c] = G(n)[c]
    OBVIOUS
  <2>3. c \notin T => k[d] = G(n)[d]
    <3> SUFFICES ASSUME c \notin T PROVE k[d] = G(n)[d]
      OBVIOUS
    <3>1. d \in S /\ j \in Nat /\ d \in Below(S, mu, j) \cap Below(S, mu, n)
      BY DEF Below, Descends
    <3>2. k[d] = G(j)[d]
      BY <3>1
    <3> HIDE DEF d, j, n, G, k
    <3> QED
      BY <1>1, <2>1, <3>1, <3>2, ChainUnique
  <2> HIDE DEF n, G, k
  <2>4. G(n)[c] = IF c \in T THEN h[c] ELSE Behind(a, c, G(n)[g[c]])
    BY <1>1, <2>1, ChainAt
  <2> QED
    BY <2>2, <2>3, <2>4
<1>3. k = [c \in S |-> k[c]]
  OBVIOUS
<1> HIDE DEF k
<1> QED
  BY <1>2, <1>3 DEF IsChain

\* f repeats g on the elements of S until one is in T, and gives h of that.
IsLoop(f, S, T, g, h) == f = [c \in S |-> IF c \in T THEN h[c] ELSE f[g[c]]]

\* A loop is a chain that puts nothing in front.
LEMMA LoopIsChain ==
  ASSUME NEW f, NEW S, NEW T, NEW g, NEW h
  PROVE  IsLoop(f, S, T, g, h) <=> IsChain(f, S, T, g, h, <<>>)
<1>1. \A c, v : Behind(<<>>, c, v) = v
  BY DEF Behind
<1>2. [c \in S |-> IF c \in T THEN h[c] ELSE f[g[c]]]
        = [c \in S |-> IF c \in T THEN h[c] ELSE Behind(<<>>, c, f[g[c]])]
  BY <1>1
<1> QED
  BY <1>2 DEF IsLoop, IsChain

\* What a loop is for one element.
LEMMA LoopAt ==
  ASSUME NEW f, NEW S, NEW T, NEW g, NEW h, IsLoop(f, S, T, g, h), NEW c \in S
  PROVE  f[c] = IF c \in T THEN h[c] ELSE f[g[c]]
<1>1. f[c] = IF c \in T THEN h[c] ELSE Behind(<<>>, c, f[g[c]])
  BY LoopIsChain, ChainAt
<1>2. Behind(<<>>, c, f[g[c]]) = f[g[c]]
  BY DEF Behind
<1> QED
  BY <1>1, <1>2

\* A loop has a value on all of S.
LEMMA LoopExists ==
  ASSUME NEW S, NEW T, NEW g, NEW h, NEW mu, Descends(S, T, g, mu)
  PROVE  \E f : IsLoop(f, S, T, g, h)
BY LoopIsChain, ChainExists
=============================================================================
