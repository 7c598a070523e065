-------------------------------- MODULE Fec --------------------------------
(***************************************************************************)
(* libzfec/fec.c: erasure coding over GF(256).  A byte is an element of    *)
(* the field, written as the set of the exponents its polynomial has, which*)
(* are the positions of the bits that are set: addition (the code's ^) is  *)
(* the symmetric difference.  A matrix is an array of arrays, counted from *)
(* 0 as in the code; a block is a sequence of bytes.  The code's tables of *)
(* logarithms, products and inverses are replaced by what they hold, its   *)
(* loops over strides and unrolled bytes by one function of the position.  *)
(***************************************************************************)
EXTENDS Integers, Sequences, FiniteSets, SequencesExt, TLC

Byte == SUBSET (0 .. 7)
Zero == {}
One  == {0}
Pp   == {0, 2, 3, 4, 8}    \* the exponents of the primitive polynomial

x ^^ y == (x \ y) \cup (y \ x)

\* The array with the values of f on 0 .. n - 1, each computed once (@@ does that).
Array(n, f(_)) == <<>> @@ [i \in 0 .. n - 1 |-> f(i)]

UpTo(n) == [i \in 1 .. n |-> i - 1]    \* a loop from 0 to n - 1

\* The power after x: shift left, and replace alpha^8 if that occurs.
NextPower(x) == LET shifted == {e + 1 : e \in x}
                IN  IF 8 \in shifted THEN shifted ^^ Pp ELSE shifted

\* modnn: an exponent modulo 255, as alpha^255 = 1.
modnn(x) == x % 255

gf_exp[i \in 0 .. 254] == IF i = 0 THEN One ELSE NextPower(gf_exp[i - 1])

\* Products of polynomials: every pair of their terms contributes its power.
Power14 == Array(15, LAMBDA i : gf_exp[i])
gf_mul(x, y) ==
  {e \in 0 .. 7 : Cardinality({p \in x \X y : e \in Power14[p[1] + p[2]]}) % 2 = 1}

\* inverse: what x is multiplied by to give 1 (the table has 0 for 0).
inverse(x) == IF x = Zero THEN Zero ELSE CHOOSE y \in Byte : gf_mul(x, y) = One

-----------------------------------------------------------------------------
\* dst + c * src, for rows of a matrix and for blocks alike.
addmul(dst, src, c) == <<>> @@ [j \in DOMAIN dst |-> dst[j] ^^ gf_mul(c, src[j])]

\* The sum of the first k of src, each times its factor; zeros has their shape.
Combine(row, src, k, zeros) ==
  FoldLeft(LAMBDA sum, j : addmul(sum, src[j], row[j]), zeros, UpTo(k))

UnitRow(i, k) == Array(k, LAMBDA col : IF col = i THEN One ELSE Zero)

\* _matmul: C = AB where A is n*k and B is k*m.
_matmul(a, b, n, k, m) ==
  Array(n, LAMBDA row : Combine(a[row], b, k, Array(m, LAMBDA col : Zero)))

SwapRows(m, r, s) == [m EXCEPT ![r] = m[s], ![s] = m[r]]
SwapCols(m, r, s) == [i \in DOMAIN m |-> SwapRows(m[i], r, s)]

\* The pivot for column col: on the diagonal if that is free and not 0, else
\* the first element, row by row, outside the rows and columns used already.
Pivot(m, used, col) ==
  LET open == {p \in (DOMAIN m \ used) \X (DOMAIN m \ used) : m[p[1]][p[2]] # Zero}
  IN  IF <<col, col>> \in open THEN <<col, col>>
      ELSE CHOOSE p \in open :
             \A q \in open : p[1] < q[1] \/ (p[1] = q[1] /\ p[2] <= q[2])

\* One round of the Gauss-Jordan loop: bring the pivot to the diagonal, multiply
\* its row so that it becomes 1, and clear its column in every other row.  The
\* inverse grows in the columns that are done, as the matrix is changed in place.
Eliminate(st, col) ==
  LET p    == Pivot(st.m, st.used, col)
      icol == p[2]
      m    == SwapRows(st.m, p[1], icol)
      c    == inverse(m[icol][icol])
      prow == Array(Cardinality(DOMAIN m),
                    LAMBDA j : gf_mul(c, IF j = icol THEN One ELSE m[icol][j]))
  IN  [used  |-> st.used \cup {icol},
       swaps |-> Append(st.swaps, p),
       m     |-> Array(Cardinality(DOMAIN m), LAMBDA i :
                   IF i = icol THEN prow
                   ELSE addmul([m[i] EXCEPT ![icol] = Zero], prow, m[i][icol]))]

\* _invert_mat: all columns, then the columns are swapped back, last one first.
_invert_mat(src, k) ==
  LET done == FoldLeft(Eliminate, [m |-> src, used |-> {}, swaps |-> <<>>], UpTo(k))
  IN  FoldLeft(LAMBDA m, p : SwapCols(m, p[1], p[2]), done.m, Reverse(done.swaps))

-----------------------------------------------------------------------------
\* The coefficients of the product of all x - p[i], the highest power first and
\* without its 1.
MasterPolynomial(p, k) ==
  LET times(c, i) == Array(k, LAMBDA j :
                       IF j = k - 1 THEN c[j] ^^ p[i]
                       ELSE IF j >= k - i THEN c[j] ^^ gf_mul(p[i], c[j + 1])
                       ELSE c[j])
  IN  FoldLeft(times, Array(k, LAMBDA j : IF j = k - 1 THEN p[0] ELSE Zero),
               Tail(UpTo(k)))

\* Synthetic division of it by x - xx: the quotient b and its value t at xx.
Divide(c, xx, k) ==
  LET divide(q, i) == LET y == c[i] ^^ gf_mul(xx, q.b[i])
                      IN  [b |-> <<>> @@ [q.b EXCEPT ![i - 1] = y],
                           t |-> gf_mul(xx, q.t) ^^ y]
  IN  FoldLeft(divide, [b |-> UnitRow(k - 1, k), t |-> One], Reverse(Tail(UpTo(k))))

\* _invert_vdm: the inverse of the Vandermonde matrix of the elements in the
\* second column of src; the rows of src below the first k stay.
_invert_vdm(src, k) ==
  LET p == Array(k, LAMBDA i : src[i][1])
      c == MasterPolynomial(p, k)
      q == Array(k, LAMBDA row : Divide(c, p[row], k))
      v == Array(k, LAMBDA row : inverse(q[row].t))
  IN  IF k = 1 THEN src
      ELSE Array(Cardinality(DOMAIN src), LAMBDA col :
             IF col < k THEN Array(k, LAMBDA row : gf_mul(v[row], q[row].b[col]))
             ELSE src[col])

-----------------------------------------------------------------------------
\* Row i of the first matrix of fec_new: 1, 0, 0, ... and then powers of alpha^(i-1).
PowerRow(i, k) == IF i = 0 THEN UnitRow(0, k)
                  ELSE Array(k, LAMBDA col : gf_exp[modnn((i - 1) * col)])

\* fec_new: the code that keeps the first k blocks as they are.
fec_new(k, n) ==
  LET tmp_m == _invert_vdm(Array(n, LAMBDA i : PowerRow(i, k)), k)
      tail  == _matmul(Array(n - k, LAMBDA i : tmp_m[k + i]), tmp_m, n - k, k, k)
  IN  [k |-> k, n |-> n,
       enc_matrix |-> Array(n, LAMBDA i : IF i < k THEN UnitRow(i, k) ELSE tail[i - k])]

ZeroBlock(src) == [b \in DOMAIN src[0] |-> Zero]

\* fec_encode: the check blocks with the numbers block_nums.
fec_encode(code, src, block_nums) ==
  [i \in DOMAIN block_nums |->
     Combine(code.enc_matrix[block_nums[i]], src, code.k, ZeroBlock(src))]

\* build_decode_matrix_into_space: a row per block, inverted.
build_decode_matrix(code, index) ==
  _invert_mat(Array(code.k, LAMBDA i : IF index[i] < code.k THEN UnitRow(i, code.k)
                                       ELSE code.enc_matrix[index[i]]), code.k)

\* What fec_decode asserts: a data block stands at its own place.
InPlace(code, index) == \A row \in 0 .. code.k - 1 : index[row] >= code.k \/ index[row] = row

\* fec_decode: the data blocks, those given and those computed from the others.
fec_decode(code, inpkts, index) ==
  LET m_dec == build_decode_matrix(code, index)
  IN  Array(code.k, LAMBDA row :
        IF index[row] >= code.k THEN Combine(m_dec[row], inpkts, code.k, ZeroBlock(inpkts))
        ELSE inpkts[row])
=============================================================================
