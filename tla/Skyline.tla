------------------------------- MODULE Skyline -------------------------------
(***************************************************************************)
(* Symmetric matrices in a profile, and vectors: modules/fem/src/matrix.c  *)
(* and the resolution of solver.c.  Rows count from 0; coef holds, row by  *)
(* row, the coefficients from the first that is not zero to the diagonal,  *)
(* the place of which is diag.                                             *)
(***************************************************************************)
EXTENDS Integers, Sequences, FiniteSets, SequencesExt

CONSTANTS
  MaxSize,      \* bound: rows
  Offs,         \* coefficients out of the diagonal
  Ons,          \* coefficients of the diagonal, with an integer inverse
  Starts,       \* first coefficients of a vector, by size
  Entries,      \* files: the size and <<i, j, coefficient>>, i >= j, from 1
  MatrixCalls   \* bound: operations

\* A file: its size, and the places it has coefficients for.
ASSUME SkylineAssumption ==
  /\ MaxSize \in Nat \ {0} /\ MatrixCalls \in Nat
  /\ Offs \subseteq Int /\ Ons \subseteq {-1, 1} /\ Starts \in Seq(Int) /\ MaxSize <= Len(Starts)
  /\ \A file \in Entries :
       /\ file.size \in 1 .. Len(Starts) /\ file.entries \in Seq(Int \X Int \X Int)
       /\ \A k \in DOMAIN file.entries :
            1 <= file.entries[k][2] /\ file.entries[k][2] <= file.entries[k][1] /\ file.entries[k][1] <= file.size

VARIABLES
  A,            \* fem_matrix_t: size, diag, coef and state
  v,            \* fem_vector_t
  calls         \* operations so far

skylineVars == <<A, v, calls>>

All == 0 .. A.size - 1

\* The first column of the row i: i + 1 - diag[i] + diag[i - 1].
First(M, i) == IF i = 0 THEN 0 ELSE i + 1 - M.diag[i] + M.diag[i - 1]

Row(M, i) == [k \in 1 .. i - First(M, i) |-> First(M, i) + k - 1]

Coef(M, i, j) == M.coef[M.diag[i] - i + j]

Up(n) == [k \in 1 .. n - 1 |-> k]

Down(n) == [k \in 1 .. n - 1 |-> n - k]

\* __fem_matrix_vector: a row and, at once, the column that mirrors it.
fem_matrix_vector(M, x) ==
  LET Line(res, i) ==
        [FoldLeft(LAMBDA r, j : [r EXCEPT ![i] = @ + Coef(M, i, j) * x[j],
                                          ![j] = @ + Coef(M, i, j) * x[i]],
                  res, Row(M, i))
           EXCEPT ![i] = @ + x[i] * Coef(M, i, i)]
      zeros == [i \in DOMAIN x |-> 0]
  IN  FoldLeft(Line, [zeros EXCEPT ![0] = x[0] * Coef(M, 0, 0)], Up(M.size))

\* Mutant: L from the first row down.
LdltDown(M, x) ==
  LET Transpose(b, i) ==
        FoldLeft(LAMBDA r, j : [r EXCEPT ![j] = @ + Coef(M, i, j) * x[i]], b, Row(M, i))
      Lower(b, i) ==
        FoldLeft(LAMBDA r, j : [r EXCEPT ![i] = @ + Coef(M, i, j) * r[j]], b, Row(M, i))
      t == FoldLeft(Transpose, x, Up(M.size))
      d == [i \in DOMAIN t |-> t[i] * Coef(M, i, i)]
  IN  FoldLeft(Lower, d, Up(M.size))

\* matrix_ldlt_vector: the transpose of L, D, then L from the last row up.
matrix_ldlt_vector(M, x) ==
  LET Transpose(b, i) ==
        FoldLeft(LAMBDA r, j : [r EXCEPT ![j] = @ + Coef(M, i, j) * x[i]], b, Row(M, i))
      Lower(b, i) ==
        FoldLeft(LAMBDA r, j : [r EXCEPT ![i] = @ + Coef(M, i, j) * r[j]], b, Row(M, i))
      t == FoldLeft(Transpose, x, Up(M.size))
      d == [i \in DOMAIN t |-> t[i] * Coef(M, i, i)]
  IN  FoldLeft(Lower, d, Down(M.size))

\* __fem_solver_invert
fem_solver_invert(M, x) ==
  LET Lower(b, i) ==
        [b EXCEPT ![i] = @ - FoldLeft(LAMBDA s, j : s + Coef(M, i, j) * b[j], 0, Row(M, i))]
      Transpose(b, i) ==
        FoldLeft(LAMBDA r, j : [r EXCEPT ![j] = @ - Coef(M, i, j) * b[i]], b, Row(M, i))
      l == FoldLeft(Lower, x, Up(M.size))
      d == [i \in DOMAIN l |-> l[i] * Coef(M, i, i)]
  IN  FoldLeft(Transpose, d, Down(M.size))

\* fem_matrix_copy: what is copied of a factorized matrix is taken for one that is not.
fem_matrix_copy(M) == [M EXCEPT !.state = "ALLOCATED"]

\* fem_matrix_load: the file is read for the profile, then for the coefficients.
Height(file, i) ==
  FoldLeft(LAMBDA h, e : IF e[1] = i + 1 /\ e[1] - e[2] > h THEN e[1] - e[2] ELSE h,
           0, file.entries)

fem_matrix_load(file) ==
  LET diag[i \in 0 .. file.size - 1] ==
        IF i = 0 THEN Height(file, 0) ELSE Height(file, i) + diag[i - 1] + 1
      zeros == [k \in 0 .. diag[file.size - 1] |-> 0]
  IN  [size |-> file.size, diag |-> diag, state |-> "ALLOCATED",
       coef |-> FoldLeft(LAMBDA c, e : [c EXCEPT ![diag[e[1] - 1] - e[1] + e[2]] = e[3]],
                         zeros, file.entries)]

\* __fem_vector_dot_n: four sums, and what is left from the last case down.
fem_vector_dot(a, b) ==
  LET n == Cardinality(DOMAIN a)
      n4 == (n \div 4) * 4
      Part(k) == FoldLeft(LAMBDA s, i : s + a[i] * b[i], 0,
                          [q \in 1 .. n \div 4 |-> 4 * (q - 1) + k])
      left == FoldLeft(LAMBDA s, i : s + a[i] * b[i], 0, [q \in 1 .. n - n4 |-> n - q])
  IN  Part(0) + Part(1) + Part(2) + Part(3) + left

-----------------------------------------------------------------------------
(* Actions *)

\* Matrices of every profile; one without a state is never met.
Profiles(n) ==
  {d \in [0 .. n - 1 -> 0 .. n * n] :
     d[0] = 0 /\ \A i \in 1 .. n - 1 : d[i] - d[i - 1] \in 1 .. i + 1}

SkylineInit ==
  /\ \E n \in 1 .. MaxSize : \E d \in Profiles(n) :
       /\ A \in [size : {n}, diag : {d}, state : {"ALLOCATED", "LDLT"},
                 coef : {c \in [0 .. d[n - 1] -> Offs \cup Ons] :
                           \A k \in DOMAIN c : IF k \in Range(d) THEN c[k] \in Ons ELSE c[k] \in Offs}]
       /\ v = [i \in 0 .. n - 1 |-> Starts[i + 1]]
  /\ calls = 0

\* fem_matrix_vector
Product ==
  /\ v' = IF A.state = "LDLT" THEN matrix_ldlt_vector(A, v) ELSE fem_matrix_vector(A, v)
  /\ UNCHANGED A

\* fem_solver, of a factorized matrix
Solve == A.state = "LDLT" /\ v' = fem_solver_invert(A, v) /\ UNCHANGED A

Copy == A' = fem_matrix_copy(A) /\ UNCHANGED v

Load ==
  /\ \E file \in Entries : A' = fem_matrix_load(file)
  /\ v' = [i \in 0 .. A'.size - 1 |-> Starts[i + 1]]

\* fem_vector_set, fem_vector_normalize
VectorSet(row, value) ==
  /\ v' = IF row >= 1 /\ row - 1 < A.size THEN [v EXCEPT ![row - 1] = value] ELSE v
  /\ UNCHANGED A

SkylineNext ==
  /\ calls < MatrixCalls /\ calls' = calls + 1
  /\ \/ Product \/ Solve \/ Copy \/ Load
     \/ \E row \in {0, 2, MaxSize + 1} : VectorSet(row, 1)

SkylineSpec == SkylineInit /\ [][SkylineNext]_skylineVars

-----------------------------------------------------------------------------
(* Properties *)

\* The matrix a profile stands for.
Full(M) ==
  [i \in 0 .. M.size - 1 |-> [j \in 0 .. M.size - 1 |->
     LET r == IF i < j THEN j ELSE i  c == i + j - r
     IN  IF c < First(M, r) THEN 0 ELSE Coef(M, r, c)]]

Times(F, x) == [i \in DOMAIN x |-> MapThenSumSet(LAMBDA j : F[i][j] * x[j], DOMAIN x)]

\* L D transpose(L) of a factorized one.
Factored(M) ==
  LET F == Full(M)
      L(i, j) == CASE i = j -> 1 [] j < i -> F[i][j] [] j > i -> 0
  IN  [i \in 0 .. M.size - 1 |-> [j \in 0 .. M.size - 1 |->
         MapThenSumSet(LAMBDA k : L(i, k) * F[k][k] * L(j, k), 0 .. M.size - 1)]]

\* The product is that of the full matrix, of L D transpose(L) when it is
\* factorized; the resolution and the product undo each other; the unrolled dot
\* product is the sum (matrix.c:505-555, 865-909, solver.c:389-420).
AsFull ==
  /\ fem_matrix_vector(A, v) = Times(Full(A), v)
  /\ matrix_ldlt_vector(A, v) = Times(Factored(A), v)
  /\ (\A i \in All : Coef(A, i, i) \in Ons) =>
       fem_solver_invert(A, matrix_ldlt_vector(A, v)) = v
  /\ fem_vector_dot(v, v) = MapThenSumSet(LAMBDA i : v[i] * v[i], DOMAIN v)

\* A loaded matrix has the entries of the file, the last one of each place, and
\* zeros (matrix.c:286-352).
LoadRight ==
  \A file \in Entries :
    LET F == Full(fem_matrix_load(file))
        es == file.entries
        Final(i, j) == SelectLastInSeq(es, LAMBDA e : {e[1] - 1, e[2] - 1} = {i, j})
    IN  \A i, j \in 0 .. file.size - 1 :
          F[i][j] = IF Final(i, j) = 0 THEN 0 ELSE es[Final(i, j)][3]

\* Products and resolutions in a profile are those of the full matrix, which is the one
\* of the file it was loaded from (matrix.c, solver.c).
ProductsRight == AsFull /\ LoadRight
=============================================================================
