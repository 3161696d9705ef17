-------------------------------- MODULE Ldlt --------------------------------
(***************************************************************************)
(* The LDLt factorization of a skyline matrix as the comments of           *)
(* modules/fem/src/solver.c give it (lines 230-245), freed from the order  *)
(* of its loops: which product may be subtracted, and which line scaled,   *)
(* once what it reads has its final value.                                 *)
(*                                                                         *)
(* The value of A(i,j) is abstracted to the number of times the product    *)
(* SUM_k A(i,k)*A(j,k) was subtracted from it, and to whether line i has   *)
(* been finished (divided by the diagonal, line 205-223).                  *)
(***************************************************************************)
EXTENDS Integers, FiniteSets

VARIABLES
  first,      \* first[i]: column of the first coefficient stored of line i
  dots,       \* dots[i][j]: number of products subtracted from A(i,j)
  finished    \* lines finished; line 0 is its own factorization

vars == <<first, dots, finished>>

Lines == DOMAIN first

\* The product of lines i and j goes over the columns that both store.
From(i, j) == IF first[i] > first[j] THEN first[i] ELSE first[j]

Stored(i, j) == j < i /\ first[i] <= j

\* There is something to subtract from A(i,j).
HasDot(i, j) == Stored(i, j) /\ From(i, j) < j

NoDots == [i \in Lines |-> [j \in Lines |-> 0]]

\* A skyline: line i stores the columns first[i] to i.
IsProfile(p) ==
  /\ DOMAIN p = 0 .. Cardinality(DOMAIN p) - 1
  /\ \A i \in DOMAIN p : p[i] \in 0 .. i

Init ==
  /\ IsProfile(first)
  /\ dots = NoDots
  /\ finished = {0}

\* A(i,j) -= SUM_k A(i,k)*A(j,k): line j is finished, and the A(i,k) of line i
\* that the sum reads had their own products subtracted.
Dot(i, j) ==
  /\ HasDot(i, j)
  /\ i \notin finished
  /\ dots[i][j] = 0
  /\ j \in finished
  /\ \A k \in From(i, j) .. j - 1 : HasDot(i, k) => dots[i][k] = 1
  /\ dots' = [dots EXCEPT ![i][j] = 1]
  /\ UNCHANGED <<first, finished>>

\* S = A(i,j)/D(j), D(i) -= S*A(i,j), A(i,j) = S for every j of the line.
Finish(i) ==
  /\ i \notin finished
  /\ \A j \in Lines : HasDot(i, j) => dots[i][j] = 1
  /\ \A j \in Lines : Stored(i, j) => j \in finished
  /\ finished' = finished \cup {i}
  /\ UNCHANGED <<first, dots>>

Next == \E i \in Lines : Finish(i) \/ \E j \in Lines : Dot(i, j)

Spec == Init /\ [][Next]_vars
=============================================================================
