------------------------------ MODULE FemProofs ------------------------------
(***************************************************************************)
(* What is proved of modules/fem: the matrices of Skyline and the results  *)
(* of Analyses.                                                            *)
(*                                                                         *)
(* ProductsRight compares the loops over the profile with the products of  *)
(* the full matrix, for every size.  A loop is a fold: Inductions gives    *)
(* the fold of a sequence as the last of the values that its turns go      *)
(* through, and the invariant of the loop is proved along them, over a     *)
(* row and then over the rows.  The sums of the reference are sums over    *)
(* sets: they are brought to sums of the first values of a function, Tot,  *)
(* and the rest is algebra on these.                                       *)
(*                                                                         *)
(* ResultsKept needs to know where the values of each number are.          *)
(***************************************************************************)
EXTENDS Skyline, Analyses, Inductions, FiniteSetsExt

-----------------------------------------------------------------------------
(* Sums *)

\* h are the sums of the first values of g.
Adds(h, g, n) ==
  /\ h \in [0..n -> Int] /\ h[0] = 0
  /\ \A k \in 1..n : h[k] = h[k - 1] + g[k - 1]

\* g has numbers up to the n-th.
Ints(g, n) == \A k \in 0..(n - 1) : g[k] \in Int

\* The sum of the first n values of g.
Tot(g, n) == (CHOOSE h : Adds(h, g, n))[n]

\* There are such sums.
LEMMA AddsExists ==
  ASSUME NEW n \in Nat, NEW g, Ints(g, n)
  PROVE  \E h : Adds(h, g, n)
<1> DEFINE P == {m \in 0..n : \E h : Adds(h, g, m)}
<1>1. 0 \in P
  <2> DEFINE h == [k \in 0..0 |-> 0]
  <2>1. h \in [0..0 -> Int] /\ h[0] = 0 /\ 1..0 = {}
    OBVIOUS
  <2> HIDE DEF h
  <2>2. Adds(h, g, 0)
    BY <2>1 DEF Adds
  <2> QED
    BY <2>2
<1>2. ASSUME NEW m \in 1..n, m - 1 \in P PROVE m \in P
  <2>1. PICK h : Adds(h, g, m - 1)
    BY <1>2
  <2> DEFINE f == [k \in 0..m |-> IF k = m THEN h[m - 1] + g[m - 1] ELSE h[k]]
  <2>2. h \in [0..(m - 1) -> Int] /\ h[0] = 0 /\ \A k \in 1..(m - 1) : h[k] = h[k - 1] + g[k - 1]
    BY <2>1 DEF Adds
  <2>3. g[m - 1] \in Int /\ h[m - 1] \in Int /\ m \in Nat
    <3>1. m - 1 \in 0..(n - 1) /\ m - 1 \in 0..(m - 1)
      OBVIOUS
    <3> QED
      BY <2>2, <3>1 DEF Ints
  <2>4. f \in [0..m -> Int]
    <3>1. \A k \in 0..m : k # m => k \in 0..(m - 1)
      OBVIOUS
    <3> QED
      BY <2>2, <2>3, <3>1
  <2>5. f[0] = 0 /\ f[m] = h[m - 1] + g[m - 1] /\ \A k \in 0..(m - 1) : f[k] = h[k]
    BY <2>2, <2>3
  <2> HIDE DEF f
  <2>6. \A k \in 1..m : f[k] = f[k - 1] + g[k - 1]
    <3> SUFFICES ASSUME NEW k \in 1..m PROVE f[k] = f[k - 1] + g[k - 1]
      OBVIOUS
    <3>1. k - 1 \in 0..(m - 1)
      OBVIOUS
    <3>2. CASE k = m
      BY <2>5, <3>1, <3>2
    <3>3. CASE k # m
      <4>1. k \in 1..(m - 1) /\ k \in 0..(m - 1)
        BY <3>3
      <4> QED
        BY <2>2, <2>5, <3>1, <4>1
    <3> QED
      BY <3>2, <3>3
  <2>7. Adds(f, g, m)
    BY <2>4, <2>5, <2>6 DEF Adds
  <2> QED
    BY <2>7
<1>3. P = 0..n
  <2>1. P \in SUBSET (0..n)
    OBVIOUS
  <2> HIDE DEF P
  <2> QED
    BY <1>1, <1>2, <2>1, UpTo
<1>4. n \in P
  BY <1>3
<1> QED
  BY <1>4

\* The sum of any first values is the one before and the last of them.
LEMMA TotStep ==
  ASSUME NEW n \in Nat, NEW g, Ints(g, n)
  PROVE  /\ Tot(g, 0) = 0 /\ \A k \in 0..n : Tot(g, k) \in Int
         /\ \A k \in 1..n : Tot(g, k) = Tot(g, k - 1) + g[k - 1]
<1> DEFINE H(k) == CHOOSE h : Adds(h, g, k)
<1>1. PICK f : Adds(f, g, n)
  BY AddsExists
<1>2. f \in [0..n -> Int] /\ f[0] = 0 /\ \A k \in 1..n : f[k] = f[k - 1] + g[k - 1]
  BY <1>1 DEF Adds
<1>3. ASSUME NEW k \in 0..n PROVE Tot(g, k) = f[k]
  <2>1. k \in Nat /\ Ints(g, k)
    BY DEF Ints
  <2>2. Adds(H(k), g, k)
    BY <2>1, AddsExists
  <2> DEFINE h == H(k)
             P == {m \in 0..k : h[m] = f[m]}
  <2>3. h \in [0..k -> Int] /\ h[0] = 0 /\ \A m \in 1..k : h[m] = h[m - 1] + g[m - 1]
    BY <2>2 DEF Adds
  <2>4. Tot(g, k) = h[k]
    BY DEF Tot
  <2> HIDE DEF h
  <2>5. P \in SUBSET (0..k) /\ 0 \in P
    BY <1>2, <2>3
  <2>6. ASSUME NEW m \in 1..k, m - 1 \in P PROVE m \in P
    <3>1. h[m] = h[m - 1] + g[m - 1] /\ f[m] = f[m - 1] + g[m - 1] /\ h[m - 1] = f[m - 1]
      BY <1>2, <2>3, <2>6
    <3> QED
      BY <3>1
  <2> HIDE DEF P
  <2>7. P = 0..k
    BY <2>1, <2>5, <2>6, UpTo
  <2>8. k \in P
    BY <2>1, <2>7
  <2> QED
    BY <2>4, <2>8 DEF P
<1>4. \A k \in 1..n : k \in 0..n /\ k - 1 \in 0..n
  OBVIOUS
<1>5. 0 \in 0..n
  OBVIOUS
<1> QED
  BY <1>2, <1>3, <1>4, <1>5

\* It depends on these values only.
LEMMA TotSame ==
  ASSUME NEW n \in Nat, NEW f, NEW g, Ints(g, n), \A k \in 0..(n - 1) : f[k] = g[k]
  PROVE  Tot(f, n) = Tot(g, n)
<1> DEFINE P == {k \in 0..n : Tot(f, k) = Tot(g, k)}
<1>1. Ints(f, n)
  BY DEF Ints
<1>2. P \in SUBSET (0..n) /\ 0 \in P
  BY <1>1, TotStep
<1>3. ASSUME NEW k \in 1..n, k - 1 \in P PROVE k \in P
  <2>1. Tot(f, k) = Tot(f, k - 1) + f[k - 1] /\ Tot(g, k) = Tot(g, k - 1) + g[k - 1]
    BY <1>1, TotStep
  <2>2. k - 1 \in 0..(n - 1) /\ k \in 0..n
    OBVIOUS
  <2> QED
    BY <1>3, <2>1, <2>2
<1> HIDE DEF P
<1>4. P = 0..n
  BY <1>2, <1>3, UpTo
<1>5. n \in P
  BY <1>4
<1> QED
  BY <1>5 DEF P

\* f is the sum of g and h.
Together(f, g, h, n) == \A k \in 0..(n - 1) : f[k] = g[k] + h[k]

\* The sum of sums.
LEMMA TotSum ==
  ASSUME NEW n \in Nat, NEW f, NEW g, NEW h, Ints(g, n), Ints(h, n), Together(f, g, h, n)
  PROVE  Tot(f, n) = Tot(g, n) + Tot(h, n)
<1> DEFINE P == {k \in 0..n : Tot(f, k) = Tot(g, k) + Tot(h, k)}
<1>1. Ints(f, n)
  BY DEF Ints, Together
<1>2. P \in SUBSET (0..n) /\ 0 \in P
  BY <1>1, TotStep
<1>3. ASSUME NEW k \in 1..n, k - 1 \in P PROVE k \in P
  <2>1. k - 1 \in 0..(n - 1) /\ k \in 0..n /\ k - 1 \in 0..n
    OBVIOUS
  <2>2. /\ Tot(f, k) = Tot(f, k - 1) + f[k - 1] /\ Tot(g, k) = Tot(g, k - 1) + g[k - 1]
        /\ Tot(h, k) = Tot(h, k - 1) + h[k - 1]
    BY <1>1, TotStep
  <2>3. Tot(f, k - 1) \in Int /\ Tot(g, k - 1) \in Int /\ Tot(h, k - 1) \in Int /\ g[k - 1] \in Int /\ h[k - 1] \in Int
    BY <1>1, <2>1, TotStep DEF Ints
  <2>4. f[k - 1] = g[k - 1] + h[k - 1]
    BY <2>1 DEF Together
  <2> QED
    BY <1>3, <2>1, <2>2, <2>3, <2>4
<1> HIDE DEF P
<1>4. P = 0..n
  BY <1>2, <1>3, UpTo
<1>5. n \in P
  BY <1>4
<1> QED
  BY <1>5 DEF P

\* A sum of zeros.
LEMMA TotZero ==
  ASSUME NEW n \in Nat, NEW f, \A k \in 0..(n - 1) : f[k] = 0
  PROVE  Tot(f, n) = 0
<1> DEFINE P == {k \in 0..n : Tot(f, k) = 0}
<1>1. Ints(f, n)
  BY DEF Ints
<1>2. P \in SUBSET (0..n) /\ 0 \in P
  BY <1>1, TotStep
<1>3. ASSUME NEW k \in 1..n, k - 1 \in P PROVE k \in P
  <2>1. k - 1 \in 0..(n - 1) /\ k \in 0..n
    OBVIOUS
  <2>2. Tot(f, k) = Tot(f, k - 1) + f[k - 1]
    BY <1>1, TotStep
  <2> QED
    BY <1>3, <2>1, <2>2
<1> HIDE DEF P
<1>4. P = 0..n
  BY <1>2, <1>3, UpTo
<1>5. n \in P
  BY <1>4
<1> QED
  BY <1>5 DEF P

\* Products over sums of integers, which the provers take as a fact and not as a rule.
LEMMA Distributes == \A a, b, c \in Int : c * (a + b) = c * a + c * b /\ (a + b) * c = a * c + b * c
  OBVIOUS

\* The product of two integers is one, in both orders.
LEMMA TimesInt == \A a, b \in Int : a * b \in Int /\ a * b = b * a
  OBVIOUS

\* Three factors, in both groupings.
LEMMA TimesAssociates == \A a, b, c \in Int : (a * b) * c = a * (b * c)
  OBVIOUS

\* f is c times g.
Multiple(f, c, g, n) == \A k \in 0..(n - 1) : f[k] = c * g[k]

\* A multiple of a sum.
LEMMA TotScale ==
  ASSUME NEW n \in Nat, NEW f, NEW g, NEW c \in Int, Ints(g, n), Multiple(f, c, g, n)
  PROVE  Tot(f, n) = c * Tot(g, n)
<1> DEFINE P == {k \in 0..n : Tot(f, k) = c * Tot(g, k)}
<1>1. Ints(f, n)
  BY TimesInt DEF Ints, Multiple
<1>2. P \in SUBSET (0..n) /\ 0 \in P
  BY <1>1, TotStep
<1>3. ASSUME NEW k \in 1..n, k - 1 \in P PROVE k \in P
  <2>1. k - 1 \in 0..(n - 1) /\ k \in 0..n /\ k - 1 \in 0..n
    OBVIOUS
  <2>2. Tot(f, k) = Tot(f, k - 1) + f[k - 1] /\ Tot(g, k) = Tot(g, k - 1) + g[k - 1]
    BY <1>1, TotStep
  <2>3. Tot(g, k - 1) \in Int /\ g[k - 1] \in Int
    BY <2>1, TotStep DEF Ints
  <2>4. c * (Tot(g, k - 1) + g[k - 1]) = c * Tot(g, k - 1) + c * g[k - 1]
    BY <2>3, Distributes
  <2>5. f[k - 1] = c * g[k - 1] /\ Tot(f, k - 1) = c * Tot(g, k - 1)
    BY <1>3, <2>1 DEF Multiple
  <2> QED
    BY <2>1, <2>2, <2>4, <2>5
<1> HIDE DEF P
<1>4. P = 0..n
  BY <1>2, <1>3, UpTo
<1>5. n \in P
  BY <1>4
<1> QED
  BY <1>5 DEF P

\* f is g but for d more at x.
MoreAt(f, g, n, x, d) ==
  \A k \in 0..(n - 1) : f[k] = IF k = x THEN g[k] + d ELSE g[k]

\* A sum one value of which is changed.
LEMMA TotChange ==
  ASSUME NEW n \in Nat, NEW f, NEW g, NEW x \in 0..(n - 1), NEW d \in Int, Ints(g, n), MoreAt(f, g, n, x, d)
  PROVE  Tot(f, n) = Tot(g, n) + d
<1> DEFINE P == {k \in 0..n : Tot(f, k) = Tot(g, k) + (IF x < k THEN d ELSE 0)}
<1>1. Ints(f, n)
  BY DEF Ints, MoreAt
<1>2. P \in SUBSET (0..n) /\ 0 \in P
  BY <1>1, TotStep
<1>3. ASSUME NEW k \in 1..n, k - 1 \in P PROVE k \in P
  <2>1. k - 1 \in 0..(n - 1) /\ k \in 0..n /\ k - 1 \in 0..n
    OBVIOUS
  <2>2. Tot(f, k) = Tot(f, k - 1) + f[k - 1] /\ Tot(g, k) = Tot(g, k - 1) + g[k - 1]
    BY <1>1, TotStep
  <2>3. Tot(g, k - 1) \in Int /\ g[k - 1] \in Int
    BY <2>1, TotStep DEF Ints
  <2>4. f[k - 1] = IF k - 1 = x THEN g[k - 1] + d ELSE g[k - 1]
    BY <2>1 DEF MoreAt
  <2>5. Tot(f, k - 1) = Tot(g, k - 1) + (IF x < k - 1 THEN d ELSE 0)
    BY <1>3
  <2>6. Tot(f, k) = Tot(g, k) + (IF x < k THEN d ELSE 0)
    BY <2>2, <2>3, <2>4, <2>5
  <2> QED
    BY <2>1, <2>6
<1> HIDE DEF P
<1>4. P = 0..n
  BY <1>2, <1>3, UpTo
<1>5. n \in P
  BY <1>4
<1> QED
  BY <1>5 DEF P

\* r are the sums of the rows of G, c those of its columns, which are the rows of C.
Swaps(G, r, C, c, n, m) ==
  /\ \A j \in 0..(n - 1) : Ints(G[j], m)
  /\ \A j \in 0..(n - 1) : r[j] = Tot(G[j], m)
  /\ \A k \in 0..(m - 1), j \in 0..(n - 1) : C[k][j] = G[j][k]
  /\ \A k \in 0..(m - 1) : c[k] = Tot(C[k], n)

\* Rows first or columns first.
LEMMA TotSwap ==
  ASSUME NEW n \in Nat, NEW m \in Nat, NEW G, NEW r, NEW C, NEW c, Swaps(G, r, C, c, n, m)
  PROVE  Tot(r, n) = Tot(c, m)
<1>0. /\ \A j \in 0..(n - 1) : Ints(G[j], m)
      /\ \A j \in 0..(n - 1) : r[j] = Tot(G[j], m)
      /\ \A k \in 0..(m - 1), j \in 0..(n - 1) : C[k][j] = G[j][k]
      /\ \A k \in 0..(m - 1) : c[k] = Tot(C[k], n)
  BY DEF Swaps
<1> DEFINE part(p) == [k \in 0..(m - 1) |-> Tot(C[k], p)]
           P == {p \in 0..n : Tot(r, p) = Tot(part(p), m)}
<1>1. \A k \in 0..(m - 1) : Ints(C[k], n)
  BY <1>0 DEF Ints
<1>2. Ints(r, n)
  <2>1. \A j \in 0..(n - 1) : Tot(G[j], m) \in Int
    <3>1. m \in 0..m
      OBVIOUS
    <3> QED
      BY <1>0, <3>1, TotStep
  <2> QED
    BY <1>0, <2>1 DEF Ints
<1>3. 0 \in P
  <2>1. \A k \in 0..(m - 1) : part(0)[k] = 0
    BY <1>1, TotStep
  <2> HIDE DEF part
  <2>2. Tot(part(0), m) = 0
    BY <2>1, TotZero
  <2> QED
    BY <1>2, <2>2, TotStep
<1>4. ASSUME NEW p \in 1..n, p - 1 \in P PROVE p \in P
  <2>1. p - 1 \in 0..(n - 1) /\ p \in 0..n /\ p - 1 \in 0..n
    OBVIOUS
  <2>2. \A k \in 0..(m - 1) : part(p)[k] = part(p - 1)[k] + G[p - 1][k]
    BY <1>0, <1>1, <2>1, TotStep
  <2>3. \A k \in 0..(m - 1) : part(p - 1)[k] \in Int
    BY <1>0, <1>1, <2>1, TotStep
  <2> HIDE DEF part
  <2>4. Ints(part(p - 1), m) /\ Ints(G[p - 1], m)
    BY <1>0, <2>1, <2>3 DEF Ints
  <2>5. Tot(part(p), m) = Tot(part(p - 1), m) + Tot(G[p - 1], m)
    <3> DEFINE a == part(p)
               b == part(p - 1)
               e == G[p - 1]
    <3>1. Together(a, b, e, m)
      BY <2>2 DEF Together
    <3>2. Ints(b, m) /\ Ints(e, m)
      BY <2>4
    <3> HIDE DEF a, b, e
    <3>3. Tot(a, m) = Tot(b, m) + Tot(e, m)
      BY <3>1, <3>2, TotSum
    <3> QED
      BY <3>3 DEF a, b, e
  <2>6. Tot(r, p) = Tot(r, p - 1) + r[p - 1]
    BY <1>0, <1>2, TotStep
  <2> QED
    BY <1>0, <1>4, <2>1, <2>5, <2>6
<1>5. P = 0..n
  <2>1. P \in SUBSET (0..n)
    OBVIOUS
  <2> HIDE DEF P
  <2> QED
    BY <1>3, <1>4, <2>1, UpTo
<1>6. Tot(r, n) = Tot(part(n), m)
  <2>1. n \in P
    <3> HIDE DEF P
    <3> QED
      BY <1>5
  <2> QED
    BY <2>1
<1>7. Ints(c, m)
  <2>1. n \in 0..n
    OBVIOUS
  <2>2. \A k \in 0..(m - 1) : Tot(C[k], n) \in Int
    BY <1>0, <1>1, <2>1, TotStep
  <2> QED
    BY <1>0, <2>2 DEF Ints
<1>8. \A k \in 0..(m - 1) : part(n)[k] = c[k]
  BY <1>0
<1> HIDE DEF part
<1>9. Tot(part(n), m) = Tot(c, m)
  BY <1>7, <1>8, TotSame
<1> QED
  BY <1>6, <1>9

-----------------------------------------------------------------------------
(* Sums over sets *)

\* The values of g for the elements of s.
Those(g, s, n) == [k \in 0..(n - 1) |-> IF k \in s THEN g[k] ELSE 0]

\* The functions MapThenSumSet chooses from.
Summing(it, n, g) ==
  \A s \in SUBSET (0..(n - 1)) :
    it[s] = IF s = {} THEN 0 ELSE g[CHOOSE x \in s : TRUE] + it[s \ {CHOOSE x \in s : TRUE}]

\* The sum of the values of an element more.
LEMMA ThoseLess ==
  ASSUME NEW n \in Nat, NEW g, Ints(g, n), NEW s \in SUBSET (0..(n - 1)), NEW x \in s
  PROVE  Tot(Those(g, s, n), n) = g[x] + Tot(Those(g, s \ {x}, n), n)
<1> DEFINE f == Those(g, s, n)
           h == Those(g, s \ {x}, n)
<1>1. Ints(h, n) /\ g[x] \in Int /\ x \in 0..(n - 1)
  BY DEF Ints, Those
<1>2. MoreAt(f, h, n, x, g[x])
  BY DEF MoreAt, Those, Ints
<1> HIDE DEF f, h
<1>3. Tot(f, n) = Tot(h, n) + g[x]
  BY <1>1, <1>2, TotChange
<1>4. n \in 0..n
  OBVIOUS
<1>5. Tot(h, n) \in Int
  BY <1>1, <1>4, TotStep
<1> QED
  BY <1>1, <1>3, <1>5 DEF f, h

\* There is such a function.
LEMMA SummingExists ==
  ASSUME NEW n \in Nat, NEW g, Ints(g, n)
  PROVE  \E it \in [SUBSET (0..(n - 1)) -> Int] : Summing(it, n, g)
<1> DEFINE D == 0..(n - 1)
           it == [s \in SUBSET D |-> Tot(Those(g, s, n), n)]
<1>1. \A s \in SUBSET D : Tot(Those(g, s, n), n) \in Int
  <2> SUFFICES ASSUME NEW s \in SUBSET D PROVE Tot(Those(g, s, n), n) \in Int
    OBVIOUS
  <2>1. Ints(Those(g, s, n), n)
    BY DEF Ints, Those
  <2>2. n \in 0..n
    OBVIOUS
  <2> QED
    BY <2>1, <2>2, TotStep
<1>2. ASSUME NEW s \in SUBSET D
      PROVE  it[s] = IF s = {} THEN 0 ELSE g[CHOOSE x \in s : TRUE] + it[s \ {CHOOSE x \in s : TRUE}]
  <2>1. CASE s = {}
    <3>1. \A k \in 0..(n - 1) : Those(g, s, n)[k] = 0
      BY <2>1 DEF Those
    <3>2. Tot(Those(g, s, n), n) = 0
      BY <3>1, TotZero
    <3> QED
      BY <2>1, <3>2
  <2>2. CASE s # {}
    <3> DEFINE x == CHOOSE x \in s : TRUE
    <3>1. x \in s
      BY <2>2
    <3> HIDE DEF x
    <3>2. Tot(Those(g, s, n), n) = g[x] + Tot(Those(g, s \ {x}, n), n)
      BY <3>1, ThoseLess
    <3>3. it[s] = g[x] + it[s \ {x}]
      BY <3>2
    <3> HIDE DEF it
    <3> QED
      BY <2>2, <3>3 DEF x
  <2> QED
    BY <2>1, <2>2
<1>3. it \in [SUBSET D -> Int]
  BY <1>1
<1> HIDE DEF it
<1>4. Summing(it, n, g)
  BY <1>2 DEF Summing
<1> QED
  BY <1>3, <1>4

\* What it gives is the sum.
LEMMA SummingIs ==
  ASSUME NEW n \in Nat, NEW g, Ints(g, n), NEW it, Summing(it, n, g)
  PROVE  it[0..(n - 1)] = Tot(g, n)
<1> DEFINE D == 0..(n - 1)
           F == {s \in SUBSET D : it[s] # Tot(Those(g, s, n), n)}
<1>1. F = {}
  <2> SUFFICES ASSUME F # {} PROVE FALSE
    OBVIOUS
  <2>1. F \in SUBSET FiniteSubsetsOf(D)
    <3>1. IsFiniteSet(D)
      BY FS_Interval
    <3>2. \A s \in SUBSET D : IsFiniteSet(s)
      BY <3>1, FS_Subset
    <3> QED
      BY <3>2 DEF FiniteSubsetsOf
  <2>2. PICK s \in F : \A t \in F : t \subseteq s => t = s
    <3> HIDE DEF F
    <3> QED
      BY <2>1, FinLeast
  <2>3. s \in SUBSET D /\ it[s] # Tot(Those(g, s, n), n)
    OBVIOUS
  <2>4. s # {}
    <3> SUFFICES ASSUME s = {} PROVE FALSE
      OBVIOUS
    <3>1. \A k \in 0..(n - 1) : Those(g, s, n)[k] = 0
      BY DEF Those
    <3>2. Tot(Those(g, s, n), n) = 0
      BY <3>1, TotZero
    <3>3. it[s] = 0
      BY <2>3 DEF Summing
    <3> QED
      BY <2>3, <3>2, <3>3
  <2> DEFINE x == CHOOSE x \in s : TRUE
  <2>5. x \in s
    BY <2>4
  <2>6. it[s] = g[x] + it[s \ {x}]
    BY <2>3, <2>4 DEF Summing
  <2> HIDE DEF x
  <2>7. Tot(Those(g, s, n), n) = g[x] + Tot(Those(g, s \ {x}, n), n)
    BY <2>3, <2>5, ThoseLess
  <2>8. s \ {x} \notin F
    <3>1. s \ {x} # s /\ s \ {x} \subseteq s
      BY <2>5
    <3> HIDE DEF F
    <3> QED
      BY <2>2, <3>1
  <2>9. s \ {x} \in SUBSET D
    BY <2>3
  <2>10. it[s \ {x}] = Tot(Those(g, s \ {x}, n), n)
    BY <2>8, <2>9
  <2> QED
    BY <2>3, <2>6, <2>7, <2>10
<1>2. it[D] = Tot(Those(g, D, n), n)
  <2>1. D \in SUBSET D
    OBVIOUS
  <2> HIDE DEF D
  <2> QED
    BY <1>1, <2>1
<1>3. Tot(Those(g, D, n), n) = Tot(g, n)
  <2>1. \A k \in 0..(n - 1) : Those(g, D, n)[k] = g[k]
    BY DEF Those
  <2> QED
    BY <2>1, TotSame
<1> QED
  BY <1>2, <1>3

-----------------------------------------------------------------------------
(* Matrices *)

\* A matrix in a profile, and the vectors it is multiplied by.
Mat(M) ==
  /\ M.size \in Nat \ {0} /\ M.diag \in [0..(M.size - 1) -> Nat] /\ M.diag[0] = 0
  /\ \A i \in 1..(M.size - 1) : M.diag[i] - M.diag[i - 1] \in 1..(i + 1)
  /\ M.coef \in [0..M.diag[M.size - 1] -> Int]

\* The vectors a matrix is multiplied by.
Vec(M) == [0..(M.size - 1) -> Int]

\* What the definition of a matrix says of its rows, without the definition.
LEMMA SizeIs ==
  ASSUME NEW M, Mat(M)
  PROVE  M.size \in Nat /\ M.size # 0 /\ \A i \in 0..(M.size - 1) : i \in Nat
  BY DEF Mat

\* The coefficient of the full matrix.
Entry(M, i, j) ==
  IF j <= i THEN IF j < First(M, i) THEN 0 ELSE Coef(M, i, j)
  ELSE IF i < First(M, j) THEN 0 ELSE Coef(M, j, i)

\* Rows begin behind those before them.
LEMMA DiagGrows ==
  ASSUME NEW M, Mat(M), NEW k \in 0..(M.size - 1), NEW i \in 0..k
  PROVE  M.diag[i] <= M.diag[k] /\ (i < k => M.diag[i] + 1 <= M.diag[k])
<1> DEFINE n == M.size
           d == M.diag
           P == {m \in 0..k : i <= m => d[i] <= d[m] /\ (i < m => d[i] + 1 <= d[m])}
<1>1. n \in Nat \ {0} /\ d \in [0..(n - 1) -> Nat] /\ \A m \in 1..(n - 1) : d[m] - d[m - 1] \in 1..(m + 1)
  BY DEF Mat
<1> HIDE DEF n, d
<1>2. k \in Nat /\ k <= n - 1 /\ i \in Nat /\ i <= k
  BY <1>1 DEF n
<1>3. P \in SUBSET (0..k) /\ 0 \in P
  BY <1>1, <1>2
<1>4. ASSUME NEW m \in 1..k, m - 1 \in P PROVE m \in P
  <2>1. m \in 1..(n - 1) /\ m - 1 \in 0..(n - 1) /\ m \in 0..(n - 1) /\ i \in 0..(n - 1)
    BY <1>1, <1>2
  <2>2. d[m] - d[m - 1] >= 1 /\ d[m] \in Nat /\ d[m - 1] \in Nat /\ d[i] \in Nat
    BY <1>1, <2>1
  <2>3. i <= m - 1 => d[i] <= d[m - 1]
    BY <1>4
  <2>4. CASE i <= m - 1
    BY <1>2, <2>2, <2>3, <2>4
  <2>5. CASE ~ (i <= m - 1)
    <3>1. i <= m => i = m
      BY <1>2, <2>5
    <3> QED
      BY <1>2, <2>2, <3>1
  <2> QED
    BY <2>4, <2>5
<1>5. P = 0..k
  <2> HIDE DEF P
  <2> QED
    BY <1>2, <1>3, <1>4, UpTo
<1>6. k \in P
  BY <1>2, <1>5
<1> QED
  BY <1>2, <1>6 DEF d

\* The coefficients of a row are in the list, and are integers.
LEMMA Cells ==
  ASSUME NEW M, Mat(M), NEW i \in 0..(M.size - 1)
  PROVE  /\ First(M, i) \in 0..i
         /\ \A j \in First(M, i)..i : M.diag[i] - i + j \in DOMAIN M.coef /\ Coef(M, i, j) \in Int
<1> DEFINE n == M.size
           d == M.diag
           last == d[n - 1]
<1>1. n \in Nat \ {0} /\ d \in [0..(n - 1) -> Nat] /\ d[0] = 0 /\ M.coef \in [0..last -> Int]
  BY DEF Mat
<1>2. i # 0 => d[i] - d[i - 1] \in 1..(i + 1) /\ d[i - 1] \in Nat
  <2> SUFFICES ASSUME i # 0 PROVE d[i] - d[i - 1] \in 1..(i + 1) /\ d[i - 1] \in Nat
    OBVIOUS
  <2>1. i \in 1..(n - 1) /\ i - 1 \in 0..(n - 1)
    BY <1>1
  <2> QED
    BY <1>1, <2>1 DEF Mat
<1>3. d[i] <= last /\ last \in Nat /\ d[i] \in Nat
  <2>1. n - 1 \in 0..(n - 1) /\ i \in 0..(n - 1)
    BY <1>1
  <2> QED
    BY <1>1, <2>1, DiagGrows
<1>4. First(M, i) = IF i = 0 THEN 0 ELSE i + 1 - d[i] + d[i - 1]
  BY DEF First
<1>5. \A j : Coef(M, i, j) = M.coef[d[i] - i + j]
  BY DEF Coef
<1>6. i \in Nat
  BY <1>1
<1> HIDE DEF n, d, last
<1>7. First(M, i) \in 0..i
  <2>1. CASE i = 0
    BY <2>1, <1>4
  <2>2. CASE i # 0
    <3> DEFINE y == d[i]
               z == d[i - 1]
    <3>1. y - z \in 1..(i + 1) /\ z \in Nat /\ y \in Nat
      BY <2>2, <1>2, <1>3
    <3>2. First(M, i) = i + 1 - y + z
      BY <2>2, <1>4
    <3> HIDE DEF y, z
    <3>3. i + 1 - y + z \in 0..i
      BY <3>1, <1>6
    <3> QED
      BY <3>2, <3>3
  <2> QED
    BY <2>1, <2>2
<1>8. ASSUME NEW j \in First(M, i)..i PROVE d[i] - i + j \in 0..last
  <2>1. CASE i = 0
    BY <1>1, <1>3, <1>4, <1>8, <2>1
  <2>2. CASE i # 0
    BY <1>2, <1>3, <1>4, <1>6, <1>8, <2>2
  <2> QED
    BY <2>1, <2>2
<1> QED
  BY <1>1, <1>5, <1>7, <1>8 DEF d

\* The full matrix has integers and is symmetric.
LEMMA EntryInt ==
  ASSUME NEW M, Mat(M), NEW i \in 0..(M.size - 1), NEW j \in 0..(M.size - 1)
  PROVE  Entry(M, i, j) \in Int /\ Entry(M, i, j) = Entry(M, j, i)
<1>1. i \in Nat /\ j \in Nat
  BY DEF Mat
<1>2. /\ First(M, i) \in 0..i /\ \A k \in First(M, i)..i : Coef(M, i, k) \in Int
      /\ First(M, j) \in 0..j /\ \A k \in First(M, j)..j : Coef(M, j, k) \in Int
  BY Cells
<1> QED
  BY <1>1, <1>2 DEF Entry

\* Intervals from 1 that are equal have the same end.
LEMMA SameLength == \A a, b \in Nat : 1..a = 1..b => a = b
<1> SUFFICES ASSUME NEW a \in Nat, NEW b \in Nat, 1..a = 1..b PROVE a = b
  OBVIOUS
<1>1. a # 0 => a \in 1..a
  OBVIOUS
<1>2. b # 0 => b \in 1..b
  OBVIOUS
<1>3. (a # 0 => a <= b) /\ (b # 0 => b <= a)
  BY <1>1, <1>2
<1> QED
  BY <1>3

\* The columns of a row before the diagonal.
LEMMA RowIs ==
  ASSUME NEW M, Mat(M), NEW i \in 0..(M.size - 1)
  PROVE  /\ Row(M, i) \in Seq(First(M, i)..(i - 1)) /\ Len(Row(M, i)) = i - First(M, i)
         /\ DOMAIN Row(M, i) = 1..Len(Row(M, i))
         /\ \A k \in 1..(i - First(M, i)) : Row(M, i)[k] = First(M, i) + k - 1
<1> DEFINE f == First(M, i)
<1>1. f \in 0..i /\ i \in Nat
  <2>1. M.size \in Nat
    BY DEF Mat
  <2> QED
    BY <2>1, Cells
<1>2. Row(M, i) = [k \in 1..(i - f) |-> f + k - 1]
  BY DEF Row
<1> HIDE DEF f
<1>3. i - f \in Nat /\ \A k \in 1..(i - f) : f + k - 1 \in f..(i - 1)
  BY <1>1
<1> DEFINE m == i - f
           R == [k \in 1..m |-> f + k - 1]
<1>4. R \in [1..m -> f..(i - 1)] /\ DOMAIN R = 1..m /\ \A k \in 1..m : R[k] = f + k - 1
  BY <1>3
<1> HIDE DEF R, m
<1>5. m \in Nat
  BY <1>3 DEF m
<1>6. R \in Seq(f..(i - 1)) /\ Len(R) = m
  <2>1. R \in Seq(f..(i - 1))
    BY <1>4, <1>5, SeqDef
  <2>2. DOMAIN R = 1..Len(R) /\ Len(R) \in Nat
    BY <2>1, LenProperties
  <2>3. 1..Len(R) = 1..m
    BY <1>4, <2>2
  <2>4. Len(R) = m
    BY <1>5, <2>2, <2>3, SameLength
  <2> QED
    BY <2>1, <2>4
<1>7. Row(M, i) = R
  BY <1>2 DEF R, m
<1> QED
  BY <1>4, <1>6, <1>7 DEF f, m

\* The rows from the second to the last, and back.
LEMMA UpIs ==
  ASSUME NEW n \in Nat \ {0}
  PROVE  /\ Up(n) \in Seq(1..(n - 1)) /\ Len(Up(n)) = n - 1 /\ DOMAIN Up(n) = 1..Len(Up(n))
         /\ Down(n) \in Seq(1..(n - 1)) /\ Len(Down(n)) = n - 1 /\ DOMAIN Down(n) = 1..Len(Down(n))
         /\ \A k \in 1..(n - 1) : Up(n)[k] = k /\ Down(n)[k] = n - k
<1>1. [k \in 1..(n - 1) |-> k] \in [1..(n - 1) -> 1..(n - 1)] /\ n - 1 \in Nat
  OBVIOUS
<1>2. [k \in 1..(n - 1) |-> n - k] \in [1..(n - 1) -> 1..(n - 1)]
  <2>1. \A k \in 1..(n - 1) : n - k \in 1..(n - 1)
    OBVIOUS
  <2> QED
    BY <2>1
<1> QED
  BY <1>1, <1>2 DEF Up, Down

-----------------------------------------------------------------------------
(* The loops *)

\* A coefficient and the one that mirrors it.
ProductCell(M, x, i, r, j) ==
  [r EXCEPT ![i] = @ + Coef(M, i, j) * x[j], ![j] = @ + Coef(M, i, j) * x[i]]

\* The turns of the loop over a row, as a function.
ProductCells(M, x, i) ==
  [p \in Vec(M) \X (First(M, i)..(i - 1)) |-> ProductCell(M, x, i, p[1], p[2])]

ProductRow(M, x, i, r) == FoldLeft(LAMBDA q, j : ProductCell(M, x, i, q, j), r, Row(M, i))

\* A row and its diagonal.
ProductLine(M, x, r, i) == [ProductRow(M, x, i, r) EXCEPT ![i] = @ + x[i] * Coef(M, i, i)]

\* The loop over the rows, and what it begins with.
ProductLines(M, x) == [p \in Vec(M) \X (1..(M.size - 1)) |-> ProductLine(M, x, p[1], p[2])]

ProductStart(M, x) == [[i \in DOMAIN x |-> 0] EXCEPT ![0] = x[0] * Coef(M, 0, 0)]

\* A place of the profile before the diagonal is that of the full matrix, on both sides.
LEMMA CellTyped ==
  ASSUME NEW M, Mat(M), NEW i \in 0..(M.size - 1), NEW j \in First(M, i)..(i - 1)
  PROVE  /\ Coef(M, i, j) \in Int /\ j \in 0..(M.size - 1) /\ j # i /\ j < i
         /\ Coef(M, i, j) = Entry(M, i, j) /\ Coef(M, i, j) = Entry(M, j, i)
<1>1. M.size \in Nat /\ i \in Nat /\ First(M, i) \in 0..i /\ \A k \in First(M, i)..i : Coef(M, i, k) \in Int
  BY Cells, SizeIs
<1> QED
  BY <1>1 DEF Entry

\* The loop of a product over a row.
LEMMA ProductRowFolded ==
  ASSUME NEW M, Mat(M), NEW x \in Vec(M), NEW i \in 0..(M.size - 1), NEW r \in Vec(M)
  PROVE  Folded(ProductRow(M, x, i, r), Vec(M), r, Row(M, i), ProductCells(M, x, i))
<1> DEFINE D == DOMAIN Row(M, i)
           Eq(it) == it = [u \in SUBSET D |-> IF u = {} THEN r ELSE ProductCell(M, x, i, it[u \ {Max(u)}], Row(M, i)[Max(u)])]
           it == CHOOSE it : Eq(it)
<1>0. r \in Vec(M) /\ Row(M, i) \in Seq(First(M, i)..(i - 1)) /\ D = 1..Len(Row(M, i))
  BY RowIs
<1>1. ProductCells(M, x, i) \in [Vec(M) \X (First(M, i)..(i - 1)) -> Vec(M)]
  <2> SUFFICES ASSUME NEW a \in Vec(M), NEW j \in First(M, i)..(i - 1) PROVE ProductCell(M, x, i, a, j) \in Vec(M)
    BY DEF ProductCells
  <2>1. Coef(M, i, j) \in Int /\ j \in 0..(M.size - 1) /\ x[i] \in Int /\ x[j] \in Int
    BY CellTyped DEF Vec
  <2>2. Coef(M, i, j) * x[j] \in Int /\ Coef(M, i, j) * x[i] \in Int
    BY <2>1, TimesInt
  <2>3. i \in 0..(M.size - 1) /\ i # j
    BY CellTyped
  <2>4. ProductCell(M, x, i, a, j) =
          [q \in 0..(M.size - 1) |-> IF q = i THEN a[i] + Coef(M, i, j) * x[j]
                                    ELSE IF q = j THEN a[j] + Coef(M, i, j) * x[i] ELSE a[q]]
    BY <2>1, <2>3 DEF ProductCell, Vec
  <2>5. a[i] \in Int /\ a[j] \in Int /\ \A q \in 0..(M.size - 1) : a[q] \in Int
    BY <2>1 DEF Vec
  <2> QED
    BY <2>2, <2>4, <2>5 DEF Vec
<1>2. ASSUME NEW f, NEW u \in SUBSET D, u # {}, f[u \ {Max(u)}] \in Vec(M)
      PROVE  ProductCells(M, x, i)[<<f[u \ {Max(u)}], Row(M, i)[Max(u)]>>] = ProductCell(M, x, i, f[u \ {Max(u)}], Row(M, i)[Max(u)])
  <2>1. Row(M, i)[Max(u)] \in First(M, i)..(i - 1)
    BY <1>0, <1>2, MaxRank
  <2> QED
    BY <1>2, <2>1 DEF ProductCells
<1>3. PICK f \in [SUBSET D -> Vec(M)] : Folding(f, Vec(M), r, Row(M, i), ProductCells(M, x, i))
  BY <1>0, <1>1, FoldExists
<1>4. \A u \in SUBSET D : u \ {Max(u)} \in SUBSET D
  OBVIOUS
<1>5. Eq(f)
  <2>1. f[{}] = r
    BY <1>3 DEF Folding
  <2>2. ASSUME NEW u \in SUBSET D, u # {} PROVE f[u] = ProductCell(M, x, i, f[u \ {Max(u)}], Row(M, i)[Max(u)])
    <3>1. f[u \ {Max(u)}] \in Vec(M)
      BY <1>4
    <3>2. f[u] = ProductCells(M, x, i)[<<f[u \ {Max(u)}], Row(M, i)[Max(u)]>>]
      BY <1>0, <1>3, <2>2, <3>1 DEF Folding
    <3> QED
      BY <1>2, <2>2, <3>1, <3>2
  <2>3. f = [u \in SUBSET D |-> f[u]]
    OBVIOUS
  <2> QED
    BY <2>1, <2>2, <2>3
<1>6. Eq(it)
  BY <1>5
<1>7. ProductRow(M, x, i, r) = it[D]
  BY DEF ProductRow, FoldLeft, MapThenFoldSet
<1> HIDE DEF it
<1>8. Folding(it, Vec(M), r, Row(M, i), ProductCells(M, x, i))
  BY <1>0, <1>2, <1>6 DEF Folding
<1>9. Folded(it[1..Len(Row(M, i))], Vec(M), r, Row(M, i), ProductCells(M, x, i))
  BY <1>0, <1>1, <1>8, FoldIs
<1> QED
  BY <1>0, <1>7, <1>9

\* What the row i of the full matrix is multiplied with.
Line(M, x, i) == [j \in 0..(M.size - 1) |-> Entry(M, i, j) * x[j]]

\* A row of the product is a sum of integers, and what is before the profile adds nothing.
LEMMA LineInts ==
  ASSUME NEW M, Mat(M), NEW x \in Vec(M), NEW i \in 0..(M.size - 1)
  PROVE  /\ Ints(Line(M, x, i), M.size) /\ Tot(Line(M, x, i), First(M, i)) = 0 /\ Tot(Line(M, x, i), 0) = 0
         /\ \A k \in 0..M.size : Tot(Line(M, x, i), k) \in Int
         /\ \A k \in 0..(M.size - 1) : Tot(Line(M, x, i), k + 1) = Tot(Line(M, x, i), k) + Entry(M, i, k) * x[k]
<1> DEFINE g == Line(M, x, i)
           n == M.size
<1>1. \A j \in 0..(n - 1) : Entry(M, i, j) * x[j] \in Int
  <2> SUFFICES ASSUME NEW j \in 0..(n - 1) PROVE Entry(M, i, j) * x[j] \in Int
    OBVIOUS
  <2>1. Entry(M, i, j) \in Int
    BY EntryInt
  <2>2. x[j] \in Int
    BY DEF Vec
  <2> QED
    BY <2>1, <2>2, TimesInt
<1>2. Ints(g, n)
  BY <1>1 DEF Ints, Line
<1>3. First(M, i) \in 0..i /\ i \in Nat /\ n \in Nat /\ i <= n - 1
  BY Cells, SizeIs
<1>4. \A j \in 0..(First(M, i) - 1) : g[j] = 0
  <2> SUFFICES ASSUME NEW j \in 0..(First(M, i) - 1) PROVE g[j] = 0
    OBVIOUS
  <2>1. j \in 0..(n - 1) /\ j <= i /\ j < First(M, i)
    BY <1>3
  <2>2. Entry(M, i, j) = 0 /\ x[j] \in Int
    BY <2>1 DEF Entry, Vec
  <2>3. 0 * x[j] = 0
    BY <2>2
  <2> QED
    BY <2>1, <2>2, <2>3 DEF Line
<1>5. \A k \in 0..(n - 1) : g[k] = Entry(M, i, k) * x[k]
  BY DEF Line
<1> HIDE DEF g
<1>6. Tot(g, First(M, i)) = 0
  BY <1>3, <1>4, TotZero
<1>7. /\ Tot(g, 0) = 0 /\ \A k \in 0..n : Tot(g, k) \in Int
      /\ \A k \in 1..n : Tot(g, k) = Tot(g, k - 1) + g[k - 1]
  BY <1>2, <1>3, TotStep
<1>8. \A k \in 0..(n - 1) : k + 1 \in 1..n /\ k + 1 - 1 = k
  BY <1>3
<1>9. \A k \in 0..(n - 1) : Tot(g, k + 1) = Tot(g, k) + Entry(M, i, k) * x[k]
  BY <1>5, <1>7, <1>8
<1> QED
  BY <1>2, <1>6, <1>7, <1>9 DEF g

\* The vector when a row was gone through up to the column c.
RowTo(M, x, i, r, c) ==
  [q \in 0..(M.size - 1) |->
     IF q = i THEN r[i] + Tot(Line(M, x, i), c)
     ELSE IF q < c THEN r[q] + Entry(M, i, q) * x[i] ELSE r[q]]

\* A row adds to its place what the columns before the diagonal are worth, and to theirs
\* what it is worth.
LEMMA ProductRowIs ==
  ASSUME NEW M, Mat(M), NEW x \in Vec(M), NEW i \in 0..(M.size - 1), NEW r \in Vec(M)
  PROVE  ProductRow(M, x, i, r) = RowTo(M, x, i, r, i)
<1> DEFINE s == Row(M, i)
           f == First(M, i)
           m == Len(s)
           n == M.size
<1>1. Folded(ProductRow(M, x, i, r), Vec(M), r, s, ProductCells(M, x, i))
  BY ProductRowFolded
<1>2. PICK h \in [0..m -> Vec(M)] :
        /\ h[0] = r /\ ProductRow(M, x, i, r) = h[m]
        /\ \A k \in 1..m : h[k] = ProductCells(M, x, i)[<<h[k - 1], s[k]>>]
  BY <1>1 DEF Folded
<1>3. m = i - f /\ f \in 0..i /\ i \in Nat /\ n \in Nat /\ i <= n - 1 /\ m \in Nat
  BY RowIs, Cells, SizeIs
<1>4. \A k \in 1..m : s[k] = f + k - 1 /\ f + k - 1 \in f..(i - 1)
  <2>1. \A k \in 1..m : s[k] = f + k - 1
    BY RowIs
  <2> HIDE DEF m, s, f
  <2>2. \A k \in 1..m : f + k - 1 \in f..(i - 1)
    BY <1>3
  <2> QED
    BY <2>1, <2>2
<1>5. r \in [0..(n - 1) -> Int] /\ x \in [0..(n - 1) -> Int]
  BY DEF Vec
<1> HIDE DEF s, m, f, n
<1> DEFINE P == {k \in 0..m : h[k] = RowTo(M, x, i, r, f + k)}
<1>6. 0 \in P
  <2>1. RowTo(M, x, i, r, f + 0) = r
    <3>1. Tot(Line(M, x, i), f + 0) = 0
      BY <1>3, LineInts DEF f
    <3>2. \A q \in 0..(n - 1) : q # i /\ q < f => r[q] + Entry(M, i, q) * x[i] = r[q]
      <4> SUFFICES ASSUME NEW q \in 0..(n - 1), q # i, q < f PROVE r[q] + Entry(M, i, q) * x[i] = r[q]
        OBVIOUS
      <4>1. Entry(M, i, q) = 0
        BY <1>3 DEF Entry, f
      <4>2. 0 * x[i] = 0 /\ r[q] \in Int
        <5>1. x[i] \in Int
          BY <1>3, <1>5
        <5> QED
          BY <1>5, <5>1
      <4> QED
        BY <4>1, <4>2
    <3>3. r[i] \in Int
      BY <1>3, <1>5
    <3>4. RowTo(M, x, i, r, f + 0) = [q \in 0..(n - 1) |-> r[q]]
      BY <1>3, <3>1, <3>2, <3>3 DEF RowTo, n
    <3> QED
      BY <1>5, <3>4
  <2> QED
    BY <1>2, <1>3, <2>1
<1>7. ASSUME NEW k \in 1..m, k - 1 \in P PROVE k \in P
  <2> DEFINE a == h[k - 1]
             j == f + k - 1
  <2>1. a = RowTo(M, x, i, r, j) /\ a \in Vec(M) /\ s[k] = j /\ j \in f..(i - 1) /\ k - 1 \in 0..m
    <3>1. k - 1 \in 0..m /\ f + (k - 1) = j
      BY <1>3
    <3> QED
      BY <1>2, <1>4, <1>7, <3>1
  <2>2. h[k] = ProductCell(M, x, i, a, j)
    <3>1. h[k] = ProductCells(M, x, i)[<<a, j>>]
      BY <1>2, <2>1
    <3> QED
      BY <2>1, <3>1 DEF ProductCells, f
  <2>3. j \in Nat /\ j < i /\ j \in 0..(n - 1) /\ f + k = j + 1 /\ i \in 0..(n - 1) /\ f <= j
    BY <1>3, <2>1
  <2>4. Coef(M, i, j) = Entry(M, i, j) /\ Coef(M, i, j) \in Int
    BY <2>1, CellTyped DEF f
  <2> HIDE DEF a, j
  <2>5. ProductCell(M, x, i, a, j) =
          [q \in 0..(n - 1) |-> IF q = i THEN a[i] + Entry(M, i, j) * x[j]
                                ELSE IF q = j THEN a[j] + Entry(M, i, j) * x[i] ELSE a[q]]
    BY <2>1, <2>3, <2>4 DEF ProductCell, Vec, n
  <2>6. a[i] = r[i] + Tot(Line(M, x, i), j) /\ a[j] = r[j]
    BY <1>5, <2>1, <2>3 DEF RowTo, n
  <2>7. Tot(Line(M, x, i), j + 1) = Tot(Line(M, x, i), j) + Entry(M, i, j) * x[j]
    BY <2>3, LineInts DEF n
  <2>8. a[i] + Entry(M, i, j) * x[j] = r[i] + Tot(Line(M, x, i), j + 1)
    <3>1. r[i] \in Int /\ Tot(Line(M, x, i), j) \in Int /\ Entry(M, i, j) * x[j] \in Int
      <4>1. j \in 0..n /\ x[j] \in Int /\ r[i] \in Int
        BY <1>3, <1>5, <2>3
      <4> QED
        BY <2>3, <2>4, <4>1, LineInts, TimesInt DEF n
    <3> QED
      BY <2>6, <2>7, <3>1
  <2>9. \A q \in 0..(n - 1) : q # i /\ q # j => a[q] = IF q < j + 1 THEN r[q] + Entry(M, i, q) * x[i] ELSE r[q]
    <3> SUFFICES ASSUME NEW q \in 0..(n - 1), q # i, q # j
                 PROVE  a[q] = IF q < j + 1 THEN r[q] + Entry(M, i, q) * x[i] ELSE r[q]
      OBVIOUS
    <3>1. q < j + 1 <=> q < j
      BY <1>3, <2>3
    <3> QED
      BY <2>1, <3>1 DEF RowTo, n
  <2>10. ProductCell(M, x, i, a, j) = RowTo(M, x, i, r, j + 1)
    BY <2>3, <2>5, <2>6, <2>8, <2>9 DEF RowTo, n
  <2> QED
    BY <2>2, <2>3, <2>10
<1>8. P = 0..m
  <2>1. P \in SUBSET (0..m)
    OBVIOUS
  <2> HIDE DEF P
  <2> QED
    BY <1>3, <1>6, <1>7, <2>1, UpTo
<1>9. m \in P
  <2> HIDE DEF P
  <2> QED
    BY <1>3, <1>8
<1>10. f + m = i
  BY <1>3
<1> QED
  BY <1>2, <1>9, <1>10

\* A turn of the loop of the product gives a vector: the row so far, and the diagonal.
LEMMA LineTyped ==
  ASSUME NEW M, Mat(M), NEW x \in Vec(M), NEW i \in 0..(M.size - 1), NEW r \in Vec(M)
  PROVE  /\ ProductLine(M, x, r, i) \in Vec(M)
         /\ ProductLine(M, x, r, i) = [RowTo(M, x, i, r, i) EXCEPT ![i] = r[i] + Tot(Line(M, x, i), i) + Entry(M, i, i) * x[i]]
<1>1. i \in 0..M.size /\ i \in Nat /\ M.size \in Nat /\ First(M, i) \in 0..i
  BY SizeIs, Cells
<1>2. Coef(M, i, i) \in Int /\ Coef(M, i, i) = Entry(M, i, i)
  <2>1. i \in First(M, i)..i
    BY <1>1
  <2> QED
    BY <1>1, <2>1, Cells DEF Entry
<1>3. x[i] \in Int /\ r[i] \in Int /\ \A q \in 0..(M.size - 1) : r[q] \in Int
  BY DEF Vec
<1>4. Tot(Line(M, x, i), i) \in Int
  BY <1>1, LineInts
<1>5. \A q \in 0..(M.size - 1) : Entry(M, i, q) * x[i] \in Int
  BY <1>3, EntryInt, TimesInt
<1>6. RowTo(M, x, i, r, i) \in Vec(M) /\ RowTo(M, x, i, r, i)[i] = r[i] + Tot(Line(M, x, i), i)
  BY <1>3, <1>4, <1>5 DEF RowTo, Vec
<1>7. x[i] * Coef(M, i, i) = Entry(M, i, i) * x[i]
  BY <1>2, <1>3, TimesInt
<1>8. ProductLine(M, x, r, i) = [RowTo(M, x, i, r, i) EXCEPT ![i] = @ + x[i] * Coef(M, i, i)]
  BY ProductRowIs DEF ProductLine
<1>9. ProductLine(M, x, r, i) = [RowTo(M, x, i, r, i) EXCEPT ![i] = r[i] + Tot(Line(M, x, i), i) + Entry(M, i, i) * x[i]]
  BY <1>6, <1>7, <1>8
<1>10. r[i] + Tot(Line(M, x, i), i) + Entry(M, i, i) * x[i] \in Int
  BY <1>3, <1>4, <1>5
<1> QED
  BY <1>6, <1>9, <1>10 DEF Vec

\* The loop of a product over the rows.
LEMMA ProductFolded ==
  ASSUME NEW M, Mat(M), NEW x \in Vec(M)
  PROVE  Folded(fem_matrix_vector(M, x), Vec(M), ProductStart(M, x), Up(M.size), ProductLines(M, x))
<1> DEFINE D == DOMAIN Up(M.size)
           Eq(it) == it = [u \in SUBSET D |-> IF u = {} THEN ProductStart(M, x) ELSE ProductLine(M, x, it[u \ {Max(u)}], Up(M.size)[Max(u)])]
           it == CHOOSE it : Eq(it)
<1>0. ProductStart(M, x) \in Vec(M) /\ Up(M.size) \in Seq(1..(M.size - 1)) /\ D = 1..Len(Up(M.size))
  <2>1. Up(M.size) \in Seq(1..(M.size - 1)) /\ D = 1..Len(Up(M.size))
    BY SizeIs, UpIs
  <2>2. 0 \in 0..(M.size - 1) /\ 0 \in First(M, 0)..0
    BY SizeIs DEF First
  <2>3. Coef(M, 0, 0) \in Int /\ x[0] \in Int
    BY <2>2, Cells DEF Vec
  <2>4. x[0] * Coef(M, 0, 0) \in Int
    BY <2>3, TimesInt
  <2>5. ProductStart(M, x) \in Vec(M)
    BY <2>2, <2>4 DEF ProductStart, Vec
  <2> QED
    BY <2>1, <2>5
<1>1. ProductLines(M, x) \in [Vec(M) \X (1..(M.size - 1)) -> Vec(M)]
  <2> SUFFICES ASSUME NEW a \in Vec(M), NEW i \in 1..(M.size - 1) PROVE ProductLine(M, x, a, i) \in Vec(M)
    BY DEF ProductLines
  <2>1. i \in 0..(M.size - 1)
    BY SizeIs
  <2> QED
    BY <2>1, LineTyped
<1>2. ASSUME NEW f, NEW u \in SUBSET D, u # {}, f[u \ {Max(u)}] \in Vec(M)
      PROVE  ProductLines(M, x)[<<f[u \ {Max(u)}], Up(M.size)[Max(u)]>>] = ProductLine(M, x, f[u \ {Max(u)}], Up(M.size)[Max(u)])
  <2>1. Up(M.size)[Max(u)] \in 1..(M.size - 1)
    BY <1>0, <1>2, MaxRank
  <2> QED
    BY <1>2, <2>1 DEF ProductLines
<1>3. PICK f \in [SUBSET D -> Vec(M)] : Folding(f, Vec(M), ProductStart(M, x), Up(M.size), ProductLines(M, x))
  BY <1>0, <1>1, FoldExists
<1>4. \A u \in SUBSET D : u \ {Max(u)} \in SUBSET D
  OBVIOUS
<1>5. Eq(f)
  <2>1. f[{}] = ProductStart(M, x)
    BY <1>3 DEF Folding
  <2>2. ASSUME NEW u \in SUBSET D, u # {} PROVE f[u] = ProductLine(M, x, f[u \ {Max(u)}], Up(M.size)[Max(u)])
    <3>1. f[u \ {Max(u)}] \in Vec(M)
      BY <1>4
    <3>2. f[u] = ProductLines(M, x)[<<f[u \ {Max(u)}], Up(M.size)[Max(u)]>>]
      BY <1>0, <1>3, <2>2, <3>1 DEF Folding
    <3> QED
      BY <1>2, <2>2, <3>1, <3>2
  <2>3. f = [u \in SUBSET D |-> f[u]]
    OBVIOUS
  <2> QED
    BY <2>1, <2>2, <2>3
<1>6. Eq(it)
  BY <1>5
<1>7. fem_matrix_vector(M, x) = it[D]
  BY DEF fem_matrix_vector, ProductLine, ProductRow, ProductCell, ProductStart, FoldLeft, MapThenFoldSet
<1> HIDE DEF it
<1>8. Folding(it, Vec(M), ProductStart(M, x), Up(M.size), ProductLines(M, x))
  BY <1>0, <1>2, <1>6 DEF Folding
<1>9. Folded(it[1..Len(Up(M.size))], Vec(M), ProductStart(M, x), Up(M.size), ProductLines(M, x))
  BY <1>0, <1>1, <1>8, FoldIs
<1> QED
  BY <1>0, <1>7, <1>9

\* What the first c rows and columns of the full matrix make of x.
Below(M, x, c) == [q \in 0..(M.size - 1) |-> IF q < c THEN Tot(Line(M, x, q), c) ELSE 0]

\* What the full matrix makes of x.
Image(M, x) == [q \in 0..(M.size - 1) |-> Tot(Line(M, x, q), M.size)]

\* The product in the profile is that of the full matrix.
LEMMA ProductIs ==
  ASSUME NEW M, Mat(M), NEW x \in Vec(M)
  PROVE  fem_matrix_vector(M, x) = Image(M, x)
<1> DEFINE n == M.size
           s == Up(n)
           m == Len(s)
<1>1. n \in Nat /\ n # 0 /\ m = n - 1 /\ m \in Nat /\ \A k \in 1..m : s[k] = k
  <2>1. n \in Nat /\ n # 0
    BY SizeIs
  <2> HIDE DEF n
  <2>2. Len(Up(n)) = n - 1 /\ \A k \in 1..(n - 1) : Up(n)[k] = k
    BY <2>1, UpIs
  <2> QED
    BY <2>1, <2>2
<1>2. PICK h \in [0..m -> Vec(M)] :
        /\ h[0] = ProductStart(M, x) /\ fem_matrix_vector(M, x) = h[m]
        /\ \A k \in 1..m : h[k] = ProductLines(M, x)[<<h[k - 1], s[k]>>]
  BY ProductFolded DEF Folded
<1> HIDE DEF s, m, n
<1> DEFINE P == {k \in 0..m : h[k] = Below(M, x, k + 1)}
<1>3. 0 \in P
  <2>1. 0 \in 0..(n - 1) /\ 0 \in First(M, 0)..0 /\ DOMAIN x = 0..(n - 1)
    BY <1>1 DEF First, Vec, n
  <2>2. Coef(M, 0, 0) \in Int /\ x[0] \in Int /\ Coef(M, 0, 0) = Entry(M, 0, 0)
    BY <2>1, Cells DEF Vec, Entry, n
  <2>3. Tot(Line(M, x, 0), 0 + 1) = Entry(M, 0, 0) * x[0]
    <3>1. Tot(Line(M, x, 0), 0 + 1) = 0 + Entry(M, 0, 0) * x[0]
      <4>1. 0 \in 0..(M.size - 1)
        BY <2>1 DEF n
      <4>2. Tot(Line(M, x, 0), 0 + 1) = Tot(Line(M, x, 0), 0) + Entry(M, 0, 0) * x[0]
        BY <4>1, LineInts
      <4>3. Tot(Line(M, x, 0), 0) = 0
        BY <4>1, LineInts
      <4> QED
        BY <4>2, <4>3
    <3>2. Entry(M, 0, 0) * x[0] \in Int
      BY <2>2, TimesInt
    <3> QED
      BY <3>1, <3>2
  <2>4. x[0] * Coef(M, 0, 0) = Tot(Line(M, x, 0), 0 + 1)
    BY <2>2, <2>3, TimesInt
  <2>5. \A q \in 0..(n - 1) : q < 0 + 1 <=> q = 0
    BY <1>1
  <2>6. ProductStart(M, x) = Below(M, x, 0 + 1)
    BY <2>1, <2>4, <2>5 DEF ProductStart, Below, n
  <2> QED
    BY <1>1, <1>2, <2>6
<1>4. ASSUME NEW k \in 1..m, k - 1 \in P PROVE k \in P
  <2> DEFINE a == h[k - 1]
  <2>1. a = Below(M, x, k) /\ a \in Vec(M) /\ k \in 1..(n - 1) /\ k \in 0..(n - 1) /\ k - 1 \in 0..m /\ k \in Nat
    BY <1>1, <1>2, <1>4
  <2>2. h[k] = ProductLine(M, x, a, k)
    <3>1. h[k] = ProductLines(M, x)[<<a, k>>]
      BY <1>1, <1>2
    <3> QED
      BY <2>1, <3>1 DEF ProductLines, n
  <2> HIDE DEF a
  <2>3. h[k] = [RowTo(M, x, k, a, k) EXCEPT ![k] = a[k] + Tot(Line(M, x, k), k) + Entry(M, k, k) * x[k]]
    BY <2>1, <2>2, LineTyped DEF n
  <2>4. a[k] + Tot(Line(M, x, k), k) + Entry(M, k, k) * x[k] = Tot(Line(M, x, k), k + 1)
    <3>1. a[k] = 0
      BY <2>1 DEF Below, n
    <3>2. Tot(Line(M, x, k), k) \in Int /\ Tot(Line(M, x, k), k + 1) = Tot(Line(M, x, k), k) + Entry(M, k, k) * x[k]
      <4>1. k \in 0..n
        BY <1>1, <2>1
      <4> QED
        BY <2>1, <4>1, LineInts DEF n
    <3> QED
      BY <3>1, <3>2
  <2>5. ASSUME NEW q \in 0..(n - 1), q # k
        PROVE  RowTo(M, x, k, a, k)[q] = IF q < k + 1 THEN Tot(Line(M, x, q), k + 1) ELSE 0
    <3>1. RowTo(M, x, k, a, k)[q] = IF q < k THEN a[q] + Entry(M, k, q) * x[k] ELSE a[q]
      BY <2>5 DEF RowTo, n
    <3>2. (q < k + 1 <=> q < k) /\ a[q] = IF q < k THEN Tot(Line(M, x, q), k) ELSE 0
      BY <1>1, <2>1, <2>5 DEF Below, n
    <3>3. Tot(Line(M, x, q), k + 1) = Tot(Line(M, x, q), k) + Entry(M, q, k) * x[k]
      BY <2>1, LineInts DEF n
    <3>4. Entry(M, q, k) = Entry(M, k, q)
      BY <2>1, EntryInt DEF n
    <3> QED
      BY <3>1, <3>2, <3>3, <3>4
  <2>6. h[k] = Below(M, x, k + 1)
    <3>1. DOMAIN RowTo(M, x, k, a, k) = 0..(n - 1)
      BY DEF RowTo, n
    <3>2. h[k] = [q \in 0..(n - 1) |-> IF q = k THEN Tot(Line(M, x, k), k + 1) ELSE RowTo(M, x, k, a, k)[q]]
      BY <2>3, <2>4, <3>1
    <3>3. k < k + 1
      BY <2>1
    <3> QED
      BY <2>5, <3>2, <3>3 DEF Below, n
  <2> QED
    BY <2>1, <2>6
<1>5. P = 0..m
  <2>1. P \in SUBSET (0..m)
    OBVIOUS
  <2> HIDE DEF P
  <2> QED
    BY <1>1, <1>3, <1>4, <2>1, UpTo
<1>6. m \in P
  <2> HIDE DEF P
  <2> QED
    BY <1>1, <1>5
<1>7. m + 1 = n /\ \A q \in 0..(n - 1) : q < n
  BY <1>1
<1>8. h[m] = Below(M, x, n)
  BY <1>6, <1>7
<1> QED
  BY <1>2, <1>7, <1>8 DEF Below, Image, n

\* Full gives the entries of the matrix.
LEMMA FullIs ==
  ASSUME NEW M, Mat(M), NEW i \in 0..(M.size - 1), NEW j \in 0..(M.size - 1)
  PROVE  Full(M)[i][j] = Entry(M, i, j)
<1>1. i \in Nat /\ j \in Nat
  BY SizeIs
<1>2. i + j - i = j /\ i + j - j = i
  BY <1>1
<1>3. (i < j => ~ (j <= i)) /\ (~ (i < j) => j <= i)
  BY <1>1
<1> QED
  BY <1>1, <1>2, <1>3 DEF Full, Entry

\* The product of a vector with the values F gives, a row after the other.
RowTimes(F, x, n, i) == [j \in 0..(n - 1) |-> F[i][j] * x[j]]

\* The reference product, row by row, is a sum as defined here.
LEMMA TimesIs ==
  ASSUME NEW n \in Nat, NEW x \in [0..(n - 1) -> Int], NEW F,
         \A i, j \in 0..(n - 1) : F[i][j] \in Int
  PROVE  Times(F, x) = [i \in 0..(n - 1) |-> Tot(RowTimes(F, x, n, i), n)]
<1> DEFINE D == 0..(n - 1)
<1>1. ASSUME NEW i \in D
      PROVE  MapThenSumSet(LAMBDA j : F[i][j] * x[j], DOMAIN x) = Tot(RowTimes(F, x, n, i), n)
  <2> DEFINE g == RowTimes(F, x, n, i)
             B == DOMAIN x
             Eq(it) == it = [s \in SUBSET B |-> IF s = {} THEN 0 ELSE
                               F[i][CHOOSE y \in s : TRUE] * x[CHOOSE y \in s : TRUE] + it[s \ {CHOOSE y \in s : TRUE}]]
             it == CHOOSE it : Eq(it)
  <2>1. B = D
    OBVIOUS
  <2>2. Ints(g, n)
    <3>1. \A j \in D : F[i][j] \in Int /\ x[j] \in Int
      OBVIOUS
    <3>2. \A j \in D : F[i][j] * x[j] \in Int
      BY <3>1, TimesInt
    <3> QED
      BY <3>2 DEF Ints, RowTimes
  <2>3. \A j \in D : g[j] = F[i][j] * x[j]
    BY DEF RowTimes
  <2> HIDE DEF g, B
  <2>4. PICK f \in [SUBSET D -> Int] : Summing(f, n, g)
    BY <2>2, SummingExists
  <2>5. \A s \in SUBSET D : s # {} => (CHOOSE y \in s : TRUE) \in D
    OBVIOUS
  <2>6. Eq(f)
    <3>1. f[{}] = 0
      BY <2>4 DEF Summing
    <3>2. ASSUME NEW s \in SUBSET D, s # {}
          PROVE  f[s] = F[i][CHOOSE y \in s : TRUE] * x[CHOOSE y \in s : TRUE] + f[s \ {CHOOSE y \in s : TRUE}]
      <4>1. f[s] = g[CHOOSE y \in s : TRUE] + f[s \ {CHOOSE y \in s : TRUE}]
        BY <2>4, <3>2 DEF Summing
      <4>2. (CHOOSE y \in s : TRUE) \in D
        BY <2>5, <3>2
      <4>3. g[CHOOSE y \in s : TRUE] = F[i][CHOOSE y \in s : TRUE] * x[CHOOSE y \in s : TRUE]
        BY <2>3, <4>2
      <4> QED
        BY <4>1, <4>3
    <3>3. \A s \in SUBSET B : f[s] = IF s = {} THEN 0 ELSE
             F[i][CHOOSE y \in s : TRUE] * x[CHOOSE y \in s : TRUE] + f[s \ {CHOOSE y \in s : TRUE}]
      BY <2>1, <3>1, <3>2
    <3>4. f = [s \in SUBSET B |-> f[s]]
      BY <2>1
    <3> QED
      BY <3>3, <3>4
  <2>7. Eq(it)
    BY <2>6
  <2>8. MapThenSumSet(LAMBDA j : F[i][j] * x[j], DOMAIN x) = it[B]
    BY DEF MapThenSumSet, MapThenFoldSet, B
  <2> HIDE DEF it
  <2>9. Summing(it, n, g)
    <3>1. \A s \in SUBSET D : it[s] = IF s = {} THEN 0 ELSE
             F[i][CHOOSE y \in s : TRUE] * x[CHOOSE y \in s : TRUE] + it[s \ {CHOOSE y \in s : TRUE}]
      BY <2>1, <2>7
    <3>2. \A s \in SUBSET D : s # {} =>
             F[i][CHOOSE y \in s : TRUE] * x[CHOOSE y \in s : TRUE] = g[CHOOSE y \in s : TRUE]
      BY <2>3, <2>5
    <3> QED
      BY <3>1, <3>2 DEF Summing
  <2>10. it[0..(n - 1)] = Tot(g, n)
    BY <2>2, <2>9, SummingIs
  <2> QED
    BY <2>1, <2>8, <2>10 DEF g
<1>2. DOMAIN x = D
  OBVIOUS
<1>3. Times(F, x) = [i \in D |-> MapThenSumSet(LAMBDA j : F[i][j] * x[j], DOMAIN x)]
  BY <1>2 DEF Times
<1> QED
  BY <1>1, <1>3

\* The reference product of the full matrix is Image.
LEMMA ImageIs ==
  ASSUME NEW M, Mat(M), NEW x \in Vec(M)
  PROVE  Times(Full(M), x) = Image(M, x)
<1> DEFINE n == M.size
           F == Full(M)
<1>1. n \in Nat
  BY SizeIs
<1>2. \A i, j \in 0..(n - 1) : F[i][j] = Entry(M, i, j) /\ F[i][j] \in Int
  BY FullIs, EntryInt
<1>3. x \in [0..(n - 1) -> Int]
  BY DEF Vec
<1>4. \A i \in 0..(n - 1) : RowTimes(F, x, n, i) = Line(M, x, i)
  BY <1>2 DEF RowTimes, Line
<1> HIDE DEF n, F
<1>5. Times(F, x) = [i \in 0..(n - 1) |-> Tot(RowTimes(F, x, n, i), n)]
  BY <1>1, <1>2, <1>3, TimesIs
<1>6. Times(F, x) = [i \in 0..(n - 1) |-> Tot(Line(M, x, i), n)]
  BY <1>4, <1>5
<1> QED
  BY <1>6 DEF Image, n, F

-----------------------------------------------------------------------------
(* The loops of L D transpose(L) over a row *)

\* A turn of each of the four loops over a row, and the loop.
TransposeCell(M, x, i, r, j) == [r EXCEPT ![j] = @ + Coef(M, i, j) * x[i]]

Transposed(M, x, b, i) == FoldLeft(LAMBDA r, j : TransposeCell(M, x, i, r, j), b, Row(M, i))

LowerCell(M, i, r, j) == [r EXCEPT ![i] = @ + Coef(M, i, j) * r[j]]

Lowered(M, b, i) == FoldLeft(LAMBDA r, j : LowerCell(M, i, r, j), b, Row(M, i))

InvertCell(M, b, i, s, j) == s + Coef(M, i, j) * b[j]

InvertSum(M, b, i) == FoldLeft(LAMBDA s, j : InvertCell(M, b, i, s, j), 0, Row(M, i))

BackCell(M, b, i, r, j) == [r EXCEPT ![j] = @ - Coef(M, i, j) * b[i]]

Backed(M, b, i) == FoldLeft(LAMBDA r, j : BackCell(M, b, i, r, j), b, Row(M, i))

\* The columns of the profile before the diagonal.
Before(M, i) == First(M, i)..(i - 1)

\* The turns as functions, for the induction over the loop.
TransposeCells(M, x, i) == [p \in Vec(M) \X Before(M, i) |-> TransposeCell(M, x, i, p[1], p[2])]

LowerCells(M, i) == [p \in Vec(M) \X Before(M, i) |-> LowerCell(M, i, p[1], p[2])]

InvertCells(M, b, i) == [p \in Int \X Before(M, i) |-> InvertCell(M, b, i, p[1], p[2])]

BackCells(M, b, i) == [p \in Vec(M) \X Before(M, i) |-> BackCell(M, b, i, p[1], p[2])]

\* What a loop over a row of the profile handles are integers.
LEMMA ScatterTyped ==
  ASSUME NEW M, Mat(M), NEW i \in 0..(M.size - 1), NEW j \in Before(M, i), NEW a \in Vec(M), NEW b \in Vec(M)
  PROVE  /\ j \in 0..(M.size - 1) /\ j # i /\ j < i /\ Coef(M, i, j) = Entry(M, i, j) /\ Entry(M, i, j) \in Int
         /\ a[j] \in Int /\ a[i] \in Int /\ Entry(M, i, j) * b[i] \in Int /\ Entry(M, i, j) * b[j] \in Int
<1>1. j \in 0..(M.size - 1) /\ j # i /\ j < i /\ Coef(M, i, j) = Entry(M, i, j) /\ Entry(M, i, j) \in Int
  BY CellTyped DEF Before
<1>2. a[j] \in Int /\ a[i] \in Int /\ b[i] \in Int /\ b[j] \in Int
  BY <1>1 DEF Vec
<1>3. Entry(M, i, j) * b[i] \in Int /\ Entry(M, i, j) * b[j] \in Int
  BY <1>1, <1>2, TimesInt
<1> QED
  BY <1>1, <1>2, <1>3

\* The loop of a row of transpose(L).
LEMMA TransposeRowFolded ==
  ASSUME NEW M, Mat(M), NEW x \in Vec(M), NEW i \in 0..(M.size - 1), NEW b \in Vec(M)
  PROVE  Folded(Transposed(M, x, b, i), Vec(M), b, Row(M, i), TransposeCells(M, x, i))
<1> DEFINE D == DOMAIN Row(M, i)
           Eq(it) == it = [u \in SUBSET D |-> IF u = {} THEN b ELSE TransposeCell(M, x, i, it[u \ {Max(u)}], Row(M, i)[Max(u)])]
           it == CHOOSE it : Eq(it)
<1>0. b \in Vec(M) /\ Row(M, i) \in Seq(Before(M, i)) /\ D = 1..Len(Row(M, i))
  BY RowIs DEF Before
<1>1. TransposeCells(M, x, i) \in [Vec(M) \X (Before(M, i)) -> Vec(M)]
  <2> SUFFICES ASSUME NEW a \in Vec(M), NEW j \in Before(M, i) PROVE TransposeCell(M, x, i, a, j) \in Vec(M)
    BY DEF TransposeCells
  <2>1. j \in 0..(M.size - 1) /\ Coef(M, i, j) * x[i] \in Int /\ a[j] \in Int
    BY ScatterTyped
  <2>2. a[j] + Coef(M, i, j) * x[i] \in Int
    BY <2>1
  <2> QED
    BY <2>1, <2>2 DEF TransposeCell, Vec
<1>2. ASSUME NEW f, NEW u \in SUBSET D, u # {}, f[u \ {Max(u)}] \in Vec(M)
      PROVE  TransposeCells(M, x, i)[<<f[u \ {Max(u)}], Row(M, i)[Max(u)]>>] = TransposeCell(M, x, i, f[u \ {Max(u)}], Row(M, i)[Max(u)])
  <2>1. Row(M, i)[Max(u)] \in Before(M, i)
    BY <1>0, <1>2, MaxRank
  <2> QED
    BY <1>2, <2>1 DEF TransposeCells
<1>3. PICK f \in [SUBSET D -> Vec(M)] : Folding(f, Vec(M), b, Row(M, i), TransposeCells(M, x, i))
  BY <1>0, <1>1, FoldExists
<1>4. \A u \in SUBSET D : u \ {Max(u)} \in SUBSET D
  OBVIOUS
<1>5. Eq(f)
  <2>1. f[{}] = b
    BY <1>3 DEF Folding
  <2>2. ASSUME NEW u \in SUBSET D, u # {} PROVE f[u] = TransposeCell(M, x, i, f[u \ {Max(u)}], Row(M, i)[Max(u)])
    <3>1. f[u \ {Max(u)}] \in Vec(M)
      BY <1>4
    <3>2. f[u] = TransposeCells(M, x, i)[<<f[u \ {Max(u)}], Row(M, i)[Max(u)]>>]
      BY <1>0, <1>3, <2>2, <3>1 DEF Folding
    <3> QED
      BY <1>2, <2>2, <3>1, <3>2
  <2>3. f = [u \in SUBSET D |-> f[u]]
    OBVIOUS
  <2> QED
    BY <2>1, <2>2, <2>3
<1>6. Eq(it)
  BY <1>5
<1>7. Transposed(M, x, b, i) = it[D]
  BY DEF Transposed, TransposeCell, FoldLeft, MapThenFoldSet
<1> HIDE DEF it
<1>8. Folding(it, Vec(M), b, Row(M, i), TransposeCells(M, x, i))
  BY <1>0, <1>2, <1>6 DEF Folding
<1>9. Folded(it[1..Len(Row(M, i))], Vec(M), b, Row(M, i), TransposeCells(M, x, i))
  BY <1>0, <1>1, <1>8, FoldIs
<1> QED
  BY <1>0, <1>7, <1>9

\* The loop of a row of L.
LEMMA LowerRowFolded ==
  ASSUME NEW M, Mat(M), NEW i \in 0..(M.size - 1), NEW b \in Vec(M)
  PROVE  Folded(Lowered(M, b, i), Vec(M), b, Row(M, i), LowerCells(M, i))
<1> DEFINE D == DOMAIN Row(M, i)
           Eq(it) == it = [u \in SUBSET D |-> IF u = {} THEN b ELSE LowerCell(M, i, it[u \ {Max(u)}], Row(M, i)[Max(u)])]
           it == CHOOSE it : Eq(it)
<1>0. b \in Vec(M) /\ Row(M, i) \in Seq(Before(M, i)) /\ D = 1..Len(Row(M, i))
  BY RowIs DEF Before
<1>1. LowerCells(M, i) \in [Vec(M) \X (Before(M, i)) -> Vec(M)]
  <2> SUFFICES ASSUME NEW a \in Vec(M), NEW j \in Before(M, i) PROVE LowerCell(M, i, a, j) \in Vec(M)
    BY DEF LowerCells
  <2>1. j \in 0..(M.size - 1) /\ Coef(M, i, j) * a[j] \in Int /\ a[i] \in Int
    BY ScatterTyped
  <2>2. a[i] + Coef(M, i, j) * a[j] \in Int
    BY <2>1
  <2> QED
    BY <2>1, <2>2 DEF LowerCell, Vec
<1>2. ASSUME NEW f, NEW u \in SUBSET D, u # {}, f[u \ {Max(u)}] \in Vec(M)
      PROVE  LowerCells(M, i)[<<f[u \ {Max(u)}], Row(M, i)[Max(u)]>>] = LowerCell(M, i, f[u \ {Max(u)}], Row(M, i)[Max(u)])
  <2>1. Row(M, i)[Max(u)] \in Before(M, i)
    BY <1>0, <1>2, MaxRank
  <2> QED
    BY <1>2, <2>1 DEF LowerCells
<1>3. PICK f \in [SUBSET D -> Vec(M)] : Folding(f, Vec(M), b, Row(M, i), LowerCells(M, i))
  BY <1>0, <1>1, FoldExists
<1>4. \A u \in SUBSET D : u \ {Max(u)} \in SUBSET D
  OBVIOUS
<1>5. Eq(f)
  <2>1. f[{}] = b
    BY <1>3 DEF Folding
  <2>2. ASSUME NEW u \in SUBSET D, u # {} PROVE f[u] = LowerCell(M, i, f[u \ {Max(u)}], Row(M, i)[Max(u)])
    <3>1. f[u \ {Max(u)}] \in Vec(M)
      BY <1>4
    <3>2. f[u] = LowerCells(M, i)[<<f[u \ {Max(u)}], Row(M, i)[Max(u)]>>]
      BY <1>0, <1>3, <2>2, <3>1 DEF Folding
    <3> QED
      BY <1>2, <2>2, <3>1, <3>2
  <2>3. f = [u \in SUBSET D |-> f[u]]
    OBVIOUS
  <2> QED
    BY <2>1, <2>2, <2>3
<1>6. Eq(it)
  BY <1>5
<1>7. Lowered(M, b, i) = it[D]
  BY DEF Lowered, LowerCell, FoldLeft, MapThenFoldSet
<1> HIDE DEF it
<1>8. Folding(it, Vec(M), b, Row(M, i), LowerCells(M, i))
  BY <1>0, <1>2, <1>6 DEF Folding
<1>9. Folded(it[1..Len(Row(M, i))], Vec(M), b, Row(M, i), LowerCells(M, i))
  BY <1>0, <1>1, <1>8, FoldIs
<1> QED
  BY <1>0, <1>7, <1>9

\* The sum a row of the resolution takes away.
LEMMA InvertRowFolded ==
  ASSUME NEW M, Mat(M), NEW i \in 0..(M.size - 1), NEW b \in Vec(M)
  PROVE  Folded(InvertSum(M, b, i), Int, 0, Row(M, i), InvertCells(M, b, i))
<1> DEFINE D == DOMAIN Row(M, i)
           Eq(it) == it = [u \in SUBSET D |-> IF u = {} THEN 0 ELSE InvertCell(M, b, i, it[u \ {Max(u)}], Row(M, i)[Max(u)])]
           it == CHOOSE it : Eq(it)
<1>0. 0 \in Int /\ Row(M, i) \in Seq(Before(M, i)) /\ D = 1..Len(Row(M, i))
  BY RowIs DEF Before
<1>1. InvertCells(M, b, i) \in [Int \X (Before(M, i)) -> Int]
  <2> SUFFICES ASSUME NEW a \in Int, NEW j \in Before(M, i) PROVE InvertCell(M, b, i, a, j) \in Int
    BY DEF InvertCells
  <2>1. Coef(M, i, j) * b[j] \in Int
    BY ScatterTyped
  <2> QED
    BY <2>1 DEF InvertCell
<1>2. ASSUME NEW f, NEW u \in SUBSET D, u # {}, f[u \ {Max(u)}] \in Int
      PROVE  InvertCells(M, b, i)[<<f[u \ {Max(u)}], Row(M, i)[Max(u)]>>] = InvertCell(M, b, i, f[u \ {Max(u)}], Row(M, i)[Max(u)])
  <2>1. Row(M, i)[Max(u)] \in Before(M, i)
    BY <1>0, <1>2, MaxRank
  <2> QED
    BY <1>2, <2>1 DEF InvertCells
<1>3. PICK f \in [SUBSET D -> Int] : Folding(f, Int, 0, Row(M, i), InvertCells(M, b, i))
  BY <1>0, <1>1, FoldExists
<1>4. \A u \in SUBSET D : u \ {Max(u)} \in SUBSET D
  OBVIOUS
<1>5. Eq(f)
  <2>1. f[{}] = 0
    BY <1>3 DEF Folding
  <2>2. ASSUME NEW u \in SUBSET D, u # {} PROVE f[u] = InvertCell(M, b, i, f[u \ {Max(u)}], Row(M, i)[Max(u)])
    <3>1. f[u \ {Max(u)}] \in Int
      BY <1>4
    <3>2. f[u] = InvertCells(M, b, i)[<<f[u \ {Max(u)}], Row(M, i)[Max(u)]>>]
      BY <1>0, <1>3, <2>2, <3>1 DEF Folding
    <3> QED
      BY <1>2, <2>2, <3>1, <3>2
  <2>3. f = [u \in SUBSET D |-> f[u]]
    OBVIOUS
  <2> QED
    BY <2>1, <2>2, <2>3
<1>6. Eq(it)
  BY <1>5
<1>7. InvertSum(M, b, i) = it[D]
  BY DEF InvertSum, InvertCell, FoldLeft, MapThenFoldSet
<1> HIDE DEF it
<1>8. Folding(it, Int, 0, Row(M, i), InvertCells(M, b, i))
  BY <1>0, <1>2, <1>6 DEF Folding
<1>9. Folded(it[1..Len(Row(M, i))], Int, 0, Row(M, i), InvertCells(M, b, i))
  BY <1>0, <1>1, <1>8, FoldIs
<1> QED
  BY <1>0, <1>7, <1>9

\* The loop of the resolution over a row of transpose(L).
LEMMA BackRowFolded ==
  ASSUME NEW M, Mat(M), NEW i \in 0..(M.size - 1), NEW b \in Vec(M)
  PROVE  Folded(Backed(M, b, i), Vec(M), b, Row(M, i), BackCells(M, b, i))
<1> DEFINE D == DOMAIN Row(M, i)
           Eq(it) == it = [u \in SUBSET D |-> IF u = {} THEN b ELSE BackCell(M, b, i, it[u \ {Max(u)}], Row(M, i)[Max(u)])]
           it == CHOOSE it : Eq(it)
<1>0. b \in Vec(M) /\ Row(M, i) \in Seq(Before(M, i)) /\ D = 1..Len(Row(M, i))
  BY RowIs DEF Before
<1>1. BackCells(M, b, i) \in [Vec(M) \X (Before(M, i)) -> Vec(M)]
  <2> SUFFICES ASSUME NEW a \in Vec(M), NEW j \in Before(M, i) PROVE BackCell(M, b, i, a, j) \in Vec(M)
    BY DEF BackCells
  <2>1. j \in 0..(M.size - 1) /\ Coef(M, i, j) * b[i] \in Int /\ a[j] \in Int
    BY ScatterTyped
  <2>2. a[j] - Coef(M, i, j) * b[i] \in Int
    BY <2>1
  <2> QED
    BY <2>1, <2>2 DEF BackCell, Vec
<1>2. ASSUME NEW f, NEW u \in SUBSET D, u # {}, f[u \ {Max(u)}] \in Vec(M)
      PROVE  BackCells(M, b, i)[<<f[u \ {Max(u)}], Row(M, i)[Max(u)]>>] = BackCell(M, b, i, f[u \ {Max(u)}], Row(M, i)[Max(u)])
  <2>1. Row(M, i)[Max(u)] \in Before(M, i)
    BY <1>0, <1>2, MaxRank
  <2> QED
    BY <1>2, <2>1 DEF BackCells
<1>3. PICK f \in [SUBSET D -> Vec(M)] : Folding(f, Vec(M), b, Row(M, i), BackCells(M, b, i))
  BY <1>0, <1>1, FoldExists
<1>4. \A u \in SUBSET D : u \ {Max(u)} \in SUBSET D
  OBVIOUS
<1>5. Eq(f)
  <2>1. f[{}] = b
    BY <1>3 DEF Folding
  <2>2. ASSUME NEW u \in SUBSET D, u # {} PROVE f[u] = BackCell(M, b, i, f[u \ {Max(u)}], Row(M, i)[Max(u)])
    <3>1. f[u \ {Max(u)}] \in Vec(M)
      BY <1>4
    <3>2. f[u] = BackCells(M, b, i)[<<f[u \ {Max(u)}], Row(M, i)[Max(u)]>>]
      BY <1>0, <1>3, <2>2, <3>1 DEF Folding
    <3> QED
      BY <1>2, <2>2, <3>1, <3>2
  <2>3. f = [u \in SUBSET D |-> f[u]]
    OBVIOUS
  <2> QED
    BY <2>1, <2>2, <2>3
<1>6. Eq(it)
  BY <1>5
<1>7. Backed(M, b, i) = it[D]
  BY DEF Backed, BackCell, FoldLeft, MapThenFoldSet
<1> HIDE DEF it
<1>8. Folding(it, Vec(M), b, Row(M, i), BackCells(M, b, i))
  BY <1>0, <1>2, <1>6 DEF Folding
<1>9. Folded(it[1..Len(Row(M, i))], Vec(M), b, Row(M, i), BackCells(M, b, i))
  BY <1>0, <1>1, <1>8, FoldIs
<1> QED
  BY <1>0, <1>7, <1>9

\* G adds e to the places of the row.
Scatters(M, i, G, e) ==
  \A a \in Vec(M), j \in Before(M, i) : e[j] \in Int /\ G[<<a, j>>] = [a EXCEPT ![j] = a[j] + e[j]]

\* A vector with e added to its first values.
ScatterTo(M, r, e, c) == [q \in 0..(M.size - 1) |-> IF q < c THEN r[q] + e[q] ELSE r[q]]

\* The ranks of a row and its columns.
LEMMA Columns ==
  ASSUME NEW M, Mat(M), NEW i \in 0..(M.size - 1)
  PROVE  /\ Len(Row(M, i)) = i - First(M, i) /\ First(M, i) \in 0..i /\ i \in Nat /\ M.size \in Nat
         /\ i <= M.size - 1 /\ Len(Row(M, i)) \in Nat
         /\ \A k \in 1..Len(Row(M, i)) : Row(M, i)[k] = First(M, i) + k - 1 /\ First(M, i) + k - 1 \in Before(M, i)
<1>1. Len(Row(M, i)) = i - First(M, i) /\ First(M, i) \in 0..i /\ i \in Nat /\ M.size \in Nat
  BY RowIs, Cells, SizeIs
<1>2. \A k \in 1..(i - First(M, i)) : First(M, i) + k - 1 \in First(M, i)..(i - 1)
  BY <1>1
<1> QED
  BY <1>1, <1>2, RowIs DEF Before

\* A fold that adds e to the columns of a row leaves the others alone.
LEMMA ScatterIs ==
  ASSUME NEW M, Mat(M), NEW i \in 0..(M.size - 1), NEW r \in Vec(M), NEW w, NEW G, NEW e,
         Folded(w, Vec(M), r, Row(M, i), G), Scatters(M, i, G, e), \A q \in 0..(First(M, i) - 1) : e[q] = 0
  PROVE  w = ScatterTo(M, r, e, i)
<1> DEFINE s == Row(M, i)
           f == First(M, i)
           m == Len(s)
           n == M.size
<1>2. PICK h \in [0..m -> Vec(M)] :
        /\ h[0] = r /\ w = h[m] /\ \A k \in 1..m : h[k] = G[<<h[k - 1], s[k]>>]
  BY DEF Folded
<1>3. m = i - f /\ f \in 0..i /\ i \in Nat /\ n \in Nat /\ i <= n - 1 /\ m \in Nat
  BY Columns
<1>4. \A k \in 1..m : s[k] = f + k - 1 /\ f + k - 1 \in Before(M, i)
  BY Columns
<1>5. r \in [0..(n - 1) -> Int] /\ Vec(M) = [0..(n - 1) -> Int]
  BY DEF Vec
<1>50. \A q \in 0..(f - 1) : e[q] = 0
  OBVIOUS
<1> HIDE DEF s, m, f, n
<1> DEFINE P == {k \in 0..m : h[k] = ScatterTo(M, r, e, f + k)}
<1>6. 0 \in P
  <2>1. \A q \in 0..(n - 1) : (IF q < f + 0 THEN r[q] + e[q] ELSE r[q]) = r[q]
    <3> SUFFICES ASSUME NEW q \in 0..(n - 1), q < f PROVE r[q] + e[q] = r[q]
      BY <1>3
    <3>1. q \in 0..(f - 1)
      BY <1>3
    <3>2. e[q] = 0 /\ r[q] \in Int
      BY <1>5, <1>50, <3>1
    <3> QED
      BY <3>2
  <2>2. ScatterTo(M, r, e, f + 0) = r
    BY <1>5, <2>1 DEF ScatterTo, n
  <2> QED
    BY <1>2, <1>3, <2>2
<1>7. ASSUME NEW k \in 1..m, k - 1 \in P PROVE k \in P
  <2> DEFINE a == h[k - 1]
             j == f + k - 1
  <2>1. a = ScatterTo(M, r, e, j) /\ a \in Vec(M) /\ s[k] = j /\ j \in Before(M, i) /\ k - 1 \in 0..m
    <3>1. k - 1 \in 0..m /\ f + (k - 1) = j
      BY <1>3
    <3> QED
      BY <1>2, <1>4, <1>7, <3>1
  <2>2. h[k] = G[<<a, j>>]
    BY <1>2, <2>1
  <2>3. j \in Nat /\ j < i /\ j \in 0..(n - 1) /\ f + k = j + 1
    BY <1>3, <2>1 DEF Before, f
  <2> HIDE DEF a, j
  <2>4. h[k] = [a EXCEPT ![j] = a[j] + e[j]]
    BY <2>1, <2>2 DEF Scatters
  <2>5. a = [q \in 0..(n - 1) |-> IF q < j THEN r[q] + e[q] ELSE r[q]]
    BY <2>1 DEF ScatterTo, n
  <2>6. a[j] = r[j]
    BY <2>3, <2>5
  <2>7. \A q \in 0..(n - 1) : q # j => (q < j + 1 <=> q < j)
    BY <1>3, <2>3
  <2>8. h[k] = [q \in 0..(n - 1) |-> IF q < j + 1 THEN r[q] + e[q] ELSE r[q]]
    <3>1. h[k] = [q \in 0..(n - 1) |-> IF q = j THEN r[j] + e[j] ELSE a[q]]
      BY <2>4, <2>5, <2>6
    <3>2. \A q \in 0..(n - 1) : q # j => a[q] = IF q < j + 1 THEN r[q] + e[q] ELSE r[q]
      BY <2>5, <2>7
    <3>3. j < j + 1
      BY <2>3
    <3> QED
      BY <3>1, <3>2, <3>3
  <2>9. h[k] = ScatterTo(M, r, e, j + 1)
    BY <2>8 DEF ScatterTo, n
  <2> QED
    BY <2>3, <2>9
<1>8. P = 0..m
  <2>1. P \in SUBSET (0..m)
    OBVIOUS
  <2> HIDE DEF P
  <2> QED
    BY <1>3, <1>6, <1>7, <2>1, UpTo
<1>9. m \in P
  <2> HIDE DEF P
  <2> QED
    BY <1>3, <1>8
<1>10. f + m = i
  BY <1>3
<1> QED
  BY <1>2, <1>9, <1>10

\* What a row gives to the places before it, c times.
Given(M, i, c) == [q \in 0..(M.size - 1) |-> Entry(M, i, q) * c]

\* What a row gives to the columns is an integer, none before the profile.
LEMMA GivenIs ==
  ASSUME NEW M, Mat(M), NEW i \in 0..(M.size - 1), NEW c \in Int
  PROVE  /\ \A q \in 0..(M.size - 1) : Given(M, i, c)[q] \in Int
         /\ \A q \in 0..(First(M, i) - 1) : Given(M, i, c)[q] = 0
<1>1. \A q \in 0..(M.size - 1) : Given(M, i, c)[q] \in Int
  <2> SUFFICES ASSUME NEW q \in 0..(M.size - 1) PROVE Entry(M, i, q) * c \in Int
    BY DEF Given
  <2>1. Entry(M, i, q) \in Int
    BY EntryInt
  <2> QED
    BY <2>1, TimesInt
<1>2. ASSUME NEW q \in 0..(First(M, i) - 1) PROVE Given(M, i, c)[q] = 0
  <2>1. q \in 0..(M.size - 1) /\ q <= i /\ q < First(M, i)
    BY Columns
  <2>2. Entry(M, i, q) = 0 /\ 0 * c = 0
    BY <2>1 DEF Entry
  <2> QED
    BY <2>1, <2>2 DEF Given
<1> QED
  BY <1>1, <1>2

\* A row of the transpose of L adds its multiples to the columns before it (matrix_ldlt_vector).
LEMMA TransposeRowIs ==
  ASSUME NEW M, Mat(M), NEW x \in Vec(M), NEW i \in 0..(M.size - 1), NEW b \in Vec(M)
  PROVE  Transposed(M, x, b, i) = ScatterTo(M, b, Given(M, i, x[i]), i)
<1>1. Folded(Transposed(M, x, b, i), Vec(M), b, Row(M, i), TransposeCells(M, x, i))
  BY TransposeRowFolded
<1>2. x[i] \in Int
  BY DEF Vec
<1>3. Scatters(M, i, TransposeCells(M, x, i), Given(M, i, x[i]))
  <2> SUFFICES ASSUME NEW a \in Vec(M), NEW j \in Before(M, i)
               PROVE  /\ Given(M, i, x[i])[j] \in Int
                      /\ TransposeCells(M, x, i)[<<a, j>>] = [a EXCEPT ![j] = a[j] + Given(M, i, x[i])[j]]
    BY DEF Scatters
  <2>1. j \in 0..(M.size - 1) /\ Coef(M, i, j) = Entry(M, i, j)
    BY ScatterTyped
  <2>2. Given(M, i, x[i])[j] = Coef(M, i, j) * x[i]
    BY <2>1 DEF Given
  <2>3. TransposeCells(M, x, i)[<<a, j>>] = [a EXCEPT ![j] = @ + Coef(M, i, j) * x[i]]
    BY DEF TransposeCells, TransposeCell
  <2>4. Given(M, i, x[i])[j] \in Int
    BY <1>2, <2>1, GivenIs
  <2> QED
    BY <2>2, <2>3, <2>4
<1>4. \A q \in 0..(First(M, i) - 1) : Given(M, i, x[i])[q] = 0
  BY <1>2, GivenIs
<1> QED
  BY <1>1, <1>3, <1>4, ScatterIs

\* The opposite of a product.
LEMMA NegInt == \A a, c \in Int : - (a * c) = a * (- c) /\ - c \in Int
  OBVIOUS

\* A row of the inverse of the transpose subtracts them (__fem_solver_invert).
LEMMA BackRowIs ==
  ASSUME NEW M, Mat(M), NEW i \in 0..(M.size - 1), NEW b \in Vec(M)
  PROVE  Backed(M, b, i) = ScatterTo(M, b, Given(M, i, - b[i]), i)
<1>1. Folded(Backed(M, b, i), Vec(M), b, Row(M, i), BackCells(M, b, i))
  BY BackRowFolded
<1>2. - b[i] \in Int /\ b[i] \in Int
  <2>1. b[i] \in Int
    BY DEF Vec
  <2> QED
    BY <2>1
<1>3. Scatters(M, i, BackCells(M, b, i), Given(M, i, - b[i]))
  <2> SUFFICES ASSUME NEW a \in Vec(M), NEW j \in Before(M, i)
               PROVE  /\ Given(M, i, - b[i])[j] \in Int
                      /\ BackCells(M, b, i)[<<a, j>>] = [a EXCEPT ![j] = a[j] + Given(M, i, - b[i])[j]]
    BY DEF Scatters
  <2>1. j \in 0..(M.size - 1) /\ Coef(M, i, j) = Entry(M, i, j) /\ Entry(M, i, j) \in Int /\ a[j] \in Int
    BY ScatterTyped
  <2>2. Given(M, i, - b[i])[j] = - (Coef(M, i, j) * b[i])
    <3>1. Given(M, i, - b[i])[j] = Entry(M, i, j) * (- b[i])
      BY <2>1 DEF Given
    <3>2. - (Entry(M, i, j) * b[i]) = Entry(M, i, j) * (- b[i])
      BY <1>2, <2>1, NegInt
    <3> QED
      BY <2>1, <3>1, <3>2
  <2>3. BackCells(M, b, i)[<<a, j>>] = [a EXCEPT ![j] = @ - Coef(M, i, j) * b[i]]
    BY DEF BackCells, BackCell
  <2>4. Given(M, i, - b[i])[j] \in Int /\ Coef(M, i, j) * b[i] \in Int
    BY <1>2, <2>1, GivenIs, TimesInt
  <2>5. a[j] - Coef(M, i, j) * b[i] = a[j] + Given(M, i, - b[i])[j]
    BY <2>1, <2>2, <2>4
  <2> QED
    BY <2>3, <2>4, <2>5
<1>4. \A q \in 0..(First(M, i) - 1) : Given(M, i, - b[i])[q] = 0
  BY <1>2, GivenIs
<1> QED
  BY <1>1, <1>3, <1>4, ScatterIs

\* The sum of a row up to a column more.
LEMMA RowStep ==
  ASSUME NEW M, Mat(M), NEW i \in 0..(M.size - 1), NEW b \in Vec(M), NEW j \in Before(M, i)
  PROVE  /\ Tot(Line(M, b, i), j + 1) = Tot(Line(M, b, i), j) + Coef(M, i, j) * b[j]
         /\ Tot(Line(M, b, i), j) \in Int /\ Coef(M, i, j) * b[j] \in Int
<1>1. j \in 0..(M.size - 1) /\ Coef(M, i, j) = Entry(M, i, j) /\ Entry(M, i, j) * b[j] \in Int
  BY ScatterTyped
<1>2. j \in 0..M.size
  <2>1. M.size \in Nat
    BY SizeIs
  <2> QED
    BY <1>1, <2>1
<1> QED
  BY <1>1, <1>2, LineInts

\* What a row of the inverse of L subtracts is the sum of the row.
LEMMA InvertRowIs ==
  ASSUME NEW M, Mat(M), NEW i \in 0..(M.size - 1), NEW b \in Vec(M)
  PROVE  InvertSum(M, b, i) = Tot(Line(M, b, i), i)
<1> DEFINE s == Row(M, i)
           f == First(M, i)
           m == Len(s)
           n == M.size
<1>2. PICK h \in [0..m -> Int] :
        /\ h[0] = 0 /\ InvertSum(M, b, i) = h[m]
        /\ \A k \in 1..m : h[k] = InvertCells(M, b, i)[<<h[k - 1], s[k]>>]
  BY InvertRowFolded DEF Folded
<1>3. m = i - f /\ f \in 0..i /\ i \in Nat /\ n \in Nat /\ i <= n - 1 /\ m \in Nat
  BY Columns
<1>4. \A k \in 1..m : s[k] = f + k - 1 /\ f + k - 1 \in Before(M, i)
  BY Columns
<1>5. Tot(Line(M, b, i), f) = 0
  BY LineInts
<1> HIDE DEF s, m, f, n
<1> DEFINE P == {k \in 0..m : h[k] = Tot(Line(M, b, i), f + k)}
<1>6. 0 \in P
  BY <1>2, <1>3, <1>5
<1>7. ASSUME NEW k \in 1..m, k - 1 \in P PROVE k \in P
  <2> DEFINE j == f + k - 1
  <2>1. h[k - 1] = Tot(Line(M, b, i), j) /\ h[k - 1] \in Int /\ s[k] = j /\ j \in Before(M, i) /\ f + k = j + 1
    <3>1. k - 1 \in 0..m /\ f + (k - 1) = j /\ f + k = j + 1
      BY <1>3
    <3>2. h[k - 1] = Tot(Line(M, b, i), f + (k - 1))
      BY <1>7
    <3>3. h[k - 1] = Tot(Line(M, b, i), j)
      BY <3>1, <3>2
    <3> QED
      BY <1>2, <1>4, <3>1, <3>3
  <2>2. h[k] = InvertCells(M, b, i)[<<h[k - 1], j>>]
    BY <1>2, <2>1
  <2> HIDE DEF j
  <2>3. h[k] = h[k - 1] + Coef(M, i, j) * b[j]
    BY <2>1, <2>2 DEF InvertCells, InvertCell
  <2>4. h[k] = Tot(Line(M, b, i), j + 1)
    BY <2>1, <2>3, RowStep
  <2> QED
    BY <2>1, <2>4
<1>8. P = 0..m
  <2>1. P \in SUBSET (0..m)
    OBVIOUS
  <2> HIDE DEF P
  <2> QED
    BY <1>3, <1>6, <1>7, <2>1, UpTo
<1>9. m \in P
  <2> HIDE DEF P
  <2> QED
    BY <1>3, <1>8
<1>10. f + m = i
  BY <1>3
<1> QED
  BY <1>2, <1>9, <1>10

\* A row of L adds the sum of the row, from values it has not changed.
LEMMA LowerRowIs ==
  ASSUME NEW M, Mat(M), NEW i \in 0..(M.size - 1), NEW b \in Vec(M)
  PROVE  Lowered(M, b, i) = [b EXCEPT ![i] = b[i] + Tot(Line(M, b, i), i)]
<1> DEFINE s == Row(M, i)
           f == First(M, i)
           m == Len(s)
           n == M.size
           T(c) == Tot(Line(M, b, i), c)
<1>2. PICK h \in [0..m -> Vec(M)] :
        /\ h[0] = b /\ Lowered(M, b, i) = h[m]
        /\ \A k \in 1..m : h[k] = LowerCells(M, i)[<<h[k - 1], s[k]>>]
  <2>1. Folded(Lowered(M, b, i), Vec(M), b, s, LowerCells(M, i))
    BY LowerRowFolded
  <2> QED
    BY <2>1 DEF Folded
<1>3. m = i - f /\ f \in 0..i /\ i \in Nat /\ n \in Nat /\ i <= n - 1 /\ m \in Nat
  BY Columns
<1>4. \A k \in 1..m : s[k] = f + k - 1 /\ f + k - 1 \in Before(M, i)
  BY Columns
<1>5. T(f) = 0
  BY LineInts
<1>50. b \in [0..(n - 1) -> Int] /\ b[i] \in Int
  BY DEF Vec
<1> HIDE DEF s, m, f, n
<1> DEFINE P == {k \in 0..m : h[k] = [b EXCEPT ![i] = b[i] + T(f + k)]}
<1>6. 0 \in P
  <2>1. b[i] + T(f + 0) = b[i]
    BY <1>3, <1>5, <1>50
  <2>2. [b EXCEPT ![i] = b[i] + T(f + 0)] = b
    BY <1>50, <2>1
  <2> QED
    BY <1>2, <1>3, <2>2
<1>7. ASSUME NEW k \in 1..m, k - 1 \in P PROVE k \in P
  <2> DEFINE j == f + k - 1
             a == h[k - 1]
  <2>1. a = [b EXCEPT ![i] = b[i] + T(j)] /\ a \in Vec(M) /\ s[k] = j /\ j \in Before(M, i) /\ f + k = j + 1
    <3>1. k - 1 \in 0..m /\ f + (k - 1) = j /\ f + k = j + 1
      BY <1>3
    <3>2. a = [b EXCEPT ![i] = b[i] + T(f + (k - 1))]
      BY <1>7
    <3>3. a = [b EXCEPT ![i] = b[i] + T(j)]
      BY <3>1, <3>2
    <3> QED
      BY <1>2, <1>4, <3>1, <3>3
  <2>2. h[k] = LowerCells(M, i)[<<a, j>>]
    BY <1>2, <2>1
  <2> HIDE DEF j, a
  <2>3. h[k] = [a EXCEPT ![i] = a[i] + Coef(M, i, j) * a[j]]
    BY <2>1, <2>2 DEF LowerCells, LowerCell
  <2>4. j \in 0..(n - 1) /\ j # i
    BY <2>1, ScatterTyped DEF n
  <2>5. a[j] = b[j] /\ a[i] = b[i] + T(j)
    BY <1>3, <1>50, <2>1, <2>4
  <2>6. T(j + 1) = T(j) + Coef(M, i, j) * b[j] /\ T(j) \in Int /\ Coef(M, i, j) * b[j] \in Int
    BY <2>1, RowStep
  <2>7. a[i] + Coef(M, i, j) * a[j] = b[i] + T(j + 1)
    BY <1>50, <2>5, <2>6
  <2>8. h[k] = [b EXCEPT ![i] = b[i] + T(j + 1)]
    <3> HIDE DEF T
    <3> QED
      BY <1>3, <1>50, <2>1, <2>3, <2>7
  <2>9. h[k] = [b EXCEPT ![i] = b[i] + T(f + k)]
    BY <2>1, <2>8
  <2> QED
    BY <2>9
<1>8. P = 0..m
  <2>1. P \in SUBSET (0..m)
    OBVIOUS
  <2> HIDE DEF P
  <2> QED
    BY <1>3, <1>6, <1>7, <2>1, UpTo
<1>9. m \in P
  <2> HIDE DEF P
  <2> QED
    BY <1>3, <1>8
<1>10. f + m = i
  BY <1>3
<1> QED
  BY <1>2, <1>9, <1>10

-----------------------------------------------------------------------------
(* The loops over the rows *)

\* The loops over the rows.
TransposeAll(M, x) == FoldLeft(LAMBDA b, i : Transposed(M, x, b, i), x, Up(M.size))

LowerAll(M, d) == FoldLeft(LAMBDA b, i : Lowered(M, b, i), d, Down(M.size))

\* A turn of the loop of the inverse of L.
InvertLine(M, b, i) == [b EXCEPT ![i] = @ - InvertSum(M, b, i)]

InvertAll(M, x) == FoldLeft(LAMBDA b, i : InvertLine(M, b, i), x, Up(M.size))

BackAll(M, d) == FoldLeft(LAMBDA b, i : Backed(M, b, i), d, Down(M.size))

\* The rows with places before the diagonal.
Later(M) == 1..(M.size - 1)

\* The turns as functions, for the induction over the rows.
TransposeLines(M, x) == [p \in Vec(M) \X Later(M) |-> Transposed(M, x, p[1], p[2])]

LowerLines(M) == [p \in Vec(M) \X Later(M) |-> Lowered(M, p[1], p[2])]

InvertLines(M) == [p \in Vec(M) \X Later(M) |-> InvertLine(M, p[1], p[2])]

BackLines(M) == [p \in Vec(M) \X Later(M) |-> Backed(M, p[1], p[2])]

\* The rows from the second on, in both orders.
LEMMA LaterIs ==
  ASSUME NEW M, Mat(M)
  PROVE  /\ \A i \in Later(M) : i \in 0..(M.size - 1)
         /\ Up(M.size) \in Seq(Later(M)) /\ DOMAIN Up(M.size) = 1..Len(Up(M.size)) /\ Len(Up(M.size)) = M.size - 1
         /\ Down(M.size) \in Seq(Later(M)) /\ DOMAIN Down(M.size) = 1..Len(Down(M.size)) /\ Len(Down(M.size)) = M.size - 1
         /\ \A k \in 1..(M.size - 1) : Up(M.size)[k] = k /\ Down(M.size)[k] = M.size - k
<1>1. M.size \in Nat \ {0}
  BY SizeIs
<1>2. \A i \in 1..(M.size - 1) : i \in 0..(M.size - 1)
  BY <1>1
<1> QED
  BY <1>1, <1>2, UpIs DEF Later

\* A vector with multiples of a row added is a vector.
LEMMA ScatterVec ==
  ASSUME NEW M, Mat(M), NEW i \in 0..(M.size - 1), NEW b \in Vec(M), NEW c \in Int
  PROVE  ScatterTo(M, b, Given(M, i, c), i) \in Vec(M)
<1>1. \A q \in 0..(M.size - 1) : Given(M, i, c)[q] \in Int /\ b[q] \in Int
  BY GivenIs DEF Vec
<1> QED
  BY <1>1 DEF ScatterTo, Vec

\* Every turn of the four loops gives a vector.
LEMMA RowsTyped ==
  ASSUME NEW M, Mat(M), NEW x \in Vec(M), NEW b \in Vec(M), NEW i \in Later(M)
  PROVE  /\ Transposed(M, x, b, i) \in Vec(M) /\ Lowered(M, b, i) \in Vec(M)
         /\ InvertLine(M, b, i) \in Vec(M) /\ Backed(M, b, i) \in Vec(M)
<1>1. i \in 0..(M.size - 1) /\ i \in Nat /\ M.size \in Nat
  BY LaterIs, SizeIs
<1>2. x[i] \in Int /\ b[i] \in Int /\ - b[i] \in Int
  <2>1. x[i] \in Int /\ b[i] \in Int
    BY <1>1 DEF Vec
  <2> QED
    BY <2>1
<1>3. Tot(Line(M, b, i), i) \in Int
  <2>1. i \in 0..M.size
    BY <1>1
  <2> QED
    BY <1>1, <2>1, LineInts
<1>4. Transposed(M, x, b, i) \in Vec(M)
  BY <1>1, <1>2, TransposeRowIs, ScatterVec
<1>5. Backed(M, b, i) \in Vec(M)
  BY <1>1, <1>2, BackRowIs, ScatterVec
<1>6. Lowered(M, b, i) \in Vec(M)
  <2>1. Lowered(M, b, i) = [b EXCEPT ![i] = b[i] + Tot(Line(M, b, i), i)]
    BY <1>1, LowerRowIs
  <2>2. b[i] + Tot(Line(M, b, i), i) \in Int
    BY <1>2, <1>3
  <2> QED
    BY <1>1, <2>1, <2>2 DEF Vec
<1>7. InvertLine(M, b, i) \in Vec(M)
  <2>1. InvertLine(M, b, i) = [b EXCEPT ![i] = @ - Tot(Line(M, b, i), i)]
    BY <1>1, InvertRowIs DEF InvertLine
  <2>2. b[i] - Tot(Line(M, b, i), i) \in Int
    BY <1>2, <1>3
  <2> QED
    BY <1>1, <2>1, <2>2 DEF Vec
<1> QED
  BY <1>4, <1>5, <1>6, <1>7

\* The loop of transpose(L).
LEMMA TransposeFolded ==
  ASSUME NEW M, Mat(M), NEW x \in Vec(M)
  PROVE  Folded(TransposeAll(M, x), Vec(M), x, Up(M.size), TransposeLines(M, x))
<1> DEFINE D == DOMAIN Up(M.size)
           Eq(it) == it = [u \in SUBSET D |-> IF u = {} THEN x ELSE Transposed(M, x, it[u \ {Max(u)}], Up(M.size)[Max(u)])]
           it == CHOOSE it : Eq(it)
<1>0. x \in Vec(M) /\ Up(M.size) \in Seq(Later(M)) /\ D = 1..Len(Up(M.size))
  BY LaterIs
<1>1. TransposeLines(M, x) \in [Vec(M) \X (Later(M)) -> Vec(M)]
  BY RowsTyped DEF TransposeLines
<1>2. ASSUME NEW f, NEW u \in SUBSET D, u # {}, f[u \ {Max(u)}] \in Vec(M)
      PROVE  TransposeLines(M, x)[<<f[u \ {Max(u)}], Up(M.size)[Max(u)]>>] = Transposed(M, x, f[u \ {Max(u)}], Up(M.size)[Max(u)])
  <2>1. Up(M.size)[Max(u)] \in Later(M)
    BY <1>0, <1>2, MaxRank
  <2> QED
    BY <1>2, <2>1 DEF TransposeLines
<1>3. PICK f \in [SUBSET D -> Vec(M)] : Folding(f, Vec(M), x, Up(M.size), TransposeLines(M, x))
  BY <1>0, <1>1, FoldExists
<1>4. \A u \in SUBSET D : u \ {Max(u)} \in SUBSET D
  OBVIOUS
<1>5. Eq(f)
  <2>1. f[{}] = x
    BY <1>3 DEF Folding
  <2>2. ASSUME NEW u \in SUBSET D, u # {} PROVE f[u] = Transposed(M, x, f[u \ {Max(u)}], Up(M.size)[Max(u)])
    <3>1. f[u \ {Max(u)}] \in Vec(M)
      BY <1>4
    <3>2. f[u] = TransposeLines(M, x)[<<f[u \ {Max(u)}], Up(M.size)[Max(u)]>>]
      BY <1>0, <1>3, <2>2, <3>1 DEF Folding
    <3> QED
      BY <1>2, <2>2, <3>1, <3>2
  <2>3. f = [u \in SUBSET D |-> f[u]]
    OBVIOUS
  <2> QED
    BY <2>1, <2>2, <2>3
<1>6. Eq(it)
  BY <1>5
<1>7. TransposeAll(M, x) = it[D]
  BY DEF TransposeAll, FoldLeft, MapThenFoldSet
<1> HIDE DEF it
<1>8. Folding(it, Vec(M), x, Up(M.size), TransposeLines(M, x))
  BY <1>0, <1>2, <1>6 DEF Folding
<1>9. Folded(it[1..Len(Up(M.size))], Vec(M), x, Up(M.size), TransposeLines(M, x))
  BY <1>0, <1>1, <1>8, FoldIs
<1> QED
  BY <1>0, <1>7, <1>9

\* The loop of L.
LEMMA LowerFolded ==
  ASSUME NEW M, Mat(M), NEW x \in Vec(M)
  PROVE  Folded(LowerAll(M, x), Vec(M), x, Down(M.size), LowerLines(M))
<1> DEFINE D == DOMAIN Down(M.size)
           Eq(it) == it = [u \in SUBSET D |-> IF u = {} THEN x ELSE Lowered(M, it[u \ {Max(u)}], Down(M.size)[Max(u)])]
           it == CHOOSE it : Eq(it)
<1>0. x \in Vec(M) /\ Down(M.size) \in Seq(Later(M)) /\ D = 1..Len(Down(M.size))
  BY LaterIs
<1>1. LowerLines(M) \in [Vec(M) \X (Later(M)) -> Vec(M)]
  BY RowsTyped DEF LowerLines
<1>2. ASSUME NEW f, NEW u \in SUBSET D, u # {}, f[u \ {Max(u)}] \in Vec(M)
      PROVE  LowerLines(M)[<<f[u \ {Max(u)}], Down(M.size)[Max(u)]>>] = Lowered(M, f[u \ {Max(u)}], Down(M.size)[Max(u)])
  <2>1. Down(M.size)[Max(u)] \in Later(M)
    BY <1>0, <1>2, MaxRank
  <2> QED
    BY <1>2, <2>1 DEF LowerLines
<1>3. PICK f \in [SUBSET D -> Vec(M)] : Folding(f, Vec(M), x, Down(M.size), LowerLines(M))
  BY <1>0, <1>1, FoldExists
<1>4. \A u \in SUBSET D : u \ {Max(u)} \in SUBSET D
  OBVIOUS
<1>5. Eq(f)
  <2>1. f[{}] = x
    BY <1>3 DEF Folding
  <2>2. ASSUME NEW u \in SUBSET D, u # {} PROVE f[u] = Lowered(M, f[u \ {Max(u)}], Down(M.size)[Max(u)])
    <3>1. f[u \ {Max(u)}] \in Vec(M)
      BY <1>4
    <3>2. f[u] = LowerLines(M)[<<f[u \ {Max(u)}], Down(M.size)[Max(u)]>>]
      BY <1>0, <1>3, <2>2, <3>1 DEF Folding
    <3> QED
      BY <1>2, <2>2, <3>1, <3>2
  <2>3. f = [u \in SUBSET D |-> f[u]]
    OBVIOUS
  <2> QED
    BY <2>1, <2>2, <2>3
<1>6. Eq(it)
  BY <1>5
<1>7. LowerAll(M, x) = it[D]
  BY DEF LowerAll, FoldLeft, MapThenFoldSet
<1> HIDE DEF it
<1>8. Folding(it, Vec(M), x, Down(M.size), LowerLines(M))
  BY <1>0, <1>2, <1>6 DEF Folding
<1>9. Folded(it[1..Len(Down(M.size))], Vec(M), x, Down(M.size), LowerLines(M))
  BY <1>0, <1>1, <1>8, FoldIs
<1> QED
  BY <1>0, <1>7, <1>9

\* The first loop of the resolution.
LEMMA InvertFolded ==
  ASSUME NEW M, Mat(M), NEW x \in Vec(M)
  PROVE  Folded(InvertAll(M, x), Vec(M), x, Up(M.size), InvertLines(M))
<1> DEFINE D == DOMAIN Up(M.size)
           Eq(it) == it = [u \in SUBSET D |-> IF u = {} THEN x ELSE InvertLine(M, it[u \ {Max(u)}], Up(M.size)[Max(u)])]
           it == CHOOSE it : Eq(it)
<1>0. x \in Vec(M) /\ Up(M.size) \in Seq(Later(M)) /\ D = 1..Len(Up(M.size))
  BY LaterIs
<1>1. InvertLines(M) \in [Vec(M) \X (Later(M)) -> Vec(M)]
  BY RowsTyped DEF InvertLines
<1>2. ASSUME NEW f, NEW u \in SUBSET D, u # {}, f[u \ {Max(u)}] \in Vec(M)
      PROVE  InvertLines(M)[<<f[u \ {Max(u)}], Up(M.size)[Max(u)]>>] = InvertLine(M, f[u \ {Max(u)}], Up(M.size)[Max(u)])
  <2>1. Up(M.size)[Max(u)] \in Later(M)
    BY <1>0, <1>2, MaxRank
  <2> QED
    BY <1>2, <2>1 DEF InvertLines
<1>3. PICK f \in [SUBSET D -> Vec(M)] : Folding(f, Vec(M), x, Up(M.size), InvertLines(M))
  BY <1>0, <1>1, FoldExists
<1>4. \A u \in SUBSET D : u \ {Max(u)} \in SUBSET D
  OBVIOUS
<1>5. Eq(f)
  <2>1. f[{}] = x
    BY <1>3 DEF Folding
  <2>2. ASSUME NEW u \in SUBSET D, u # {} PROVE f[u] = InvertLine(M, f[u \ {Max(u)}], Up(M.size)[Max(u)])
    <3>1. f[u \ {Max(u)}] \in Vec(M)
      BY <1>4
    <3>2. f[u] = InvertLines(M)[<<f[u \ {Max(u)}], Up(M.size)[Max(u)]>>]
      BY <1>0, <1>3, <2>2, <3>1 DEF Folding
    <3> QED
      BY <1>2, <2>2, <3>1, <3>2
  <2>3. f = [u \in SUBSET D |-> f[u]]
    OBVIOUS
  <2> QED
    BY <2>1, <2>2, <2>3
<1>6. Eq(it)
  BY <1>5
<1>7. InvertAll(M, x) = it[D]
  BY DEF InvertAll, FoldLeft, MapThenFoldSet
<1> HIDE DEF it
<1>8. Folding(it, Vec(M), x, Up(M.size), InvertLines(M))
  BY <1>0, <1>2, <1>6 DEF Folding
<1>9. Folded(it[1..Len(Up(M.size))], Vec(M), x, Up(M.size), InvertLines(M))
  BY <1>0, <1>1, <1>8, FoldIs
<1> QED
  BY <1>0, <1>7, <1>9

\* The last loop of the resolution.
LEMMA BackFolded ==
  ASSUME NEW M, Mat(M), NEW x \in Vec(M)
  PROVE  Folded(BackAll(M, x), Vec(M), x, Down(M.size), BackLines(M))
<1> DEFINE D == DOMAIN Down(M.size)
           Eq(it) == it = [u \in SUBSET D |-> IF u = {} THEN x ELSE Backed(M, it[u \ {Max(u)}], Down(M.size)[Max(u)])]
           it == CHOOSE it : Eq(it)
<1>0. x \in Vec(M) /\ Down(M.size) \in Seq(Later(M)) /\ D = 1..Len(Down(M.size))
  BY LaterIs
<1>1. BackLines(M) \in [Vec(M) \X (Later(M)) -> Vec(M)]
  BY RowsTyped DEF BackLines
<1>2. ASSUME NEW f, NEW u \in SUBSET D, u # {}, f[u \ {Max(u)}] \in Vec(M)
      PROVE  BackLines(M)[<<f[u \ {Max(u)}], Down(M.size)[Max(u)]>>] = Backed(M, f[u \ {Max(u)}], Down(M.size)[Max(u)])
  <2>1. Down(M.size)[Max(u)] \in Later(M)
    BY <1>0, <1>2, MaxRank
  <2> QED
    BY <1>2, <2>1 DEF BackLines
<1>3. PICK f \in [SUBSET D -> Vec(M)] : Folding(f, Vec(M), x, Down(M.size), BackLines(M))
  BY <1>0, <1>1, FoldExists
<1>4. \A u \in SUBSET D : u \ {Max(u)} \in SUBSET D
  OBVIOUS
<1>5. Eq(f)
  <2>1. f[{}] = x
    BY <1>3 DEF Folding
  <2>2. ASSUME NEW u \in SUBSET D, u # {} PROVE f[u] = Backed(M, f[u \ {Max(u)}], Down(M.size)[Max(u)])
    <3>1. f[u \ {Max(u)}] \in Vec(M)
      BY <1>4
    <3>2. f[u] = BackLines(M)[<<f[u \ {Max(u)}], Down(M.size)[Max(u)]>>]
      BY <1>0, <1>3, <2>2, <3>1 DEF Folding
    <3> QED
      BY <1>2, <2>2, <3>1, <3>2
  <2>3. f = [u \in SUBSET D |-> f[u]]
    OBVIOUS
  <2> QED
    BY <2>1, <2>2, <2>3
<1>6. Eq(it)
  BY <1>5
<1>7. BackAll(M, x) = it[D]
  BY DEF BackAll, FoldLeft, MapThenFoldSet
<1> HIDE DEF it
<1>8. Folding(it, Vec(M), x, Down(M.size), BackLines(M))
  BY <1>0, <1>2, <1>6 DEF Folding
<1>9. Folded(it[1..Len(Down(M.size))], Vec(M), x, Down(M.size), BackLines(M))
  BY <1>0, <1>1, <1>8, FoldIs
<1> QED
  BY <1>0, <1>7, <1>9

\* What the column q of the full matrix is multiplied with, below the diagonal.
Column(M, x, q) == [k \in 0..(M.size - 1) |-> IF q < k THEN Entry(M, q, k) * x[k] ELSE 0]

\* x, and what the first c rows give to the places before them.
Upper(M, x, c) == [q \in 0..(M.size - 1) |-> x[q] + Tot(Column(M, x, q), c)]

\* d, and what the columns before the diagonal give to every row.
Lower(M, d) == [q \in 0..(M.size - 1) |-> d[q] + Tot(Line(M, d, q), q)]

\* What the rows below give to a column is a sum of integers.
LEMMA ColumnInts ==
  ASSUME NEW M, Mat(M), NEW x \in Vec(M), NEW q \in 0..(M.size - 1)
  PROVE  /\ Ints(Column(M, x, q), M.size)
         /\ \A k \in 0..M.size : Tot(Column(M, x, q), k) \in Int
         /\ \A k \in 0..(M.size - 1) : Tot(Column(M, x, q), k + 1) =
               Tot(Column(M, x, q), k) + (IF q < k THEN Entry(M, q, k) * x[k] ELSE 0)
         /\ \A k \in 0..(q + 1) : Tot(Column(M, x, q), k) = 0
<1> DEFINE g == Column(M, x, q)
           n == M.size
<1>1. \A k \in 0..(n - 1) : Entry(M, q, k) * x[k] \in Int
  <2> SUFFICES ASSUME NEW k \in 0..(n - 1) PROVE Entry(M, q, k) * x[k] \in Int
    OBVIOUS
  <2>1. Entry(M, q, k) \in Int /\ x[k] \in Int
    BY EntryInt DEF Vec
  <2> QED
    BY <2>1, TimesInt
<1>2. \A k \in 0..(n - 1) : g[k] = (IF q < k THEN Entry(M, q, k) * x[k] ELSE 0)
  BY DEF Column
<1>3. n \in Nat /\ q \in Nat
  BY SizeIs
<1> HIDE DEF g
<1>4. Ints(g, n)
  BY <1>1, <1>2 DEF Ints
<1>5. /\ \A k \in 0..n : Tot(g, k) \in Int
      /\ \A k \in 1..n : Tot(g, k) = Tot(g, k - 1) + g[k - 1]
  BY <1>3, <1>4, TotStep
<1>6. \A k \in 0..(n - 1) : k + 1 \in 1..n /\ k + 1 - 1 = k
  BY <1>3
<1>7. \A k \in 0..(n - 1) : Tot(g, k + 1) = Tot(g, k) + (IF q < k THEN Entry(M, q, k) * x[k] ELSE 0)
  BY <1>2, <1>5, <1>6
<1>8. ASSUME NEW k \in 0..(q + 1) PROVE Tot(g, k) = 0
  <2>1. \A p \in 0..(k - 1) : p \in 0..(n - 1) /\ ~ (q < p)
    BY <1>3
  <2>2. \A p \in 0..(k - 1) : g[p] = 0
    BY <1>2, <2>1
  <2>3. k \in Nat
    BY <1>3
  <2> QED
    BY <2>2, <2>3, TotZero
<1> QED
  BY <1>4, <1>5, <1>7, <1>8 DEF g

\* The vector after some rows of the transpose is one.
LEMMA UpperVec ==
  ASSUME NEW M, Mat(M), NEW x \in Vec(M), NEW c \in 0..M.size
  PROVE  Upper(M, x, c) \in Vec(M)
<1>1. \A q \in 0..(M.size - 1) : x[q] \in Int /\ Tot(Column(M, x, q), c) \in Int
  BY ColumnInts DEF Vec
<1> QED
  BY <1>1 DEF Upper, Vec

\* A row more of transpose(L).
LEMMA UpperRow ==
  ASSUME NEW M, Mat(M), NEW x \in Vec(M), NEW i \in 0..(M.size - 1)
  PROVE  /\ ScatterTo(M, Upper(M, x, i), Given(M, i, x[i]), i) = Upper(M, x, i + 1)
         /\ ScatterTo(M, Upper(M, x, i + 1), Given(M, i, - x[i]), i) = Upper(M, x, i)
<1> DEFINE n == M.size
<1>1. i \in 0..n /\ i + 1 \in 0..n
  <2>1. n \in Nat
    BY SizeIs
  <2> QED
    BY <2>1
<1>2. ASSUME NEW q \in 0..(n - 1)
      PROVE  /\ Tot(Column(M, x, q), i + 1) = Tot(Column(M, x, q), i) + (IF q < i THEN Entry(M, i, q) * x[i] ELSE 0)
             /\ Tot(Column(M, x, q), i) \in Int /\ Entry(M, i, q) * x[i] \in Int /\ x[q] \in Int
             /\ Entry(M, i, q) * (- x[i]) = - (Entry(M, i, q) * x[i])
  <2>1. Entry(M, i, q) = Entry(M, q, i) /\ Entry(M, i, q) \in Int /\ x[i] \in Int /\ x[q] \in Int
    BY EntryInt DEF Vec
  <2>2. Tot(Column(M, x, q), i + 1) = Tot(Column(M, x, q), i) + (IF q < i THEN Entry(M, q, i) * x[i] ELSE 0)
    BY ColumnInts
  <2>3. Tot(Column(M, x, q), i) \in Int
    BY <1>1, ColumnInts
  <2>4. Entry(M, i, q) * x[i] \in Int /\ Entry(M, i, q) * (- x[i]) = - (Entry(M, i, q) * x[i])
    BY <2>1, TimesInt, NegInt
  <2> QED
    BY <2>1, <2>2, <2>3, <2>4
<1>3. ASSUME NEW q \in 0..(n - 1)
      PROVE  /\ (IF q < i THEN Upper(M, x, i)[q] + Given(M, i, x[i])[q] ELSE Upper(M, x, i)[q]) = Upper(M, x, i + 1)[q]
             /\ (IF q < i THEN Upper(M, x, i + 1)[q] + Given(M, i, - x[i])[q] ELSE Upper(M, x, i + 1)[q]) = Upper(M, x, i)[q]
  <2>1. /\ Upper(M, x, i)[q] = x[q] + Tot(Column(M, x, q), i)
        /\ Upper(M, x, i + 1)[q] = x[q] + Tot(Column(M, x, q), i + 1)
        /\ Given(M, i, x[i])[q] = Entry(M, i, q) * x[i] /\ Given(M, i, - x[i])[q] = Entry(M, i, q) * (- x[i])
    BY DEF Upper, Given
  <2> DEFINE t == Tot(Column(M, x, q), i)
             u == Tot(Column(M, x, q), i + 1)
             e == Entry(M, i, q) * x[i]
  <2>2. u = t + (IF q < i THEN e ELSE 0) /\ t \in Int /\ e \in Int /\ x[q] \in Int
    BY <1>2
  <2>3. Entry(M, i, q) * (- x[i]) = - e
    BY <1>2
  <2> HIDE DEF t, u, e
  <2>4. (IF q < i THEN (x[q] + t) + e ELSE x[q] + t) = x[q] + u
    BY <2>2
  <2>5. (IF q < i THEN (x[q] + u) + (- e) ELSE x[q] + u) = x[q] + t
    BY <2>2
  <2> QED
    BY <2>1, <2>3, <2>4, <2>5 DEF t, u, e
<1> HIDE DEF n
<1>4. DOMAIN Upper(M, x, i) = 0..(n - 1) /\ DOMAIN Upper(M, x, i + 1) = 0..(n - 1)
  BY DEF Upper, n
<1>5. /\ Upper(M, x, i) = [q \in 0..(n - 1) |-> Upper(M, x, i)[q]]
      /\ Upper(M, x, i + 1) = [q \in 0..(n - 1) |-> Upper(M, x, i + 1)[q]]
  BY DEF Upper, n
<1> QED
  BY <1>3, <1>5 DEF ScatterTo, n

\* All the rows of the transpose add up to the product by it.
LEMMA TransposeAllIs ==
  ASSUME NEW M, Mat(M), NEW x \in Vec(M)
  PROVE  TransposeAll(M, x) = Upper(M, x, M.size)
<1> DEFINE n == M.size
           s == Up(n)
           m == Len(s)
<1>1. n \in Nat /\ n # 0 /\ m = n - 1 /\ m \in Nat /\ \A k \in 1..m : s[k] = k /\ k \in Later(M)
  <2>1. n \in Nat /\ n # 0
    BY SizeIs
  <2>2. m = n - 1 /\ \A k \in 1..(n - 1) : s[k] = k
    BY LaterIs
  <2> HIDE DEF m, s
  <2>3. m \in Nat
    BY <2>1, <2>2
  <2>4. Later(M) = 1..m
    BY <2>2 DEF Later
  <2> QED
    BY <2>1, <2>2, <2>3, <2>4
<1>2. PICK h \in [0..m -> Vec(M)] :
        /\ h[0] = x /\ TransposeAll(M, x) = h[m]
        /\ \A k \in 1..m : h[k] = TransposeLines(M, x)[<<h[k - 1], s[k]>>]
  BY TransposeFolded DEF Folded
<1> HIDE DEF s, m, n
<1> DEFINE P == {k \in 0..m : h[k] = Upper(M, x, k + 1)}
<1>3. 0 \in P
  <2>1. x \in [0..(n - 1) -> Int]
    BY DEF Vec, n
  <2>2. \A q \in 0..(n - 1) : 0 + 1 \in 0..(q + 1)
    BY <1>1
  <2>3. \A q \in 0..(n - 1) : Tot(Column(M, x, q), 0 + 1) = 0
    BY <2>2, ColumnInts DEF n
  <2>4. \A q \in 0..(n - 1) : x[q] + Tot(Column(M, x, q), 0 + 1) = x[q]
    BY <2>1, <2>3
  <2>5. Upper(M, x, 0 + 1) = x
    BY <2>1, <2>4 DEF Upper, n
  <2> QED
    BY <1>1, <1>2, <2>5
<1>4. ASSUME NEW k \in 1..m, k - 1 \in P PROVE k \in P
  <2>1. h[k - 1] = Upper(M, x, k)
    <3>1. h[k - 1] = Upper(M, x, (k - 1) + 1) /\ (k - 1) + 1 = k
      BY <1>1, <1>4
    <3> QED
      BY <3>1
  <2>2. k \in Later(M) /\ k \in 0..(n - 1) /\ h[k - 1] \in Vec(M) /\ s[k] = k
    <3>1. k - 1 \in 0..m
      BY <1>1
    <3> QED
      BY <1>1, <1>2, <3>1
  <2>3. h[k] = Transposed(M, x, h[k - 1], k)
    BY <1>2, <2>2 DEF TransposeLines
  <2>4. h[k] = ScatterTo(M, Upper(M, x, k), Given(M, k, x[k]), k)
    BY <2>1, <2>2, <2>3, TransposeRowIs DEF n
  <2>5. h[k] = Upper(M, x, k + 1)
    BY <2>2, <2>4, UpperRow DEF n
  <2> QED
    BY <2>5
<1>5. P = 0..m
  <2>1. P \in SUBSET (0..m)
    OBVIOUS
  <2> HIDE DEF P
  <2> QED
    BY <1>1, <1>3, <1>4, <2>1, UpTo
<1>6. m \in P
  <2> HIDE DEF P
  <2> QED
    BY <1>1, <1>5
<1>7. m + 1 = n
  BY <1>1
<1> QED
  BY <1>2, <1>6, <1>7 DEF n

\* The last loop of the resolution goes back from what transpose(L) makes of x to x.
LEMMA BackAllIs ==
  ASSUME NEW M, Mat(M), NEW x \in Vec(M)
  PROVE  BackAll(M, Upper(M, x, M.size)) = x
<1> DEFINE n == M.size
           s == Down(n)
           m == Len(s)
           t == Upper(M, x, n)
<1>1. n \in Nat /\ n # 0 /\ m = n - 1 /\ m \in Nat /\ \A k \in 1..m : s[k] = n - k /\ n - k \in Later(M)
  <2>1. n \in Nat /\ n # 0 /\ m = n - 1 /\ \A k \in 1..m : s[k] = n - k
    BY SizeIs, LaterIs
  <2> HIDE DEF m, s
  <2>2. \A k \in 1..m : n - k \in 1..(n - 1)
    BY <2>1
  <2> QED
    BY <2>1, <2>2 DEF Later
<1>0. t \in Vec(M)
  <2>1. n \in 0..M.size
    BY <1>1
  <2> QED
    BY <2>1, UpperVec
<1> HIDE DEF t
<1>2. PICK h \in [0..m -> Vec(M)] :
        /\ h[0] = t /\ BackAll(M, t) = h[m]
        /\ \A k \in 1..m : h[k] = BackLines(M)[<<h[k - 1], s[k]>>]
  BY <1>0, BackFolded DEF Folded
<1> HIDE DEF s, m, n
<1> DEFINE P == {k \in 0..m : h[k] = Upper(M, x, n - k)}
<1>3. 0 \in P
  <2>1. n - 0 = n
    BY <1>1
  <2> QED
    BY <1>1, <1>2, <2>1 DEF t, n
<1>4. ASSUME NEW k \in 1..m, k - 1 \in P PROVE k \in P
  <2> DEFINE i == n - k
  <2>1. h[k - 1] = Upper(M, x, i + 1)
    <3>1. h[k - 1] = Upper(M, x, n - (k - 1)) /\ n - (k - 1) = i + 1
      BY <1>1, <1>4
    <3> QED
      BY <3>1
  <2>2. i \in Later(M) /\ h[k - 1] \in Vec(M) /\ s[k] = i
    <3>1. k - 1 \in 0..m
      BY <1>1
    <3> QED
      BY <1>1, <1>2, <3>1
  <2>3. i \in 0..(n - 1) /\ i + 1 \in 0..(i + 1)
    <3>1. i \in 0..(n - 1)
      BY <2>2, LaterIs DEF n
    <3> QED
      BY <1>1, <3>1
  <2> HIDE DEF i
  <2>4. h[k] = Backed(M, h[k - 1], i)
    BY <1>2, <2>2 DEF BackLines
  <2>5. h[k - 1][i] = x[i]
    <3>1. h[k - 1][i] = x[i] + Tot(Column(M, x, i), i + 1)
      BY <2>1, <2>3 DEF Upper, n
    <3>2. Tot(Column(M, x, i), i + 1) = 0 /\ x[i] \in Int
      BY <2>3, ColumnInts DEF n, Vec
    <3> QED
      BY <3>1, <3>2
  <2>6. h[k] = ScatterTo(M, Upper(M, x, i + 1), Given(M, i, - x[i]), i)
    BY <2>1, <2>2, <2>3, <2>4, <2>5, BackRowIs DEF n
  <2>7. h[k] = Upper(M, x, i)
    BY <2>3, <2>6, UpperRow DEF n
  <2> QED
    BY <2>7 DEF i
<1>5. P = 0..m
  <2>1. P \in SUBSET (0..m)
    OBVIOUS
  <2> HIDE DEF P
  <2> QED
    BY <1>1, <1>3, <1>4, <2>1, UpTo
<1>6. m \in P
  <2> HIDE DEF P
  <2> QED
    BY <1>1, <1>5
<1>7. n - m = 0 + 1
  BY <1>1
<1>8. Upper(M, x, 0 + 1) = x
  <2>1. x \in [0..(n - 1) -> Int]
    BY DEF Vec, n
  <2>2. \A q \in 0..(n - 1) : 0 + 1 \in 0..(q + 1)
    BY <1>1
  <2>3. \A q \in 0..(n - 1) : Tot(Column(M, x, q), 0 + 1) = 0
    BY <2>2, ColumnInts DEF n
  <2>4. \A q \in 0..(n - 1) : x[q] + Tot(Column(M, x, q), 0 + 1) = x[q]
    BY <2>1, <2>3
  <2> QED
    BY <2>1, <2>4 DEF Upper, n
<1> QED
  BY <1>2, <1>6, <1>7, <1>8 DEF t, n

\* The sum of a row before the diagonal looks at the places before it only.
LEMMA LineBefore ==
  ASSUME NEW M, Mat(M), NEW i \in 0..(M.size - 1), NEW a \in Vec(M), NEW b \in Vec(M),
         \A q \in 0..(i - 1) : a[q] = b[q]
  PROVE  Tot(Line(M, a, i), i) = Tot(Line(M, b, i), i) /\ Tot(Line(M, a, i), i) \in Int
<1>1. i \in Nat /\ M.size \in Nat /\ i \in 0..M.size
  <2>1. i \in Nat /\ M.size \in Nat
    BY SizeIs
  <2> QED
    BY <2>1
<1>2. \A q \in 0..(i - 1) : q \in 0..(M.size - 1)
  BY <1>1
<1>3. \A q \in 0..(i - 1) : Line(M, a, i)[q] = Line(M, b, i)[q]
  BY <1>2 DEF Line
<1>4. Ints(Line(M, b, i), i)
  <2>1. Ints(Line(M, b, i), M.size)
    BY LineInts
  <2> QED
    BY <1>2, <2>1 DEF Ints
<1>5. Tot(Line(M, a, i), i) \in Int
  BY <1>1, LineInts
<1> QED
  BY <1>1, <1>3, <1>4, <1>5, TotSame

\* The product by L, row by row.
LEMMA LowerVec ==
  ASSUME NEW M, Mat(M), NEW d \in Vec(M)
  PROVE  /\ Lower(M, d) \in Vec(M)
         /\ \A q \in 0..(M.size - 1) : Lower(M, d)[q] = d[q] + Tot(Line(M, d, q), q) /\ Tot(Line(M, d, q), q) \in Int
<1>1. \A q \in 0..(M.size - 1) : d[q] \in Int /\ Tot(Line(M, d, q), q) \in Int
  BY LineBefore DEF Vec
<1> QED
  BY <1>1 DEF Lower, Vec

\* L from the last row up.
LEMMA LowerAllIs ==
  ASSUME NEW M, Mat(M), NEW d \in Vec(M)
  PROVE  LowerAll(M, d) = Lower(M, d)
<1> DEFINE n == M.size
           s == Down(n)
           m == Len(s)
           L == Lower(M, d)
<1>1. n \in Nat /\ n # 0 /\ m = n - 1 /\ m \in Nat /\ \A k \in 1..m : s[k] = n - k /\ n - k \in Later(M)
  <2>1. n \in Nat /\ n # 0 /\ m = n - 1 /\ \A k \in 1..m : s[k] = n - k
    BY SizeIs, LaterIs
  <2> HIDE DEF m, s
  <2>2. \A k \in 1..m : n - k \in 1..(n - 1)
    BY <2>1
  <2> QED
    BY <2>1, <2>2 DEF Later
<1>2. PICK h \in [0..m -> Vec(M)] :
        /\ h[0] = d /\ LowerAll(M, d) = h[m]
        /\ \A k \in 1..m : h[k] = LowerLines(M)[<<h[k - 1], s[k]>>]
  BY LowerFolded DEF Folded
<1>20. L \in Vec(M) /\ \A q \in 0..(n - 1) : L[q] = d[q] + Tot(Line(M, d, q), q)
  BY LowerVec
<1>21. d \in [0..(n - 1) -> Int] /\ L \in [0..(n - 1) -> Int] /\ Vec(M) = [0..(n - 1) -> Int]
  BY <1>20 DEF Vec
<1> HIDE DEF s, m, n, L
<1> DEFINE To(c) == [q \in 0..(n - 1) |-> IF c <= q THEN L[q] ELSE d[q]]
           P == {k \in 0..m : h[k] = To(n - k)}
<1>3. 0 \in P
  <2>1. \A q \in 0..(n - 1) : ~ (n - 0 <= q)
    BY <1>1
  <2>2. To(n - 0) = d
    BY <1>21, <2>1
  <2> QED
    BY <1>1, <1>2, <2>2
<1>4. ASSUME NEW k \in 1..m, k - 1 \in P PROVE k \in P
  <2> DEFINE i == n - k
             a == h[k - 1]
  <2>1. a = To(i + 1)
    <3>1. h[k - 1] = To(n - (k - 1)) /\ n - (k - 1) = i + 1
      BY <1>1, <1>4
    <3> QED
      BY <3>1
  <2>2. i \in Later(M) /\ a \in Vec(M) /\ s[k] = i
    <3>1. k - 1 \in 0..m
      BY <1>1
    <3> QED
      BY <1>1, <1>2, <3>1
  <2>3. i \in 0..(n - 1) /\ i \in Nat
    BY <2>2, LaterIs DEF n
  <2>4. h[k] = LowerLines(M)[<<a, i>>]
    BY <1>2, <2>2
  <2> HIDE DEF i, a
  <2>5. h[k] = Lowered(M, a, i)
    BY <2>2, <2>4 DEF LowerLines
  <2>6. h[k] = [a EXCEPT ![i] = a[i] + Tot(Line(M, a, i), i)]
    BY <2>2, <2>3, <2>5, LowerRowIs DEF n
  <2>7. \A q \in 0..(n - 1) : (q # i => (i <= q <=> i + 1 <= q)) /\ (q <= i => ~ (i + 1 <= q))
    BY <1>1, <2>3
  <2>8. \A q \in 0..(n - 1) : q <= i => a[q] = d[q]
    BY <2>1, <2>7
  <2>9. Tot(Line(M, a, i), i) = Tot(Line(M, d, i), i)
    <3>1. \A q \in 0..(i - 1) : a[q] = d[q]
      BY <1>1, <2>3, <2>8
    <3> QED
      BY <2>2, <2>3, <3>1, LineBefore DEF n
  <2>10. a[i] = d[i] /\ L[i] = d[i] + Tot(Line(M, d, i), i)
    BY <1>20, <2>3, <2>8
  <2>11. h[k] = [a EXCEPT ![i] = L[i]]
    BY <2>6, <2>9, <2>10
  <2>12. h[k] = To(i)
    <3>1. h[k] = [q \in 0..(n - 1) |-> IF q = i THEN L[i] ELSE a[q]]
      BY <1>21, <2>2, <2>11
    <3>2. \A q \in 0..(n - 1) : q # i => a[q] = IF i <= q THEN L[q] ELSE d[q]
      BY <2>1, <2>7
    <3>3. i <= i
      BY <2>3
    <3> QED
      BY <3>1, <3>2, <3>3
  <2> QED
    BY <2>12 DEF i
<1>5. P = 0..m
  <2>1. P \in SUBSET (0..m)
    OBVIOUS
  <2> HIDE DEF P
  <2> QED
    BY <1>1, <1>3, <1>4, <2>1, UpTo
<1>6. m \in P
  <2> HIDE DEF P
  <2> QED
    BY <1>1, <1>5
<1>7. n - m = 1
  BY <1>1
<1>8. To(1) = L
  <2>1. L[0] = d[0]
    <3>1. 0 \in 0..(n - 1) /\ d[0] \in Int
      BY <1>1, <1>21
    <3>2. L[0] = d[0] + Tot(Line(M, d, 0), 0) /\ Tot(Line(M, d, 0), 0) = 0
      BY <1>20, <3>1, LineInts DEF n
    <3> QED
      BY <3>1, <3>2
  <2>2. \A q \in 0..(n - 1) : 1 <= q \/ q = 0
    BY <1>1
  <2>3. \A q \in 0..(n - 1) : To(1)[q] = L[q]
    BY <2>1, <2>2
  <2> QED
    BY <1>21, <2>3
<1> QED
  BY <1>2, <1>6, <1>7, <1>8 DEF L

\* The first loop of the resolution goes back from what L makes of d to d.
LEMMA InvertAllIs ==
  ASSUME NEW M, Mat(M), NEW d \in Vec(M)
  PROVE  InvertAll(M, Lower(M, d)) = d
<1> DEFINE n == M.size
           s == Up(n)
           m == Len(s)
           L == Lower(M, d)
<1>1. n \in Nat /\ n # 0 /\ m = n - 1 /\ m \in Nat /\ \A k \in 1..m : s[k] = k /\ k \in Later(M)
  <2>1. n \in Nat /\ n # 0
    BY SizeIs
  <2>2. m = n - 1 /\ \A k \in 1..(n - 1) : s[k] = k
    BY LaterIs
  <2> HIDE DEF m, s
  <2>3. m \in Nat
    BY <2>1, <2>2
  <2>4. Later(M) = 1..m
    BY <2>2 DEF Later
  <2> QED
    BY <2>1, <2>2, <2>3, <2>4
<1>20. L \in Vec(M) /\ \A q \in 0..(n - 1) : L[q] = d[q] + Tot(Line(M, d, q), q)
  BY LowerVec
<1>21. d \in [0..(n - 1) -> Int] /\ L \in [0..(n - 1) -> Int] /\ Vec(M) = [0..(n - 1) -> Int]
  BY <1>20 DEF Vec
<1> HIDE DEF L
<1>2. PICK h \in [0..m -> Vec(M)] :
        /\ h[0] = L /\ InvertAll(M, L) = h[m]
        /\ \A k \in 1..m : h[k] = InvertLines(M)[<<h[k - 1], s[k]>>]
  BY <1>20, InvertFolded DEF Folded
<1> HIDE DEF s, m, n
<1> DEFINE To(c) == [q \in 0..(n - 1) |-> IF q <= c THEN d[q] ELSE L[q]]
           P == {k \in 0..m : h[k] = To(k)}
<1>3. 0 \in P
  <2>1. L[0] = d[0]
    <3>1. 0 \in 0..(n - 1) /\ d[0] \in Int
      BY <1>1, <1>21
    <3>2. L[0] = d[0] + Tot(Line(M, d, 0), 0) /\ Tot(Line(M, d, 0), 0) = 0
      BY <1>20, <3>1, LineInts DEF n
    <3> QED
      BY <3>1, <3>2
  <2>2. \A q \in 0..(n - 1) : q <= 0 => q = 0
    BY <1>1
  <2>3. \A q \in 0..(n - 1) : To(0)[q] = L[q]
    BY <2>1, <2>2
  <2>4. To(0) = L
    BY <1>21, <2>3
  <2> QED
    BY <1>1, <1>2, <2>4
<1>4. ASSUME NEW k \in 1..m, k - 1 \in P PROVE k \in P
  <2> DEFINE a == h[k - 1]
  <2>1. a = To(k - 1)
    BY <1>4
  <2>2. k \in Later(M) /\ a \in Vec(M) /\ s[k] = k
    <3>1. k - 1 \in 0..m
      BY <1>1
    <3> QED
      BY <1>1, <1>2, <3>1
  <2>3. k \in 0..(n - 1) /\ k \in Nat
    BY <1>1, <2>2, LaterIs DEF n
  <2>4. h[k] = InvertLines(M)[<<a, k>>]
    BY <1>2, <2>2
  <2> HIDE DEF a
  <2>5. h[k] = InvertLine(M, a, k)
    BY <2>2, <2>4 DEF InvertLines
  <2>6. h[k] = [a EXCEPT ![k] = a[k] - Tot(Line(M, a, k), k)]
    BY <2>2, <2>3, <2>5, InvertRowIs DEF n, InvertLine
  <2>7. \A q \in 0..(n - 1) : (q # k => (q <= k <=> q <= k - 1)) /\ ~ (k <= k - 1)
    BY <1>1, <2>3
  <2>8. \A q \in 0..(n - 1) : q # k /\ q <= k => a[q] = d[q]
    BY <2>1, <2>7
  <2>9. Tot(Line(M, a, k), k) = Tot(Line(M, d, k), k) /\ Tot(Line(M, d, k), k) \in Int
    <3>1. \A q \in 0..(k - 1) : q \in 0..(n - 1) /\ q # k /\ q <= k
      BY <1>1, <2>3
    <3>2. \A q \in 0..(k - 1) : a[q] = d[q]
      BY <2>8, <3>1
    <3> QED
      BY <2>2, <2>3, <3>2, LineBefore DEF n
  <2>10. a[k] = L[k] /\ L[k] = d[k] + Tot(Line(M, d, k), k) /\ d[k] \in Int
    BY <1>20, <1>21, <2>1, <2>3, <2>7
  <2>11. h[k] = [a EXCEPT ![k] = d[k]]
    <3>1. a[k] - Tot(Line(M, a, k), k) = d[k]
      BY <2>9, <2>10
    <3> QED
      BY <2>6, <3>1
  <2>12. h[k] = To(k)
    <3>1. h[k] = [q \in 0..(n - 1) |-> IF q = k THEN d[k] ELSE a[q]]
      BY <1>21, <2>2, <2>11
    <3>2. \A q \in 0..(n - 1) : q # k => a[q] = IF q <= k THEN d[q] ELSE L[q]
      BY <2>1, <2>7
    <3>3. k <= k
      BY <2>3
    <3> QED
      BY <3>1, <3>2, <3>3
  <2> QED
    BY <2>12
<1>5. P = 0..m
  <2>1. P \in SUBSET (0..m)
    OBVIOUS
  <2> HIDE DEF P
  <2> QED
    BY <1>1, <1>3, <1>4, <2>1, UpTo
<1>6. m \in P
  <2> HIDE DEF P
  <2> QED
    BY <1>1, <1>5
<1>8. To(m) = d
  <2>1. \A q \in 0..(n - 1) : q <= m
    BY <1>1
  <2> QED
    BY <1>21, <2>1
<1> QED
  BY <1>2, <1>6, <1>8 DEF L

-----------------------------------------------------------------------------
(* L D transpose(L) *)

\* The product by D.
Diagonal(M, t) == [i \in DOMAIN t |-> t[i] * Coef(M, i, i)]

\* The product by D, row by row.
LEMMA DiagonalIs ==
  ASSUME NEW M, Mat(M), NEW t \in Vec(M)
  PROVE  /\ Diagonal(M, t) \in Vec(M)
         /\ \A i \in 0..(M.size - 1) : /\ Coef(M, i, i) \in Int /\ Coef(M, i, i) = Entry(M, i, i)
                                       /\ Diagonal(M, t)[i] = t[i] * Coef(M, i, i)
<1>1. ASSUME NEW i \in 0..(M.size - 1)
      PROVE  Coef(M, i, i) \in Int /\ Coef(M, i, i) = Entry(M, i, i) /\ t[i] * Coef(M, i, i) \in Int
  <2>1. First(M, i) \in 0..i /\ i \in Nat /\ \A j \in First(M, i)..i : Coef(M, i, j) \in Int
    BY Cells, SizeIs
  <2>2. i \in First(M, i)..i
    BY <2>1
  <2>3. Coef(M, i, i) \in Int /\ Coef(M, i, i) = Entry(M, i, i)
    BY <2>1, <2>2 DEF Entry
  <2>4. t[i] \in Int
    BY DEF Vec
  <2> QED
    BY <2>3, <2>4, TimesInt
<1>2. DOMAIN t = 0..(M.size - 1)
  BY DEF Vec
<1> QED
  BY <1>1, <1>2 DEF Diagonal, Vec

\* The loops of matrix_ldlt_vector, by name.
LEMMA LdltParts ==
  ASSUME NEW M, NEW x
  PROVE  matrix_ldlt_vector(M, x) = LowerAll(M, Diagonal(M, TransposeAll(M, x)))
  BY DEF matrix_ldlt_vector, LowerAll, Diagonal, TransposeAll, Lowered, LowerCell, Transposed, TransposeCell,
         FoldLeft, MapThenFoldSet

\* The loops of __fem_solver_invert, by name.
LEMMA InvertParts ==
  ASSUME NEW M, NEW x
  PROVE  fem_solver_invert(M, x) = BackAll(M, Diagonal(M, InvertAll(M, x)))
  BY DEF fem_solver_invert, BackAll, Diagonal, InvertAll, InvertLine, InvertSum, InvertCell, Backed, BackCell,
         FoldLeft, MapThenFoldSet

\* matrix_ldlt_vector multiplies by the transpose of L, by D and by L.
LEMMA LdltIs ==
  ASSUME NEW M, Mat(M), NEW x \in Vec(M)
  PROVE  /\ matrix_ldlt_vector(M, x) = Lower(M, Diagonal(M, Upper(M, x, M.size)))
         /\ matrix_ldlt_vector(M, x) \in Vec(M)
         /\ Upper(M, x, M.size) \in Vec(M)
<1>1. M.size \in 0..M.size
  BY SizeIs
<1>2. Upper(M, x, M.size) \in Vec(M)
  BY <1>1, UpperVec
<1>3. Diagonal(M, Upper(M, x, M.size)) \in Vec(M)
  BY <1>2, DiagonalIs
<1> QED
  BY <1>2, <1>3, LdltParts, TransposeAllIs, LowerAllIs, LowerVec

\* The resolution undoes the product when the diagonal has inverses that are integers.
LEMMA LdltUndone ==
  ASSUME NEW M, Mat(M), NEW x \in Vec(M), \A i \in 0..(M.size - 1) : Coef(M, i, i) \in {-1, 1}
  PROVE  fem_solver_invert(M, matrix_ldlt_vector(M, x)) = x
<1> DEFINE t == Upper(M, x, M.size)
           d == Diagonal(M, t)
<1>1. matrix_ldlt_vector(M, x) = Lower(M, d) /\ t \in Vec(M)
  BY LdltIs
<1>2. d \in Vec(M) /\ Diagonal(M, d) \in Vec(M)
  BY <1>1, DiagonalIs
<1>3. InvertAll(M, Lower(M, d)) = d
  BY <1>2, InvertAllIs
<1>4. Diagonal(M, d) = t
  <2>1. ASSUME NEW i \in 0..(M.size - 1) PROVE Diagonal(M, d)[i] = t[i]
    <3> DEFINE c == Coef(M, i, i)
    <3>1. d[i] = t[i] * c /\ Diagonal(M, d)[i] = d[i] * c
      BY <1>1, <1>2, DiagonalIs
    <3>2. t[i] \in Int /\ c \in {-1, 1}
      BY <1>1 DEF Vec
    <3> HIDE DEF c, t, d
    <3>3. (t[i] * c) * c = t[i]
      <4>1. CASE c = 1
        BY <3>2, <4>1
      <4>2. CASE c = -1
        BY <3>2, <4>2
      <4> QED
        BY <3>2, <4>1, <4>2
    <3> QED
      BY <3>1, <3>3
  <2> DEFINE u == Diagonal(M, d)
             N == 0..(M.size - 1)
  <2>2. t \in [N -> Int] /\ u \in [N -> Int]
    BY <1>1, <1>2 DEF Vec
  <2>3. \A i \in N : u[i] = t[i]
    BY <2>1
  <2> HIDE DEF d, t, u, N
  <2>4. u = t
    BY <2>2, <2>3
  <2> QED
    BY <2>4 DEF u
<1>5. BackAll(M, t) = x
  BY BackAllIs
<1> HIDE DEF t, d
<1> QED
  BY <1>1, <1>3, <1>4, <1>5, InvertParts

-----------------------------------------------------------------------------
(* The product of the factors *)

\* L
Factor(M, i, j) == CASE i = j -> 1 [] j < i -> Full(M)[i][j] [] j > i -> 0

\* A term of the product of the three factors.
FactorTerm(M, i, j, k) == Factor(M, i, k) * Full(M)[k][k] * Factor(M, j, k)

FactorTerms(M, i, j) == [k \in 0..(M.size - 1) |-> FactorTerm(M, i, j, k)]

\* The entries of L.
LEMMA FactorIs ==
  ASSUME NEW M, Mat(M), NEW i \in 0..(M.size - 1), NEW j \in 0..(M.size - 1)
  PROVE  /\ Factor(M, i, j) = IF i = j THEN 1 ELSE IF j < i THEN Entry(M, i, j) ELSE 0
         /\ Factor(M, i, j) \in Int
<1>1. i \in Nat /\ j \in Nat
  BY SizeIs
<1>2. Full(M)[i][j] = Entry(M, i, j) /\ Entry(M, i, j) \in Int
  BY FullIs, EntryInt
<1>3. i = j \/ (i # j /\ j < i /\ ~ (j > i)) \/ (i # j /\ ~ (j < i) /\ j > i)
  BY <1>1
<1>4. Factor(M, i, j) = IF i = j THEN 1 ELSE IF j < i THEN Entry(M, i, j) ELSE 0
  <2>1. CASE i = j
    <3>1. ~ (j < i) /\ ~ (j > i)
      BY <1>1, <2>1
    <3> QED
      BY <2>1, <3>1 DEF Factor
  <2>2. CASE i # j /\ j < i /\ ~ (j > i)
    BY <1>2, <2>2 DEF Factor
  <2>3. CASE i # j /\ ~ (j < i) /\ j > i
    BY <2>3 DEF Factor
  <2> QED
    BY <1>3, <2>1, <2>2, <2>3
<1> QED
  BY <1>2, <1>4

\* What the factors are multiplied from are integers.
LEMMA FactorTermsInts ==
  ASSUME NEW M, Mat(M), NEW i \in 0..(M.size - 1), NEW j \in 0..(M.size - 1)
  PROVE  /\ \A k \in 0..(M.size - 1) : /\ FactorTerm(M, i, j, k) = Factor(M, i, k) * Entry(M, k, k) * Factor(M, j, k)
                                       /\ FactorTerm(M, i, j, k) \in Int
         /\ Ints(FactorTerms(M, i, j), M.size)
<1>1. ASSUME NEW k \in 0..(M.size - 1)
      PROVE  /\ FactorTerm(M, i, j, k) = Factor(M, i, k) * Entry(M, k, k) * Factor(M, j, k)
             /\ FactorTerm(M, i, j, k) \in Int
  <2>1. Full(M)[k][k] = Entry(M, k, k) /\ Entry(M, k, k) \in Int /\ Factor(M, i, k) \in Int /\ Factor(M, j, k) \in Int
    BY FullIs, EntryInt, FactorIs
  <2>2. Factor(M, i, k) * Entry(M, k, k) \in Int
    BY <2>1, TimesInt
  <2>3. (Factor(M, i, k) * Entry(M, k, k)) * Factor(M, j, k) \in Int
    BY <2>1, <2>2, TimesInt
  <2> QED
    BY <2>1, <2>3 DEF FactorTerm
<1> QED
  BY <1>1 DEF Ints, FactorTerms

\* A coefficient of the product of the factors.
LEMMA FactoredIs ==
  ASSUME NEW M, Mat(M), NEW i \in 0..(M.size - 1), NEW j \in 0..(M.size - 1)
  PROVE  Factored(M)[i][j] = Tot(FactorTerms(M, i, j), M.size)
<1> DEFINE B == 0..(M.size - 1)
           Eq(it) == it = [s \in SUBSET B |-> IF s = {} THEN 0 ELSE
                             FactorTerm(M, i, j, (CHOOSE y \in s : TRUE)) + it[s \ {CHOOSE y \in s : TRUE}]]
           it == CHOOSE it : Eq(it)
           g == FactorTerms(M, i, j)
<1>0. M.size \in Nat
  BY SizeIs
<1>1. Ints(g, M.size)
  BY FactorTermsInts
<1>2. \A k \in B : g[k] = FactorTerm(M, i, j, k)
  BY DEF FactorTerms
<1> HIDE DEF g
<1>3. PICK f \in [SUBSET B -> Int] : Summing(f, M.size, g)
  BY <1>0, <1>1, SummingExists
<1>4. \A s \in SUBSET B : s # {} => (CHOOSE y \in s : TRUE) \in B
  OBVIOUS
<1>5. Eq(f)
  <2>1. f[{}] = 0
    BY <1>3 DEF Summing
  <2>2. ASSUME NEW s \in SUBSET B, s # {}
        PROVE  f[s] = FactorTerm(M, i, j, (CHOOSE y \in s : TRUE)) + f[s \ {CHOOSE y \in s : TRUE}]
    <3>1. f[s] = g[CHOOSE y \in s : TRUE] + f[s \ {CHOOSE y \in s : TRUE}]
      BY <1>3, <2>2 DEF Summing
    <3>2. (CHOOSE y \in s : TRUE) \in B
      BY <1>4, <2>2
    <3>3. g[CHOOSE y \in s : TRUE] = FactorTerm(M, i, j, (CHOOSE y \in s : TRUE))
      BY <1>2, <3>2
    <3> QED
      BY <3>1, <3>3
  <2>3. f = [s \in SUBSET B |-> f[s]]
    OBVIOUS
  <2>4. \A s \in SUBSET B : f[s] = IF s = {} THEN 0 ELSE
          FactorTerm(M, i, j, (CHOOSE y \in s : TRUE)) + f[s \ {CHOOSE y \in s : TRUE}]
    BY <2>1, <2>2
  <2> QED
    BY <2>3, <2>4
<1>6. Eq(it)
  BY <1>5
<1>7. Factored(M)[i][j] = it[B]
  BY DEF Factored, FactorTerm, Factor, MapThenSumSet, MapThenFoldSet
<1> HIDE DEF it
<1>8. Summing(it, M.size, g)
  <2>1. it[{}] = 0
    BY <1>6
  <2>2. ASSUME NEW s \in SUBSET B, s # {} PROVE it[s] = g[CHOOSE y \in s : TRUE] + it[s \ {CHOOSE y \in s : TRUE}]
    <3>1. (CHOOSE y \in s : TRUE) \in B
      BY <1>4, <2>2
    <3>2. g[CHOOSE y \in s : TRUE] = FactorTerm(M, i, j, (CHOOSE y \in s : TRUE))
      BY <1>2, <3>1
    <3>3. it[s] = FactorTerm(M, i, j, (CHOOSE y \in s : TRUE)) + it[s \ {CHOOSE y \in s : TRUE}]
      BY <1>6, <2>2
    <3> QED
      BY <3>2, <3>3
  <2> QED
    BY <2>1, <2>2 DEF Summing
<1>9. it[B] = Tot(g, M.size)
  BY <1>0, <1>1, <1>8, SummingIs
<1> QED
  BY <1>7, <1>9 DEF g

\* f is g before i and zero from there on.
CutAt(f, g, n, i) == \A k \in 0..(n - 1) : f[k] = IF k < i THEN g[k] ELSE 0

\* A sum stops where the values do.
LEMMA TotCut ==
  ASSUME NEW n \in Nat, NEW f, NEW g, NEW i \in 0..n, Ints(g, n), CutAt(f, g, n, i)
  PROVE  Tot(f, n) = Tot(g, i)
<1> DEFINE P == {k \in 0..n : Tot(f, k) = Tot(g, IF k <= i THEN k ELSE i)}
<1>1. Ints(f, n)
  BY DEF Ints, CutAt
<1>2. P \in SUBSET (0..n) /\ 0 \in P
  BY <1>1, TotStep
<1>3. ASSUME NEW k \in 1..n, k - 1 \in P PROVE k \in P
  <2>1. k - 1 \in 0..(n - 1) /\ k \in 0..n /\ k - 1 \in 0..n
    OBVIOUS
  <2>2. Tot(f, k) = Tot(f, k - 1) + f[k - 1] /\ Tot(g, k) = Tot(g, k - 1) + g[k - 1]
    BY <1>1, TotStep
  <2>3. Tot(g, i) \in Int
    BY TotStep
  <2>4. f[k - 1] = IF k - 1 < i THEN g[k - 1] ELSE 0
    BY <2>1 DEF CutAt
  <2>5. Tot(f, k - 1) = Tot(g, IF k - 1 <= i THEN k - 1 ELSE i)
    BY <1>3
  <2>6. CASE k <= i
    <3>1. k - 1 < i /\ k - 1 <= i
      BY <2>6
    <3>2. Tot(f, k) = Tot(g, k)
      BY <2>2, <2>4, <2>5, <3>1
    <3> QED
      BY <2>1, <2>6, <3>2
  <2>7. CASE ~ (k <= i)
    <3>1. ~ (k - 1 < i) /\ (k - 1 <= i => k - 1 = i)
      BY <2>7
    <3>2. Tot(f, k - 1) = Tot(g, i)
      BY <2>5, <3>1
    <3>3. Tot(f, k) = Tot(g, i)
      BY <2>2, <2>3, <2>4, <3>1, <3>2
    <3> QED
      BY <2>1, <2>7, <3>3
  <2> QED
    BY <2>6, <2>7
<1> HIDE DEF P
<1>4. P = 0..n
  BY <1>2, <1>3, UpTo
<1>5. n \in P
  BY <1>4
<1>6. Tot(f, n) = Tot(g, IF n <= i THEN n ELSE i)
  BY <1>5 DEF P
<1>7. n <= i => n = i
  OBVIOUS
<1> QED
  BY <1>6, <1>7

\* What a column of L and x make.
Weights(M, x, k) == [j \in 0..(M.size - 1) |-> Factor(M, j, k) * x[j]]

\* The transpose of L, as the reference multiplies by it.
LEMMA WeightsSum ==
  ASSUME NEW M, Mat(M), NEW x \in Vec(M), NEW k \in 0..(M.size - 1)
  PROVE  /\ Tot(Weights(M, x, k), M.size) = Upper(M, x, M.size)[k]
         /\ Ints(Weights(M, x, k), M.size)
<1> DEFINE n == M.size
           f == Weights(M, x, k)
           g == Column(M, x, k)
<1>1. n \in Nat /\ k \in Nat /\ x[k] \in Int /\ n \in 0..n
  BY SizeIs DEF Vec
<1>2. Ints(g, n) /\ Tot(g, n) \in Int
  BY <1>1, ColumnInts
<1>3. ASSUME NEW j \in 0..(n - 1) PROVE f[j] = (IF j = k THEN g[j] + x[k] ELSE g[j]) /\ f[j] \in Int
  <2>1. f[j] = Factor(M, j, k) * x[j] /\ g[j] = (IF k < j THEN Entry(M, k, j) * x[j] ELSE 0)
    BY DEF Weights, Column
  <2>2. /\ Factor(M, j, k) = IF j = k THEN 1 ELSE IF k < j THEN Entry(M, j, k) ELSE 0
        /\ Factor(M, j, k) \in Int /\ x[j] \in Int /\ Entry(M, j, k) = Entry(M, k, j)
    BY FactorIs, EntryInt DEF Vec
  <2>3. f[j] \in Int
    BY <2>1, <2>2, TimesInt
  <2>4. CASE j = k
    <3>1. ~ (k < j)
      BY <1>1, <2>4
    <3>2. 1 * x[k] = x[k] /\ 0 + x[k] = x[k]
      BY <1>1
    <3> QED
      BY <2>1, <2>2, <2>3, <2>4, <3>1, <3>2
  <2>5. CASE j # k /\ k < j
    BY <2>1, <2>2, <2>3, <2>5
  <2>6. CASE j # k /\ ~ (k < j)
    <3>1. 0 * x[j] = 0
      BY <2>2
    <3> QED
      BY <2>1, <2>2, <2>3, <2>6, <3>1
  <2> QED
    BY <2>4, <2>5, <2>6
<1>4. MoreAt(f, g, n, k, x[k])
  BY <1>3 DEF MoreAt
<1>5. Ints(f, n)
  BY <1>3 DEF Ints
<1>6. Upper(M, x, n)[k] = x[k] + Tot(g, n)
  BY DEF Upper
<1> HIDE DEF f, g, n
<1>7. k \in 0..(n - 1)
  BY DEF n
<1>8. Tot(f, n) = Tot(g, n) + x[k]
  BY <1>1, <1>2, <1>4, <1>7, TotChange
<1> QED
  BY <1>1, <1>2, <1>5, <1>6, <1>8 DEF f, g, n

\* What a row of L and d make.
Loads(M, d, i) == [k \in 0..(M.size - 1) |-> Factor(M, i, k) * d[k]]

\* L, as the reference multiplies by it.
LEMMA LoadsSum ==
  ASSUME NEW M, Mat(M), NEW d \in Vec(M), NEW i \in 0..(M.size - 1)
  PROVE  Tot(Loads(M, d, i), M.size) = Lower(M, d)[i] /\ Ints(Loads(M, d, i), M.size)
<1> DEFINE n == M.size
           f == Loads(M, d, i)
           g == Line(M, d, i)
           c == [k \in 0..(n - 1) |-> IF k < i THEN g[k] ELSE 0]
<1>1. n \in Nat /\ i \in Nat /\ d[i] \in Int /\ i \in 0..n
  <2>1. n \in Nat /\ i \in Nat /\ d[i] \in Int
    BY SizeIs DEF Vec
  <2> QED
    BY <2>1
<1>2. Ints(g, n) /\ Tot(g, i) \in Int
  BY <1>1, LineInts
<1>3. ASSUME NEW k \in 0..(n - 1) PROVE f[k] = (IF k = i THEN c[k] + d[i] ELSE c[k]) /\ f[k] \in Int /\ c[k] \in Int
  <2>1. f[k] = Factor(M, i, k) * d[k] /\ c[k] = (IF k < i THEN Entry(M, i, k) * d[k] ELSE 0)
    BY DEF Loads, Line
  <2>2. /\ Factor(M, i, k) = IF i = k THEN 1 ELSE IF k < i THEN Entry(M, i, k) ELSE 0
        /\ Factor(M, i, k) \in Int /\ d[k] \in Int /\ Entry(M, i, k) \in Int
    BY FactorIs, EntryInt DEF Vec
  <2>3. f[k] \in Int /\ Entry(M, i, k) * d[k] \in Int
    BY <2>1, <2>2, TimesInt
  <2> HIDE DEF c, f
  <2>4. CASE i = k
    <3>1. ~ (k < i)
      BY <1>1, <2>4
    <3>2. 1 * d[i] = d[i] /\ 0 + d[i] = d[i]
      BY <1>1
    <3> QED
      BY <2>1, <2>2, <2>3, <2>4, <3>1, <3>2
  <2>5. CASE i # k /\ k < i
    BY <2>1, <2>2, <2>3, <2>5
  <2>6. CASE i # k /\ ~ (k < i)
    <3>1. 0 * d[k] = 0
      BY <2>2
    <3> QED
      BY <2>1, <2>2, <2>3, <2>6, <3>1
  <2> QED
    BY <2>4, <2>5, <2>6
<1>4. MoreAt(f, c, n, i, d[i]) /\ Ints(c, n) /\ Ints(f, n)
  <2> HIDE DEF f, c
  <2> QED
    BY <1>3 DEF MoreAt, Ints
<1>5. CutAt(c, g, n, i)
  BY DEF CutAt
<1>6. Lower(M, d)[i] = d[i] + Tot(g, i)
  BY DEF Lower
<1> HIDE DEF f, g, c, n
<1>7. i \in 0..(n - 1)
  BY DEF n
<1>8. Tot(f, n) = Tot(c, n) + d[i]
  BY <1>1, <1>4, <1>7, TotChange
<1>9. Tot(c, n) = Tot(g, i)
  BY <1>1, <1>2, <1>5, TotCut
<1> QED
  BY <1>1, <1>2, <1>4, <1>6, <1>8, <1>9 DEF f, n

\* The product with the factors is that of L D transpose(L).
LEMMA FactoredTimes ==
  ASSUME NEW M, Mat(M), NEW x \in Vec(M)
  PROVE  Times(Factored(M), x) = matrix_ldlt_vector(M, x)
<1> DEFINE n == M.size
           F == Factored(M)
           t == Upper(M, x, n)
           d == Diagonal(M, t)
           y == Lower(M, d)
<1>1. n \in Nat /\ x \in [0..(n - 1) -> Int]
  BY SizeIs DEF Vec
<1>2. matrix_ldlt_vector(M, x) = y /\ y \in Vec(M) /\ t \in Vec(M)
  BY LdltIs
<1>3. d \in Vec(M) /\ \A k \in 0..(n - 1) : d[k] = t[k] * Entry(M, k, k)
  <2>1. \A k \in 0..(n - 1) : Coef(M, k, k) = Entry(M, k, k) /\ d[k] = t[k] * Coef(M, k, k)
    BY <1>2, DiagonalIs
  <2> QED
    BY <1>2, <2>1, DiagonalIs
<1>4. \A i, j \in 0..(n - 1) : F[i][j] = Tot(FactorTerms(M, i, j), n) /\ F[i][j] \in Int
  <2> SUFFICES ASSUME NEW i \in 0..(n - 1), NEW j \in 0..(n - 1)
               PROVE  F[i][j] = Tot(FactorTerms(M, i, j), n) /\ F[i][j] \in Int
    OBVIOUS
  <2>1. F[i][j] = Tot(FactorTerms(M, i, j), n)
    BY FactoredIs
  <2>2. Ints(FactorTerms(M, i, j), n) /\ n \in 0..n
    BY <1>1, FactorTermsInts
  <2>3. Tot(FactorTerms(M, i, j), n) \in Int
    BY <1>1, <2>2, TotStep
  <2> QED
    BY <2>1, <2>3
<1> HIDE DEF F
<1>5. Times(F, x) = [i \in 0..(n - 1) |-> Tot(RowTimes(F, x, n, i), n)]
  <2> HIDE DEF n
  <2> QED
    BY <1>1, <1>4, TimesIs
<1>6. ASSUME NEW i \in 0..(n - 1) PROVE Tot(RowTimes(F, x, n, i), n) = y[i]
  <2> DEFINE N == 0..(n - 1)
             G == [j \in N |-> [k \in N |-> x[j] * FactorTerm(M, i, j, k)]]
             C == [k \in N |-> [j \in N |-> x[j] * FactorTerm(M, i, j, k)]]
             r == RowTimes(F, x, n, i)
             c == Loads(M, d, i)
  <2>1. \A j \in N : x[j] \in Int
    BY <1>1
  <2>2. \A j \in N : Ints(G[j], n)
    <3> SUFFICES ASSUME NEW j \in N, NEW k \in N PROVE x[j] * FactorTerm(M, i, j, k) \in Int
      BY DEF Ints
    <3>1. FactorTerm(M, i, j, k) \in Int /\ x[j] \in Int
      BY <2>1, FactorTermsInts
    <3> QED
      BY <3>1, TimesInt
  <2>3. \A j \in N : r[j] = Tot(G[j], n)
    <3> SUFFICES ASSUME NEW j \in N PROVE r[j] = Tot(G[j], n)
      OBVIOUS
    <3>1. r[j] = F[i][j] * x[j]
      BY DEF RowTimes
    <3>2. Multiple(G[j], x[j], FactorTerms(M, i, j), n)
      BY DEF Multiple, FactorTerms
    <3>3. Ints(FactorTerms(M, i, j), n)
      BY FactorTermsInts
    <3> DEFINE g == G[j]
               e == FactorTerms(M, i, j)
    <3> HIDE DEF g, e, n
    <3>4. Tot(g, n) = x[j] * Tot(e, n)
      BY <1>1, <2>1, <3>2, <3>3, TotScale DEF g, e
    <3>5. Tot(e, n) = F[i][j] /\ F[i][j] \in Int /\ x[j] \in Int
      BY <1>4, <2>1 DEF e
    <3>6. x[j] * F[i][j] = F[i][j] * x[j]
      BY <3>5, TimesInt
    <3> QED
      BY <3>1, <3>4, <3>5, <3>6 DEF g
  <2>4. \A k \in N, j \in N : C[k][j] = G[j][k]
    OBVIOUS
  <2>5. \A k \in N : c[k] = Tot(C[k], n)
    <3> SUFFICES ASSUME NEW k \in N PROVE c[k] = Tot(C[k], n)
      OBVIOUS
    <3> DEFINE a == Factor(M, i, k) * Entry(M, k, k)
               g == C[k]
               w == Weights(M, x, k)
    <3>1. Factor(M, i, k) \in Int /\ Entry(M, k, k) \in Int /\ a \in Int
      BY FactorIs, EntryInt, TimesInt
    <3>2. Tot(w, n) = t[k] /\ Ints(w, n)
      BY WeightsSum
    <3>3. Multiple(g, a, w, n)
      <4> SUFFICES ASSUME NEW j \in N PROVE g[j] = a * w[j]
        BY DEF Multiple
      <4>1. g[j] = x[j] * FactorTerm(M, i, j, k) /\ w[j] = Factor(M, j, k) * x[j]
        BY DEF Weights
      <4>2. FactorTerm(M, i, j, k) = a * Factor(M, j, k)
        BY FactorTermsInts
      <4>3. Factor(M, j, k) \in Int /\ x[j] \in Int
        BY <2>1, FactorIs
      <4> HIDE DEF a
      <4>4. x[j] * (a * Factor(M, j, k)) = a * (Factor(M, j, k) * x[j])
        <5>1. a * Factor(M, j, k) \in Int
          BY <3>1, <4>3, TimesInt
        <5>2. x[j] * (a * Factor(M, j, k)) = (a * Factor(M, j, k)) * x[j]
          BY <4>3, <5>1, TimesInt
        <5>3. (a * Factor(M, j, k)) * x[j] = a * (Factor(M, j, k) * x[j])
          BY <3>1, <4>3, TimesAssociates
        <5> QED
          BY <5>2, <5>3
      <4> QED
        BY <4>1, <4>2, <4>4
    <3> HIDE DEF g, w, a, n
    <3>4. Tot(g, n) = a * Tot(w, n)
      BY <1>1, <3>1, <3>2, <3>3, TotScale
    <3>5. c[k] = Factor(M, i, k) * d[k]
      BY DEF Loads, n
    <3>6. t[k] \in Int
      BY <1>2 DEF Vec, n
    <3>7. a * t[k] = Factor(M, i, k) * d[k]
      <4>1. a * t[k] = Factor(M, i, k) * (Entry(M, k, k) * t[k])
        BY <3>1, <3>6, TimesAssociates DEF a
      <4>2. Entry(M, k, k) * t[k] = t[k] * Entry(M, k, k)
        BY <3>1, <3>6, TimesInt
      <4> QED
        BY <1>3, <4>1, <4>2
    <3> QED
      BY <3>2, <3>4, <3>5, <3>7 DEF g
  <2> HIDE DEF G, C, r, c, n
  <2>6. Tot(r, n) = Tot(c, n)
    <3>1. Swaps(G, r, C, c, n, n)
      BY <2>2, <2>3, <2>4, <2>5 DEF Swaps, N
    <3> HIDE DEF d, t, y
    <3> QED
      BY <1>1, <3>1, TotSwap
  <2>7. Tot(c, n) = y[i]
    BY <1>3, LoadsSum DEF c, n
  <2> QED
    BY <2>6, <2>7 DEF r
<1>7. y = [i \in 0..(n - 1) |-> y[i]]
  BY <1>2 DEF Vec
<1> HIDE DEF y, n
<1> QED
  BY <1>2, <1>5, <1>6, <1>7 DEF F

-----------------------------------------------------------------------------
(* The dot product *)

\* A sum of __fem_vector_dot_n, over a sequence of places, and its turns.
DotFold(a, b, s) == FoldLeft(LAMBDA w, i : w + a[i] * b[i], 0, s)

DotCells(a, b, n) == [p \in Int \X (0..(n - 1)) |-> p[1] + a[p[2]] * b[p[2]]]

\* The products.
Dots(a, b, n) == [i \in 0..(n - 1) |-> a[i] * b[i]]

\* The products of two vectors, row by row.
LEMMA DotsInts ==
  ASSUME NEW n \in Nat, NEW a \in [0..(n - 1) -> Int], NEW b \in [0..(n - 1) -> Int]
  PROVE  /\ Ints(Dots(a, b, n), n)
         /\ \A i \in 0..(n - 1) : a[i] * b[i] \in Int /\ Dots(a, b, n)[i] = a[i] * b[i]
<1>1. \A i \in 0..(n - 1) : a[i] \in Int /\ b[i] \in Int
  OBVIOUS
<1>2. \A i \in 0..(n - 1) : a[i] * b[i] \in Int
  BY <1>1, TimesInt
<1> QED
  BY <1>2 DEF Ints, Dots

\* A sum of products.
LEMMA DotFolded ==
  ASSUME NEW n \in Nat, NEW a \in [0..(n - 1) -> Int], NEW b \in [0..(n - 1) -> Int],
         NEW t \in Seq(0..(n - 1))
  PROVE  Folded(DotFold(a, b, t), Int, 0, t, DotCells(a, b, n))
<1> DEFINE D == DOMAIN t
           Eq(it) == it = [u \in SUBSET D |-> IF u = {} THEN 0 ELSE (it[u \ {Max(u)}] + a[t[Max(u)]] * b[t[Max(u)]])]
           it == CHOOSE it : Eq(it)
<1>0. 0 \in Int /\ t \in Seq(0..(n - 1)) /\ D = 1..Len(t)
  OBVIOUS
<1>1. DotCells(a, b, n) \in [Int \X (0..(n - 1)) -> Int]
  BY DotsInts DEF DotCells
<1>2. ASSUME NEW f, NEW u \in SUBSET D, u # {}, f[u \ {Max(u)}] \in Int
      PROVE  DotCells(a, b, n)[<<f[u \ {Max(u)}], t[Max(u)]>>] = (f[u \ {Max(u)}] + a[t[Max(u)]] * b[t[Max(u)]])
  <2>1. t[Max(u)] \in 0..(n - 1)
    BY <1>0, <1>2, MaxRank
  <2> QED
    BY <1>2, <2>1 DEF DotCells
<1>3. PICK f \in [SUBSET D -> Int] : Folding(f, Int, 0, t, DotCells(a, b, n))
  <2>1. \E f \in [SUBSET (1..Len(t)) -> Int] : Folding(f, Int, 0, t, DotCells(a, b, n))
    BY <1>0, <1>1, FoldExists
  <2> QED
    BY <1>0, <2>1
<1>4. \A u \in SUBSET D : u \ {Max(u)} \in SUBSET D
  OBVIOUS
<1>5. Eq(f)
  <2>1. f[{}] = 0
    BY <1>3 DEF Folding
  <2>2. ASSUME NEW u \in SUBSET D, u # {} PROVE f[u] = (f[u \ {Max(u)}] + a[t[Max(u)]] * b[t[Max(u)]])
    <3>1. f[u \ {Max(u)}] \in Int
      BY <1>4
    <3>2. f[u] = DotCells(a, b, n)[<<f[u \ {Max(u)}], t[Max(u)]>>]
      BY <1>0, <1>3, <2>2, <3>1 DEF Folding
    <3> QED
      BY <1>2, <2>2, <3>1, <3>2
  <2>3. f = [u \in SUBSET D |-> f[u]]
    OBVIOUS
  <2> QED
    BY <2>1, <2>2, <2>3
<1>6. Eq(it)
  BY <1>5
<1>7. DotFold(a, b, t) = it[D]
  BY DEF DotFold, FoldLeft, MapThenFoldSet
<1> HIDE DEF it
<1>8. Folding(it, Int, 0, t, DotCells(a, b, n))
  BY <1>0, <1>2, <1>6 DEF Folding
<1>9. Folded(it[1..Len(t)], Int, 0, t, DotCells(a, b, n))
  BY <1>0, <1>1, <1>8, FoldIs
<1> QED
  BY <1>0, <1>7, <1>9

\* A value in four, from the k-th.
Every(p, k, m) == [q \in 0..(m - 1) |-> p[4 * q + k]]

\* One of the four sums of __fem_vector_dot_n has every fourth product.
LEMMA PartIs ==
  ASSUME NEW n \in Nat, NEW a \in [0..(n - 1) -> Int], NEW b \in [0..(n - 1) -> Int],
         NEW m \in Nat, 4 * m <= n, NEW k \in 0..3
  PROVE  /\ DotFold(a, b, [q \in 1..m |-> 4 * (q - 1) + k]) = Tot(Every(Dots(a, b, n), k, m), m)
         /\ Ints(Every(Dots(a, b, n), k, m), m)
<1> DEFINE t == [q \in 1..m |-> 4 * (q - 1) + k]
           p == Dots(a, b, n)
           g == Every(p, k, m)
<1>1. \A q \in 1..m : 4 * (q - 1) + k \in 0..(n - 1)
  OBVIOUS
<1>2. t \in Seq(0..(n - 1)) /\ Len(t) = m /\ \A q \in 1..m : t[q] = 4 * (q - 1) + k
  <2>1. t \in [1..m -> 0..(n - 1)]
    BY <1>1
  <2> QED
    BY <2>1
<1>3. \A q \in 0..(m - 1) : 4 * q + k \in 0..(n - 1)
  OBVIOUS
<1>4. Ints(g, m) /\ \A q \in 0..(m - 1) : g[q] = p[4 * q + k]
  <2>1. Ints(p, n)
    BY DotsInts
  <2> HIDE DEF p
  <2> QED
    BY <1>3, <2>1 DEF Ints, Every
<1> HIDE DEF t, g
<1>5. PICK h \in [0..Len(t) -> Int] :
        /\ h[0] = 0 /\ DotFold(a, b, t) = h[Len(t)]
        /\ \A q \in 1..Len(t) : h[q] = DotCells(a, b, n)[<<h[q - 1], t[q]>>]
  BY <1>2, DotFolded DEF Folded
<1> DEFINE P == {q \in 0..m : h[q] = Tot(g, q)}
<1>6. 0 \in P
  BY <1>4, <1>5, TotStep
<1>7. ASSUME NEW q \in 1..m, q - 1 \in P PROVE q \in P
  <2>1. h[q - 1] = Tot(g, q - 1) /\ h[q - 1] \in Int /\ q - 1 \in 0..(m - 1)
    <3>1. q - 1 \in 0..m /\ q - 1 \in 0..(m - 1)
      OBVIOUS
    <3> QED
      BY <1>2, <1>5, <1>7, <3>1
  <2> DEFINE j == 4 * (q - 1) + k
  <2>2. t[q] = j /\ j \in 0..(n - 1)
    BY <1>1, <1>2
  <2>3. h[q] = DotCells(a, b, n)[<<h[q - 1], j>>]
    BY <1>2, <1>5, <2>2
  <2>4. g[q - 1] = p[j]
    BY <1>4, <2>1
  <2> HIDE DEF j
  <2>5. h[q] = h[q - 1] + a[j] * b[j] /\ p[j] = a[j] * b[j]
    BY <2>1, <2>2, <2>3 DEF DotCells, Dots
  <2>6. Tot(g, q) = Tot(g, q - 1) + g[q - 1]
    BY <1>4, TotStep
  <2> QED
    BY <2>1, <2>4, <2>5, <2>6
<1>8. P = 0..m
  <2>1. P \in SUBSET (0..m)
    OBVIOUS
  <2> HIDE DEF P
  <2> QED
    BY <1>6, <1>7, <2>1, UpTo
<1>9. m \in P
  <2> HIDE DEF P
  <2> QED
    BY <1>8
<1> QED
  BY <1>2, <1>4, <1>5, <1>9 DEF t, g

\* Every four values together.
LEMMA FourParts ==
  ASSUME NEW n \in Nat, NEW p, Ints(p, n), NEW m \in Nat, 4 * m <= n,
         \A k \in 0..3 : Ints(Every(p, k, m), m)
  PROVE  Tot(Every(p, 0, m), m) + Tot(Every(p, 1, m), m) + Tot(Every(p, 2, m), m) + Tot(Every(p, 3, m), m) = Tot(p, 4 * m)
<1> DEFINE g(k) == Every(p, k, m)
           P == {q \in 0..m : Tot(g(0), q) + Tot(g(1), q) + Tot(g(2), q) + Tot(g(3), q) = Tot(p, 4 * q)}
<1>1. \A q \in 0..(m - 1) : g(0)[q] = p[4 * q] /\ g(1)[q] = p[4 * q + 1] /\ g(2)[q] = p[4 * q + 2] /\ g(3)[q] = p[4 * q + 3]
  BY DEF Every
<1>2. Ints(g(0), m) /\ Ints(g(1), m) /\ Ints(g(2), m) /\ Ints(g(3), m)
  OBVIOUS
<1>3. /\ Tot(g(0), 0) = 0 /\ Tot(g(1), 0) = 0 /\ Tot(g(2), 0) = 0 /\ Tot(g(3), 0) = 0
      /\ \A q \in 0..m : Tot(g(0), q) \in Int /\ Tot(g(1), q) \in Int /\ Tot(g(2), q) \in Int /\ Tot(g(3), q) \in Int
      /\ \A q \in 1..m : /\ Tot(g(0), q) = Tot(g(0), q - 1) + g(0)[q - 1]
                         /\ Tot(g(1), q) = Tot(g(1), q - 1) + g(1)[q - 1]
                         /\ Tot(g(2), q) = Tot(g(2), q - 1) + g(2)[q - 1]
                         /\ Tot(g(3), q) = Tot(g(3), q - 1) + g(3)[q - 1]
  <2> HIDE DEF g
  <2> QED
    BY <1>2, TotStep
<1>4. /\ Tot(p, 0) = 0 /\ \A q \in 0..n : Tot(p, q) \in Int
      /\ \A q \in 1..n : Tot(p, q) = Tot(p, q - 1) + p[q - 1]
  BY TotStep
<1> HIDE DEF g
<1>5. 0 \in P
  BY <1>3, <1>4
<1>6. ASSUME NEW q \in 1..m, q - 1 \in P PROVE q \in P
  <2> DEFINE j == 4 * (q - 1)
  <2>1. q - 1 \in 0..(m - 1) /\ q - 1 \in 0..m /\ 4 * q = j + 4 /\ j \in Nat /\ j + 4 <= n
    OBVIOUS
  <2>2. Tot(g(0), q - 1) + Tot(g(1), q - 1) + Tot(g(2), q - 1) + Tot(g(3), q - 1) = Tot(p, j)
    BY <1>6
  <2>3. g(0)[q - 1] = p[j] /\ g(1)[q - 1] = p[j + 1] /\ g(2)[q - 1] = p[j + 2] /\ g(3)[q - 1] = p[j + 3]
    BY <1>1, <2>1
  <2>4. p[j] \in Int /\ p[j + 1] \in Int /\ p[j + 2] \in Int /\ p[j + 3] \in Int
    <3> HIDE DEF j
    <3>1. j \in 0..(n - 1) /\ j + 1 \in 0..(n - 1) /\ j + 2 \in 0..(n - 1) /\ j + 3 \in 0..(n - 1)
      BY <2>1
    <3> QED
      BY <3>1 DEF Ints
  <2>5. /\ Tot(p, j + 1) = Tot(p, j) + p[j] /\ Tot(p, j + 2) = Tot(p, j + 1) + p[j + 1]
        /\ Tot(p, j + 3) = Tot(p, j + 2) + p[j + 2] /\ Tot(p, j + 4) = Tot(p, j + 3) + p[j + 3]
        /\ Tot(p, j) \in Int
    <3> HIDE DEF j
    <3>1. j + 1 \in 1..n /\ j + 2 \in 1..n /\ j + 3 \in 1..n /\ j + 4 \in 1..n /\ j \in 0..n
      BY <2>1
    <3>2. (j + 1) - 1 = j /\ (j + 2) - 1 = j + 1 /\ (j + 3) - 1 = j + 2 /\ (j + 4) - 1 = j + 3
      BY <2>1
    <3> QED
      BY <1>4, <3>1, <3>2
  <2>6. /\ Tot(g(0), q - 1) \in Int /\ Tot(g(1), q - 1) \in Int /\ Tot(g(2), q - 1) \in Int /\ Tot(g(3), q - 1) \in Int
        /\ Tot(g(0), q) = Tot(g(0), q - 1) + p[j]
        /\ Tot(g(1), q) = Tot(g(1), q - 1) + p[j + 1]
        /\ Tot(g(2), q) = Tot(g(2), q - 1) + p[j + 2]
        /\ Tot(g(3), q) = Tot(g(3), q - 1) + p[j + 3]
    BY <1>3, <2>1, <2>3
  <2> HIDE DEF j
  <2>7. Tot(g(0), q) + Tot(g(1), q) + Tot(g(2), q) + Tot(g(3), q) = Tot(p, j + 4)
    BY <2>2, <2>4, <2>5, <2>6
  <2> QED
    BY <2>1, <2>7
<1>7. P = 0..m
  <2>1. P \in SUBSET (0..m)
    OBVIOUS
  <2> HIDE DEF P
  <2> QED
    BY <1>5, <1>6, <2>1, UpTo
<1>8. m \in P
  <2> HIDE DEF P
  <2> QED
    BY <1>7
<1> QED
  BY <1>8 DEF g

\* What is left, from the last down.
LEMMA LeftIs ==
  ASSUME NEW n \in Nat, NEW a \in [0..(n - 1) -> Int], NEW b \in [0..(n - 1) -> Int], NEW l \in 0..n
  PROVE  DotFold(a, b, [q \in 1..l |-> n - q]) + Tot(Dots(a, b, n), n - l) = Tot(Dots(a, b, n), n)
<1> DEFINE t == [q \in 1..l |-> n - q]
           p == Dots(a, b, n)
<1>1. \A q \in 1..l : n - q \in 0..(n - 1)
  OBVIOUS
<1>2. t \in Seq(0..(n - 1)) /\ Len(t) = l /\ l \in Nat /\ \A q \in 1..l : t[q] = n - q
  <2>1. t \in [1..l -> 0..(n - 1)]
    BY <1>1
  <2> QED
    BY <2>1
<1>3. Ints(p, n) /\ \A i \in 0..(n - 1) : p[i] = a[i] * b[i] /\ p[i] \in Int
  <2>1. Ints(p, n)
    BY DotsInts
  <2>2. \A i \in 0..(n - 1) : p[i] = a[i] * b[i]
    BY DotsInts
  <2> HIDE DEF p
  <2> QED
    BY <2>1, <2>2 DEF Ints
<1> HIDE DEF t, p
<1>4. /\ \A q \in 0..n : Tot(p, q) \in Int
      /\ \A q \in 1..n : Tot(p, q) = Tot(p, q - 1) + p[q - 1]
  BY <1>3, TotStep
<1>5. PICK h \in [0..Len(t) -> Int] :
        /\ h[0] = 0 /\ DotFold(a, b, t) = h[Len(t)]
        /\ \A q \in 1..Len(t) : h[q] = DotCells(a, b, n)[<<h[q - 1], t[q]>>]
  BY <1>2, DotFolded DEF Folded
<1> DEFINE P == {q \in 0..l : h[q] + Tot(p, n - q) = Tot(p, n)}
<1>6. 0 \in P
  <2>1. n - 0 = n /\ n \in 0..n
    OBVIOUS
  <2>2. h[0] + Tot(p, n - 0) = Tot(p, n)
    BY <1>4, <1>5, <2>1
  <2> QED
    BY <2>2
<1>7. ASSUME NEW q \in 1..l, q - 1 \in P PROVE q \in P
  <2> DEFINE j == n - q
  <2>1. n - (q - 1) = j + 1 /\ q - 1 \in 0..l /\ j \in 0..(n - 1) /\ j + 1 \in 1..n /\ j \in 0..n /\ (j + 1) - 1 = j
    OBVIOUS
  <2>2. h[q - 1] + Tot(p, n - (q - 1)) = Tot(p, n) /\ h[q - 1] \in Int /\ t[q] = j
    BY <1>2, <1>5, <1>7, <2>1
  <2> HIDE DEF j
  <2>3. h[q - 1] + Tot(p, j + 1) = Tot(p, n)
    BY <2>1, <2>2
  <2>4. h[q] = h[q - 1] + p[j]
    <3>1. h[q] = DotCells(a, b, n)[<<h[q - 1], j>>]
      BY <1>2, <1>5, <2>2
    <3>2. h[q] = h[q - 1] + a[j] * b[j]
      BY <2>1, <2>2, <3>1 DEF DotCells
    <3> QED
      BY <1>3, <2>1, <3>2
  <2>5. Tot(p, j + 1) = Tot(p, j) + p[j] /\ Tot(p, j) \in Int /\ p[j] \in Int
    BY <1>3, <1>4, <2>1
  <2>6. h[q] + Tot(p, j) = Tot(p, n)
    <3> DEFINE x == h[q - 1]
               y == Tot(p, j)
               z == p[j]
    <3>1. x \in Int /\ y \in Int /\ z \in Int /\ h[q] = x + z /\ x + Tot(p, j + 1) = Tot(p, n) /\ Tot(p, j + 1) = y + z
      BY <2>2, <2>3, <2>4, <2>5
    <3> HIDE DEF x, y, z
    <3>2. (x + z) + y = x + (y + z)
      BY <3>1
    <3> QED
      BY <3>1, <3>2 DEF y
  <2> QED
    BY <2>6 DEF j
<1>8. P = 0..l
  <2>1. P \in SUBSET (0..l)
    OBVIOUS
  <2> HIDE DEF P
  <2> QED
    BY <1>2, <1>6, <1>7, <2>1, UpTo
<1>9. l \in P
  <2> HIDE DEF P
  <2> QED
    BY <1>2, <1>8
<1> QED
  BY <1>2, <1>5, <1>9 DEF t, p

\* The unrolled dot product is the sum.
LEMMA DotIs ==
  ASSUME NEW n \in Nat, NEW a \in [0..(n - 1) -> Int], NEW b \in [0..(n - 1) -> Int]
  PROVE  fem_vector_dot(a, b) = Tot(Dots(a, b, n), n)
<1> DEFINE m == n \div 4
           p == Dots(a, b, n)
           l == n - m * 4
           Part(k) == DotFold(a, b, [q \in 1..m |-> 4 * (q - 1) + k])
           left == DotFold(a, b, [q \in 1..l |-> n - q])
<1>1. Cardinality(DOMAIN a) = n
  <2>1. DOMAIN a = 0..(n - 1)
    OBVIOUS
  <2>2. Cardinality(0..(n - 1)) = n
    BY FS_Interval
  <2> QED
    BY <2>1, <2>2
<1>2. m \in Nat /\ 4 * m <= n /\ l \in 0..n /\ n - l = 4 * m
  OBVIOUS
<1>3. fem_vector_dot(a, b) = Part(0) + Part(1) + Part(2) + Part(3) + left
  BY <1>1 DEF fem_vector_dot, DotFold
<1> HIDE DEF m, l
<1>4. ASSUME NEW k \in 0..3 PROVE Part(k) = Tot(Every(p, k, m), m) /\ Ints(Every(p, k, m), m)
  BY <1>2, PartIs
<1>5. left + Tot(p, 4 * m) = Tot(p, n)
  BY <1>2, LeftIs
<1>6. Ints(p, n)
  BY DotsInts
<1> HIDE DEF p, Part, left
<1>7. Part(0) + Part(1) + Part(2) + Part(3) = Tot(p, 4 * m)
  <2>1. \A k \in 0..3 : Ints(Every(p, k, m), m)
    BY <1>4
  <2>2. Tot(Every(p, 0, m), m) + Tot(Every(p, 1, m), m) + Tot(Every(p, 2, m), m) + Tot(Every(p, 3, m), m) = Tot(p, 4 * m)
    BY <1>2, <1>6, <2>1, FourParts
  <2>3. 0 \in 0..3 /\ 1 \in 0..3 /\ 2 \in 0..3 /\ 3 \in 0..3
    OBVIOUS
  <2> QED
    BY <1>4, <2>2, <2>3
<1>8. Tot(p, 4 * m) \in Int /\ Tot(p, n) \in Int
  <2>1. 4 * m \in 0..n /\ n \in 0..n
    BY <1>2
  <2> QED
    BY <1>6, <2>1, TotStep
<1>9. left \in Int
  <2>1. [q \in 1..l |-> n - q] \in Seq(0..(n - 1))
    <3>1. \A q \in 1..l : n - q \in 0..(n - 1)
      BY <1>2
    <3>2. [q \in 1..l |-> n - q] \in [1..l -> 0..(n - 1)] /\ l \in Nat
      BY <1>2, <3>1
    <3> QED
      BY <3>2
  <2> DEFINE t == [q \in 1..l |-> n - q]
  <2> HIDE DEF t
  <2>2. Folded(DotFold(a, b, t), Int, 0, t, DotCells(a, b, n))
    BY <2>1, DotFolded DEF t
  <2>30. Len(t) \in Nat
    BY <2>1, LenProperties DEF t
  <2>3. Len(t) \in 0..Len(t)
    BY <2>30
  <2>4. DotFold(a, b, t) \in Int
    BY <2>2, <2>3 DEF Folded
  <2> QED
    BY <2>4 DEF left, t
<1> QED
  BY <1>3, <1>5, <1>7, <1>8, <1>9 DEF p

\* The sum of the squares.
LEMMA SquaresIs ==
  ASSUME NEW n \in Nat, NEW x \in [0..(n - 1) -> Int]
  PROVE  MapThenSumSet(LAMBDA i : x[i] * x[i], DOMAIN x) = Tot(Dots(x, x, n), n)
<1> DEFINE B == DOMAIN x
           Eq(it) == it = [s \in SUBSET B |-> IF s = {} THEN 0 ELSE
                             x[(CHOOSE y \in s : TRUE)] * x[(CHOOSE y \in s : TRUE)] + it[s \ {CHOOSE y \in s : TRUE}]]
           it == CHOOSE it : Eq(it)
           g == Dots(x, x, n)
<1>0. n \in Nat
  OBVIOUS
<1>00. B = 0..(n - 1)
  OBVIOUS
<1>1. Ints(g, n)
  BY DotsInts
<1>2. \A k \in B : g[k] = x[k] * x[k]
  BY <1>00, DotsInts
<1>02. MapThenSumSet(LAMBDA i : x[i] * x[i], DOMAIN x) = it[B]
  BY DEF MapThenSumSet, MapThenFoldSet
<1> HIDE DEF g, B
<1>3. PICK f \in [SUBSET B -> Int] : Summing(f, n, g)
  BY <1>00, <1>0, <1>1, SummingExists
<1>4. \A s \in SUBSET B : s # {} => (CHOOSE y \in s : TRUE) \in B
  OBVIOUS
<1>5. Eq(f)
  <2>1. f[{}] = 0
    BY <1>00, <1>3 DEF Summing
  <2>2. ASSUME NEW s \in SUBSET B, s # {}
        PROVE  f[s] = x[(CHOOSE y \in s : TRUE)] * x[(CHOOSE y \in s : TRUE)] + f[s \ {CHOOSE y \in s : TRUE}]
    <3>1. f[s] = g[CHOOSE y \in s : TRUE] + f[s \ {CHOOSE y \in s : TRUE}]
      BY <1>00, <1>3, <2>2 DEF Summing
    <3>2. (CHOOSE y \in s : TRUE) \in B
      BY <1>4, <2>2
    <3>3. g[CHOOSE y \in s : TRUE] = x[(CHOOSE y \in s : TRUE)] * x[(CHOOSE y \in s : TRUE)]
      BY <1>2, <3>2
    <3> QED
      BY <3>1, <3>3
  <2>3. f = [s \in SUBSET B |-> f[s]]
    OBVIOUS
  <2> QED
    BY <2>1, <2>2, <2>3
<1>6. Eq(it)
  BY <1>5
<1> HIDE DEF it
<1>8. Summing(it, n, g)
  <2>1. it[{}] = 0
    BY <1>6
  <2>2. ASSUME NEW s \in SUBSET B, s # {} PROVE it[s] = g[CHOOSE y \in s : TRUE] + it[s \ {CHOOSE y \in s : TRUE}]
    <3>1. (CHOOSE y \in s : TRUE) \in B
      BY <1>4, <2>2
    <3>2. g[CHOOSE y \in s : TRUE] = x[(CHOOSE y \in s : TRUE)] * x[(CHOOSE y \in s : TRUE)]
      BY <1>2, <3>1
    <3>3. it[s] = x[(CHOOSE y \in s : TRUE)] * x[(CHOOSE y \in s : TRUE)] + it[s \ {CHOOSE y \in s : TRUE}]
      BY <1>6, <2>2
    <3> QED
      BY <3>2, <3>3
  <2> QED
    BY <1>00, <2>1, <2>2 DEF Summing
<1>9. it[B] = Tot(g, n)
  BY <1>00, <1>0, <1>1, <1>8, SummingIs
<1> QED
  BY <1>02, <1>9 DEF g

\* Diagonals the inverses of which are integers.
Units(M) == \A i \in 0..(M.size - 1) : Coef(M, i, i) \in {-1, 1}

\* What the products and the resolutions in a profile are.
LEMMA AllAsFull ==
  ASSUME NEW M, Mat(M), NEW x \in Vec(M)
  PROVE  /\ fem_matrix_vector(M, x) = Times(Full(M), x)
         /\ matrix_ldlt_vector(M, x) = Times(Factored(M), x)
         /\ Units(M) => fem_solver_invert(M, matrix_ldlt_vector(M, x)) = x
         /\ fem_vector_dot(x, x) = MapThenSumSet(LAMBDA i : x[i] * x[i], DOMAIN x)
<1>1. fem_matrix_vector(M, x) = Times(Full(M), x)
  BY ProductIs, ImageIs
<1>2. matrix_ldlt_vector(M, x) = Times(Factored(M), x)
  BY FactoredTimes
<1>3. Units(M) => fem_solver_invert(M, matrix_ldlt_vector(M, x)) = x
  BY LdltUndone DEF Units
<1>4. fem_vector_dot(x, x) = MapThenSumSet(LAMBDA i : x[i] * x[i], DOMAIN x)
  <2> DEFINE n == M.size
  <2>1. n \in Nat /\ x \in [0..(n - 1) -> Int]
    BY SizeIs DEF Vec
  <2> HIDE DEF n
  <2>2. fem_vector_dot(x, x) = Tot(Dots(x, x, n), n)
    BY <2>1, DotIs
  <2>3. MapThenSumSet(LAMBDA i : x[i] * x[i], DOMAIN x) = Tot(Dots(x, x, n), n)
    BY <2>1, SquaresIs
  <2> QED
    BY <2>2, <2>3
<1> QED
  BY <1>1, <1>2, <1>3, <1>4

-----------------------------------------------------------------------------
(* Files *)

\* The coefficients a matrix of n rows can have in a file.
Triples(n) == {e \in Int \X Int \X Int : 1 <= e[2] /\ e[2] <= e[1] /\ e[1] <= n}

\* A file of a matrix.
File(file) == file.size \in Nat \ {0} /\ file.entries \in Seq(Triples(file.size))

\* What a line of a file says.
LEMMA TripleIs ==
  ASSUME NEW n \in Nat, NEW e \in Triples(n)
  PROVE  e[1] \in 1..n /\ e[2] \in 1..e[1] /\ e[3] \in Int /\ e[1] - 1 \in 0..(n - 1) /\ e[2] - 1 \in 0..(e[1] - 1)
         /\ e[1] \in Int /\ e[2] \in Int
<1>1. e[1] \in Int /\ e[2] \in Int /\ e[3] \in Int /\ 1 <= e[2] /\ e[2] <= e[1] /\ e[1] <= n
  BY DEF Triples
<1> QED
  BY <1>1

\* A turn of the loop that reads the height of a row.
HeightCell(i, h, e) == IF e[1] = i + 1 /\ e[1] - e[2] > h THEN e[1] - e[2] ELSE h

HeightCells(file, i) == [p \in (0..i) \X Triples(file.size) |-> HeightCell(i, p[1], p[2])]

\* A line of a file makes a row higher or leaves it, and never goes past its first column.
LEMMA HeightTyped ==
  ASSUME NEW file, File(file), NEW i \in 0..(file.size - 1), NEW h \in 0..i, NEW e \in Triples(file.size)
  PROVE  /\ HeightCell(i, h, e) \in 0..i /\ h <= HeightCell(i, h, e)
         /\ e[1] = i + 1 => e[1] - e[2] <= HeightCell(i, h, e)
<1>1. file.size \in Nat
  BY DEF File
<1>2. e[1] \in Int /\ e[2] \in Int /\ 1 <= e[2] /\ e[2] <= e[1]
  BY <1>1, TripleIs
<1>3. i \in Nat
  BY <1>1
<1> QED
  BY <1>2, <1>3 DEF HeightCell

\* The height of a row.
LEMMA HeightFolded ==
  ASSUME NEW file, File(file), NEW i \in 0..(file.size - 1)
  PROVE  Folded(Height(file, i), (0..i), 0, file.entries, HeightCells(file, i))
<1> DEFINE D == DOMAIN file.entries
           Eq(it) == it = [u \in SUBSET D |-> IF u = {} THEN 0 ELSE HeightCell(i, it[u \ {Max(u)}], file.entries[Max(u)])]
           it == CHOOSE it : Eq(it)
<1>0. 0 \in (0..i) /\ file.entries \in Seq(Triples(file.size)) /\ D = 1..Len(file.entries)
  <2>1. file.size \in Nat
    BY DEF File
  <2> QED
    BY <2>1 DEF File
<1>1. HeightCells(file, i) \in [(0..i) \X (Triples(file.size)) -> (0..i)]
  <2> SUFFICES ASSUME NEW h \in 0..i, NEW e \in Triples(file.size) PROVE HeightCell(i, h, e) \in 0..i
    BY DEF HeightCells
  <2> QED
    BY HeightTyped
<1>2. ASSUME NEW f, NEW u \in SUBSET D, u # {}, f[u \ {Max(u)}] \in (0..i)
      PROVE  HeightCells(file, i)[<<f[u \ {Max(u)}], file.entries[Max(u)]>>] = HeightCell(i, f[u \ {Max(u)}], file.entries[Max(u)])
  <2>1. file.entries[Max(u)] \in Triples(file.size)
    BY <1>0, <1>2, MaxRank
  <2> QED
    BY <1>2, <2>1 DEF HeightCells
<1>3. PICK f \in [SUBSET D -> (0..i)] : Folding(f, (0..i), 0, file.entries, HeightCells(file, i))
  BY <1>0, <1>1, FoldExists
<1>4. \A u \in SUBSET D : u \ {Max(u)} \in SUBSET D
  OBVIOUS
<1>5. Eq(f)
  <2>1. f[{}] = 0
    BY <1>3 DEF Folding
  <2>2. ASSUME NEW u \in SUBSET D, u # {} PROVE f[u] = HeightCell(i, f[u \ {Max(u)}], file.entries[Max(u)])
    <3>1. f[u \ {Max(u)}] \in (0..i)
      BY <1>4
    <3>2. f[u] = HeightCells(file, i)[<<f[u \ {Max(u)}], file.entries[Max(u)]>>]
      BY <1>0, <1>3, <2>2, <3>1 DEF Folding
    <3> QED
      BY <1>2, <2>2, <3>1, <3>2
  <2>3. f = [u \in SUBSET D |-> f[u]]
    OBVIOUS
  <2> QED
    BY <2>1, <2>2, <2>3
<1>6. Eq(it)
  BY <1>5
<1>7. Height(file, i) = it[D]
  BY DEF Height, HeightCell, FoldLeft, MapThenFoldSet
<1> HIDE DEF it
<1>8. Folding(it, (0..i), 0, file.entries, HeightCells(file, i))
  BY <1>0, <1>2, <1>6 DEF Folding
<1>9. Folded(it[1..Len(file.entries)], (0..i), 0, file.entries, HeightCells(file, i))
  BY <1>0, <1>1, <1>8, FoldIs
<1> QED
  BY <1>0, <1>7, <1>9

\* The height is that of the highest coefficient.
LEMMA HeightIs ==
  ASSUME NEW file, File(file), NEW i \in 0..(file.size - 1)
  PROVE  /\ Height(file, i) \in 0..i
         /\ \A k \in 1..Len(file.entries) : file.entries[k][1] = i + 1 => file.entries[k][1] - file.entries[k][2] <= Height(file, i)
<1> DEFINE es == file.entries
           m == Len(es)
<1>1. m \in Nat /\ i \in Nat /\ file.size \in Nat /\ \A k \in 1..m : es[k] \in Triples(file.size)
  BY DEF File
<1>2. PICK h \in [0..m -> 0..i] :
        /\ h[0] = 0 /\ Height(file, i) = h[m]
        /\ \A k \in 1..m : h[k] = HeightCells(file, i)[<<h[k - 1], es[k]>>]
  BY HeightFolded DEF Folded
<1> HIDE DEF es, m
<1> DEFINE Q(k) == \A q \in 1..k : es[q][1] = i + 1 => es[q][1] - es[q][2] <= h[k]
           P == {k \in 0..m : Q(k)}
<1>3. 0 \in P
  BY <1>1
<1>4. ASSUME NEW k \in 1..m, k - 1 \in P PROVE k \in P
  <2>1. k - 1 \in 0..m /\ Q(k - 1)
    BY <1>4
  <2>2. h[k - 1] \in 0..i /\ es[k] \in Triples(file.size) /\ h[k] \in 0..i
    BY <1>1, <1>2, <2>1
  <2>3. h[k] = HeightCell(i, h[k - 1], es[k])
    BY <1>2, <2>2 DEF HeightCells
  <2>4. h[k - 1] <= h[k] /\ (es[k][1] = i + 1 => es[k][1] - es[k][2] <= h[k])
    BY <2>2, <2>3, HeightTyped
  <2>5. ASSUME NEW q \in 1..k, es[q][1] = i + 1 PROVE es[q][1] - es[q][2] <= h[k]
    <3>1. CASE q = k
      BY <2>4, <2>5, <3>1
    <3>2. CASE q # k
      <4>1. q \in 1..(k - 1) /\ q \in 1..m
        BY <1>1, <3>2
      <4>2. es[q][1] - es[q][2] <= h[k - 1]
        BY <2>1, <2>5, <4>1
      <4>3. es[q][1] \in Int /\ es[q][2] \in Int
        BY <1>1, <4>1, TripleIs
      <4>4. h[k - 1] \in Int /\ h[k] \in Int
        BY <2>2
      <4> QED
        BY <2>4, <4>2, <4>3, <4>4
    <3> QED
      BY <3>1, <3>2
  <2> QED
    BY <2>5
<1>5. P = 0..m
  <2>1. P \in SUBSET (0..m)
    OBVIOUS
  <2> HIDE DEF P
  <2> QED
    BY <1>1, <1>3, <1>4, <2>1, UpTo
<1>6. m \in P
  <2> HIDE DEF P
  <2> QED
    BY <1>1, <1>5
<1>7. m \in 0..m
  BY <1>1
<1> QED
  BY <1>2, <1>6, <1>7 DEF es, m

\* The places of the diagonal.
LoadDiag(file) ==
  CHOOSE d : d = [i \in 0..(file.size - 1) |-> IF i = 0 THEN Height(file, 0) ELSE Height(file, i) + d[i - 1] + 1]

\* There is such a profile.
LEMMA LoadDiagIs ==
  ASSUME NEW file, File(file)
  PROVE  /\ LoadDiag(file) \in [0..(file.size - 1) -> Nat] /\ LoadDiag(file)[0] = 0
         /\ \A i \in 1..(file.size - 1) : LoadDiag(file)[i] = Height(file, i) + LoadDiag(file)[i - 1] + 1
<1> DEFINE n == file.size
           g == [i \in 0..(n - 1) |-> IF i = 0 THEN Height(file, 0) ELSE Height(file, i) + 1]
           a == [i \in 0..(n - 1) |-> Tot(g, i + 1)]
           Eq(d) == d = [i \in 0..(n - 1) |-> IF i = 0 THEN Height(file, 0) ELSE Height(file, i) + d[i - 1] + 1]
           d == CHOOSE d : Eq(d)
<1>1. n \in Nat /\ n # 0
  BY DEF File
<1>2. \A i \in 0..(n - 1) : Height(file, i) \in 0..i
  BY HeightIs
<1>3. Height(file, 0) = 0 /\ \A i \in 0..(n - 1) : Height(file, i) \in Nat
  BY <1>1, <1>2
<1>4. Ints(g, n) /\ g[0] = 0 /\ \A i \in 1..(n - 1) : g[i] = Height(file, i) + 1
  BY <1>1, <1>3 DEF Ints
<1> HIDE DEF g
<1>5. Eq(a)
  <2>1. ASSUME NEW i \in 0..(n - 1)
        PROVE  a[i] = IF i = 0 THEN Height(file, 0) ELSE Height(file, i) + a[i - 1] + 1
    <3>1. i + 1 \in 1..n /\ (i + 1) - 1 = i
      BY <1>1
    <3>2. Tot(g, i + 1) = Tot(g, i) + g[i]
      BY <1>1, <1>4, <3>1, TotStep
    <3>3. CASE i = 0
      <4>1. Tot(g, 0) = 0
        BY <1>1, <1>4, TotStep
      <4>2. a[i] = 0
        BY <1>4, <3>2, <3>3, <4>1
      <4> QED
        BY <1>3, <3>3, <4>2
    <3>4. CASE i # 0
      <4>1. i \in 1..(n - 1) /\ i - 1 \in 0..(n - 1) /\ (i - 1) + 1 = i /\ i \in 0..n
        BY <1>1, <3>4
      <4>2. a[i - 1] = Tot(g, i)
        BY <4>1
      <4>3. Tot(g, i) \in Int
        BY <1>1, <1>4, <4>1, TotStep
      <4>4. Tot(g, i) + (Height(file, i) + 1) = Height(file, i) + Tot(g, i) + 1
        BY <1>3, <4>3
      <4>5. a[i] = Tot(g, i) + (Height(file, i) + 1)
        BY <1>4, <3>2, <4>1
      <4> QED
        BY <3>4, <4>2, <4>4, <4>5
    <3> QED
      BY <3>3, <3>4
  <2>2. a = [i \in 0..(n - 1) |-> a[i]]
    OBVIOUS
  <2> HIDE DEF a
  <2> QED
    BY <2>1, <2>2
<1>6. Eq(d)
  BY <1>5
<1>7. LoadDiag(file) = d
  BY DEF LoadDiag
<1> HIDE DEF d
<1>8. d[0] = 0 /\ \A i \in 1..(n - 1) : d[i] = Height(file, i) + d[i - 1] + 1
  <2>1. 0 \in 0..(n - 1) /\ \A i \in 1..(n - 1) : i \in 0..(n - 1) /\ i # 0
    BY <1>1
  <2> QED
    BY <1>3, <1>6, <2>1
<1> HIDE DEF n
<1> DEFINE P == {i \in 0..(n - 1) : d[i] \in Nat}
<1>9. P = 0..(n - 1)
  <2>1. 0 \in P
    BY <1>1, <1>8
  <2>2. ASSUME NEW i \in 1..(n - 1), i - 1 \in P PROVE i \in P
    <3>1. d[i - 1] \in Nat /\ i \in 0..(n - 1)
      BY <2>2
    <3>2. d[i] = Height(file, i) + d[i - 1] + 1 /\ Height(file, i) \in Nat
      BY <1>3, <1>8, <3>1
    <3>3. d[i] \in Nat
      BY <3>1, <3>2
    <3> QED
      BY <3>1, <3>3
  <2>3. P \in SUBSET (0..(n - 1)) /\ n - 1 \in Nat
    BY <1>1
  <2> HIDE DEF P
  <2> QED
    BY <2>1, <2>2, <2>3, UpTo
<1>10. d \in [0..(n - 1) -> Nat]
  <2>1. \A i \in 0..(n - 1) : d[i] \in Nat
    BY <1>9
  <2>2. d = [i \in 0..(n - 1) |-> d[i]]
    BY <1>6 DEF n
  <2> QED
    BY <2>1, <2>2
<1> QED
  BY <1>7, <1>8, <1>10 DEF n

\* No place is of two coefficients.
LEMMA PlacesApart ==
  ASSUME NEW M, Mat(M), NEW i \in 0..(M.size - 1), NEW k \in 0..(M.size - 1),
         NEW j \in First(M, i)..i, NEW l \in First(M, k)..k, M.diag[i] - i + j = M.diag[k] - k + l
  PROVE  i = k /\ j = l
<1>1. ASSUME NEW a \in 0..(M.size - 1), NEW b \in 0..(M.size - 1), a < b,
             NEW c \in First(M, a)..a, NEW e \in First(M, b)..b
      PROVE  M.diag[a] - a + c # M.diag[b] - b + e
  <2>1. M.size \in Nat /\ a \in Nat /\ b \in Nat /\ First(M, a) \in 0..a /\ First(M, b) \in 0..b
    BY SizeIs, Cells
  <2>2. b - 1 \in 0..(M.size - 1) /\ a \in 0..(b - 1) /\ b # 0
    BY <1>1, <2>1
  <2>3. M.diag[a] <= M.diag[b - 1]
    BY <2>2, DiagGrows
  <2>4. First(M, b) = b + 1 - M.diag[b] + M.diag[b - 1]
    BY <2>2 DEF First
  <2>5. M.diag[a] \in Nat /\ M.diag[b] \in Nat /\ M.diag[b - 1] \in Nat
    BY <2>2 DEF Mat
  <2> QED
    BY <2>1, <2>3, <2>4, <2>5
<1>2. M.size \in Nat /\ i \in Nat /\ k \in Nat /\ First(M, i) \in 0..i /\ First(M, k) \in 0..k
  BY SizeIs, Cells
<1>3. M.diag[i] \in Nat /\ M.diag[k] \in Nat
  BY DEF Mat
<1>4. i = k
  <2>1. ~ (i < k)
    BY <1>1
  <2>2. ~ (k < i)
    BY <1>1
  <2> QED
    BY <1>2, <2>1, <2>2
<1>5. M.diag[i] - i + j = M.diag[i] - i + l
  BY <1>4
<1> QED
  BY <1>2, <1>3, <1>4, <1>5

\* The last place, the coefficients up to it, and none.
Top(file) == LoadDiag(file)[file.size - 1]

Coefs(file) == [0..Top(file) -> Int]

Zeros(file) == [k \in 0..Top(file) |-> 0]

\* A matrix with the profile of the file.
Profiled(file, c) == [size |-> file.size, diag |-> LoadDiag(file), state |-> "ALLOCATED", coef |-> c]

\* The profile of a file is that of a matrix, whatever its coefficients.
LEMMA ProfiledMat ==
  ASSUME NEW file, File(file), NEW c \in Coefs(file)
  PROVE  /\ Mat(Profiled(file, c)) /\ Profiled(file, c).size = file.size /\ Profiled(file, c).coef = c
         /\ Profiled(file, c).diag = LoadDiag(file)
         /\ \A i \in 1..(file.size - 1) : First(Profiled(file, c), i) = i - Height(file, i)
         /\ First(Profiled(file, c), 0) = 0
<1> DEFINE M == Profiled(file, c)
           n == file.size
           d == LoadDiag(file)
<1>1. M.size = n /\ M.coef = c /\ M.diag = d
  BY DEF Profiled
<1> HIDE DEF M, d
<1>2. n \in Nat \ {0} /\ d \in [0..(n - 1) -> Nat] /\ d[0] = 0 /\ \A i \in 1..(n - 1) : d[i] = Height(file, i) + d[i - 1] + 1
  BY LoadDiagIs DEF File, d
<1>3. ASSUME NEW i \in 1..(n - 1) PROVE Height(file, i) \in 0..i /\ d[i - 1] \in Nat /\ d[i] \in Nat
  <2>1. i \in 0..(n - 1) /\ i - 1 \in 0..(n - 1)
    BY <1>2
  <2> QED
    BY <1>2, <2>1, HeightIs
<1>4. \A i \in 1..(n - 1) : d[i] - d[i - 1] \in 1..(i + 1)
  <2> SUFFICES ASSUME NEW i \in 1..(n - 1) PROVE d[i] - d[i - 1] \in 1..(i + 1)
    OBVIOUS
  <2>1. d[i] = Height(file, i) + d[i - 1] + 1
    BY <1>2
  <2> QED
    BY <1>3, <2>1
<1>5. c \in [0..d[n - 1] -> Int]
  BY DEF Coefs, Top, d
<1>6. Mat(M)
  BY <1>1, <1>2, <1>4, <1>5 DEF Mat
<1>7. ASSUME NEW i \in 1..(n - 1) PROVE First(M, i) = i - Height(file, i)
  <2>1. First(M, i) = i + 1 - d[i] + d[i - 1]
    BY <1>1 DEF First
  <2>2. d[i] = Height(file, i) + d[i - 1] + 1 /\ i \in Nat
    BY <1>2
  <2> QED
    BY <1>3, <2>1, <2>2
<1>8. First(M, 0) = 0
  BY DEF First
<1> QED
  BY <1>1, <1>6, <1>7, <1>8 DEF M, d

\* Where a line goes.
Place(file, e) == LoadDiag(file)[e[1] - 1] - e[1] + e[2]

\* The entries of the file have their places.
LEMMA PlaceIs ==
  ASSUME NEW file, File(file), NEW q \in 1..Len(file.entries), NEW c \in Coefs(file)
  PROVE  /\ file.entries[q][1] - 1 \in 0..(file.size - 1)
         /\ file.entries[q][2] - 1 \in First(Profiled(file, c), file.entries[q][1] - 1)..(file.entries[q][1] - 1)
         /\ Place(file, file.entries[q]) =
              LoadDiag(file)[file.entries[q][1] - 1] - (file.entries[q][1] - 1) + (file.entries[q][2] - 1)
         /\ Place(file, file.entries[q]) \in 0..Top(file)
         /\ file.entries[q] \in Triples(file.size) /\ file.entries[q][3] \in Int
<1> DEFINE e == file.entries[q]
           M == Profiled(file, c)
           n == file.size
           i == e[1] - 1
           j == e[2] - 1
           d == LoadDiag(file)
<1>1. n \in Nat /\ e \in Triples(n)
  BY DEF File
<1>2. i \in 0..(n - 1) /\ j \in 0..i /\ e[3] \in Int /\ e[1] \in Int /\ e[2] \in Int /\ e[1] = i + 1
  <2> HIDE DEF e, n
  <2>1. e[1] \in 1..n /\ e[2] \in 1..e[1] /\ e[3] \in Int /\ e[1] - 1 \in 0..(n - 1)
        /\ e[2] - 1 \in 0..(e[1] - 1) /\ e[1] \in Int /\ e[2] \in Int
    BY <1>1, TripleIs
  <2> QED
    BY <2>1
<1>3. /\ Mat(M) /\ M.size = n /\ M.coef = c /\ M.diag = d /\ First(M, 0) = 0
      /\ \A k \in 1..(n - 1) : First(M, k) = k - Height(file, k)
  BY ProfiledMat
<1>4. Height(file, i) \in 0..i /\ e[1] - e[2] <= Height(file, i)
  BY <1>2, HeightIs
<1>5. d[i] \in Nat
  BY <1>2, LoadDiagIs
<1> HIDE DEF M, d, n
<1>6. j \in First(M, i)..i
  <2>1. CASE i = 0
    BY <1>2, <1>3, <2>1
  <2>2. CASE i # 0
    <3>1. i \in 1..(n - 1)
      BY <1>1, <1>2, <2>2
    <3>2. First(M, i) = i - Height(file, i)
      BY <1>3, <3>1
    <3>3. e[1] - e[2] = i - j
      <4> DEFINE y == e[1]
                 z == e[2]
      <4>1. y \in Int /\ z \in Int
        BY <1>2
      <4> HIDE DEF y, z
      <4>2. y - z = (y - 1) - (z - 1)
        BY <4>1
      <4> QED
        BY <4>2 DEF y, z, i, j
    <3> HIDE DEF e, i, j
    <3>4. i \in Int /\ j \in Int
      BY <1>1, <1>2
    <3> QED
      BY <1>2, <1>4, <3>2, <3>3, <3>4
  <2> QED
    BY <2>1, <2>2
<1>7. Place(file, e) = d[i] - i + j
  <2>1. Place(file, e) = d[i] - e[1] + e[2]
    BY DEF Place, d
  <2> DEFINE x == d[i]
             y == e[1]
             z == e[2]
  <2>2. x \in Int /\ y \in Int /\ z \in Int
    BY <1>2, <1>5
  <2> HIDE DEF x, y, z
  <2>3. x - y + z = x - (y - 1) + (z - 1)
    BY <2>2
  <2> QED
    BY <2>1, <2>3 DEF x, y, z
<1>8. Place(file, e) \in 0..Top(file)
  <2>1. d[i] - i + j \in DOMAIN c
    <3> HIDE DEF i, j, e
    <3>1. M.diag[i] - i + j \in DOMAIN M.coef
      BY <1>2, <1>3, <1>6, Cells
    <3> QED
      BY <1>3, <3>1
  <2> QED
    BY <1>7, <2>1 DEF Coefs
<1> QED
  BY <1>1, <1>2, <1>6, <1>7, <1>8 DEF M, d, n

\* A turn of the loop that reads the coefficients.
LoadCell(file, c, e) == [c EXCEPT ![Place(file, e)] = e[3]]

LoadCells(file) == [p \in Coefs(file) \X Range(file.entries) |-> LoadCell(file, p[1], p[2])]

LoadCoef(file) == FoldLeft(LAMBDA c, e : LoadCell(file, c, e), Zeros(file), file.entries)

\* The matrix a file is read into, and its lines.
LEMMA ZerosIs ==
  ASSUME NEW file, File(file)
  PROVE  /\ Zeros(file) \in Coefs(file) /\ file.entries \in Seq(Range(file.entries))
         /\ \A e \in Range(file.entries) : \E q \in 1..Len(file.entries) : e = file.entries[q]
<1>1. file.entries \in Seq(Triples(file.size))
  BY DEF File
<1>2. DOMAIN file.entries = 1..Len(file.entries) /\ file.entries \in Seq(Range(file.entries))
  BY <1>1 DEF Range
<1> QED
  BY <1>2 DEF Zeros, Coefs, Range

\* The loop over the coefficients.
LEMMA LoadFolded ==
  ASSUME NEW file, File(file)
  PROVE  Folded(LoadCoef(file), Coefs(file), Zeros(file), file.entries, LoadCells(file))
<1> DEFINE D == DOMAIN file.entries
           Eq(it) == it = [u \in SUBSET D |-> IF u = {} THEN Zeros(file) ELSE LoadCell(file, it[u \ {Max(u)}], file.entries[Max(u)])]
           it == CHOOSE it : Eq(it)
<1>0. Zeros(file) \in Coefs(file) /\ file.entries \in Seq(Range(file.entries)) /\ D = 1..Len(file.entries)
  <2>1. file.entries \in Seq(Triples(file.size))
    BY DEF File
  <2> QED
    BY <2>1, ZerosIs
<1>1. LoadCells(file) \in [Coefs(file) \X (Range(file.entries)) -> Coefs(file)]
  <2> SUFFICES ASSUME NEW c \in Coefs(file), NEW e \in Range(file.entries) PROVE LoadCell(file, c, e) \in Coefs(file)
    BY DEF LoadCells
  <2>1. PICK q \in 1..Len(file.entries) : e = file.entries[q]
    BY ZerosIs
  <2>2. Place(file, e) \in 0..Top(file) /\ e[3] \in Int
    BY <2>1, PlaceIs
  <2> QED
    BY <2>2 DEF LoadCell, Coefs
<1>2. ASSUME NEW f, NEW u \in SUBSET D, u # {}, f[u \ {Max(u)}] \in Coefs(file)
      PROVE  LoadCells(file)[<<f[u \ {Max(u)}], file.entries[Max(u)]>>] = LoadCell(file, f[u \ {Max(u)}], file.entries[Max(u)])
  <2>1. file.entries[Max(u)] \in Range(file.entries)
    BY <1>0, <1>2, MaxRank
  <2> QED
    BY <1>2, <2>1 DEF LoadCells
<1>3. PICK f \in [SUBSET D -> Coefs(file)] : Folding(f, Coefs(file), Zeros(file), file.entries, LoadCells(file))
  BY <1>0, <1>1, FoldExists
<1>4. \A u \in SUBSET D : u \ {Max(u)} \in SUBSET D
  OBVIOUS
<1>5. Eq(f)
  <2>1. f[{}] = Zeros(file)
    BY <1>3 DEF Folding
  <2>2. ASSUME NEW u \in SUBSET D, u # {} PROVE f[u] = LoadCell(file, f[u \ {Max(u)}], file.entries[Max(u)])
    <3>1. f[u \ {Max(u)}] \in Coefs(file)
      BY <1>4
    <3>2. f[u] = LoadCells(file)[<<f[u \ {Max(u)}], file.entries[Max(u)]>>]
      BY <1>0, <1>3, <2>2, <3>1 DEF Folding
    <3> QED
      BY <1>2, <2>2, <3>1, <3>2
  <2>3. f = [u \in SUBSET D |-> f[u]]
    OBVIOUS
  <2> QED
    BY <2>1, <2>2, <2>3
<1>6. Eq(it)
  BY <1>5
<1>7. LoadCoef(file) = it[D]
  BY DEF LoadCoef, FoldLeft, MapThenFoldSet
<1> HIDE DEF it
<1>8. Folding(it, Coefs(file), Zeros(file), file.entries, LoadCells(file))
  BY <1>0, <1>2, <1>6 DEF Folding
<1>9. Folded(it[1..Len(file.entries)], Coefs(file), Zeros(file), file.entries, LoadCells(file))
  BY <1>0, <1>1, <1>8, FoldIs
<1> QED
  BY <1>0, <1>7, <1>9

\* The last value of each place.
LastOf(file, c, k) ==
  \A p \in 0..Top(file) :
    /\ (\A q \in 1..k : Place(file, file.entries[q]) # p) => c[p] = 0
    /\ \A q \in 1..k : /\ Place(file, file.entries[q]) = p
                       /\ \A r \in (q + 1)..k : Place(file, file.entries[r]) # p
                       => c[p] = file.entries[q][3]

\* A place holds the coefficient of the last line for it.
LEMMA LoadCoefIs ==
  ASSUME NEW file, File(file)
  PROVE  LoadCoef(file) \in Coefs(file) /\ LastOf(file, LoadCoef(file), Len(file.entries))
<1> DEFINE es == file.entries
           m == Len(es)
<1>1. m \in Nat /\ \A k \in 1..m : es[k] \in Range(es)
  <2>1. es \in Seq(Triples(file.size))
    BY DEF File
  <2> QED
    BY <2>1 DEF Range
<1>2. PICK h \in [0..m -> Coefs(file)] :
        /\ h[0] = Zeros(file) /\ LoadCoef(file) = h[m]
        /\ \A k \in 1..m : h[k] = LoadCells(file)[<<h[k - 1], es[k]>>]
  BY LoadFolded DEF Folded
<1>3. \A q \in 1..m : Place(file, es[q]) \in 0..Top(file)
  <2>1. Zeros(file) \in Coefs(file)
    BY ZerosIs
  <2> QED
    BY <2>1, PlaceIs
<1> DEFINE P == {k \in 0..m : LastOf(file, h[k], k)}
<1>4. 0 \in P
  <2>1. \A p \in 0..Top(file) : h[0][p] = 0
    BY <1>2 DEF Zeros
  <2>2. \A q : ~ (q \in 1..0)
    OBVIOUS
  <2>3. LastOf(file, h[0], 0)
    BY <2>1, <2>2 DEF LastOf
  <2> QED
    BY <1>1, <2>3
<1>5. ASSUME NEW k \in 1..m, k - 1 \in P PROVE k \in P
  <2> DEFINE a == h[k - 1]
             x == Place(file, es[k])
  <2>1. LastOf(file, a, k - 1) /\ a \in Coefs(file) /\ k \in 0..m
    <3>1. k - 1 \in 0..m /\ k \in 0..m
      BY <1>1
    <3> QED
      BY <1>2, <1>5, <3>1
  <2>2. h[k] = [a EXCEPT ![x] = es[k][3]]
    <3>1. h[k] = LoadCells(file)[<<a, es[k]>>] /\ es[k] \in Range(es)
      BY <1>1, <1>2
    <3> QED
      BY <2>1, <3>1 DEF LoadCells, LoadCell
  <2>3. \A p \in 0..Top(file) : h[k][p] = IF p = x THEN es[k][3] ELSE a[p]
    <3> HIDE DEF a, x
    <3> QED
      BY <2>1, <2>2 DEF Coefs
  <2>4. ASSUME NEW p \in 0..Top(file), \A q \in 1..k : Place(file, es[q]) # p PROVE h[k][p] = 0
    <3>1. k \in 1..k /\ \A q \in 1..(k - 1) : q \in 1..k
      BY <1>1
    <3>2. a[p] = 0
      BY <2>1, <2>4, <3>1 DEF LastOf
    <3>3. p # x
      BY <2>4, <3>1
    <3> QED
      BY <2>3, <3>2, <3>3
  <2>5. ASSUME NEW p \in 0..Top(file), NEW q \in 1..k, Place(file, es[q]) = p,
               \A r \in (q + 1)..k : Place(file, es[r]) # p
        PROVE  h[k][p] = es[q][3]
    <3>1. CASE q = k
      BY <2>3, <2>5, <3>1
    <3>2. CASE q # k
      <4>1. q \in 1..(k - 1) /\ k \in (q + 1)..k /\ \A r \in (q + 1)..(k - 1) : r \in (q + 1)..k
        BY <1>1, <3>2
      <4>2. p # x
        BY <2>5, <4>1
      <4>3. a[p] = es[q][3]
        <5>1. \A r \in (q + 1)..(k - 1) : Place(file, es[r]) # p
          BY <2>5, <4>1
        <5> HIDE DEF a
        <5> QED
          BY <2>1, <2>5, <4>1, <5>1 DEF LastOf
      <4> QED
        BY <2>3, <4>2, <4>3
    <3> QED
      BY <3>1, <3>2
  <2>6. LastOf(file, h[k], k)
    BY <2>4, <2>5 DEF LastOf
  <2> QED
    BY <2>1, <2>6
<1>6. P = 0..m
  <2>1. P \in SUBSET (0..m)
    OBVIOUS
  <2> HIDE DEF P, m
  <2> QED
    BY <1>1, <1>4, <1>5, <2>1, UpTo
<1>7. m \in 0..m
  BY <1>1
<1>8. LastOf(file, h[m], m)
  BY <1>6, <1>7
<1> QED
  BY <1>2, <1>7, <1>8

\* fem_matrix_load, by its two readings.
LEMMA LoadParts ==
  ASSUME NEW file
  PROVE  fem_matrix_load(file) = Profiled(file, LoadCoef(file))
  BY DEF fem_matrix_load, Profiled, LoadCoef, LoadCell, Place, Zeros, Top, LoadDiag, FoldLeft, MapThenFoldSet

\* The ranks of the coefficients of a place in a file.
Ranks(file, r, c) == {k \in 1..Len(file.entries) : file.entries[k][1] - 1 = r /\ file.entries[k][2] - 1 = c}

\* What is read of a file is a matrix.
LEMMA LoadedMat ==
  ASSUME NEW file, File(file)
  PROVE  Mat(fem_matrix_load(file)) /\ fem_matrix_load(file).size = file.size
  BY LoadParts, LoadCoefIs, ProfiledMat

\* A place has its last coefficient of the file.
LEMMA LoadEntry ==
  ASSUME NEW file, File(file), NEW r \in 0..(file.size - 1), NEW c \in 0..r
  PROVE  Entry(fem_matrix_load(file), r, c) =
           IF Ranks(file, r, c) = {} THEN 0 ELSE file.entries[Max(Ranks(file, r, c))][3]
<1> DEFINE coef == LoadCoef(file)
           M == Profiled(file, coef)
           n == file.size
           es == file.entries
           m == Len(es)
           I == Ranks(file, r, c)
<1>1. coef \in Coefs(file) /\ LastOf(file, coef, m)
  BY LoadCoefIs
<1> HIDE DEF coef
<1>2. /\ Mat(M) /\ M.size = n /\ M.coef = coef /\ M.diag = LoadDiag(file) /\ First(M, 0) = 0
      /\ \A i \in 1..(n - 1) : First(M, i) = i - Height(file, i)
  BY <1>1, ProfiledMat
<1>3. fem_matrix_load(file) = M
  BY LoadParts DEF coef
<1>4. n \in Nat /\ m \in Nat /\ es \in Seq(Triples(n)) /\ r \in Nat /\ c \in Nat /\ c <= r
  BY DEF File
<1>5. /\ First(M, r) \in 0..r
      /\ \A j \in First(M, r)..r : LoadDiag(file)[r] - r + j \in 0..Top(file) /\ Coef(M, r, j) = coef[LoadDiag(file)[r] - r + j]
  <2>1. r \in 0..(M.size - 1)
    BY <1>2
  <2>2. First(M, r) \in 0..r /\ \A j \in First(M, r)..r : M.diag[r] - r + j \in DOMAIN M.coef
    BY <1>2, <2>1, Cells
  <2>3. DOMAIN coef = 0..Top(file)
    BY <1>1 DEF Coefs
  <2> HIDE DEF M
  <2> QED
    BY <1>2, <2>2, <2>3 DEF Coef
<1>6. ASSUME NEW k \in 1..m
      PROVE  /\ es[k][1] - 1 \in 0..(n - 1) /\ es[k][2] - 1 \in First(M, es[k][1] - 1)..(es[k][1] - 1)
             /\ Place(file, es[k]) = LoadDiag(file)[es[k][1] - 1] - (es[k][1] - 1) + (es[k][2] - 1)
  BY <1>1, PlaceIs
<1>7. Entry(M, r, c) = IF c < First(M, r) THEN 0 ELSE Coef(M, r, c)
  BY <1>4 DEF Entry
<1>8. \A k \in I : k \in 1..m /\ es[k][1] - 1 = r /\ es[k][2] - 1 = c
  BY DEF Ranks
<1> HIDE DEF M, n, m, I, es
<1>9. CASE c < First(M, r)
  <2>1. I = {}
    <3> SUFFICES ASSUME NEW k \in I PROVE FALSE
      OBVIOUS
    <3>1. c \in First(M, r)..r
      BY <1>6, <1>8
    <3> QED
      BY <1>4, <1>5, <1>9, <3>1
  <2> QED
    BY <1>3, <1>7, <1>9, <2>1 DEF I
<1>10. CASE ~ (c < First(M, r))
  <2> DEFINE p == LoadDiag(file)[r] - r + c
  <2>1. c \in First(M, r)..r
    BY <1>4, <1>5, <1>10
  <2>2. p \in 0..Top(file) /\ Entry(M, r, c) = coef[p]
    BY <1>5, <1>7, <1>10, <2>1
  <2>3. \A k \in 1..m : Place(file, es[k]) = p <=> k \in I
    <3> SUFFICES ASSUME NEW k \in 1..m PROVE Place(file, es[k]) = p <=> k \in I
      OBVIOUS
    <3>1. ASSUME k \in I PROVE Place(file, es[k]) = p
      BY <1>6, <1>8, <3>1
    <3>2. ASSUME Place(file, es[k]) = p PROVE k \in I
      <4> DEFINE i == es[k][1] - 1
                 j == es[k][2] - 1
      <4>1. i \in 0..(n - 1) /\ j \in First(M, i)..i /\ M.diag[i] - i + j = M.diag[r] - r + c
        BY <1>2, <1>6, <3>2
      <4>2. i \in 0..(M.size - 1) /\ r \in 0..(M.size - 1)
        BY <1>2, <4>1 DEF n
      <4> HIDE DEF i, j
      <4>3. i = r /\ j = c
        BY <1>2, <2>1, <4>1, <4>2, PlacesApart
      <4> QED
        BY <4>3 DEF I, Ranks, m, es, i, j
    <3> QED
      BY <3>1, <3>2
  <2> HIDE DEF p
  <2>4. CASE I = {}
    <3>1. \A q \in 1..m : Place(file, es[q]) # p
      BY <2>3, <2>4
    <3>2. coef[p] = 0
      BY <1>1, <2>2, <3>1 DEF LastOf, m, es
    <3> QED
      BY <1>3, <2>2, <2>4, <3>2 DEF I
  <2>5. CASE I # {}
    <3> DEFINE q == Max(I)
    <3>1. I \in SUBSET (1..m)
      BY <1>8
    <3>2. q \in I /\ \A y \in I : q >= y
      BY <1>4, <2>5, <3>1, MaxIn
    <3> HIDE DEF q
    <3>3. q \in 1..m /\ Place(file, es[q]) = p
      BY <2>3, <3>1, <3>2
    <3>4. \A u \in (q + 1)..m : Place(file, es[u]) # p
      <4> SUFFICES ASSUME NEW u \in (q + 1)..m, Place(file, es[u]) = p PROVE FALSE
        OBVIOUS
      <4>1. u \in 1..m /\ u > q
        BY <1>4, <3>3
      <4>2. u \in I
        BY <2>3, <4>1
      <4>3. q >= u
        BY <3>2, <4>2
      <4> QED
        BY <1>4, <3>3, <4>1, <4>3
    <3>5. coef[p] = es[q][3]
      BY <1>1, <2>2, <3>3, <3>4 DEF LastOf, m, es
    <3> QED
      BY <1>3, <2>2, <2>5, <3>5 DEF I, q, es
  <2> QED
    BY <2>4, <2>5
<1> QED
  BY <1>9, <1>10

\* A loaded matrix has the last coefficients of the file.
LEMMA LoadIs ==
  ASSUME NEW file, File(file), NEW i \in 0..(file.size - 1), NEW j \in 0..(file.size - 1)
  PROVE  LET es == file.entries
             Final == SelectLastInSeq(es, LAMBDA e : {e[1] - 1, e[2] - 1} = {i, j})
         IN  Full(fem_matrix_load(file))[i][j] = IF Final = 0 THEN 0 ELSE es[Final][3]
<1> DEFINE es == file.entries
           m == Len(es)
           n == file.size
           J == {k \in 1..m : {es[k][1] - 1, es[k][2] - 1} = {i, j}}
           Final == IF J # {} THEN Max(J) ELSE 0
           M == fem_matrix_load(file)
           r == IF i < j THEN j ELSE i
           c == IF i < j THEN i ELSE j
<1>1. n \in Nat /\ m \in Nat /\ i \in Nat /\ j \in Nat /\ \A k \in 1..m : es[k] \in Triples(n)
  BY DEF File
<1>2. SelectLastInSeq(es, LAMBDA e : {e[1] - 1, e[2] - 1} = {i, j}) = Final
  BY DEF SelectLastInSeq
<1>3. Mat(M) /\ M.size = n
  BY LoadedMat
<1>4. r \in 0..(n - 1) /\ c \in 0..r
  BY <1>1
<1>5. Full(M)[i][j] = Entry(M, r, c)
  <2>1. i \in 0..(M.size - 1) /\ j \in 0..(M.size - 1)
    BY <1>3
  <2> HIDE DEF M
  <2>2. Full(M)[i][j] = Entry(M, i, j) /\ Entry(M, i, j) = Entry(M, j, i)
    BY <1>3, <2>1, FullIs, EntryInt
  <2> QED
    BY <2>2
<1>6. J = Ranks(file, r, c)
  <2>1. ASSUME NEW k \in 1..m PROVE {es[k][1] - 1, es[k][2] - 1} = {i, j} <=> es[k][1] - 1 = r /\ es[k][2] - 1 = c
    <3> DEFINE a == es[k][1] - 1
               b == es[k][2] - 1
    <3>1. a \in Int /\ b \in Int /\ b <= a
      <4>1. es[k][1] - 1 \in 0..(n - 1) /\ es[k][2] - 1 \in 0..(es[k][1] - 1)
        BY <1>1, TripleIs
      <4> HIDE DEF es, n
      <4> QED
        BY <1>1, <4>1
    <3> HIDE DEF a, b
    <3>2. {a, b} = {i, j} <=> a = r /\ b = c
      <4>1. ASSUME {a, b} = {i, j} PROVE a = r /\ b = c
        <5>1. (a = i /\ b = j) \/ (a = j /\ b = i)
          BY <4>1
        <5> QED
          BY <1>1, <3>1, <5>1
      <4>2. ASSUME a = r, b = c PROVE {a, b} = {i, j}
        BY <4>2
      <4> QED
        BY <4>1, <4>2
    <3> QED
      BY <3>2 DEF a, b
  <2> QED
    BY <2>1 DEF Ranks
<1>7. Entry(M, r, c) = IF J = {} THEN 0 ELSE es[Max(J)][3]
  <2> HIDE DEF M, r, c, J
  <2> QED
    BY <1>4, <1>6, LoadEntry DEF M
<1>8. J # {} => Max(J) # 0
  <2> SUFFICES ASSUME J # {} PROVE Max(J) # 0
    OBVIOUS
  <2>1. J \in SUBSET (1..m)
    OBVIOUS
  <2> HIDE DEF J
  <2>2. Max(J) \in J
    BY <1>1, <2>1, MaxIn
  <2> QED
    BY <1>1, <2>1, <2>2
<1> HIDE DEF J, M, r, c
<1> QED
  BY <1>2, <1>5, <1>7, <1>8 DEF M

-----------------------------------------------------------------------------
(* The inductive invariant *)

\* A matrix in a profile and a vector of its size.
SkylineInv ==
  /\ A = [size |-> A.size, diag |-> A.diag, state |-> A.state, coef |-> A.coef]
  /\ Mat(A) /\ v \in Vec(A)

\* The files there are.
LEMMA FilesAre == \A file \in Entries : File(file)
<1> SUFFICES ASSUME NEW file \in Entries PROVE File(file)
  OBVIOUS
<1>1. /\ file.size \in 1 .. Len(Starts) /\ file.entries \in Seq(Int \X Int \X Int) /\ Starts \in Seq(Int)
      /\ \A k \in DOMAIN file.entries :
           1 <= file.entries[k][2] /\ file.entries[k][2] <= file.entries[k][1] /\ file.entries[k][1] <= file.size
  BY SkylineAssumption
<1>2. \A k \in 1..Len(file.entries) : file.entries[k] \in Triples(file.size)
  <2> DEFINE es == file.entries
  <2>1. es \in Seq(Int \X Int \X Int)
    BY <1>1
  <2>2. \A k \in DOMAIN es : 1 <= es[k][2] /\ es[k][2] <= es[k][1] /\ es[k][1] <= file.size
    BY <1>1
  <2> HIDE DEF es
  <2>3. \A k \in 1..Len(es) : k \in DOMAIN es /\ es[k] \in Int \X Int \X Int
    BY <2>1
  <2>4. \A k \in 1..Len(es) : es[k] \in Triples(file.size)
    BY <2>2, <2>3 DEF Triples
  <2> QED
    BY <2>4 DEF es
<1>3. file.entries \in Seq(Triples(file.size))
  <2> DEFINE es == file.entries
             T == Triples(file.size)
  <2>1. es \in [1..Len(es) -> Int \X Int \X Int] /\ Len(es) \in Nat
    BY <1>1
  <2>2. \A k \in 1..Len(es) : es[k] \in T
    BY <1>2
  <2> HIDE DEF es, T
  <2>3. es \in [1..Len(es) -> T]
    BY <2>1, <2>2
  <2>4. es \in Seq(T)
    BY <2>1, <2>3, SeqDef
  <2> QED
    BY <2>4 DEF es, T
<1>4. file.size \in Nat \ {0}
  <2>1. Len(Starts) \in Nat
    BY <1>1
  <2> QED
    BY <1>1, <2>1
<1> QED
  BY <1>3, <1>4 DEF File

\* The vectors there are.
LEMMA StartsAre ==
  ASSUME NEW n \in 1..Len(Starts)
  PROVE  [i \in 0..(n - 1) |-> Starts[i + 1]] \in [0..(n - 1) -> Int]
<1>1. Starts \in Seq(Int)
  BY SkylineAssumption
<1>2. Len(Starts) \in Nat /\ \A k \in 1..Len(Starts) : Starts[k] \in Int
  BY <1>1
<1>3. \A i \in 0..(n - 1) : i + 1 \in 1..Len(Starts)
  BY <1>2
<1> QED
  BY <1>2, <1>3

\* The matrices and vectors of the beginning.
LEMMA SkylineInitial == SkylineInit => SkylineInv
<1> SUFFICES ASSUME SkylineInit PROVE SkylineInv
  OBVIOUS
<1>10. PICK n \in 1..MaxSize : \E d \in Profiles(n) :
        /\ A \in [size : {n}, diag : {d}, state : {"ALLOCATED", "LDLT"},
                 coef : {c \in [0 .. d[n - 1] -> Offs \cup Ons] :
                           \A k \in DOMAIN c : IF k \in Range(d) THEN c[k] \in Ons ELSE c[k] \in Offs}]
        /\ v = [i \in 0 .. n - 1 |-> Starts[i + 1]]
  BY DEF SkylineInit
<1>1. PICK d \in Profiles(n) :
        /\ A \in [size : {n}, diag : {d}, state : {"ALLOCATED", "LDLT"},
                 coef : {c \in [0 .. d[n - 1] -> Offs \cup Ons] :
                           \A k \in DOMAIN c : IF k \in Range(d) THEN c[k] \in Ons ELSE c[k] \in Offs}]
        /\ v = [i \in 0 .. n - 1 |-> Starts[i + 1]]
  BY <1>10
<1>2. /\ MaxSize \in Nat \ {0} /\ Offs \subseteq Int /\ Ons \subseteq Int /\ MaxSize <= Len(Starts) /\ Starts \in Seq(Int)
  BY SkylineAssumption
<1>3. n \in Nat \ {0} /\ n \in 1..Len(Starts)
  BY <1>2
<1>4. /\ A = [size |-> A.size, diag |-> A.diag, state |-> A.state, coef |-> A.coef]
      /\ A.size = n /\ A.diag = d /\ A.coef \in [0..d[n - 1] -> Offs \cup Ons]
  BY <1>1
<1>5. /\ d \in [0..(n - 1) -> 0..(n * n)] /\ d[0] = 0
      /\ \A i \in 1..(n - 1) : d[i] - d[i - 1] \in 1..(i + 1)
  BY DEF Profiles
<1>6. d \in [0..(n - 1) -> Nat]
  <2>1. \A k \in 0..(n * n) : k \in Nat
    BY <1>3, TimesInt
  <2> QED
    BY <1>5, <2>1
<1>7. A.coef \in [0..d[n - 1] -> Int]
  BY <1>2, <1>4
<1>8. Mat(A)
  BY <1>3, <1>4, <1>5, <1>6, <1>7 DEF Mat
<1>9. v \in Vec(A)
  BY <1>1, <1>3, <1>4, StartsAre DEF Vec
<1> QED
  BY <1>4, <1>8, <1>9 DEF SkylineInv

\* Products and resolutions are vectors.
LEMMA ResultsTyped ==
  ASSUME NEW M, Mat(M), NEW x \in Vec(M)
  PROVE  fem_matrix_vector(M, x) \in Vec(M) /\ matrix_ldlt_vector(M, x) \in Vec(M) /\ fem_solver_invert(M, x) \in Vec(M)
<1>1. fem_matrix_vector(M, x) \in Vec(M)
  <2>1. M.size \in 0..M.size
    BY SizeIs
  <2>2. \A q \in 0..(M.size - 1) : Tot(Line(M, x, q), M.size) \in Int
    BY <2>1, LineInts
  <2> QED
    BY <2>2, ProductIs DEF Image, Vec
<1>2. Len(Up(M.size)) \in 0..Len(Up(M.size)) /\ Len(Down(M.size)) \in 0..Len(Down(M.size))
  <2>1. Len(Up(M.size)) \in Nat /\ Len(Down(M.size)) \in Nat
    BY LaterIs, LenProperties
  <2> QED
    BY <2>1
<1>3. InvertAll(M, x) \in Vec(M)
  BY <1>2, InvertFolded DEF Folded
<1>4. Diagonal(M, InvertAll(M, x)) \in Vec(M)
  BY <1>3, DiagonalIs
<1>5. BackAll(M, Diagonal(M, InvertAll(M, x))) \in Vec(M)
  BY <1>2, <1>4, BackFolded DEF Folded
<1> QED
  BY <1>1, <1>5, InvertParts, LdltIs

\* The state of a matrix is not part of what it is.
LEMMA MatSame ==
  ASSUME NEW M, NEW N, M.size = N.size, M.diag = N.diag, M.coef = N.coef
  PROVE  (Mat(M) <=> Mat(N)) /\ Vec(M) = Vec(N)
  BY DEF Mat, Vec

\* A vector with a coefficient set.
LEMMA Changed ==
  ASSUME NEW D, NEW f \in [D -> Int], NEW z \in D
  PROVE  [f EXCEPT ![z] = 1] \in [D -> Int]
  OBVIOUS

\* Every operation keeps the invariant.
LEMMA SkylineStep == SkylineInv /\ [SkylineNext]_skylineVars => SkylineInv'
<1> SUFFICES ASSUME SkylineInv, [SkylineNext]_skylineVars PROVE SkylineInv'
  OBVIOUS
<1>0. Mat(A) /\ v \in Vec(A) /\ A = [size |-> A.size, diag |-> A.diag, state |-> A.state, coef |-> A.coef]
  BY DEF SkylineInv
<1>1. ASSUME UNCHANGED A, v' \in Vec(A) PROVE SkylineInv'
  <2>1. A' = A
    BY <1>1
  <2>2. Mat(A') /\ v' \in Vec(A')
    BY <1>0, <1>1, <2>1
  <2>3. A' = [size |-> A'.size, diag |-> A'.diag, state |-> A'.state, coef |-> A'.coef]
    BY <1>0, <2>1
  <2> QED
    BY <2>2, <2>3 DEF SkylineInv, Mat, Vec
<1>2. CASE Product
  <2>1. UNCHANGED A /\ v' \in Vec(A)
    BY <1>0, <1>2, ResultsTyped DEF Product
  <2> QED
    BY <1>1, <2>1
<1>3. CASE Solve
  <2>1. UNCHANGED A /\ v' \in Vec(A)
    BY <1>0, <1>3, ResultsTyped DEF Solve
  <2> QED
    BY <1>1, <2>1
<1>4. CASE Copy
  <2>1. A' = [size |-> A.size, diag |-> A.diag, state |-> "ALLOCATED", coef |-> A.coef] /\ v' = v
    BY <1>0, <1>4 DEF Copy, fem_matrix_copy
  <2>2. A'.size = A.size /\ A'.diag = A.diag /\ A'.coef = A.coef /\ A'.state = "ALLOCATED"
    BY <2>1
  <2>3. Mat(A') /\ v' \in Vec(A')
    BY <1>0, <2>1, <2>2, MatSame
  <2> QED
    BY <2>1, <2>2, <2>3 DEF SkylineInv, Mat, Vec
<1>5. CASE Load
  <2>1. PICK file \in Entries : A' = fem_matrix_load(file)
    BY <1>5 DEF Load
  <2>2. File(file) /\ file.size \in 1..Len(Starts)
    BY FilesAre, SkylineAssumption
  <2>3. Mat(A') /\ A'.size = file.size
    BY <2>1, <2>2, LoadedMat
  <2>4. v' = [i \in 0..(file.size - 1) |-> Starts[i + 1]]
    BY <1>5, <2>3 DEF Load
  <2>5. v' \in Vec(A')
    BY <2>2, <2>3, <2>4, StartsAre DEF Vec
  <2>6. A' = [size |-> A'.size, diag |-> A'.diag, state |-> A'.state, coef |-> A'.coef]
    BY <2>1, LoadParts DEF Profiled
  <2> QED
    BY <2>3, <2>5, <2>6 DEF SkylineInv, Mat, Vec
<1>6. ASSUME NEW row \in {0, 2, MaxSize + 1}, VectorSet(row, 1) PROVE SkylineInv'
  <2>1. UNCHANGED A /\ v' = IF row >= 1 /\ row - 1 < A.size THEN [v EXCEPT ![row - 1] = 1] ELSE v
    BY <1>6 DEF VectorSet
  <2>2. v' \in Vec(A)
    <3> DEFINE D == 0..(A.size - 1)
    <3>1. v \in [D -> Int]
      BY <1>0 DEF Vec
    <3> HIDE DEF D
    <3>2. row >= 1 /\ row - 1 < A.size => row - 1 \in D
      BY <1>0, SizeIs, SkylineAssumption DEF D
    <3>4. row >= 1 /\ row - 1 < A.size => [v EXCEPT ![row - 1] = 1] \in [D -> Int]
      BY <3>1, <3>2, Changed
    <3>3. v' \in [D -> Int]
      BY <2>1, <3>1, <3>4
    <3> QED
      BY <3>3 DEF D, Vec
  <2> QED
    BY <1>1, <2>1, <2>2
<1>7. CASE UNCHANGED skylineVars
  BY <1>0, <1>1, <1>7 DEF skylineVars
<1> QED
  BY <1>2, <1>3, <1>4, <1>5, <1>6, <1>7 DEF SkylineNext

\* What the invariant says of the products.
LEMMA SkylineImplies == SkylineInv => ProductsRight
<1> SUFFICES ASSUME SkylineInv PROVE ProductsRight
  OBVIOUS
<1>0. Mat(A) /\ v \in Vec(A)
  BY DEF SkylineInv
<1>1. (\A i \in All : Coef(A, i, i) \in Ons) => Units(A)
  BY SkylineAssumption DEF Units, All
<1>2. AsFull
  BY <1>0, <1>1, AllAsFull DEF AsFull
<1>3. LoadRight
  <2> SUFFICES ASSUME NEW file \in Entries PROVE
          LET F == Full(fem_matrix_load(file))
              es == file.entries
              Final(i, j) == SelectLastInSeq(es, LAMBDA e : {e[1] - 1, e[2] - 1} = {i, j})
          IN  \A i, j \in 0 .. file.size - 1 :
                F[i][j] = IF Final(i, j) = 0 THEN 0 ELSE es[Final(i, j)][3]
    BY DEF LoadRight
  <2> QED
    BY FilesAre, LoadIs
<1> QED
  BY <1>2, <1>3 DEF ProductsRight

\* Products and resolutions in a profile are those of the full matrix, which is the one of the
\* file it was loaded from (matrix.c, solver.c).
THEOREM ProductsAreRight == SkylineSpec => []ProductsRight
<1>1. SkylineInit => SkylineInv
  BY SkylineInitial
<1>2. SkylineInv /\ [SkylineNext]_skylineVars => SkylineInv'
  BY SkylineStep
<1>3. SkylineInv => ProductsRight
  BY SkylineImplies
<1> QED
  BY <1>1, <1>2, <1>3, PTL DEF SkylineSpec

-----------------------------------------------------------------------------
(* The results of an analysis *)

\* What a place holds, a value of the list, and an analysis.
Held == Values \cup {"uninitialised"}
Results == [n : ResultRows, at : Nat, nb_values : Nat, info : Int]
AnalysisTypes ==
  {"NODES", "NODE_ON_ELEMENTS", "ELEMENTS", "POINTS", "ELEMENTS_AT_NODES", "OTHER"}

\* The numbers written are those of the analysis, each with a place in the list.
AnalysisTyped ==
  /\ analysis \in [type : AnalysisTypes, dim : Nat, values_list : Seq(Results),
                   number : [DOMAIN written -> Nat], value_allocator : Seq(Held), info_allocator : Int]
  /\ written = [n \in DOMAIN written |-> written[n]]
  /\ analysis.info_allocator >= Nowhere

\* Numbers and places of the list go with each other one to one.
ListedOnce ==
  /\ \A n \in DOMAIN written : /\ analysis.number[n] \in 1..Len(analysis.values_list)
                               /\ analysis.values_list[analysis.number[n]].n = n
  /\ \A k \in 1..Len(analysis.values_list) :
       /\ analysis.values_list[k].n \in DOMAIN written
       /\ analysis.number[analysis.values_list[k].n] = k
  /\ IsFiniteSet(DOMAIN written) /\ Cardinality(DOMAIN written) = Len(analysis.values_list)

\* Values are where there is room, and hold what was written.
ValuesInPlace ==
  /\ \A k \in 1..Len(analysis.values_list) :
       analysis.values_list[k].at + analysis.values_list[k].nb_values * analysis.dim
         <= Len(analysis.value_allocator)
  /\ \A n \in DOMAIN written :
       LET value == analysis.values_list[analysis.number[n]]
       IN  /\ written[n] \in [1..(value.nb_values * analysis.dim) -> Held]
           /\ \A k \in 1..(value.nb_values * analysis.dim) :
                analysis.value_allocator[value.at + k] = written[n][k]

\* Information is in what was given out.
InfosInPlace ==
  \A k \in 1..Len(analysis.values_list) :
    analysis.values_list[k].info # Nowhere =>
      0 <= analysis.values_list[k].info /\ analysis.values_list[k].info < analysis.info_allocator

\* The inductive invariant of the results.
AnalysisInv == AnalysisTyped /\ ListedOnce /\ ValuesInPlace /\ InfosInPlace /\ RegionsApart

-----------------------------------------------------------------------------
\* What the invariant says of each component of the state.
LEMMA AnalysisParts ==
  ASSUME AnalysisInv
  PROVE  /\ analysis.number \in [DOMAIN written -> Nat] /\ DOMAIN analysis.number = DOMAIN written
         /\ analysis.values_list \in Seq(Results) /\ Len(analysis.values_list) \in Nat
         /\ DOMAIN analysis.values_list = 1..Len(analysis.values_list)
         /\ analysis.value_allocator \in Seq(Held) /\ Len(analysis.value_allocator) \in Nat
         /\ DOMAIN analysis.value_allocator = 1..Len(analysis.value_allocator)
         /\ analysis.dim \in Nat /\ analysis.info_allocator \in Int /\ analysis.info_allocator >= Nowhere
         /\ analysis.type \in AnalysisTypes
<1>1. analysis \in [type : AnalysisTypes, dim : Nat, values_list : Seq(Results),
                    number : [DOMAIN written -> Nat], value_allocator : Seq(Held), info_allocator : Int]
  BY DEF AnalysisInv, AnalysisTyped
<1>2. analysis.values_list \in Seq(Results) /\ analysis.value_allocator \in Seq(Held)
  BY <1>1
<1>3. /\ analysis.number \in [DOMAIN written -> Nat] /\ analysis.dim \in Nat
      /\ analysis.info_allocator \in Int /\ analysis.type \in AnalysisTypes
  BY <1>1
<1>4. DOMAIN analysis.number = DOMAIN written
  BY <1>3
<1>5. analysis.info_allocator >= Nowhere
  BY DEF AnalysisInv, AnalysisTyped
<1> QED BY <1>2, <1>3, <1>4, <1>5

\* A value of the list.
LEMMA ValueParts ==
  ASSUME AnalysisInv, NEW k \in 1..Len(analysis.values_list)
  PROVE  /\ analysis.values_list[k] \in Results
         /\ analysis.values_list[k].n \in ResultRows /\ analysis.values_list[k].at \in Nat
         /\ analysis.values_list[k].nb_values \in Nat /\ analysis.values_list[k].info \in Int
         /\ analysis.values_list[k].nb_values * analysis.dim \in Nat
<1>1. analysis.values_list[k] \in Results
  BY AnalysisParts
<1>2. analysis.values_list[k].nb_values \in Nat /\ analysis.dim \in Nat
  BY <1>1, AnalysisParts DEF Results
<1>3. analysis.values_list[k].nb_values * analysis.dim \in Nat
  BY <1>2
<1> QED BY <1>1, <1>3 DEF Results

\* Room for some values.
LEMMA RoomIs ==
  ASSUME NEW nb \in Nat, analysis.dim \in Nat
  PROVE  /\ nb * analysis.dim \in Nat
         /\ Room(nb) \in Seq(Held) /\ Len(Room(nb)) = nb * analysis.dim
         /\ Room(nb) \in [1..(nb * analysis.dim) -> Held]
         /\ \A k \in 1..(nb * analysis.dim) : Room(nb)[k] = "uninitialised"
<1>1. nb * analysis.dim \in Nat
  OBVIOUS
<1>2. Room(nb) \in [1..(nb * analysis.dim) -> Held]
  BY DEF Room, Held
<1>3. Room(nb) \in Seq(Held) /\ Len(Room(nb)) = nb * analysis.dim
  <2> DEFINE e == nb * analysis.dim
  <2>1. e \in Nat /\ Room(nb) \in [1..e -> Held]
    BY <1>1, <1>2
  <2> HIDE DEF e
  <2>2. Room(nb) \in Seq(Held) /\ Len(Room(nb)) = e
    BY <2>1
  <2> QED BY <2>2 DEF e
<1>4. \A k \in 1..(nb * analysis.dim) : Room(nb)[k] = "uninitialised"
  BY DEF Room
<1> QED BY <1>1, <1>2, <1>3, <1>4

\* The first request for a number: a value more, with room of its own.
LEMMA NewKept ==
  ASSUME AnalysisInv, NEW n \in ResultRows, NEW nb \in Nat, n \notin DOMAIN written,
         analysis' = [analysis EXCEPT
           !.values_list = Append(@, [n |-> n, at |-> Len(analysis.value_allocator), nb_values |-> nb, info |-> Nowhere]),
           !.value_allocator = @ \o Room(nb),
           !.number = Put(@, n, Len(analysis.values_list) + 1)],
         written' = Put(written, n, Room(nb))
  PROVE  AnalysisInv'
<1> DEFINE list == analysis.values_list
           cells == analysis.value_allocator
           value == [n |-> n, at |-> Len(cells), nb_values |-> nb, info |-> Nowhere]
           e == nb * analysis.dim
<1>1. /\ list \in Seq(Results) /\ Len(list) \in Nat /\ cells \in Seq(Held) /\ Len(cells) \in Nat
      /\ analysis.dim \in Nat /\ analysis.info_allocator \in Int /\ analysis.info_allocator >= Nowhere
      /\ analysis.number \in [DOMAIN written -> Nat] /\ analysis.type \in AnalysisTypes
  BY AnalysisParts
<1>2. analysis \in [type : AnalysisTypes, dim : Nat, values_list : Seq(Results),
                    number : [DOMAIN written -> Nat], value_allocator : Seq(Held), info_allocator : Int]
  BY DEF AnalysisInv, AnalysisTyped
<1>3. /\ analysis'.values_list = Append(list, value) /\ analysis'.value_allocator = cells \o Room(nb)
      /\ analysis'.number = Put(analysis.number, n, Len(list) + 1)
      /\ analysis'.dim = analysis.dim /\ analysis'.info_allocator = analysis.info_allocator
      /\ analysis'.type = analysis.type
  BY <1>2
<1>4. /\ e \in Nat /\ Room(nb) \in Seq(Held) /\ Len(Room(nb)) = e /\ Room(nb) \in [1..e -> Held]
      /\ \A k \in 1..e : Room(nb)[k] = "uninitialised"
  BY <1>1, RoomIs
<1>5. value \in Results /\ value.n = n /\ value.at = Len(cells) /\ value.nb_values = nb /\ value.info = Nowhere
  BY <1>1 DEF Results, Nowhere
<1> HIDE DEF value
<1>6. /\ Append(list, value) \in Seq(Results) /\ Len(Append(list, value)) = Len(list) + 1
      /\ Append(list, value)[Len(list) + 1] = value
      /\ \A k \in 1..Len(list) : Append(list, value)[k] = list[k]
  BY <1>1, <1>5
<1> HIDE DEF e
<1>7. /\ cells \o Room(nb) \in Seq(Held) /\ Len(cells \o Room(nb)) = Len(cells) + e
      /\ \A k \in 1..Len(cells) : (cells \o Room(nb))[k] = cells[k]
      /\ \A k \in 1..e : (cells \o Room(nb))[Len(cells) + k] = Room(nb)[k]
  <2>1. Len(Room(nb)) = e /\ Room(nb) \in Seq(Held) /\ cells \in Seq(Held)
    BY <1>1, <1>4
  <2>2. cells \o Room(nb) \in Seq(Held) /\ Len(cells \o Room(nb)) = Len(cells) + e
    BY <2>1
  <2>3. \A k \in 1..Len(cells) : (cells \o Room(nb))[k] = cells[k]
    BY <2>1
  <2>4. ASSUME NEW k \in 1..e
        PROVE  (cells \o Room(nb))[Len(cells) + k] = Room(nb)[k]
    <3>1. Len(cells) + k \in 1..(Len(cells) + Len(Room(nb))) /\ ~(Len(cells) + k <= Len(cells))
          /\ (Len(cells) + k) - Len(cells) = k
      <4> DEFINE c == Len(cells)
      <4>1. c \in Nat /\ e \in Nat /\ Len(Room(nb)) = e
        BY <1>1, <1>4
      <4> HIDE DEF c
      <4>2. c + k \in 1..(c + e) /\ ~(c + k <= c) /\ (c + k) - c = k
        BY <4>1
      <4> QED BY <4>1, <4>2 DEF c
    <3> QED BY <2>1, <3>1, <1>1
  <2> QED BY <2>2, <2>3, <2>4
<1>8. /\ DOMAIN written' = DOMAIN written \cup {n} /\ written'[n] = Room(nb)
      /\ \A m \in DOMAIN written : written'[m] = written[m]
      /\ written' = [m \in DOMAIN written' |-> written'[m]]
  <2>1. written' = Put(written, n, Room(nb))
    OBVIOUS
  <2>2. \A m \in DOMAIN written : m # n
    OBVIOUS
  <2>3. DOMAIN Put(written, n, Room(nb)) = DOMAIN written \cup {n}
    BY DEF Put
  <2>4. Put(written, n, Room(nb))[n] = Room(nb)
    BY DEF Put
  <2>5. \A m \in DOMAIN written : Put(written, n, Room(nb))[m] = written[m]
    BY <2>2 DEF Put
  <2>6. Put(written, n, Room(nb)) = [m \in DOMAIN Put(written, n, Room(nb)) |-> Put(written, n, Room(nb))[m]]
    BY DEF Put
  <2> QED BY <2>1, <2>3, <2>4, <2>5, <2>6
<1>9. /\ DOMAIN analysis'.number = DOMAIN written \cup {n} /\ analysis'.number[n] = Len(list) + 1
      /\ \A m \in DOMAIN written : analysis'.number[m] = analysis.number[m]
      /\ analysis'.number = [m \in DOMAIN analysis'.number |-> analysis'.number[m]]
  <2>1. DOMAIN analysis.number = DOMAIN written
    BY <1>1
  <2>2. analysis'.number = Put(analysis.number, n, Len(list) + 1)
    BY <1>3
  <2> DEFINE p == Put(analysis.number, n, Len(list) + 1)
  <2>3. DOMAIN p = DOMAIN analysis.number \cup {n}
    BY DEF Put
  <2>4. p[n] = Len(list) + 1
    BY DEF Put
  <2>5. \A m \in DOMAIN analysis.number : p[m] = analysis.number[m]
    BY <2>1 DEF Put
  <2>6. p = [m \in DOMAIN p |-> p[m]]
    BY DEF Put
  <2> HIDE DEF p
  <2>7. analysis'.number = p
    BY <2>2 DEF p
  <2> QED BY <2>1, <2>7, <2>3, <2>4, <2>5, <2>6
<1>10. AnalysisTyped'
  <2>1. analysis'.number \in [DOMAIN written' -> Nat]
    BY <1>1, <1>8, <1>9
  <2>2. analysis' \in [type : AnalysisTypes, dim : Nat, values_list : Seq(Results),
                       number : [DOMAIN written' -> Nat], value_allocator : Seq(Held), info_allocator : Int]
    <3>1. analysis' = [type |-> analysis.type, dim |-> analysis.dim, values_list |-> Append(list, value),
                       number |-> analysis'.number, value_allocator |-> cells \o Room(nb),
                       info_allocator |-> analysis.info_allocator]
      BY <1>2, <1>3
    <3> QED BY <3>1, <2>1, <1>1, <1>6, <1>7
  <2> QED BY <2>2, <1>1, <1>3, <1>8 DEF AnalysisTyped
<1>11. ListedOnce'
  <2>1. ListedOnce
    BY DEF AnalysisInv
  <2>2. ASSUME NEW m \in DOMAIN written'
        PROVE  analysis'.number[m] \in 1..Len(analysis'.values_list)
               /\ analysis'.values_list[analysis'.number[m]].n = m
    <3>1. CASE m = n
      BY <3>1, <1>1, <1>3, <1>5, <1>6, <1>9
    <3>2. CASE m # n
      <4>1. m \in DOMAIN written /\ analysis.number[m] \in 1..Len(list) /\ list[analysis.number[m]].n = m
        BY <3>2, <2>1, <1>8 DEF ListedOnce
      <4> QED BY <4>1, <1>1, <1>3, <1>6, <1>9
    <3> QED BY <3>1, <3>2
  <2>3. ASSUME NEW k \in 1..Len(analysis'.values_list)
        PROVE  analysis'.values_list[k].n \in DOMAIN written' /\ analysis'.number[analysis'.values_list[k].n] = k
    <3>1. k \in 1..(Len(list) + 1)
      BY <1>3, <1>6
    <3>2. CASE k = Len(list) + 1
      BY <3>2, <1>3, <1>5, <1>6, <1>8, <1>9
    <3>3. CASE k # Len(list) + 1
      <4>1. k \in 1..Len(list)
        BY <3>1, <3>3, <1>1
      <4>2. list[k].n \in DOMAIN written /\ analysis.number[list[k].n] = k
        BY <4>1, <2>1 DEF ListedOnce
      <4> QED BY <4>1, <4>2, <1>3, <1>6, <1>8, <1>9
    <3> QED BY <3>2, <3>3
  <2>4. IsFiniteSet(DOMAIN written') /\ Cardinality(DOMAIN written') = Len(analysis'.values_list)
    <3>1. IsFiniteSet(DOMAIN written) /\ Cardinality(DOMAIN written) = Len(list)
      BY <2>1 DEF ListedOnce
    <3>2. IsFiniteSet(DOMAIN written \cup {n}) /\ Cardinality(DOMAIN written \cup {n}) = Len(list) + 1
      BY <3>1, FS_AddElement
    <3> QED BY <3>2, <1>3, <1>6, <1>8
  <2> QED BY <2>2, <2>3, <2>4 DEF ListedOnce
<1>12. ValuesInPlace'
  <2>1. ASSUME NEW k \in 1..Len(analysis'.values_list)
        PROVE  analysis'.values_list[k].at + analysis'.values_list[k].nb_values * analysis'.dim
                 <= Len(analysis'.value_allocator)
    <3>1. k \in 1..(Len(list) + 1)
      BY <1>3, <1>6
    <3>2. CASE k = Len(list) + 1
      <4>1. analysis'.values_list[k] = value
        BY <3>2, <1>3, <1>6
      <4>2. analysis'.values_list[k].nb_values * analysis'.dim = e
        BY <4>1, <1>3, <1>5 DEF e
      <4>3. analysis'.values_list[k].at = Len(cells)
        BY <4>1, <1>5
      <4>4. Len(analysis'.value_allocator) = Len(cells) + e
        BY <1>3, <1>7
      <4>5. Len(cells) + e <= Len(cells) + e
        BY <1>1, <1>4
      <4> QED BY <4>2, <4>3, <4>4, <4>5
    <3>3. CASE k # Len(list) + 1
      <4>1. k \in 1..Len(list)
        BY <3>1, <3>3, <1>1
      <4> DEFINE d == list[k].nb_values * analysis.dim
      <4>2. d \in Nat /\ list[k].at \in Nat /\ list[k].at + d <= Len(cells)
        BY <4>1, ValueParts DEF AnalysisInv, ValuesInPlace
      <4>3. analysis'.values_list[k].at = list[k].at /\ analysis'.values_list[k].nb_values * analysis'.dim = d
        BY <4>1, <1>3, <1>6
      <4> HIDE DEF d
      <4>4. Len(analysis'.value_allocator) = Len(cells) + e
        BY <1>3, <1>7
      <4>5. list[k].at + d <= Len(cells) + e
        <5> DEFINE at == list[k].at
                   c == Len(cells)
        <5>1. at \in Nat /\ d \in Nat /\ c \in Nat /\ e \in Nat /\ at + d <= c
          BY <4>2, <1>1, <1>4
        <5> HIDE DEF at, c
        <5>2. at + d <= c + e
          BY <5>1
        <5> QED BY <5>2 DEF at, c
      <4> QED BY <4>3, <4>4, <4>5
    <3> QED BY <3>2, <3>3
  <2>2. ASSUME NEW m \in DOMAIN written'
        PROVE  LET val == analysis'.values_list[analysis'.number[m]]
               IN  /\ written'[m] \in [1..(val.nb_values * analysis'.dim) -> Held]
                   /\ \A k \in 1..(val.nb_values * analysis'.dim) :
                        analysis'.value_allocator[val.at + k] = written'[m][k]
    <3>1. CASE m = n
      <4>1. analysis'.values_list[analysis'.number[m]] = value /\ written'[m] = Room(nb)
        BY <3>1, <1>3, <1>6, <1>8, <1>9
      <4>2. value.nb_values * analysis'.dim = e
        BY <1>3, <1>5 DEF e
      <4>3. \A k \in 1..e : analysis'.value_allocator[value.at + k] = Room(nb)[k]
        BY <1>3, <1>5, <1>7
      <4> QED BY <4>1, <4>2, <4>3, <1>4
    <3>2. CASE m # n
      <4>1. m \in DOMAIN written
        BY <3>2, <1>8
      <4> DEFINE val == list[analysis.number[m]]
                 d == val.nb_values * analysis.dim
      <4>2. analysis.number[m] \in 1..Len(list)
        BY <4>1 DEF AnalysisInv, ListedOnce
      <4>3. /\ written[m] \in [1..d -> Held] /\ \A k \in 1..d : cells[val.at + k] = written[m][k]
            /\ val.at + d <= Len(cells)
        BY <4>1, <4>2 DEF AnalysisInv, ValuesInPlace
      <4>4. d \in Nat /\ val.at \in Nat
        BY <4>2, ValueParts
      <4>5. analysis'.values_list[analysis'.number[m]] = val /\ written'[m] = written[m]
        BY <4>1, <4>2, <1>3, <1>6, <1>8, <1>9
      <4>6. val.nb_values * analysis'.dim = d
        BY <1>3
      <4> HIDE DEF d, val
      <4>7. \A k \in 1..d : analysis'.value_allocator[val.at + k] = written[m][k]
        <5>1. TAKE k \in 1..d
        <5>2. val.at + k \in 1..Len(cells)
          BY <4>3, <4>4, <1>1
        <5> QED BY <5>2, <4>3, <1>3, <1>7
      <4> QED BY <4>3, <4>5, <4>6, <4>7
    <3> QED BY <3>1, <3>2
  <2> QED BY <2>1, <2>2 DEF ValuesInPlace
<1>13. InfosInPlace'
  <2>1. ASSUME NEW k \in 1..Len(analysis'.values_list), analysis'.values_list[k].info # Nowhere
        PROVE  0 <= analysis'.values_list[k].info /\ analysis'.values_list[k].info < analysis'.info_allocator
    <3>1. k \in 1..(Len(list) + 1)
      BY <1>3, <1>6
    <3>2. k # Len(list) + 1
      BY <2>1, <1>3, <1>5, <1>6
    <3>3. k \in 1..Len(list)
      BY <3>1, <3>2, <1>1
    <3> QED BY <3>3, <2>1, <1>3, <1>6 DEF AnalysisInv, InfosInPlace
  <2> QED BY <2>1 DEF InfosInPlace
<1>14. RegionsApart'
  <2> SUFFICES ASSUME NEW i \in 1..(Len(list) + 1), NEW k \in 1..(Len(list) + 1), i # k
               PROVE  LET one == analysis'.values_list[i]  other == analysis'.values_list[k]
                      IN  /\ ((one.at + 1)..(one.at + one.nb_values * analysis'.dim))
                               \cap ((other.at + 1)..(other.at + other.nb_values * analysis'.dim)) = {}
                          /\ one.info # Nowhere => one.info # other.info
    <3>1. DOMAIN analysis'.values_list = 1..(Len(list) + 1)
      BY <1>1, <1>3, <1>6
    <3> QED BY <3>1 DEF RegionsApart, Region
  <2>1. ASSUME NEW j \in 1..Len(list)
        PROVE  /\ analysis'.values_list[j] = list[j] /\ list[j].at \in Nat
               /\ list[j].nb_values * analysis.dim \in Nat
               /\ list[j].at + list[j].nb_values * analysis.dim <= Len(cells)
    BY ValueParts, <1>3, <1>6 DEF AnalysisInv, ValuesInPlace
  <2>2. ASSUME NEW j \in 1..Len(list)
        PROVE  ((list[j].at + 1)..(list[j].at + list[j].nb_values * analysis.dim))
                 \cap ((Len(cells) + 1)..(Len(cells) + e)) = {}
    <3> DEFINE d == list[j].nb_values * analysis.dim
               at == list[j].at
    <3>1. at \in Nat /\ d \in Nat /\ at + d <= Len(cells)
      BY <2>1
    <3> HIDE DEF d, at
    <3>2. ((at + 1)..(at + d)) \cap ((Len(cells) + 1)..(Len(cells) + e)) = {}
      <4> DEFINE c == Len(cells)
      <4>1. c \in Nat /\ at + d <= c
        BY <3>1, <1>1
      <4> HIDE DEF c
      <4>2. ((at + 1)..(at + d)) \cap ((c + 1)..(c + e)) = {}
        BY <4>1, <3>1, <1>4
      <4> QED BY <4>2 DEF c
    <3> QED BY <3>2 DEF d, at
  <2>3. value.nb_values * analysis.dim = e
    BY <1>5 DEF e
  <2>4. CASE i \in 1..Len(list) /\ k \in 1..Len(list)
    <3>1. i \in DOMAIN list /\ k \in DOMAIN list
      BY <2>4, <1>1
    <3>2. /\ ((list[i].at + 1)..(list[i].at + list[i].nb_values * analysis.dim))
               \cap ((list[k].at + 1)..(list[k].at + list[k].nb_values * analysis.dim)) = {}
          /\ list[i].info # Nowhere => list[i].info # list[k].info
      BY <3>1 DEF AnalysisInv, RegionsApart, Region
    <3>3. analysis'.values_list[i] = list[i] /\ analysis'.values_list[k] = list[k]
      BY <2>4, <2>1
    <3> QED BY <3>2, <3>3, <1>3
  <2>5. CASE i = Len(list) + 1
    <3>1. k \in 1..Len(list)
      BY <2>5, <1>1
    <3>2. analysis'.values_list[i] = value /\ analysis'.values_list[k] = list[k]
      BY <2>5, <3>1, <2>1, <1>3, <1>6
    <3> QED BY <3>1, <3>2, <2>2, <2>3, <1>3, <1>5
  <2>6. CASE k = Len(list) + 1
    <3>1. i \in 1..Len(list)
      BY <2>6, <1>1
    <3>2. analysis'.values_list[k] = value /\ analysis'.values_list[i] = list[i]
      BY <2>6, <3>1, <2>1, <1>3, <1>6
    <3> QED BY <3>1, <3>2, <2>2, <2>3, <1>3, <1>5
  <2>7. (i \in 1..Len(list) /\ k \in 1..Len(list)) \/ i = Len(list) + 1 \/ k = Len(list) + 1
    BY <1>1
  <2> QED BY <2>4, <2>5, <2>6, <2>7
<1> QED BY <1>10, <1>11, <1>12, <1>13, <1>14 DEF AnalysisInv

\* A list with another value in one place.
LEMMA ListWith ==
  ASSUME NEW list \in Seq(Results), NEW k \in 1..Len(list), NEW value \in Results, NEW new,
         new = [list EXCEPT ![k] = value]
  PROVE  /\ new \in Seq(Results) /\ Len(new) = Len(list) /\ new[k] = value
         /\ DOMAIN new = 1..Len(list)
         /\ \A j \in 1..Len(list) : j # k => new[j] = list[j]
  OBVIOUS

\* Values that grow have new places, at the end, without what they held.
LEMMA GrownKept ==
  ASSUME AnalysisInv, NEW n \in DOMAIN written, NEW nb \in Nat, NEW k, k = analysis.number[n],
         analysis' = [analysis EXCEPT !.values_list[k].nb_values = nb,
                                      !.values_list[k].at = Len(analysis.value_allocator),
                                      !.value_allocator = @ \o Room(nb)],
         written' = Put(written, n, Room(nb))
  PROVE  AnalysisInv'
<1> DEFINE list == analysis.values_list
           cells == analysis.value_allocator
           value == [n |-> n, at |-> Len(cells), nb_values |-> nb, info |-> list[k].info]
           new == [list EXCEPT ![k] = value]
           e == nb * analysis.dim
<1>1. /\ list \in Seq(Results) /\ Len(list) \in Nat /\ cells \in Seq(Held) /\ Len(cells) \in Nat
      /\ analysis.dim \in Nat /\ analysis.info_allocator \in Int /\ analysis.info_allocator >= Nowhere
      /\ analysis.number \in [DOMAIN written -> Nat] /\ analysis.type \in AnalysisTypes
      /\ DOMAIN list = 1..Len(list)
  BY AnalysisParts
<1>2. analysis \in [type : AnalysisTypes, dim : Nat, values_list : Seq(Results),
                    number : [DOMAIN written -> Nat], value_allocator : Seq(Held), info_allocator : Int]
  BY DEF AnalysisInv, AnalysisTyped
<1>3. k \in 1..Len(list) /\ list[k].n = n
  BY DEF AnalysisInv, ListedOnce
<1>4. list[k] \in Results /\ list[k].n \in ResultRows /\ list[k].info \in Int
  BY <1>3, ValueParts
<1>5. /\ value \in Results /\ value.n = n /\ value.at = Len(cells) /\ value.nb_values = nb
      /\ value.info = list[k].info
  BY <1>1, <1>3, <1>4 DEF Results
<1>6. /\ new \in Seq(Results) /\ Len(new) = Len(list) /\ new[k] = value /\ DOMAIN new = 1..Len(list)
      /\ \A j \in 1..Len(list) : j # k => new[j] = list[j]
  BY <1>1, <1>3, <1>5
<1>7. analysis'.values_list = new
  <2>1. analysis'.values_list = [list EXCEPT ![k] = [[list[k] EXCEPT !.nb_values = nb] EXCEPT !.at = Len(cells)]]
    BY <1>1, <1>2, <1>3
  <2>2. [[list[k] EXCEPT !.nb_values = nb] EXCEPT !.at = Len(cells)] = value
    <3>1. list[k] = [n |-> n, at |-> list[k].at, nb_values |-> list[k].nb_values, info |-> list[k].info]
      BY <1>3, <1>4 DEF Results
    <3> DEFINE y == [list[k] EXCEPT !.nb_values = nb]
               info == list[k].info
    <3>2. y = [n |-> n, at |-> list[k].at, nb_values |-> nb, info |-> info]
      BY <3>1
    <3> HIDE DEF y, info
    <3>3. [y EXCEPT !.at = Len(cells)] = [n |-> n, at |-> Len(cells), nb_values |-> nb, info |-> info]
      BY <3>2
    <3> QED BY <3>3 DEF y, info
  <2> QED BY <2>1, <2>2 DEF new
<1>8. /\ analysis'.value_allocator = cells \o Room(nb)
      /\ analysis'.number = analysis.number
      /\ analysis'.dim = analysis.dim /\ analysis'.info_allocator = analysis.info_allocator
      /\ analysis'.type = analysis.type
  BY <1>2
<1>9. analysis' = [type |-> analysis.type, dim |-> analysis.dim, values_list |-> analysis'.values_list,
                   number |-> analysis.number, value_allocator |-> cells \o Room(nb),
                   info_allocator |-> analysis.info_allocator]
  BY <1>2, <1>8
<1> HIDE DEF value, new
<1>10. /\ e \in Nat /\ Room(nb) \in Seq(Held) /\ Len(Room(nb)) = e /\ Room(nb) \in [1..e -> Held]
       /\ \A j \in 1..e : Room(nb)[j] = "uninitialised"
  BY <1>1, RoomIs
<1> HIDE DEF e
<1>11. /\ cells \o Room(nb) \in Seq(Held) /\ Len(cells \o Room(nb)) = Len(cells) + e
       /\ \A j \in 1..Len(cells) : (cells \o Room(nb))[j] = cells[j]
       /\ \A j \in 1..e : (cells \o Room(nb))[Len(cells) + j] = Room(nb)[j]
  <2>1. Len(Room(nb)) = e /\ Room(nb) \in Seq(Held) /\ cells \in Seq(Held)
    BY <1>1, <1>10
  <2>2. cells \o Room(nb) \in Seq(Held) /\ Len(cells \o Room(nb)) = Len(cells) + e
    BY <2>1
  <2>3. \A j \in 1..Len(cells) : (cells \o Room(nb))[j] = cells[j]
    BY <2>1
  <2>4. ASSUME NEW j \in 1..e
        PROVE  (cells \o Room(nb))[Len(cells) + j] = Room(nb)[j]
    <3>1. Len(cells) + j \in 1..(Len(cells) + Len(Room(nb))) /\ ~(Len(cells) + j <= Len(cells))
          /\ (Len(cells) + j) - Len(cells) = j
      <4> DEFINE c == Len(cells)
      <4>1. c \in Nat /\ e \in Nat /\ Len(Room(nb)) = e
        BY <1>1, <1>10
      <4> HIDE DEF c
      <4>2. c + j \in 1..(c + e) /\ ~(c + j <= c) /\ (c + j) - c = j
        BY <4>1
      <4> QED BY <4>1, <4>2 DEF c
    <3> QED BY <2>1, <3>1, <1>1
  <2> QED BY <2>2, <2>3, <2>4
<1>12. /\ DOMAIN written' = DOMAIN written /\ written'[n] = Room(nb)
       /\ \A m \in DOMAIN written : m # n => written'[m] = written[m]
       /\ written' = [m \in DOMAIN written' |-> written'[m]]
  <2>1. written' = Put(written, n, Room(nb))
    OBVIOUS
  <2>2. DOMAIN Put(written, n, Room(nb)) = DOMAIN written
    BY DEF Put
  <2>3. Put(written, n, Room(nb))[n] = Room(nb)
    BY DEF Put
  <2>4. \A m \in DOMAIN written : m # n => Put(written, n, Room(nb))[m] = written[m]
    BY DEF Put
  <2>5. Put(written, n, Room(nb)) = [m \in DOMAIN Put(written, n, Room(nb)) |-> Put(written, n, Room(nb))[m]]
    BY DEF Put
  <2> QED BY <2>1, <2>2, <2>3, <2>4, <2>5
<1>13. /\ Len(analysis'.values_list) = Len(list)
       /\ \A j \in 1..Len(list) : /\ analysis'.values_list[j].n = list[j].n
                                  /\ analysis'.values_list[j].info = list[j].info
                                  /\ j # k => analysis'.values_list[j] = list[j]
  <2>1. ASSUME NEW j \in 1..Len(list)
        PROVE  analysis'.values_list[j].n = list[j].n /\ analysis'.values_list[j].info = list[j].info
               /\ (j # k => analysis'.values_list[j] = list[j])
    <3>1. CASE j = k
      BY <3>1, <1>3, <1>5, <1>6, <1>7
    <3>2. CASE j # k
      BY <3>2, <1>6, <1>7
    <3> QED BY <3>1, <3>2
  <2> QED BY <2>1, <1>6, <1>7
<1>14. AnalysisTyped'
  <2>1. analysis' \in [type : AnalysisTypes, dim : Nat, values_list : Seq(Results),
                       number : [DOMAIN written' -> Nat], value_allocator : Seq(Held), info_allocator : Int]
    <3>1. analysis'.values_list \in Seq(Results)
      BY <1>6, <1>7
    <3>2. analysis.number \in [DOMAIN written' -> Nat]
      BY <1>1, <1>12
    <3>3. cells \o Room(nb) \in Seq(Held)
      BY <1>11
    <3> QED BY <3>1, <3>2, <3>3, <1>1, <1>9
  <2> QED BY <2>1, <1>1, <1>8, <1>12 DEF AnalysisTyped
<1>15. ListedOnce'
  <2>1. ListedOnce
    BY DEF AnalysisInv
  <2>2. ASSUME NEW m \in DOMAIN written'
        PROVE  analysis'.number[m] \in 1..Len(analysis'.values_list)
               /\ analysis'.values_list[analysis'.number[m]].n = m
    <3>1. m \in DOMAIN written /\ analysis.number[m] \in 1..Len(list) /\ list[analysis.number[m]].n = m
      BY <2>1, <1>12 DEF ListedOnce
    <3> QED BY <3>1, <1>8, <1>13
  <2>3. ASSUME NEW j \in 1..Len(analysis'.values_list)
        PROVE  analysis'.values_list[j].n \in DOMAIN written' /\ analysis'.number[analysis'.values_list[j].n] = j
    <3>1. j \in 1..Len(list)
      BY <1>13
    <3>2. list[j].n \in DOMAIN written /\ analysis.number[list[j].n] = j
      BY <3>1, <2>1 DEF ListedOnce
    <3> QED BY <3>1, <3>2, <1>8, <1>12, <1>13
  <2>4. IsFiniteSet(DOMAIN written') /\ Cardinality(DOMAIN written') = Len(analysis'.values_list)
    BY <2>1, <1>12, <1>13 DEF ListedOnce
  <2> QED BY <2>2, <2>3, <2>4 DEF ListedOnce
<1>16. ValuesInPlace'
  <2>1. ASSUME NEW j \in 1..Len(analysis'.values_list)
        PROVE  analysis'.values_list[j].at + analysis'.values_list[j].nb_values * analysis'.dim
                 <= Len(analysis'.value_allocator)
    <3>1. j \in 1..Len(list)
      BY <1>13
    <3>2. CASE j = k
      <4>1. analysis'.values_list[j] = value
        BY <3>2, <1>6, <1>7
      <4>2. analysis'.values_list[j].nb_values * analysis'.dim = e
        BY <4>1, <1>5, <1>8 DEF e
      <4>3. analysis'.values_list[j].at = Len(cells)
        BY <4>1, <1>5
      <4>4. Len(analysis'.value_allocator) = Len(cells) + e
        BY <1>8, <1>11
      <4>5. Len(cells) + e <= Len(cells) + e
        BY <1>1, <1>10
      <4> QED BY <4>2, <4>3, <4>4, <4>5
    <3>3. CASE j # k
      <4> DEFINE d == list[j].nb_values * analysis.dim
      <4>2. d \in Nat /\ list[j].at \in Nat /\ list[j].at + d <= Len(cells)
        BY <3>1, ValueParts DEF AnalysisInv, ValuesInPlace
      <4>3. analysis'.values_list[j].at = list[j].at /\ analysis'.values_list[j].nb_values * analysis'.dim = d
        BY <3>1, <3>3, <1>8, <1>13
      <4> HIDE DEF d
      <4>4. Len(analysis'.value_allocator) = Len(cells) + e
        BY <1>8, <1>11
      <4>5. list[j].at + d <= Len(cells) + e
        <5> DEFINE at == list[j].at
                   c == Len(cells)
        <5>1. at \in Nat /\ d \in Nat /\ c \in Nat /\ e \in Nat /\ at + d <= c
          BY <4>2, <1>1, <1>10
        <5> HIDE DEF at, c
        <5>2. at + d <= c + e
          BY <5>1
        <5> QED BY <5>2 DEF at, c
      <4> QED BY <4>3, <4>4, <4>5
    <3> QED BY <3>2, <3>3
  <2>2. ASSUME NEW m \in DOMAIN written'
        PROVE  LET val == analysis'.values_list[analysis'.number[m]]
               IN  /\ written'[m] \in [1..(val.nb_values * analysis'.dim) -> Held]
                   /\ \A j \in 1..(val.nb_values * analysis'.dim) :
                        analysis'.value_allocator[val.at + j] = written'[m][j]
    <3>1. CASE m = n
      <4>1. analysis'.values_list[analysis'.number[m]] = value /\ written'[m] = Room(nb)
        BY <3>1, <1>6, <1>7, <1>8, <1>12
      <4>2. value.nb_values * analysis'.dim = e
        BY <1>5, <1>8 DEF e
      <4>3. \A j \in 1..e : analysis'.value_allocator[value.at + j] = Room(nb)[j]
        BY <1>5, <1>8, <1>11
      <4> QED BY <4>1, <4>2, <4>3, <1>10
    <3>2. CASE m # n
      <4>1. m \in DOMAIN written
        BY <1>12
      <4> DEFINE val == list[analysis.number[m]]
                 d == val.nb_values * analysis.dim
      <4>2. analysis.number[m] \in 1..Len(list) /\ val.n = m
        BY <4>1 DEF AnalysisInv, ListedOnce
      <4>3. /\ written[m] \in [1..d -> Held] /\ \A j \in 1..d : cells[val.at + j] = written[m][j]
            /\ val.at + d <= Len(cells)
        BY <4>1, <4>2 DEF AnalysisInv, ValuesInPlace
      <4>4. d \in Nat /\ val.at \in Nat
        BY <4>2, ValueParts
      <4>5. analysis.number[m] # k
        BY <4>2, <3>2, <1>3
      <4>6. analysis'.values_list[analysis'.number[m]] = val /\ written'[m] = written[m]
        <5>1. analysis'.values_list[analysis.number[m]] = val
          BY <4>2, <4>5, <1>13
        <5>2. written'[m] = written[m]
          BY <4>1, <3>2, <1>12
        <5> QED BY <5>1, <5>2, <1>8
      <4>7. val.nb_values * analysis'.dim = d
        BY <1>8
      <4> HIDE DEF d, val
      <4>8. \A j \in 1..d : analysis'.value_allocator[val.at + j] = written[m][j]
        <5>1. TAKE j \in 1..d
        <5>2. val.at + j \in 1..Len(cells)
          BY <4>3, <4>4, <1>1
        <5> QED BY <5>2, <4>3, <1>8, <1>11
      <4> QED BY <4>3, <4>6, <4>7, <4>8
    <3> QED BY <3>1, <3>2
  <2> QED BY <2>1, <2>2 DEF ValuesInPlace
<1>17. InfosInPlace'
  BY <1>8, <1>13 DEF AnalysisInv, InfosInPlace
<1>18. RegionsApart'
  <2> SUFFICES ASSUME NEW i \in 1..Len(list), NEW j \in 1..Len(list), i # j
               PROVE  LET one == analysis'.values_list[i]  other == analysis'.values_list[j]
                      IN  /\ ((one.at + 1)..(one.at + one.nb_values * analysis'.dim))
                               \cap ((other.at + 1)..(other.at + other.nb_values * analysis'.dim)) = {}
                          /\ one.info # Nowhere => one.info # other.info
    <3>1. DOMAIN analysis'.values_list = 1..Len(list)
      BY <1>6, <1>7
    <3> QED BY <3>1 DEF RegionsApart, Region
  <2>1. ASSUME NEW x \in 1..Len(list)
        PROVE  ((list[x].at + 1)..(list[x].at + list[x].nb_values * analysis.dim))
                 \cap ((Len(cells) + 1)..(Len(cells) + e)) = {}
    <3> DEFINE d == list[x].nb_values * analysis.dim
               at == list[x].at
    <3>1. at \in Nat /\ d \in Nat /\ at + d <= Len(cells)
      BY ValueParts DEF AnalysisInv, ValuesInPlace
    <3> HIDE DEF d, at
    <3>2. ((at + 1)..(at + d)) \cap ((Len(cells) + 1)..(Len(cells) + e)) = {}
      <4> DEFINE c == Len(cells)
      <4>1. c \in Nat /\ at + d <= c
        BY <3>1, <1>1
      <4> HIDE DEF c
      <4>2. ((at + 1)..(at + d)) \cap ((c + 1)..(c + e)) = {}
        BY <4>1, <3>1, <1>10
      <4> QED BY <4>2 DEF c
    <3> QED BY <3>2 DEF d, at
  <2>2. value.nb_values * analysis.dim = e
    BY <1>5 DEF e
  <2>3. /\ ((list[i].at + 1)..(list[i].at + list[i].nb_values * analysis.dim))
             \cap ((list[j].at + 1)..(list[j].at + list[j].nb_values * analysis.dim)) = {}
        /\ list[i].info # Nowhere => list[i].info # list[j].info
    BY <1>1 DEF AnalysisInv, RegionsApart, Region
  <2>4. analysis'.values_list[i].info # Nowhere => analysis'.values_list[i].info # analysis'.values_list[j].info
    BY <2>3, <1>13
  <2>5. CASE i # k /\ j # k
    <3>1. analysis'.values_list[i] = list[i] /\ analysis'.values_list[j] = list[j]
      BY <2>5, <1>13
    <3> QED BY <3>1, <2>3, <1>8
  <2>6. CASE i = k
    <3>1. analysis'.values_list[i] = value /\ analysis'.values_list[j] = list[j]
      BY <2>6, <1>6, <1>7, <1>13
    <3> QED BY <3>1, <2>1, <2>2, <2>4, <1>5, <1>8
  <2>7. CASE j = k
    <3>1. analysis'.values_list[j] = value /\ analysis'.values_list[i] = list[i]
      BY <2>7, <1>6, <1>7, <1>13
    <3> QED BY <3>1, <2>1, <2>2, <2>4, <1>5, <1>8
  <2> QED BY <2>5, <2>6, <2>7
<1> QED BY <1>14, <1>15, <1>16, <1>17, <1>18 DEF AnalysisInv

\* What is written of a number is in no place of another.
LEMMA WrittenKept ==
  ASSUME AnalysisInv, NEW n \in DOMAIN written, NEW x \in Values, NEW p, p = analysis.number[n],
         NEW j \in 1..(analysis.values_list[p].nb_values * analysis.dim),
         analysis' = [analysis EXCEPT !.value_allocator[analysis.values_list[p].at + j] = x],
         written' = [written EXCEPT ![n][j] = x]
  PROVE  AnalysisInv'
<1> DEFINE list == analysis.values_list
           cells == analysis.value_allocator
           at == list[p].at
           d == list[p].nb_values * analysis.dim
<1>1. /\ list \in Seq(Results) /\ Len(list) \in Nat /\ cells \in Seq(Held) /\ Len(cells) \in Nat
      /\ analysis.dim \in Nat /\ analysis.info_allocator \in Int /\ analysis.info_allocator >= Nowhere
      /\ analysis.number \in [DOMAIN written -> Nat] /\ analysis.type \in AnalysisTypes
      /\ DOMAIN list = 1..Len(list) /\ DOMAIN cells = 1..Len(cells)
  BY AnalysisParts
<1>2. analysis \in [type : AnalysisTypes, dim : Nat, values_list : Seq(Results),
                    number : [DOMAIN written -> Nat], value_allocator : Seq(Held), info_allocator : Int]
  BY DEF AnalysisInv, AnalysisTyped
<1>3. p \in 1..Len(list) /\ list[p].n = n
  BY DEF AnalysisInv, ListedOnce
<1>4. at \in Nat /\ d \in Nat
  BY <1>3, ValueParts
<1>5. at + d <= Len(cells) /\ written[n] \in [1..d -> Held]
  BY <1>3 DEF AnalysisInv, ValuesInPlace
<1>6. j \in 1..d
  OBVIOUS
<1>7. analysis'.value_allocator = [cells EXCEPT ![at + j] = x]
  BY <1>2
<1>8. /\ analysis'.values_list = list /\ analysis'.number = analysis.number
      /\ analysis'.dim = analysis.dim /\ analysis'.info_allocator = analysis.info_allocator
      /\ analysis'.type = analysis.type
  BY <1>2
<1>9. analysis' = [type |-> analysis.type, dim |-> analysis.dim, values_list |-> list,
                   number |-> analysis.number, value_allocator |-> analysis'.value_allocator,
                   info_allocator |-> analysis.info_allocator]
  BY <1>2, <1>8
<1>10. written' = [written EXCEPT ![n] = [written[n] EXCEPT ![j] = x]]
  OBVIOUS
<1>11. written = [m \in DOMAIN written |-> written[m]]
  BY DEF AnalysisInv, AnalysisTyped
<1>12. /\ DOMAIN written' = DOMAIN written /\ written'[n] = [written[n] EXCEPT ![j] = x]
       /\ \A m \in DOMAIN written : m # n => written'[m] = written[m]
       /\ written' = [m \in DOMAIN written' |-> written'[m]]
  BY <1>10, <1>11
<1> HIDE DEF at, d
<1>13. at + j \in 1..Len(cells)
  BY <1>1, <1>4, <1>5, <1>6
<1>14. x \in Held
  BY DEF Held
<1>15. /\ analysis'.value_allocator \in Seq(Held) /\ Len(analysis'.value_allocator) = Len(cells)
       /\ analysis'.value_allocator[at + j] = x
       /\ \A i \in 1..Len(cells) : i # at + j => analysis'.value_allocator[i] = cells[i]
  <2> DEFINE place == at + j
             new == [cells EXCEPT ![place] = x]
  <2>1. place \in 1..Len(cells) /\ cells \in Seq(Held)
    BY <1>1, <1>13
  <2> HIDE DEF place
  <2>2. /\ new \in Seq(Held) /\ Len(new) = Len(cells) /\ new[place] = x
        /\ \A i \in 1..Len(cells) : i # place => new[i] = cells[i]
    BY <2>1, <1>1, <1>14
  <2>3. analysis'.value_allocator = new
    BY <1>7 DEF place
  <2> HIDE DEF new
  <2> QED BY <2>2, <2>3 DEF place
<1>16. AnalysisTyped'
  <2>1. analysis' \in [type : AnalysisTypes, dim : Nat, values_list : Seq(Results),
                       number : [DOMAIN written' -> Nat], value_allocator : Seq(Held), info_allocator : Int]
    <3>1. analysis.number \in [DOMAIN written' -> Nat]
      BY <1>1, <1>12
    <3>2. analysis'.value_allocator \in Seq(Held)
      BY <1>15
    <3> QED BY <3>1, <3>2, <1>1, <1>9
  <2> QED BY <2>1, <1>1, <1>8, <1>12 DEF AnalysisTyped
<1>17. ListedOnce'
  <2>1. ListedOnce
    BY DEF AnalysisInv
  <2>2. ASSUME NEW y \in DOMAIN written'
        PROVE  analysis'.number[y] \in 1..Len(analysis'.values_list)
               /\ analysis'.values_list[analysis'.number[y]].n = y
    <3>1. y \in DOMAIN written
      BY <1>12
    <3>2. analysis.number[y] \in 1..Len(list) /\ list[analysis.number[y]].n = y
      BY <2>1, <3>1 DEF ListedOnce
    <3> QED BY <3>2, <1>8
  <2>3. ASSUME NEW i \in 1..Len(analysis'.values_list)
        PROVE  analysis'.values_list[i].n \in DOMAIN written' /\ analysis'.number[analysis'.values_list[i].n] = i
    <3>1. i \in 1..Len(list)
      BY <1>8
    <3>2. list[i].n \in DOMAIN written /\ analysis.number[list[i].n] = i
      BY <2>1, <3>1 DEF ListedOnce
    <3> QED BY <3>2, <1>8, <1>12
  <2>4. IsFiniteSet(DOMAIN written') /\ Cardinality(DOMAIN written') = Len(analysis'.values_list)
    BY <2>1, <1>8, <1>12 DEF ListedOnce
  <2> QED BY <2>2, <2>3, <2>4 DEF ListedOnce
<1>18. ValuesInPlace'
  <2>1. ASSUME NEW i \in 1..Len(analysis'.values_list)
        PROVE  analysis'.values_list[i].at + analysis'.values_list[i].nb_values * analysis'.dim
                 <= Len(analysis'.value_allocator)
    BY <1>8, <1>15 DEF AnalysisInv, ValuesInPlace
  <2>2. ASSUME NEW m \in DOMAIN written'
        PROVE  LET val == analysis'.values_list[analysis'.number[m]]
               IN  /\ written'[m] \in [1..(val.nb_values * analysis'.dim) -> Held]
                   /\ \A i \in 1..(val.nb_values * analysis'.dim) :
                        analysis'.value_allocator[val.at + i] = written'[m][i]
    <3>1. m \in DOMAIN written
      BY <1>12
    <3> DEFINE q == analysis.number[m]
               there == list[q].at
               size == list[q].nb_values * analysis.dim
               after == analysis'.values_list[analysis'.number[m]]
    <3>2. q \in 1..Len(list) /\ list[q].n = m
      BY <3>1 DEF AnalysisInv, ListedOnce
    <3>3. there \in Nat /\ size \in Nat
      BY <3>2, ValueParts
    <3>4. /\ written[m] \in [1..size -> Held] /\ \A i \in 1..size : cells[there + i] = written[m][i]
          /\ there + size <= Len(cells)
      BY <3>1, <3>2 DEF AnalysisInv, ValuesInPlace
    <3>5. after.at = there /\ after.nb_values * analysis'.dim = size
      BY <1>8
    <3>6. ASSUME m = n
          PROVE  /\ written'[m] \in [1..size -> Held]
                 /\ \A i \in 1..size : analysis'.value_allocator[there + i] = written'[m][i]
      <4>1. there = at /\ size = d
        BY <3>6 DEF at, d
      <4> HIDE DEF there, size
      <4>2. written'[m] \in [1..size -> Held]
        BY <3>6, <4>1, <1>5, <1>6, <1>12, <1>14
      <4>3. ASSUME NEW i \in 1..size
            PROVE  analysis'.value_allocator[there + i] = written'[m][i]
        <5>1. there + i \in 1..Len(cells)
          <6> DEFINE c == Len(cells)
          <6>1. c \in Nat /\ there + size <= c
            BY <3>4, <1>1
          <6> HIDE DEF c
          <6>2. there + i \in 1..c
            BY <6>1, <3>3
          <6> QED BY <6>2 DEF c
        <5>2. CASE i = j
          BY <5>2, <3>6, <4>1, <1>5, <1>12, <1>15
        <5>3. CASE i # j
          <6>1. there + i # at + j
            BY <5>3, <4>1, <1>4, <1>6
          <6>2. written'[m][i] = written[m][i]
            BY <5>3, <3>6, <4>1, <1>5, <1>12
          <6> QED BY <5>1, <6>1, <6>2, <3>4, <1>15
        <5> QED BY <5>2, <5>3
      <4> QED BY <4>2, <4>3
    <3>7. ASSUME m # n
          PROVE  /\ written'[m] \in [1..size -> Held]
                 /\ \A i \in 1..size : analysis'.value_allocator[there + i] = written'[m][i]
      <4>1. q # p
        BY <3>7, <3>2, <1>3
      <4>2. ((at + 1)..(at + d)) \cap ((there + 1)..(there + size)) = {}
        BY <4>1, <3>2, <1>1, <1>3 DEF AnalysisInv, RegionsApart, Region, at, d
      <4>3. written'[m] = written[m]
        BY <3>1, <3>7, <1>12
      <4> HIDE DEF there, size
      <4>4. ASSUME NEW i \in 1..size
            PROVE  analysis'.value_allocator[there + i] = written'[m][i]
        <5>1. there + i \in 1..Len(cells)
          <6> DEFINE c == Len(cells)
          <6>1. c \in Nat /\ there + size <= c
            BY <3>4, <1>1
          <6> HIDE DEF c
          <6>2. there + i \in 1..c
            BY <6>1, <3>3
          <6> QED BY <6>2 DEF c
        <5>2. there + i \in (there + 1)..(there + size) /\ at + j \in (at + 1)..(at + d)
          BY <3>3, <1>4, <1>6
        <5>3. there + i # at + j
          BY <5>2, <4>2
        <5> QED BY <5>1, <5>3, <4>3, <3>4, <1>15
      <4> QED BY <4>3, <4>4, <3>4
    <3> HIDE DEF there, size
    <3>8. /\ written'[m] \in [1..size -> Held]
          /\ \A i \in 1..size : analysis'.value_allocator[there + i] = written'[m][i]
      BY <3>6, <3>7
    <3> HIDE DEF after
    <3>9. /\ written'[m] \in [1..(after.nb_values * analysis'.dim) -> Held]
          /\ \A i \in 1..(after.nb_values * analysis'.dim) :
               analysis'.value_allocator[after.at + i] = written'[m][i]
      BY <3>5, <3>8
    <3> QED BY <3>9 DEF after
  <2> QED BY <2>1, <2>2 DEF ValuesInPlace
<1>19. InfosInPlace'
  BY <1>8 DEF AnalysisInv, InfosInPlace
<1>20. RegionsApart'
  BY <1>8 DEF AnalysisInv, RegionsApart, Region
<1> QED BY <1>16, <1>17, <1>18, <1>19, <1>20 DEF AnalysisInv

\* Information that is given is beyond all that was.
LEMMA InformedKept ==
  ASSUME AnalysisInv, NEW n \in DOMAIN written, NEW nb \in Nat \ {0}, NEW k, k = analysis.number[n],
         analysis.values_list[k].info = Nowhere, analysis.info_allocator # Nowhere,
         analysis' = [analysis EXCEPT !.values_list[k].info = analysis.info_allocator,
                                      !.info_allocator = @ + nb],
         written' = written
  PROVE  AnalysisInv'
<1> DEFINE list == analysis.values_list
           given == analysis.info_allocator
           value == [n |-> n, at |-> list[k].at, nb_values |-> list[k].nb_values, info |-> given]
           new == [list EXCEPT ![k] = value]
<1>1. /\ list \in Seq(Results) /\ Len(list) \in Nat /\ analysis.value_allocator \in Seq(Held)
      /\ analysis.dim \in Nat /\ given \in Int /\ given >= Nowhere
      /\ analysis.number \in [DOMAIN written -> Nat] /\ analysis.type \in AnalysisTypes
      /\ DOMAIN list = 1..Len(list)
  BY AnalysisParts
<1>2. analysis \in [type : AnalysisTypes, dim : Nat, values_list : Seq(Results),
                    number : [DOMAIN written -> Nat], value_allocator : Seq(Held), info_allocator : Int]
  BY DEF AnalysisInv, AnalysisTyped
<1>3. k \in 1..Len(list) /\ list[k].n = n
  BY DEF AnalysisInv, ListedOnce
<1>4. list[k] \in Results
  BY <1>3, ValueParts
<1>5. /\ value \in Results /\ value.n = n /\ value.at = list[k].at /\ value.nb_values = list[k].nb_values
      /\ value.info = given
  BY <1>1, <1>3, <1>4 DEF Results
<1>6. /\ new \in Seq(Results) /\ Len(new) = Len(list) /\ new[k] = value /\ DOMAIN new = 1..Len(list)
      /\ \A j \in 1..Len(list) : j # k => new[j] = list[j]
  BY <1>1, <1>3, <1>5
<1>7. analysis'.values_list = new
  <2>1. analysis'.values_list = [list EXCEPT ![k] = [list[k] EXCEPT !.info = given]]
    BY <1>1, <1>2, <1>3
  <2>2. [list[k] EXCEPT !.info = given] = value
    BY <1>3, <1>4 DEF Results
  <2> QED BY <2>1, <2>2
<1>8. /\ analysis'.value_allocator = analysis.value_allocator
      /\ analysis'.number = analysis.number
      /\ analysis'.dim = analysis.dim /\ analysis'.info_allocator = given + nb
      /\ analysis'.type = analysis.type
  BY <1>2
<1>9. analysis' = [type |-> analysis.type, dim |-> analysis.dim, values_list |-> analysis'.values_list,
                   number |-> analysis.number, value_allocator |-> analysis.value_allocator,
                   info_allocator |-> given + nb]
  BY <1>2, <1>8
<1> HIDE DEF value, new, given
<1>10. given + nb \in Int /\ given + nb > given /\ given >= 0 /\ given + nb >= Nowhere
  BY <1>1 DEF Nowhere, given
<1>11. /\ Len(analysis'.values_list) = Len(list) /\ DOMAIN analysis'.values_list = 1..Len(list)
       /\ analysis'.values_list[k].info = given
       /\ \A j \in 1..Len(list) : /\ analysis'.values_list[j].n = list[j].n
                                  /\ analysis'.values_list[j].at = list[j].at
                                  /\ analysis'.values_list[j].nb_values = list[j].nb_values
                                  /\ j # k => analysis'.values_list[j] = list[j]
  <2>1. ASSUME NEW j \in 1..Len(list)
        PROVE  /\ analysis'.values_list[j].n = list[j].n /\ analysis'.values_list[j].at = list[j].at
               /\ analysis'.values_list[j].nb_values = list[j].nb_values
               /\ (j # k => analysis'.values_list[j] = list[j])
    <3>1. CASE j = k
      BY <3>1, <1>3, <1>5, <1>6, <1>7
    <3>2. CASE j # k
      BY <3>2, <1>6, <1>7
    <3> QED BY <3>1, <3>2
  <2> QED BY <2>1, <1>5, <1>6, <1>7
<1>12. AnalysisTyped'
  <2>1. analysis' \in [type : AnalysisTypes, dim : Nat, values_list : Seq(Results),
                       number : [DOMAIN written' -> Nat], value_allocator : Seq(Held), info_allocator : Int]
    BY <1>1, <1>6, <1>7, <1>9, <1>10
  <2>2. written' = [m \in DOMAIN written' |-> written'[m]]
    BY DEF AnalysisInv, AnalysisTyped
  <2> QED BY <2>1, <2>2, <1>8, <1>10 DEF AnalysisTyped
<1>13. ListedOnce'
  <2>1. ListedOnce
    BY DEF AnalysisInv
  <2>2. ASSUME NEW m \in DOMAIN written'
        PROVE  analysis'.number[m] \in 1..Len(analysis'.values_list)
               /\ analysis'.values_list[analysis'.number[m]].n = m
    <3>1. m \in DOMAIN written /\ analysis.number[m] \in 1..Len(list) /\ list[analysis.number[m]].n = m
      BY <2>1 DEF ListedOnce
    <3> QED BY <3>1, <1>8, <1>11
  <2>3. ASSUME NEW j \in 1..Len(analysis'.values_list)
        PROVE  analysis'.values_list[j].n \in DOMAIN written' /\ analysis'.number[analysis'.values_list[j].n] = j
    <3>1. j \in 1..Len(list)
      BY <1>11
    <3>2. list[j].n \in DOMAIN written /\ analysis.number[list[j].n] = j
      BY <3>1, <2>1 DEF ListedOnce
    <3> QED BY <3>1, <3>2, <1>8, <1>11
  <2>4. IsFiniteSet(DOMAIN written') /\ Cardinality(DOMAIN written') = Len(analysis'.values_list)
    BY <2>1, <1>11 DEF ListedOnce
  <2> QED BY <2>2, <2>3, <2>4 DEF ListedOnce
<1>14. ValuesInPlace'
  <2>1. ASSUME NEW j \in 1..Len(analysis'.values_list)
        PROVE  analysis'.values_list[j].at + analysis'.values_list[j].nb_values * analysis'.dim
                 <= Len(analysis'.value_allocator)
    <3>1. j \in 1..Len(list)
      BY <1>11
    <3>2. list[j].at + list[j].nb_values * analysis.dim <= Len(analysis.value_allocator)
      BY <3>1 DEF AnalysisInv, ValuesInPlace
    <3> QED BY <3>1, <3>2, <1>8, <1>11
  <2>2. ASSUME NEW m \in DOMAIN written'
        PROVE  LET val == analysis'.values_list[analysis'.number[m]]
               IN  /\ written'[m] \in [1..(val.nb_values * analysis'.dim) -> Held]
                   /\ \A j \in 1..(val.nb_values * analysis'.dim) :
                        analysis'.value_allocator[val.at + j] = written'[m][j]
    <3> DEFINE val == list[analysis.number[m]]
               new1 == analysis'.values_list[analysis'.number[m]]
               d == val.nb_values * analysis.dim
    <3>1. m \in DOMAIN written /\ analysis.number[m] \in 1..Len(list)
      BY DEF AnalysisInv, ListedOnce
    <3>2. written[m] \in [1..d -> Held] /\ \A j \in 1..d : analysis.value_allocator[val.at + j] = written[m][j]
      BY <3>1 DEF AnalysisInv, ValuesInPlace
    <3>3. new1.at = val.at /\ new1.nb_values * analysis'.dim = d
      BY <3>1, <1>8, <1>11
    <3> HIDE DEF d, val, new1
    <3>4. /\ written'[m] \in [1..(new1.nb_values * analysis'.dim) -> Held]
          /\ \A j \in 1..(new1.nb_values * analysis'.dim) :
               analysis'.value_allocator[new1.at + j] = written'[m][j]
      BY <3>2, <3>3, <1>8
    <3> QED BY <3>4 DEF new1
  <2> QED BY <2>1, <2>2 DEF ValuesInPlace
<1>15. \A j \in 1..Len(list) : list[j].info # Nowhere => 0 <= list[j].info /\ list[j].info < given
  BY DEF AnalysisInv, InfosInPlace, given
<1>16. InfosInPlace'
  <2>1. ASSUME NEW j \in 1..Len(analysis'.values_list), analysis'.values_list[j].info # Nowhere
        PROVE  0 <= analysis'.values_list[j].info /\ analysis'.values_list[j].info < analysis'.info_allocator
    <3>1. j \in 1..Len(list)
      BY <1>11
    <3>2. CASE j = k
      BY <3>2, <1>8, <1>10, <1>11
    <3>3. CASE j # k
      <4>1. analysis'.values_list[j].info = list[j].info /\ list[j].info \in Int
        BY <3>1, <3>3, <1>11, ValueParts
      <4>2. 0 <= list[j].info /\ list[j].info < given
        BY <4>1, <3>1, <2>1, <1>15
      <4> DEFINE info == list[j].info
      <4>3. info \in Int /\ 0 <= info /\ info < given /\ given \in Int
        BY <4>1, <4>2, <1>1 DEF given
      <4> HIDE DEF info
      <4>4. 0 <= info /\ info < given + nb
        BY <4>3
      <4> QED BY <4>1, <4>4, <1>8 DEF info
    <3> QED BY <3>2, <3>3
  <2> QED BY <2>1 DEF InfosInPlace
<1>17. RegionsApart'
  <2> SUFFICES ASSUME NEW i \in 1..Len(list), NEW j \in 1..Len(list), i # j
               PROVE  LET one == analysis'.values_list[i]  other == analysis'.values_list[j]
                      IN  /\ ((one.at + 1)..(one.at + one.nb_values * analysis'.dim))
                               \cap ((other.at + 1)..(other.at + other.nb_values * analysis'.dim)) = {}
                          /\ one.info # Nowhere => one.info # other.info
    <3>1. DOMAIN analysis'.values_list = 1..Len(list)
      BY <1>11
    <3> QED BY <3>1 DEF RegionsApart, Region
  <2>1. /\ ((list[i].at + 1)..(list[i].at + list[i].nb_values * analysis.dim))
             \cap ((list[j].at + 1)..(list[j].at + list[j].nb_values * analysis.dim)) = {}
        /\ list[i].info # Nowhere => list[i].info # list[j].info
    BY <1>1 DEF AnalysisInv, RegionsApart, Region
  <2>2. /\ analysis'.values_list[i].at = list[i].at /\ analysis'.values_list[i].nb_values = list[i].nb_values
        /\ analysis'.values_list[j].at = list[j].at /\ analysis'.values_list[j].nb_values = list[j].nb_values
    BY <1>11
  <2>3. \A x \in 1..Len(list) : list[x].info # given
    <3>1. TAKE x \in 1..Len(list)
    <3> DEFINE info == list[x].info
    <3>2. info \in Int
      BY ValueParts
    <3>3. info # Nowhere => info < given
      BY <1>15
    <3> HIDE DEF info
    <3>4. info # given
      <4>1. CASE info = Nowhere
        BY <4>1 DEF given
      <4>2. CASE info # Nowhere
        BY <4>2, <3>2, <3>3, <1>1 DEF given
      <4> QED BY <4>1, <4>2
    <3> QED BY <3>4 DEF info
  <2>4. analysis'.values_list[i].info # Nowhere => analysis'.values_list[i].info # analysis'.values_list[j].info
    <3>1. CASE i # k /\ j # k
      BY <3>1, <2>1, <1>11
    <3>2. CASE i = k
      <4>1. analysis'.values_list[i].info = given /\ analysis'.values_list[j] = list[j]
        BY <3>2, <1>11
      <4> QED BY <4>1, <2>3
    <3>3. CASE j = k
      <4>1. analysis'.values_list[j].info = given /\ analysis'.values_list[i] = list[i]
        BY <3>3, <1>11
      <4> QED BY <4>1, <2>3
    <3> QED BY <3>1, <3>2, <3>3
  <2> QED BY <2>1, <2>2, <2>4, <1>8
<1> QED BY <1>12, <1>13, <1>14, <1>16, <1>17 DEF AnalysisInv

-----------------------------------------------------------------------------
\* An analysis begins without results.
LEMMA AnalysisInitial == AnalysisInit => AnalysisInv
<1> SUFFICES ASSUME AnalysisInit
             PROVE  AnalysisInv
  OBVIOUS
<1>1. PICK string \in Kinds, dim \in Spaces : analysis = fem_analysis_new(fem_analysis_new_type(string), dim)
  BY DEF AnalysisInit
<1>2. dim \in Nat
  BY AnalysesAssumption
<1>3. fem_analysis_new_type(string) \in AnalysisTypes
  BY DEF fem_analysis_new_type, AnalysisTypes
<1>4. written = <<>> /\ DOMAIN written = {}
  BY DEF AnalysisInit
<1>5. /\ analysis.values_list = <<>> /\ analysis.number = <<>> /\ analysis.value_allocator = <<>>
      /\ analysis.dim = dim /\ Len(analysis.values_list) = 0
      /\ analysis.info_allocator \in {0, Nowhere}
  BY <1>1 DEF fem_analysis_new
<1>6. AnalysisTyped
  <2>1. <<>> \in Seq(Results) /\ <<>> \in Seq(Held)
    OBVIOUS
  <2>2. <<>> \in [DOMAIN written -> Nat]
    BY <1>4
  <2>3. (IF fem_analysis_new_type(string) = "NODE_ON_ELEMENTS" THEN 0 ELSE Nowhere) \in Int
    BY DEF Nowhere
  <2>4. analysis \in [type : AnalysisTypes, dim : Nat, values_list : Seq(Results),
                      number : [DOMAIN written -> Nat], value_allocator : Seq(Held), info_allocator : Int]
    BY <1>1, <1>2, <1>3, <2>1, <2>2, <2>3 DEF fem_analysis_new
  <2>5. written = [n \in DOMAIN written |-> written[n]]
    BY <1>4
  <2>6. analysis.info_allocator >= Nowhere
    BY <1>5 DEF Nowhere
  <2> QED BY <2>4, <2>5, <2>6 DEF AnalysisTyped
<1>7. ListedOnce
  <2>1. IsFiniteSet(DOMAIN written) /\ Cardinality(DOMAIN written) = 0
    BY <1>4, FS_EmptySet
  <2> QED BY <2>1, <1>4, <1>5 DEF ListedOnce
<1>8. ValuesInPlace /\ InfosInPlace
  BY <1>4, <1>5 DEF ValuesInPlace, InfosInPlace
<1>9. RegionsApart
  BY <1>5 DEF RegionsApart
<1> QED BY <1>6, <1>7, <1>8, <1>9 DEF AnalysisInv

\* Every request keeps the invariant.
LEMMA AnalysisStep == AnalysisInv /\ [AnalysisNext]_analysisVars => AnalysisInv'
<1> SUFFICES ASSUME AnalysisInv, [AnalysisNext]_analysisVars
             PROVE  AnalysisInv'
  OBVIOUS
<1>1. DOMAIN analysis.number = DOMAIN written
  BY AnalysisParts
<1>2. ASSUME analysis' = analysis, written' = written
      PROVE  AnalysisInv'
  BY <1>2 DEF AnalysisInv, AnalysisTyped, ListedOnce, ValuesInPlace, InfosInPlace, RegionsApart, Region
<1>3. CASE fem_analysis_value_add
  <2>1. PICK n \in ResultRows, nb \in Sizes :
          LET a == analysis
              value == [n |-> n, at |-> Len(a.value_allocator), nb_values |-> nb, info |-> Nowhere]
              old == fem_analysis_value_get(n)
          IN  \/ /\ old = {}
                 /\ analysis' = [a EXCEPT !.values_list = Append(@, value), !.value_allocator = @ \o Room(nb),
                                          !.number = Put(@, n, Len(a.values_list) + 1)]
                 /\ written' = Put(written, n, Room(nb))
              \/ \E k \in old :
                   /\ a.values_list[k].nb_values < nb
                   /\ analysis' = [a EXCEPT !.values_list[k].nb_values = nb,
                                            !.values_list[k].at = Len(a.value_allocator),
                                            !.value_allocator = @ \o Room(nb)]
                   /\ written' = Put(written, n, Room(nb))
              \/ \E k \in old : a.values_list[k].nb_values >= nb /\ UNCHANGED <<analysis, written>>
    BY <1>3 DEF fem_analysis_value_add
  <2>2. nb \in Nat
    BY AnalysesAssumption
  <2>3. CASE n \notin DOMAIN written
    <3>1. fem_analysis_value_get(n) = {}
      BY <2>3, <1>1 DEF fem_analysis_value_get
    <3>2. /\ analysis' = [analysis EXCEPT
               !.values_list = Append(@, [n |-> n, at |-> Len(analysis.value_allocator),
                                          nb_values |-> nb, info |-> Nowhere]),
               !.value_allocator = @ \o Room(nb),
               !.number = Put(@, n, Len(analysis.values_list) + 1)]
          /\ written' = Put(written, n, Room(nb))
      BY <2>1, <3>1
    <3> QED BY <2>2, <2>3, <3>2, NewKept
  <2>4. CASE n \in DOMAIN written
    <3> DEFINE k == analysis.number[n]
    <3>1. fem_analysis_value_get(n) = {k}
      BY <2>4, <1>1 DEF fem_analysis_value_get
    <3>2. \/ /\ analysis' = [analysis EXCEPT !.values_list[k].nb_values = nb,
                                             !.values_list[k].at = Len(analysis.value_allocator),
                                             !.value_allocator = @ \o Room(nb)]
             /\ written' = Put(written, n, Room(nb))
          \/ analysis' = analysis /\ written' = written
      BY <2>1, <3>1
    <3> QED BY <2>2, <2>4, <3>2, <1>2, GrownKept
  <2> QED BY <2>3, <2>4
<1>4. CASE Write
  <2>1. PICK n \in DOMAIN analysis.number, x \in Values :
          \E k \in 1..(analysis.values_list[analysis.number[n]].nb_values * analysis.dim) :
            /\ analysis' = [analysis EXCEPT
                 !.value_allocator[analysis.values_list[analysis.number[n]].at + k] = x]
            /\ written' = [written EXCEPT ![n][k] = x]
    BY <1>4 DEF Write
  <2>2. PICK k \in 1..(analysis.values_list[analysis.number[n]].nb_values * analysis.dim) :
            /\ analysis' = [analysis EXCEPT
                 !.value_allocator[analysis.values_list[analysis.number[n]].at + k] = x]
            /\ written' = [written EXCEPT ![n][k] = x]
    BY <2>1
  <2> QED BY <2>2, <1>1, WrittenKept
<1>5. CASE fem_analysis_value_add_info
  <2>1. PICK n \in DOMAIN analysis.number, nb \in Informations :
          LET k == analysis.number[n]
          IN  analysis' = IF analysis.values_list[k].info = Nowhere /\ analysis.info_allocator # Nowhere
                          THEN [analysis EXCEPT !.values_list[k].info = analysis.info_allocator,
                                                !.info_allocator = @ + nb]
                          ELSE analysis
    BY <1>5 DEF fem_analysis_value_add_info
  <2>2. written' = written
    BY <1>5 DEF fem_analysis_value_add_info
  <2>3. nb \in Nat \ {0} /\ n \in DOMAIN written
    BY <1>1, AnalysesAssumption
  <2> DEFINE k == analysis.number[n]
  <2>4. CASE analysis.values_list[k].info = Nowhere /\ analysis.info_allocator # Nowhere
    <3>1. analysis' = [analysis EXCEPT !.values_list[k].info = analysis.info_allocator,
                                       !.info_allocator = @ + nb]
      BY <2>1, <2>4
    <3> QED BY <2>2, <2>3, <2>4, <3>1, InformedKept
  <2>5. CASE ~(analysis.values_list[k].info = Nowhere /\ analysis.info_allocator # Nowhere)
    <3>1. analysis' = analysis
      BY <2>1, <2>5
    <3> QED BY <3>1, <2>2, <1>2
  <2> QED BY <2>4, <2>5
<1>6. CASE UNCHANGED analysisVars
  BY <1>2, <1>6 DEF analysisVars
<1> QED BY <1>3, <1>4, <1>5, <1>6 DEF AnalysisNext

\* What the invariant says of the results.
LEMMA AnalysisImplies == AnalysisInv => ResultsKept
<1> SUFFICES ASSUME AnalysisInv
             PROVE  ResultsKept
  OBVIOUS
<1>1. DOMAIN analysis.number = DOMAIN written
  BY AnalysisParts
<1>2. fem_analysis_get_size = Cardinality(DOMAIN written)
  BY DEF AnalysisInv, ListedOnce, fem_analysis_get_size
<1>3. ASSUME NEW n \in DOMAIN written
      PROVE  LET value == analysis.values_list[analysis.number[n]]
             IN  /\ value.n = n
                 /\ Region(value) \subseteq DOMAIN analysis.value_allocator
                 /\ \A k \in DOMAIN written[n] : analysis.value_allocator[value.at + k] = written[n][k]
  <2> DEFINE p == analysis.number[n]
             value == analysis.values_list[p]
             at == value.at
             d == value.nb_values * analysis.dim
  <2>1. p \in 1..Len(analysis.values_list) /\ value.n = n
    BY DEF AnalysisInv, ListedOnce
  <2>2. at \in Nat /\ d \in Nat
    BY <2>1, ValueParts
  <2>3. /\ at + d <= Len(analysis.value_allocator) /\ written[n] \in [1..d -> Held]
        /\ \A k \in 1..d : analysis.value_allocator[at + k] = written[n][k]
    BY <2>1 DEF AnalysisInv, ValuesInPlace
  <2>4. Region(value) = (at + 1)..(at + d)
    BY DEF Region
  <2>5. DOMAIN analysis.value_allocator = 1..Len(analysis.value_allocator) /\ Len(analysis.value_allocator) \in Nat
    BY AnalysisParts
  <2> HIDE DEF d, at
  <2>6. (at + 1)..(at + d) \subseteq 1..Len(analysis.value_allocator)
    BY <2>2, <2>3, <2>5
  <2>7. \A k \in DOMAIN written[n] : analysis.value_allocator[at + k] = written[n][k]
    BY <2>3
  <2>8. Region(value) \subseteq DOMAIN analysis.value_allocator
    BY <2>4, <2>5, <2>6
  <2> QED BY <2>1, <2>7, <2>8 DEF at
<1>4. ValuesKept
  BY <1>1, <1>2, <1>3 DEF ValuesKept
<1> QED BY <1>4 DEF ResultsKept, AnalysisInv

\* Every number of an analysis keeps its values, whatever is added or grows for the others
\* (analysis.c).
THEOREM ResultsAreKept == AnalysisSpec => []ResultsKept
<1>1. AnalysisInit => AnalysisInv
  BY AnalysisInitial
<1>2. AnalysisInv /\ [AnalysisNext]_analysisVars => AnalysisInv'
  BY AnalysisStep
<1>3. AnalysisInv => ResultsKept
  BY AnalysisImplies
<1> QED BY <1>1, <1>2, <1>3, PTL DEF AnalysisSpec
==============================================================================
