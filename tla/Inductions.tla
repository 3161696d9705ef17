----------------------------- MODULE Inductions -----------------------------
(****************************************************************************)
(* The inductions and the facts about sequences the proofs need.            *)
(*                                                                          *)
(* The library's theorems of induction take an operator, which the provers  *)
(* cannot instantiate. Here induction is on sets (NatInd, UpTo, SeqInd), from *)
(* the strict inclusion of finite sets being well-founded; a fold is a history *)
(* of values (Folded): FoldLeft chooses a function on sets of ranks, FoldExists *)
(* says that there is one and FoldIs that it goes through such a history.   *)
(****************************************************************************)
EXTENDS Integers, Sequences, SequencesExt, FiniteSetTheorems, SequenceTheorems,
        WellFoundedInduction, TLAPS

-----------------------------------------------------------------------------
(* Inductions and folds *)

\* Among finite sets there is one none of the others is within: strict inclusion is
\* well-founded, which is what all the inductions below come from.
LEMMA FinLeast ==
  ASSUME NEW S, NEW F \in SUBSET FiniteSubsetsOf(S), F # {}
  PROVE  \E A \in F : \A B \in F : B \subseteq A => B = A
<1>1. IsWellFoundedOn(StrictSubsetOrdering(S), FiniteSubsetsOf(S))
  BY FS_StrictSubsetOrderingWellFounded
<1>2. PICK A \in F : \A B \in F : ~ (<<B, A>> \in StrictSubsetOrdering(S))
  <2> F \subseteq FiniteSubsetsOf(S) OBVIOUS
  <2> QED BY <1>1, WFMin
<1>3. \A B \in F : B \in SUBSET S
  BY DEF FiniteSubsetsOf
<1>4. QED BY <1>2, <1>3 DEF StrictSubsetOrdering

\* A set of numbers that is not empty has a least one.
LEMMA NatLeast ==
  ASSUME NEW T \in SUBSET Nat, T # {}
  PROVE  \E x \in T : \A y \in T : x <= y
<1> DEFINE F == {0 .. x : x \in T}
<1>1. F \in SUBSET FiniteSubsetsOf(Nat)
  <2> SUFFICES ASSUME NEW x \in T PROVE 0 .. x \in FiniteSubsetsOf(Nat)
    OBVIOUS
  <2>1. IsFiniteSet(0 .. x) BY FS_Interval
  <2> QED BY <2>1 DEF FiniteSubsetsOf
<1>2. F # {} OBVIOUS
<1>3. PICK A \in F : \A B \in F : B \subseteq A => B = A
  <2> HIDE DEF F
  <2> QED BY <1>1, <1>2, FinLeast
<1>4. PICK x \in T : A = 0 .. x BY <1>3
<1>5. \A y \in T : x <= y
  <2> SUFFICES ASSUME NEW y \in T, ~ (x <= y) PROVE FALSE OBVIOUS
  <2>1. x \in Nat /\ y \in Nat /\ y < x OBVIOUS
  <2>2. 0 .. y \subseteq 0 .. x BY <2>1
  <2>3. 0 .. y = 0 .. x BY <1>3, <1>4, <2>2
  <2>4. x \in 0 .. x BY <2>1
  <2> QED BY <2>1, <2>3, <2>4
<1>6. QED BY <1>5

\* Induction on the numbers, for a set of them.
LEMMA NatInd ==
  ASSUME NEW T \in SUBSET Nat, 0 \in T, \A n \in T : n + 1 \in T
  PROVE  T = Nat
<1> SUFFICES ASSUME T # Nat PROVE FALSE
  OBVIOUS
<1> DEFINE U == Nat \ T
<1>1. U \in SUBSET Nat /\ U # {} OBVIOUS
<1> HIDE DEF U
<1>2. PICK x \in U : \A y \in U : x <= y BY <1>1, NatLeast
<1>3. x \in Nat /\ x # 0 /\ x \notin T BY <1>2 DEF U
<1>4. x - 1 \in Nat BY <1>3
<1>5. x - 1 \in T BY <1>2, <1>4 DEF U
<1>6. QED BY <1>3, <1>4, <1>5

\* The last of a set of ranks is one of them.
LEMMA MaxIn ==
  ASSUME NEW n \in Nat, NEW s \in SUBSET (1..n), s # {}
  PROVE  Max(s) \in s /\ \A y \in s : Max(s) >= y
<1> DEFINE U == {n - x : x \in s}
<1>0. \A x \in s : x \in Nat /\ x >= 1 /\ x <= n /\ n - x \in Nat
  OBVIOUS
<1>1. U \in SUBSET Nat /\ U # {} BY <1>0
<1>2. PICK z \in U : \A y \in U : z <= y 
  <2> HIDE DEF U
  <2> QED BY <1>1, NatLeast
<1>3. PICK x \in s : z = n - x BY <1>2
<1>4. \A y \in s : x >= y
  <2> SUFFICES ASSUME NEW y \in s PROVE x >= y OBVIOUS
  <2>1. n - x <= n - y BY <1>2, <1>3
  <2> QED BY <2>1
<1> QED BY <1>3, <1>4 DEF Max

\* Without its last, an interval from 1 is an interval from 1.
LEMMA MaxInterval ==
  ASSUME NEW k \in Nat \ {0}
  PROVE  Max(1..k) = k /\ (1..k) \ {k} = 1..(k - 1)
<1>1. Max(1..k) \in 1..k /\ \A y \in 1..k : Max(1..k) >= y
  <2>1. 1..k # {} OBVIOUS
  <2> QED BY <2>1, MaxIn
<1>2. Max(1..k) = k
  BY <1>1
<1> QED BY <1>2

\* it is the function that the fold of the community modules chooses, G a step of it.
IsFold(it, S, b, n, G) ==
  /\ it \in [SUBSET (1..n) -> S]
  /\ \A s \in SUBSET (1..n) : it[s] = IF s = {} THEN b ELSE G[<<it[s \ {Max(s)}], Max(s)>>]

\* There is such a function.
LEMMA FoldAlong ==
  ASSUME NEW S, NEW b \in S, NEW n \in Nat, NEW G \in [S \X (1..n) -> S]
  PROVE \E it : IsFold(it, S, b, n, G)
<1> DEFINE Good(m, it) ==
             \A s \in SUBSET (1..m) : it[s] = IF s = {} THEN b ELSE G[<<it[s \ {Max(s)}], Max(s)>>]
           Some(m) == \E it \in [SUBSET (1..m) -> S] : Good(m, it)
           T == {m \in Nat : m <= n => Some(m)}
<1>1. 0 \in T
  <2> DEFINE it == [s \in SUBSET (1..0) |-> b]
  <2>1. it \in [SUBSET (1..0) -> S] OBVIOUS
  <2>2. \A s \in SUBSET (1..0) : s = {} OBVIOUS
  <2>3. Good(0, it) BY <2>2
  <2> HIDE DEF it, Good
  <2> QED BY <2>1, <2>3
<1>2. ASSUME NEW m \in T PROVE m + 1 \in T
  <2> SUFFICES ASSUME m + 1 <= n PROVE Some(m + 1)
    <3> HIDE DEF Some
    <3> QED OBVIOUS
  <2>0. m \in Nat OBVIOUS
  <2>1. PICK j \in [SUBSET (1..m) -> S] : Good(m, j)
    <3>1. Some(m)
      <4> HIDE DEF Some
      <4> QED BY <2>0
    <3> HIDE DEF Good
    <3> QED BY <3>1
  <2> DEFINE it == [s \in SUBSET (1..(m+1)) |-> 
                      IF m + 1 \in s THEN G[<<j[s \ {m+1}], m+1>>] ELSE j[s]]
  <2>2. \A s \in SUBSET (1..(m+1)) : s \ {m+1} \in SUBSET (1..m) BY <2>0
  <2>3. \A s \in SUBSET (1..(m+1)) : m+1 \notin s => s \in SUBSET (1..m) BY <2>0
  <2>4. m + 1 \in 1..n BY <2>0
  <2>5. it \in [SUBSET (1..(m+1)) -> S] BY <2>2, <2>3, <2>4
  <2>6. ASSUME NEW s \in SUBSET (1..(m+1))
        PROVE  it[s] = IF s = {} THEN b ELSE G[<<it[s \ {Max(s)}], Max(s)>>]
    <3>1. CASE m + 1 \in s
      <4>1. Max(s) \in s /\ \A y \in s : Max(s) >= y
        <5>1. m + 1 \in Nat /\ s # {} BY <3>1, <2>0
        <5> QED BY <5>1, MaxIn
      <4>2. Max(s) = m + 1 
        <5>1. Max(s) \in 1..(m+1) /\ Max(s) >= m + 1 BY <4>1, <3>1
        <5> QED BY <5>1, <2>0
      <4>3. it[s] = G[<<j[s \ {m+1}], m+1>>] BY <3>1
      <4>4. it[s \ {m+1}] = j[s \ {m+1}] BY <2>2
      <4> QED BY <4>2, <4>3, <4>4, <3>1
    <3>2. CASE m + 1 \notin s
      <4>1. s \in SUBSET (1..m) BY <3>2, <2>3
      <4>2. it[s] = j[s] BY <3>2
      <4>3. it[s \ {Max(s)}] = j[s \ {Max(s)}] BY <3>2
      <4>4. j[s] = IF s = {} THEN b ELSE G[<<j[s \ {Max(s)}], Max(s)>>] BY <2>1, <4>1
      <4> HIDE DEF it
      <4> QED BY <4>2, <4>3, <4>4
    <3> QED BY <3>1, <3>2
  <2>7. Good(m+1, it) BY <2>6
  <2> HIDE DEF it, Good
  <2> QED BY <2>5, <2>7
<1>3. T = Nat
  <2>1. T \in SUBSET Nat OBVIOUS
  <2> HIDE DEF T
  <2> QED BY <1>1, <1>2, <2>1, NatInd
<1>4. PICK it \in [SUBSET (1..n) -> S] : Good(n, it)
  <2>1. Some(n)
    <3> HIDE DEF Some
    <3> QED BY <1>3
  <2> HIDE DEF Good
  <2> QED BY <2>1
<1> QED BY <1>4 DEF IsFold

\* Induction on the ranks of a sequence, for a set of them.
LEMMA UpTo ==
  ASSUME NEW n \in Nat, NEW P \in SUBSET (0..n), 0 \in P, \A i \in 1..n : i - 1 \in P => i \in P
  PROVE  P = 0..n
<1> DEFINE T == {i \in Nat : i <= n => i \in P}
<1>1. T \in SUBSET Nat /\ 0 \in T OBVIOUS
<1>2. ASSUME NEW i \in T PROVE i + 1 \in T
  <2>1. i \in Nat /\ i + 1 \in Nat /\ (i + 1) - 1 = i OBVIOUS
  <2>2. ASSUME i + 1 <= n PROVE i + 1 \in P
    <3>1. i \in P BY <2>1, <2>2
    <3>2. i + 1 \in 1..n BY <2>1, <2>2
    <3> QED BY <3>1, <3>2, <2>1
  <2> QED BY <2>1, <2>2
<1>3. T = Nat
  <2> HIDE DEF T
  <2> QED BY <1>1, <1>2, NatInd
<1>4. ASSUME NEW i \in 0..n PROVE i \in P
  <2>1. i \in Nat /\ i <= n OBVIOUS
  <2> QED BY <2>1, <1>3
<1> QED BY <1>4

\* it is b of the empty set and G of a subset of 1..n without its last, if that is in S.
Follows(it, S, b, n, G) ==
  /\ it[{}] = b
  /\ \A u \in SUBSET (1..n) :
       u # {} /\ it[u \ {Max(u)}] \in S => it[u] = G[<<it[u \ {Max(u)}], Max(u)>>]

\* its history.
Stays(it, S, b, n, G) ==
  /\ \A k \in 0..n : it[1..k] \in S
  /\ it[1..0] = b
  /\ \A k \in 1..n : it[1..k] = G[<<it[1..(k - 1)], k>>]

\* It stays in S, and along the intervals from 1 it is the history of the fold.
LEMMA Along ==
  ASSUME NEW S, NEW b \in S, NEW n \in Nat, NEW G \in [S \X (1..n) -> S], NEW it,
         Follows(it, S, b, n, G)
  PROVE  Stays(it, S, b, n, G)
<1> DEFINE P == {k \in 0..n : it[1..k] \in S}
<1>1. 1..0 = {}
  OBVIOUS
<1>2. ASSUME NEW k \in 1..n, it[1..(k - 1)] \in S
      PROVE  it[1..k] = G[<<it[1..(k - 1)], k>>] /\ it[1..k] \in S
  <2>1. k \in Nat \ {0} /\ 1..k \in SUBSET (1..n) /\ 1..k # {}
    OBVIOUS
  <2>2. Max(1..k) = k /\ (1..k) \ {Max(1..k)} = 1..(k - 1)
    BY <2>1, MaxInterval
  <2> QED
    BY <1>2, <2>1, <2>2 DEF Follows
<1>3. P = 0..n
  <2>1. P \in SUBSET (0..n) /\ 0 \in P
    BY <1>1 DEF Follows
  <2>2. ASSUME NEW k \in 1..n, k - 1 \in P PROVE k \in P
    <3>1. it[1..k] \in S
      BY <1>2, <2>2
    <3> QED
      BY <3>1
  <2> HIDE DEF P
  <2> QED
    BY <2>1, <2>2, UpTo
<1>4. \A k \in 0..n : it[1..k] \in S
  BY <1>3
<1>5. \A k \in 1..n : k - 1 \in 0..n
  OBVIOUS
<1>6. it[1..0] = b
  BY <1>1 DEF Follows
<1> QED
  BY <1>2, <1>4, <1>5, <1>6 DEF Stays

-----------------------------------------------------------------------------
(* Values of folds *)

\* v is what G makes of b and of the elements of s from the first to the last.
Folded(v, S, b, s, G) ==
  \E h \in [0..Len(s) -> S] :
    /\ h[0] = b /\ v = h[Len(s)]
    /\ \A k \in 1..Len(s) : h[k] = G[<<h[k - 1], s[k]>>]

\* The element FoldLeft adds last.
LEMMA MaxRank ==
  ASSUME NEW E, NEW s \in Seq(E), NEW u \in SUBSET (1..Len(s)), u # {}
  PROVE  Max(u) \in u /\ s[Max(u)] \in E
<1>1. Len(s) \in Nat /\ \A k \in 1..Len(s) : s[k] \in E
  OBVIOUS
<1>2. Max(u) \in u
  BY <1>1, MaxIn
<1> QED
  BY <1>1, <1>2

\* The functions FoldLeft chooses from.
Folding(it, S, b, s, G) ==
  /\ it[{}] = b
  /\ \A u \in SUBSET (1..Len(s)) :
       u # {} /\ it[u \ {Max(u)}] \in S => it[u] = G[<<it[u \ {Max(u)}], s[Max(u)]>>]

\* There is one.
LEMMA FoldExists ==
  ASSUME NEW S, NEW E, NEW b \in S, NEW G \in [S \X E -> S], NEW s \in Seq(E)
  PROVE  \E f \in [SUBSET (1..Len(s)) -> S] : Folding(f, S, b, s, G)
<1> DEFINE n == Len(s)
           F == [p \in S \X (1..n) |-> G[<<p[1], s[p[2]]>>]]
<1>1. n \in Nat /\ \A k \in 1..n : s[k] \in E
  OBVIOUS
<1>2. F \in [S \X (1..n) -> S]
  BY <1>1
<1>3. \A a \in S, k \in 1..n : F[<<a, k>>] = G[<<a, s[k]>>]
  OBVIOUS
<1>4. \A u \in SUBSET (1..n) : u # {} => Max(u) \in 1..n
  BY <1>1, MaxIn
<1> HIDE DEF n, F
<1>5. PICK f : IsFold(f, S, b, n, F)
  BY <1>1, <1>2, FoldAlong
<1>6. f \in [SUBSET (1..n) -> S] /\ f[{}] = b
  BY <1>5 DEF IsFold
<1>7. ASSUME NEW u \in SUBSET (1..n), u # {}
      PROVE  f[u] = G[<<f[u \ {Max(u)}], s[Max(u)]>>]
  <2>1. f[u] = F[<<f[u \ {Max(u)}], Max(u)>>]
    BY <1>5, <1>7 DEF IsFold
  <2>2. u \ {Max(u)} \in SUBSET (1..n)
    OBVIOUS
  <2>3. f[u \ {Max(u)}] \in S
    BY <1>6, <2>2
  <2> QED
    BY <1>3, <1>4, <1>7, <2>1, <2>3
<1> QED
  BY <1>6, <1>7 DEF n, Folding

\* What the function FoldLeft chooses gives is the value of the fold.
LEMMA FoldIs ==
  ASSUME NEW S, NEW E, NEW b \in S, NEW G \in [S \X E -> S], NEW s \in Seq(E), NEW it,
         Folding(it, S, b, s, G)
  PROVE  Folded(it[1..Len(s)], S, b, s, G)
<1> DEFINE n == Len(s)
           F == [p \in S \X (1..n) |-> G[<<p[1], s[p[2]]>>]]
           h == [k \in 0..n |-> it[1..k]]
<1>1. n \in Nat /\ \A k \in 1..n : s[k] \in E
  OBVIOUS
<1>2. F \in [S \X (1..n) -> S]
  BY <1>1
<1>3. \A a \in S, k \in 1..n : F[<<a, k>>] = G[<<a, s[k]>>]
  OBVIOUS
<1>4. \A u \in SUBSET (1..n) : u # {} => Max(u) \in 1..n
  BY <1>1, MaxIn
<1> HIDE DEF n, F
<1>5. ASSUME NEW u \in SUBSET (1..n), u # {}, it[u \ {Max(u)}] \in S
      PROVE  it[u] = F[<<it[u \ {Max(u)}], Max(u)>>]
  BY <1>3, <1>4, <1>5 DEF n, Folding
<1>9. Follows(it, S, b, n, F)
  BY <1>5 DEF Follows, Folding
<1>10. Stays(it, S, b, n, F)
  BY <1>1, <1>2, <1>9, Along
<1>6. /\ \A k \in 0..n : it[1..k] \in S
      /\ it[1..0] = b
      /\ \A k \in 1..n : it[1..k] = F[<<it[1..(k - 1)], k>>]
  BY <1>10 DEF Stays
<1>7. h \in [0..n -> S] /\ h[0] = b /\ h[n] = it[1..n]
  BY <1>1, <1>6
<1>8. ASSUME NEW k \in 1..n PROVE h[k] = G[<<h[k - 1], s[k]>>]
  <2>1. k - 1 \in 0..n /\ k \in 0..n
    BY <1>1
  <2>2. h[k] = it[1..k] /\ h[k - 1] = it[1..(k - 1)] /\ it[1..(k - 1)] \in S
    BY <1>6, <2>1
  <2>3. it[1..k] = F[<<it[1..(k - 1)], k>>]
    BY <1>6
  <2> HIDE DEF h
  <2> QED
    BY <1>3, <2>2, <2>3
<1> HIDE DEF h
<1> QED
  BY <1>7, <1>8 DEF Folded, n

\* v and w are the values for s and for s with x more.
FoldedBoth(v, w, S, E, b, s, x, G) ==
  /\ b \in S /\ G \in [S \X E -> S] /\ s \in Seq(E) /\ x \in E
  /\ Folded(v, S, b, s, G) /\ Folded(w, S, b, Append(s, x), G)

\* A fold of one element more.
LEMMA FoldedAppend ==
  ASSUME NEW S, NEW E, NEW b, NEW G, NEW s, NEW x, NEW v, NEW w, FoldedBoth(v, w, S, E, b, s, x, G)
  PROVE  v \in S /\ w = G[<<v, x>>]
<1> DEFINE n == Len(s)
           t == Append(s, x)
<1>0. /\ b \in S /\ G \in [S \X E -> S] /\ s \in Seq(E) /\ x \in E
      /\ Folded(v, S, b, s, G) /\ Folded(w, S, b, t, G)
  BY DEF FoldedBoth
<1>1. n \in Nat /\ Len(t) = n + 1 /\ t[n + 1] = x /\ \A k \in 1..n : t[k] = s[k]
  BY <1>0
<1>2. PICK g \in [0..n -> S] :
        g[0] = b /\ v = g[n] /\ \A k \in 1..n : g[k] = G[<<g[k - 1], s[k]>>]
  BY <1>0 DEF Folded
<1>3. PICK h \in [0..(n + 1) -> S] :
        h[0] = b /\ w = h[n + 1] /\ \A k \in 1..(n + 1) : h[k] = G[<<h[k - 1], t[k]>>]
  BY <1>0, <1>1 DEF Folded
<1> DEFINE P == {k \in 0..n : g[k] = h[k]}
<1> HIDE DEF n, t
<1>4. P = 0..n
  <2>1. P \in SUBSET (0..n) /\ 0 \in P
    BY <1>1, <1>2, <1>3
  <2>2. ASSUME NEW k \in 1..n, k - 1 \in P PROVE k \in P
    <3>1. k \in 1..(n + 1)
      BY <1>1
    <3>2. g[k] = G[<<g[k - 1], s[k]>>] /\ h[k] = G[<<h[k - 1], t[k]>>]
      BY <1>2, <1>3, <3>1
    <3>3. g[k - 1] = h[k - 1] /\ t[k] = s[k] /\ k \in 0..n
      BY <1>1, <2>2
    <3>4. g[k] = h[k]
      BY <3>2, <3>3
    <3> QED
      BY <3>3, <3>4
  <2> HIDE DEF P
  <2> QED
    BY <1>1, <2>1, <2>2, UpTo
<1>5. n \in 0..n /\ n + 1 \in 1..(n + 1) /\ (n + 1) - 1 = n
  BY <1>1
<1>6. h[n] = v
  BY <1>2, <1>4, <1>5
<1> QED
  BY <1>1, <1>2, <1>3, <1>5, <1>6

\* A fold of no element.
LEMMA FoldedEmpty ==
  ASSUME NEW S, NEW b, NEW G, NEW v, Folded(v, S, b, <<>>, G)
  PROVE  v = b
BY DEF Folded

\* What holds of no element and of one more holds of every sequence.
LEMMA SeqInd ==
  ASSUME NEW E, NEW T \in SUBSET Seq(E), <<>> \in T, \A s \in T : \A x \in E : Append(s, x) \in T
  PROVE  T = Seq(E)
<1> DEFINE N == {n \in Nat : \A s \in Seq(E) : Len(s) = n => s \in T}
<1>1. N \in SUBSET Nat /\ 0 \in N
  <2>1. \A s \in Seq(E) : Len(s) = 0 => s = <<>>
    OBVIOUS
  <2> QED
    BY <2>1
<1>2. ASSUME NEW n \in N PROVE n + 1 \in N
  <2>1. n \in Nat
    OBVIOUS
  <2>2. ASSUME NEW s \in Seq(E), Len(s) = n + 1 PROVE s \in T
    <3> DEFINE t == SubSeq(s, 1, n)
    <3>1. t \in Seq(E) /\ Len(t) = n /\ s[n + 1] \in E
      BY <2>1, <2>2
    <3>2. s = Append(t, s[n + 1])
      <4>1. Append(t, s[n + 1]) \in Seq(E) /\ Len(Append(t, s[n + 1])) = Len(s)
        BY <2>2, <3>1
      <4>2. \A k \in 1..Len(s) : Append(t, s[n + 1])[k] = s[k]
        BY <2>1, <2>2, <3>1
      <4> HIDE DEF t
      <4> QED
        BY <4>1, <4>2, SeqEqual
    <3>3. t \in T
      BY <3>1, <1>2
    <3> HIDE DEF t
    <3> QED
      BY <3>1, <3>2, <3>3
  <2> QED
    BY <2>1, <2>2
<1>3. N = Nat
  <2> HIDE DEF N
  <2> QED
    BY <1>1, <1>2, NatInd
<1>4. ASSUME NEW s \in Seq(E) PROVE s \in T
  <2>1. Len(s) \in Nat
    OBVIOUS
  <2> QED
    BY <1>3, <2>1
<1> QED
  BY <1>4

-----------------------------------------------------------------------------
(* Places in sequences *)

\* s with x put after the k-th.
Inserted(s, k, x) == SubSeq(s, 1, k) \o <<x>> \o SubSeq(s, k + 1, Len(s))

\* The first elements of a sequence.
LEMMA FrontIs ==
  ASSUME NEW S, NEW s \in Seq(S), NEW k \in 0..Len(s)
  PROVE  /\ SubSeq(s, 1, k) \in Seq(S) /\ Len(SubSeq(s, 1, k)) = k
         /\ \A i \in 1..k : SubSeq(s, 1, k)[i] = s[i]
<1>1. 1 \in Int /\ k \in Int /\ k \in Nat /\ Len(s) \in Nat /\ k <= Len(s)
  OBVIOUS
<1>2. \A i \in 1..k : i \in 1..Len(s)
  BY <1>1
<1>3. \A i \in 1..k : s[i] \in S
  BY <1>2
<1>4. /\ SubSeq(s, 1, k) \in Seq(S) /\ Len(SubSeq(s, 1, k)) = IF 1 <= k THEN k - 1 + 1 ELSE 0
      /\ \A i \in 1..(k - 1 + 1) : SubSeq(s, 1, k)[i] = s[1 + i - 1]
  BY <1>1, <1>3, SubSeqProperties
<1>5. (IF 1 <= k THEN k - 1 + 1 ELSE 0) = k /\ k - 1 + 1 = k /\ \A i \in 1..k : 1 + i - 1 = i
  BY <1>1
<1> QED
  BY <1>4, <1>5

\* The last ones.
LEMMA BackIs ==
  ASSUME NEW S, NEW s \in Seq(S), NEW k \in 0..Len(s)
  PROVE  /\ SubSeq(s, k + 1, Len(s)) \in Seq(S) /\ Len(SubSeq(s, k + 1, Len(s))) = Len(s) - k
         /\ \A i \in 1..(Len(s) - k) : SubSeq(s, k + 1, Len(s))[i] = s[k + i]
<1> DEFINE n == Len(s)
<1>1. k \in Nat /\ n \in Nat /\ k <= n /\ k + 1 \in Int /\ n \in Int
  OBVIOUS
<1>2. \A i \in 1..n : s[i] \in S
  OBVIOUS
<1> HIDE DEF n
<1>3. \A i \in (k + 1)..n : s[i] \in S
  BY <1>1, <1>2
<1>4. /\ SubSeq(s, k + 1, n) \in Seq(S)
      /\ Len(SubSeq(s, k + 1, n)) = IF k + 1 <= n THEN n - (k + 1) + 1 ELSE 0
      /\ \A i \in 1..(n - (k + 1) + 1) : SubSeq(s, k + 1, n)[i] = s[k + 1 + i - 1]
  BY <1>1, <1>3, SubSeqProperties
<1>5. (IF k + 1 <= n THEN n - (k + 1) + 1 ELSE 0) = n - k /\ n - (k + 1) + 1 = n - k
      /\ \A i \in 1..(n - k) : k + 1 + i - 1 = k + i
  BY <1>1
<1>6. SubSeq(s, k + 1, n) \in Seq(S) /\ Len(SubSeq(s, k + 1, n)) = n - k
      /\ \A i \in 1..(n - k) : SubSeq(s, k + 1, n)[i] = s[k + i]
  BY <1>4, <1>5
<1> QED
  BY <1>6 DEF n

\* The places of a sequence once an element is put after the k-th.
Placed(t, s, k, x) ==
  /\ Len(t) = Len(s) + 1 /\ t[k + 1] = x
  /\ \A i \in 1..k : t[i] = s[i]
  /\ \A i \in (k + 1)..Len(s) : t[i + 1] = s[i]

\* An element is put after the k-th.
LEMMA InsertedIs ==
  ASSUME NEW S, NEW s \in Seq(S), NEW k \in 1..Len(s), NEW x \in S
  PROVE  Inserted(s, k, x) \in Seq(S) /\ Placed(Inserted(s, k, x), s, k, x)
<1> DEFINE n == Len(s)
           f == SubSeq(s, 1, k)
           b == SubSeq(s, k + 1, n)
           t == f \o <<x>>
           v == t \o b
<1>1. n \in Nat /\ k \in Nat /\ 1 <= k /\ k <= n /\ k \in 0..n
  OBVIOUS
<1>2. f \in Seq(S) /\ Len(f) = k /\ \A i \in 1..k : f[i] = s[i]
  BY <1>1, FrontIs
<1>3. b \in Seq(S) /\ Len(b) = n - k /\ \A i \in 1..(n - k) : b[i] = s[k + i]
  BY <1>1, BackIs
<1> HIDE DEF f, b
<1>4. <<x>> \in Seq(S) /\ Len(<<x>>) = 1 /\ <<x>>[1] = x
  OBVIOUS
<1>5. t \in Seq(S) /\ Len(t) = k + 1 /\ \A i \in 1..(k + 1) : t[i] = IF i <= k THEN f[i] ELSE <<x>>[i - k]
  BY <1>2, <1>4, ConcatProperties
<1>6. t[k + 1] = x /\ \A i \in 1..k : t[i] = s[i]
  <2>1. k + 1 \in 1..(k + 1) /\ ~ (k + 1 <= k) /\ k + 1 - k = 1
    BY <1>1
  <2>2. \A i \in 1..k : i \in 1..(k + 1) /\ i <= k
    BY <1>1
  <2> QED
    BY <1>2, <1>4, <1>5, <2>1, <2>2
<1> HIDE DEF t
<1>7. /\ v \in Seq(S) /\ Len(v) = k + 1 + (n - k)
      /\ \A i \in 1..(k + 1 + (n - k)) : v[i] = IF i <= k + 1 THEN t[i] ELSE b[i - (k + 1)]
  BY <1>3, <1>5, ConcatProperties
<1>8. k + 1 + (n - k) = n + 1
  BY <1>1
<1> HIDE DEF v, n
<1>9. v[k + 1] = x /\ \A i \in 1..k : v[i] = s[i]
  <2>1. k + 1 \in 1..(n + 1) /\ k + 1 <= k + 1 /\ \A i \in 1..k : i \in 1..(n + 1) /\ i <= k + 1
    BY <1>1
  <2> QED
    BY <1>6, <1>7, <1>8, <2>1
<1>10. ASSUME NEW i \in (k + 1)..n PROVE v[i + 1] = s[i]
  <2>1. i + 1 \in 1..(n + 1) /\ ~ (i + 1 <= k + 1) /\ i + 1 - (k + 1) = i - k /\ i - k \in 1..(n - k) /\ k + (i - k) = i
    BY <1>1
  <2>2. v[i + 1] = b[i - k]
    BY <1>7, <1>8, <2>1
  <2> QED
    BY <1>3, <2>1, <2>2
<1>11. v = Inserted(s, k, x)
  BY DEF v, t, f, b, n, Inserted
<1> QED
  BY <1>7, <1>8, <1>9, <1>10, <1>11 DEF n, Placed

\* The k-th element is taken away.
LEMMA RemovedIs ==
  ASSUME NEW S, NEW s \in Seq(S), NEW k \in 1..Len(s)
  PROVE  /\ RemoveAt(s, k) \in Seq(S) /\ Len(RemoveAt(s, k)) = Len(s) - 1
         /\ \A i \in 1..(k - 1) : RemoveAt(s, k)[i] = s[i]
         /\ \A i \in k..(Len(s) - 1) : RemoveAt(s, k)[i] = s[i + 1]
<1> DEFINE n == Len(s)
           f == SubSeq(s, 1, k - 1)
           b == SubSeq(s, k + 1, n)
           v == f \o b
<1>1. n \in Nat /\ k \in Nat /\ 1 <= k /\ k <= n /\ k \in 0..n /\ k - 1 \in 0..n /\ k - 1 \in Nat
  OBVIOUS
<1>2. f \in Seq(S) /\ Len(f) = k - 1 /\ \A i \in 1..(k - 1) : f[i] = s[i]
  BY <1>1, FrontIs
<1>3. b \in Seq(S) /\ Len(b) = n - k /\ \A i \in 1..(n - k) : b[i] = s[k + i]
  BY <1>1, BackIs
<1>4. v = RemoveAt(s, k)
  BY DEF RemoveAt
<1> HIDE DEF f, b
<1>5. /\ v \in Seq(S) /\ Len(v) = k - 1 + (n - k)
      /\ \A i \in 1..(k - 1 + (n - k)) : v[i] = IF i <= k - 1 THEN f[i] ELSE b[i - (k - 1)]
  <2>1. /\ v \in Seq(S) /\ Len(v) = Len(f) + Len(b)
        /\ \A i \in 1..(Len(f) + Len(b)) : v[i] = IF i <= Len(f) THEN f[i] ELSE b[i - Len(f)]
    <3>1. f \in Seq(S) /\ b \in Seq(S)
      BY <1>2, <1>3
    <3> QED
      BY <3>1, ConcatProperties
  <2> HIDE DEF v
  <2> QED
    BY <1>2, <1>3, <2>1
<1>6. k - 1 + (n - k) = n - 1
  BY <1>1
<1> HIDE DEF v, n
<1>7. ASSUME NEW i \in 1..(k - 1) PROVE v[i] = s[i]
  <2>1. i \in 1..(n - 1) /\ i <= k - 1
    BY <1>1
  <2> QED
    BY <1>2, <1>5, <1>6, <2>1
<1>8. ASSUME NEW i \in k..(n - 1) PROVE v[i] = s[i + 1]
  <2>1. i \in 1..(n - 1) /\ ~ (i <= k - 1) /\ i - (k - 1) \in 1..(n - k) /\ k + (i - (k - 1)) = i + 1
    BY <1>1
  <2>2. v[i] = b[i - (k - 1)]
    BY <1>5, <1>6, <2>1
  <2> QED
    BY <1>3, <2>1, <2>2
<1> QED
  BY <1>4, <1>5, <1>6, <1>7, <1>8 DEF n

\* The least of a set of ranks is one of them.
LEMMA MinIn ==
  ASSUME NEW u \in SUBSET Nat, u # {}
  PROVE  Min(u) \in u /\ \A y \in u : Min(u) <= y
<1>1. PICK x \in u : \A y \in u : x <= y
  BY NatLeast
<1> QED
  BY <1>1 DEF Min

\* Nothing is there twice.
Injective(cs) == \A j, k \in 1..Len(cs) : cs[j] = cs[k] => j = k

\* A sequence of elements of a finite set, none twice, is no longer than the set.
LEMMA NotMore ==
  ASSUME NEW S, IsFiniteSet(S), NEW cs \in Seq(S), Injective(cs)
  PROVE  Len(cs) <= Cardinality(S) /\ Cardinality(S) \in Nat
<1> DEFINE n == Len(cs)
           f == [k \in 1..n |-> cs[k]]
<1>1. n \in Nat /\ \A k \in 1..n : cs[k] \in S
  OBVIOUS
<1>2. IsFiniteSet(S) /\ Cardinality(S) \in Nat
  BY FS_CardinalityType
<1>3. \A j, k \in 1..n : cs[j] = cs[k] => j = k
  BY DEF Injective
<1> HIDE DEF n
<1>4. f \in Injection(1..n, S)
  BY <1>1, <1>3 DEF Injection, IsInjective
<1>5. Cardinality(1..n) = n
  <2>1. Cardinality(1..n) = IF 1 > n THEN 0 ELSE n - 1 + 1
    BY <1>1, FS_Interval
  <2> QED
    BY <1>1, <2>1
<1>6. Cardinality(1..n) <= Cardinality(S)
  <2> HIDE DEF f
  <2> QED
    BY <1>2, <1>4, FS_Injection
<1> QED
  BY <1>2, <1>5, <1>6 DEF n
=============================================================================
