-------------------------- MODULE ContainersProofs --------------------------
(****************************************************************************)
(* Theorems about the containers of the library, for all keys, values, sizes, *)
(* elements and cells: the lists, the tables, the links, then the three     *)
(* together.                                                                *)
(*                                                                          *)
(* Lists: the pages hold the elements in order, and each element keeps its  *)
(* place. Tables: the entries are each in the chain of their key by the present *)
(* size (ChainsOf), whatever was set, copied or made larger. Links: there are *)
(* sequences of cells the lists run along, with no cell in common, and the  *)
(* cells malloc gave are those and the ones of the cache, once each.        *)
(****************************************************************************)
EXTENDS Containers, Inductions

-----------------------------------------------------------------------------
(* Lists: the pages *)

\* The pages of list.c, whatever their size.
Page == [size : Nat, content : Seq(Elements)]

\* The steps of the two folds over the pages.
SizeStep == [p \in Nat \X Page |-> p[1] + nb(p[2])]
VectorStep == [p \in Seq(Elements) \X Page |-> p[1] \o p[2].content]

\* haplo_list_size adds what each page holds, from the first to the last.
LEMMA SizeFolded ==
  ASSUME NEW s \in Seq(Page)
  PROVE  Folded(haplo_list_size(s), Nat, 0, s, SizeStep)
<1> DEFINE D == 1..Len(s)
           Eq(it) == it = [u \in SUBSET D |-> IF u = {} THEN 0 ELSE it[u \ {Max(u)}] + nb(s[Max(u)])]
           it == CHOOSE it : Eq(it)
<1>0. 0 \in Nat
  OBVIOUS
<1>1. SizeStep \in [Nat \X Page -> Nat]
  <2>1. \A p \in Nat \X Page : p[1] + nb(p[2]) \in Nat
    <3>1. \A q \in Page : q.content \in Seq(Elements)
      BY DEF Page
    <3>2. \A q \in Page : Len(q.content) \in Nat
      BY <3>1
    <3> QED
      BY <3>2 DEF nb
  <2> QED
    BY <2>1 DEF SizeStep
<1>2. ASSUME NEW f, NEW u \in SUBSET D, u # {}, f[u \ {Max(u)}] \in Nat
      PROVE  SizeStep[<<f[u \ {Max(u)}], s[Max(u)]>>] = f[u \ {Max(u)}] + nb(s[Max(u)])
  BY <1>2, MaxRank DEF SizeStep
<1>3. PICK f \in [SUBSET D -> Nat] : Folding(f, Nat, 0, s, SizeStep)
  BY <1>0, <1>1, FoldExists
<1>4. \A u \in SUBSET D : u \ {Max(u)} \in SUBSET D
  OBVIOUS
<1>5. Eq(f)
  BY <1>2, <1>3, <1>4 DEF Folding
<1>6. Eq(it)
  BY <1>5
<1>7. haplo_list_size(s) = it[D]
  <2>1. DOMAIN s = D
    OBVIOUS
  <2> QED
    BY <2>1 DEF haplo_list_size, FoldLeft, MapThenFoldSet
<1> HIDE DEF it
<1>8. Folding(it, Nat, 0, s, SizeStep)
  BY <1>2, <1>6 DEF Folding
<1>9. Folded(it[D], Nat, 0, s, SizeStep)
  BY <1>0, <1>1, <1>8, FoldIs
<1> QED
  BY <1>7, <1>9

\* haplo_list_vector puts the contents of the pages together, from the first to the last.
LEMMA VectorFolded ==
  ASSUME NEW s \in Seq(Page)
  PROVE  Folded(haplo_list_vector(s), Seq(Elements), <<>>, s, VectorStep)
<1> DEFINE D == 1..Len(s)
           V == Seq(Elements)
           Eq(it) == it = [u \in SUBSET D |-> IF u = {} THEN <<>> ELSE it[u \ {Max(u)}] \o s[Max(u)].content]
           it == CHOOSE it : Eq(it)
<1>0. <<>> \in V
  OBVIOUS
<1>1. VectorStep \in [V \X Page -> V]
  <2>1. ASSUME NEW a \in V, NEW p \in Page PROVE a \o p.content \in V
    <3>1. p.content \in Seq(Elements)
      BY DEF Page
    <3> QED
      BY <3>1, ConcatProperties
  <2> QED
    BY <2>1 DEF VectorStep
<1> HIDE DEF V
<1>2. ASSUME NEW f, NEW u \in SUBSET D, u # {}, f[u \ {Max(u)}] \in V
      PROVE  VectorStep[<<f[u \ {Max(u)}], s[Max(u)]>>] = f[u \ {Max(u)}] \o s[Max(u)].content
  BY <1>2, MaxRank DEF VectorStep, V
<1>3. PICK f \in [SUBSET D -> V] : Folding(f, V, <<>>, s, VectorStep)
  BY <1>0, <1>1, FoldExists
<1>4. \A u \in SUBSET D : u \ {Max(u)} \in SUBSET D
  OBVIOUS
<1>5. Eq(f)
  BY <1>2, <1>3, <1>4 DEF Folding
<1>6. Eq(it)
  BY <1>5
<1>7. haplo_list_vector(s) = it[D]
  <2>1. DOMAIN s = D
    OBVIOUS
  <2> QED
    BY <2>1 DEF haplo_list_vector, FoldLeft, MapThenFoldSet
<1> HIDE DEF it
<1>8. Folding(it, V, <<>>, s, VectorStep)
  BY <1>2, <1>6 DEF Folding
<1>9. Folded(it[D], V, <<>>, s, VectorStep)
  BY <1>0, <1>1, <1>8, FoldIs
<1> QED
  BY <1>7, <1>9 DEF V

\* The size of a list with one page more.
LEMMA SizeAppend ==
  /\ haplo_list_size(<<>>) = 0
  /\ \A s \in Seq(Page) : haplo_list_size(s) \in Nat
  /\ \A s \in Seq(Page), p \in Page :
       haplo_list_size(Append(s, p)) = haplo_list_size(s) + nb(p)
<1>0. SizeStep \in [Nat \X Page -> Nat]
  <2>1. ASSUME NEW a \in Nat, NEW p \in Page PROVE a + nb(p) \in Nat
    <3>1. p.content \in Seq(Elements)
      BY DEF Page
    <3> QED
      BY <3>1 DEF nb
  <2> QED
    BY <2>1 DEF SizeStep
<1>1. haplo_list_size(<<>>) = 0
  <2>1. Folded(haplo_list_size(<<>>), Nat, 0, <<>>, SizeStep)
    <3>1. <<>> \in Seq(Page)
      OBVIOUS
    <3> QED
      BY <3>1, SizeFolded
  <2> QED
    BY <2>1, FoldedEmpty
<1>2. ASSUME NEW s \in Seq(Page), NEW p \in Page
      PROVE  haplo_list_size(s) \in Nat /\ haplo_list_size(Append(s, p)) = haplo_list_size(s) + nb(p)
  <2>1. Append(s, p) \in Seq(Page) /\ 0 \in Nat
    OBVIOUS
  <2>2. /\ Folded(haplo_list_size(s), Nat, 0, s, SizeStep)
        /\ Folded(haplo_list_size(Append(s, p)), Nat, 0, Append(s, p), SizeStep)
    BY <2>1, SizeFolded
  <2>3. /\ haplo_list_size(s) \in Nat
        /\ haplo_list_size(Append(s, p)) = SizeStep[<<haplo_list_size(s), p>>]
    <3>1. FoldedBoth(haplo_list_size(s), haplo_list_size(Append(s, p)), Nat, Page, 0, s, p, SizeStep)
      BY <1>0, <2>1, <2>2 DEF FoldedBoth
    <3> QED
      BY <3>1, FoldedAppend
  <2> QED
    BY <2>3 DEF SizeStep
<1>3. ASSUME NEW s \in Seq(Page) PROVE haplo_list_size(s) \in Nat
  <2>1. [size |-> 0, content |-> <<>>] \in Page
    BY DEF Page
  <2> QED
    BY <1>2, <2>1
<1> QED
  BY <1>1, <1>2, <1>3

\* The elements of a list with one page more.
LEMMA VectorAppend ==
  /\ haplo_list_vector(<<>>) = <<>>
  /\ \A s \in Seq(Page) : haplo_list_vector(s) \in Seq(Elements)
  /\ \A s \in Seq(Page), p \in Page :
       haplo_list_vector(Append(s, p)) = haplo_list_vector(s) \o p.content
<1> DEFINE V == Seq(Elements)
<1>0. VectorStep \in [V \X Page -> V] /\ <<>> \in V
  <2>1. ASSUME NEW a \in V, NEW p \in Page PROVE a \o p.content \in V
    <3>1. p.content \in Seq(Elements)
      BY DEF Page
    <3> QED
      BY <3>1, ConcatProperties
  <2> QED
    BY <2>1 DEF VectorStep
<1>1. haplo_list_vector(<<>>) = <<>>
  <2>1. Folded(haplo_list_vector(<<>>), V, <<>>, <<>>, VectorStep)
    <3>1. <<>> \in Seq(Page)
      OBVIOUS
    <3> QED
      BY <3>1, VectorFolded
  <2> QED
    BY <2>1, FoldedEmpty
<1>2. ASSUME NEW s \in Seq(Page), NEW p \in Page
      PROVE  /\ haplo_list_vector(s) \in V
             /\ haplo_list_vector(Append(s, p)) = haplo_list_vector(s) \o p.content
  <2>1. Append(s, p) \in Seq(Page)
    OBVIOUS
  <2>2. /\ Folded(haplo_list_vector(s), V, <<>>, s, VectorStep)
        /\ Folded(haplo_list_vector(Append(s, p)), V, <<>>, Append(s, p), VectorStep)
    BY <2>1, VectorFolded
  <2>3. /\ haplo_list_vector(s) \in V
        /\ haplo_list_vector(Append(s, p)) = VectorStep[<<haplo_list_vector(s), p>>]
    <3>1. FoldedBoth(haplo_list_vector(s), haplo_list_vector(Append(s, p)), V, Page, <<>>, s, p, VectorStep)
      BY <1>0, <2>1, <2>2 DEF FoldedBoth
    <3> QED
      BY <3>1, FoldedAppend
  <2> QED
    BY <2>3 DEF VectorStep
<1>3. ASSUME NEW s \in Seq(Page) PROVE haplo_list_vector(s) \in V
  <2>1. [size |-> 0, content |-> <<>>] \in Page
    BY DEF Page
  <2> QED
    BY <1>2, <2>1
<1> QED
  BY <1>1, <1>2, <1>3

\* The ranks of the elements of the q-th page begin after these.
before(ps, q) == haplo_list_size(SubSeq(ps, 1, q - 1))

\* What a page is made of.
LEMMA Pages ==
  ASSUME NEW p \in Page
  PROVE  p.size \in Nat /\ p.content \in Seq(Elements) /\ nb(p) \in Nat /\ nb(p) = Len(p.content)
<1>1. p.size \in Nat /\ p.content \in Seq(Elements)
  BY DEF Page
<1> QED
  BY <1>1 DEF nb

\* The beginning of a sequence is left alone by what is appended.
LEMMA PrefixOfAppend ==
  ASSUME NEW E, NEW s \in Seq(E), NEW x \in E
  PROVE  /\ \A n \in 0..Len(s) : SubSeq(Append(s, x), 1, n) = SubSeq(s, 1, n)
         /\ SubSeq(s, 1, Len(s)) = s
         /\ SubSeq(s, 1, 0) = <<>>
<1>1. Len(s) \in Nat /\ Append(s, x) \in Seq(E) /\ Len(Append(s, x)) = Len(s) + 1
      /\ \A k \in 1..Len(s) : Append(s, x)[k] = s[k] /\ s[k] \in E
  OBVIOUS
<1>2. ASSUME NEW n \in 0..Len(s) PROVE SubSeq(Append(s, x), 1, n) = SubSeq(s, 1, n)
  <2>1. n \in Int /\ \A k \in 1..n : k \in 1..Len(s)
    BY <1>1
  <2> DEFINE t == SubSeq(Append(s, x), 1, n)
             u == SubSeq(s, 1, n)
  <2>2. t \in Seq(E) /\ Len(t) = n /\ \A k \in 1..n : t[k] = s[k]
    <3>1. \A k \in 1..n : Append(s, x)[k] \in E
      BY <1>1, <2>1
    <3>2. t \in Seq(E) /\ Len(t) = (IF 1 <= n THEN n - 1 + 1 ELSE 0)
          /\ \A k \in 1..(n - 1 + 1) : t[k] = Append(s, x)[1 + k - 1]
      BY <2>1, <3>1, SubSeqProperties
    <3> HIDE DEF t
    <3> QED
      BY <1>1, <2>1, <3>2
  <2>3. u \in Seq(E) /\ Len(u) = n /\ \A k \in 1..n : u[k] = s[k]
    <3>1. \A k \in 1..n : s[k] \in E
      BY <1>1, <2>1
    <3>2. u \in Seq(E) /\ Len(u) = (IF 1 <= n THEN n - 1 + 1 ELSE 0)
          /\ \A k \in 1..(n - 1 + 1) : u[k] = s[1 + k - 1]
      BY <2>1, <3>1, SubSeqProperties
    <3> HIDE DEF u
    <3> QED
      BY <1>1, <2>1, <3>2
  <2> HIDE DEF t, u
  <2>4. t = u
    BY <2>2, <2>3, SeqEqual
  <2> QED
    BY <2>4 DEF t, u
<1>3. SubSeq(s, 1, Len(s)) = s
  BY SubSeqFull
<1>4. SubSeq(s, 1, 0) = <<>>
  BY SubSeqEmpty
<1> QED
  BY <1>2, <1>3, <1>4

\* A list of pages is its last page behind the others.
LEMMA LastPage ==
  ASSUME NEW E, NEW s \in Seq(E), s # <<>>
  PROVE  LET f == SubSeq(s, 1, Len(s) - 1)
         IN  f \in Seq(E) /\ Len(f) = Len(s) - 1 /\ s[Len(s)] \in E /\ s = Append(f, s[Len(s)])
<1> DEFINE n == Len(s)
           f == SubSeq(s, 1, n - 1)
<1>1. n \in Nat \ {0} /\ s[n] \in E /\ \A k \in 1..(n - 1) : s[k] \in E
  OBVIOUS
<1>2. f \in Seq(E) /\ Len(f) = n - 1 /\ \A k \in 1..(n - 1) : f[k] = s[k]
  <2>1. f \in Seq(E) /\ Len(f) = (IF 1 <= n - 1 THEN n - 1 - 1 + 1 ELSE 0)
        /\ \A k \in 1..(n - 1 - 1 + 1) : f[k] = s[1 + k - 1]
    BY <1>1, SubSeqProperties
  <2> HIDE DEF f, n
  <2>2. \A k \in 1..(n - 1) : k \in 1..(n - 1 - 1 + 1) /\ 1 + k - 1 = k
    BY <1>1
  <2> QED
    BY <1>1, <2>1, <2>2
<1> HIDE DEF f
<1>3. s = Append(f, s[n])
  <2>1. Append(f, s[n]) \in Seq(E) /\ Len(Append(f, s[n])) = n
    BY <1>1, <1>2
  <2>2. \A k \in 1..n : Append(f, s[n])[k] = s[k]
    BY <1>1, <1>2
  <2> QED
    BY <2>1, <2>2, SeqEqual
<1> QED
  BY <1>1, <1>2, <1>3 DEF f

\* The size of a list is the length of its vector.
LEMMA SizeIsLength ==
  ASSUME NEW s \in Seq(Page)
  PROVE  haplo_list_size(s) = Len(haplo_list_vector(s))
<1> DEFINE T == {t \in Seq(Page) : haplo_list_size(t) = Len(haplo_list_vector(t))}
<1>1. T \in SUBSET Seq(Page) /\ <<>> \in T
  BY SizeAppend, VectorAppend
<1>2. ASSUME NEW t \in T, NEW p \in Page PROVE Append(t, p) \in T
  <2>1. Append(t, p) \in Seq(Page)
    OBVIOUS
  <2>2. /\ haplo_list_size(Append(t, p)) = Len(haplo_list_vector(t)) + Len(p.content)
        /\ haplo_list_vector(Append(t, p)) = haplo_list_vector(t) \o p.content
        /\ haplo_list_vector(t) \in Seq(Elements) /\ p.content \in Seq(Elements)
    BY <1>2, SizeAppend, VectorAppend, Pages
  <2>3. Len(haplo_list_vector(t) \o p.content) = Len(haplo_list_vector(t)) + Len(p.content)
    BY <2>2, ConcatProperties
  <2> QED
    BY <2>1, <2>2, <2>3
<1> HIDE DEF T
<1>3. T = Seq(Page)
  BY <1>1, <1>2, SeqInd
<1> QED
  BY <1>3 DEF T

\* The q-th page holds the elements from before(q) on, and its end is within the list.
PageHolds(s, q) ==
  /\ before(s, q) \in Nat /\ before(s, q) + nb(s[q]) <= haplo_list_size(s)
  /\ \A r \in 1..nb(s[q]) : haplo_list_vector(s)[before(s, q) + r] = s[q].content[r]

\* Every rank is in a page.
Covered(s) ==
  \A k \in 1..haplo_list_size(s) : \E q \in 1..Len(s) : \E r \in 1..nb(s[q]) : k = before(s, q) + r

\* A page more leaves the others where they begin, and begins where the list ended.
LEMMA BeforeAppend ==
  ASSUME NEW s \in Seq(Page), NEW p \in Page
  PROVE  /\ \A q \in 1..Len(s) : before(Append(s, p), q) = before(s, q)
         /\ before(Append(s, p), Len(s) + 1) = haplo_list_size(s)
<1>1. Len(s) \in Nat
  OBVIOUS
<1>2. ASSUME NEW q \in 1..Len(s) PROVE before(Append(s, p), q) = before(s, q)
  <2>1. q - 1 \in 0..Len(s)
    BY <1>1
  <2>2. \A n \in 0..Len(s) : SubSeq(Append(s, p), 1, n) = SubSeq(s, 1, n)
    BY PrefixOfAppend
  <2>3. SubSeq(Append(s, p), 1, q - 1) = SubSeq(s, 1, q - 1)
    BY <2>1, <2>2
  <2> QED
    BY <2>3 DEF before
<1>3. before(Append(s, p), Len(s) + 1) = haplo_list_size(s)
  <2>1. (Len(s) + 1) - 1 = Len(s) /\ Len(s) \in 0..Len(s)
    BY <1>1
  <2>2. SubSeq(Append(s, p), 1, Len(s)) = s
    BY <2>1, PrefixOfAppend
  <2> QED
    BY <2>1, <2>2 DEF before
<1> QED
  BY <1>2, <1>3

\* haplo_list_get finds the page of a rank by what the pages before it hold: each rank is in
\* one, at its place.
LEMMA PagesHold ==
  ASSUME NEW s \in Seq(Page)
  PROVE  Covered(s) /\ \A q \in 1..Len(s) : PageHolds(s, q)
<1> DEFINE T == {t \in Seq(Page) : Covered(t) /\ \A q \in 1..Len(t) : PageHolds(t, q)}
<1>1. T \in SUBSET Seq(Page) /\ <<>> \in T
  BY SizeAppend DEF Covered
<1>2. ASSUME NEW t \in T, NEW p \in Page PROVE Append(t, p) \in T
  <2> DEFINE u == Append(t, p)
             v == haplo_list_vector(t)
             n == Len(t)
  <2>1. /\ u \in Seq(Page) /\ n \in Nat /\ Len(u) = n + 1 /\ u[n + 1] = p /\ \A q \in 1..n : u[q] = t[q] /\ t[q] \in Page
    BY <1>2
  <2>2. /\ haplo_list_size(t) \in Nat /\ haplo_list_size(u) = haplo_list_size(t) + nb(p)
        /\ haplo_list_vector(u) = v \o p.content /\ v \in Seq(Elements)
        /\ haplo_list_size(t) = Len(v) /\ p.content \in Seq(Elements) /\ nb(p) = Len(p.content) /\ nb(p) \in Nat
    BY <1>2, SizeAppend, VectorAppend, SizeIsLength, Pages
  <2>3. /\ \A k \in 1..Len(v) : (v \o p.content)[k] = v[k]
        /\ \A r \in 1..nb(p) : (v \o p.content)[Len(v) + r] = p.content[r]
    BY <2>2, ConcatProperties
  <2>4. /\ \A q \in 1..n : before(u, q) = before(t, q)
        /\ before(u, n + 1) = Len(v)
    BY <1>2, <2>2, BeforeAppend
  <2>5. ASSUME NEW q \in 1..Len(u) PROVE PageHolds(u, q)
    <3>1. CASE q = n + 1
      <4>1. before(u, q) = Len(v) /\ u[q] = p /\ Len(v) \in Nat
        BY <2>1, <2>2, <2>4, <3>1
      <4>2. \A r \in 1..nb(p) : haplo_list_vector(u)[Len(v) + r] = p.content[r]
        BY <2>2, <2>3
      <4>3. Len(v) + nb(p) <= haplo_list_size(u)
        BY <2>2
      <4> HIDE DEF u, v
      <4> QED
        BY <4>1, <4>2, <4>3 DEF PageHolds
    <3>2. CASE q \in 1..n
      <4>1. PageHolds(t, q) /\ u[q] = t[q] /\ before(u, q) = before(t, q) /\ nb(t[q]) \in Nat
        BY <1>2, <2>1, <2>4, <3>2, Pages
      <4>2. \A r \in 1..nb(t[q]) : before(t, q) + r \in 1..Len(v)
        BY <2>2, <4>1 DEF PageHolds
      <4>3. \A r \in 1..nb(t[q]) : haplo_list_vector(u)[before(t, q) + r] = v[before(t, q) + r]
        BY <2>2, <2>3, <4>2
      <4> HIDE DEF u, v, n
      <4>4. before(u, q) \in Nat /\ before(u, q) + nb(u[q]) <= haplo_list_size(u)
        <5>1. before(t, q) \in Nat /\ before(t, q) + nb(t[q]) <= haplo_list_size(t)
          BY <4>1 DEF PageHolds
        <5> QED
          BY <2>2, <4>1, <5>1
      <4>5. \A r \in 1..nb(t[q]) : v[before(t, q) + r] = t[q].content[r]
        BY <4>1 DEF PageHolds, v
      <4>6. \A r \in 1..nb(u[q]) : haplo_list_vector(u)[before(u, q) + r] = u[q].content[r]
        BY <4>1, <4>3, <4>5
      <4> QED
        BY <4>4, <4>6 DEF PageHolds
    <3> QED
      BY <2>1, <3>1, <3>2
  <2>6. Covered(u)
    <3> SUFFICES ASSUME NEW k \in 1..haplo_list_size(u)
                 PROVE  \E q \in 1..Len(u) : \E r \in 1..nb(u[q]) : k = before(u, q) + r
      BY DEF Covered
    <3>1. CASE k <= Len(v)
      <4>1. PICK q \in 1..Len(t) : \E r \in 1..nb(t[q]) : k = before(t, q) + r
        BY <1>2, <2>2, <3>1 DEF Covered
      <4>2. q \in 1..Len(u) /\ u[q] = t[q] /\ before(u, q) = before(t, q)
        BY <2>1, <2>4
      <4> HIDE DEF u
      <4> QED
        BY <4>1, <4>2
    <3>2. CASE ~ (k <= Len(v))
      <4>1. k - Len(v) \in 1..nb(p) /\ k = Len(v) + (k - Len(v))
        BY <2>2, <3>2
      <4>2. n + 1 \in 1..Len(u)
        BY <2>1
      <4> HIDE DEF u, n
      <4> QED
        BY <2>1, <2>4, <4>1, <4>2
    <3> QED
      BY <3>1, <3>2
  <2> HIDE DEF u
  <2>7. u \in T
    BY <2>1, <2>5, <2>6
  <2> QED
    BY <2>7 DEF u
<1> HIDE DEF T
<1>3. T = Seq(Page)
  BY <1>1, <1>2, SeqInd
<1> QED
  BY <1>3 DEF T

\* Pages do not overlap.
LEMMA PagesApart ==
  ASSUME NEW s \in Seq(Page), NEW q \in 1..Len(s), NEW o \in 1..Len(s), q < o
  PROVE  before(s, q) + nb(s[q]) <= before(s, o)
<1> DEFINE t == SubSeq(s, 1, o - 1)
<1>1. Len(s) \in Nat /\ q \in Int /\ o \in Int /\ o - 1 \in 0..Len(s) /\ q \in 1..(o - 1) /\ q - 1 \in 0..(o - 1)
      /\ \A k \in 1..(o - 1) : s[k] \in Page
  OBVIOUS
<1>2. t \in Seq(Page) /\ Len(t) = o - 1 /\ \A k \in 1..(o - 1) : t[k] = s[k]
  <2>1. t \in Seq(Page) /\ Len(t) = (IF 1 <= o - 1 THEN o - 1 - 1 + 1 ELSE 0)
        /\ \A k \in 1..(o - 1 - 1 + 1) : t[k] = s[1 + k - 1]
    BY <1>1, SubSeqProperties
  <2> HIDE DEF t
  <2> QED
    BY <1>1, <2>1
<1>3. SubSeq(t, 1, q - 1) = SubSeq(s, 1, q - 1)
  <2> DEFINE a == SubSeq(t, 1, q - 1)
             b == SubSeq(s, 1, q - 1)
  <2>1. q - 1 \in Int /\ 1 \in Int /\ (\A k \in 1..(q - 1) : t[k] \in Page /\ s[k] \in Page /\ t[k] = s[k])
    BY <1>1, <1>2
  <2>2. /\ a \in Seq(Page) /\ Len(a) = (IF 1 <= q - 1 THEN q - 1 - 1 + 1 ELSE 0)
        /\ \A k \in 1..(q - 1 - 1 + 1) : a[k] = t[1 + k - 1]
    <3> HIDE DEF t
    <3> QED
      BY <2>1, SubSeqProperties
  <2>3. /\ b \in Seq(Page) /\ Len(b) = (IF 1 <= q - 1 THEN q - 1 - 1 + 1 ELSE 0)
        /\ \A k \in 1..(q - 1 - 1 + 1) : b[k] = s[1 + k - 1]
    BY <2>1, SubSeqProperties
  <2> HIDE DEF a, b, t
  <2>4. Len(a) = Len(b) /\ \A k \in 1..Len(a) : a[k] = b[k]
    BY <1>1, <2>1, <2>2, <2>3
  <2>5. a = b
    BY <2>2, <2>3, <2>4, SeqEqual
  <2> QED
    BY <2>5 DEF a, b
<1> HIDE DEF t
<1>4. PageHolds(t, q)
  BY <1>1, <1>2, PagesHold
<1> QED
  BY <1>1, <1>2, <1>3, <1>4 DEF PageHolds, before, t

-----------------------------------------------------------------------------
(* What the functions of the list do *)

\* haplo_list_get gives the element of a rank (from 0), and nothing from the size on.
LEMMA GetRight ==
  ASSUME NEW s \in Seq(Page), NEW k \in Nat
  PROVE  haplo_list_get(s, k) = IF k < haplo_list_size(s) THEN <<haplo_list_vector(s)[k + 1]>> ELSE <<>>
<1> DEFINE in == {q \in DOMAIN s : before(s, q) <= k /\ k < before(s, q) + nb(s[q])}
<1>1. DOMAIN s = 1..Len(s) /\ haplo_list_size(s) \in Nat /\ \A q \in 1..Len(s) : s[q] \in Page
  BY SizeAppend
<1>2. haplo_list_get(s, k) =
        IF in = {} THEN <<>>
        ELSE <<s[CHOOSE q \in in : TRUE].content[k - before(s, CHOOSE q \in in : TRUE) + 1]>>
  BY DEF haplo_list_get, before
<1>3. ASSUME NEW q \in in
      PROVE  k < haplo_list_size(s) /\ s[q].content[k - before(s, q) + 1] = haplo_list_vector(s)[k + 1]
  <2>1. PageHolds(s, q) /\ nb(s[q]) \in Nat /\ before(s, q) <= k /\ k < before(s, q) + nb(s[q])
    BY <1>1, PagesHold, Pages
  <2>2. k - before(s, q) + 1 \in 1..nb(s[q]) /\ before(s, q) + (k - before(s, q) + 1) = k + 1
    BY <2>1 DEF PageHolds
  <2> QED
    BY <1>1, <2>1, <2>2 DEF PageHolds
<1>4. ASSUME k < haplo_list_size(s) PROVE in # {}
  <2>1. k + 1 \in 1..haplo_list_size(s)
    BY <1>1, <1>4
  <2>2. PICK q \in 1..Len(s) : \E r \in 1..nb(s[q]) : k + 1 = before(s, q) + r
    BY <2>1, PagesHold DEF Covered
  <2>3. PICK r \in 1..nb(s[q]) : k + 1 = before(s, q) + r
    BY <2>2
  <2>4. before(s, q) \in Nat /\ nb(s[q]) \in Nat
    BY <1>1, PagesHold, Pages DEF PageHolds
  <2>5. q \in in
    BY <1>1, <2>3, <2>4
  <2> HIDE DEF in
  <2> QED
    BY <2>5
<1>5. in # {} => (CHOOSE q \in in : TRUE) \in in
  OBVIOUS
<1> HIDE DEF in
<1> QED
  BY <1>2, <1>3, <1>4, <1>5

\* What the search of an element gives.
Found(s, e) == haplo_list_search(s, LAMBDA x : x = e)

\* haplo_list_search gives an element that is in the list, and nothing for one that is not.
LEMMA SearchRight ==
  ASSUME NEW s \in Seq(Page), NEW e
  PROVE  Found(s, e) = IF e \in ToSet(haplo_list_vector(s)) THEN <<e>> ELSE <<>>
<1> DEFINE v == haplo_list_vector(s)
           I == {k \in 1..Len(v) : v[k] = e}
<1>1. v \in Seq(Elements) /\ Len(v) \in Nat /\ DOMAIN v = 1..Len(v)
  BY VectorAppend
<1>2. Found(s, e) =
        LET found == IF I # {} THEN Min(I) ELSE 0 IN IF found = 0 THEN <<>> ELSE <<v[found]>>
  BY DEF Found, haplo_list_search, SelectInSeq
<1>3. I # {} => Min(I) \in I
  <2>1. I \in SUBSET Nat
    BY <1>1
  <2> HIDE DEF I
  <2> QED
    BY <2>1, MinIn
<1>4. \A k \in I : k # 0 /\ v[k] = e
  BY <1>1
<1>5. e \in ToSet(v) <=> I # {}
  BY <1>1 DEF ToSet
<1> HIDE DEF I, v
<1>6. CASE I = {}
  BY <1>2, <1>5, <1>6 DEF v
<1>7. CASE I # {}
  BY <1>2, <1>3, <1>4, <1>5, <1>7 DEF v
<1> QED
  BY <1>6, <1>7

\* Another content of the last page.
LEMMA LastChanged ==
  ASSUME NEW s \in Seq(Page), s # <<>>, NEW c \in Seq(Elements)
  PROVE  LET new == [s EXCEPT ![Len(s)].content = c]
             front == haplo_list_vector(SubSeq(s, 1, Len(s) - 1))
         IN  /\ new \in Seq(Page) /\ Len(new) = Len(s) /\ new # <<>>
             /\ \A q \in 1..(Len(s) - 1) : new[q] = s[q]
             /\ new[Len(s)].content = c /\ new[Len(s)].size = s[Len(s)].size /\ nb(new[Len(s)]) = Len(c)
             /\ \A q \in 1..Len(s) : before(new, q) = before(s, q)
             /\ front \in Seq(Elements) /\ Len(front) = before(s, Len(s))
             /\ haplo_list_vector(s) = front \o s[Len(s)].content
             /\ haplo_list_vector(new) = front \o c
<1> DEFINE n == Len(s)
           f == SubSeq(s, 1, n - 1)
           p == [s[n] EXCEPT !.content = c]
           new == [s EXCEPT ![n].content = c]
<1>1. f \in Seq(Page) /\ Len(f) = n - 1 /\ s[n] \in Page /\ s = Append(f, s[n]) /\ n \in Nat \ {0}
  BY LastPage
<1>2. p \in Page /\ p.content = c /\ p.size = s[n].size /\ nb(p) = Len(c)
  BY <1>1 DEF Page, nb
<1>3. new = [k \in 1..n |-> IF k = n THEN p ELSE s[k]]
  <2>1. DOMAIN s = 1..n /\ n \in 1..n
    BY <1>1
  <2> HIDE DEF n
  <2> QED
    BY <2>1
<1> HIDE DEF p, new, f
<1>4. new = Append(f, p)
  <2>1. new \in Seq(Page) /\ Len(new) = n
    BY <1>1, <1>2, <1>3
  <2>2. Append(f, p) \in Seq(Page) /\ Len(Append(f, p)) = n
    BY <1>1, <1>2
  <2>3. \A k \in 1..n : new[k] = Append(f, p)[k]
    <3>1. \A k \in 1..(n - 1) : Append(f, p)[k] = f[k] /\ Append(f, s[n])[k] = f[k]
      BY <1>1, <1>2
    <3>2. Append(f, p)[n] = p
      BY <1>1, <1>2
    <3> HIDE DEF n
    <3> QED
      BY <1>1, <1>3, <3>1, <3>2
  <2> QED
    BY <2>1, <2>2, <2>3, SeqEqual
<1>5. /\ new \in Seq(Page) /\ Len(new) = n /\ new # <<>> /\ new[n] = p
      /\ \A q \in 1..(n - 1) : new[q] = s[q]
  BY <1>1, <1>2, <1>3
<1>6. /\ \A q \in 1..(n - 1) : before(new, q) = before(f, q) /\ before(s, q) = before(f, q)
      /\ before(new, n) = haplo_list_size(f) /\ before(s, n) = haplo_list_size(f)
  <2>1. /\ \A q \in 1..Len(f) : before(Append(f, p), q) = before(f, q)
        /\ before(Append(f, p), Len(f) + 1) = haplo_list_size(f)
    BY <1>1, <1>2, BeforeAppend
  <2>2. /\ \A q \in 1..Len(f) : before(Append(f, s[n]), q) = before(f, q)
        /\ before(Append(f, s[n]), Len(f) + 1) = haplo_list_size(f)
    BY <1>1, BeforeAppend
  <2>3. Len(f) = n - 1 /\ Len(f) + 1 = n
    BY <1>1
  <2> HIDE DEF n
  <2> QED
    BY <1>1, <1>4, <2>1, <2>2, <2>3
<1>7. \A q \in 1..n : before(new, q) = before(s, q)
  <2>1. \A q \in 1..n : q = n \/ q \in 1..(n - 1)
    BY <1>1
  <2> QED
    BY <1>6, <2>1
<1>8. /\ haplo_list_vector(f) \in Seq(Elements) /\ Len(haplo_list_vector(f)) = haplo_list_size(f)
      /\ haplo_list_vector(s) = haplo_list_vector(f) \o s[n].content
      /\ haplo_list_vector(new) = haplo_list_vector(f) \o c
  <2>1. haplo_list_vector(f) \in Seq(Elements) /\ Len(haplo_list_vector(f)) = haplo_list_size(f)
    BY <1>1, VectorAppend, SizeIsLength
  <2>2. haplo_list_vector(Append(f, s[n])) = haplo_list_vector(f) \o s[n].content
    BY <1>1, VectorAppend
  <2>3. haplo_list_vector(Append(f, p)) = haplo_list_vector(f) \o p.content
    BY <1>1, <1>2, VectorAppend
  <2> QED
    BY <1>1, <1>2, <1>4, <2>1, <2>2, <2>3
<1> QED
  BY <1>2, <1>5, <1>6, <1>7, <1>8 DEF new, f

\* No page holds more than its size: what list_append writes stays in the page.
Fitting(ps) == \A q \in 1..Len(ps) : nb(ps[q]) <= ps[q].size

\* What adding a block leaves where it was, and where it puts the block.
Grown(ps, new, block) ==
  /\ new \in Seq(Page) /\ new # <<>> /\ Fitting(new) /\ Len(ps) <= Len(new)
  /\ haplo_list_vector(new) = haplo_list_vector(ps) \o block
  /\ Len(block) <= nb(new[Len(new)])
  /\ \A q \in 1..Len(ps) : before(new, q) = before(ps, q) /\ nb(ps[q]) <= nb(new[q])

\* The block goes to the last page of room.
LEMMA RoomFilled ==
  ASSUME NEW room \in Seq(Page), room # <<>>, Fitting(room), NEW block \in Seq(Elements),
         nb(room[Len(room)]) + Len(block) <= room[Len(room)].size
  PROVE  Grown(room, [room EXCEPT ![Len(room)].content = @ \o block], block)
<1> DEFINE n == Len(room)
           c == room[n].content \o block
           new == [room EXCEPT ![n].content = c]
           front == haplo_list_vector(SubSeq(room, 1, n - 1))
<1>1. n \in Nat \ {0} /\ room[n] \in Page /\ room[n].content \in Seq(Elements) /\ nb(room[n]) = Len(room[n].content)
  BY LastPage, Pages
<1>2. c \in Seq(Elements) /\ Len(c) = nb(room[n]) + Len(block) /\ Len(block) \in Nat /\ nb(room[n]) \in Nat
  BY <1>1, ConcatProperties
<1> HIDE DEF c
<1>3. /\ new \in Seq(Page) /\ Len(new) = n /\ new # <<>>
      /\ \A q \in 1..(n - 1) : new[q] = room[q]
      /\ new[n].content = c /\ new[n].size = room[n].size /\ nb(new[n]) = Len(c)
      /\ \A q \in 1..n : before(new, q) = before(room, q)
      /\ front \in Seq(Elements)
      /\ haplo_list_vector(room) = front \o room[n].content
      /\ haplo_list_vector(new) = front \o c
  BY <1>2, LastChanged
<1> HIDE DEF new, front, n
<1>4. haplo_list_vector(new) = haplo_list_vector(room) \o block
  <2>1. (front \o room[n].content) \o block = front \o (room[n].content \o block)
    <3>1. \A t, u, v \in Seq(Elements) : (t \o u) \o v = t \o (u \o v)
      BY ConcatAssociative
    <3>2. front \in Seq(Elements) /\ room[n].content \in Seq(Elements)
      BY <1>1, <1>3
    <3> QED
      BY <3>1, <3>2
  <2> QED
    BY <1>3, <2>1 DEF c
<1>5. \A q \in 1..n : q = n \/ q \in 1..(n - 1)
  BY <1>1
<1>6. \A q \in 1..(n - 1) : nb(room[q]) \in Nat /\ q \in 1..n
  <2>1. \A q \in 1..(n - 1) : q \in 1..n /\ room[q] \in Page
    BY <1>1 DEF n
  <2> QED
    BY <2>1, Pages
<1>7. Fitting(new)
  BY <1>2, <1>3, <1>5, <1>6 DEF Fitting, n
<1>8. \A q \in 1..n : before(new, q) = before(room, q) /\ nb(room[q]) <= nb(new[q])
  <2>1. nb(room[n]) <= nb(new[n])
    BY <1>2, <1>3
  <2>2. \A q \in 1..(n - 1) : nb(room[q]) <= nb(new[q])
    BY <1>3, <1>6
  <2> QED
    BY <1>3, <1>5, <2>1, <2>2
<1>9. Grown(room, new, block)
  BY <1>1, <1>2, <1>3, <1>4, <1>7, <1>8 DEF Grown, n
<1> QED
  BY <1>9 DEF new, c, n

\* haplo_list_append_n: the block goes behind the elements, in one page, old or new, and the
\* elements stay where they are.
LEMMA AppendGrows ==
  ASSUME NEW ps \in Seq(Page), ps # <<>>, Fitting(ps), NEW block \in Seq(Elements), block # <<>>
  PROVE  Grown(ps, haplo_list_append_n(ps, block), block)
<1> DEFINE n == Len(ps)
           last == ps[n]
           full == last.size - nb(last) < Len(block)
           size == IF Len(block) > 2 * last.size THEN Len(block) ELSE 2 * last.size
           p == list_page_new(size)
           room == IF full THEN Append(ps, p) ELSE ps
           new == [room EXCEPT ![Len(room)].content = @ \o block]
<1>1. /\ n \in Nat \ {0} /\ last \in Page /\ last.size \in Nat /\ nb(last) \in Nat /\ nb(last) <= last.size
      /\ Len(block) \in Nat \ {0}
  <2>1. n \in Nat \ {0} /\ last \in Page /\ Len(block) \in Nat \ {0}
    BY LastPage
  <2> QED
    BY <2>1, Pages DEF Fitting
<1>2. haplo_list_append_n(ps, block) = new
  BY DEF haplo_list_append_n, Last
<1>3. CASE ~ full
  <2>1. nb(last) + Len(block) <= last.size
    BY <1>1, <1>3
  <2>2. haplo_list_append_n(ps, block) = [ps EXCEPT ![Len(ps)].content = @ \o block]
    BY <1>2, <1>3
  <2> QED
    BY <2>1, <2>2, RoomFilled
<1>4. CASE full
  <2>1. size \in Nat /\ Len(block) <= size
    BY <1>1
  <2>2. p \in Page /\ p.size = size /\ nb(p) = 0 /\ p.content = <<>>
    BY <2>1 DEF Page, list_page_new, nb
  <2> HIDE DEF p
  <2>3. room = Append(ps, p) /\ room \in Seq(Page) /\ Len(room) = n + 1 /\ room # <<>>
        /\ room[n + 1] = p /\ \A q \in 1..n : room[q] = ps[q] /\ ps[q] \in Page
    BY <1>4, <2>2
  <2> HIDE DEF room, n, size, last
  <2>4. Fitting(room)
    <3>1. \A q \in 1..(n + 1) : q = n + 1 \/ q \in 1..n
      BY <1>1
    <3> QED
      BY <2>1, <2>2, <2>3, <3>1 DEF Fitting, n
  <2>5. nb(room[Len(room)]) + Len(block) <= room[Len(room)].size
    BY <1>1, <2>1, <2>2, <2>3
  <2>6. Grown(room, new, block)
    BY <2>3, <2>4, <2>5, RoomFilled
  <2>7. haplo_list_vector(room) = haplo_list_vector(ps)
    <3>1. haplo_list_vector(room) = haplo_list_vector(ps) \o <<>> /\ haplo_list_vector(ps) \in Seq(Elements)
      BY <2>2, <2>3, VectorAppend
    <3> QED
      BY <3>1, ConcatEmptySeq
  <2>8. \A q \in 1..n : before(room, q) = before(ps, q) /\ nb(room[q]) = nb(ps[q]) /\ q \in 1..(n + 1)
    BY <1>1, <2>2, <2>3, BeforeAppend DEF n
  <2> HIDE DEF new
  <2>9. Grown(ps, new, block)
    <3>1. n <= Len(new) /\ Len(room) <= Len(new)
      BY <1>1, <2>3, <2>6 DEF Grown
    <3>2. \A q \in 1..n : before(new, q) = before(ps, q) /\ nb(ps[q]) <= nb(new[q])
      BY <2>3, <2>6, <2>8 DEF Grown
    <3> QED
      BY <2>6, <2>7, <3>1, <3>2 DEF Grown, n
  <2> QED
    BY <1>2, <2>9
<1> QED
  BY <1>3, <1>4

\* The lists that are right, and a step of haplo_list_merge.
Usable == {ps \in Seq(Page) : ps # <<>> /\ Fitting(ps)}
MergeStep == [p \in Usable \X Elements |-> haplo_list_append_content(p[1], p[2])]

\* haplo_list_append adds one element.
LEMMA ContentGrows ==
  ASSUME NEW ps \in Usable, NEW e \in Elements
  PROVE  /\ Grown(ps, haplo_list_append_content(ps, e), <<e>>)
         /\ haplo_list_append_content(ps, e) \in Usable
<1>1. <<e>> \in Seq(Elements) /\ <<e>> # <<>> /\ ps \in Seq(Page) /\ ps # <<>> /\ Fitting(ps)
  BY DEF Usable
<1>2. Grown(ps, haplo_list_append_n(ps, <<e>>), <<e>>)
  BY <1>1, AppendGrows
<1> QED
  BY <1>2 DEF haplo_list_append_content, Grown, Usable

\* haplo_list_merge adds the elements of the other list one after the other.
LEMMA MergeFolded ==
  ASSUME NEW ps \in Usable, NEW others, NEW s \in Seq(Elements), haplo_list_vector(others) = s
  PROVE  Folded(haplo_list_merge(ps, others), Usable, ps, s, MergeStep)
<1> DEFINE D == 1..Len(s)
           Eq(it) == it = [u \in SUBSET D |-> IF u = {} THEN ps
                                              ELSE haplo_list_append_content(it[u \ {Max(u)}], s[Max(u)])]
           it == CHOOSE it : Eq(it)
<1>1. MergeStep \in [Usable \X Elements -> Usable]
  BY ContentGrows DEF MergeStep
<1>2. ASSUME NEW f, NEW u \in SUBSET D, u # {}, f[u \ {Max(u)}] \in Usable
      PROVE  MergeStep[<<f[u \ {Max(u)}], s[Max(u)]>>]
               = haplo_list_append_content(f[u \ {Max(u)}], s[Max(u)])
  BY <1>2, MaxRank DEF MergeStep
<1>3. PICK f \in [SUBSET D -> Usable] : Folding(f, Usable, ps, s, MergeStep)
  BY <1>1, FoldExists
<1>4. \A u \in SUBSET D : u \ {Max(u)} \in SUBSET D
  OBVIOUS
<1>5. Eq(f)
  BY <1>2, <1>3, <1>4 DEF Folding
<1>6. Eq(it)
  BY <1>5
<1>7. haplo_list_merge(ps, others) = it[D]
  <2>1. DOMAIN s = D
    OBVIOUS
  <2> QED
    BY <2>1 DEF haplo_list_merge, FoldLeft, MapThenFoldSet
<1> HIDE DEF it
<1>8. Folding(it, Usable, ps, s, MergeStep)
  BY <1>2, <1>6 DEF Folding
<1>9. Folded(it[D], Usable, ps, s, MergeStep)
  BY <1>1, <1>8, FoldIs
<1> QED
  BY <1>7, <1>9

\* A list of one element is merged as the element is added.
LEMMA MergeOne ==
  ASSUME NEW ps \in Usable, NEW e \in Elements
  PROVE  Grown(ps, haplo_list_merge(ps, haplo_list_append_content(<<list_page_new(1)>>, e)), <<e>>)
<1> DEFINE empty == <<list_page_new(1)>>
           other == haplo_list_append_content(empty, e)
           merged == haplo_list_merge(ps, other)
<1>1. empty \in Usable /\ haplo_list_vector(empty) = <<>>
  <2>1. list_page_new(1) \in Page /\ list_page_new(1).size = 1 /\ list_page_new(1).content = <<>>
        /\ nb(list_page_new(1)) = 0
    BY DEF Page, list_page_new, nb
  <2>2. empty \in Seq(Page) /\ Len(empty) = 1 /\ empty[1] = list_page_new(1) /\ empty # <<>>
        /\ empty = Append(<<>>, list_page_new(1)) /\ <<>> \in Seq(Page)
    BY <2>1
  <2>3. Fitting(empty)
    <3> HIDE DEF empty
    <3> QED
      BY <2>1, <2>2 DEF Fitting
  <2>4. haplo_list_vector(empty) = <<>> \o <<>>
    <3> HIDE DEF empty
    <3> QED
      BY <2>1, <2>2, VectorAppend
  <2> QED
    BY <2>2, <2>3, <2>4 DEF Usable
<1>2. haplo_list_vector(other) = <<e>>
  <2> HIDE DEF empty
  <2>1. Grown(empty, other, <<e>>)
    BY <1>1, ContentGrows
  <2>2. haplo_list_vector(other) = <<>> \o <<e>> /\ <<e>> \in Seq(Elements)
    BY <1>1, <2>1 DEF Grown
  <2> QED
    BY <2>2
<1> HIDE DEF empty, other
<1>3. Folded(merged, Usable, ps, <<e>>, MergeStep)
  <2>1. <<e>> \in Seq(Elements)
    OBVIOUS
  <2> QED
    BY <1>2, <2>1, MergeFolded
<1>4. merged = MergeStep[<<ps, e>>]
  <2>1. Len(<<e>>) = 1 /\ 1 \in 1..1 /\ <<e>>[1] = e /\ 1 - 1 = 0
    OBVIOUS
  <2> HIDE DEF merged
  <2> QED
    BY <1>3, <2>1 DEF Folded
<1>5. merged = haplo_list_append_content(ps, e)
  BY <1>4 DEF MergeStep
<1> QED
  BY <1>5, ContentGrows DEF other, empty

-----------------------------------------------------------------------------
(* The list: its invariant *)

\* Where an element was put: its page and its rank there.
PlaceOf(k) == places[k][1]
RankOf(k) == places[k][2]

\* The types of the variables of the list.
ListType ==
  /\ pages \in Seq(Page) /\ pages # <<>> /\ added \in Nat
  /\ items \in Seq(Elements) /\ given \in Seq(Elements)
  /\ places \in Seq(Nat \X Nat) /\ listPage \in Nat /\ rank \in Nat

\* Where an element was put is where its rank in the list is found.
PlacesRight ==
  /\ Len(places) = Len(items)
  /\ \A k \in 1..Len(items) :
       /\ PlaceOf(k) \in 1..Len(pages) /\ RankOf(k) \in 1..nb(pages[PlaceOf(k)])
       /\ k = before(pages, PlaceOf(k)) + RankOf(k)

\* The cursor of olist.c stands behind what it has given; on no page it has given all there was.
CursorRight ==
  /\ Len(given) <= Len(items) /\ given = SubSeq(items, 1, Len(given))
  /\ listPage # 0 =>
       /\ listPage \in 1..Len(pages) /\ rank <= nb(pages[listPage])
       /\ Len(given) = before(pages, listPage) + rank

\* The inductive invariant of the list: pages hold the items in order, none is over its size,
\* and the block that may be taken back is within the last page.
ListInv ==
  /\ ListType
  /\ items = haplo_list_vector(pages)
  /\ Fitting(pages) /\ added <= nb(pages[Len(pages)])
  /\ PlacesRight /\ CursorRight

\* haplo_list_new gives a list that is right.
LEMMA ListInitial == ListInit => ListInv
<1> SUFFICES ASSUME ListInit PROVE ListInv
  OBVIOUS
<1>1. PICK size \in PageSizes : pages = <<list_page_new(size)>>
  BY DEF ListInit
<1> DEFINE p == list_page_new(size)
<1>2. size \in Nat /\ p \in Page /\ p.size = size /\ p.content = <<>> /\ nb(p) = 0
  BY ListAssumption DEF Page, list_page_new, nb
<1> HIDE DEF p
<1>3. pages = <<p>>
  BY <1>1 DEF p
<1>4. pages \in Seq(Page) /\ pages # <<>> /\ Len(pages) = 1 /\ pages[1] = p /\ pages = Append(<<>>, p) /\ <<>> \in Seq(Page)
  BY <1>2, <1>3
<1>5. haplo_list_vector(pages) = <<>>
  <2>1. haplo_list_vector(pages) = <<>> \o <<>>
    BY <1>2, <1>4, VectorAppend
  <2> QED
    BY <2>1
<1>6. before(pages, 1) = 0
  <2>1. 1 - 1 = 0 /\ SubSeq(pages, 1, 0) = <<>>
    BY SubSeqEmpty
  <2>2. before(pages, 1) = haplo_list_size(SubSeq(pages, 1, 0))
    BY <2>1 DEF before
  <2> QED
    BY <2>1, <2>2, SizeAppend
<1>7. added = 0 /\ listPage = 1 /\ rank = 0 /\ given = <<>> /\ items = <<>> /\ places = <<>>
  BY DEF ListInit
<1>8. Fitting(pages)
  BY <1>2, <1>4 DEF Fitting
<1>9. PlacesRight
  BY <1>7 DEF PlacesRight
<1>10. CursorRight
  <2>1. SubSeq(items, 1, Len(given)) = <<>>
    BY <1>7, SubSeqEmpty
  <2> QED
    BY <1>2, <1>4, <1>6, <1>7, <2>1 DEF CursorRight
<1> QED
  BY <1>2, <1>4, <1>5, <1>7, <1>8, <1>9, <1>10 DEF ListInv, ListType

\* A block more in the last page.
LEMMA ListGrown ==
  ASSUME ListInv, NEW block \in Seq(Elements), block # <<>>, Grown(pages, pages', block),
         items' = items \o block, places' = Put(block, pages'), added' \in Nat, added' <= Len(block),
         UNCHANGED <<listPage, rank, given>>
  PROVE  ListInv'
<1> DEFINE n == Len(items)
           q == Len(pages')
           first == nb(pages'[q]) - Len(block)
           new == [j \in 1..Len(block) |-> <<q, first + j>>]
<1>1. /\ ListType /\ items = haplo_list_vector(pages) /\ PlacesRight /\ CursorRight
      /\ pages' \in Seq(Page) /\ pages' # <<>> /\ Fitting(pages') /\ Len(pages) <= Len(pages')
      /\ haplo_list_vector(pages') = items \o block
      /\ Len(block) <= nb(pages'[q])
      /\ \A o \in 1..Len(pages) : before(pages', o) = before(pages, o) /\ nb(pages[o]) <= nb(pages'[o])
  BY DEF ListInv, Grown
<1>2. /\ Len(block) \in Nat \ {0} /\ n \in Nat /\ q \in Nat \ {0} /\ pages'[q] \in Page
      /\ nb(pages'[q]) \in Nat /\ Len(places) = n /\ Len(pages) \in Nat \ {0} /\ first \in Nat
  <2>1. Len(block) \in Nat \ {0} /\ n \in Nat /\ q \in Nat \ {0} /\ pages'[q] \in Page /\ Len(pages) \in Nat \ {0}
        /\ Len(places) = n
    BY <1>1 DEF ListType, PlacesRight
  <2>2. nb(pages'[q]) \in Nat
    BY <2>1, Pages
  <2> QED
    BY <1>1, <2>1, <2>2
<1>3. /\ items' \in Seq(Elements) /\ Len(items') = n + Len(block)
      /\ \A k \in 1..n : items'[k] = items[k]
  <2>1. items \in Seq(Elements)
    BY <1>1 DEF ListType
  <2> QED
    BY <1>2, <2>1, ConcatProperties
<1>4. new \in Seq(Nat \X Nat) /\ Len(new) = Len(block) /\ \A j \in 1..Len(block) : new[j] = <<q, first + j>>
  BY <1>2
<1>5. places' = places \o new
  <2>1. DOMAIN block = 1..Len(block)
    OBVIOUS
  <2> QED
    BY <2>1 DEF Put
<1> HIDE DEF new, first
<1>6. /\ places' \in Seq(Nat \X Nat) /\ Len(places') = n + Len(block)
      /\ \A k \in 1..n : places'[k] = places[k]
      /\ \A j \in 1..Len(block) : places'[n + j] = <<q, first + j>>
  <2>1. places \in Seq(Nat \X Nat)
    BY <1>1 DEF ListType
  <2>2. /\ places \o new \in Seq(Nat \X Nat) /\ Len(places \o new) = Len(places) + Len(new)
        /\ \A k \in 1..(Len(places) + Len(new)) :
             (places \o new)[k] = IF k <= Len(places) THEN places[k] ELSE new[k - Len(places)]
    BY <1>4, <2>1, ConcatProperties
  <2>3. \A k \in 1..n : (places \o new)[k] = places[k]
    BY <1>2, <1>4, <2>2
  <2>4. \A j \in 1..Len(block) : (places \o new)[n + j] = new[j]
    <3> TAKE j \in 1..Len(block)
    <3>1. n + j \in 1..(n + Len(block)) /\ ~ (n + j <= n) /\ n + j - n = j
      BY <1>2
    <3>2. n + j \in 1..(Len(places) + Len(new))
      BY <1>2, <1>4, <3>1
    <3>3. (places \o new)[n + j] = IF n + j <= Len(places) THEN places[n + j] ELSE new[n + j - Len(places)]
      BY <2>2, <3>2
    <3> QED
      BY <1>2, <3>1, <3>3
  <2> QED
    BY <1>2, <1>4, <1>5, <2>2, <2>3, <2>4
<1>7. before(pages', q) + nb(pages'[q]) = n + Len(block) /\ before(pages', q) \in Nat
  <2> DEFINE f == SubSeq(pages', 1, q - 1)
  <2>1. f \in Seq(Page) /\ pages' = Append(f, pages'[q]) /\ pages'[q] \in Page
    BY <1>1, LastPage
  <2>2. haplo_list_size(pages') = haplo_list_size(f) + nb(pages'[q]) /\ haplo_list_size(f) \in Nat
    BY <2>1, SizeAppend
  <2>3. haplo_list_size(pages') = n + Len(block)
    BY <1>1, <1>3, SizeIsLength
  <2> QED
    BY <1>2, <2>2, <2>3 DEF before
<1>8. PlacesRight'
  <2>1. ASSUME NEW k \in 1..n
        PROVE  /\ places'[k][1] \in 1..Len(pages') /\ places'[k][2] \in 1..nb(pages'[places'[k][1]])
               /\ k = before(pages', places'[k][1]) + places'[k][2]
    <3>1. /\ places[k][1] \in 1..Len(pages) /\ places[k][2] \in 1..nb(pages[places[k][1]])
          /\ k = before(pages, places[k][1]) + places[k][2]
      BY <1>1 DEF PlacesRight, PlaceOf, RankOf
    <3> DEFINE o == places[k][1]
    <3>2. o \in 1..Len(pages') /\ nb(pages[o]) \in Nat /\ nb(pages'[o]) \in Nat
      <4> HIDE DEF o
      <4>3. o \in 1..Len(pages')
        BY <1>1, <1>2, <3>1 DEF o
      <4>1. o \in 1..Len(pages') /\ o \in 1..Len(pages) /\ pages \in Seq(Page)
        BY <1>1, <3>1, <4>3 DEF ListType, o
      <4>2. pages[o] \in Page /\ pages'[o] \in Page
        BY <1>1, <3>1, <4>1, ElementOfSeq
      <4> QED
        BY <4>1, <4>2, Pages
    <3>3. before(pages', o) = before(pages, o) /\ nb(pages[o]) <= nb(pages'[o])
      BY <1>1, <3>1
    <3>4. places[k][2] \in 1..nb(pages'[o])
      BY <3>1, <3>2, <3>3
    <3> QED
      BY <1>6, <3>1, <3>2, <3>3, <3>4
  <2>2. ASSUME NEW k \in 1..(n + Len(block)), ~ (k <= n)
        PROVE  /\ places'[k][1] \in 1..Len(pages') /\ places'[k][2] \in 1..nb(pages'[places'[k][1]])
               /\ k = before(pages', places'[k][1]) + places'[k][2]
    <3> DEFINE j == k - n
    <3>1. j \in 1..Len(block) /\ k = n + j
      BY <1>2, <2>2
    <3>2. places'[k] = <<q, first + j>>
      BY <1>6, <3>1
    <3>3. first + j \in 1..nb(pages'[q]) /\ before(pages', q) + (first + j) = k
      <4> HIDE DEF j, q, n
      <4>1. first = nb(pages'[q]) - Len(block)
        BY DEF first
      <4> DEFINE x == nb(pages'[q])
                 y == Len(block)
                 z == before(pages', q)
      <4>2. /\ x \in Nat /\ y \in Nat /\ z \in Nat /\ n \in Nat /\ first \in Nat /\ z + x = n + y
            /\ first = x - y /\ j \in 1..y /\ k = n + j
        BY <1>2, <1>7, <3>1, <4>1
      <4> HIDE DEF x, y, z
      <4>3. first + j \in 1..x /\ z + (first + j) = k
        BY <4>2
      <4> QED
        BY <4>3 DEF x, z
    <3>4. q \in 1..Len(pages')
      BY <1>2
    <3> HIDE DEF q, j
    <3> QED
      BY <3>2, <3>3, <3>4
  <2>3. \A k \in 1..(n + Len(block)) : k <= n => k \in 1..n
    BY <1>2
  <2> QED
    BY <1>3, <1>6, <2>1, <2>2, <2>3 DEF PlacesRight, PlaceOf, RankOf
<1>9. CursorRight'
  <2>1. Len(given) \in 0..n /\ given = SubSeq(items, 1, Len(given)) /\ items \in Seq(Elements)
    BY <1>1, <1>2 DEF CursorRight, ListType
  <2>2. SubSeq(items', 1, Len(given)) = SubSeq(items, 1, Len(given))
    BY <1>2, <2>1, SubSeqOfConcat1
  <2>3. ASSUME listPage # 0
        PROVE  /\ listPage \in 1..Len(pages') /\ rank <= nb(pages'[listPage])
               /\ Len(given) = before(pages', listPage) + rank
    <3>1. /\ listPage \in 1..Len(pages) /\ rank <= nb(pages[listPage])
          /\ Len(given) = before(pages, listPage) + rank /\ rank \in Nat
      BY <1>1, <2>3 DEF CursorRight, ListType
    <3>2. listPage \in 1..Len(pages') /\ nb(pages[listPage]) \in Nat /\ nb(pages'[listPage]) \in Nat
      <4>1. listPage \in 1..Len(pages') /\ pages[listPage] \in Page /\ pages'[listPage] \in Page
        BY <1>1, <1>2, <3>1 DEF ListType
      <4> QED
        BY <4>1, Pages
    <3>3. before(pages', listPage) = before(pages, listPage) /\ nb(pages[listPage]) <= nb(pages'[listPage])
      BY <1>1, <3>1
    <3> QED
      BY <3>1, <3>2, <3>3
  <2> QED
    BY <1>2, <1>3, <2>1, <2>2, <2>3 DEF CursorRight
<1>10. ListType'
  BY <1>1, <1>3, <1>6 DEF ListType
<1>11. items' = haplo_list_vector(pages')
  BY <1>1
<1>12. added' <= nb(pages'[q])
  BY <1>1, <1>2
<1> QED
  BY <1>1, <1>8, <1>9, <1>10, <1>11, <1>12 DEF ListInv

\* haplo_list_append_n keeps the invariant: it is a block more.
LEMMA ListAppendN == ListInv /\ AppendN => ListInv'
<1> SUFFICES ASSUME ListInv, AppendN PROVE ListInv'
  OBVIOUS
<1>1. PICK n \in 1..MaxElements : \E block \in [1..n -> Elements] :
        /\ pages' = haplo_list_append_n(pages, block)
        /\ items' = items \o block
        /\ places' = Put(block, pages')
        /\ added' = n
        /\ UNCHANGED <<listPage, rank, given>>
  BY DEF AppendN
<1>2. PICK block \in [1..n -> Elements] :
        /\ pages' = haplo_list_append_n(pages, block)
        /\ items' = items \o block
        /\ places' = Put(block, pages')
        /\ added' = n
        /\ UNCHANGED <<listPage, rank, given>>
  BY <1>1
<1>3. n \in Nat \ {0} /\ block \in Seq(Elements) /\ Len(block) = n /\ block # <<>>
  OBVIOUS
<1>4. Grown(pages, pages', block)
  BY <1>2, <1>3, AppendGrows DEF ListInv, ListType
<1> QED
  BY <1>2, <1>3, <1>4, ListGrown

\* haplo_list_merge keeps the invariant: it is a block of one element more.
LEMMA ListMerge == ListInv /\ Merge => ListInv'
<1> SUFFICES ASSUME ListInv, Merge PROVE ListInv'
  OBVIOUS
<1>1. PICK e \in Elements :
        /\ pages' = haplo_list_merge(pages, haplo_list_append_content(<<list_page_new(1)>>, e))
        /\ items' = Append(items, e)
        /\ places' = Put(<<e>>, pages')
        /\ added' = 0
        /\ UNCHANGED <<listPage, rank, given>>
  BY DEF Merge
<1> DEFINE block == <<e>>
<1>2. block \in Seq(Elements) /\ Len(block) = 1 /\ block # <<>>
  OBVIOUS
<1>3. items' = items \o block
  <2>1. items \in Seq(Elements)
    BY DEF ListInv, ListType
  <2>2. Append(items, e) = items \o <<e>>
    BY <2>1, AppendIsConcat
  <2> QED
    BY <1>1, <2>2
<1>4. Grown(pages, pages', block)
  BY <1>1, MergeOne DEF ListInv, ListType, Usable
<1>5. added' \in Nat /\ added' <= Len(block)
  BY <1>1, <1>2
<1> HIDE DEF block
<1>6. places' = Put(block, pages')
  BY <1>1 DEF block
<1> QED
  BY <1>1, <1>2, <1>3, <1>4, <1>5, <1>6, ListGrown

\* haplo_list_remove_n keeps the invariant: the block just added is the end of the last page.
LEMMA ListRemoveN == ListInv /\ RemoveN => ListInv'
<1> SUFFICES ASSUME ListInv, RemoveN PROVE ListInv'
  OBVIOUS
<1> DEFINE n == Len(pages)
           last == pages[n]
           c == SubSeq(last.content, 1, Len(last.content) - added)
           front == haplo_list_vector(SubSeq(pages, 1, n - 1))
           m == Len(items) - added
<1>1. /\ ListType /\ items = haplo_list_vector(pages) /\ PlacesRight
      /\ Fitting(pages) /\ added <= nb(pages[n]) /\ n \in Nat \ {0} /\ last \in Page
  BY LastPage DEF ListInv, ListType
<1>2. /\ pages' = [pages EXCEPT ![n].content = c] /\ added \in Nat \ {0}
      /\ items' = SubSeq(items, 1, m) /\ places' = SubSeq(places, 1, m)
      /\ added' = 0 /\ listPage' = 1 /\ rank' = 0 /\ given' = <<>>
  BY <1>1 DEF RemoveN, haplo_list_remove_n, ListType
<1>3. last.content \in Seq(Elements) /\ nb(last) = Len(last.content) /\ nb(last) \in Nat /\ added <= nb(last)
      /\ last.size \in Nat /\ nb(last) <= last.size
  BY <1>1, Pages DEF Fitting
<1>4. /\ c \in Seq(Elements) /\ Len(c) = nb(last) - added
      /\ \A k \in 1..(nb(last) - added) : c[k] = last.content[k]
  <2> HIDE DEF last, n
  <2> DEFINE x == last.content
  <2>0. x \in Seq(Elements) /\ nb(last) = Len(x) /\ Len(x) \in Nat /\ added <= Len(x) /\ added \in Nat
    BY <1>2, <1>3
  <2> HIDE DEF x
  <2>6. Len(x) - added \in Nat /\ \A k \in 1..(Len(x) - added) : x[k] \in Elements
    BY <2>0
  <2>1. Len(last.content) - added \in Nat /\ \A k \in 1..(Len(last.content) - added) : last.content[k] \in Elements
    BY <2>6 DEF x
  <2> DEFINE r == Len(last.content) - added
  <2> HIDE DEF r
  <2>2. r \in Nat /\ r \in Int /\ 1 \in Int /\ \A k \in 1..r : last.content[k] \in Elements
    BY <2>1 DEF r
  <2>3. /\ SubSeq(last.content, 1, r) \in Seq(Elements) /\ Len(SubSeq(last.content, 1, r)) = IF 1 <= r THEN r - 1 + 1 ELSE 0
        /\ \A k \in 1..(r - 1 + 1) : SubSeq(last.content, 1, r)[k] = last.content[1 + k - 1]
    BY <2>2, SubSeqProperties
  <2>4. \A k \in 1..r : k \in 1..(r - 1 + 1) /\ 1 + k - 1 = k
    BY <2>2
  <2>5. r = nb(last) - added
    BY <1>3 DEF r
  <2> QED
    BY <2>2, <2>3, <2>4, <2>5 DEF r
<1> HIDE DEF c
<1>5. /\ pages' \in Seq(Page) /\ Len(pages') = n /\ pages' # <<>>
      /\ \A q \in 1..(n - 1) : pages'[q] = pages[q]
      /\ pages'[n].content = c /\ pages'[n].size = last.size /\ nb(pages'[n]) = Len(c)
      /\ \A q \in 1..n : before(pages', q) = before(pages, q)
      /\ front \in Seq(Elements) /\ Len(front) = before(pages, n)
      /\ items = front \o last.content
      /\ haplo_list_vector(pages') = front \o c
  <2> DEFINE new == [pages EXCEPT ![n].content = c]
  <2>1. pages \in Seq(Page) /\ pages # <<>>
    BY <1>1 DEF ListType
  <2>2. /\ new \in Seq(Page) /\ Len(new) = n /\ new # <<>>
        /\ \A q \in 1..(n - 1) : new[q] = pages[q]
        /\ new[n].content = c /\ new[n].size = last.size /\ nb(new[n]) = Len(c)
        /\ \A q \in 1..n : before(new, q) = before(pages, q)
        /\ front \in Seq(Elements) /\ Len(front) = before(pages, n)
        /\ haplo_list_vector(pages) = front \o last.content
        /\ haplo_list_vector(new) = front \o c
    BY <1>4, <2>1, LastChanged
  <2>3. pages' = new
    BY <1>2
  <2> HIDE DEF new, front, last, n
  <2> QED
    BY <1>1, <2>2, <2>3
<1> HIDE DEF front, last, n
<1>15. added' = 0 /\ listPage' = 1 /\ rank' = 0 /\ given' = <<>>
  BY <1>2
<1>6. /\ Len(items) = Len(front) + nb(last) /\ Len(front) \in Nat /\ m \in Nat /\ m = Len(front) + Len(c)
      /\ Len(items) \in Nat /\ Len(c) \in Nat
  <2>0. front \in Seq(Elements) /\ last.content \in Seq(Elements) /\ items = front \o last.content
    BY <1>3, <1>5
  <2>1. Len(front \o last.content) = Len(front) + Len(last.content)
    BY <2>0, ConcatProperties
  <2>2. Len(items) = Len(front) + nb(last) /\ Len(front) \in Nat
    BY <1>3, <2>0, <2>1
  <2>3. added \in Nat /\ added <= nb(last) /\ nb(last) \in Nat /\ Len(c) = nb(last) - added
    BY <1>2, <1>3, <1>4
  <2> DEFINE x == Len(items)
             y == Len(front)
             z == nb(last)
             w == Len(c)
  <2>4. x = y + z /\ y \in Nat /\ added \in Nat /\ added <= z /\ z \in Nat /\ w = z - added
    BY <2>2, <2>3
  <2> HIDE DEF x, y, z, w
  <2>5. x \in Nat /\ w \in Nat /\ x - added \in Nat /\ x - added = y + w
    BY <2>4
  <2> QED
    BY <2>4, <2>5 DEF x, y, z, w
<1>7. /\ items' \in Seq(Elements) /\ Len(items') = m /\ \A k \in 1..m : items'[k] = items[k]
      /\ places' \in Seq(Nat \X Nat) /\ Len(places') = m /\ \A k \in 1..m : places'[k] = places[k]
  <2> HIDE DEF m
  <2>1. /\ \A k \in 1..m : k \in 1..Len(items)
        /\ items \in Seq(Elements) /\ places \in Seq(Nat \X Nat) /\ Len(places) = Len(items)
    BY <1>1, <1>2, <1>6 DEF ListType, PlacesRight, m
  <2>2. 1 \in Int /\ m \in Int /\ \A k \in 1..m : items[k] \in Elements /\ places[k] \in Nat \X Nat
    BY <1>6, <2>1
  <2>3. /\ SubSeq(items, 1, m) \in Seq(Elements) /\ Len(SubSeq(items, 1, m)) = IF 1 <= m THEN m - 1 + 1 ELSE 0
        /\ \A k \in 1..(m - 1 + 1) : SubSeq(items, 1, m)[k] = items[1 + k - 1]
    BY <2>2, SubSeqProperties
  <2>4. /\ SubSeq(places, 1, m) \in Seq(Nat \X Nat) /\ Len(SubSeq(places, 1, m)) = IF 1 <= m THEN m - 1 + 1 ELSE 0
        /\ \A k \in 1..(m - 1 + 1) : SubSeq(places, 1, m)[k] = places[1 + k - 1]
    BY <2>2, SubSeqProperties
  <2>5. m = (IF 1 <= m THEN m - 1 + 1 ELSE 0) /\ \A k \in 1..m : k \in 1..(m - 1 + 1) /\ 1 + k - 1 = k
    BY <1>6
  <2> QED
    BY <1>2, <2>3, <2>4, <2>5
<1> HIDE DEF m
<1>8. items' = haplo_list_vector(pages')
  <2>1. /\ front \o c \in Seq(Elements) /\ Len(front \o c) = m
        /\ \A k \in 1..m : (front \o c)[k] = IF k <= Len(front) THEN front[k] ELSE c[k - Len(front)]
    <3>1. /\ front \o c \in Seq(Elements) /\ Len(front \o c) = Len(front) + Len(c)
          /\ \A k \in 1..(Len(front) + Len(c)) :
               (front \o c)[k] = IF k <= Len(front) THEN front[k] ELSE c[k - Len(front)]
      BY <1>4, <1>5, ConcatProperties
    <3> QED
      BY <1>6, <3>1
  <2>2. \A k \in 1..(Len(front) + Len(last.content)) :
          items[k] = IF k <= Len(front) THEN front[k] ELSE last.content[k - Len(front)]
    <3>1. \A k \in 1..(Len(front) + Len(last.content)) :
            (front \o last.content)[k] = IF k <= Len(front) THEN front[k] ELSE last.content[k - Len(front)]
      BY <1>3, <1>5, ConcatProperties
    <3> QED
      BY <1>5, <3>1
  <2>3. ASSUME NEW k \in 1..m PROVE items'[k] = (front \o c)[k]
    <3>1. k \in 1..(Len(front) + Len(last.content))
      BY <1>2, <1>3, <1>4, <1>6
    <3>2. CASE k <= Len(front)
      BY <1>7, <2>1, <2>2, <3>1, <3>2
    <3>3. CASE ~ (k <= Len(front))
      <4>1. k - Len(front) \in 1..(nb(last) - added)
        BY <1>4, <1>6, <3>3
      <4> QED
        BY <1>4, <1>7, <2>1, <2>2, <3>1, <3>3, <4>1
    <3> QED
      BY <3>2, <3>3
  <2>4. items' = front \o c
    BY <1>7, <2>1, <2>3, SeqEqual
  <2> QED
    BY <1>5, <2>4
<1>9. \A q \in 1..n : q = n \/ q \in 1..(n - 1)
  BY <1>1
<1>10. Fitting(pages')
  <2>1. nb(pages'[n]) <= pages'[n].size
    BY <1>2, <1>3, <1>4, <1>5
  <2>2. \A q \in 1..(n - 1) : nb(pages'[q]) <= pages'[q].size
    <3>1. \A q \in 1..(n - 1) : q \in 1..n
      BY <1>1
    <3> QED
      BY <1>1, <1>5, <3>1 DEF Fitting, n
  <2> QED
    BY <1>5, <1>9, <2>1, <2>2 DEF Fitting
<1>11. PlacesRight'
  <2>1. ASSUME NEW k \in 1..m
        PROVE  /\ places'[k][1] \in 1..Len(pages') /\ places'[k][2] \in 1..nb(pages'[places'[k][1]])
               /\ k = before(pages', places'[k][1]) + places'[k][2]
    <3> DEFINE o == places[k][1]
               r == places[k][2]
    <3>1. k \in 1..Len(items) /\ k \in Nat
      BY <1>2, <1>6 DEF m
    <3>2. o \in 1..n /\ r \in 1..nb(pages[o]) /\ k = before(pages, o) + r
      BY <1>1, <3>1 DEF PlacesRight, PlaceOf, RankOf, n
    <3> HIDE DEF o, r
    <3>3. r \in 1..nb(pages'[o])
      <4>1. CASE o = n
        <5>1. k = Len(front) + r /\ k <= Len(front) + Len(c) /\ r \in Nat /\ 1 <= r
          <6>1. r \in 1..nb(last)
            BY <3>2, <4>1 DEF last
          <6> QED
            BY <1>3, <1>5, <1>6, <3>2, <4>1, <6>1
        <5> QED
          BY <1>5, <1>6, <4>1, <5>1
      <4>2. CASE o \in 1..(n - 1)
        BY <1>5, <3>2, <4>2
      <4> QED
        BY <1>9, <3>2, <4>1, <4>2
    <3>4. places'[k][1] = o /\ places'[k][2] = r
      BY <1>7 DEF o, r
    <3> QED
      BY <1>5, <3>2, <3>3, <3>4
  <2> QED
    BY <1>7, <2>1 DEF PlacesRight, PlaceOf, RankOf
<1>12. CursorRight'
  <2>1. SubSeq(items', 1, 0) = <<>>
    BY SubSeqEmpty
  <2>2. before(pages', 1) = 0
    <3>1. 1 - 1 = 0 /\ SubSeq(pages', 1, 0) = <<>>
      BY SubSeqEmpty
    <3>2. before(pages', 1) = haplo_list_size(SubSeq(pages', 1, 0))
      BY <3>1 DEF before
    <3> QED
      BY <3>1, <3>2, SizeAppend
  <2>3. 1 \in 1..Len(pages') /\ nb(pages'[1]) \in Nat
    <3>1. 1 \in 1..Len(pages') /\ pages'[1] \in Page
      BY <1>1, <1>5
    <3> QED
      BY <3>1, Pages
  <2>4. Len(given') = 0 /\ Len(given') <= Len(items')
    BY <1>6, <1>7, <1>15
  <2> QED
    BY <1>15, <2>1, <2>2, <2>3, <2>4 DEF CursorRight
<1>13. ListType'
  BY <1>5, <1>7, <1>15 DEF ListType
<1>14. added' <= nb(pages'[Len(pages')])
  BY <1>5, <1>6, <1>15
<1> QED
  BY <1>8, <1>10, <1>11, <1>12, <1>13, <1>14 DEF ListInv

\* haplo_olist_start keeps the invariant.
LEMMA ListStart == ListInv /\ haplo_olist_start => ListInv'
<1> SUFFICES ASSUME ListInv, haplo_olist_start PROVE ListInv'
  OBVIOUS
<1>1. listPage' = 1 /\ rank' = 0 /\ given' = <<>> /\ added' = 0 /\ UNCHANGED <<pages, items, places>>
  BY DEF haplo_olist_start
<1>2. ListType /\ PlacesRight /\ Len(items) \in Nat /\ 1 \in 1..Len(pages) /\ pages[1] \in Page /\ pages[Len(pages)] \in Page
  BY DEF ListInv, ListType
<1>3. nb(pages[1]) \in Nat /\ nb(pages[Len(pages)]) \in Nat
  BY <1>2, Pages
<1>4. before(pages, 1) = 0
  <2>1. 1 - 1 = 0 /\ SubSeq(pages, 1, 0) = <<>>
    BY SubSeqEmpty
  <2>2. before(pages, 1) = haplo_list_size(SubSeq(pages, 1, 0))
    BY <2>1 DEF before
  <2> QED
    BY <2>1, <2>2, SizeAppend
<1>5. SubSeq(items, 1, 0) = <<>>
  BY SubSeqEmpty
<1>6. CursorRight'
  BY <1>1, <1>2, <1>3, <1>4, <1>5 DEF CursorRight
<1>7. PlacesRight'
  BY <1>1, <1>2 DEF PlacesRight, PlaceOf, RankOf
<1>8. ListType'
  BY <1>1, <1>2 DEF ListType
<1>9. items' = haplo_list_vector(pages') /\ Fitting(pages') /\ added' <= nb(pages'[Len(pages')])
  BY <1>1, <1>3 DEF ListInv, Fitting
<1> QED
  BY <1>6, <1>7, <1>8, <1>9 DEF ListInv

\* The next of the elements.
LEMMA GivenNext ==
  ASSUME NEW E, NEW s \in Seq(E), NEW g \in Seq(E), Len(g) < Len(s), g = SubSeq(s, 1, Len(g))
  PROVE  Append(g, s[Len(g) + 1]) = SubSeq(s, 1, Len(g) + 1)
<1>1. Len(g) + 1 \in 1..Len(s) /\ 1 \in 1..Len(s) /\ Len(g) + 1 \in 1..Len(s) /\ (Len(g) + 1) - 1 = Len(g)
      /\ Len(g) \in Nat
  OBVIOUS
<1>2. SubSeq(s, 1, Len(g) + 1) = SubSeq(s, 1, (Len(g) + 1) - 1) \o <<s[Len(g) + 1]>>
  BY <1>1, SubSeqRecursiveSecond
<1>3. s[Len(g) + 1] \in E
  BY <1>1
<1>4. Append(g, s[Len(g) + 1]) = g \o <<s[Len(g) + 1]>>
  BY <1>3, AppendIsConcat
<1> QED
  BY <1>1, <1>2, <1>4

\* haplo_olist_arg keeps the invariant: the next element is the one behind the cursor, on this
\* page or the next.
LEMMA ListArg == ListInv /\ haplo_olist_arg => ListInv'
<1> SUFFICES ASSUME ListInv, haplo_olist_arg PROVE ListInv'
  OBVIOUS
<1>1. /\ listPage \in DOMAIN pages /\ rank < nb(pages[listPage])
      /\ given' = Append(given, pages[listPage].content[rank + 1])
      /\ IF rank + 1 < nb(pages[listPage]) THEN listPage' = listPage /\ rank' = rank + 1
         ELSE listPage' = (IF listPage < Len(pages) THEN listPage + 1 ELSE 0) /\ rank' = 0
      /\ added' = 0 /\ UNCHANGED <<pages, items, places>>
  BY DEF haplo_olist_arg
<1>2. ListType /\ PlacesRight /\ CursorRight /\ items = haplo_list_vector(pages)
  BY DEF ListInv
<1>3. /\ listPage \in 1..Len(pages) /\ pages[listPage] \in Page /\ rank \in Nat /\ listPage # 0
      /\ pages[Len(pages)] \in Page /\ Len(pages) \in Nat /\ Len(items) \in Nat /\ items \in Seq(Elements)
      /\ Len(given) \in Nat /\ given \in Seq(Elements)
  BY <1>1, <1>2 DEF ListType
<1>4. nb(pages[listPage]) \in Nat /\ nb(pages[Len(pages)]) \in Nat
  BY <1>3, Pages
<1>5. /\ before(pages, listPage) \in Nat /\ before(pages, listPage) + nb(pages[listPage]) <= Len(items)
      /\ \A r \in 1..nb(pages[listPage]) :
           items[before(pages, listPage) + r] = pages[listPage].content[r]
  BY <1>2, <1>3, PagesHold, SizeIsLength DEF PageHolds, ListType
<1>6. Len(given) = before(pages, listPage) + rank /\ given = SubSeq(items, 1, Len(given))
  BY <1>2, <1>3 DEF CursorRight
<1>7. /\ Len(given) < Len(items)
      /\ pages[listPage].content[rank + 1] = items[Len(given) + 1]
  <2>1. rank + 1 \in 1..nb(pages[listPage]) /\ Len(given) + 1 = before(pages, listPage) + (rank + 1)
    BY <1>1, <1>3, <1>4, <1>5, <1>6
  <2>2. items[before(pages, listPage) + (rank + 1)] = pages[listPage].content[rank + 1]
    BY <1>5, <2>1
  <2> QED
    BY <1>1, <1>3, <1>4, <1>5, <1>6, <2>1, <2>2
<1>8. /\ given' \in Seq(Elements) /\ Len(given') = Len(given) + 1
      /\ given' = SubSeq(items, 1, Len(given'))
  <2>1. given' = Append(given, items[Len(given) + 1]) /\ items[Len(given) + 1] \in Elements
    BY <1>1, <1>3, <1>7
  <2>2. given' \in Seq(Elements) /\ Len(given') = Len(given) + 1
    BY <1>3, <2>1
  <2>3. given' = SubSeq(items, 1, Len(given) + 1)
    BY <1>3, <1>6, <1>7, <2>1, GivenNext
  <2> QED
    BY <2>2, <2>3
<1>9. ASSUME listPage' # 0
      PROVE  /\ listPage' \in 1..Len(pages) /\ rank' <= nb(pages[listPage'])
             /\ Len(given') = before(pages, listPage') + rank'
  <2> DEFINE x == nb(pages[listPage])
             z == before(pages, listPage)
  <2>3. /\ x \in Nat /\ z \in Nat /\ rank \in Nat /\ Len(given) = z + rank /\ Len(given') = Len(given) + 1
        /\ rank < x
    BY <1>1, <1>3, <1>4, <1>5, <1>6, <1>8
  <2>1. CASE rank + 1 < nb(pages[listPage])
    <3>1. listPage' = listPage /\ rank' = rank + 1
      BY <1>1, <2>1
    <3>2. rank + 1 <= x /\ Len(given') = z + (rank + 1)
      <4> HIDE DEF z
      <4> QED
        BY <2>1, <2>3
    <3> QED
      BY <1>3, <3>1, <3>2
  <2>2. CASE ~ (rank + 1 < nb(pages[listPage]))
    <3>1. listPage' = listPage + 1 /\ rank' = 0 /\ listPage + 1 \in 1..Len(pages) /\ listPage + 1 \in Nat
      BY <1>1, <1>3, <1>9, <2>2
    <3>2. nb(pages[listPage + 1]) \in Nat
      <4>1. pages[listPage + 1] \in Page
        BY <1>2, <3>1 DEF ListType
      <4> QED
        BY <4>1, Pages
    <3>3. before(pages, listPage + 1) = before(pages, listPage) + nb(pages[listPage])
      <4> DEFINE f == SubSeq(pages, 1, listPage)
      <4>1. f = SubSeq(pages, 1, listPage - 1) \o <<pages[listPage]>>
        <5>1. 1 \in 1..Len(pages) /\ listPage \in 1..Len(pages) /\ pages \in Seq(Page)
          BY <1>2, <1>3 DEF ListType
        <5> QED
          BY <5>1, SubSeqRecursiveSecond
      <4>2. SubSeq(pages, 1, listPage - 1) \in Seq(Page)
        <5>1. listPage - 1 \in Int /\ 1 \in Int /\ \A k \in 1..(listPage - 1) : pages[k] \in Page
          BY <1>2, <1>3 DEF ListType
        <5> QED
          BY <5>1, SubSeqProperties
      <4>3. f = Append(SubSeq(pages, 1, listPage - 1), pages[listPage])
        BY <1>3, <4>1, <4>2, AppendIsConcat
      <4>4. haplo_list_size(f) = before(pages, listPage) + nb(pages[listPage])
        BY <1>3, <4>2, <4>3, SizeAppend DEF before
      <4>5. (listPage + 1) - 1 = listPage
        BY <1>3
      <4> QED
        BY <4>4, <4>5 DEF before
    <3>4. z + x = Len(given') + 0
      <4>1. rank + 1 = x
        BY <2>2, <2>3
      <4> HIDE DEF z, x
      <4> QED
        BY <2>3, <4>1
    <3> QED
      BY <3>1, <3>2, <3>3, <3>4
  <2> QED
    BY <2>1, <2>2
<1>10. CursorRight'
  BY <1>1, <1>3, <1>7, <1>8, <1>9 DEF CursorRight
<1>11. PlacesRight'
  BY <1>1, <1>2 DEF PlacesRight, PlaceOf, RankOf
<1>12. ListType'
  BY <1>1, <1>2, <1>3, <1>8 DEF ListType
<1>13. items' = haplo_list_vector(pages') /\ Fitting(pages') /\ added' <= nb(pages'[Len(pages')])
  BY <1>1, <1>4 DEF ListInv, Fitting
<1> QED
  BY <1>10, <1>11, <1>12, <1>13 DEF ListInv

\* Every operation of list.c and olist.c keeps the invariant.
LEMMA ListStep == ListInv /\ (ListNext \/ UNCHANGED listVars) => ListInv'
<1> SUFFICES ASSUME ListInv, ListNext \/ UNCHANGED listVars PROVE ListInv'
  OBVIOUS
<1>1. CASE AppendN
  BY <1>1, ListAppendN
<1>2. CASE RemoveN
  BY <1>2, ListRemoveN
<1>3. CASE Merge
  BY <1>3, ListMerge
<1>4. CASE haplo_olist_start
  BY <1>4, ListStart
<1>5. CASE haplo_olist_arg
  BY <1>5, ListArg
<1>6. CASE UNCHANGED listVars
  BY <1>6 DEF listVars, ListInv, ListType, Fitting, PlacesRight, CursorRight, PlaceOf, RankOf
<1> QED
  BY <1>1, <1>2, <1>3, <1>4, <1>5, <1>6 DEF ListNext

\* The list is the sequence of what was added and not removed.
LEMMA ListSequence == ListInv => ListIsSequence
<1> SUFFICES ASSUME ListInv PROVE ListIsSequence
  OBVIOUS
<1>1. pages \in Seq(Page) /\ items = haplo_list_vector(pages) /\ items \in Seq(Elements) /\ Len(items) \in Nat
  BY DEF ListInv, ListType
<1>2. haplo_list_size(pages) = Len(items)
  BY <1>1, SizeIsLength
<1>3. ASSUME NEW k \in 0..Len(items)
      PROVE  haplo_list_get(pages, k) = IF k < Len(items) THEN <<items[k + 1]>> ELSE <<>>
  <2>1. k \in Nat
    BY <1>1
  <2> QED
    BY <1>1, <1>2, <2>1, GetRight
<1>4. ASSUME NEW e \in Elements
      PROVE  Found(pages, e) = IF e \in ToSet(items) THEN <<e>> ELSE <<>>
  BY <1>1, SearchRight
<1>5. \A e \in Elements :
        haplo_list_search(pages, LAMBDA x : x = e) = IF e \in ToSet(items) THEN <<e>> ELSE <<>>
  BY <1>4 DEF Found
<1> QED
  BY <1>1, <1>2, <1>3, <1>5 DEF ListIsSequence

\* The place of an element is its own for ever.
LEMMA ListPlaces == ListInv => PlacesStay
<1> SUFFICES ASSUME ListInv PROVE PlacesStay
  OBVIOUS
<1>1. /\ pages \in Seq(Page) /\ items = haplo_list_vector(pages) /\ DOMAIN items = 1..Len(items) /\ Len(items) \in Nat
      /\ Fitting(pages) /\ PlacesRight
  BY DEF ListInv, ListType
<1>2. ASSUME NEW k \in 1..Len(items)
      PROVE  /\ places[k][2] <= pages[places[k][1]].size
             /\ pages[places[k][1]].content[places[k][2]] = items[k]
             /\ \A l \in 1..Len(items) : places[l] = places[k] => l = k
  <2> DEFINE q == places[k][1]
             r == places[k][2]
  <2>1. q \in 1..Len(pages) /\ r \in 1..nb(pages[q]) /\ k = before(pages, q) + r
    BY <1>1 DEF PlacesRight, PlaceOf, RankOf
  <2>2. \A l \in 1..Len(items) : l = before(pages, places[l][1]) + places[l][2]
    BY <1>1 DEF PlacesRight, PlaceOf, RankOf
  <2>3. pages[q] \in Page
    BY <1>1, <2>1
  <2>4. nb(pages[q]) \in Nat /\ pages[q].size \in Nat /\ nb(pages[q]) <= pages[q].size
    BY <1>1, <2>1, <2>3, Pages DEF Fitting
  <2>5. pages[q].content[r] = items[k]
    BY <1>1, <2>1, PagesHold DEF PageHolds
  <2>6. \A l \in 1..Len(items) : places[l] = places[k] => l = k
    BY <2>1, <2>2
  <2> HIDE DEF q, r
  <2>7. r <= pages[q].size
    BY <2>1, <2>4
  <2> QED
    BY <2>5, <2>6, <2>7 DEF q, r
<1> QED
  BY <1>1, <1>2 DEF PlacesStay

\* A reader of the list is given its elements in order.
LEMMA ListGiven == ListInv => GivenInOrder
<1> SUFFICES ASSUME ListInv PROVE GivenInOrder
  OBVIOUS
<1>1. /\ given \in Seq(Elements) /\ Len(given) <= Len(items) /\ given = SubSeq(items, 1, Len(given))
  BY DEF ListInv, ListType, CursorRight
<1>2. SubSeq(given, 1, Len(given)) = given
  BY <1>1, SubSeqFull
<1> QED
  BY <1>1, <1>2 DEF GivenInOrder, IsPrefix

-----------------------------------------------------------------------------
(* The hash table: its chains *)

\* A step of the hash function.
HashStep == [p \in Int \X Int |-> 16 * p[1] + p[2]]

\* What the hash function makes of a key is a number.
LEMMA HashFolded ==
  ASSUME NEW s \in Seq(Int)
  PROVE  FoldLeft(LAMBDA val, c : 16 * val + c, 0, s) \in Int
<1> DEFINE D == 1..Len(s)
           Eq(it) == it = [u \in SUBSET D |-> IF u = {} THEN 0 ELSE 16 * it[u \ {Max(u)}] + s[Max(u)]]
           it == CHOOSE it : Eq(it)
<1>1. HashStep \in [Int \X Int -> Int] /\ 0 \in Int
  BY DEF HashStep
<1>2. ASSUME NEW f, NEW u \in SUBSET D, u # {}, f[u \ {Max(u)}] \in Int
      PROVE  HashStep[<<f[u \ {Max(u)}], s[Max(u)]>>] = 16 * f[u \ {Max(u)}] + s[Max(u)]
  BY <1>2, MaxRank DEF HashStep
<1>3. PICK f \in [SUBSET D -> Int] : Folding(f, Int, 0, s, HashStep)
  BY <1>1, FoldExists
<1>4. \A u \in SUBSET D : u \ {Max(u)} \in SUBSET D
  OBVIOUS
<1>5. Eq(f)
  BY <1>2, <1>3, <1>4 DEF Folding
<1>6. Eq(it)
  BY <1>5
<1>7. FoldLeft(LAMBDA val, c : 16 * val + c, 0, s) = it[D]
  <2>1. DOMAIN s = D
    OBVIOUS
  <2> QED
    BY <2>1 DEF FoldLeft, MapThenFoldSet
<1> HIDE DEF it
<1>8. Folding(it, Int, 0, s, HashStep)
  BY <1>2, <1>6 DEF Folding
<1>9. Folded(it[D], Int, 0, s, HashStep)
  BY <1>1, <1>8, FoldIs
<1>10. it[D] \in Int
  <2>1. Len(s) \in 0..Len(s)
    OBVIOUS
  <2> QED
    BY <1>9, <2>1 DEF Folded
<1> QED
  BY <1>7, <1>10

\* hash_function: the chain of a key is one of the table's.
LEMMA HashIn ==
  ASSUME NEW key \in Keys, NEW size \in Nat \ {0}
  PROVE  hash_function(key, size) \in 0..(size - 1)
<1>1. key \in Seq(Int)
  BY TableAssumption
<1> DEFINE w == FoldLeft(LAMBDA val, c : 16 * val + c, 0, key)
<1>2. w \in Int
  BY <1>1, HashFolded
<1>3. hash_function(key, size) = w % size
  BY DEF hash_function
<1> HIDE DEF w
<1> QED
  BY <1>2, <1>3

\* The entries of a table, and the chain an entry belongs to in a table of that size.
Entry == [key : Keys, value : Objects]

Home(es, e, size) == hash_function(es[e].key, size)

\* The chains hold the ranks rs, each once, in the chain of its key.
ChainsOf(es, rs, chains, size) ==
  /\ size \in Nat \ {0} /\ rs \in SUBSET (1..Len(es))
  /\ chains \in [0..(size - 1) -> Seq(rs)]
  /\ \A c \in 0..(size - 1) :
       /\ \A i, j \in 1..Len(chains[c]) : chains[c][i] = chains[c][j] => i = j
       /\ \A i \in 1..Len(chains[c]) : Home(es, chains[c][i], size) = c
  /\ \A e \in rs : \E i \in 1..Len(chains[Home(es, e, size)]) : chains[Home(es, e, size)][i] = e

\* The size of a table is the number of its chains.
LEMMA SizeOf ==
  ASSUME NEW size \in Nat, NEW chains, DOMAIN chains = 0..(size - 1)
  PROVE  HashSize(chains) = size
<1>1. Cardinality(0..(size - 1)) = IF 0 > size - 1 THEN 0 ELSE size - 1 - 0 + 1
  BY FS_Interval
<1> QED
  BY <1>1 DEF HashSize

\* What an entry is made of.
LEMMA Entries ==
  ASSUME NEW es \in Seq(Entry), NEW e \in 1..Len(es)
  PROVE  es[e] \in Entry /\ es[e].key \in Keys /\ es[e].value \in Objects
<1>1. es[e] \in Entry
  OBVIOUS
<1> QED
  BY <1>1 DEF Entry

\* An entry belongs to one of the chains.
LEMMA HomeIn ==
  ASSUME NEW es \in Seq(Entry), NEW e \in 1..Len(es), NEW size \in Nat \ {0}
  PROVE  Home(es, e, size) \in 0..(size - 1)
BY Entries, HashIn DEF Home

\* A new table (haplo_hash_new) has nothing in its chains.
LEMMA NoneChained ==
  ASSUME NEW es, NEW size \in Nat \ {0}
  PROVE  ChainsOf(es, {}, haplo_hash_new(size), size)
<1> DEFINE chains == haplo_hash_new(size)
<1>1. chains \in [0..(size - 1) -> Seq({})] /\ \A c \in 0..(size - 1) : chains[c] = <<>>
  BY DEF haplo_hash_new
<1> HIDE DEF chains
<1>2. \A c \in 0..(size - 1) : 1..Len(chains[c]) = {}
  BY <1>1
<1>3. ChainsOf(es, {}, chains, size)
  BY <1>1, <1>2 DEF ChainsOf
<1> QED
  BY <1>3 DEF chains

\* A rank is put in front.
LEMMA Prepended ==
  ASSUME NEW S, NEW s \in Seq(S), NEW x \in S
  PROVE  /\ <<x>> \o s \in Seq(S) /\ Len(<<x>> \o s) = Len(s) + 1 /\ Len(s) \in Nat
         /\ (<<x>> \o s)[1] = x
         /\ \A i \in 1..Len(s) : (<<x>> \o s)[i + 1] = s[i]
         /\ \A i \in 2..(Len(s) + 1) : (<<x>> \o s)[i] = s[i - 1]
<1>1. <<x>> \in Seq(S) /\ Len(<<x>>) = 1 /\ <<x>>[1] = x /\ Len(s) \in Nat
  OBVIOUS
<1>2. /\ <<x>> \o s \in Seq(S) /\ Len(<<x>> \o s) = 1 + Len(s)
      /\ \A i \in 1..(1 + Len(s)) : (<<x>> \o s)[i] = IF i <= 1 THEN <<x>>[i] ELSE s[i - 1]
  BY <1>1, ConcatProperties
<1>3. (<<x>> \o s)[1] = x
  BY <1>1, <1>2
<1>4. ASSUME NEW i \in 2..(Len(s) + 1) PROVE (<<x>> \o s)[i] = s[i - 1]
  <2>1. i \in 1..(1 + Len(s)) /\ ~ (i <= 1)
    BY <1>1
  <2> QED
    BY <1>2, <2>1
<1>5. ASSUME NEW i \in 1..Len(s) PROVE (<<x>> \o s)[i + 1] = s[i]
  <2>1. i + 1 \in 2..(Len(s) + 1) /\ (i + 1) - 1 = i
    BY <1>1
  <2> QED
    BY <1>4, <2>1
<1> QED
  BY <1>1, <1>2, <1>3, <1>4, <1>5

\* Chain: an entry that was in none goes to the front of its chain.
LEMMA ChainPuts ==
  ASSUME NEW es \in Seq(Entry), NEW rs, NEW chains, NEW size, ChainsOf(es, rs, chains, size),
         NEW e \in 1..Len(es), e \notin rs
  PROVE  ChainsOf(es, rs \cup {e}, Chain(es, chains, e), size)
<1> DEFINE h == Home(es, e, size)
           all == rs \cup {e}
           new == [chains EXCEPT ![h] = <<e>> \o chains[h]]
<1>1. /\ size \in Nat \ {0} /\ rs \in SUBSET (1..Len(es)) /\ chains \in [0..(size - 1) -> Seq(rs)]
      /\ h \in 0..(size - 1) /\ all \in SUBSET (1..Len(es))
  BY HomeIn DEF ChainsOf
<1>2. Chain(es, chains, e) = new
  <2>1. HashSize(chains) = size
    BY <1>1, SizeOf
  <2> QED
    BY <2>1 DEF Chain, Home
<1>3. \A c \in 0..(size - 1) : chains[c] \in Seq(all)
  <2>1. \A c \in 0..(size - 1) : chains[c] \in Seq(rs) /\ rs \subseteq all
    BY <1>1
  <2> QED
    BY <2>1, SeqMonotonic
<1> DEFINE t == <<e>> \o chains[h]
<1>4. /\ t \in Seq(all) /\ Len(t) = Len(chains[h]) + 1 /\ Len(chains[h]) \in Nat /\ t[1] = e
      /\ \A i \in 1..Len(chains[h]) : t[i + 1] = chains[h][i]
      /\ \A i \in 2..(Len(chains[h]) + 1) : t[i] = chains[h][i - 1]
  <2>1. e \in all /\ chains[h] \in Seq(all)
    BY <1>1, <1>3
  <2> QED
    BY <2>1, Prepended
<1> HIDE DEF t, h, all
<1>5. /\ new \in [0..(size - 1) -> Seq(all)] /\ new[h] = t
      /\ \A c \in 0..(size - 1) : c # h => new[c] = chains[c]
  BY <1>1, <1>3, <1>4 DEF t
<1> HIDE DEF new
<1>6. \A i \in 1..Len(t) : i = 1 \/ (i \in 2..(Len(chains[h]) + 1) /\ i - 1 \in 1..Len(chains[h]))
  BY <1>4
<1>7. \A i \in 1..Len(chains[h]) : chains[h][i] \in rs
  BY <1>1
<1>8. /\ \A i, j \in 1..Len(chains[h]) : chains[h][i] = chains[h][j] => i = j
      /\ \A i \in 1..Len(chains[h]) : Home(es, chains[h][i], size) = h
  BY <1>1 DEF ChainsOf
<1>9. /\ \A i, j \in 1..Len(t) : t[i] = t[j] => i = j
      /\ \A i \in 1..Len(t) : Home(es, t[i], size) = h
  <2>1. ASSUME NEW i \in 1..Len(t) PROVE Home(es, t[i], size) = h
    BY <1>4, <1>6, <1>8 DEF h
  <2>2. ASSUME NEW i \in 1..Len(t), NEW j \in 1..Len(t), t[i] = t[j] PROVE i = j
    <3>1. CASE i = 1 /\ j # 1
      BY <1>4, <1>6, <1>7, <2>2, <3>1
    <3>2. CASE j = 1 /\ i # 1
      BY <1>4, <1>6, <1>7, <2>2, <3>2
    <3>3. CASE i # 1 /\ j # 1
      <4>1. t[i] = chains[h][i - 1] /\ t[j] = chains[h][j - 1] /\ i - 1 \in 1..Len(chains[h]) /\ j - 1 \in 1..Len(chains[h])
        BY <1>4, <1>6, <3>3
      <4>2. i - 1 = j - 1
        BY <1>8, <2>2, <4>1
      <4> QED
        BY <4>2
    <3> QED
      BY <3>1, <3>2, <3>3
  <2> QED
    BY <2>1, <2>2
<1>10. ASSUME NEW c \in 0..(size - 1)
       PROVE  /\ \A i, j \in 1..Len(new[c]) : new[c][i] = new[c][j] => i = j
              /\ \A i \in 1..Len(new[c]) : Home(es, new[c][i], size) = c
  <2>1. CASE c = h
    BY <1>5, <1>9, <2>1
  <2>2. CASE c # h
    <3>1. /\ \A i, j \in 1..Len(chains[c]) : chains[c][i] = chains[c][j] => i = j
          /\ \A i \in 1..Len(chains[c]) : Home(es, chains[c][i], size) = c
      BY DEF ChainsOf
    <3> QED
      BY <1>5, <2>2, <3>1
  <2> QED
    BY <2>1, <2>2
<1>11. ASSUME NEW d \in all
       PROVE  \E i \in 1..Len(new[Home(es, d, size)]) : new[Home(es, d, size)][i] = d
  <2>1. CASE d = e
    <3>1. 1 \in 1..Len(t)
      BY <1>4
    <3> QED
      BY <1>4, <1>5, <2>1, <3>1 DEF h
  <2>2. CASE d \in rs
    <3>1. PICK i \in 1..Len(chains[Home(es, d, size)]) : chains[Home(es, d, size)][i] = d
      BY <2>2 DEF ChainsOf
    <3>2. Home(es, d, size) \in 0..(size - 1)
      BY <1>1, <2>2, HomeIn
    <3>3. CASE Home(es, d, size) = h
      <4>1. i \in 1..Len(chains[h]) /\ chains[h][i] = d
        BY <3>1, <3>3
      <4>2. i + 1 \in 1..Len(t) /\ t[i + 1] = d
        BY <1>4, <4>1
      <4> QED
        BY <1>5, <3>3, <4>2
    <3>4. CASE Home(es, d, size) # h
      BY <1>5, <3>1, <3>2, <3>4
    <3> QED
      BY <3>3, <3>4
  <2> QED
    BY <2>1, <2>2 DEF all
<1>12. ChainsOf(es, all, new, size)
  BY <1>1, <1>5, <1>10, <1>11 DEF ChainsOf
<1> QED
  BY <1>2, <1>12 DEF all

\* A step of the walk through the chains.
ChainedStep(chains, S, E) == [p \in S \X E |-> p[1] \o chains[p[2]]]

\* Chained walks through the chains, one after the other.
LEMMA ChainedFolded ==
  ASSUME NEW size \in Nat \ {0}, NEW rs, NEW chains \in [0..(size - 1) -> Seq(rs)]
  PROVE  Folded(Chained(chains), Seq(rs), <<>>, [c \in 1..size |-> c - 1],
                ChainedStep(chains, Seq(rs), 0..(size - 1)))
<1> DEFINE s == [c \in 1..size |-> c - 1]
           S == Seq(rs)
           E == 0..(size - 1)
           G == ChainedStep(chains, S, E)
           D == 1..Len(s)
           Eq(it) == it = [u \in SUBSET D |-> IF u = {} THEN <<>> ELSE it[u \ {Max(u)}] \o chains[s[Max(u)]]]
           it == CHOOSE it : Eq(it)
<1>0. s \in Seq(E) /\ Len(s) = size /\ HashSize(chains) = size
  BY SizeOf
<1> HIDE DEF s
<1>1. G \in [S \X E -> S] /\ <<>> \in S
  <2>1. \A a \in S, c \in E : a \o chains[c] \in S
    BY ConcatProperties
  <2> QED
    BY <2>1 DEF ChainedStep
<1> HIDE DEF S, E
<1>2. ASSUME NEW f, NEW u \in SUBSET D, u # {}, f[u \ {Max(u)}] \in S
      PROVE  G[<<f[u \ {Max(u)}], s[Max(u)]>>] = f[u \ {Max(u)}] \o chains[s[Max(u)]]
  <2>1. s[Max(u)] \in E
    BY <1>0, <1>2, MaxRank
  <2> QED
    BY <1>2, <2>1 DEF ChainedStep
<1> HIDE DEF G
<1>3. PICK f \in [SUBSET D -> S] : Folding(f, S, <<>>, s, G)
  BY <1>0, <1>1, FoldExists
<1>4. \A u \in SUBSET D : u \ {Max(u)} \in SUBSET D
  OBVIOUS
<1>5. Eq(f)
  BY <1>2, <1>3, <1>4 DEF Folding
<1>6. Eq(it)
  BY <1>5
<1>7. Chained(chains) = it[D]
  <2>1. DOMAIN s = D /\ Chained(chains) = FoldLeft(LAMBDA all, c : all \o chains[c], <<>>, s)
    BY <1>0 DEF Chained, s
  <2> QED
    BY <2>1 DEF FoldLeft, MapThenFoldSet
<1> HIDE DEF it
<1>8. Folding(it, S, <<>>, s, G)
  BY <1>2, <1>6 DEF Folding
<1>9. Folded(it[D], S, <<>>, s, G)
  BY <1>0, <1>1, <1>8, FoldIs
<1> QED
  BY <1>7, <1>9 DEF s, S, E, G

\* The sequence s holds the ranks rs, each once.
Listing(s, rs) ==
  /\ s \in Seq(rs)
  /\ \A i, j \in 1..Len(s) : s[i] = s[j] => i = j
  /\ \A e \in rs : \E i \in 1..Len(s) : s[i] = e

\* Two listings of sets that have nothing in common, one after the other.
LEMMA ListingBoth ==
  ASSUME NEW ps, NEW s, Listing(s, ps), NEW qs, NEW t, Listing(t, qs), ps \cap qs = {}
  PROVE  Listing(s \o t, ps \cup qs)
<1> DEFINE n == Len(s)
           m == Len(t)
           all == ps \cup qs
           v == s \o t
<1>1. s \in Seq(ps) /\ t \in Seq(qs) /\ n \in Nat /\ m \in Nat
  BY DEF Listing
<1>2. s \in Seq(all) /\ t \in Seq(all)
  BY <1>1, SeqMonotonic
<1>3. /\ v \in Seq(all) /\ Len(v) = n + m
      /\ \A i \in 1..(n + m) : v[i] = IF i <= n THEN s[i] ELSE t[i - n]
  BY <1>2, ConcatProperties
<1> HIDE DEF v, n, m, all
<1>4. \A i \in 1..(n + m) : \/ i \in 1..n /\ v[i] = s[i] /\ v[i] \in ps
                            \/ (i \notin 1..n) /\ i - n \in 1..m /\ v[i] = t[i - n] /\ v[i] \in qs
  <2> TAKE i \in 1..(n + m)
  <2>1. CASE i <= n
    <3>1. i \in 1..n
      BY <1>1, <2>1
    <3>2. s[i] \in ps
      BY <1>1, <3>1 DEF n
    <3> QED
      BY <1>3, <2>1, <3>1, <3>2
  <2>2. CASE ~ (i <= n)
    <3>1. i \notin 1..n /\ i - n \in 1..m
      BY <1>1, <2>2
    <3>2. t[i - n] \in qs
      BY <1>1, <3>1 DEF m
    <3> QED
      BY <1>3, <2>2, <3>1, <3>2
  <2> QED
    BY <2>1, <2>2
<1>5. ASSUME NEW i \in 1..Len(v), NEW j \in 1..Len(v), v[i] = v[j] PROVE i = j
  <2>1. i \in 1..(n + m) /\ j \in 1..(n + m)
    BY <1>3
  <2>2. CASE i \in 1..n
    <3>1. v[i] = s[i] /\ v[i] \in ps
      BY <1>4, <2>1, <2>2
    <3>2. j \in 1..n /\ v[j] = s[j]
      BY <1>4, <1>5, <2>1, <3>1
    <3> QED
      BY <1>5, <2>2, <3>1, <3>2 DEF Listing, n
  <2>3. CASE i \notin 1..n
    <3>1. v[i] = t[i - n] /\ v[i] \in qs /\ i - n \in 1..m
      BY <1>4, <2>1, <2>3
    <3>2. j - n \in 1..m /\ v[j] = t[j - n]
      BY <1>4, <1>5, <2>1, <3>1
    <3>3. i - n = j - n
      BY <1>5, <3>1, <3>2 DEF Listing, m
    <3> QED
      BY <1>1, <2>1, <3>3
  <2> QED
    BY <2>2, <2>3
<1>6. ASSUME NEW e \in all PROVE \E i \in 1..Len(v) : v[i] = e
  <2>1. CASE e \in ps
    <3>1. PICK i \in 1..n : s[i] = e
      BY <2>1 DEF Listing, n
    <3>2. i \in 1..(n + m) /\ i <= n
      BY <1>1
    <3> QED
      BY <1>3, <3>1, <3>2
  <2>2. CASE e \in qs
    <3>1. PICK i \in 1..m : t[i] = e
      BY <2>2 DEF Listing, m
    <3> DEFINE j == n + i
    <3>2. j \in 1..(n + m) /\ ~ (j <= n) /\ j - n = i
      BY <1>1
    <3> HIDE DEF j
    <3>3. j \in 1..Len(v) /\ v[j] = t[j - n]
      BY <1>3, <3>2
    <3> QED
      BY <3>1, <3>2, <3>3
  <2> QED
    BY <2>1, <2>2 DEF all
<1> QED
  BY <1>3, <1>5, <1>6 DEF Listing, v, all

\* hash_reorder reads every entry of the chains once.
LEMMA ChainedLists ==
  ASSUME NEW es \in Seq(Entry), NEW rs, NEW chains, NEW size, ChainsOf(es, rs, chains, size)
  PROVE  Listing(Chained(chains), rs)
<1> DEFINE s == [c \in 1..size |-> c - 1]
           S == Seq(rs)
           E == 0..(size - 1)
           G == ChainedStep(chains, S, E)
           Up(k) == {e \in rs : Home(es, e, size) < k}
<1>1. size \in Nat \ {0} /\ chains \in [E -> S] /\ rs \in SUBSET (1..Len(es))
  BY DEF ChainsOf
<1>2. s \in Seq(E) /\ Len(s) = size /\ \A k \in 1..size : s[k] = k - 1 /\ k - 1 \in E
  BY <1>1
<1>3. Folded(Chained(chains), S, <<>>, s, G)
  BY <1>1, ChainedFolded
<1> HIDE DEF s, S, G
<1>4. PICK h \in [0..size -> S] :
        /\ h[0] = <<>> /\ Chained(chains) = h[size]
        /\ \A k \in 1..size : h[k] = G[<<h[k - 1], s[k]>>]
  BY <1>2, <1>3 DEF Folded
<1>5. \A k \in 1..size : k - 1 \in 0..size /\ h[k] = h[k - 1] \o chains[k - 1]
  <2> TAKE k \in 1..size
  <2>1. k - 1 \in 0..size /\ h[k - 1] \in S /\ k - 1 \in E
    BY <1>1
  <2> QED
    BY <1>2, <1>4, <2>1 DEF G, ChainedStep
<1>6. \A e \in rs : Home(es, e, size) \in E
  BY <1>1, HomeIn
<1>7. ASSUME NEW k \in 1..size
      PROVE  Listing(chains[k - 1], {e \in rs : Home(es, e, size) = k - 1})
  <2> DEFINE c == k - 1
             qs == {e \in rs : Home(es, e, size) = c}
  <2>1. c \in E
    BY <1>2
  <2> HIDE DEF c
  <2>2. /\ \A i, j \in 1..Len(chains[c]) : chains[c][i] = chains[c][j] => i = j
        /\ \A i \in 1..Len(chains[c]) : Home(es, chains[c][i], size) = c
        /\ chains[c] \in Seq(rs)
    BY <2>1 DEF ChainsOf
  <2>3. \A i \in 1..Len(chains[c]) : chains[c][i] \in qs
    BY <2>2
  <2>4. chains[c] \in Seq(qs)
    <3> HIDE DEF qs
    <3>1. \A i \in 1..Len(chains[c]) : chains[c][i] \in qs
      BY <2>3
    <3>2. chains[c] = [i \in 1..Len(chains[c]) |-> chains[c][i]] /\ Len(chains[c]) \in Nat
      BY <2>2
    <3> QED
      BY <3>1, <3>2
  <2>5. \A e \in qs : \E i \in 1..Len(chains[c]) : chains[c][i] = e
    BY DEF ChainsOf
  <2> QED
    BY <2>2, <2>4, <2>5 DEF Listing, c
<1> DEFINE P == {k \in 0..size : Listing(h[k], Up(k))}
<1>8. P = 0..size
  <2>1. P \in SUBSET (0..size) /\ 0 \in P
    <3>1. Up(0) = {}
      BY <1>1, <1>6
    <3>2. Listing(<<>>, {})
      BY DEF Listing
    <3> HIDE DEF Up
    <3> QED
      BY <1>1, <1>4, <3>1, <3>2
  <2>2. ASSUME NEW k \in 1..size, k - 1 \in P PROVE k \in P
    <3> DEFINE qs == {e \in rs : Home(es, e, size) = k - 1}
    <3>1. Up(k) = Up(k - 1) \cup qs /\ Up(k - 1) \cap qs = {}
      BY <1>1, <1>6
    <3>2. Listing(h[k - 1], Up(k - 1)) /\ Listing(chains[k - 1], qs)
      BY <1>7, <2>2
    <3> HIDE DEF Up, qs
    <3>3. Listing(h[k - 1] \o chains[k - 1], Up(k - 1) \cup qs)
      BY <3>1, <3>2, ListingBoth
    <3>4. k \in 0..size
      BY <1>1
    <3>5. h[k] = h[k - 1] \o chains[k - 1]
      BY <1>5
    <3>6. Listing(h[k], Up(k))
      BY <3>1, <3>3, <3>5
    <3> QED
      BY <3>4, <3>6
  <2> HIDE DEF P
  <2> QED
    BY <1>1, <2>1, <2>2, UpTo
<1>9. Up(size) = rs
  BY <1>1, <1>6
<1>10. size \in 0..size
  BY <1>1
<1> HIDE DEF Up
<1> QED
  BY <1>4, <1>8, <1>9, <1>10

-----------------------------------------------------------------------------
\* Tables of that size, and a step of hash_reorder.
Chains(es, size) == [0..(size - 1) -> Seq(1..Len(es))]
ReorderStep(es, S, E) == [p \in S \X E |-> Chain(es, p[1], p[2])]

\* An entry put in a chain leaves the size.
LEMMA ChainIn ==
  ASSUME NEW es \in Seq(Entry), NEW size \in Nat \ {0}, NEW chains \in Chains(es, size), NEW e \in 1..Len(es)
  PROVE  Chain(es, chains, e) \in Chains(es, size)
<1>1. HashSize(chains) = size /\ chains \in [0..(size - 1) -> Seq(1..Len(es))]
  BY SizeOf DEF Chains
<1>2. Home(es, e, size) \in 0..(size - 1)
  BY HomeIn
<1>3. <<e>> \o chains[Home(es, e, size)] \in Seq(1..Len(es))
  BY <1>1, <1>2, Prepended
<1>4. Chain(es, chains, e) = [chains EXCEPT ![Home(es, e, size)] = <<e>> \o chains[Home(es, e, size)]]
  BY <1>1 DEF Chain, Home
<1> QED
  BY <1>1, <1>2, <1>3, <1>4 DEF Chains

\* A new table has its size.
LEMMA NewIn ==
  ASSUME NEW es, NEW size \in Nat \ {0}
  PROVE  haplo_hash_new(size) \in Chains(es, size)
BY DEF Chains, haplo_hash_new

\* hash_reorder puts the entries in a table of twice the size and one, in the order of the chains.
LEMMA ReorderFolded ==
  ASSUME NEW es \in Seq(Entry), NEW size \in Nat \ {0}, NEW chains, HashSize(chains) = size,
         Chained(chains) \in Seq(1..Len(es))
  PROVE  Folded(hash_reorder(es, chains), Chains(es, 2 * size + 1), haplo_hash_new(2 * size + 1),
                Chained(chains), ReorderStep(es, Chains(es, 2 * size + 1), 1..Len(es)))
<1> DEFINE n == 2 * size + 1
           s == Chained(chains)
           S == Chains(es, n)
           E == 1..Len(es)
           b == haplo_hash_new(n)
           G == ReorderStep(es, S, E)
           D == 1..Len(s)
           Eq(it) == it = [u \in SUBSET D |-> IF u = {} THEN b ELSE Chain(es, it[u \ {Max(u)}], s[Max(u)])]
           it == CHOOSE it : Eq(it)
<1>0. n \in Nat \ {0} /\ s \in Seq(E)
  OBVIOUS
<1>7. hash_reorder(es, chains) = it[D]
  <2>1. DOMAIN s = D
    BY <1>0
  <2>2. hash_reorder(es, chains) = FoldLeft(LAMBDA new, e : Chain(es, new, e), b, s)
    BY DEF hash_reorder
  <2> HIDE DEF b, s
  <2> QED
    BY <2>1, <2>2 DEF FoldLeft, MapThenFoldSet
<1> HIDE DEF n, s
<1>1. G \in [S \X E -> S] /\ b \in S
  <2>1. \A a \in S, e \in E : Chain(es, a, e) \in S
    BY <1>0, ChainIn
  <2>2. b \in S
    BY <1>0, NewIn
  <2> HIDE DEF S, b
  <2> QED
    BY <2>1, <2>2 DEF ReorderStep
<1> HIDE DEF S, E, b
<1>2. ASSUME NEW f, NEW u \in SUBSET D, u # {}, f[u \ {Max(u)}] \in S
      PROVE  G[<<f[u \ {Max(u)}], s[Max(u)]>>] = Chain(es, f[u \ {Max(u)}], s[Max(u)])
  <2>1. s[Max(u)] \in E
    BY <1>0, <1>2, MaxRank
  <2> QED
    BY <1>2, <2>1 DEF ReorderStep
<1> HIDE DEF G
<1>3. PICK f \in [SUBSET D -> S] : Folding(f, S, b, s, G)
  BY <1>0, <1>1, FoldExists
<1>4. \A u \in SUBSET D : u \ {Max(u)} \in SUBSET D
  OBVIOUS
<1>5. Eq(f)
  BY <1>2, <1>3, <1>4 DEF Folding
<1>6. Eq(it)
  BY <1>5
<1> HIDE DEF it
<1>8. Folding(it, S, b, s, G)
  BY <1>2, <1>6 DEF Folding
<1>9. Folded(it[D], S, b, s, G)
  BY <1>0, <1>1, <1>8, FoldIs
<1> QED
  BY <1>7, <1>9 DEF s, S, E, G, b, n

\* hash_reorder loses no entry and puts none twice, each in the chain of its key by the new size.
LEMMA Reordered ==
  ASSUME NEW es \in Seq(Entry), NEW rs, NEW chains, NEW size, ChainsOf(es, rs, chains, size)
  PROVE  ChainsOf(es, rs, hash_reorder(es, chains), 2 * size + 1)
<1> DEFINE n == 2 * size + 1
           v == Chained(chains)
           S == Chains(es, n)
           b == haplo_hash_new(n)
           G == ReorderStep(es, S, 1..Len(es))
           Up(k) == {v[i] : i \in 1..k}
<1>1. size \in Nat \ {0} /\ n \in Nat \ {0} /\ rs \in SUBSET (1..Len(es)) /\ HashSize(chains) = size
  <2>1. size \in Nat \ {0} /\ DOMAIN chains = 0..(size - 1) /\ rs \in SUBSET (1..Len(es))
    BY DEF ChainsOf
  <2> QED
    BY <2>1, SizeOf
<1>2. Listing(v, rs)
  BY ChainedLists
<1>3. v \in Seq(1..Len(es)) /\ v \in Seq(rs) /\ Len(v) \in Nat
  <2> HIDE DEF v
  <2>1. v \in Seq(rs)
    BY <1>2 DEF Listing
  <2>2. v \in Seq(1..Len(es))
    BY <1>1, <2>1, SeqMonotonic
  <2> QED
    BY <2>1, <2>2
<1>4. Folded(hash_reorder(es, chains), S, b, v, G)
  BY <1>1, <1>3, ReorderFolded
<1> HIDE DEF v, S, b, G, n
<1>5. PICK h \in [0..Len(v) -> S] :
        /\ h[0] = b /\ hash_reorder(es, chains) = h[Len(v)]
        /\ \A k \in 1..Len(v) : h[k] = G[<<h[k - 1], v[k]>>]
  BY <1>4 DEF Folded
<1> DEFINE l == Len(v)
           P == {k \in 0..l : ChainsOf(es, Up(k), h[k], n)}
<1>51. l \in Nat /\ \A k \in 1..l : v[k] \in 1..Len(es)
  BY <1>3
<1>52. /\ h[0] = b /\ hash_reorder(es, chains) = h[l] /\ \A k \in 0..l : h[k] \in S
       /\ \A k \in 1..l : h[k] = G[<<h[k - 1], v[k]>>]
  BY <1>5
<1> HIDE DEF l
<1>6. P = 0..l
  <2>1. P \in SUBSET (0..l) /\ 0 \in P
    <3>0. 0 \in 0..l /\ P \in SUBSET (0..l)
      BY <1>51
    <3>1. Up(0) = {}
      OBVIOUS
    <3>2. ChainsOf(es, {}, b, n)
      BY <1>1, NoneChained DEF b
    <3> HIDE DEF Up
    <3> QED
      BY <1>52, <3>0, <3>1, <3>2
  <2>2. ASSUME NEW k \in 1..l, k - 1 \in P PROVE k \in P
    <3>0. k - 1 \in 0..l /\ k \in 0..l
      BY <1>51
    <3>1. k - 1 \in 0..l /\ k \in 0..l /\ v[k] \in 1..Len(es) /\ h[k - 1] \in S
      BY <1>51, <1>52, <3>0
    <3>2. v[k] \notin Up(k - 1)
      <4>1. \A i \in 1..(k - 1) : i \in 1..l /\ i # k
        BY <1>51
      <4>2. \A i \in 1..l : v[i] = v[k] => i = k
        BY <1>2 DEF Listing, l
      <4> QED
        BY <4>1, <4>2
    <3>3. Up(k) = Up(k - 1) \cup {v[k]}
      <4>1. \A i \in 1..k : i \in 1..(k - 1) \/ i = k
        BY <1>51
      <4>2. \A i \in 1..(k - 1) : i \in 1..k
        BY <1>51
      <4>3. k \in 1..k
        BY <1>51
      <4> QED
        BY <4>1, <4>2, <4>3
    <3>4. ChainsOf(es, Up(k - 1), h[k - 1], n)
      BY <2>2
    <3> HIDE DEF Up
    <3>5. ChainsOf(es, Up(k), Chain(es, h[k - 1], v[k]), n)
      BY <3>1, <3>2, <3>3, <3>4, ChainPuts
    <3>6. h[k] = Chain(es, h[k - 1], v[k])
      BY <1>52, <3>1 DEF G, ReorderStep
    <3> QED
      BY <3>1, <3>5, <3>6
  <2> HIDE DEF P
  <2> QED
    BY <1>51, <2>1, <2>2, UpTo
<1>7. Up(l) = rs
  <2>1. \A i \in 1..l : v[i] \in rs
    BY <1>3 DEF l
  <2>2. \A e \in rs : \E i \in 1..l : v[i] = e
    BY <1>2 DEF Listing, l
  <2> QED
    BY <2>1, <2>2
<1>8. l \in 0..l
  BY <1>51
<1> HIDE DEF Up
<1> QED
  BY <1>52, <1>6, <1>7, <1>8 DEF n

\* The entries may change if those in the chains keep their keys.
LEMMA SameKeys ==
  ASSUME NEW es, NEW fs, NEW rs, NEW chains, NEW size, ChainsOf(es, rs, chains, size),
         rs \subseteq 1..Len(fs), \A e \in rs : fs[e].key = es[e].key
  PROVE  ChainsOf(fs, rs, chains, size)
<1>1. \A e \in rs : Home(fs, e, size) = Home(es, e, size)
  BY DEF Home
<1>2. chains \in [0..(size - 1) -> Seq(rs)] /\ size \in Nat \ {0}
  BY DEF ChainsOf
<1>3. \A c \in 0..(size - 1) : \A i \in 1..Len(chains[c]) : chains[c][i] \in rs
  BY <1>2
<1> QED
  BY <1>1, <1>2, <1>3 DEF ChainsOf

-----------------------------------------------------------------------------
\* hash_get finds the entry of a key in its chain: none has the key when it gives 0.
LEMMA HashGet ==
  ASSUME NEW es \in Seq(Entry), NEW chains, NEW size, ChainsOf(es, 1..Len(es), chains, size), NEW key \in Keys
  PROVE  \/ hash_get(es, chains, key) = 0 /\ \A d \in 1..Len(es) : es[d].key # key
         \/ hash_get(es, chains, key) \in 1..Len(es) /\ es[hash_get(es, chains, key)].key = key
<1> DEFINE c == hash_function(key, size)
           chain == chains[c]
           I == {i \in 1..Len(chain) : es[chain[i]].key = key}
<1>1. size \in Nat \ {0} /\ DOMAIN chains = 0..(size - 1) /\ chains \in [0..(size - 1) -> Seq(1..Len(es))]
  BY DEF ChainsOf
<1>2. HashSize(chains) = size /\ c \in 0..(size - 1)
  BY <1>1, SizeOf, HashIn
<1>3. hash_get(es, chains, key) =
        LET found == IF I # {} THEN Min(I) ELSE 0 IN IF found = 0 THEN 0 ELSE chain[found]
  BY <1>2 DEF hash_get, SelectInSeq
<1>4. chain \in Seq(1..Len(es)) /\ Len(chain) \in Nat
  <2>1. chain \in Seq(1..Len(es))
    BY <1>1, <1>2
  <2> HIDE DEF chain
  <2> QED
    BY <2>1
<1>5. ASSUME NEW d \in 1..Len(es), es[d].key = key PROVE I # {}
  <2>1. Home(es, d, size) = c
    BY <1>5 DEF Home
  <2>2. \E i \in 1..Len(chain) : chain[i] = d
    BY <2>1 DEF ChainsOf
  <2> QED
    BY <1>5, <2>2
<1> HIDE DEF chain
<1>6. I \in SUBSET Nat /\ \A i \in I : i # 0 /\ chain[i] \in 1..Len(es) /\ es[chain[i]].key = key
  BY <1>4
<1> HIDE DEF I
<1>7. CASE I = {}
  BY <1>3, <1>5, <1>7
<1>8. CASE I # {}
  <2>1. Min(I) \in I
    BY <1>6, <1>8, MinIn
  <2> QED
    BY <1>3, <1>6, <1>8, <2>1
<1> QED
  BY <1>7, <1>8

\* Entries of distinct keys, all in the chains.
TableOK(es, chains) ==
  /\ es \in Seq(Entry)
  /\ \A d, e \in 1..Len(es) : es[d].key = es[e].key => d = e
  /\ \E size \in Nat \ {0} : ChainsOf(es, 1..Len(es), chains, size)

\* A list of entries with one more.
LEMMA EntryAppended ==
  ASSUME NEW es \in Seq(Entry), NEW r \in Entry
  PROVE  /\ Append(es, r) \in Seq(Entry) /\ Len(Append(es, r)) = Len(es) + 1 /\ Len(es) \in Nat
         /\ \A e \in 1..Len(es) : Append(es, r)[e] = es[e]
         /\ Append(es, r)[Len(es) + 1] = r
         /\ 1..(Len(es) + 1) = 1..Len(es) \cup {Len(es) + 1} /\ Len(es) + 1 \notin 1..Len(es)
         /\ Len(es) + 1 \in 1..(Len(es) + 1)
OBVIOUS

\* haplo_hash_set of a key that is not there: an entry more, in a table that may have grown.
LEMMA SetNew ==
  ASSUME NEW es, NEW chains, TableOK(es, chains), NEW key \in Keys, NEW value \in Objects,
         hash_get(es, chains, key) = 0
  PROVE  LET table == haplo_hash_set([es |-> es, chains |-> chains], key, value)
         IN  table.es = Append(es, [key |-> key, value |-> value]) /\ TableOK(table.es, table.chains)
<1> DEFINE r == [key |-> key, value |-> value]
           fs == Append(es, r)
           n == Len(es)
           new == Chain(fs, chains, Len(fs))
           t == haplo_hash_set([es |-> es, chains |-> chains], key, value)
<1>1. es \in Seq(Entry) /\ \A d, e \in 1..n : es[d].key = es[e].key => d = e
  BY DEF TableOK
<1>2. PICK size \in Nat \ {0} : ChainsOf(es, 1..n, chains, size)
  BY DEF TableOK
<1>3. HashSize(chains) = size
  BY <1>2, SizeOf DEF ChainsOf
<1>4. r \in Entry /\ r.key = key /\ r.value = value
  BY DEF Entry
<1>5. t.es = fs /\ (t.chains = new \/ t.chains = hash_reorder(fs, new))
  BY DEF haplo_hash_set
<1>6. \A d \in 1..n : es[d].key # key
  BY <1>1, <1>2, HashGet
<1> HIDE DEF r, t
<1>7. /\ fs \in Seq(Entry) /\ Len(fs) = n + 1 /\ n \in Nat /\ \A e \in 1..n : fs[e] = es[e]
      /\ fs[n + 1] = r
      /\ 1..(n + 1) = 1..n \cup {n + 1} /\ n + 1 \notin 1..n /\ n + 1 \in 1..(n + 1)
  BY <1>1, <1>4, EntryAppended
<1> HIDE DEF fs, n
<1>8. ChainsOf(fs, 1..n, chains, size)
  <2>1. 1..n \subseteq 1..Len(fs) /\ \A e \in 1..n : fs[e].key = es[e].key
    BY <1>7
  <2> QED
    BY <1>2, <2>1, SameKeys
<1>9. ChainsOf(fs, 1..Len(fs), new, size)
  <2>1. ChainsOf(fs, 1..n \cup {n + 1}, Chain(fs, chains, n + 1), size)
    BY <1>7, <1>8, ChainPuts
  <2> QED
    BY <1>7, <2>1
<1> HIDE DEF new
<1>10. ChainsOf(fs, 1..Len(fs), hash_reorder(fs, new), 2 * size + 1) /\ 2 * size + 1 \in Nat \ {0}
  BY <1>7, <1>9, Reordered
<1>11. \A d, e \in 1..Len(fs) : fs[d].key = fs[e].key => d = e
  <2>1. \A d \in 1..Len(fs) : d \in 1..n \/ d = n + 1
    BY <1>7
  <2> QED
    BY <1>1, <1>4, <1>6, <1>7, <2>1
<1>12. TableOK(fs, new) /\ TableOK(fs, hash_reorder(fs, new))
  BY <1>2, <1>7, <1>9, <1>10, <1>11 DEF TableOK
<1> QED
  BY <1>5, <1>12 DEF t, fs, r

\* haplo_hash_set of a key that is there: its value changes, and nothing else.
LEMMA SetAgain ==
  ASSUME NEW es, NEW chains, TableOK(es, chains), NEW key \in Keys, NEW value \in Objects,
         hash_get(es, chains, key) # 0
  PROVE  LET table == haplo_hash_set([es |-> es, chains |-> chains], key, value)
             found == hash_get(es, chains, key)
         IN  /\ found \in 1..Len(es) /\ es[found].key = key
             /\ table.chains = chains
             /\ table.es \in Seq(Entry) /\ Len(table.es) = Len(es)
             /\ \A e \in 1..Len(es) : /\ table.es[e].key = es[e].key
                                      /\ table.es[e].value = IF e = found THEN value ELSE es[e].value
             /\ TableOK(table.es, table.chains)
<1> DEFINE found == hash_get(es, chains, key)
           fs == [es EXCEPT ![found].value = value]
           t == haplo_hash_set([es |-> es, chains |-> chains], key, value)
<1>1. es \in Seq(Entry) /\ Len(es) \in Nat /\ \A d, e \in 1..Len(es) : es[d].key = es[e].key => d = e
  BY DEF TableOK
<1>2. PICK size \in Nat \ {0} : ChainsOf(es, 1..Len(es), chains, size)
  BY DEF TableOK
<1>3. found \in 1..Len(es) /\ es[found].key = key
  BY <1>1, <1>2, HashGet
<1>4. t.es = fs /\ t.chains = chains
  BY DEF haplo_hash_set
<1> HIDE DEF found, t
<1>5. \A e \in 1..Len(es) : es[e] \in Entry
  BY <1>1
<1>6. [es[found] EXCEPT !.value = value] \in Entry /\ [es[found] EXCEPT !.value = value].key = es[found].key
      /\ [es[found] EXCEPT !.value = value].value = value
  BY <1>3, <1>5 DEF Entry
<1>7. /\ fs \in Seq(Entry) /\ Len(fs) = Len(es)
      /\ \A e \in 1..Len(es) : fs[e] = IF e = found THEN [es[found] EXCEPT !.value = value] ELSE es[e]
  BY <1>1, <1>3, <1>6
<1> HIDE DEF fs
<1>8. \A e \in 1..Len(es) : fs[e].key = es[e].key /\ fs[e].value = IF e = found THEN value ELSE es[e].value
  BY <1>6, <1>7
<1>9. ChainsOf(fs, 1..Len(fs), chains, size)
  BY <1>2, <1>7, <1>8, SameKeys
<1>10. TableOK(fs, chains)
  BY <1>1, <1>7, <1>8, <1>9 DEF TableOK
<1> QED
  BY <1>3, <1>4, <1>7, <1>8, <1>10 DEF found, t

-----------------------------------------------------------------------------
\* The tables that are right.
Whole == {t \in [es : Seq(Entry), chains : UNION {[0..(n - 1) -> Seq(Nat)] : n \in Nat}] :
            TableOK(t.es, t.chains)}

\* A step of haplo_hash_copy.
CopyStep == [p \in Whole \X Entry |-> haplo_hash_set(p[1], p[2].key, p[2].value)]

\* A table that is right is one of them.
LEMMA WholeOK ==
  ASSUME NEW es, NEW chains, TableOK(es, chains)
  PROVE  [es |-> es, chains |-> chains] \in Whole
<1>1. PICK size \in Nat \ {0} : ChainsOf(es, 1..Len(es), chains, size)
  BY DEF TableOK
<1>2. chains \in [0..(size - 1) -> Seq(1..Len(es))]
  BY <1>1 DEF ChainsOf
<1>3. chains \in [0..(size - 1) -> Seq(Nat)]
  <2>1. 1..Len(es) \subseteq Nat
    OBVIOUS
  <2>2. \A s \in Seq(1..Len(es)) : s \in Seq(Nat)
    BY <2>1, SeqMonotonic
  <2> QED
    BY <1>2, <2>2
<1>4. es \in Seq(Entry)
  BY DEF TableOK
<1>5. chains \in UNION {[0..(n - 1) -> Seq(Nat)] : n \in Nat}
  BY <1>1, <1>3
<1> QED
  BY <1>4, <1>5 DEF Whole

\* haplo_hash_set leaves a table that is right.
LEMMA SetWhole ==
  ASSUME NEW t \in Whole, NEW key \in Keys, NEW value \in Objects
  PROVE  haplo_hash_set(t, key, value) \in Whole
<1> DEFINE w == haplo_hash_set(t, key, value)
<1>1. t = [es |-> t.es, chains |-> t.chains] /\ TableOK(t.es, t.chains)
  BY DEF Whole
<1>2. w = [es |-> w.es, chains |-> w.chains]
  <2>1. CASE hash_get(t.es, t.chains, key) # 0
    BY <1>1, <2>1 DEF haplo_hash_set
  <2>2. CASE hash_get(t.es, t.chains, key) = 0
    BY <2>2 DEF haplo_hash_set
  <2> QED
    BY <2>1, <2>2
<1>3. TableOK(w.es, w.chains)
  <2>1. CASE hash_get(t.es, t.chains, key) # 0
    BY <1>1, <2>1, SetAgain
  <2>2. CASE hash_get(t.es, t.chains, key) = 0
    BY <1>1, <2>2, SetNew
  <2> QED
    BY <2>1, <2>2
<1> HIDE DEF w
<1>4. w \in Whole
  BY <1>2, <1>3, WholeOK
<1> QED
  BY <1>4 DEF w

\* haplo_hash_new gives a table that is right.
LEMMA NewWhole ==
  ASSUME NEW size \in Nat \ {0}
  PROVE  TableOK(<<>>, haplo_hash_new(size))
<1>1. <<>> \in Seq(Entry)
  OBVIOUS
<1>2. 1..Len(<<>>) = {}
  OBVIOUS
<1>3. ChainsOf(<<>>, {}, haplo_hash_new(size), size)
  BY NoneChained
<1> QED
  BY <1>1, <1>2, <1>3 DEF TableOK

\* haplo_hash_copy sets the keys of the table one after the other in a new one.
LEMMA CopyFolded ==
  ASSUME NEW s \in Seq(Entry), s # <<>>
  PROVE  Folded(haplo_hash_copy(s), Whole, [es |-> <<>>, chains |-> haplo_hash_new(Len(s))], s, CopyStep)
<1> DEFINE S == Whole
           E == Entry
           b == [es |-> <<>>, chains |-> haplo_hash_new(Len(s))]
           G == CopyStep
           D == 1..Len(s)
           Eq(it) == it = [u \in SUBSET D |->
                             IF u = {} THEN b
                             ELSE haplo_hash_set(it[u \ {Max(u)}], s[Max(u)].key, s[Max(u)].value)]
           it == CHOOSE it : Eq(it)
<1>0. Len(s) \in Nat \ {0} /\ s \in Seq(E)
  OBVIOUS
<1>7. haplo_hash_copy(s) = it[D]
  <2>1. DOMAIN s = D
    BY <1>0
  <2>2. haplo_hash_copy(s) = FoldLeft(LAMBDA table, e : haplo_hash_set(table, e.key, e.value), b, s)
    BY DEF haplo_hash_copy
  <2> HIDE DEF b
  <2> QED
    BY <2>1, <2>2 DEF FoldLeft, MapThenFoldSet
<1>1. G \in [S \X E -> S] /\ b \in S
  <2>1. \A a \in S, e \in E : haplo_hash_set(a, e.key, e.value) \in S
    BY SetWhole DEF Entry
  <2>2. b \in S
    BY <1>0, NewWhole, WholeOK
  <2> HIDE DEF S, b, E
  <2> QED
    BY <2>1, <2>2 DEF CopyStep, S, E
<1> HIDE DEF b
<1>2. ASSUME NEW f, NEW u \in SUBSET D, u # {}, f[u \ {Max(u)}] \in S
      PROVE  G[<<f[u \ {Max(u)}], s[Max(u)]>>] =
               haplo_hash_set(f[u \ {Max(u)}], s[Max(u)].key, s[Max(u)].value)
  <2>1. s[Max(u)] \in E
    BY <1>0, <1>2, MaxRank
  <2> QED
    BY <1>2, <2>1 DEF CopyStep
<1> HIDE DEF G, S, E
<1>3. PICK f \in [SUBSET D -> S] : Folding(f, S, b, s, G)
  BY <1>0, <1>1, FoldExists
<1>4. \A u \in SUBSET D : u \ {Max(u)} \in SUBSET D
  OBVIOUS
<1>5. Eq(f)
  BY <1>2, <1>3, <1>4 DEF Folding
<1>6. Eq(it)
  BY <1>5
<1> HIDE DEF it
<1>8. Folding(it, S, b, s, G)
  BY <1>2, <1>6 DEF Folding
<1>9. Folded(it[D], S, b, s, G)
  BY <1>0, <1>1, <1>8, FoldIs
<1> QED
  BY <1>7, <1>9 DEF S, E, G, b

\* The copy (haplo_hash_copy) has the entries of the table in the same order, in chains of its own.
LEMMA Copied ==
  ASSUME NEW es, NEW chains, TableOK(es, chains), es # <<>>
  PROVE  haplo_hash_copy(es).es = es /\ TableOK(es, haplo_hash_copy(es).chains)
<1> DEFINE n == Len(es)
           b == [es |-> <<>>, chains |-> haplo_hash_new(n)]
           copy == haplo_hash_copy(es)
<1>1. es \in Seq(Entry) /\ n \in Nat \ {0} /\ \A d, e \in 1..n : es[d].key = es[e].key => d = e
  BY DEF TableOK
<1>2. Folded(copy, Whole, b, es, CopyStep)
  BY <1>1, CopyFolded
<1>3. b.es = <<>>
  OBVIOUS
<1> HIDE DEF n, b, copy
<1>4. PICK h \in [0..n -> Whole] :
        h[0] = b /\ copy = h[n] /\ \A k \in 1..n : h[k] = CopyStep[<<h[k - 1], es[k]>>]
  BY <1>2 DEF Folded, n
<1>5. \A k \in 1..n : es[k] \in Entry /\ k \in Nat /\ k - 1 \in 0..n /\ k \in 0..n
  BY <1>1 DEF n
<1> DEFINE P == {k \in 0..n : h[k].es = SubSeq(es, 1, k)}
<1>6. P = 0..n
  <2>1. P \in SUBSET (0..n) /\ 0 \in P
    <3>1. SubSeq(es, 1, 0) = <<>> /\ 0 \in 0..n
      BY <1>1, SubSeqEmpty
    <3> QED
      BY <1>3, <1>4, <3>1
  <2>2. ASSUME NEW k \in 1..n, k - 1 \in P PROVE k \in P
    <3> DEFINE t == h[k - 1]
               r == es[k]
               f == hash_get(t.es, t.chains, r.key)
    <3>1. t \in Whole /\ r \in Entry /\ r.key \in Keys /\ r.value \in Objects
          /\ r = [key |-> r.key, value |-> r.value]
      BY <1>4, <1>5 DEF Entry
    <3>2. t.es = SubSeq(es, 1, k - 1)
      BY <2>2
    <3>3. TableOK(t.es, t.chains) /\ t = [es |-> t.es, chains |-> t.chains]
      BY <3>1 DEF Whole
    <3>4. h[k] = haplo_hash_set(t, r.key, r.value)
      BY <1>4, <3>1 DEF CopyStep
    <3>5. /\ SubSeq(es, 1, k - 1) \in Seq(Entry) /\ Len(SubSeq(es, 1, k - 1)) = k - 1
          /\ \A i \in 1..(k - 1) : SubSeq(es, 1, k - 1)[i] = es[i] /\ i \in 1..n /\ i # k
      <4>1. 1 \in Int /\ k - 1 \in Int /\ k - 1 \in Nat /\ \A i \in 1..(k - 1) : es[i] \in Entry
        BY <1>1, <1>5 DEF n
      <4>2. /\ SubSeq(es, 1, k - 1) \in Seq(Entry)
            /\ Len(SubSeq(es, 1, k - 1)) = IF 1 <= k - 1 THEN (k - 1) - 1 + 1 ELSE 0
            /\ \A i \in 1..((k - 1) - 1 + 1) : SubSeq(es, 1, k - 1)[i] = es[1 + i - 1]
        BY <4>1, SubSeqProperties
      <4>3. /\ (IF 1 <= k - 1 THEN (k - 1) - 1 + 1 ELSE 0) = k - 1 /\ (k - 1) - 1 + 1 = k - 1
            /\ \A i \in 1..(k - 1) : 1 + i - 1 = i /\ i \in 1..n /\ i # k
        BY <1>1, <1>5
      <4> QED
        BY <4>2, <4>3
    <3>6. f = 0
      <4>1. f = 0 \/ (f \in 1..Len(t.es) /\ t.es[f].key = r.key)
        <5>1. PICK size \in Nat \ {0} : ChainsOf(t.es, 1..Len(t.es), t.chains, size)
          BY <3>3 DEF TableOK
        <5>2. t.es \in Seq(Entry)
          BY <3>3 DEF TableOK
        <5> HIDE DEF t, r
        <5> QED
          BY <3>1, <5>1, <5>2, HashGet
      <4> HIDE DEF f, t
      <4> QED
        BY <1>1, <3>2, <3>5, <4>1 DEF n
    <3>7. h[k].es = Append(t.es, r)
      <4> HIDE DEF t, r
      <4>1. hash_get(t.es, t.chains, r.key) = 0
        BY <3>6
      <4>2. haplo_hash_set([es |-> t.es, chains |-> t.chains], r.key, r.value).es =
              Append(t.es, [key |-> r.key, value |-> r.value])
        BY <3>1, <3>3, <4>1, SetNew
      <4> QED
        BY <3>1, <3>3, <3>4, <4>2
    <3>8. Append(SubSeq(es, 1, k - 1), es[k]) = SubSeq(es, 1, k)
      <4>1. SubSeq(es, 1, k) = SubSeq(es, 1, k - 1) \o <<es[k]>>
        <5>1. 1 \in 1..Len(es) /\ k \in 1..Len(es) /\ 1 \in 1..(k+1)
          BY <1>1 DEF n
        <5> QED
          BY <1>1, <5>1, SubSeqRecursiveSecond
      <4>2. Append(SubSeq(es, 1, k - 1), es[k]) = SubSeq(es, 1, k - 1) \o <<es[k]>>
        BY <1>5, <3>5, AppendIsConcat
      <4> QED
        BY <4>1, <4>2
    <3> QED
      BY <1>5, <3>2, <3>7, <3>8
  <2> HIDE DEF P
  <2> QED
    BY <1>1, <2>1, <2>2, UpTo
<1>7. copy \in Whole /\ copy.es = SubSeq(es, 1, n)
  <2>1. n \in 0..n
    BY <1>1
  <2> QED
    BY <1>4, <1>6, <2>1
<1>8. SubSeq(es, 1, n) = es
  BY <1>1, SubSeqFull DEF n
<1> QED
  BY <1>7, <1>8 DEF Whole, copy

-----------------------------------------------------------------------------
(* The order of keys *)

\* hash_str_sort (strcmp): no key is before itself.
LEMMA SortIrreflexive ==
  ASSUME NEW k \in Seq(Int)
  PROVE  ~ hash_str_sort(k, k)
<1>1. \A n \in DOMAIN k : k[n] \in Int
  OBVIOUS
<1> QED
  BY <1>1 DEF hash_str_sort

\* hash_str_sort: a key before one that is before another is before that.
LEMMA SortTransitive ==
  ASSUME NEW k \in Seq(Int), NEW l \in Seq(Int), NEW j \in Seq(Int),
         hash_str_sort(k, l), hash_str_sort(l, j)
  PROVE  hash_str_sort(k, j)
<1>1. PICK n \in DOMAIN l : /\ \A m \in 1..(n - 1) : m \in DOMAIN k /\ k[m] = l[m]
                            /\ n \in DOMAIN k => k[n] < l[n]
  BY DEF hash_str_sort
<1>2. PICK p \in DOMAIN j : /\ \A m \in 1..(p - 1) : m \in DOMAIN l /\ l[m] = j[m]
                            /\ p \in DOMAIN l => l[p] < j[p]
  BY DEF hash_str_sort
<1>3. /\ DOMAIN l = 1..Len(l) /\ DOMAIN j = 1..Len(j) /\ DOMAIN k = 1..Len(k)
      /\ Len(l) \in Nat /\ Len(j) \in Nat /\ Len(k) \in Nat
      /\ \A m \in DOMAIN k : k[m] \in Int
      /\ \A m \in DOMAIN l : l[m] \in Int
      /\ \A m \in DOMAIN j : j[m] \in Int
  OBVIOUS
<1>4. n \in Nat /\ p \in Nat /\ 1 <= n /\ 1 <= p /\ n <= Len(l) /\ p <= Len(j)
  BY <1>3
<1>5. CASE n < p
  <2>1. n \in 1..(p - 1) /\ n \in DOMAIN j
    BY <1>3, <1>4, <1>5
  <2>2. l[n] = j[n]
    BY <1>2, <2>1
  <2>3. \A m \in 1..(n - 1) : m \in 1..(p - 1)
    BY <1>4, <1>5
  <2>4. \A m \in 1..(n - 1) : m \in DOMAIN k /\ k[m] = j[m]
    BY <1>1, <1>2, <2>3
  <2>5. n \in DOMAIN k => k[n] < j[n]
    BY <1>1, <2>2
  <2> QED
    BY <2>1, <2>4, <2>5 DEF hash_str_sort
<1>6. CASE p < n
  <2>1. p \in 1..(n - 1) /\ p \in DOMAIN l
    BY <1>3, <1>4, <1>6
  <2>2. p \in DOMAIN k /\ k[p] = l[p] /\ l[p] < j[p]
    BY <1>1, <1>2, <2>1
  <2>3. \A m \in 1..(p - 1) : m \in 1..(n - 1)
    BY <1>4, <1>6
  <2>4. \A m \in 1..(p - 1) : m \in DOMAIN k /\ k[m] = j[m]
    BY <1>1, <1>2, <2>3
  <2>5. k[p] < j[p]
    BY <2>2
  <2> QED
    BY <2>4, <2>5 DEF hash_str_sort
<1>7. CASE p = n
  <2>1. \A m \in 1..(n - 1) : m \in DOMAIN k /\ k[m] = j[m]
    BY <1>1, <1>2, <1>7
  <2>2. n \in DOMAIN k => k[n] < j[n]
    <3> SUFFICES ASSUME n \in DOMAIN k PROVE k[n] < j[n]
      OBVIOUS
    <3>1. k[n] \in Int /\ l[n] \in Int /\ j[n] \in Int
      BY <1>2, <1>3, <1>7
    <3>2. k[n] < l[n] /\ l[n] < j[n]
      BY <1>1, <1>2, <1>7
    <3> DEFINE x == k[n]
               y == l[n]
               z == j[n]
    <3>3. x \in Int /\ y \in Int /\ z \in Int /\ x < y /\ y < z
      BY <3>1, <3>2
    <3> HIDE DEF x, y, z
    <3>4. x < z
      BY <3>3
    <3> QED
      BY <3>4 DEF x, z
  <2>3. n \in DOMAIN j
    BY <1>2, <1>7
  <2> QED
    BY <2>1, <2>2, <2>3 DEF hash_str_sort
<1> QED
  BY <1>4, <1>5, <1>6, <1>7

\* hash_str_sort: of two keys that differ one is before the other.
LEMMA SortTotal ==
  ASSUME NEW k \in Seq(Int), NEW l \in Seq(Int), k # l
  PROVE  hash_str_sort(k, l) \/ hash_str_sort(l, k)
<1> DEFINE U == {n \in Nat \ {0} : n \notin DOMAIN k \/ n \notin DOMAIN l \/ k[n] # l[n]}
<1>1. /\ DOMAIN l = 1..Len(l) /\ DOMAIN k = 1..Len(k) /\ Len(l) \in Nat /\ Len(k) \in Nat
      /\ \A m \in DOMAIN k : k[m] \in Int
      /\ \A m \in DOMAIN l : l[m] \in Int
  OBVIOUS
<1>2. U \in SUBSET Nat /\ U # {}
  <2>1. Len(k) + 1 \in Nat \ {0} /\ Len(k) + 1 \notin DOMAIN k
    BY <1>1
  <2> QED
    BY <2>1
<1>3. PICK n \in U : \A m \in U : n <= m
  <2> HIDE DEF U
  <2> QED
    BY <1>2, NatLeast
<1>4. n \in Nat /\ 1 <= n /\ (n \notin DOMAIN k \/ n \notin DOMAIN l \/ k[n] # l[n])
  BY <1>3
<1>5. \A m \in 1..(n - 1) : m \in DOMAIN k /\ m \in DOMAIN l /\ k[m] = l[m]
  <2> SUFFICES ASSUME NEW m \in 1..(n - 1) PROVE m \in DOMAIN k /\ m \in DOMAIN l /\ k[m] = l[m]
    OBVIOUS
  <2>1. m \in Nat \ {0} /\ ~ (n <= m)
    BY <1>4
  <2>2. m \notin U
    BY <1>3, <2>1
  <2> QED
    BY <2>1, <2>2
<1> HIDE DEF U
<1>6. CASE n \in DOMAIN k /\ n \in DOMAIN l
  <2> DEFINE x == k[n]
             y == l[n]
  <2>1. x \in Int /\ y \in Int /\ x # y
    BY <1>1, <1>4, <1>6
  <2> HIDE DEF x, y
  <2>2. x < y \/ y < x
    BY <2>1
  <2>3. k[n] < l[n] \/ l[n] < k[n]
    BY <2>2 DEF x, y
  <2> QED
    BY <1>5, <1>6, <2>3 DEF hash_str_sort
<1>7. CASE n \in DOMAIN k /\ n \notin DOMAIN l
  BY <1>5, <1>7 DEF hash_str_sort
<1>8. CASE n \notin DOMAIN k /\ n \in DOMAIN l
  BY <1>5, <1>8 DEF hash_str_sort
<1>9. CASE n \notin DOMAIN k /\ n \notin DOMAIN l
  <2>1. Len(k) = Len(l)
    <3>1. Len(k) < n /\ Len(l) < n
      BY <1>1, <1>4, <1>9
    <3>2. ASSUME Len(k) < Len(l) PROVE FALSE
      <4>1. Len(l) \in 1..(n - 1) /\ Len(l) \notin DOMAIN k
        BY <1>1, <1>4, <3>1, <3>2
      <4> QED
        BY <1>5, <4>1
    <3>3. ASSUME Len(l) < Len(k) PROVE FALSE
      <4>1. Len(k) \in 1..(n - 1) /\ Len(k) \notin DOMAIN l
        BY <1>1, <1>4, <3>1, <3>3
      <4> QED
        BY <1>5, <4>1
    <3> DEFINE x == Len(k)
               y == Len(l)
    <3>4. x \in Nat /\ y \in Nat /\ ~ (x < y) /\ ~ (y < x)
      BY <1>1, <3>2, <3>3
    <3> HIDE DEF x, y
    <3>5. x = y
      BY <3>4
    <3> QED
      BY <3>5 DEF x, y
  <2>2. \A m \in 1..Len(k) : k[m] = l[m]
    <3>1. \A m \in 1..Len(k) : m \in 1..(n - 1)
      BY <1>1, <1>4, <1>9
    <3> QED
      BY <1>5, <3>1
  <2> QED
    BY <2>1, <2>2, SeqEqual
<1> QED
  BY <1>6, <1>7, <1>8, <1>9

-----------------------------------------------------------------------------
(* Ranks in a strict order *)

\* R is a strict total order of 1..n.
Ordering(R, n) ==
  /\ \A d \in 1..n : <<d, d>> \notin R
  /\ \A c, d, e \in 1..n : <<c, d>> \in R /\ <<d, e>> \in R => <<c, e>> \in R
  /\ \A d, e \in 1..n : d # e => <<d, e>> \in R \/ <<e, d>> \in R

\* Those before an element in the order, and how many they are.
Before(R, n, e) == {d \in 1..n : <<d, e>> \in R}
Rank(R, n, e) == Cardinality(Before(R, n, e))

\* They are finitely many.
LEMMA BeforeFinite ==
  ASSUME NEW R, NEW n \in Nat, NEW e
  PROVE  IsFiniteSet(Before(R, n, e)) /\ Rank(R, n, e) \in Nat
<1>1. IsFiniteSet(1..n) /\ Before(R, n, e) \in SUBSET (1..n)
  BY FS_Interval DEF Before
<1> QED
  BY <1>1, FS_Subset, FS_CardinalityType DEF Rank

\* An element after another has more before it.
LEMMA RankGrows ==
  ASSUME NEW R, NEW n \in Nat, Ordering(R, n), NEW d \in 1..n, NEW e \in 1..n, <<d, e>> \in R
  PROVE  Rank(R, n, d) < Rank(R, n, e)
<1>1. Before(R, n, d) \cup {d} \in SUBSET Before(R, n, e)
  BY DEF Ordering, Before
<1>2. d \notin Before(R, n, d)
  BY DEF Ordering, Before
<1>3. Cardinality(Before(R, n, d) \cup {d}) = Rank(R, n, d) + 1
  BY <1>2, BeforeFinite, FS_AddElement DEF Rank
<1>4. Cardinality(Before(R, n, d) \cup {d}) <= Rank(R, n, e)
  BY <1>1, BeforeFinite, FS_Subset DEF Rank
<1> QED
  BY <1>3, <1>4, BeforeFinite

\* An element has fewer before it than there are.
LEMMA RankIn ==
  ASSUME NEW R, NEW n \in Nat, Ordering(R, n), NEW e \in 1..n
  PROVE  Rank(R, n, e) \in 0..(n - 1)
<1>1. Before(R, n, e) \in SUBSET ((1..n) \ {e})
  BY DEF Ordering, Before
<1>2. IsFiniteSet(1..n) /\ Cardinality(1..n) = n
  <2>1. IsFiniteSet(1..n) /\ Cardinality(1..n) = IF 1 > n THEN 0 ELSE n - 1 + 1
    BY FS_Interval
  <2> QED
    BY <2>1
<1>3. IsFiniteSet((1..n) \ {e}) /\ Cardinality((1..n) \ {e}) = n - 1
  BY <1>2, FS_RemoveElement
<1>4. Rank(R, n, e) <= n - 1
  BY <1>1, <1>3, FS_Subset DEF Rank
<1> QED
  BY <1>4, BeforeFinite

\* Every rank is that of one element.
LEMMA RankOne ==
  ASSUME NEW R, NEW n \in Nat, Ordering(R, n)
  PROVE  /\ \A d, e \in 1..n : Rank(R, n, d) = Rank(R, n, e) => d = e
         /\ \A r \in 0..(n - 1) : \E e \in 1..n : Rank(R, n, e) = r
<1> DEFINE f == [e \in 1..n |-> Rank(R, n, e)]
<1>1. ASSUME NEW d \in 1..n, NEW e \in 1..n, Rank(R, n, d) = Rank(R, n, e) PROVE d = e
  <2> SUFFICES ASSUME d # e PROVE FALSE
    OBVIOUS
  <2>1. CASE <<d, e>> \in R
    BY <1>1, <2>1, RankGrows, BeforeFinite
  <2>2. CASE <<e, d>> \in R
    BY <1>1, <2>2, RankGrows, BeforeFinite
  <2> QED
    BY <2>1, <2>2 DEF Ordering
<1>2. f \in [1..n -> 0..(n - 1)]
  BY RankIn
<1>3. f \in Injection(1..n, 0..(n - 1))
  BY <1>1, <1>2 DEF Injection, IsInjective
<1>4. IsFiniteSet(0..(n - 1)) /\ Cardinality(1..n) = Cardinality(0..(n - 1))
  <2>1. Cardinality(1..n) = IF 1 > n THEN 0 ELSE n - 1 + 1
    BY FS_Interval
  <2>2. IsFiniteSet(0..(n - 1)) /\ Cardinality(0..(n - 1)) = IF 0 > n - 1 THEN 0 ELSE n - 1 - 0 + 1
    BY FS_Interval
  <2> QED
    BY <2>1, <2>2
<1>5. f \in Surjection(1..n, 0..(n - 1))
  <2> HIDE DEF f
  <2> QED
    BY <1>3, <1>4, FS_Injection
<1> QED
  BY <1>1, <1>5 DEF Surjection

-----------------------------------------------------------------------------
\* No two entries have one key; the order qsort is given for the entries.
Distinct(es) == \A d, e \in 1..Len(es) : es[d].key = es[e].key => d = e

Sorting(es) ==
  {p \in (1..Len(es)) \X (1..Len(es)) : hash_str_sort(es[p[1]].key, es[p[2]].key)}

\* hash_str_sort is a strict total order of entries whose keys differ.
LEMMA SortingOrders ==
  ASSUME NEW es \in Seq(Entry), Distinct(es)
  PROVE  Ordering(Sorting(es), Len(es))
<1>1. \A e \in 1..Len(es) : es[e].key \in Seq(Int)
  BY Entries, TableAssumption
<1>2. \A d, e \in 1..Len(es) : <<d, e>> \in Sorting(es) <=> hash_str_sort(es[d].key, es[e].key)
  BY DEF Sorting
<1>3. \A d \in 1..Len(es) : <<d, d>> \notin Sorting(es)
  BY <1>1, <1>2, SortIrreflexive
<1>4. \A c, d, e \in 1..Len(es) :
        <<c, d>> \in Sorting(es) /\ <<d, e>> \in Sorting(es) => <<c, e>> \in Sorting(es)
  BY <1>1, <1>2, SortTransitive
<1>5. \A d, e \in 1..Len(es) : d # e => <<d, e>> \in Sorting(es) \/ <<e, d>> \in Sorting(es)
  BY <1>1, <1>2, SortTotal DEF Distinct
<1> QED
  BY <1>3, <1>4, <1>5 DEF Ordering

\* haplo_hash_str_loop_sorted goes through every entry, in the order of the keys.
LEMMA Sorted ==
  ASSUME NEW es \in Seq(Entry), Distinct(es)
  PROVE  LET sorted == haplo_hash_str_loop_sorted(es)
         IN  /\ Len(sorted) = Len(es) /\ ToSet(sorted) = ToSet(es)
             /\ \A e \in 1..(Len(sorted) - 1) : hash_str_sort(sorted[e].key, sorted[e + 1].key)
<1> DEFINE n == Len(es)
           R == Sorting(es)
           sorted == haplo_hash_str_loop_sorted(es)
           at(k) == CHOOSE e \in 1..n : Rank(R, n, e) = k - 1
<1>1. n \in Nat /\ DOMAIN es = 1..n
  OBVIOUS
<1>2. \A e \in 1..n : {d \in DOMAIN es : hash_str_sort(es[d].key, es[e].key)} = Before(R, n, e)
  BY <1>1 DEF Before, Sorting
<1>3. sorted = [k \in 1..n |-> es[at(k)]]
  <2>1. sorted = [k \in 1..n |->
           es[CHOOSE e \in 1..n : Cardinality({d \in 1..n : hash_str_sort(es[d].key, es[e].key)}) = k - 1]]
    BY <1>1 DEF haplo_hash_str_loop_sorted
  <2>2. \A e \in 1..n : {d \in 1..n : hash_str_sort(es[d].key, es[e].key)} = Before(R, n, e)
    BY <1>1, <1>2
  <2> HIDE DEF R, n
  <2> QED
    BY <2>1, <2>2 DEF Rank
<1>4. Ordering(R, n)
  BY SortingOrders
<1>5. \A k \in 1..n : at(k) \in 1..n /\ Rank(R, n, at(k)) = k - 1
  <2> TAKE k \in 1..n
  <2>1. k - 1 \in 0..(n - 1)
    BY <1>1
  <2>2. \E e \in 1..n : Rank(R, n, e) = k - 1
    BY <1>1, <1>4, <2>1, RankOne
  <2> HIDE DEF n, R
  <2> QED
    BY <2>2
<1> HIDE DEF at, sorted, R
<1>6. \A e \in 1..n : Rank(R, n, e) + 1 \in 1..n /\ at(Rank(R, n, e) + 1) = e
  <2> TAKE e \in 1..n
  <2> DEFINE k == Rank(R, n, e) + 1
  <2>1. k \in 1..n /\ k - 1 = Rank(R, n, e)
    <3>1. Rank(R, n, e) \in 0..(n - 1)
      BY <1>1, <1>4, RankIn
    <3> QED
      BY <1>1, <3>1
  <2> HIDE DEF k
  <2>2. at(k) \in 1..n /\ Rank(R, n, at(k)) = Rank(R, n, e)
    BY <1>5, <2>1
  <2>3. at(k) = e
    BY <1>1, <1>4, <2>2, RankOne
  <2> QED
    BY <2>1, <2>3 DEF k
<1>7. Len(sorted) = n /\ DOMAIN sorted = 1..n
  BY <1>1, <1>3
<1>8. ToSet(sorted) = ToSet(es)
  <2>1. \A k \in 1..n : sorted[k] = es[at(k)] /\ at(k) \in 1..n
    BY <1>3, <1>5
  <2>2. \A e \in 1..n : \E k \in 1..n : sorted[k] = es[e]
    BY <1>3, <1>6
  <2> HIDE DEF n
  <2>3. ToSet(sorted) = {sorted[k] : k \in 1..n}
    BY <1>7 DEF ToSet
  <2>4. ToSet(es) = {es[e] : e \in 1..n}
    BY <1>1 DEF ToSet
  <2>5. \A x \in ToSet(sorted) : x \in ToSet(es)
    BY <2>1, <2>3, <2>4
  <2>6. \A x \in ToSet(es) : x \in ToSet(sorted)
    BY <2>2, <2>3, <2>4
  <2> QED
    BY <2>5, <2>6
<1>9. ASSUME NEW k \in 1..(n - 1)
      PROVE  hash_str_sort(sorted[k].key, sorted[k + 1].key)
  <2>1. k \in 1..n /\ k + 1 \in 1..n /\ k \in Nat /\ (k + 1) - 1 = k
    BY <1>1
  <2> DEFINE d == at(k)
             e == at(k + 1)
  <2>2. d \in 1..n /\ e \in 1..n /\ Rank(R, n, d) = k - 1 /\ Rank(R, n, e) = k
    BY <1>5, <2>1
  <2>3. sorted[k] = es[d] /\ sorted[k + 1] = es[e]
    BY <1>3, <2>1
  <2> HIDE DEF d, e
  <2>4. <<d, e>> \in R
    <3>1. d # e
      BY <2>1, <2>2
    <3>2. ASSUME <<e, d>> \in R PROVE FALSE
      <4>1. Rank(R, n, e) < Rank(R, n, d)
        BY <1>1, <1>4, <2>2, <3>2, RankGrows
      <4> QED
        BY <2>1, <2>2, <4>1
    <3> QED
      BY <1>4, <2>2, <3>1, <3>2 DEF Ordering
  <2> QED
    BY <2>3, <2>4 DEF R, Sorting
<1> QED
  BY <1>7, <1>8, <1>9 DEF sorted

-----------------------------------------------------------------------------
(* The references of the objects *)

\* The objects of some entries, by the ranks of those, have the references they should.
Counting(val, refs) ==
  /\ IsFiniteSet(DOMAIN val) /\ val \in [DOMAIN val -> Objects]
  /\ DOMAIN refs = {val[e] : e \in DOMAIN val}
  /\ \A o \in DOMAIN refs :
       LET held == Cardinality({e \in DOMAIN val : val[e] = o})
       IN  refs[o] = IF o.made = 0 THEN held ELSE held - 1
  /\ \A d, e \in DOMAIN val : val[d] = val[e] /\ val[d].made > 0 => d = e

\* The entries that have an object.
Having(val, o) == {e \in DOMAIN val : val[e] = o}

\* They are finitely many, and some for each object that has references.
LEMMA HavingSome ==
  ASSUME NEW val, NEW refs, Counting(val, refs), NEW o
  PROVE  /\ IsFiniteSet(Having(val, o)) /\ Cardinality(Having(val, o)) \in Nat
         /\ Having(val, o) = {} <=> Cardinality(Having(val, o)) = 0
         /\ o \in DOMAIN refs <=> Having(val, o) # {}
         /\ o \in DOMAIN refs =>
              /\ o \in Objects /\ o.made \in Nat
              /\ refs[o] = IF o.made = 0 THEN Cardinality(Having(val, o)) ELSE Cardinality(Having(val, o)) - 1
<1> DEFINE H == Having(val, o)
<1>1. H \subseteq DOMAIN val /\ IsFiniteSet(DOMAIN val)
  BY DEF Counting, Having
<1>2. IsFiniteSet(H)
  BY <1>1, FS_Subset
<1>3. Cardinality(H) \in Nat /\ (H = {} <=> Cardinality(H) = 0)
  BY <1>2, FS_CardinalityType, FS_EmptySet
<1>4. o \in DOMAIN refs <=> H # {}
  BY DEF Counting, Having
<1>5. ASSUME o \in DOMAIN refs PROVE o \in Objects /\ o.made \in Nat
  BY <1>5 DEF Counting, Objects
<1>6. ASSUME o \in DOMAIN refs
      PROVE  refs[o] = IF o.made = 0 THEN Cardinality(H) ELSE Cardinality(H) - 1
  BY <1>6 DEF Counting, Having
<1> QED
  BY <1>2, <1>3, <1>4, <1>5, <1>6

\* An entry more, with an object of the program (OBJECT_REF).
LEMMA OneMore ==
  ASSUME NEW val, NEW refs, Counting(val, refs), NEW f, f \notin DOMAIN val,
         NEW o \in Objects, o.made = 0,
         NEW new, DOMAIN new = DOMAIN val \cup {f}, new[f] = o, \A e \in DOMAIN val : new[e] = val[e]
  PROVE  (new \in [DOMAIN new -> Objects]) => Counting(new, OBJECT_REF(refs, o))
<1> SUFFICES ASSUME new \in [DOMAIN new -> Objects] PROVE Counting(new, OBJECT_REF(refs, o))
  OBVIOUS
<1> DEFINE more == OBJECT_REF(refs, o)
<1>1. IsFiniteSet(DOMAIN new)
  BY FS_AddElement DEF Counting
<1>2. DOMAIN more = DOMAIN refs \cup {o}
  BY DEF OBJECT_REF
<1>3. DOMAIN more = {new[e] : e \in DOMAIN new}
  BY <1>2 DEF Counting
<1>4. Having(new, o) = Having(val, o) \cup {f} /\ f \notin Having(val, o)
  BY DEF Having
<1>5. \A x : x # o => Having(new, x) = Having(val, x)
  BY DEF Having
<1>6. ASSUME NEW x \in DOMAIN more
      PROVE  more[x] = IF x.made = 0 THEN Cardinality(Having(new, x)) ELSE Cardinality(Having(new, x)) - 1
  <2>1. CASE x = o
    <3>1. /\ IsFiniteSet(Having(val, o)) /\ Cardinality(Having(val, o)) \in Nat
          /\ o \notin DOMAIN refs => Cardinality(Having(val, o)) = 0
          /\ o \in DOMAIN refs => refs[o] = Cardinality(Having(val, o))
      BY HavingSome
    <3>2. Cardinality(Having(new, o)) = Cardinality(Having(val, o)) + 1
      <4> DEFINE H == Having(val, o)
      <4>1. IsFiniteSet(H) /\ f \notin H /\ Having(new, o) = H \cup {f}
        BY <1>4, <3>1
      <4> HIDE DEF H
      <4>2. Cardinality(H \cup {f}) = Cardinality(H) + 1
        BY <4>1, FS_AddElement
      <4> QED
        BY <4>1, <4>2 DEF H
    <3>3. more[o] = IF o \in DOMAIN refs THEN refs[o] + 1 ELSE 1
      BY <1>2 DEF OBJECT_REF
    <3> HIDE DEF more
    <3>4. more[o] = Cardinality(Having(new, o))
      BY <3>1, <3>2, <3>3
    <3> QED
      BY <2>1, <3>4
  <2>2. CASE x # o
    <3>1. x \in DOMAIN refs /\ more[x] = refs[x] /\ Having(new, x) = Having(val, x)
      BY <1>2, <1>5, <2>2 DEF OBJECT_REF
    <3>2. refs[x] = IF x.made = 0 THEN Cardinality(Having(val, x)) ELSE Cardinality(Having(val, x)) - 1
      BY <3>1, HavingSome
    <3> QED
      BY <3>1, <3>2
  <2> QED
    BY <2>1, <2>2
<1>7. ASSUME NEW d \in DOMAIN new, NEW e \in DOMAIN new, new[d] = new[e], new[d].made > 0
      PROVE  d = e
  <2>1. d # f /\ e # f
    BY <1>7
  <2>2. d \in DOMAIN val /\ e \in DOMAIN val /\ val[d] = val[e] /\ val[d].made > 0
    BY <1>7, <2>1
  <2> QED
    BY <2>2 DEF Counting
<1> QED
  BY <1>1, <1>3, <1>6, <1>7 DEF Counting, Having

\* An entry less (__haplo_object_free): its object is freed when no other has it.
LEMMA OneLess ==
  ASSUME NEW val, NEW refs, Counting(val, refs), NEW f \in DOMAIN val,
         NEW new, new = [e \in DOMAIN val \ {f} |-> val[e]]
  PROVE  Counting(new, __haplo_object_free(refs, val[f]))
<1> DEFINE o == val[f]
           less == __haplo_object_free(refs, o)
           H == Having(val, o)
<1>1. o \in DOMAIN refs /\ o \in Objects /\ o.made \in Nat
  BY DEF Counting, Objects
<1>2. /\ IsFiniteSet(H) /\ Cardinality(H) \in Nat /\ Cardinality(H) # 0
      /\ refs[o] = IF o.made = 0 THEN Cardinality(H) ELSE Cardinality(H) - 1
  BY <1>1, HavingSome
<1>3. f \in H /\ Having(new, o) = H \ {f}
  BY DEF Having
<1>4. Cardinality(Having(new, o)) = Cardinality(H) - 1 /\ IsFiniteSet(Having(new, o))
  <2> HIDE DEF H
  <2> QED
    BY <1>2, <1>3, FS_RemoveElement
<1>5. \A x : x # o => Having(new, x) = Having(val, x)
  BY DEF Having
<1>6. IsFiniteSet(DOMAIN new) /\ new \in [DOMAIN new -> Objects]
  <2>1. IsFiniteSet(DOMAIN val) /\ DOMAIN new = DOMAIN val \ {f} /\ val \in [DOMAIN val -> Objects]
    BY DEF Counting
  <2> QED
    BY <2>1, FS_RemoveElement
<1>7. o.made > 0 => H = {f}
  BY DEF Counting, Having
<1>8. refs[o] > 1 <=> Cardinality(Having(new, o)) # 0
  <2>1. CASE o.made = 0
    <3>1. refs[o] = Cardinality(H)
      BY <1>2, <2>1
    <3> HIDE DEF H, o
    <3> QED
      BY <1>2, <1>4, <3>1
  <2>2. CASE o.made > 0
    <3>1. Cardinality(H) = 1
      BY <1>7, <2>2, FS_Singleton
    <3>2. refs[o] = Cardinality(H) - 1
      BY <1>1, <1>2, <2>2
    <3> HIDE DEF H, o
    <3> QED
      BY <1>4, <3>1, <3>2
  <2> HIDE DEF o
  <2> QED
    BY <1>1, <2>1, <2>2
<1>9. Having(new, o) = {} <=> Cardinality(Having(new, o)) = 0
  BY <1>4, FS_EmptySet
<1>10. /\ DOMAIN less = IF refs[o] > 1 THEN DOMAIN refs ELSE DOMAIN refs \ {o}
       /\ \A x \in DOMAIN less : x # o => less[x] = refs[x]
       /\ refs[o] > 1 => less[o] = refs[o] - 1
  BY <1>1 DEF __haplo_object_free
<1>11. \A x : x \in {new[e] : e \in DOMAIN new} <=> Having(new, x) # {}
  BY DEF Having
<1>12. \A x : x \in DOMAIN refs <=> Having(val, x) # {}
  BY HavingSome
<1>13. DOMAIN less = {new[e] : e \in DOMAIN new}
  <2>1. ASSUME NEW x PROVE x \in DOMAIN less <=> x \in {new[e] : e \in DOMAIN new}
    <3>1. CASE x = o
      <4> HIDE DEF less, o, H
      <4> QED
        BY <1>1, <1>8, <1>9, <1>10, <1>11, <3>1
    <3>2. CASE x # o
      <4> HIDE DEF less, o, H
      <4> QED
        BY <1>5, <1>10, <1>11, <1>12, <3>2
    <3> QED
      BY <3>1, <3>2
  <2> HIDE DEF less
  <2> QED
    BY <2>1
<1>14. ASSUME NEW x \in DOMAIN less
       PROVE  less[x] = IF x.made = 0 THEN Cardinality(Having(new, x)) ELSE Cardinality(Having(new, x)) - 1
  <2>1. CASE x = o
    <3>1. refs[o] > 1
      <4> HIDE DEF less, o
      <4> QED
        BY <1>10, <2>1
    <3>2. o.made = 0
      <4>1. o.made > 0 => Cardinality(H) = 1
        BY <1>7, FS_Singleton
      <4> HIDE DEF H, o
      <4> QED
        BY <1>1, <1>2, <3>1, <4>1
    <3>3. less[o] = refs[o] - 1 /\ refs[o] = Cardinality(H)
      BY <1>2, <1>10, <3>1, <3>2
    <3> HIDE DEF less, o, H
    <3>4. less[o] = Cardinality(Having(new, o))
      BY <1>2, <1>4, <3>3
    <3> QED
      BY <2>1, <3>2, <3>4
  <2>2. CASE x # o
    <3>1. x \in DOMAIN refs /\ less[x] = refs[x] /\ Having(new, x) = Having(val, x)
      <4> HIDE DEF less, o
      <4> QED
        BY <1>5, <1>10, <2>2
    <3>2. refs[x] = IF x.made = 0 THEN Cardinality(Having(val, x)) ELSE Cardinality(Having(val, x)) - 1
      BY <3>1, HavingSome
    <3> QED
      BY <3>1, <3>2
  <2> QED
    BY <2>1, <2>2
<1>15. \A d, e \in DOMAIN new : new[d] = new[e] /\ new[d].made > 0 => d = e
  BY DEF Counting
<1> HIDE DEF less
<1>16. Counting(new, less)
  BY <1>6, <1>13, <1>14, <1>15 DEF Counting, Having
<1> QED
  BY <1>16 DEF less

\* hash_free_object, for every entry: no object is left.
LEMMA AllFreed ==
  ASSUME NEW es, NEW refs, Counting([e \in DOMAIN es |-> es[e].value], refs)
  PROVE  DOMAIN Freed(refs, es) = {}
<1> DEFINE val == [e \in DOMAIN es |-> es[e].value]
           held(o) == Cardinality({e \in DOMAIN es : es[e].value = o})
<1>1. ASSUME NEW o \in DOMAIN refs PROVE ~(held(o) = 0 \/ refs[o] > held(o))
  <2>1. Having(val, o) = {e \in DOMAIN es : es[e].value = o}
    BY DEF Having
  <2> DEFINE h == Cardinality(Having(val, o))
  <2>2. /\ h \in Nat /\ h # 0 /\ refs[o] = IF o.made = 0 THEN h ELSE h - 1
    <3>1. Counting(val, refs)
      OBVIOUS
    <3> HIDE DEF val
    <3> QED
      BY <1>1, <3>1, HavingSome
  <2>3. held(o) = h
    BY <2>1
  <2> HIDE DEF h, held
  <2> QED
    BY <2>2, <2>3
<1>2. DOMAIN Freed(refs, es) = {o \in DOMAIN refs : held(o) = 0 \/ refs[o] > held(o)}
  BY DEF Freed
<1> HIDE DEF held
<1> QED
  BY <1>1, <1>2

\* The objects of entries have the references they should (EntriesCounted).
LEMMA CountedAre ==
  ASSUME entries \in Seq(Entry)
  PROVE  EntriesCounted <=> Counting([e \in DOMAIN entries |-> entries[e].value], counts)
<1> DEFINE val == [e \in DOMAIN entries |-> entries[e].value]
<1>1. DOMAIN val = DOMAIN entries /\ \A e \in DOMAIN entries : val[e] = entries[e].value
  OBVIOUS
<1>2. IsFiniteSet(DOMAIN val) /\ val \in [DOMAIN val -> Objects]
  <2>1. DOMAIN entries = 1..Len(entries) /\ Len(entries) \in Nat
    OBVIOUS
  <2>2. IsFiniteSet(DOMAIN val)
    BY <1>1, <2>1, FS_Interval
  <2>3. \A e \in DOMAIN entries : entries[e].value \in Objects
    BY <2>1, Entries
  <2> QED
    BY <2>2, <2>3
<1>3. {val[e] : e \in DOMAIN val} = {entries[e].value : e \in DOMAIN entries}
  BY <1>1
<1>4. \A o : {e \in DOMAIN val : val[e] = o} = {e \in DOMAIN entries : entries[e].value = o}
  BY <1>1
<1> HIDE DEF val
<1>5. EntriesCounted <=> Counting(val, counts)
  BY <1>1, <1>2, <1>3, <1>4 DEF EntriesCounted, Counting
<1> QED
  BY <1>5 DEF val

-----------------------------------------------------------------------------
\* The inductive invariant of the table: every entry once, in the chain of its key by the
\* present size, keys distinct, entries in the order of their keys, and references counted.
TableInv ==
  /\ TableOK(entries, entry)
  /\ order \in Seq(Keys) /\ Len(order) = Len(entries) /\ \A e \in 1..Len(entries) : order[e] = entries[e].key
  /\ DOMAIN map = {entries[e].key : e \in 1..Len(entries)}
  /\ \A e \in 1..Len(entries) : map[entries[e].key] = entries[e].value.of
  /\ copies \in Nat
  /\ Counting([e \in DOMAIN entries |-> entries[e].value], counts)

\* No entry, no reference.
LEMMA NoneCounted ==
  ASSUME NEW es, es = <<>>, NEW refs, DOMAIN refs = {}
  PROVE  Counting([e \in DOMAIN es |-> es[e].value], refs)
<1>1. DOMAIN es = {}
  OBVIOUS
<1>2. IsFiniteSet({})
  BY FS_EmptySet
<1> QED
  BY <1>1, <1>2 DEF Counting

\* haplo_hash_new gives a table that is right.
LEMMA TableInitial == TableInit => TableInv
<1> SUFFICES ASSUME TableInit PROVE TableInv
  OBVIOUS
<1>1. PICK size \in TableSizes : entry = haplo_hash_new(size)
  BY DEF TableInit
<1>2. entries = <<>> /\ counts = <<>> /\ map = <<>> /\ order = <<>> /\ copies = 0
  BY DEF TableInit
<1>3. size \in Nat \ {0}
  BY TableAssumption
<1>4. TableOK(entries, entry)
  BY <1>1, <1>2, <1>3, NewWhole
<1>5. 1..Len(entries) = {} /\ DOMAIN map = {} /\ Len(order) = Len(entries)
  BY <1>2
<1>6. <<>> \in Seq(Keys)
  OBVIOUS
<1>7. DOMAIN counts = {}
  BY <1>2
<1>8. Counting([e \in DOMAIN entries |-> entries[e].value], counts)
  BY <1>2, <1>7, NoneCounted
<1> QED
  BY <1>2, <1>4, <1>5, <1>6, <1>8 DEF TableInv

\* haplo_hash_free keeps the invariant: every object is freed.
LEMMA TableFree == TableInv /\ __haplo_hash_free => TableInv'
<1> SUFFICES ASSUME TableInv, __haplo_hash_free PROVE TableInv'
  OBVIOUS
<1>1. PICK size \in TableSizes : entry' = haplo_hash_new(size)
  BY DEF __haplo_hash_free
<1>2. entries' = <<>> /\ map' = <<>> /\ order' = <<>> /\ counts' = Freed(counts, entries) /\ copies' = copies
  BY DEF __haplo_hash_free
<1>3. size \in Nat \ {0}
  BY TableAssumption
<1>4. TableOK(entries', entry')
  BY <1>1, <1>2, <1>3, NewWhole
<1>5. 1..Len(entries') = {} /\ DOMAIN map' = {} /\ Len(order') = Len(entries')
  BY <1>2
<1>6. <<>> \in Seq(Keys)
  OBVIOUS
<1>7. DOMAIN counts' = {}
  BY <1>2, AllFreed DEF TableInv
<1>8. Counting([e \in DOMAIN entries' |-> entries'[e].value], counts')
  BY <1>2, <1>7, NoneCounted
<1>9. TableOK(entries, entry)' /\ copies' \in Nat
  BY <1>2, <1>4 DEF TableInv
<1> QED
  BY <1>2, <1>5, <1>6, <1>8, <1>9 DEF TableInv

\* haplo_hash_copy keeps the invariant: the objects of the copy are new ones, each that of
\* one entry.
LEMMA TableCopy == TableInv /\ __haplo_hash_copy => TableInv'
<1> SUFFICES ASSUME TableInv, __haplo_hash_copy PROVE TableInv'
  OBVIOUS
<1> DEFINE n == Len(entries)
           fs == WithCopies(entries)
           objects == {fs[e].value : e \in DOMAIN fs}
           val == [e \in DOMAIN fs |-> fs[e].value]
<1>1. /\ entries # <<>> /\ map' = map /\ order' = order /\ copies' = copies + n
      /\ entries' = haplo_hash_copy(fs).es /\ entry' = haplo_hash_copy(fs).chains
      /\ counts' = [o \in DOMAIN Freed(counts, entries) \cup objects |->
                      IF o \in objects THEN 0 ELSE Freed(counts, entries)[o]]
  BY DEF __haplo_hash_copy
<1>2. /\ TableOK(entries, entry) /\ entries \in Seq(Entry) /\ n \in Nat /\ DOMAIN entries = 1..n
      /\ \A d, e \in 1..n : entries[d].key = entries[e].key => d = e
      /\ copies \in Nat
  BY DEF TableInv, TableOK
<1>3. \A e \in 1..n : entries[e] \in Entry /\ entries[e].key \in Keys /\ entries[e].value \in Objects
  BY <1>2, Entries
<1>4. ASSUME NEW e \in 1..n
      PROVE  /\ fs[e] \in Entry /\ fs[e].key = entries[e].key
             /\ fs[e].value = [of |-> entries[e].value.of, made |-> copies + e]
  <2>1. fs[e] = [key |-> entries[e].key, value |-> [of |-> entries[e].value.of, made |-> copies + e]]
    BY <1>2 DEF WithCopies, __haplo_object_copy
  <2>2. copies + e \in Nat /\ entries[e].value.of \in HashValues
    BY <1>2, <1>3 DEF Objects
  <2>3. [of |-> entries[e].value.of, made |-> copies + e] \in Objects
    BY <2>2 DEF Objects
  <2> HIDE DEF fs
  <2> QED
    BY <1>3, <2>1, <2>3 DEF Entry
<1>5. DOMAIN fs = 1..n
  BY <1>2 DEF WithCopies
<1>6. fs \in Seq(Entry) /\ Len(fs) = n /\ fs # <<>>
  <2>1. fs = [e \in 1..n |-> fs[e]]
    BY <1>2 DEF WithCopies
  <2> HIDE DEF fs
  <2>2. fs \in [1..n -> Entry]
    BY <1>4, <2>1
  <2>3. fs \in Seq(Entry) /\ Len(fs) = n
    BY <1>2, <1>5, <2>2
  <2>4. n # 0
    BY <1>1, <1>2
  <2> QED
    BY <2>3, <2>4
<1>7. TableOK(fs, entry)
  <2>1. PICK size \in Nat \ {0} : ChainsOf(entries, 1..n, entry, size)
    BY <1>2 DEF TableOK
  <2> HIDE DEF fs
  <2>2. ChainsOf(fs, 1..n, entry, size)
    BY <1>2, <1>4, <1>6, <2>1, SameKeys
  <2> QED
    BY <1>2, <1>4, <1>6, <2>2 DEF TableOK
<1>8. entries' = fs /\ TableOK(fs, entry')
  <2> HIDE DEF fs
  <2> QED
    BY <1>1, <1>6, <1>7, Copied
<1>9. TableOK(entries, entry)'
  BY <1>8
<1>10. Len(entries') = n /\ \A e \in 1..n : entries'[e].key = entries[e].key /\ entries'[e].value.of = entries[e].value.of
  <2> HIDE DEF fs
  <2>1. entries' = fs /\ Len(fs) = n
    BY <1>6, <1>8
  <2>2. \A e \in 1..n : fs[e].key = entries[e].key /\ fs[e].value.of = entries[e].value.of
    <3> SUFFICES ASSUME NEW e \in 1..n
                 PROVE  fs[e].key = entries[e].key /\ fs[e].value.of = entries[e].value.of
      OBVIOUS
    <3>1. fs[e].key = entries[e].key /\ fs[e].value = [of |-> entries[e].value.of, made |-> copies + e]
      BY <1>4
    <3> QED
      BY <3>1
  <2> QED
    BY <2>1, <2>2
<1>11. copies' \in Nat
  BY <1>1, <1>2
<1>12. DOMAIN counts' = objects /\ \A o \in objects : counts'[o] = 0
  <2>1. DOMAIN Freed(counts, entries) = {}
    BY AllFreed DEF TableInv
  <2> HIDE DEF objects
  <2> QED
    BY <1>1, <2>1
<1>13. Counting(val, counts')
  <2>1. DOMAIN val = 1..n /\ \A e \in 1..n : val[e] = fs[e].value
    BY <1>5
  <2>2. objects = {val[e] : e \in DOMAIN val}
    BY <2>1, <1>5
  <2>3. \A e \in 1..n : val[e] \in Objects /\ val[e].made = copies + e
    <3> SUFFICES ASSUME NEW e \in 1..n PROVE val[e] \in Objects /\ val[e].made = copies + e
      OBVIOUS
    <3> HIDE DEF fs, val
    <3>1. val[e] = fs[e].value
      BY <2>1
    <3>2. fs[e] \in Entry /\ fs[e].value = [of |-> entries[e].value.of, made |-> copies + e]
      BY <1>4
    <3>3. fs[e].value \in Objects
      BY <3>2 DEF Entry
    <3> QED
      BY <3>1, <3>2, <3>3
  <2>4. val = [e \in 1..n |-> val[e]]
    BY <1>5
  <2> HIDE DEF fs, val, objects
  <2>5. IsFiniteSet(DOMAIN val) /\ val \in [DOMAIN val -> Objects]
    <3>1. DOMAIN val = 1..n /\ 1 \in Int /\ n \in Int
      BY <1>2, <2>1
    <3>2. IsFiniteSet(DOMAIN val)
      BY <3>1, FS_Interval
    <3>3. val \in [1..n -> Objects]
      BY <2>3, <2>4
    <3> QED
      BY <3>1, <3>2, <3>3
  <2>6. \A d, e \in 1..n : val[d] = val[e] => d = e
    BY <1>2, <2>3
  <2>7. ASSUME NEW o \in DOMAIN counts'
        PROVE  counts'[o] = IF o.made = 0 THEN Cardinality({e \in DOMAIN val : val[e] = o})
                            ELSE Cardinality({e \in DOMAIN val : val[e] = o}) - 1
    <3>1. PICK e \in 1..n : o = val[e]
      BY <1>12, <2>1, <2>2, <2>7
    <3>2. {d \in DOMAIN val : val[d] = o} = {e}
      BY <2>1, <2>6, <3>1
    <3>3. Cardinality({d \in DOMAIN val : val[d] = o}) = 1
      BY <3>2, FS_Singleton
    <3>4. o.made # 0
      BY <1>2, <2>3, <3>1
    <3>5. counts'[o] = 0
      BY <1>12, <2>7
    <3> QED
      BY <3>3, <3>4, <3>5
  <2> QED
    BY <1>12, <2>1, <2>2, <2>5, <2>6, <2>7 DEF Counting
<1>14. Counting([e \in DOMAIN entries' |-> entries'[e].value], counts')
  BY <1>8, <1>13
<1>15. /\ order' \in Seq(Keys) /\ Len(order') = Len(entries')
       /\ \A e \in 1..Len(entries') : order'[e] = entries'[e].key
       /\ DOMAIN map' = {entries'[e].key : e \in 1..Len(entries')}
       /\ \A e \in 1..Len(entries') : map'[entries'[e].key] = entries'[e].value.of
  <2>1. {entries'[e].key : e \in 1..n} = {entries[e].key : e \in 1..n}
    BY <1>10
  <2>2. /\ order \in Seq(Keys) /\ Len(order) = n /\ \A e \in 1..n : order[e] = entries[e].key
        /\ DOMAIN map = {entries[e].key : e \in 1..n}
        /\ \A e \in 1..n : map[entries[e].key] = entries[e].value.of
    BY DEF TableInv
  <2> HIDE DEF n
  <2> QED
    BY <1>1, <1>10, <2>1, <2>2
<1> QED
  BY <1>9, <1>11, <1>14, <1>15 DEF TableInv

-----------------------------------------------------------------------------
\* haplo_hash_set keeps the invariant: whether the key is new or not, and the table grows or not.
LEMMA TableSet == TableInv /\ __haplo_hash_set => TableInv'
<1> SUFFICES ASSUME TableInv, __haplo_hash_set PROVE TableInv'
  OBVIOUS
<1> DEFINE f(key) == hash_get(entries, entry, key)
           table(key, v) == haplo_hash_set([es |-> entries, chains |-> entry], key, Given(v))
<1>1. PICK key \in Keys, v \in HashValues :
        /\ entries' = table(key, v).es /\ entry' = table(key, v).chains
        /\ counts' = IF f(key) = 0 THEN OBJECT_REF(counts, Given(v))
                     ELSE IF entries[f(key)].value = Given(v) THEN counts
                     ELSE OBJECT_REF(__haplo_object_free(counts, entries[f(key)].value), Given(v))
        /\ map' = [k \in DOMAIN map \cup {key} |-> IF k = key THEN v ELSE map[k]]
        /\ order' = IF key \in DOMAIN map THEN order ELSE Append(order, key)
        /\ copies' = copies
  BY DEF __haplo_hash_set
<1> DEFINE n == Len(entries)
           found == f(key)
           object == Given(v)
           val == [e \in DOMAIN entries |-> entries[e].value]
           new == [e \in DOMAIN entries' |-> entries'[e].value]
<1>2. /\ TableOK(entries, entry) /\ entries \in Seq(Entry) /\ n \in Nat /\ DOMAIN entries = 1..n
      /\ \A d, e \in 1..n : entries[d].key = entries[e].key => d = e
      /\ order \in Seq(Keys) /\ Len(order) = n /\ \A e \in 1..n : order[e] = entries[e].key
      /\ DOMAIN map = {entries[e].key : e \in 1..n}
      /\ \A e \in 1..n : map[entries[e].key] = entries[e].value.of
      /\ copies \in Nat
  BY DEF TableInv, TableOK
<1>3. Counting(val, counts) /\ DOMAIN val = 1..n
  BY <1>2 DEF TableInv
<1>4. \/ found = 0 /\ \A d \in 1..n : entries[d].key # key
      \/ found \in 1..n /\ entries[found].key = key
  <2>1. PICK size \in Nat \ {0} : ChainsOf(entries, 1..n, entry, size)
    BY <1>2 DEF TableOK
  <2> QED
    BY <1>2, <2>1, HashGet
<1>5. DOMAIN map' = DOMAIN map \cup {key} /\ map'[key] = v /\ \A k \in DOMAIN map : k # key => map'[k] = map[k]
  BY <1>1
<1>6. object \in Objects /\ object.made = 0 /\ object.of = v
  BY DEF Given, Objects
<1>7. CASE found = 0
  <2>1. key \notin DOMAIN map
    BY <1>2, <1>4, <1>7
  <2> DEFINE r == [key |-> key, value |-> object]
  <2>2. entries' = Append(entries, r) /\ TableOK(entries, entry)'
    <3>1. /\ table(key, v).es = Append(entries, r)
          /\ TableOK(table(key, v).es, table(key, v).chains)
      BY <1>2, <1>6, <1>7, SetNew
    <3> QED
      BY <1>1, <3>1
  <2>3. r \in Entry /\ r.key = key /\ r.value = object
    BY <1>6 DEF Entry
  <2>4. /\ Len(entries') = n + 1 /\ \A e \in 1..n : entries'[e] = entries[e]
        /\ entries'[n + 1] = r /\ 1..(n + 1) = 1..n \cup {n + 1} /\ n + 1 \in 1..(n + 1)
    BY <1>2, <2>2, <2>3, EntryAppended
  <2>5. DOMAIN entries' = 1..(n + 1) /\ n + 1 \notin 1..n /\ entries' \in Seq(Entry)
    <3>1. entries' \in Seq(Entry)
      BY <2>2 DEF TableOK
    <3> HIDE DEF n
    <3> QED
      BY <1>2, <2>4, <3>1
  <2>6. counts' = OBJECT_REF(counts, object)
    BY <1>1, <1>7
  <2> HIDE DEF r, n, object
  <2>7. /\ order' \in Seq(Keys) /\ Len(order') = n + 1 /\ \A e \in 1..n : order'[e] = order[e]
        /\ order'[n + 1] = key
    <3>1. order' = Append(order, key)
      BY <1>1, <2>1
    <3> QED
      BY <1>2, <3>1
  <2>8. \A e \in 1..Len(entries') : order'[e] = entries'[e].key
    BY <1>2, <2>3, <2>4, <2>7
  <2>9. DOMAIN map' = {entries'[e].key : e \in 1..Len(entries')}
    BY <1>2, <1>5, <2>3, <2>4
  <2>10. \A e \in 1..Len(entries') : map'[entries'[e].key] = entries'[e].value.of
    <3> SUFFICES ASSUME NEW e \in 1..(n + 1) PROVE map'[entries'[e].key] = entries'[e].value.of
      BY <2>4
    <3>1. CASE e \in 1..n
      <4>1. entries'[e] = entries[e] /\ entries[e].key \in DOMAIN map /\ entries[e].key # key
        BY <1>2, <2>1, <2>4, <3>1
      <4>2. map'[entries[e].key] = map[entries[e].key] /\ map[entries[e].key] = entries[e].value.of
        BY <1>2, <1>5, <3>1, <4>1
      <4> QED
        BY <4>1, <4>2
    <3>2. CASE e = n + 1
      <4>1. entries'[e] = r
        BY <2>4, <3>2
      <4> QED
        BY <1>5, <1>6, <2>3, <4>1
    <3> QED
      BY <2>4, <3>1, <3>2
  <2>11. Counting(new, counts')
    <3>1. DOMAIN new = DOMAIN val \cup {n + 1} /\ n + 1 \notin DOMAIN val
      BY <1>3, <2>4, <2>5
    <3>2. new[n + 1] = object /\ \A e \in DOMAIN val : new[e] = val[e]
      BY <1>2, <1>3, <2>3, <2>4, <2>5
    <3>3. new \in [DOMAIN new -> Objects]
      <4>1. \A e \in DOMAIN entries' : entries'[e].value \in Objects
        BY <2>4, <2>5, Entries
      <4> QED
        BY <4>1
    <3> HIDE DEF new, val
    <3> QED
      BY <1>3, <1>6, <2>6, <3>1, <3>2, <3>3, OneMore
  <2> QED
    BY <1>1, <1>2, <2>2, <2>4, <2>7, <2>8, <2>9, <2>10, <2>11 DEF TableInv
<1>8. CASE found # 0
  <2>1. found \in 1..n /\ entries[found].key = key /\ key \in DOMAIN map
    BY <1>2, <1>4, <1>8
  <2>2. /\ Len(entries') = n /\ TableOK(entries, entry)'
        /\ \A e \in 1..n : /\ entries'[e].key = entries[e].key
                           /\ entries'[e].value = IF e = found THEN object ELSE entries[e].value
    BY <1>1, <1>2, <1>6, <1>8, SetAgain
  <2>3. order' = order /\ DOMAIN map' = DOMAIN map
    BY <1>1, <2>1
  <2>4. DOMAIN entries' = 1..n /\ entries' \in Seq(Entry)
    <3>1. entries' \in Seq(Entry)
      BY <2>2 DEF TableOK
    <3> HIDE DEF n
    <3> QED
      BY <2>2, <3>1
  <2>5. counts' = IF entries[found].value = object THEN counts
                  ELSE OBJECT_REF(__haplo_object_free(counts, entries[found].value), object)
    BY <1>1, <1>8
  <2> HIDE DEF n, found, object
  <2>6. \A e \in 1..n : entries[e].key = key => e = found
    BY <1>2, <2>1
  <2>7. DOMAIN map' = {entries'[e].key : e \in 1..Len(entries')}
    <3>1. {entries'[e].key : e \in 1..n} = {entries[e].key : e \in 1..n}
      BY <2>2
    <3> QED
      BY <1>2, <2>2, <2>3, <3>1
  <2>8. \A e \in 1..Len(entries') : map'[entries'[e].key] = entries'[e].value.of
    <3> SUFFICES ASSUME NEW e \in 1..n PROVE map'[entries[e].key] = entries'[e].value.of
      BY <2>2
    <3>1. CASE e = found
      BY <1>5, <1>6, <2>1, <2>2, <3>1
    <3>2. CASE e # found
      <4>1. entries[e].key # key /\ entries[e].key \in DOMAIN map
        BY <1>2, <2>6, <3>2
      <4> QED
        BY <1>2, <1>5, <2>2, <3>2, <4>1
    <3> QED
      BY <3>1, <3>2
  <2>9. Counting(new, counts')
    <3>1. /\ DOMAIN new = 1..n /\ new[found] = object
          /\ \A e \in 1..n : e # found => new[e] = val[e]
          /\ val[found] = entries[found].value
      BY <1>2, <1>3, <2>1, <2>2, <2>4
    <3>2. CASE entries[found].value = object
      <4>1. \A e \in 1..n : new[e] = val[e]
        BY <3>1, <3>2
      <4>2. new = [e \in 1..n |-> new[e]] /\ val = [e \in 1..n |-> val[e]]
        BY <1>2, <2>4
      <4> HIDE DEF new, val
      <4>3. new = val
        BY <4>1, <4>2
      <4> QED
        BY <1>3, <2>5, <3>2, <4>3
    <3>3. CASE entries[found].value # object
      <4> DEFINE mid == [e \in DOMAIN val \ {found} |-> val[e]]
      <4>1. Counting(mid, __haplo_object_free(counts, val[found]))
        <5> HIDE DEF val
        <5> QED
          BY <1>3, <2>1, OneLess
      <4>2. new \in [DOMAIN new -> Objects]
        <5>1. \A e \in DOMAIN entries' : entries'[e].value \in Objects
          BY <2>2, <2>4, Entries
        <5> QED
          BY <5>1
      <4>3. /\ DOMAIN new = DOMAIN mid \cup {found} /\ found \notin DOMAIN mid
            /\ new[found] = object /\ \A e \in DOMAIN mid : new[e] = mid[e]
        <5> HIDE DEF new, val
        <5> QED
          BY <1>3, <2>1, <3>1
      <4> HIDE DEF mid, new, val
      <4>4. Counting(new, OBJECT_REF(__haplo_object_free(counts, val[found]), object))
        BY <1>6, <4>1, <4>2, <4>3, OneMore
      <4> QED
        BY <2>5, <3>1, <3>3, <4>4
    <3> QED
      BY <3>2, <3>3
  <2>10. order' \in Seq(Keys) /\ Len(order') = Len(entries') /\ \A e \in 1..Len(entries') : order'[e] = entries'[e].key
    BY <1>2, <2>2, <2>3
  <2> QED
    BY <1>1, <1>2, <2>2, <2>7, <2>8, <2>9, <2>10 DEF TableInv
<1> QED
  BY <1>7, <1>8

\* Every operation of hash.tmpl and hash.c keeps the invariant.
LEMMA TableStep == TableInv /\ (TableNext \/ UNCHANGED tableVars) => TableInv'
<1> SUFFICES ASSUME TableInv, TableNext \/ UNCHANGED tableVars PROVE TableInv'
  OBVIOUS
<1>1. CASE __haplo_hash_set
  BY <1>1, TableSet
<1>2. CASE __haplo_hash_copy
  BY <1>2, TableCopy
<1>3. CASE __haplo_hash_free
  BY <1>3, TableFree
<1>4. CASE UNCHANGED tableVars
  <2>1. /\ entries' = entries /\ entry' = entry /\ counts' = counts
        /\ map' = map /\ order' = order /\ copies' = copies
    BY <1>4 DEF tableVars
  <2> QED
    BY <2>1 DEF TableInv
<1> QED
  BY <1>1, <1>2, <1>3, <1>4 DEF TableNext

\* A key has the value last set, whatever the table went through.
LEMMA TableFunction == TableInv => TableIsFunction
<1> SUFFICES ASSUME TableInv, NEW k \in Keys
             PROVE  LET e == hash_get(entries, entry, k)
                    IN  IF k \in DOMAIN map THEN e # 0 /\ entries[e].value.of = map[k] ELSE e = 0
  BY DEF TableIsFunction
<1> DEFINE e == hash_get(entries, entry, k)
           n == Len(entries)
<1>1. /\ DOMAIN map = {entries[d].key : d \in 1..n} /\ \A d \in 1..n : map[entries[d].key] = entries[d].value.of
      /\ entries \in Seq(Entry) /\ n \in Nat
  BY DEF TableInv, TableOK
<1>2. \/ e = 0 /\ \A d \in 1..n : entries[d].key # k
      \/ e \in 1..n /\ entries[e].key = k
  <2>1. PICK size \in Nat \ {0} : ChainsOf(entries, 1..n, entry, size)
    BY DEF TableInv, TableOK
  <2> QED
    BY <1>1, <2>1, HashGet
<1> HIDE DEF e
<1>3. IF k \in DOMAIN map THEN e # 0 /\ entries[e].value.of = map[k] ELSE e = 0
  BY <1>1, <1>2
<1> QED
  BY <1>3 DEF e

\* Every entry is in one chain, once.
LEMMA TableChains == TableInv => ChainsWhole
<1> SUFFICES ASSUME TableInv PROVE ChainsWhole
  OBVIOUS
<1> DEFINE n == Len(entries)
<1>1. entries \in Seq(Entry) /\ n \in Nat /\ DOMAIN entries = 1..n
  BY DEF TableInv, TableOK
<1>2. PICK size \in Nat \ {0} : ChainsOf(entries, 1..n, entry, size)
  BY DEF TableInv, TableOK
<1> HIDE DEF n
<1>3. DOMAIN entry = 0..(size - 1) /\ \A c \in 0..(size - 1) : entry[c] \in Seq(1..n)
  BY <1>2 DEF ChainsOf
<1>4. \A c \in 0..(size - 1) : DOMAIN entry[c] = 1..Len(entry[c]) /\ \A r \in 1..Len(entry[c]) : entry[c][r] \in 1..n
  <2> TAKE c \in 0..(size - 1)
  <2> DEFINE s == entry[c]
  <2> DEFINE T == 1..n
  <2>1. s \in Seq(T)
    BY <1>3
  <2> HIDE DEF s, T
  <2>2. DOMAIN s = 1..Len(s) /\ \A r \in 1..Len(s) : s[r] \in T
    BY <2>1
  <2> QED
    BY <2>2 DEF s, T
<1>5. /\ \A c \in 0..(size - 1) : /\ \A i, j \in 1..Len(entry[c]) : entry[c][i] = entry[c][j] => i = j
                                  /\ \A i \in 1..Len(entry[c]) : Home(entries, entry[c][i], size) = c
      /\ \A e \in 1..n : \E i \in 1..Len(entry[Home(entries, e, size)]) : entry[Home(entries, e, size)][i] = e
  BY <1>2 DEF ChainsOf
<1>6. ASSUME NEW e \in DOMAIN entries
      PROVE  \E c \in DOMAIN entry : \E r \in DOMAIN entry[c] :
               /\ entry[c][r] = e
               /\ \A d \in DOMAIN entry : \A q \in DOMAIN entry[d] : entry[d][q] = e => <<d, q>> = <<c, r>>
  <2> DEFINE c == Home(entries, e, size)
  <2>1. c \in 0..(size - 1) /\ e \in 1..n
    BY <1>1, HomeIn DEF n
  <2>2. PICK r \in 1..Len(entry[c]) : entry[c][r] = e
    BY <1>5, <2>1
  <2>3. ASSUME NEW d \in DOMAIN entry, NEW q \in DOMAIN entry[d], entry[d][q] = e
        PROVE  <<d, q>> = <<c, r>>
    <3>1. d \in 0..(size - 1) /\ q \in 1..Len(entry[d])
      BY <1>3, <1>4
    <3>2. d = c
      BY <1>5, <2>3, <3>1
    <3> HIDE DEF c
    <3>3. q = r
      BY <1>5, <2>1, <2>2, <2>3, <3>1, <3>2
    <3> QED
      BY <3>2, <3>3
  <2> HIDE DEF c
  <2> QED
    BY <1>3, <1>4, <2>1, <2>2, <2>3
<1>7. ASSUME NEW c \in DOMAIN entry PROVE ToSet(entry[c]) \subseteq DOMAIN entries
  BY <1>1, <1>3, <1>4 DEF ToSet
<1> QED
  BY <1>6, <1>7 DEF ChainsWhole

\* The searches for the first key with a value.
Searched(es, v) == haplo_hash_search(es, LAMBDA x : x.of = v)
SearchedIn(v) == SelectInSeq(order, LAMBDA k : map[k] = v)

\* Loops, sorted loops and searches see the entries in order.
LEMMA TableLoops == TableInv => LoopsInOrder
<1> SUFFICES ASSUME TableInv PROVE LoopsInOrder
  OBVIOUS
<1> DEFINE n == Len(entries)
<1>1. /\ entries \in Seq(Entry) /\ n \in Nat /\ DOMAIN entries = 1..n /\ Distinct(entries)
      /\ order \in Seq(Keys) /\ Len(order) = n /\ \A e \in 1..n : order[e] = entries[e].key
      /\ \A e \in 1..n : map[entries[e].key] = entries[e].value.of
  BY DEF TableInv, TableOK, Distinct
<1> HIDE DEF n
<1>2. [e \in DOMAIN entries |-> entries[e].key] = order
  <2>1. order = [e \in 1..n |-> order[e]]
    BY <1>1
  <2> QED
    BY <1>1, <2>1
<1>3. LET sorted == haplo_hash_str_loop_sorted(entries)
      IN  /\ Len(sorted) = Len(order) /\ ToSet(sorted) = ToSet(entries)
          /\ \A e \in 1..(Len(sorted) - 1) : hash_str_sort(sorted[e].key, sorted[e + 1].key)
  BY <1>1, Sorted DEF n
<1>4. ASSUME NEW v \in HashValues
      PROVE  Searched(entries, v) = IF SearchedIn(v) = 0 THEN <<>> ELSE <<order[SearchedIn(v)]>>
  <2> DEFINE I == {i \in 1..n : entries[i].value.of = v}
             J == {i \in 1..n : map[order[i]] = v}
             f == IF I # {} THEN Min(I) ELSE 0
  <2>1. I = J
    BY <1>1
  <2>2. SearchedIn(v) = IF J # {} THEN Min(J) ELSE 0
    BY <1>1 DEF SearchedIn, SelectInSeq
  <2>3. Searched(entries, v) = IF f = 0 THEN <<>> ELSE <<entries[f].key>>
    BY <1>1 DEF Searched, haplo_hash_search, SelectInSeq, n
  <2>4. f # 0 => f \in 1..n
    <3>1. I \in SUBSET Nat /\ \A i \in I : i \in 1..n
      BY <1>1
    <3> HIDE DEF I
    <3> QED
      BY <3>1, MinIn
  <2>5. SearchedIn(v) = f
    BY <2>1, <2>2
  <2> HIDE DEF I, J, f
  <2> QED
    BY <1>1, <2>3, <2>4, <2>5
<1> QED
  BY <1>2, <1>3, <1>4 DEF LoopsInOrder, Searched, SearchedIn

\* An object lives as long as an entry has it.
LEMMA TableCounts == TableInv => EntriesCounted
BY CountedAre DEF TableInv, TableOK

-----------------------------------------------------------------------------
(* The links: their cells *)

\* The lists of slink.c: the first cell, and what the list carries.
Linked == [first : Cells, items : Seq(Data)]

\* The cells cs are those of the list l, in order.
Path(l, cs, nx, dt) ==
  /\ l \in Linked /\ cs \in Seq(Cells) /\ Len(cs) >= 1
  /\ Len(l.items) = Len(cs) /\ l.first = cs[1]
  /\ \A k \in 1..Len(cs) : dt[cs[k]] = l.items[k]
  /\ \A k \in 1..(Len(cs) - 1) : nx[cs[k]] = cs[k + 1]
  /\ nx[cs[Len(cs)]] = 0

\* What CellsOf goes through.
Going(g, l, nx, N) ==
  g = [n \in 1..N |->
         IF n = 1 THEN <<l.first>>
         ELSE IF nx[Last(g[n - 1])] = 0 THEN g[n - 1]
         ELSE Append(g[n - 1], nx[Last(g[n - 1])])]

\* A walk along "next" from the first cell goes through the cells of the list and ends.
LEMMA CellsAre ==
  ASSUME NEW l, NEW cs, Path(l, cs, next, linkData), Injective(cs)
  PROVE  CellsOf(l) = cs
<1> DEFINE N == Cardinality(Cells)
           m == Len(cs)
           at(n) == IF n <= m THEN n ELSE m
           f == [n \in 1..N |-> SubSeq(cs, 1, at(n))]
           g == CHOOSE g : Going(g, l, next, N)
<1>1. /\ cs \in Seq(Cells) /\ m \in Nat /\ 1 <= m /\ l.first = cs[1]
      /\ \A k \in 1..(m - 1) : next[cs[k]] = cs[k + 1]
      /\ next[cs[m]] = 0 /\ \A k \in 1..m : cs[k] \in Cells
  <2>1. cs \in Seq(Cells) /\ m >= 1 /\ l.first = cs[1]
    BY DEF Path
  <2>2. (\A k \in 1..(m - 1) : next[cs[k]] = cs[k + 1]) /\ next[cs[m]] = 0
    BY DEF Path
  <2>3. m \in Nat /\ \A k \in 1..m : cs[k] \in Cells
    BY <2>1
  <2> HIDE DEF m
  <2> QED
    BY <2>1, <2>2, <2>3
<1>2. N \in Nat /\ m <= N /\ 1 <= N
  BY <1>1, CellAssumption, NotMore
<1>3. CellsOf(l) = g[N]
  BY DEF CellsOf, Going
<1> HIDE DEF N, m
<1>4. ASSUME NEW k \in 1..m
      PROVE  /\ SubSeq(cs, 1, k) \in Seq(Cells) /\ Len(SubSeq(cs, 1, k)) = k
             /\ Last(SubSeq(cs, 1, k)) = cs[k]
  <2> DEFINE s == SubSeq(cs, 1, k)
  <2>1. k \in 0..Len(cs) /\ k \in 1..k
    BY <1>1 DEF m
  <2>2. s \in Seq(Cells) /\ Len(s) = k /\ \A i \in 1..k : s[i] = cs[i]
    BY <1>1, <2>1, FrontIs
  <2> HIDE DEF s
  <2>3. Last(s) = cs[k]
    BY <2>1, <2>2 DEF Last
  <2> QED
    BY <2>2, <2>3 DEF s
<1>5. ASSUME NEW n \in 2..N
      PROVE  LET s == SubSeq(cs, 1, at(n - 1))
             IN  SubSeq(cs, 1, at(n)) = IF next[Last(s)] = 0 THEN s ELSE Append(s, next[Last(s)])
  <2> DEFINE s == SubSeq(cs, 1, at(n - 1))
  <2>1. n \in Nat /\ n - 1 >= 1
    BY <1>2
  <2>2. CASE n - 1 >= m
    <3>1. at(n - 1) = m /\ at(n) = m /\ m \in 1..m
      BY <1>1, <2>1, <2>2
    <3>2. next[Last(s)] = 0
      BY <1>1, <1>4, <3>1
    <3> QED
      BY <3>1, <3>2
  <2>3. CASE n - 1 < m
    <3>1. at(n - 1) = n - 1 /\ at(n) = n /\ n - 1 \in 1..m /\ n \in 1..m /\ n - 1 \in 1..(m - 1) /\ (n - 1) + 1 = n
      BY <1>1, <2>1, <2>3
    <3>2. s \in Seq(Cells) /\ Last(s) = cs[n - 1] /\ s = SubSeq(cs, 1, n - 1)
      BY <1>4, <3>1
    <3>3. next[Last(s)] = cs[n] /\ cs[n] \in Cells
      BY <1>1, <3>1, <3>2
    <3>4. cs[n] # 0
      BY <3>3, CellAssumption
    <3>5. SubSeq(cs, 1, n) = SubSeq(cs, 1, n - 1) \o <<cs[n]>>
      <4>1. 1 \in 1..Len(cs) /\ n \in 1..Len(cs)
        BY <1>1, <3>1 DEF m
      <4> QED
        BY <1>1, <4>1, SubSeqRecursiveSecond
    <3>6. Append(s, cs[n]) = s \o <<cs[n]>>
      <4> HIDE DEF s
      <4> QED
        BY <3>2, <3>3, AppendIsConcat
    <3> QED
      BY <3>1, <3>2, <3>3, <3>4, <3>5, <3>6
  <2> QED
    BY <1>1, <2>1, <2>2, <2>3
<1>6. SubSeq(cs, 1, at(1)) = <<l.first>>
  <2>1. at(1) = 1 /\ 1 \in 1..m
    BY <1>1
  <2>2. /\ SubSeq(cs, 1, 1) \in Seq(Cells) /\ Len(SubSeq(cs, 1, 1)) = 1 /\ Last(SubSeq(cs, 1, 1)) = cs[1]
    BY <1>4, <2>1
  <2> DEFINE s == SubSeq(cs, 1, 1)
  <2>3. s \in Seq(Cells) /\ Len(s) = 1 /\ s[1] = cs[1]
    BY <2>2 DEF Last
  <2> HIDE DEF s
  <2>4. s = <<cs[1]>>
    BY <2>3
  <2> QED
    BY <1>1, <2>1, <2>4 DEF s
<1> HIDE DEF at
<1>7. Going(f, l, next, N)
  <2> DEFINE h == [n \in 1..N |->
                     IF n = 1 THEN <<l.first>>
                     ELSE IF next[Last(f[n - 1])] = 0 THEN f[n - 1]
                     ELSE Append(f[n - 1], next[Last(f[n - 1])])]
  <2>1. ASSUME NEW n \in 1..N PROVE f[n] = h[n]
    <3>1. CASE n = 1
      BY <1>6, <3>1
    <3>2. CASE n # 1
      <4>1. n \in 2..N /\ n - 1 \in 1..N
        BY <1>2, <3>2
      <4>2. f[n - 1] = SubSeq(cs, 1, at(n - 1)) /\ f[n] = SubSeq(cs, 1, at(n))
        BY <4>1
      <4>3. h[n] = IF next[Last(f[n - 1])] = 0 THEN f[n - 1] ELSE Append(f[n - 1], next[Last(f[n - 1])])
        BY <3>2
      <4> HIDE DEF f, h
      <4> QED
        BY <1>5, <4>1, <4>2, <4>3
    <3> QED
      BY <3>1, <3>2
  <2>2. f = [n \in 1..N |-> f[n]]
    OBVIOUS
  <2>3. f = [n \in 1..N |-> h[n]]
    <3> HIDE DEF f, h
    <3> QED
      BY <2>1, <2>2
  <2>4. [n \in 1..N |-> h[n]] = h
    <3> HIDE DEF f
    <3> QED
      OBVIOUS
  <2> QED
    BY <2>3, <2>4 DEF Going
<1> HIDE DEF f
<1>8. Going(g, l, next, N)
  BY <1>7
<1> HIDE DEF g
<1>9. ASSUME NEW n \in 1..N
      PROVE  /\ g[n] = IF n = 1 THEN <<l.first>>
                       ELSE IF next[Last(g[n - 1])] = 0 THEN g[n - 1]
                       ELSE Append(g[n - 1], next[Last(g[n - 1])])
             /\ f[n] = IF n = 1 THEN <<l.first>>
                       ELSE IF next[Last(f[n - 1])] = 0 THEN f[n - 1]
                       ELSE Append(f[n - 1], next[Last(f[n - 1])])
  BY <1>7, <1>8 DEF Going
<1> DEFINE P == {n \in 0..N : n # 0 => g[n] = f[n]}
<1>10. P = 0..N
  <2>1. P \in SUBSET (0..N) /\ 0 \in P
    BY <1>2
  <2>2. ASSUME NEW n \in 1..N, n - 1 \in P PROVE n \in P
    <3>1. n \in 0..N
      BY <1>2
    <3>2. CASE n = 1
      BY <1>9, <3>1, <3>2
    <3>3. CASE n # 1
      <4>1. n - 1 # 0
        BY <1>2, <3>3
      <4>2. g[n - 1] = f[n - 1]
        BY <2>2, <4>1
      <4>3. g[n] = f[n]
        BY <1>9, <3>3, <4>2
      <4> QED
        BY <3>1, <4>3
    <3> QED
      BY <3>2, <3>3
  <2> HIDE DEF P
  <2> QED
    BY <1>2, <2>1, <2>2, UpTo
<1>11. g[N] = f[N]
  <2>1. N \in 0..N /\ N # 0
    BY <1>2
  <2> QED
    BY <1>10, <2>1
<1>12. f[N] = cs
  <2>1. at(N) = m /\ N \in 1..N
    BY <1>1, <1>2 DEF at
  <2>2. SubSeq(cs, 1, m) = cs
    BY <1>1, SubSeqFull DEF m
  <2> QED
    BY <2>1, <2>2 DEF f
<1> QED
  BY <1>3, <1>11, <1>12

-----------------------------------------------------------------------------
(* Who holds a cell *)

\* A cell is in a sequence; the cells that are in one of them.
Holds(cs, c) == \E k \in 1..Len(cs) : cs[k] = c
Held(css) == {c \in Cells : \E l \in 1..Len(css) : Holds(css[l], c)}

\* A cell is once in one of the sequences.
Apart(css) ==
  /\ \A l \in 1..Len(css) : Injective(css[l])
  /\ \A l, m \in 1..Len(css) : \A c \in Cells : Holds(css[l], c) /\ Holds(css[m], c) => l = m

\* What the sequences hold is held.
LEMMA HeldIn ==
  ASSUME NEW css \in Seq(Seq(Cells)), NEW l \in 1..Len(css), NEW k \in 1..Len(css[l])
  PROVE  css[l][k] \in Cells /\ css[l][k] \in Held(css) /\ Holds(css[l], css[l][k])
<1> DEFINE cs == css[l]
<1>1. cs \in Seq(Cells)
  OBVIOUS
<1> HIDE DEF cs
<1>2. k \in 1..Len(cs)
  BY DEF cs
<1>3. cs[k] \in Cells
  BY <1>1, <1>2
<1>4. Holds(cs, cs[k])
  BY <1>2 DEF Holds
<1> QED
  BY <1>3, <1>4 DEF cs, Held

\* One of the sequences has one cell more.
LEMMA HeldMore ==
  ASSUME NEW css \in Seq(Seq(Cells)), Apart(css), NEW l \in 1..Len(css), NEW new \in Cells, new \notin Held(css),
         NEW cs \in Seq(Cells), Injective(cs), \A c \in Cells : Holds(cs, c) <=> c = new \/ Holds(css[l], c)
  PROVE  /\ [css EXCEPT ![l] = cs] \in Seq(Seq(Cells))
         /\ Apart([css EXCEPT ![l] = cs]) /\ Held([css EXCEPT ![l] = cs]) = Held(css) \cup {new}
<1> DEFINE n == Len(css)
           dss == [css EXCEPT ![l] = cs]
<1>1. dss \in Seq(Seq(Cells)) /\ Len(dss) = n /\ dss[l] = cs /\ \A m \in 1..n : m # l => dss[m] = css[m]
  OBVIOUS
<1> HIDE DEF dss
<1>2. \A m \in 1..n : ~ Holds(css[m], new)
  BY DEF Held
<1>3. \A m \in 1..n : Injective(dss[m])
  BY <1>1 DEF Apart
<1>4. \A m \in 1..n : \A c \in Cells : Holds(dss[m], c) <=> (m = l /\ c = new) \/ Holds(css[m], c)
  BY <1>1
<1>5. \A m, o \in 1..n : \A c \in Cells : Holds(dss[m], c) /\ Holds(dss[o], c) => m = o
  <2> SUFFICES ASSUME NEW m \in 1..n, NEW o \in 1..n, NEW c \in Cells, Holds(dss[m], c), Holds(dss[o], c)
               PROVE  m = o
    OBVIOUS
  <2>1. CASE c = new
    BY <1>2, <1>4, <2>1
  <2>2. CASE c # new
    BY <1>4, <2>2 DEF Apart
  <2> QED
    BY <2>1, <2>2
<1>6. Apart(dss)
  BY <1>1, <1>3, <1>5 DEF Apart
<1>7. Held(dss) = Held(css) \cup {new}
  BY <1>1, <1>4 DEF Held
<1> QED
  BY <1>1, <1>6, <1>7 DEF dss

\* There is one more sequence, of one cell.
LEMMA HeldAlone ==
  ASSUME NEW css \in Seq(Seq(Cells)), Apart(css), NEW new \in Cells, new \notin Held(css)
  PROVE  /\ Append(css, <<new>>) \in Seq(Seq(Cells)) /\ Len(Append(css, <<new>>)) = Len(css) + 1
         /\ Apart(Append(css, <<new>>)) /\ Held(Append(css, <<new>>)) = Held(css) \cup {new}
<1> DEFINE n == Len(css)
           cs == <<new>>
           dss == Append(css, cs)
<1>1. cs \in Seq(Cells) /\ Len(cs) = 1 /\ cs[1] = new
  OBVIOUS
<1>2. Injective(cs) /\ \A c : Holds(cs, c) <=> c = new
  BY <1>1 DEF Injective, Holds
<1> HIDE DEF cs
<1>3. /\ dss \in Seq(Seq(Cells)) /\ Len(dss) = n + 1 /\ n \in Nat /\ dss[n + 1] = cs
      /\ \A m \in 1..n : dss[m] = css[m]
  BY <1>1
<1> HIDE DEF dss, n
<1>4. \A m \in 1..(n + 1) : m \in 1..n \/ m = n + 1
  BY <1>3
<1>5. \A m \in 1..n : ~ Holds(css[m], new) /\ m # n + 1 /\ m \in 1..(n + 1)
  BY <1>3 DEF Held, n
<1>6. \A m \in 1..(n + 1) : Injective(dss[m])
  BY <1>2, <1>3, <1>4 DEF Apart, n
<1>7. \A m, o \in 1..(n + 1) : \A c \in Cells : Holds(dss[m], c) /\ Holds(dss[o], c) => m = o
  <2> SUFFICES ASSUME NEW m \in 1..(n + 1), NEW o \in 1..(n + 1), NEW c \in Cells, Holds(dss[m], c), Holds(dss[o], c)
               PROVE  m = o
    OBVIOUS
  <2>1. CASE c = new
    BY <1>2, <1>3, <1>4, <1>5, <2>1
  <2>2. CASE c # new
    <3>1. m \in 1..n /\ o \in 1..n
      BY <1>2, <1>3, <1>4, <2>2
    <3> QED
      BY <1>3, <3>1 DEF Apart, n
  <2> QED
    BY <2>1, <2>2
<1>8. Apart(dss)
  BY <1>3, <1>6, <1>7 DEF Apart
<1>9. Held(dss) = Held(css) \cup {new}
  <2>1. \A c \in Cells : (\E m \in 1..(n + 1) : Holds(dss[m], c)) <=> (\E m \in 1..n : Holds(css[m], c)) \/ c = new
    <3>1. n + 1 \in 1..(n + 1)
      BY <1>3
    <3> QED
      BY <1>2, <1>3, <1>4, <1>5, <3>1
  <2> QED
    BY <1>3, <2>1 DEF Held, n
<1> QED
  BY <1>3, <1>8, <1>9 DEF dss, cs, n

\* One of the sequences is taken away.
LEMMA HeldLess ==
  ASSUME NEW css \in Seq(Seq(Cells)), Apart(css), NEW l \in 1..Len(css)
  PROVE  /\ RemoveAt(css, l) \in Seq(Seq(Cells)) /\ Len(RemoveAt(css, l)) = Len(css) - 1
         /\ Apart(RemoveAt(css, l))
         /\ Held(RemoveAt(css, l)) = {c \in Held(css) : ~ Holds(css[l], c)}
<1> DEFINE n == Len(css)
           dss == RemoveAt(css, l)
           at(m) == IF m < l THEN m ELSE m + 1
<1>1. /\ dss \in Seq(Seq(Cells)) /\ Len(dss) = n - 1 /\ n \in Nat
      /\ \A i \in 1..(l - 1) : dss[i] = css[i]
      /\ \A i \in l..(n - 1) : dss[i] = css[i + 1]
  BY RemovedIs
<1> HIDE DEF dss
<1>2. \A m \in 1..(n - 1) : at(m) \in 1..n /\ at(m) # l /\ dss[m] = css[at(m)]
  <2> TAKE m \in 1..(n - 1)
  <2>1. CASE m < l
    <3>1. m \in 1..(l - 1)
      BY <2>1
    <3> QED
      BY <1>1, <2>1, <3>1
  <2>2. CASE ~ (m < l)
    <3>1. m \in l..(n - 1)
      BY <1>1, <2>2
    <3> QED
      BY <1>1, <2>2, <3>1
  <2> QED
    BY <2>1, <2>2
<1>3. \A m, o \in 1..(n - 1) : at(m) = at(o) => m = o
  OBVIOUS
<1>4. \A o \in 1..n : o # l => \E m \in 1..(n - 1) : at(m) = o
  <2> SUFFICES ASSUME NEW o \in 1..n, o # l PROVE \E m \in 1..(n - 1) : at(m) = o
    OBVIOUS
  <2>1. CASE o < l
    <3>1. o \in 1..(n - 1) /\ at(o) = o
      BY <1>1, <2>1
    <3> QED
      BY <3>1
  <2>2. CASE l < o
    <3>1. o - 1 \in 1..(n - 1) /\ at(o - 1) = o
      BY <1>1, <2>2
    <3> QED
      BY <3>1
  <2> QED
    BY <2>1, <2>2
<1> HIDE DEF at, n
<1>5. \A m \in 1..(n - 1) : Injective(dss[m])
  BY <1>2 DEF Apart, n
<1>6. \A m, o \in 1..(n - 1) : \A c \in Cells : Holds(dss[m], c) /\ Holds(dss[o], c) => m = o
  <2> SUFFICES ASSUME NEW m \in 1..(n - 1), NEW o \in 1..(n - 1), NEW c \in Cells, Holds(dss[m], c), Holds(dss[o], c)
               PROVE  m = o
    OBVIOUS
  <2>1. at(m) = at(o)
    BY <1>2 DEF Apart, n
  <2> QED
    BY <1>3, <2>1
<1>7. Apart(dss)
  BY <1>1, <1>5, <1>6 DEF Apart
<1>8. Held(dss) = {c \in Held(css) : ~ Holds(css[l], c)}
  <2>1. ASSUME NEW c \in Cells, NEW m \in 1..(n - 1), Holds(dss[m], c)
        PROVE  c \in Held(css) /\ ~ Holds(css[l], c)
    BY <1>2, <2>1 DEF Held, Apart, n
  <2>2. ASSUME NEW c \in Held(css), ~ Holds(css[l], c)
        PROVE  \E m \in 1..(n - 1) : Holds(dss[m], c)
    <3>1. PICK o \in 1..n : Holds(css[o], c)
      BY DEF Held, n
    <3>2. o # l
      BY <2>2, <3>1
    <3>3. PICK m \in 1..(n - 1) : at(m) = o
      BY <1>4, <3>2
    <3> QED
      BY <1>2, <3>1, <3>3
  <2>3. Held(dss) = {c \in Cells : \E m \in 1..(n - 1) : Holds(dss[m], c)}
    BY <1>1 DEF Held
  <2>4. Held(css) \subseteq Cells
    BY DEF Held
  <2> QED
    BY <2>1, <2>2, <2>3, <2>4
<1> QED
  BY <1>1, <1>7, <1>8 DEF dss, n

-----------------------------------------------------------------------------
(* The cache *)

\* The states of the cache of memory.c, and the cells it may give.
Caches == [head : 0..SLINK_CACHE_SIZE, slot : [0..(SLINK_CACHE_SIZE - 1) -> Cells \cup {0}], malloced : SUBSET Cells]

InCache(cache) == {cache.slot[n] : n \in cache.head..(SLINK_CACHE_SIZE - 1)}

\* The cells of malloc are those in the cache, once each, and those used, H.
Right(cache, H) ==
  /\ cache \in Caches
  /\ \A n \in cache.head..(SLINK_CACHE_SIZE - 1) : cache.slot[n] \in Cells
  /\ \A n, o \in cache.head..(SLINK_CACHE_SIZE - 1) : cache.slot[n] = cache.slot[o] => n = o
  /\ InCache(cache) \cap H = {}
  /\ cache.malloced = InCache(cache) \cup H

\* A step of the release of a list.
ReleaseStep == [p \in Caches \X Cells |-> HAPLO_MCACHE_RELEASE(p[1], p[2])]

\* HAPLO_MCACHE_RELEASE leaves a cache, whether there is room or not.
LEMMA ReleaseIn ==
  ASSUME NEW cache \in Caches, NEW c \in Cells
  PROVE  HAPLO_MCACHE_RELEASE(cache, c) \in Caches
<1>0. SLINK_CACHE_SIZE \in Nat
  BY CellAssumption
<1>1. CASE cache.head > 0
  <2>1. cache.head - 1 \in 0..SLINK_CACHE_SIZE /\ cache.head - 1 \in 0..(SLINK_CACHE_SIZE - 1)
    BY <1>0, <1>1 DEF Caches
  <2>2. [cache.slot EXCEPT ![cache.head - 1] = c] \in [0..(SLINK_CACHE_SIZE - 1) -> Cells \cup {0}]
    BY DEF Caches
  <2>3. HAPLO_MCACHE_RELEASE(cache, c) = [head |-> cache.head - 1, slot |-> [cache.slot EXCEPT ![cache.head - 1] = c],
                                          malloced |-> cache.malloced]
    BY <1>1 DEF HAPLO_MCACHE_RELEASE, Caches
  <2>4. cache.malloced \in SUBSET Cells
    BY DEF Caches
  <2> QED
    BY <2>1, <2>2, <2>3, <2>4 DEF Caches
<1>2. CASE ~ (cache.head > 0)
  BY <1>2 DEF HAPLO_MCACHE_RELEASE, Caches
<1> QED
  BY <1>1, <1>2

\* HAPLO_MCACHE_RELEASE: the cell goes to the cache, or to free, and is in use no more.
LEMMA ReleaseOne ==
  ASSUME NEW cache, NEW H \in SUBSET Cells, Right(cache, H), NEW c \in H
  PROVE  Right(HAPLO_MCACHE_RELEASE(cache, c), H \ {c})
<1> DEFINE S == SLINK_CACHE_SIZE
           d == HAPLO_MCACHE_RELEASE(cache, c)
           h == cache.head
<1>0. S \in Nat /\ cache \in Caches /\ h \in 0..S /\ DOMAIN cache.slot = 0..(S - 1)
  BY CellAssumption DEF Right, Caches
<1>1. d \in Caches
  BY <1>0, ReleaseIn
<1>2. /\ \A n \in h..(S - 1) : cache.slot[n] \in Cells
      /\ \A n, o \in h..(S - 1) : cache.slot[n] = cache.slot[o] => n = o
      /\ InCache(cache) \cap H = {} /\ cache.malloced = InCache(cache) \cup H
  BY DEF Right
<1>3. CASE h > 0
  <2>1. d = [cache EXCEPT !.head = @ - 1, !.slot[h - 1] = c]
    BY <1>3 DEF HAPLO_MCACHE_RELEASE
  <2>2. /\ d.head = h - 1 /\ d.malloced = cache.malloced /\ h - 1 \in 0..(S - 1)
        /\ d.slot[h - 1] = c /\ \A n \in h..(S - 1) : d.slot[n] = cache.slot[n] /\ n # h - 1
    <3>1. /\ d.head = h - 1 /\ d.malloced = cache.malloced /\ d.slot = [cache.slot EXCEPT ![h - 1] = c]
      BY <1>0, <2>1 DEF Caches
    <3>2. h - 1 \in 0..(S - 1) /\ \A n \in h..(S - 1) : n # h - 1 /\ n \in 0..(S - 1)
      BY <1>0, <1>3
    <3> QED
      BY <1>0, <3>1, <3>2
  <2> HIDE DEF d, h, S
  <2>3. (h - 1)..(S - 1) = {h - 1} \cup (h..(S - 1))
    BY <1>0, <1>3
  <2>4. InCache(d) = {c} \cup InCache(cache)
    <3>1. InCache(d) = {d.slot[n] : n \in (h - 1)..(S - 1)} /\ InCache(cache) = {cache.slot[n] : n \in h..(S - 1)}
      BY <2>2 DEF InCache, h, S
    <3> QED
      BY <2>2, <2>3, <3>1
  <2>5. \A n \in h..(S - 1) : cache.slot[n] # c
    <3>1. \A n \in h..(S - 1) : cache.slot[n] \in InCache(cache)
      BY DEF InCache, h, S
    <3> QED
      BY <1>2, <3>1
  <2>6. \A n \in (h - 1)..(S - 1) : d.slot[n] \in Cells
    BY <1>2, <2>2, <2>3
  <2>7. \A n, o \in (h - 1)..(S - 1) : d.slot[n] = d.slot[o] => n = o
    BY <1>2, <2>2, <2>3, <2>5
  <2>8. InCache(d) \cap (H \ {c}) = {} /\ d.malloced = InCache(d) \cup (H \ {c})
    BY <1>2, <2>2, <2>4
  <2>9. Right(d, H \ {c})
    BY <1>1, <2>2, <2>6, <2>7, <2>8 DEF Right, S
  <2> QED
    BY <2>9 DEF d
<1>4. CASE ~ (h > 0)
  <2>1. d = [cache EXCEPT !.malloced = @ \ {c}]
    BY <1>4 DEF HAPLO_MCACHE_RELEASE
  <2>2. d.head = h /\ d.slot = cache.slot /\ d.malloced = cache.malloced \ {c}
    BY <1>0, <2>1 DEF Caches
  <2> HIDE DEF d
  <2>3. InCache(d) = InCache(cache)
    BY <2>2 DEF InCache
  <2>4. InCache(d) \cap (H \ {c}) = {} /\ d.malloced = InCache(d) \cup (H \ {c})
    BY <1>2, <2>2, <2>3
  <2>5. Right(d, H \ {c})
    BY <1>1, <1>2, <2>2, <2>4 DEF Right
  <2> QED
    BY <2>5 DEF d
<1> QED
  BY <1>3, <1>4

\* __haplo_slink_free releases the cells of the list one after the other.
LEMMA ReleaseFolded ==
  ASSUME NEW b \in Caches, NEW s \in Seq(Cells)
  PROVE  Folded(FoldLeft(HAPLO_MCACHE_RELEASE, b, s), Caches, b, s, ReleaseStep)
<1> DEFINE S == Caches
           E == Cells
           G == ReleaseStep
           D == 1..Len(s)
           Eq(it) == it = [u \in SUBSET D |->
                             IF u = {} THEN b ELSE HAPLO_MCACHE_RELEASE(it[u \ {Max(u)}], s[Max(u)])]
           it == CHOOSE it : Eq(it)
<1>0. s \in Seq(E)
  OBVIOUS
<1>7. FoldLeft(HAPLO_MCACHE_RELEASE, b, s) = it[D]
  <2>1. DOMAIN s = D
    BY <1>0
  <2> QED
    BY <2>1 DEF FoldLeft, MapThenFoldSet
<1>1. G \in [S \X E -> S] /\ b \in S
  BY ReleaseIn DEF ReleaseStep
<1>2. ASSUME NEW f, NEW u \in SUBSET D, u # {}, f[u \ {Max(u)}] \in S
      PROVE  G[<<f[u \ {Max(u)}], s[Max(u)]>>] = HAPLO_MCACHE_RELEASE(f[u \ {Max(u)}], s[Max(u)])
  <2>1. s[Max(u)] \in E
    BY <1>0, <1>2, MaxRank
  <2> QED
    BY <1>2, <2>1 DEF ReleaseStep
<1> HIDE DEF G, S, E
<1>3. PICK f \in [SUBSET D -> S] : Folding(f, S, b, s, G)
  BY <1>0, <1>1, FoldExists
<1>4. \A u \in SUBSET D : u \ {Max(u)} \in SUBSET D
  OBVIOUS
<1>5. Eq(f)
  BY <1>2, <1>3, <1>4 DEF Folding
<1>6. Eq(it)
  BY <1>5
<1> HIDE DEF it
<1>8. Folding(it, S, b, s, G)
  BY <1>2, <1>6 DEF Folding
<1>9. Folded(it[D], S, b, s, G)
  BY <1>0, <1>1, <1>8, FoldIs
<1> QED
  BY <1>7, <1>9 DEF S, E, G

\* Once its cells are released, none of a list is used, and each is in the cache once or freed.
LEMMA Released ==
  ASSUME NEW b, NEW H \in SUBSET Cells, Right(b, H), NEW cs \in Seq(Cells), Injective(cs),
         \A k \in 1..Len(cs) : cs[k] \in H
  PROVE  Right(FoldLeft(HAPLO_MCACHE_RELEASE, b, cs), {c \in H : ~ Holds(cs, c)})
<1> DEFINE n == Len(cs)
           v == FoldLeft(HAPLO_MCACHE_RELEASE, b, cs)
           Rest(k) == {c \in H : \A i \in 1..k : cs[i] # c}
<1>1. b \in Caches /\ n \in Nat
  BY DEF Right
<1>2. Folded(v, Caches, b, cs, ReleaseStep)
  BY <1>1, ReleaseFolded
<1> HIDE DEF n, v
<1>3. PICK h \in [0..n -> Caches] :
        h[0] = b /\ v = h[n] /\ \A k \in 1..n : h[k] = ReleaseStep[<<h[k - 1], cs[k]>>]
  BY <1>2 DEF Folded, n
<1>4. \A k \in 1..n : cs[k] \in H /\ cs[k] \in Cells
  BY DEF n
<1> DEFINE P == {k \in 0..n : Right(h[k], Rest(k))}
<1>5. P = 0..n
  <2>1. P \in SUBSET (0..n) /\ 0 \in P
    <3>1. Rest(0) = H /\ 0 \in 0..n
      BY <1>1
    <3> HIDE DEF Rest
    <3> QED
      BY <1>3, <3>1
  <2>2. ASSUME NEW k \in 1..n, k - 1 \in P PROVE k \in P
    <3>1. k - 1 \in 0..n /\ k \in 0..n /\ k \in Nat
      BY <1>1
    <3>2. h[k - 1] \in Caches
      BY <1>3, <3>1
    <3>3. h[k] = HAPLO_MCACHE_RELEASE(h[k - 1], cs[k])
      BY <1>3, <1>4, <3>2 DEF ReleaseStep
    <3>4. cs[k] \in Rest(k - 1)
      <4>1. \A i \in 1..(k - 1) : i \in 1..n /\ i # k
        BY <1>1
      <4>2. \A i \in 1..n : cs[i] = cs[k] => i = k
        BY DEF Injective, n
      <4> QED
        BY <1>4, <4>1, <4>2
    <3>5. Rest(k) = Rest(k - 1) \ {cs[k]}
      <4>1. \A i \in 1..k : i \in 1..(k - 1) \/ i = k
        BY <3>1
      <4>2. k \in 1..k /\ \A i \in 1..(k - 1) : i \in 1..k
        BY <3>1
      <4> QED
        BY <4>1, <4>2
    <3>6. Rest(k - 1) \in SUBSET Cells /\ Right(h[k - 1], Rest(k - 1))
      BY <2>2
    <3> HIDE DEF Rest
    <3>7. Right(HAPLO_MCACHE_RELEASE(h[k - 1], cs[k]), Rest(k - 1) \ {cs[k]})
      BY <3>4, <3>6, ReleaseOne
    <3> QED
      BY <3>1, <3>3, <3>5, <3>7
  <2> HIDE DEF P
  <2> QED
    BY <1>1, <2>1, <2>2, UpTo
<1>6. Right(v, Rest(n))
  <2>1. n \in 0..n
    BY <1>1
  <2> HIDE DEF Rest
  <2> QED
    BY <1>3, <1>5, <2>1
<1>7. Rest(n) = {c \in H : ~ Holds(cs, c)}
  BY DEF Holds, n
<1> QED
  BY <1>6, <1>7 DEF v

-----------------------------------------------------------------------------
(* The lists *)

\* A list whose cells are left alone is the same list.
LEMMA PathKept ==
  ASSUME NEW l, NEW cs, NEW nx, NEW dt, Path(l, cs, nx, dt), NEW ny, NEW du,
         \A k \in 1..Len(cs) : ny[cs[k]] = nx[cs[k]] /\ du[cs[k]] = dt[cs[k]]
  PROVE  Path(l, cs, ny, du)
<1>1. cs \in Seq(Cells) /\ Len(cs) >= 1 /\ Len(cs) \in Nat
  BY DEF Path
<1>2. Len(cs) \in 1..Len(cs) /\ \A k \in 1..(Len(cs) - 1) : k \in 1..Len(cs)
  BY <1>1
<1> QED
  BY <1>2 DEF Path

\* A new cell between the others is there once.
LEMMA PlacedInjective ==
  ASSUME NEW n \in Nat, NEW s \in Seq(Cells), Len(s) = n, Injective(s), NEW k \in 0..n, NEW x, ~ Holds(s, x),
         NEW t, Placed(t, s, k, x)
  PROVE  Injective(t) /\ \A c : Holds(t, c) <=> c = x \/ Holds(s, c)
<1> DEFINE from(i) == IF i <= k THEN i ELSE i - 1
<1>1. k \in Nat /\ k <= n /\ Len(t) = n + 1 /\ t[k + 1] = x
  BY DEF Placed
<1>2. \A i \in 1..(n + 1) : i # k + 1 => from(i) \in 1..n /\ t[i] = s[from(i)]
  <2> SUFFICES ASSUME NEW i \in 1..(n + 1), i # k + 1 PROVE from(i) \in 1..n /\ t[i] = s[from(i)]
    OBVIOUS
  <2>1. CASE i <= k
    <3>1. i \in 1..k /\ i \in 1..n
      BY <1>1, <2>1
    <3> QED
      BY <2>1, <3>1 DEF Placed
  <2>2. CASE ~ (i <= k)
    <3>1. i - 1 \in (k + 1)..n /\ (i - 1) + 1 = i /\ i - 1 \in 1..n
      BY <1>1, <2>2
    <3>2. t[(i - 1) + 1] = s[i - 1]
      BY <3>1 DEF Placed
    <3> QED
      BY <2>2, <3>1, <3>2
  <2> QED
    BY <2>1, <2>2
<1>3. \A i, j \in 1..(n + 1) : i # k + 1 /\ j # k + 1 /\ from(i) = from(j) => i = j
  BY <1>1
<1>4. \A i \in 1..n : s[i] # x
  BY DEF Holds
<1>5. \A i \in 1..n : \E j \in 1..(n + 1) : t[j] = s[i]
  <2> SUFFICES ASSUME NEW i \in 1..n PROVE \E j \in 1..(n + 1) : t[j] = s[i]
    OBVIOUS
  <2>1. CASE i <= k
    <3>1. i \in 1..k /\ i \in 1..(n + 1)
      BY <1>1, <2>1
    <3> QED
      BY <3>1 DEF Placed
  <2>2. CASE ~ (i <= k)
    <3>1. i \in (k + 1)..n /\ i + 1 \in 1..(n + 1)
      BY <1>1, <2>2
    <3>2. t[i + 1] = s[i]
      BY <3>1 DEF Placed
    <3> QED
      BY <3>1, <3>2
  <2> QED
    BY <2>1, <2>2
<1> HIDE DEF from
<1>6. Injective(t)
  <2> SUFFICES ASSUME NEW i \in 1..(n + 1), NEW j \in 1..(n + 1), t[i] = t[j] PROVE i = j
    BY <1>1 DEF Injective
  <2>1. CASE i = k + 1 /\ j # k + 1
    BY <1>1, <1>2, <1>4, <2>1
  <2>2. CASE j = k + 1 /\ i # k + 1
    BY <1>1, <1>2, <1>4, <2>2
  <2>3. CASE i # k + 1 /\ j # k + 1
    <3>1. s[from(i)] = s[from(j)] /\ from(i) \in 1..n /\ from(j) \in 1..n
      BY <1>2, <2>3
    <3>2. from(i) = from(j)
      BY <3>1 DEF Injective
    <3> QED
      BY <1>3, <2>3, <3>2
  <2> QED
    BY <2>1, <2>2, <2>3
<1>7. ASSUME NEW c PROVE Holds(t, c) <=> c = x \/ Holds(s, c)
  <2>1. ASSUME Holds(t, c), c # x PROVE Holds(s, c)
    <3>1. PICK i \in 1..(n + 1) : t[i] = c
      BY <1>1, <2>1 DEF Holds
    <3>2. i # k + 1
      BY <1>1, <2>1, <3>1
    <3> QED
      BY <1>2, <3>1, <3>2 DEF Holds
  <2>2. Holds(t, x)
    <3>1. k + 1 \in 1..(n + 1)
      BY <1>1
    <3> QED
      BY <1>1, <3>1 DEF Holds
  <2>3. ASSUME Holds(s, c) PROVE Holds(t, c)
    BY <1>1, <1>5, <2>3 DEF Holds
  <2> QED
    BY <2>1, <2>2, <2>3
<1> QED
  BY <1>6, <1>7

\* __haplo_slink_append: the new cell between a cell and the one that followed it.
LEMMA PathInserted ==
  ASSUME NEW l, NEW cs, NEW nx, NEW dt, Path(l, cs, nx, dt), Injective(cs), NEW k \in 1..Len(cs),
         NEW new \in Cells, ~ Holds(cs, new), NEW d \in Data, DOMAIN nx = Cells, DOMAIN dt = Cells,
         NEW ny, ny = [nx EXCEPT ![new] = nx[cs[k]], ![cs[k]] = new],
         NEW du, du = [dt EXCEPT ![new] = d]
  PROVE  Path([l EXCEPT !.items = Inserted(l.items, k, d)], Inserted(cs, k, new), ny, du)
<1> DEFINE n == Len(cs)
           p == [l EXCEPT !.items = Inserted(l.items, k, d)]
           ds == Inserted(cs, k, new)
           is == Inserted(l.items, k, d)
<1>1. /\ l \in Linked /\ cs \in Seq(Cells) /\ n \in Nat /\ n >= 1 /\ Len(l.items) = n /\ l.first = cs[1]
      /\ l.items \in Seq(Data)
      /\ \A i \in 1..n : dt[cs[i]] = l.items[i] /\ cs[i] \in Cells
      /\ \A i \in 1..(n - 1) : nx[cs[i]] = cs[i + 1]
      /\ nx[cs[n]] = 0
  BY DEF Path, Linked
<1>2. k \in Nat /\ 1 <= k /\ k <= n
  BY <1>1
<1>3. /\ ds \in Seq(Cells) /\ Len(ds) = n + 1
      /\ \A i \in 1..k : ds[i] = cs[i]
      /\ ds[k + 1] = new
      /\ \A i \in (k + 1)..n : ds[i + 1] = cs[i]
  <2>1. ds \in Seq(Cells) /\ Placed(ds, cs, k, new)
    BY <1>1, InsertedIs
  <2> HIDE DEF ds
  <2> QED
    BY <2>1 DEF Placed
<1>4. /\ is \in Seq(Data) /\ Len(is) = n + 1
      /\ \A i \in 1..k : is[i] = l.items[i]
      /\ is[k + 1] = d
      /\ \A i \in (k + 1)..n : is[i + 1] = l.items[i]
  <2>1. k \in 1..Len(l.items)
    BY <1>1, <1>2
  <2>2. is \in Seq(Data) /\ Placed(is, l.items, k, d)
    BY <1>1, <2>1, InsertedIs
  <2> HIDE DEF is
  <2> QED
    BY <1>1, <2>2 DEF Placed
<1> HIDE DEF ds, is
<1>5. p \in Linked /\ p.items = is /\ p.first = l.first
  BY <1>1, <1>4 DEF Linked, is
<1> HIDE DEF p, n
<1>0. n \in Nat /\ k \in Nat /\ 1 <= k /\ k <= n
  BY <1>1, <1>2
<1>6. \A i \in 1..n : cs[i] # new /\ (cs[i] = cs[k] => i = k)
  BY DEF Holds, Injective, n
<1>7. /\ ny[new] = nx[cs[k]] /\ ny[cs[k]] = new
      /\ \A i \in 1..n : i # k => ny[cs[i]] = nx[cs[i]]
      /\ du[new] = d /\ \A i \in 1..n : du[cs[i]] = dt[cs[i]]
  <2>1. k \in 1..n
    BY <1>2
  <2> QED
    BY <1>1, <1>6, <2>1
<1>8. ds[1] = p.first
  <2>1. 1 \in 1..k
    BY <1>2
  <2> QED
    BY <1>1, <1>3, <1>5, <2>1
<1>9. ASSUME NEW i \in 1..(n + 1) PROVE du[ds[i]] = is[i]
  <2>1. CASE i <= k
    <3>1. i \in 1..k /\ i \in 1..n
      BY <1>0, <2>1
    <3> QED
      BY <1>1, <1>3, <1>4, <1>7, <3>1
  <2>2. CASE i = k + 1
    BY <1>3, <1>4, <1>7, <2>2
  <2>3. CASE i > k + 1
    <3>1. i - 1 \in (k + 1)..n /\ (i - 1) + 1 = i /\ i - 1 \in 1..n
      BY <1>0, <2>3
    <3>2. ds[i] = cs[i - 1] /\ is[i] = l.items[i - 1]
      BY <1>3, <1>4, <3>1
    <3> QED
      BY <1>1, <1>7, <3>1, <3>2
  <2> QED
    BY <1>0, <2>1, <2>2, <2>3
<1>10. ASSUME NEW i \in 1..((n + 1) - 1) PROVE ny[ds[i]] = ds[i + 1]
  <2>0. i \in 1..n /\ i \in Nat
    BY <1>1
  <2>1. CASE i < k
    <3>1. i \in 1..k /\ i + 1 \in 1..k /\ i \in 1..(n - 1) /\ i # k
      BY <1>0, <2>0, <2>1
    <3>2. ds[i] = cs[i] /\ ds[i + 1] = cs[i + 1]
      BY <1>3, <3>1
    <3> QED
      BY <1>1, <1>7, <2>0, <3>1, <3>2
  <2>2. CASE i = k
    <3>1. k \in 1..k
      BY <1>2
    <3> QED
      BY <1>3, <1>7, <2>2, <3>1
  <2>3. CASE i = k + 1
    <3>1. i \in (k + 1)..n /\ k \in 1..(n - 1)
      BY <1>0, <2>0, <2>3
    <3>2. ds[i] = new /\ ds[i + 1] = cs[k + 1]
      BY <1>3, <2>3, <3>1
    <3> QED
      BY <1>1, <1>7, <3>1, <3>2
  <2>4. CASE i > k + 1
    <3> DEFINE j == i - 1
    <3>1. j \in (k + 1)..n /\ i \in (k + 1)..n /\ j + 1 = i /\ j \in 1..(n - 1) /\ j \in 1..n /\ j # k
      BY <1>0, <2>0, <2>4
    <3> HIDE DEF j
    <3>2. ds[i] = cs[j] /\ ds[i + 1] = cs[i]
      BY <1>3, <3>1
    <3>3. nx[cs[j]] = cs[i]
      BY <1>1, <3>1
    <3> QED
      BY <1>7, <3>1, <3>2, <3>3
  <2> QED
    BY <1>0, <2>0, <2>1, <2>2, <2>3, <2>4
<1>11. ny[ds[n + 1]] = 0
  <2>1. CASE k = n
    BY <1>1, <1>3, <1>7, <2>1
  <2>2. CASE k # n
    <3>1. n \in (k + 1)..n /\ n \in 1..n /\ n # k
      BY <1>0, <2>2
    <3>2. ds[n + 1] = cs[n]
      BY <1>3, <3>1
    <3> QED
      BY <1>1, <1>7, <3>1, <3>2
  <2> QED
    BY <2>1, <2>2
<1>12. Path(p, ds, ny, du)
  <2>1. p \in Linked /\ ds \in Seq(Cells) /\ Len(ds) = n + 1 /\ n + 1 >= 1
    BY <1>0, <1>3, <1>5
  <2>2. Len(ds) >= 1 /\ Len(p.items) = Len(ds) /\ p.first = ds[1]
    BY <1>4, <1>5, <1>8, <2>1
  <2>3. \A i \in 1..Len(ds) : du[ds[i]] = p.items[i]
    BY <1>5, <1>9, <2>1
  <2>4. \A i \in 1..(Len(ds) - 1) : ny[ds[i]] = ds[i + 1]
    BY <1>10, <2>1
  <2>5. ny[ds[Len(ds)]] = 0
    BY <1>11, <2>1
  <2> QED
    BY <2>1, <2>2, <2>3, <2>4, <2>5 DEF Path
<1> QED
  BY <1>12 DEF p, ds

\* __haplo_slink_prepend: the new cell before the first.
LEMMA PathPrepended ==
  ASSUME NEW l, NEW cs, NEW nx, NEW dt, Path(l, cs, nx, dt),
         NEW new \in Cells, ~ Holds(cs, new), NEW d \in Data, DOMAIN nx = Cells, DOMAIN dt = Cells,
         NEW ny, ny = [nx EXCEPT ![new] = l.first],
         NEW du, du = [dt EXCEPT ![new] = d]
  PROVE  Path([first |-> new, items |-> <<d>> \o l.items], <<new>> \o cs, ny, du)
<1> DEFINE n == Len(cs)
           ds == <<new>> \o cs
           is == <<d>> \o l.items
           p == [first |-> new, items |-> is]
<1>1. /\ l \in Linked /\ cs \in Seq(Cells) /\ n \in Nat /\ n >= 1 /\ Len(l.items) = n /\ l.first = cs[1]
      /\ l.items \in Seq(Data)
      /\ \A i \in 1..n : dt[cs[i]] = l.items[i] /\ cs[i] \in Cells
      /\ \A i \in 1..(n - 1) : nx[cs[i]] = cs[i + 1]
      /\ nx[cs[n]] = 0
  BY DEF Path, Linked
<1>2. /\ ds \in Seq(Cells) /\ Len(ds) = n + 1 /\ ds[1] = new
      /\ \A i \in 1..n : ds[i + 1] = cs[i]
  BY <1>1, Prepended
<1>3. /\ is \in Seq(Data) /\ Len(is) = n + 1 /\ is[1] = d
      /\ \A i \in 1..n : is[i + 1] = l.items[i]
  BY <1>1, Prepended
<1>4. p \in Linked /\ p.first = new /\ p.items = is
  BY <1>3 DEF Linked
<1> HIDE DEF ds, is, p, n
<1>5. \A i \in 1..n : cs[i] # new
  BY DEF Holds, n
<1>6. /\ ny[new] = cs[1] /\ \A i \in 1..n : ny[cs[i]] = nx[cs[i]]
      /\ du[new] = d /\ \A i \in 1..n : du[cs[i]] = dt[cs[i]]
  BY <1>1, <1>5
<1>7. ASSUME NEW i \in 1..(n + 1) PROVE du[ds[i]] = is[i]
  <2>1. CASE i = 1
    BY <1>2, <1>3, <1>6, <2>1
  <2>2. CASE i # 1
    <3>1. i - 1 \in 1..n /\ (i - 1) + 1 = i
      BY <1>1, <2>2
    <3>2. ds[i] = cs[i - 1] /\ is[i] = l.items[i - 1]
      BY <1>2, <1>3, <3>1
    <3> QED
      BY <1>1, <1>6, <3>1, <3>2
  <2> QED
    BY <2>1, <2>2
<1>8. ASSUME NEW i \in 1..((n + 1) - 1) PROVE ny[ds[i]] = ds[i + 1]
  <2>0. i \in 1..n
    BY <1>1
  <2>1. CASE i = 1
    BY <1>2, <1>6, <2>0, <2>1
  <2>2. CASE i # 1
    <3>1. i - 1 \in 1..n /\ (i - 1) + 1 = i /\ i - 1 \in 1..(n - 1)
      BY <1>1, <2>0, <2>2
    <3>2. ds[i] = cs[i - 1] /\ ds[i + 1] = cs[i]
      BY <1>2, <2>0, <3>1
    <3>3. nx[cs[i - 1]] = cs[i]
      BY <1>1, <3>1
    <3> QED
      BY <1>6, <3>1, <3>2, <3>3
  <2> QED
    BY <2>1, <2>2
<1>9. ny[ds[n + 1]] = 0
  <2>1. n \in 1..n
    BY <1>1
  <2> QED
    BY <1>1, <1>2, <1>6, <2>1
<1>10. Path(p, ds, ny, du)
  <2>1. n + 1 >= 1 /\ Len(ds) = n + 1
    BY <1>1, <1>2
  <2> HIDE DEF n
  <2> QED
    BY <1>2, <1>3, <1>4, <1>7, <1>8, <1>9, <2>1 DEF Path
<1> QED
  BY <1>10 DEF p, ds, is

-----------------------------------------------------------------------------
\* The cache as a record, as HAPLO_MCACHE_RELEASE has it.
Cache == [head |-> head, slot |-> slot, malloced |-> malloced]

\* The lists are the sequences css of cells.
LinksRight(css) ==
  /\ css \in Seq(Seq(Cells)) /\ lists \in Seq(Linked) /\ Len(css) = Len(lists)
  /\ DOMAIN next = Cells /\ DOMAIN linkData = Cells
  /\ \A l \in 1..Len(lists) : Path(lists[l], css[l], next, linkData)
  /\ Apart(css)
  /\ Right(Cache, Held(css))

\* The inductive invariant of the lists: there are sequences of cells they run along.
LinkInv == \E css : LinksRight(css)

\* No list, and an empty cache.
LEMMA LinkInitial == LinkInit => LinkInv
<1> SUFFICES ASSUME LinkInit PROVE LinkInv
  OBVIOUS
<1>1. /\ head = SLINK_CACHE_SIZE /\ slot = [n \in 0..(SLINK_CACHE_SIZE - 1) |-> 0]
      /\ malloced = {} /\ lists = <<>>
      /\ next = [c \in Cells |-> 0] /\ linkData = [c \in Cells |-> 0]
  BY DEF LinkInit
<1> DEFINE css == <<>>
<1>2. css \in Seq(Seq(Cells)) /\ Len(css) = 0 /\ 1..0 = {}
  OBVIOUS
<1>3. lists \in Seq(Linked) /\ Len(lists) = 0
  <2>1. <<>> \in Seq(Linked)
    OBVIOUS
  <2> QED
    BY <1>1, <2>1
<1> HIDE DEF css
<1>4. Held(css) = {} /\ Apart(css)
  BY <1>2 DEF Held, Apart
<1>5. SLINK_CACHE_SIZE \in Nat /\ SLINK_CACHE_SIZE..(SLINK_CACHE_SIZE - 1) = {}
  BY CellAssumption
<1>6. Cache \in Caches
  BY <1>1, <1>5 DEF Cache, Caches
<1>7. Cache.head = SLINK_CACHE_SIZE /\ Cache.malloced = {}
  BY <1>1 DEF Cache
<1>8. Right(Cache, {})
  BY <1>5, <1>6, <1>7 DEF Right, InCache
<1>9. LinksRight(css)
  BY <1>1, <1>2, <1>3, <1>4, <1>8 DEF LinksRight
<1> QED
  BY <1>9 DEF LinkInv

\* A cell that is given was used by none.
LEMMA GetCell ==
  ASSUME NEW H \in SUBSET Cells, Right(Cache, H), NEW new \in Cells, HAPLO_MCACHE_GET(new)
  PROVE  new \notin H /\ Right(Cache', H \cup {new})
<1> DEFINE S == SLINK_CACHE_SIZE
<1>1. /\ S \in Nat /\ head \in 0..S /\ slot \in [0..(S - 1) -> Cells \cup {0}] /\ malloced \in SUBSET Cells
      /\ \A n \in head..(S - 1) : slot[n] \in Cells
      /\ \A n, o \in head..(S - 1) : slot[n] = slot[o] => n = o
      /\ InCache(Cache) \cap H = {} /\ malloced = InCache(Cache) \cup H
      /\ InCache(Cache) = {slot[n] : n \in head..(S - 1)}
  BY CellAssumption DEF Right, Cache, Caches, InCache
<1>2. Cache' = [head |-> head', slot |-> slot', malloced |-> malloced']
  BY DEF Cache
<1> DEFINE d == [head |-> head', slot |-> slot', malloced |-> malloced']
<1>3. InCache(d) = {slot'[n] : n \in head'..(S - 1)} /\ d.head = head' /\ d.slot = slot' /\ d.malloced = malloced'
  BY DEF InCache
<1> DEFINE C == InCache(Cache)
           D == InCache(d)
<1>30. /\ C = {slot[n] : n \in head..(S - 1)} /\ D = {slot'[n] : n \in head'..(S - 1)}
       /\ C \cap H = {} /\ malloced = C \cup H
  BY <1>1, <1>3
<1>4. CASE head < S
  <2>1. new = slot[head] /\ head' = head + 1 /\ slot' = slot /\ malloced' = malloced
    BY <1>4 DEF HAPLO_MCACHE_GET
  <2> HIDE DEF S
  <2>2. /\ head..(S - 1) = {head} \cup ((head + 1)..(S - 1)) /\ \A n \in (head + 1)..(S - 1) : n # head
        /\ head + 1 \in 0..S
    BY <1>1, <1>4
  <2> HIDE DEF C, D
  <2>3. new \in C
    BY <1>30, <2>1, <2>2
  <2>4. \A n \in (head + 1)..(S - 1) : slot[n] # new
    BY <1>1, <2>1, <2>2
  <2>5. D = C \ {new}
    <3>1. D = {slot[n] : n \in (head + 1)..(S - 1)}
      BY <1>30, <2>1
    <3> QED
      BY <1>30, <2>1, <2>2, <2>4, <3>1
  <2>6. d \in Caches
    BY <1>1, <2>1, <2>2 DEF Caches, S
  <2>7. /\ \A n \in d.head..(S - 1) : d.slot[n] \in Cells
        /\ \A n, o \in d.head..(S - 1) : d.slot[n] = d.slot[o] => n = o
    BY <1>1, <2>1, <2>2
  <2>8. D \cap (H \cup {new}) = {} /\ malloced' = D \cup (H \cup {new})
    BY <1>30, <2>1, <2>3, <2>5
  <2>9. Right(d, H \cup {new})
    BY <1>3, <2>6, <2>7, <2>8 DEF Right, S, D
  <2> QED
    BY <1>2, <1>30, <2>3, <2>9
<1>5. CASE ~ (head < S)
  <2>1. new \in Cells \ malloced /\ malloced' = malloced \cup {new} /\ head' = head /\ slot' = slot
    BY <1>5 DEF HAPLO_MCACHE_GET
  <2> HIDE DEF S
  <2>2. head = S /\ head..(S - 1) = {}
    BY <1>1, <1>5
  <2> HIDE DEF C, D
  <2>3. D = {} /\ C = {}
    BY <1>30, <2>1, <2>2
  <2>6. d \in Caches
    BY <1>1, <2>1 DEF Caches, S
  <2>7. /\ \A n \in d.head..(S - 1) : d.slot[n] \in Cells
        /\ \A n, o \in d.head..(S - 1) : d.slot[n] = d.slot[o] => n = o
    BY <2>1, <2>2
  <2>8. D \cap (H \cup {new}) = {} /\ malloced' = D \cup (H \cup {new})
    BY <1>30, <2>1, <2>3
  <2>9. Right(d, H \cup {new})
    BY <1>3, <2>6, <2>7, <2>8 DEF Right, S, D
  <2> QED
    BY <1>2, <1>30, <2>1, <2>3, <2>9
<1> QED
  BY <1>4, <1>5

\* What is held are cells.
LEMMA HeldCells ==
  ASSUME NEW css
  PROVE  Held(css) \in SUBSET Cells
BY DEF Held

\* The lists that are left alone.
LEMMA OthersKept ==
  ASSUME NEW css, LinksRight(css), NEW m \in 1..Len(lists), NEW ny, NEW du,
         \A c \in Cells : Holds(css[m], c) => ny[c] = next[c] /\ du[c] = linkData[c]
  PROVE  Path(lists[m], css[m], ny, du)
<1> DEFINE l == lists[m]
           cs == css[m]
<1>1. Path(l, cs, next, linkData) /\ css \in Seq(Seq(Cells)) /\ m \in 1..Len(css)
  BY DEF LinksRight
<1>2. \A k \in 1..Len(cs) : cs[k] \in Cells /\ Holds(cs, cs[k])
  BY <1>1, HeldIn
<1>3. \A k \in 1..Len(cs) : ny[cs[k]] = next[cs[k]] /\ du[cs[k]] = linkData[cs[k]]
  BY <1>2
<1> HIDE DEF l, cs
<1>4. Path(l, cs, ny, du)
  BY <1>1, <1>3, PathKept
<1> QED
  BY <1>4 DEF l, cs

\* __haplo_slink_new keeps the invariant: a list of one cell nobody used.
LEMMA LinkNew == LinkInv /\ __haplo_slink_new => LinkInv'
<1> SUFFICES ASSUME LinkInv, __haplo_slink_new PROVE LinkInv'
  OBVIOUS
<1>1. PICK css : LinksRight(css)
  BY DEF LinkInv
<1>2. PICK new \in Cells, d \in Data :
        /\ HAPLO_MCACHE_GET(new)
        /\ next' = [next EXCEPT ![new] = 0] /\ linkData' = [linkData EXCEPT ![new] = d]
        /\ lists' = Append(lists, [first |-> new, items |-> <<d>>])
  BY DEF __haplo_slink_new
<1> DEFINE n == Len(lists)
           dss == Append(css, <<new>>)
           p == [first |-> new, items |-> <<d>>]
<1>3. /\ css \in Seq(Seq(Cells)) /\ lists \in Seq(Linked) /\ Len(css) = n /\ n \in Nat
      /\ DOMAIN next = Cells /\ DOMAIN linkData = Cells /\ Apart(css) /\ Right(Cache, Held(css))
  BY <1>1 DEF LinksRight
<1>4. new \notin Held(css) /\ Right(Cache', Held(css) \cup {new})
  BY <1>2, <1>3, GetCell, HeldCells
<1>5. dss \in Seq(Seq(Cells)) /\ Len(dss) = n + 1 /\ Apart(dss) /\ Held(dss) = Held(css) \cup {new}
  BY <1>3, <1>4, HeldAlone
<1>6. p \in Linked /\ p.first = new /\ p.items = <<d>>
  BY DEF Linked
<1>7. dss[n + 1] = <<new>> /\ \A m \in 1..n : dss[m] = css[m]
  BY <1>3
<1>8. /\ lists' \in Seq(Linked) /\ Len(lists') = n + 1 /\ lists'[n + 1] = p
      /\ \A m \in 1..n : lists'[m] = lists[m]
  <2> HIDE DEF p
  <2>1. lists' = Append(lists, p)
    BY <1>2 DEF p
  <2> QED
    BY <1>3, <1>6, <2>1
<1>9. DOMAIN next' = Cells /\ DOMAIN linkData' = Cells /\ next'[new] = 0 /\ linkData'[new] = d
      /\ \A c \in Cells : c # new => next'[c] = next[c] /\ linkData'[c] = linkData[c]
  BY <1>2, <1>3
<1>10. Path(p, <<new>>, next', linkData')
  <2> DEFINE cs == <<new>>
  <2>1. cs \in Seq(Cells) /\ Len(cs) = 1 /\ cs[1] = new /\ Len(<<d>>) = 1 /\ <<d>>[1] = d
    OBVIOUS
  <2> HIDE DEF cs, p
  <2>2. 1..1 = {1} /\ 1..(1 - 1) = {}
    OBVIOUS
  <2>3. Path(p, cs, next', linkData')
    BY <1>6, <1>9, <2>1, <2>2 DEF Path
  <2> QED
    BY <2>3 DEF cs
<1>11. ASSUME NEW m \in 1..n PROVE Path(lists[m], css[m], next', linkData')
  <2>1. \A c \in Cells : Holds(css[m], c) => c # new
    BY <1>3, <1>4 DEF Held
  <2> QED
    BY <1>1, <1>9, <2>1, OthersKept
<1> HIDE DEF dss, p, n
<1>12. \A m \in 1..(n + 1) : Path(lists'[m], dss[m], next', linkData')
  <2>1. \A m \in 1..(n + 1) : m \in 1..n \/ m = n + 1
    BY <1>3
  <2> QED
    BY <1>7, <1>8, <1>10, <1>11, <2>1
<1>13. LinksRight(dss)'
  BY <1>4, <1>5, <1>8, <1>9, <1>12 DEF LinksRight
<1> QED
  BY <1>13 DEF LinkInv

\* A list has one cell more: it goes along cs.
LEMMA LinkGrown ==
  ASSUME NEW css, LinksRight(css), NEW l \in 1..Len(lists), NEW new \in Cells, HAPLO_MCACHE_GET(new),
         NEW p, lists' = [lists EXCEPT ![l] = p], NEW cs, Path(p, cs, next', linkData'), Injective(cs),
         \A c : Holds(cs, c) <=> c = new \/ Holds(css[l], c),
         DOMAIN next' = Cells, DOMAIN linkData' = Cells,
         \A c \in Cells : c # new /\ ~ Holds(css[l], c) => next'[c] = next[c] /\ linkData'[c] = linkData[c]
  PROVE  LinkInv'
<1> DEFINE n == Len(lists)
           dss == [css EXCEPT ![l] = cs]
<1>1. /\ css \in Seq(Seq(Cells)) /\ lists \in Seq(Linked) /\ Len(css) = n /\ n \in Nat
      /\ Apart(css) /\ Right(Cache, Held(css))
  BY DEF LinksRight
<1>2. new \notin Held(css) /\ Right(Cache', Held(css) \cup {new})
  BY <1>1, GetCell, HeldCells
<1>3. p \in Linked /\ cs \in Seq(Cells)
  BY DEF Path
<1>4. dss \in Seq(Seq(Cells)) /\ Apart(dss) /\ Held(dss) = Held(css) \cup {new}
  BY <1>1, <1>2, <1>3, HeldMore
<1>5. Len(dss) = n /\ dss[l] = cs /\ \A m \in 1..n : m # l => dss[m] = css[m]
  BY <1>1
<1>6. lists' \in Seq(Linked) /\ Len(lists') = n /\ lists'[l] = p /\ \A m \in 1..n : m # l => lists'[m] = lists[m]
  BY <1>1, <1>3
<1>7. ASSUME NEW m \in 1..n, m # l PROVE Path(lists[m], css[m], next', linkData')
  <2>1. \A c \in Cells : Holds(css[m], c) => c # new /\ ~ Holds(css[l], c)
    <3>1. m \in 1..Len(css) /\ l \in 1..Len(css)
      BY <1>1
    <3> QED
      BY <1>2, <1>7, <3>1, <1>1 DEF Held, Apart
  <2> QED
    BY <2>1, OthersKept
<1> HIDE DEF dss, n
<1>8. \A m \in 1..n : Path(lists'[m], dss[m], next', linkData')
  <2> TAKE m \in 1..n
  <2>1. CASE m = l
    BY <1>5, <1>6, <2>1
  <2>2. CASE m # l
    BY <1>5, <1>6, <1>7, <2>2
  <2> QED
    BY <2>1, <2>2
<1>9. LinksRight(dss)'
  BY <1>2, <1>4, <1>5, <1>6, <1>8 DEF LinksRight
<1> QED
  BY <1>9 DEF LinkInv

\* __haplo_slink_append keeps the invariant, after any cell of a list.
LEMMA LinkAppend == LinkInv /\ __haplo_slink_append => LinkInv'
<1> SUFFICES ASSUME LinkInv, __haplo_slink_append PROVE LinkInv'
  OBVIOUS
<1>1. PICK css : LinksRight(css)
  BY DEF LinkInv
<1>2. PICK l \in DOMAIN lists, new \in Cells, d \in Data :
        \E k \in DOMAIN CellsOf(lists[l]) :
          LET prev == CellsOf(lists[l])[k]
          IN  /\ HAPLO_MCACHE_GET(new)
              /\ next' = [next EXCEPT ![new] = next[prev], ![prev] = new]
              /\ linkData' = [linkData EXCEPT ![new] = d]
              /\ lists' = [lists EXCEPT ![l].items = SubSeq(@, 1, k) \o <<d>> \o SubSeq(@, k + 1, Len(@))]
  BY DEF __haplo_slink_append
<1> DEFINE cs == css[l]
           li == lists[l]
<1>3. /\ css \in Seq(Seq(Cells)) /\ lists \in Seq(Linked) /\ Len(css) = Len(lists) /\ l \in 1..Len(lists)
      /\ DOMAIN next = Cells /\ DOMAIN linkData = Cells /\ Apart(css) /\ Right(Cache, Held(css))
  BY <1>1 DEF LinksRight
<1>4. Path(li, cs, next, linkData) /\ Injective(cs)
  BY <1>1, <1>3 DEF LinksRight, Apart
<1>5. CellsOf(lists[l]) = cs
  BY <1>4, CellsAre
<1>6. cs \in Seq(Cells) /\ DOMAIN cs = 1..Len(cs)
  BY <1>4 DEF Path
<1>7. PICK k \in 1..Len(cs) :
        /\ HAPLO_MCACHE_GET(new)
        /\ next' = [next EXCEPT ![new] = next[cs[k]], ![cs[k]] = new]
        /\ linkData' = [linkData EXCEPT ![new] = d]
        /\ lists' = [lists EXCEPT ![l].items = Inserted(@, k, d)]
  BY <1>2, <1>5, <1>6 DEF Inserted
<1> DEFINE p == [li EXCEPT !.items = Inserted(li.items, k, d)]
           ds == Inserted(cs, k, new)
<1>8. new \notin Held(css)
  BY <1>3, <1>7, GetCell, HeldCells
<1>9. ~ Holds(cs, new)
  BY <1>3, <1>8 DEF Held
<1>10. lists' = [lists EXCEPT ![l] = p]
  BY <1>7
<1> HIDE DEF cs, li
<1>11. Path(p, ds, next', linkData')
  BY <1>3, <1>4, <1>7, <1>9, PathInserted
<1>12. Injective(ds) /\ \A c : Holds(ds, c) <=> c = new \/ Holds(cs, c)
  <2>1. Placed(ds, cs, k, new)
    BY <1>6, InsertedIs
  <2>2. Len(cs) \in Nat /\ k \in 0..Len(cs)
    BY <1>6
  <2> HIDE DEF ds
  <2> QED
    BY <1>4, <1>6, <1>9, <2>1, <2>2, PlacedInjective
<1>13. DOMAIN next' = Cells /\ DOMAIN linkData' = Cells
  BY <1>3, <1>7
<1>14. \A c \in Cells : c # new /\ ~ Holds(cs, c) => next'[c] = next[c] /\ linkData'[c] = linkData[c]
  <2>1. Holds(cs, cs[k])
    BY DEF Holds
  <2> QED
    BY <1>3, <1>7, <2>1
<1> HIDE DEF p, ds
<1> QED
  BY <1>1, <1>3, <1>7, <1>10, <1>11, <1>12, <1>13, <1>14, LinkGrown DEF cs

\* __haplo_slink_prepend keeps the invariant.
LEMMA LinkPrepend == LinkInv /\ __haplo_slink_prepend => LinkInv'
<1> SUFFICES ASSUME LinkInv, __haplo_slink_prepend PROVE LinkInv'
  OBVIOUS
<1>1. PICK css : LinksRight(css)
  BY DEF LinkInv
<1>2. PICK l \in DOMAIN lists, new \in Cells, d \in Data :
        /\ HAPLO_MCACHE_GET(new)
        /\ next' = [next EXCEPT ![new] = lists[l].first]
        /\ linkData' = [linkData EXCEPT ![new] = d]
        /\ lists' = [lists EXCEPT ![l] = [first |-> new, items |-> <<d>> \o @.items]]
  BY DEF __haplo_slink_prepend
<1> DEFINE cs == css[l]
           li == lists[l]
           p == [first |-> new, items |-> <<d>> \o li.items]
           ds == <<new>> \o cs
<1>3. /\ css \in Seq(Seq(Cells)) /\ lists \in Seq(Linked) /\ Len(css) = Len(lists) /\ l \in 1..Len(lists)
      /\ DOMAIN next = Cells /\ DOMAIN linkData = Cells /\ Apart(css) /\ Right(Cache, Held(css))
  BY <1>1 DEF LinksRight
<1>4. Path(li, cs, next, linkData) /\ Injective(cs)
  BY <1>1, <1>3 DEF LinksRight, Apart
<1>6. cs \in Seq(Cells) /\ Len(cs) \in Nat
  BY <1>4 DEF Path
<1>8. new \notin Held(css)
  BY <1>2, <1>3, GetCell, HeldCells
<1>9. ~ Holds(cs, new)
  BY <1>3, <1>8 DEF Held
<1>10. lists' = [lists EXCEPT ![l] = p] /\ next' = [next EXCEPT ![new] = li.first]
  BY <1>2
<1> HIDE DEF cs, li
<1>11. Path(p, ds, next', linkData')
  BY <1>2, <1>3, <1>4, <1>9, <1>10, PathPrepended
<1>12. Injective(ds) /\ \A c : Holds(ds, c) <=> c = new \/ Holds(cs, c)
  <2>1. /\ Len(ds) = Len(cs) + 1 /\ ds[1] = new /\ \A i \in 1..Len(cs) : ds[i + 1] = cs[i]
    BY <1>6, Prepended
  <2> HIDE DEF ds
  <2>2. 0 \in 0..Len(cs) /\ 0 + 1 = 1 /\ 1..0 = {}
    BY <1>6
  <2>3. Placed(ds, cs, 0, new)
    BY <2>1, <2>2 DEF Placed
  <2> QED
    BY <1>4, <1>6, <1>9, <2>2, <2>3, PlacedInjective
<1>13. DOMAIN next' = Cells /\ DOMAIN linkData' = Cells
  BY <1>2, <1>3
<1>14. \A c \in Cells : c # new /\ ~ Holds(cs, c) => next'[c] = next[c] /\ linkData'[c] = linkData[c]
  BY <1>2, <1>3
<1> HIDE DEF p, ds
<1> QED
  BY <1>1, <1>2, <1>3, <1>10, <1>11, <1>12, <1>13, <1>14, LinkGrown DEF cs

-----------------------------------------------------------------------------
\* __haplo_slink_free and __haplo_slink_free_f keep the invariant: the cells of the list go back,
\* those of the others stay.
LEMMA LinkFree == LinkInv /\ __haplo_slink_free => LinkInv'
<1> SUFFICES ASSUME LinkInv, __haplo_slink_free PROVE LinkInv'
  OBVIOUS
<1>1. PICK css : LinksRight(css)
  BY DEF LinkInv
<1>2. PICK l \in DOMAIN lists :
        LET cache == FoldLeft(HAPLO_MCACHE_RELEASE,
                              [head |-> head, slot |-> slot, malloced |-> malloced], CellsOf(lists[l]))
        IN  /\ head' = cache.head /\ slot' = cache.slot /\ malloced' = cache.malloced
            /\ lists' = RemoveAt(lists, l)
            /\ UNCHANGED <<next, linkData>>
  BY DEF __haplo_slink_free
<1> DEFINE cs == css[l]
           li == lists[l]
           n == Len(lists)
           cache == FoldLeft(HAPLO_MCACHE_RELEASE, Cache, cs)
           dss == RemoveAt(css, l)
<1>3. /\ css \in Seq(Seq(Cells)) /\ lists \in Seq(Linked) /\ Len(css) = n /\ l \in 1..n /\ n \in Nat
      /\ DOMAIN next = Cells /\ DOMAIN linkData = Cells /\ Apart(css) /\ Right(Cache, Held(css))
      /\ \A m \in 1..n : Path(lists[m], css[m], next, linkData)
  BY <1>1 DEF LinksRight
<1>4. Path(li, cs, next, linkData) /\ Injective(cs)
  BY <1>3 DEF Apart
<1>5. CellsOf(lists[l]) = cs
  BY <1>4, CellsAre
<1>6. /\ head' = cache.head /\ slot' = cache.slot /\ malloced' = cache.malloced
      /\ lists' = RemoveAt(lists, l) /\ next' = next /\ linkData' = linkData
  <2> HIDE DEF cs
  <2> QED
    BY <1>2, <1>5 DEF Cache
<1>7. Right(cache, {c \in Held(css) : ~ Holds(cs, c)})
  <2>1. cs \in Seq(Cells) /\ \A k \in 1..Len(cs) : cs[k] \in Held(css)
    <3>1. l \in 1..Len(css)
      BY <1>3
    <3>2. \A k \in 1..Len(css[l]) : css[l][k] \in Held(css)
      BY <1>3, <3>1, HeldIn
    <3>3. cs \in Seq(Cells)
      BY <1>4 DEF Path
    <3> QED
      BY <3>2, <3>3
  <2> HIDE DEF cs
  <2> QED
    BY <1>3, <1>4, <2>1, HeldCells, Released
<1>8. Cache' = cache
  <2>1. cache \in Caches
    BY <1>7 DEF Right
  <2> HIDE DEF cache
  <2>2. cache = [head |-> cache.head, slot |-> cache.slot, malloced |-> cache.malloced]
    BY <2>1 DEF Caches
  <2>3. Cache' = [head |-> head', slot |-> slot', malloced |-> malloced']
    BY DEF Cache
  <2> QED
    BY <1>6, <2>2, <2>3
<1>9. /\ dss \in Seq(Seq(Cells)) /\ Len(dss) = n - 1 /\ Apart(dss)
      /\ Held(dss) = {c \in Held(css) : ~ Holds(cs, c)}
  <2>1. l \in 1..Len(css)
    BY <1>3
  <2> QED
    BY <1>3, <2>1, HeldLess
<1>10. /\ \A i \in 1..(l - 1) : dss[i] = css[i]
       /\ \A i \in l..(n - 1) : dss[i] = css[i + 1]
  <2>1. l \in 1..Len(css)
    BY <1>3
  <2>2. /\ \A i \in 1..(l - 1) : dss[i] = css[i]
        /\ \A i \in l..(Len(css) - 1) : dss[i] = css[i + 1]
    BY <1>3, <2>1, RemovedIs
  <2> QED
    BY <1>3, <2>2
<1>11. /\ lists' \in Seq(Linked) /\ Len(lists') = n - 1
       /\ \A i \in 1..(l - 1) : lists'[i] = lists[i]
       /\ \A i \in l..(n - 1) : lists'[i] = lists[i + 1]
  BY <1>3, <1>6, RemovedIs
<1> HIDE DEF dss, n, cache, cs, li
<1>12. \A m \in 1..(n - 1) : Path(lists'[m], dss[m], next', linkData')
  <2> TAKE m \in 1..(n - 1)
  <2>1. CASE m < l
    <3>1. m \in 1..(l - 1) /\ m \in 1..n
      BY <1>3, <2>1
    <3> QED
      BY <1>3, <1>6, <1>10, <1>11, <3>1
  <2>2. CASE ~ (m < l)
    <3>1. m \in l..(n - 1) /\ m + 1 \in 1..n
      BY <1>3, <2>2
    <3> QED
      BY <1>3, <1>6, <1>10, <1>11, <3>1
  <2> QED
    BY <2>1, <2>2
<1>13. LinksRight(dss)'
  <2>1. DOMAIN next' = Cells /\ DOMAIN linkData' = Cells
    BY <1>3, <1>6
  <2>2. Right(Cache', Held(dss))
    BY <1>7, <1>8, <1>9
  <2> QED
    BY <1>9, <1>11, <1>12, <2>1, <2>2 DEF LinksRight
<1> QED
  BY <1>13 DEF LinkInv

\* Every operation of slink.c keeps the invariant.
LEMMA LinkStep == LinkInv /\ (LinkNext \/ UNCHANGED linkVars) => LinkInv'
<1> SUFFICES ASSUME LinkInv, LinkNext \/ UNCHANGED linkVars PROVE LinkInv'
  OBVIOUS
<1>1. CASE __haplo_slink_new
  BY <1>1, LinkNew
<1>2. CASE __haplo_slink_append
  BY <1>2, LinkAppend
<1>3. CASE __haplo_slink_prepend
  BY <1>3, LinkPrepend
<1>4. CASE __haplo_slink_free
  BY <1>4, LinkFree
<1>5. CASE UNCHANGED linkVars
  <2>1. head' = head /\ slot' = slot /\ malloced' = malloced /\ next' = next /\ linkData' = linkData /\ lists' = lists
    BY <1>5 DEF linkVars
  <2>2. Cache' = Cache
    BY <2>1 DEF Cache
  <2>3. PICK css : LinksRight(css)
    BY DEF LinkInv
  <2>4. LinksRight(css)'
    BY <2>1, <2>2, <2>3 DEF LinksRight
  <2> QED
    BY <2>4 DEF LinkInv
<1> QED
  BY <1>1, <1>2, <1>3, <1>4, <1>5 DEF LinkNext

\* A loop over a list sees what it carries, in order.
LEMMA LinkOrder == LinkInv => LinksInOrder
<1> SUFFICES ASSUME LinkInv, NEW l \in DOMAIN lists
             PROVE  LET cells == CellsOf(lists[l])
                    IN  [k \in DOMAIN cells |-> linkData[cells[k]]] = lists[l].items
  BY DEF LinksInOrder
<1>1. PICK css : LinksRight(css)
  BY DEF LinkInv
<1> DEFINE cs == css[l]
           li == lists[l]
<1>2. Path(li, cs, next, linkData) /\ Injective(cs)
  <2>1. l \in 1..Len(lists) /\ l \in 1..Len(css)
    BY <1>1 DEF LinksRight
  <2> QED
    BY <1>1, <2>1 DEF LinksRight, Apart
<1>3. CellsOf(li) = cs
  BY <1>2, CellsAre
<1>4. /\ li.items \in Seq(Data) /\ Len(li.items) = Len(cs) /\ DOMAIN cs = 1..Len(cs)
      /\ \A k \in 1..Len(cs) : linkData[cs[k]] = li.items[k]
  BY <1>2 DEF Path, Linked
<1> HIDE DEF cs, li
<1>5. [k \in DOMAIN cs |-> linkData[cs[k]]] = li.items
  <2>1. li.items = [k \in 1..Len(cs) |-> li.items[k]]
    BY <1>4
  <2> QED
    BY <1>4, <2>1
<1> QED
  BY <1>3, <1>5 DEF li

\* A cell of malloc is in one place: a list, or the cache.
LEMMA LinkPlaces == LinkInv => CellsHaveOnePlace
<1> SUFFICES ASSUME LinkInv PROVE CellsHaveOnePlace
  OBVIOUS
<1>1. PICK css : LinksRight(css)
  BY DEF LinkInv
<1> DEFINE n == Len(lists)
<1>2. /\ css \in Seq(Seq(Cells)) /\ Len(css) = n /\ DOMAIN lists = 1..n /\ Apart(css) /\ Right(Cache, Held(css))
      /\ \A l \in 1..n : Path(lists[l], css[l], next, linkData)
  BY <1>1 DEF LinksRight
<1> HIDE DEF n
<1>3. \A l \in 1..n : Injective(css[l])
  BY <1>2 DEF Apart
<1>4. \A l \in 1..n : CellsOf(lists[l]) = css[l]
  BY <1>2, <1>3, CellsAre
<1>5. \A l \in 1..n : DOMAIN css[l] = 1..Len(css[l])
  BY <1>2 DEF Path
<1>6. \A l \in 1..n : \A k \in 1..Len(css[l]) :
        css[l][k] \in Cells /\ css[l][k] \in Held(css) /\ Holds(css[l], css[l][k])
  BY <1>2, HeldIn
<1>7. ASSUME NEW l \in 1..n, NEW m \in 1..n, NEW j \in 1..Len(css[l]), NEW k \in 1..Len(css[m]),
             css[l][j] = css[m][k]
      PROVE  <<l, j>> = <<m, k>>
  <2>1. l = m
    BY <1>2, <1>6, <1>7 DEF Apart
  <2>2. j = k
    BY <1>3, <1>7, <2>1 DEF Injective
  <2> QED
    BY <2>1, <2>2
<1>8. \A l, m \in DOMAIN lists :
        \A j \in DOMAIN CellsOf(lists[l]), k \in DOMAIN CellsOf(lists[m]) :
          CellsOf(lists[l])[j] = CellsOf(lists[m])[k] => <<l, j>> = <<m, k>>
  <2> SUFFICES ASSUME NEW l \in 1..n, NEW m \in 1..n,
                      NEW j \in DOMAIN CellsOf(lists[l]), NEW k \in DOMAIN CellsOf(lists[m]),
                      CellsOf(lists[l])[j] = CellsOf(lists[m])[k]
               PROVE  <<l, j>> = <<m, k>>
    BY <1>2
  <2>1. j \in 1..Len(css[l]) /\ k \in 1..Len(css[m]) /\ css[l][j] = css[m][k]
    BY <1>4, <1>5
  <2> QED
    BY <1>7, <2>1
<1>9. /\ \A o, p \in head..(SLINK_CACHE_SIZE - 1) : slot[o] = slot[p] => o = p
      /\ InCache(Cache) = Cached /\ Cached \cap Held(css) = {} /\ malloced = Cached \cup Held(css)
  <2>1. InCache(Cache) = Cached
    BY DEF InCache, Cache, Cached
  <2> QED
    BY <1>2, <2>1 DEF Right, Cache
<1>10. \A l \in 1..n : ToSet(CellsOf(lists[l])) = {css[l][k] : k \in 1..Len(css[l])}
  BY <1>4, <1>5 DEF ToSet
<1>11. \A l \in DOMAIN lists : ToSet(CellsOf(lists[l])) \cap Cached = {}
  <2> SUFFICES ASSUME NEW l \in 1..n PROVE {css[l][k] : k \in 1..Len(css[l])} \cap Cached = {}
    BY <1>2, <1>10
  <2> QED
    BY <1>6, <1>9
<1>12. malloced = Cached \cup UNION {ToSet(CellsOf(lists[l])) : l \in DOMAIN lists}
  <2> DEFINE all == UNION {ToSet(CellsOf(lists[l])) : l \in DOMAIN lists}
  <2>1. ASSUME NEW c \in Held(css) PROVE c \in all
    <3>1. PICK l \in 1..n : Holds(css[l], c)
      BY <1>2 DEF Held
    <3>2. PICK k \in 1..Len(css[l]) : css[l][k] = c
      BY <3>1 DEF Holds
    <3>3. c \in ToSet(CellsOf(lists[l]))
      BY <1>10, <3>2
    <3> QED
      BY <1>2, <3>3
  <2>2. ASSUME NEW c \in all PROVE c \in Held(css)
    <3>1. PICK l \in 1..n : c \in ToSet(CellsOf(lists[l]))
      BY <1>2
    <3>2. PICK k \in 1..Len(css[l]) : css[l][k] = c
      BY <1>10, <3>1
    <3> QED
      BY <1>6, <3>2
  <2> HIDE DEF all
  <2>3. all = Held(css)
    BY <2>1, <2>2
  <2> QED
    BY <1>9, <2>3 DEF all
<1> QED
  BY <1>8, <1>9, <1>11, <1>12 DEF CellsHaveOnePlace

-----------------------------------------------------------------------------
\* The containers share nothing: their invariants together are inductive.
ContainersInv == ListInv /\ TableInv /\ LinkInv

\* The invariants of list.c and olist.c, hash.tmpl and hash.c, slink.c and memory.c hold after any
\* calls, for all elements, keys, values, sizes and cells.
THEOREM ContainersStay == ContainersSpec => []ContainersInv
<1>1. ContainersInit => ContainersInv
  BY ListInitial, TableInitial, LinkInitial DEF ContainersInit, ContainersInv
<1>2. ContainersInv /\ [ContainersNext]_containersVars => ContainersInv'
  <2> SUFFICES ASSUME ContainersInv, [ContainersNext]_containersVars PROVE ContainersInv'
    OBVIOUS
  <2>1. /\ ListNext \/ UNCHANGED listVars
        /\ TableNext \/ UNCHANGED tableVars
        /\ LinkNext \/ UNCHANGED linkVars
    BY DEF ContainersNext, containersVars
  <2> QED
    BY <2>1, ListStep, TableStep, LinkStep DEF ContainersInv
<1> QED
  BY <1>1, <1>2, PTL DEF ContainersSpec

\* Lists, tables and links hold what was put in them, in order, in one place each (list.c,
\* olist.c, hash.tmpl, hash.c, slink.c, memory.c), for all elements, keys, values, sizes and cells.
THEOREM ContainersAreExact == ContainersSpec => []ContainersExact
<1>1. ContainersInv => ContainersExact
  BY ListSequence, ListPlaces, ListGiven, TableFunction, TableChains, TableLoops,
     TableCounts, LinkOrder, LinkPlaces DEF ContainersInv, ContainersExact
<1> QED
  BY <1>1, ContainersStay, PTL
=============================================================================
