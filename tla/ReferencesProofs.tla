-------------------------- MODULE ReferencesProofs --------------------------
(***************************************************************************)
(* Theorems about References, for any names, references and objects: both  *)
(* counts are exact and nothing dangles, as long as no name is cleared that*)
(* is not the first of its bucket.                                         *)
(***************************************************************************)
EXTENDS References, FiniteSetTheorems, SequenceTheorems, TLAPS

-----------------------------------------------------------------------------
(* The parts of the inductive invariant *)

RefCells == [alive : BOOLEAN, name : Names \cup {Nil},
             object : Objects \cup {Nil}, instances : Nat,
             next : Refs \cup {Nil}]
ObjCells == [alive : BOOLEAN, type : {"data", "code"}, count : Nat,
             value : 0 .. 1, refs : SUBSET Refs, sets : SUBSET Refs,
             objs : SUBSET Objects]
Stmts == [target : Refs \cup {Nil}, kind : Kinds, operand : Refs \cup {Nil},
          literal : Objects \cup {Nil}]
CallsTo == {RefFree(r) : r \in Refs} \cup {ObjectFree(o) : o \in Objects}
           \cup {Release(o) : o \in Objects}
           \cup {Bind(o, r) : o \in Objects, r \in Refs}
           \cup {RemoveRef(o) : o \in Objects} \cup {DbFree}
PCs == {"idle", "rvalue", "execute", "body", "return", "assign", "release"}

Typed ==
  /\ base \in [Buckets -> Refs \cup {Nil}]
  /\ ref \in [Refs -> RefCells]
  /\ obj \in [Objects -> ObjCells]
  /\ pc \in PCs
  /\ stmt \in Stmts
  /\ result \in Objects \cup {Nil}
  /\ held \in Objects \cup {Nil}
  /\ stack \in Seq(CallsTo)
  /\ leaked \in [Objects -> Nat]

\* What is read and executed at each point of a statement.
Statement ==
  /\ pc = "idle" => stmt = NoStmt
  /\ pc = "rvalue" => stmt.target # Nil /\ stmt.operand = Nil /\ stmt.literal = Nil
  /\ pc \in {"execute", "body"} => stack = <<>>
  /\ pc = "execute" => /\ stmt.kind = "object" <=> stmt.literal # Nil
                       /\ stmt.kind # "object" <=> stmt.operand # Nil
  /\ pc = "assign" => stmt.target # Nil
  /\ pc \in {"idle", "rvalue", "execute", "body"} => result = Nil
  /\ pc \in {"body", "return"} <=> held # Nil

\* A data object has no leaf of a name, a code does not read and assign the
\* same name, and no object protects itself.
Contents ==
  \A o \in Objects :
    /\ obj[o].type = "data" => obj[o].refs = {} /\ obj[o].sets = {}
    /\ obj[o].refs \cap obj[o].sets = {}
    /\ o \notin obj[o].objs

\* Cells given back to their cache.
Blank ==
  /\ \A r \in Refs : ~ref[r].alive => ref[r] = FreeRef
  /\ \A o \in Objects : ~obj[o].alive => obj[o] = FreeObj

\* The objects an execution is going to make.
Recursive(o) == obj[o].refs \cup obj[o].sets = {}
Room ==
  /\ pc = "execute" /\ stmt.kind \in {"call", "apply", "alter"} => Unused # {}
  /\ pc = "execute" /\ stmt.kind = "call" /\ ref[stmt.operand].object # Nil
       /\ Recursive(ref[stmt.operand].object) => Cardinality(Unused) >= 2
  /\ pc \in {"body", "return"} => Unused # {}
  /\ pc = "body" /\ Recursive(held) => Cardinality(Unused) >= 2

\* The buckets and the links are lists: each reference has one predecessor.
Lists ==
  /\ \A b \in Buckets, c \in Buckets : base[b] = base[c] /\ base[b] # Nil => b = c
  /\ \A q \in Linked, b \in Buckets : ref[q].next # Nil => ref[q].next # base[b]
  /\ \A q \in Linked, p \in Linked :
       ref[q].next = ref[p].next /\ ref[q].next # Nil => q = p

\* An object being released has no holder and no content, and is released once.
Spent(cell) == /\ cell.alive /\ cell.count = 0
               /\ cell.refs = {} /\ cell.sets = {} /\ cell.objs = {}
Releases ==
  \A k \in DOMAIN stack : stack[k].op = "release" =>
    /\ Spent(obj[stack[k].object])
    /\ \A l \in DOMAIN stack : stack[l] = stack[k] => l = k

\* A name is bound to the result last, and the statement or the code executed
\* holds it until then.
Binds ==
  \A k \in DOMAIN stack : stack[k].op = "bind" =>
    /\ k = Len(stack) /\ stack[k].object = result
    /\ \/ pc = "release" /\ stack[k].ref = stmt.target
       \/ pc = "return" /\ stack[k].ref \in obj[held].sets

\* Names are forgotten between two statements, once the codes they lead to have
\* lost their leaves.
Clears ==
  \A k \in DOMAIN stack :
    /\ stack[k].op \in {"remove_ref", "db_free"} => pc = "idle"
    /\ stack[k].op = "remove_ref" => \E r \in Linked : ref[r].object = stack[k].object
    /\ stack[k].op = "db_free" => k = Len(stack)

\* The terms of the counts.
NamesOf(o)    == {r \in LiveRefs \ Binding : ref[r].object = o}
Protecting(o) == {p \in LiveObjects : o \in obj[p].objs}
Readers(r)    == {p \in LiveObjects : r \in obj[p].refs}
Assigners(r)  == {p \in LiveObjects : r \in obj[p].sets}
Occ(s, c)     == Cardinality({k \in DOMAIN s : s[k] = c})

CountAt(o) ==
  obj[o].count = Cardinality(NamesOf(o)) + Cardinality(Protecting(o))
               + Holds(result = o) + Holds(held = o) + Holds(stmt.literal = o)
               + Occ(stack, ObjectFree(o)) + leaked[o]

InstancesAt(r) ==
  ref[r].instances =
      Holds(r \in Linked) + Cardinality(Readers(r)) + Cardinality(Assigners(r))
    + Holds(stmt.target = r) + Holds(stmt.operand = r) + Occ(stack, RefFree(r))

\* Nothing holds a cell that was given back: the counts are exact there too.
Counted == /\ \A o \in Objects : CountAt(o)
           /\ \A r \in Refs : InstancesAt(r)

IInv == /\ Typed /\ Statement /\ Contents /\ Blank /\ Room
        /\ Lists /\ Releases /\ Binds /\ Clears /\ Counted

-----------------------------------------------------------------------------
(* Cardinalities and calls *)

\* Two finite sets that differ in one element at most.
LEMMA OneElement ==
  ASSUME NEW S, NEW T, NEW x, IsFiniteSet(S), S \ {x} = T \ {x}
  PROVE  /\ IsFiniteSet(T)
         /\ Cardinality(S) \in Nat
         /\ Cardinality(T) = Cardinality(S) - Holds(x \in S) + Holds(x \in T)
<1>1. /\ IsFiniteSet(S \ {x}) /\ Cardinality(S) \in Nat
      /\ Cardinality(S \ {x}) = Cardinality(S) - Holds(x \in S)
  BY FS_RemoveElement, FS_CardinalityType DEF Holds
<1>2. CASE x \in T
  <2>1. T = (S \ {x}) \cup {x}
    BY <1>2
  <2>2. /\ IsFiniteSet(T)
        /\ Cardinality(T) = Cardinality(S \ {x}) + 1
    BY <1>1, <2>1, FS_AddElement
  <2> QED
    BY <1>1, <1>2, <2>2 DEF Holds
<1>3. CASE x \notin T
  <2>1. T = S \ {x}
    BY <1>3
  <2> QED
    BY <1>1, <1>3, <2>1 DEF Holds
<1> QED
  BY <1>2, <1>3

\* A finite set and its image under an injection.
LEMMA SameNumber ==
  ASSUME NEW S, NEW T, IsFiniteSet(S), NEW f \in Bijection(S, T)
  PROVE  IsFiniteSet(T) /\ Cardinality(T) = Cardinality(S)
BY FS_Bijection DEF ExistsBijection

LEMMA OccNat ==
  ASSUME NEW D, NEW s \in Seq(D), NEW c
  PROVE  /\ Occ(s, c) \in Nat
         /\ Occ(s, c) = 0 <=> \A k \in DOMAIN s : s[k] # c
         /\ \A k \in DOMAIN s : s[k] = c => Occ(s, c) >= 1
         /\ IsFiniteSet({k \in DOMAIN s : s[k] = c})
<1> DEFINE K == {k \in DOMAIN s : s[k] = c}
<1>1. DOMAIN s = 1 .. Len(s) /\ Len(s) \in Nat
  BY LenProperties
<1>2. IsFiniteSet(1 .. Len(s))
  BY <1>1, FS_Interval
<1>3. IsFiniteSet(K)
  BY <1>1, <1>2, FS_Subset
<1>4. Cardinality(K) \in Nat /\ (Cardinality(K) = 0 <=> K = {})
  BY <1>3, FS_CardinalityType, FS_EmptySet
<1>5. \A k \in DOMAIN s : s[k] = c => K # {}
  OBVIOUS
<1>6. Occ(s, c) = Cardinality(K) /\ (K = {} <=> \A k \in DOMAIN s : s[k] # c)
  BY DEF Occ
<1> HIDE DEF K
<1>7. /\ Occ(s, c) \in Nat
      /\ Occ(s, c) = 0 <=> \A k \in DOMAIN s : s[k] # c
      /\ \A k \in DOMAIN s : s[k] = c => Occ(s, c) >= 1
  BY <1>4, <1>5, <1>6
<1> QED
  BY <1>3, <1>7 DEF K

LEMMA OccEmpty == \A c : Occ(<<>>, c) = 0
<1>1. ASSUME NEW c PROVE Occ(<<>>, c) = 0
  <2>1. {k \in DOMAIN <<>> : <<>>[k] = c} = {}
    OBVIOUS
  <2> QED
    BY <2>1, FS_EmptySet DEF Occ
<1> QED
  BY <1>1

LEMMA OccConcat ==
  ASSUME NEW D, NEW s \in Seq(D), NEW t \in Seq(D), NEW c
  PROVE  Occ(s \o t, c) = Occ(s, c) + Occ(t, c)
<1> DEFINE S == {k \in DOMAIN s : s[k] = c}
           T == {k \in DOMAIN t : t[k] = c}
           U == {k \in DOMAIN (s \o t) : (s \o t)[k] = c}
           V == {k \in U : k > Len(s)}
           f == [k \in T |-> k + Len(s)]
<1>1. /\ DOMAIN s = 1 .. Len(s) /\ Len(s) \in Nat
      /\ DOMAIN t = 1 .. Len(t) /\ Len(t) \in Nat
      /\ DOMAIN (s \o t) = 1 .. Len(s) + Len(t)
      /\ \A i \in 1 .. Len(s) + Len(t) :
           (s \o t)[i] = IF i <= Len(s) THEN s[i] ELSE t[i - Len(s)]
  BY LenProperties, ConcatProperties
<1>2. IsFiniteSet(S) /\ IsFiniteSet(T)
  BY OccNat
<1>3. f \in Bijection(T, V)
  <2>1. \A k \in T : k + Len(s) \in V
    BY <1>1
  <2>2. \A k \in V : k - Len(s) \in T /\ (k - Len(s)) + Len(s) = k
    BY <1>1
  <2>3. f \in [T -> V]
    BY <2>1
  <2>4. \A k \in V : \E i \in T : f[i] = k
    BY <2>2
  <2>5. \A i \in T, j \in T : f[i] = f[j] => i = j
    BY <1>1
  <2> QED
    BY <2>3, <2>4, <2>5 DEF Bijection, Injection, Surjection, IsInjective
<1>4. IsFiniteSet(V) /\ Cardinality(V) = Cardinality(T)
  BY <1>2, <1>3, SameNumber
<1>5. U = S \cup V /\ S \cap V = {}
  BY <1>1
<1>6. Cardinality(U) = Cardinality(S) + Cardinality(V) - Cardinality({})
  BY <1>2, <1>4, <1>5, FS_Union
<1>7. Cardinality(S) \in Nat /\ Cardinality(V) \in Nat /\ Cardinality({}) = 0
  BY <1>2, <1>4, FS_CardinalityType, FS_EmptySet
<1>8. /\ Occ(s, c) = Cardinality(S) /\ Occ(t, c) = Cardinality(T)
      /\ Occ(s \o t, c) = Cardinality(U)
  BY DEF Occ
<1> HIDE DEF S, T, U, V
<1> QED
  BY <1>4, <1>6, <1>7, <1>8

LEMMA OccOne == \A c, d : Occ(<<d>>, c) = Holds(c = d)
<1>1. ASSUME NEW c, NEW d PROVE Occ(<<d>>, c) = Holds(c = d)
  <2>1. {k \in DOMAIN <<d>> : <<d>>[k] = c} = IF c = d THEN {1} ELSE {}
    OBVIOUS
  <2> QED
    BY <2>1, FS_EmptySet, FS_Singleton DEF Occ, Holds
<1> QED
  BY <1>1

\* The next call, and those behind it.
LEMMA OccHead ==
  ASSUME NEW D, NEW s \in Seq(D), s # <<>>, NEW c
  PROVE  Occ(s, c) = Holds(c = Head(s)) + Occ(Tail(s), c)
<1>1. Head(s) \in D /\ Tail(s) \in Seq(D) /\ Len(Tail(s)) = Len(s) - 1
  BY HeadTailProperties
<1>2. <<Head(s)>> \in Seq(D)
  BY <1>1
<1>3. s = <<Head(s)>> \o Tail(s)
  <2>1. <<Head(s)>> \o Tail(s) \in Seq(D) /\ Len(<<Head(s)>>) = 1
    BY <1>1, <1>2, ConcatProperties
  <2> QED
    BY <1>1
<1>4. Occ(<<Head(s)>> \o Tail(s), c) = Occ(<<Head(s)>>, c) + Occ(Tail(s), c)
  BY <1>1, <1>2, OccConcat
<1>5. Occ(<<Head(s)>>, c) = Holds(c = Head(s))
  BY OccOne
<1> QED
  BY <1>3, <1>4, <1>5

\* SetToSeq numbers the elements of a finite set.
LEMMA Numbering ==
  ASSUME NEW S, IsFiniteSet(S)
  PROVE  /\ Cardinality(S) \in Nat
         /\ SetToSeq(S) \in [1 .. Cardinality(S) -> S]
         /\ \A x \in S : \E k \in 1 .. Cardinality(S) : SetToSeq(S)[k] = x
         /\ \A k, l \in 1 .. Cardinality(S) :
              SetToSeq(S)[k] = SetToSeq(S)[l] => k = l
<1> DEFINE N == 1 .. Cardinality(S)
           g == SetToSeq(S)
<1>1. Cardinality(S) \in Nat /\ ExistsBijection(N, S)
  BY FS_CardinalityType
<1>2. \E f \in [N -> S] : IsInjective(f)
  BY <1>1 DEF ExistsBijection, Bijection, Injection
<1>3. g \in [N -> S] /\ IsInjective(g)
  BY <1>2 DEF SetToSeq
<1>4. IsFiniteSet(N) /\ Cardinality(N) = Cardinality(S)
  BY <1>1, FS_Interval
<1>5. g \in Injection(N, S)
  BY <1>3 DEF Injection
<1>6. g \in Surjection(N, S)
  BY <1>4, <1>5, FS_Injection
<1> QED
  BY <1>1, <1>3, <1>6 DEF IsInjective, Surjection

\* The calls that give back one instance of each reference of a set.
LEMMA RefCalls ==
  ASSUME NEW S \in SUBSET Refs
  PROVE  /\ RefFreeAll(S) \in Seq(CallsTo)
         /\ \A k \in DOMAIN RefFreeAll(S) :
              \E r \in S : RefFreeAll(S)[k] = RefFree(r)
         /\ \A r \in Refs : Occ(RefFreeAll(S), RefFree(r)) = Holds(r \in S)
         /\ \A o \in Objects : Occ(RefFreeAll(S), ObjectFree(o)) = 0
<1> DEFINE n == Cardinality(S)
           g == SetToSeq(S)
           all == [k \in 1 .. n |-> RefFree(g[k])]
<1>1. IsFiniteSet(S)
  BY FS_Subset, ReferencesAssumption
<1>2. /\ n \in Nat /\ g \in [1 .. n -> S]
      /\ \A x \in S : \E k \in 1 .. n : g[k] = x
      /\ \A k, l \in 1 .. n : g[k] = g[l] => k = l
  BY <1>1, Numbering
<1>3. RefFreeAll(S) = all
  BY DEF RefFreeAll
<1> HIDE DEF n, g
<1>4. all \in Seq(CallsTo) /\ DOMAIN all = 1 .. n
  <2>1. \A k \in 1 .. n : RefFree(g[k]) \in CallsTo
    BY <1>2 DEF CallsTo
  <2> QED
    BY <1>2, <2>1
<1>5. \A k \in DOMAIN all : \E r \in S : all[k] = RefFree(r)
  BY <1>2
<1>6. ASSUME NEW r \in Refs PROVE Occ(all, RefFree(r)) = Holds(r \in S)
  <2>1. \A k \in 1 .. n : all[k] = RefFree(r) <=> g[k] = r
    BY DEF RefFree
  <2>2. CASE r \in S
    <3>1. PICK l \in 1 .. n : g[l] = r
      BY <1>2, <2>2
    <3>2. {k \in DOMAIN all : all[k] = RefFree(r)} = {l}
      BY <1>2, <2>1, <3>1
    <3> QED
      BY <2>2, <3>2, FS_Singleton DEF Occ, Holds
  <2>3. CASE r \notin S
    <3>1. {k \in DOMAIN all : all[k] = RefFree(r)} = {}
      BY <1>2, <2>1, <2>3
    <3> QED
      BY <2>3, <3>1, FS_EmptySet DEF Occ, Holds
  <2> QED
    BY <2>2, <2>3
<1>7. ASSUME NEW o \in Objects PROVE Occ(all, ObjectFree(o)) = 0
  BY <1>4, <1>5, OccNat DEF RefFree, ObjectFree
<1> QED
  BY <1>3, <1>4, <1>5, <1>6, <1>7

\* The calls that give back one reference on each object of a set.
LEMMA ObjectCalls ==
  ASSUME NEW S \in SUBSET Objects
  PROVE  /\ ObjectFreeAll(S) \in Seq(CallsTo)
         /\ \A k \in DOMAIN ObjectFreeAll(S) :
              \E o \in S : ObjectFreeAll(S)[k] = ObjectFree(o)
         /\ \A o \in Objects : Occ(ObjectFreeAll(S), ObjectFree(o)) = Holds(o \in S)
         /\ \A r \in Refs : Occ(ObjectFreeAll(S), RefFree(r)) = 0
<1> DEFINE n == Cardinality(S)
           g == SetToSeq(S)
           all == [k \in 1 .. n |-> ObjectFree(g[k])]
<1>1. IsFiniteSet(S)
  BY FS_Subset, ReferencesAssumption
<1>2. /\ n \in Nat /\ g \in [1 .. n -> S]
      /\ \A x \in S : \E k \in 1 .. n : g[k] = x
      /\ \A k, l \in 1 .. n : g[k] = g[l] => k = l
  BY <1>1, Numbering
<1>3. ObjectFreeAll(S) = all
  BY DEF ObjectFreeAll
<1> HIDE DEF n, g
<1>4. all \in Seq(CallsTo) /\ DOMAIN all = 1 .. n
  <2>1. \A k \in 1 .. n : ObjectFree(g[k]) \in CallsTo
    BY <1>2 DEF CallsTo
  <2> QED
    BY <1>2, <2>1
<1>5. \A k \in DOMAIN all : \E o \in S : all[k] = ObjectFree(o)
  BY <1>2
<1>6. ASSUME NEW o \in Objects PROVE Occ(all, ObjectFree(o)) = Holds(o \in S)
  <2>1. \A k \in 1 .. n : all[k] = ObjectFree(o) <=> g[k] = o
    BY DEF ObjectFree
  <2>2. CASE o \in S
    <3>1. PICK l \in 1 .. n : g[l] = o
      BY <1>2, <2>2
    <3>2. {k \in DOMAIN all : all[k] = ObjectFree(o)} = {l}
      BY <1>2, <2>1, <3>1
    <3> QED
      BY <2>2, <3>2, FS_Singleton DEF Occ, Holds
  <2>3. CASE o \notin S
    <3>1. {k \in DOMAIN all : all[k] = ObjectFree(o)} = {}
      BY <1>2, <2>1, <2>3
    <3> QED
      BY <2>3, <3>1, FS_EmptySet DEF Occ, Holds
  <2> QED
    BY <2>2, <2>3
<1>7. ASSUME NEW r \in Refs PROVE Occ(all, RefFree(r)) = 0
  BY <1>4, <1>5, OccNat DEF RefFree, ObjectFree
<1> QED
  BY <1>3, <1>4, <1>5, <1>6, <1>7

-----------------------------------------------------------------------------
(* The terms of the counts *)

LEMMA Exactly ==
  Counted => CountsExact /\ InstancesExact
BY DEF CountsExact, InstancesExact, CountAt, InstancesAt, NamesOf, Protecting,
  Readers, Assigners, Calls, Occ, Counted, LiveRefs, LiveObjects

LEMMA ObjectTerms ==
  ASSUME Typed, NEW o \in Objects
  PROVE  /\ IsFiniteSet(NamesOf(o)) /\ Cardinality(NamesOf(o)) \in Nat
         /\ IsFiniteSet(Protecting(o)) /\ Cardinality(Protecting(o)) \in Nat
         /\ Occ(stack, ObjectFree(o)) \in Nat
         /\ leaked[o] \in Nat /\ obj[o].count \in Nat
<1>1. NamesOf(o) \subseteq Refs /\ Protecting(o) \subseteq Objects
  BY DEF NamesOf, Protecting, LiveRefs, LiveObjects
<1>2. IsFiniteSet(NamesOf(o)) /\ IsFiniteSet(Protecting(o))
  BY <1>1, FS_Subset, ReferencesAssumption
<1>3. Occ(stack, ObjectFree(o)) \in Nat
  BY OccNat DEF Typed
<1>4. leaked[o] \in Nat /\ obj[o].count \in Nat
  BY DEF Typed, ObjCells
<1> QED
  BY <1>2, <1>3, <1>4, FS_CardinalityType

LEMMA RefTerms ==
  ASSUME Typed, NEW r \in Refs
  PROVE  /\ IsFiniteSet(Readers(r)) /\ Cardinality(Readers(r)) \in Nat
         /\ IsFiniteSet(Assigners(r)) /\ Cardinality(Assigners(r)) \in Nat
         /\ Occ(stack, RefFree(r)) \in Nat
         /\ ref[r].instances \in Nat
<1>1. Readers(r) \subseteq Objects /\ Assigners(r) \subseteq Objects
  BY DEF Readers, Assigners, LiveObjects
<1>2. IsFiniteSet(Readers(r)) /\ IsFiniteSet(Assigners(r))
  BY <1>1, FS_Subset, ReferencesAssumption
<1>3. Occ(stack, RefFree(r)) \in Nat
  BY OccNat DEF Typed
<1>4. ref[r].instances \in Nat
  BY DEF Typed, RefCells
<1> QED
  BY <1>2, <1>3, <1>4, FS_CardinalityType

LEMMA Addends ==
  \A a, b, c, d, e, n \in Nat :
    n = a + b + c + d + e =>
      /\ a # 0 \/ b # 0 \/ c # 0 \/ d # 0 \/ e # 0 => n >= 1
      /\ d >= 1 /\ n = 1 => a = 0 /\ b = 0 /\ c = 0 /\ e = 0
      /\ a # 0 /\ n <= 1 => a = 1 /\ b = 0
OBVIOUS

\* The holders of an object count; the last one is the only one.
LEMMA Holders ==
  ASSUME Typed, NEW o \in Objects, CountAt(o)
  PROVE  /\ \/ \E k \in DOMAIN stack : stack[k] = ObjectFree(o)
            \/ NamesOf(o) # {} \/ Protecting(o) # {}
            \/ result = o \/ held = o \/ stmt.literal = o \/ leaked[o] # 0
            => obj[o].count >= 1
         /\ \A k \in DOMAIN stack :
              stack[k] = ObjectFree(o) /\ obj[o].count = 1 =>
                /\ NamesOf(o) = {} /\ Protecting(o) = {}
                /\ result # o /\ held # o /\ stmt.literal # o /\ leaked[o] = 0
         /\ NamesOf(o) # {} /\ obj[o].count <= 1 =>
              Cardinality(NamesOf(o)) = 1 /\ Protecting(o) = {}
<1> DEFINE a == Cardinality(NamesOf(o))
           b == Cardinality(Protecting(o))
           c == Occ(stack, ObjectFree(o))
<1>1. /\ IsFiniteSet(NamesOf(o)) /\ a \in Nat
      /\ IsFiniteSet(Protecting(o)) /\ b \in Nat
      /\ c \in Nat
      /\ leaked[o] \in Nat /\ obj[o].count \in Nat
  BY ObjectTerms
<1>2. (a = 0 <=> NamesOf(o) = {}) /\ (b = 0 <=> Protecting(o) = {})
  BY <1>1, FS_EmptySet
<1>3. \A k \in DOMAIN stack : stack[k] = ObjectFree(o) => c >= 1
  BY <1>1, OccNat DEF Typed
<1>4. PICK h \in Nat : /\ h = Holds(result = o) + Holds(held = o) + Holds(stmt.literal = o)
                       /\ result = o \/ held = o \/ stmt.literal = o => h >= 1
  BY DEF Holds
<1>5. obj[o].count = a + b + h + c + leaked[o]
  BY <1>1, <1>4 DEF CountAt, Holds
<1>6. PICK l \in Nat, n \in Nat : l = leaked[o] /\ n = obj[o].count
  BY <1>1
<1> HIDE DEF a, b, c
<1>7. /\ a \in Nat /\ b \in Nat /\ h \in Nat /\ c \in Nat /\ l \in Nat /\ n \in Nat
      /\ n = a + b + h + c + l
  BY <1>1, <1>5, <1>6
<1>8. /\ a # 0 \/ b # 0 \/ h # 0 \/ c # 0 \/ l # 0 => n >= 1
      /\ c >= 1 /\ n = 1 => a = 0 /\ b = 0 /\ h = 0 /\ l = 0
      /\ a # 0 /\ n <= 1 => a = 1 /\ b = 0
  BY ONLY <1>7, Addends
<1>9. a # 0 /\ n <= 1 => Cardinality(NamesOf(o)) = 1 /\ Protecting(o) = {}
  BY <1>2, <1>8 DEF a
<1> QED
  BY <1>2, <1>3, <1>4, <1>6, <1>8, <1>9

LEMMA Instances ==
  ASSUME Typed, NEW r \in Refs, InstancesAt(r)
  PROVE  /\ \/ \E k \in DOMAIN stack : stack[k] = RefFree(r)
            \/ r \in Linked \/ Readers(r) # {} \/ Assigners(r) # {}
            \/ stmt.target = r \/ stmt.operand = r
            => ref[r].instances >= 1
         /\ \A k \in DOMAIN stack :
              stack[k] = RefFree(r) /\ ref[r].instances = 1 =>
                /\ r \notin Linked /\ Readers(r) = {} /\ Assigners(r) = {}
                /\ stmt.target # r /\ stmt.operand # r
<1> DEFINE a == Cardinality(Readers(r))
           b == Cardinality(Assigners(r))
           c == Occ(stack, RefFree(r))
<1>1. /\ IsFiniteSet(Readers(r)) /\ a \in Nat
      /\ IsFiniteSet(Assigners(r)) /\ b \in Nat
      /\ c \in Nat /\ ref[r].instances \in Nat
  BY RefTerms
<1>2. (a = 0 <=> Readers(r) = {}) /\ (b = 0 <=> Assigners(r) = {})
  BY <1>1, FS_EmptySet
<1>3. \A k \in DOMAIN stack : stack[k] = RefFree(r) => c >= 1
  BY <1>1, OccNat DEF Typed
<1>4. PICK h \in Nat : /\ h = Holds(r \in Linked) + Holds(stmt.target = r)
                              + Holds(stmt.operand = r)
                       /\ r \in Linked \/ stmt.target = r \/ stmt.operand = r => h >= 1
  BY DEF Holds
<1>5. ref[r].instances = a + b + h + c
  BY <1>1, <1>4 DEF InstancesAt, Holds
<1>6. PICK n \in Nat : n = ref[r].instances
  BY <1>1
<1> HIDE DEF a, b, c
<1>7. n = a + b + h + c
  BY <1>5, <1>6
<1>8. /\ a # 0 \/ b # 0 \/ h # 0 \/ c # 0 => n >= 1
      /\ c >= 1 /\ n = 1 => a = 0 /\ b = 0 /\ h = 0
  BY <1>1, <1>4, <1>6, <1>7
<1> QED
  BY <1>2, <1>3, <1>4, <1>6, <1>8

\* A step after which the holders of an object differ by one name and one
\* protector at most.
LEMMA CountStep ==
  ASSUME Typed, Typed', NEW o \in Objects, CountAt(o), NEW x, NEW y,
         NamesOf(o)' \ {x} = NamesOf(o) \ {x},
         Protecting(o)' \ {y} = Protecting(o) \ {y},
           obj'[o].count
           + Holds(x \in NamesOf(o)) + Holds(y \in Protecting(o))
           + Holds(result = o) + Holds(held = o) + Holds(stmt.literal = o)
           + Occ(stack, ObjectFree(o)) + leaked[o]
         = obj[o].count
           + Holds(x \in NamesOf(o)') + Holds(y \in Protecting(o)')
           + Holds(result' = o) + Holds(held' = o) + Holds(stmt'.literal = o)
           + Occ(stack', ObjectFree(o)) + leaked'[o]
  PROVE  CountAt(o)'
<1>1. /\ IsFiniteSet(NamesOf(o)) /\ Cardinality(NamesOf(o)) \in Nat
      /\ IsFiniteSet(Protecting(o)) /\ Cardinality(Protecting(o)) \in Nat
      /\ Occ(stack, ObjectFree(o)) \in Nat
      /\ leaked[o] \in Nat /\ obj[o].count \in Nat
  BY ObjectTerms
<1>2. /\ Cardinality(NamesOf(o)') \in Nat /\ Cardinality(Protecting(o)') \in Nat
      /\ Occ(stack', ObjectFree(o)) \in Nat
      /\ leaked'[o] \in Nat /\ obj'[o].count \in Nat
  <2>1. (Typed => /\ Cardinality(NamesOf(o)) \in Nat /\ Cardinality(Protecting(o)) \in Nat
                  /\ Occ(stack, ObjectFree(o)) \in Nat
                  /\ leaked[o] \in Nat /\ obj[o].count \in Nat)'
    BY ObjectTerms, PTL
  <2> QED
    BY <2>1
<1>3. /\ Cardinality(NamesOf(o)') = Cardinality(NamesOf(o))
                                   - Holds(x \in NamesOf(o)) + Holds(x \in NamesOf(o)')
      /\ Cardinality(Protecting(o)') = Cardinality(Protecting(o))
                                   - Holds(y \in Protecting(o)) + Holds(y \in Protecting(o)')
  BY <1>1, OneElement
<1>4. CountAt(o)' <=>
        obj'[o].count = Cardinality(NamesOf(o)') + Cardinality(Protecting(o)')
               + Holds(result' = o) + Holds(held' = o) + Holds(stmt'.literal = o)
               + Occ(stack', ObjectFree(o)) + leaked'[o]
  BY DEF CountAt
<1> QED
  BY <1>1, <1>2, <1>3, <1>4 DEF CountAt, Holds

\* A step after which the holders of a reference differ by one reader and one
\* assigner at most.
LEMMA InstanceStep ==
  ASSUME Typed, Typed', NEW r \in Refs, InstancesAt(r), NEW x, NEW y,
         Readers(r)' \ {x} = Readers(r) \ {x},
         Assigners(r)' \ {y} = Assigners(r) \ {y},
           ref'[r].instances
           + Holds(x \in Readers(r)) + Holds(y \in Assigners(r))
           + Holds(r \in Linked) + Holds(stmt.target = r) + Holds(stmt.operand = r)
           + Occ(stack, RefFree(r))
         = ref[r].instances
           + Holds(x \in Readers(r)') + Holds(y \in Assigners(r)')
           + Holds(r \in Linked') + Holds(stmt'.target = r) + Holds(stmt'.operand = r)
           + Occ(stack', RefFree(r))
  PROVE  InstancesAt(r)'
<1>1. /\ IsFiniteSet(Readers(r)) /\ Cardinality(Readers(r)) \in Nat
      /\ IsFiniteSet(Assigners(r)) /\ Cardinality(Assigners(r)) \in Nat
      /\ Occ(stack, RefFree(r)) \in Nat /\ ref[r].instances \in Nat
  BY RefTerms
<1>2. /\ Cardinality(Readers(r)') \in Nat /\ Cardinality(Assigners(r)') \in Nat
      /\ Occ(stack', RefFree(r)) \in Nat /\ ref'[r].instances \in Nat
  <2>1. (Typed => /\ Cardinality(Readers(r)) \in Nat /\ Cardinality(Assigners(r)) \in Nat
                  /\ Occ(stack, RefFree(r)) \in Nat /\ ref[r].instances \in Nat)'
    BY RefTerms, PTL
  <2> QED
    BY <2>1
<1>3. /\ Cardinality(Readers(r)') = Cardinality(Readers(r))
                                   - Holds(x \in Readers(r)) + Holds(x \in Readers(r)')
      /\ Cardinality(Assigners(r)') = Cardinality(Assigners(r))
                                   - Holds(y \in Assigners(r)) + Holds(y \in Assigners(r)')
  BY <1>1, OneElement
<1>4. InstancesAt(r)' <=>
        ref'[r].instances =
          Holds(r \in Linked') + Cardinality(Readers(r)') + Cardinality(Assigners(r)')
        + Holds(stmt'.target = r) + Holds(stmt'.operand = r) + Occ(stack', RefFree(r))
  BY DEF InstancesAt
<1> QED
  BY <1>1, <1>2, <1>3, <1>4 DEF InstancesAt, Holds

-----------------------------------------------------------------------------
(* The buckets *)

\* Linked is the least set that holds the first reference of each bucket and
\* that the links do not leave.
LinkedLeast ==
  /\ Linked \subseteq Refs
  /\ \A b \in Buckets : base[b] = Nil \/ base[b] \in Linked
  /\ \A q \in Linked : ref[q].next = Nil \/ ref[q].next \in Linked
  /\ \A S \in SUBSET Refs :
       /\ \A b \in Buckets : base[b] = Nil \/ base[b] \in S
       /\ \A q \in S : ref[q].next = Nil \/ ref[q].next \in S
       => Linked \subseteq S

LEMMA LinkedIs == Typed => LinkedLeast
<1> SUFFICES ASSUME Typed PROVE LinkedLeast
  OBVIOUS
<1>1. /\ \A b \in Buckets : base[b] \in Refs \cup {Nil}
      /\ \A q \in Refs : ref[q].next \in Refs \cup {Nil}
  BY DEF Typed, RefCells
<1>2. Linked \subseteq Refs
  BY DEF Linked, Walk
<1>3. ASSUME NEW S \in SUBSET Refs,
             \A b \in Buckets : base[b] = Nil \/ base[b] \in S,
             \A q \in S : ref[q].next = Nil \/ ref[q].next \in S
      PROVE  Linked \subseteq S
  BY <1>3 DEF Linked, Walk, Closed
<1>4. ASSUME NEW b \in Buckets, base[b] # Nil PROVE base[b] \in Linked
  BY <1>1, <1>4 DEF Linked, Walk
<1>5. ASSUME NEW q \in Linked, ref[q].next # Nil PROVE ref[q].next \in Linked
  <2>1. q \in Refs /\ ref[q].next \in Refs
    BY <1>1, <1>2, <1>5
  <2>2. ASSUME NEW S \in SUBSET Refs,
               \A p \in {base[b] : b \in Buckets} : p = Nil \/ p \in S,
               Closed(S)
        PROVE  ref[q].next \in S
    BY <1>5, <2>2 DEF Linked, Walk, Closed
  <2> QED
    BY <2>1, <2>2 DEF Linked, Walk
<1> QED
  BY <1>2, <1>3, <1>4, <1>5 DEF LinkedLeast

\* A bucket holds linked references only, so a name that is found is linked.
LEMMA Found ==
  ASSUME Typed, NEW n \in Names, Lookup(n) # Nil
  PROVE  Lookup(n) \in Linked /\ ref[Lookup(n)].name = n
<1> DEFINE found == {r \in Chain(Bucket[n]) : ref[r].name = n}
<1>1. Lookup(n) \in found
  BY DEF Lookup
<1>2. Bucket[n] \in Buckets
  BY ReferencesAssumption
<1>3. Chain(Bucket[n]) \subseteq Linked
  BY <1>2 DEF Chain, Linked, Walk
<1> QED
  BY <1>1, <1>3

\* Nothing changes in the buckets.
LEMMA ListsKept ==
  ASSUME Typed, Typed', Lists, base' = base,
         \A q \in Linked : ref'[q].next = ref[q].next
  PROVE  Linked' = Linked /\ Lists'
<1>1. LinkedLeast /\ LinkedLeast'
  BY LinkedIs, PTL
<1>2. Linked' \subseteq Linked
  <2>1. /\ Linked \in SUBSET Refs
        /\ \A b \in Buckets : base'[b] = Nil \/ base'[b] \in Linked
        /\ \A q \in Linked : ref'[q].next = Nil \/ ref'[q].next \in Linked
    BY <1>1 DEF LinkedLeast
  <2> QED
    BY <1>1, <2>1 DEF LinkedLeast
<1>3. Linked \subseteq Linked'
  <2>1. /\ Linked' \in SUBSET Refs
        /\ \A b \in Buckets : base[b] = Nil \/ base[b] \in Linked'
        /\ \A q \in Linked' : ref[q].next = Nil \/ ref[q].next \in Linked'
    BY <1>1, <1>2 DEF LinkedLeast
  <2> QED
    BY <1>1, <2>1 DEF LinkedLeast
<1>4. Linked' = Linked
  BY <1>2, <1>3
<1> QED
  BY <1>4 DEF Lists

\* A new reference becomes the first of its bucket.
LEMMA ListsEnter ==
  ASSUME Typed, Typed', Lists, NEW b \in Buckets, NEW x \in Refs \ Linked,
         base' = [base EXCEPT ![b] = x], ref'[x].next = base[b],
         \A q \in Linked : ref'[q].next = ref[q].next
  PROVE  Linked' = Linked \cup {x} /\ Lists'
<1>1. LinkedLeast /\ LinkedLeast'
  BY LinkedIs, PTL
<1>2. x # Nil /\ base'[b] = x /\ \A c \in Buckets : c # b => base'[c] = base[c]
  BY ReferencesAssumption DEF Typed
<1>3. Linked' \subseteq Linked \cup {x}
  <2>1. /\ Linked \cup {x} \in SUBSET Refs
        /\ \A c \in Buckets : base'[c] = Nil \/ base'[c] \in Linked \cup {x}
        /\ \A q \in Linked \cup {x} :
             ref'[q].next = Nil \/ ref'[q].next \in Linked \cup {x}
    BY <1>1, <1>2 DEF LinkedLeast
  <2> QED
    BY <1>1, <2>1 DEF LinkedLeast
<1>4. x \in Linked'
  BY <1>1, <1>2 DEF LinkedLeast
<1>5. Linked \subseteq Linked'
  <2>1. /\ Linked' \ {x} \in SUBSET Refs
        /\ \A c \in Buckets : base[c] = Nil \/ base[c] \in Linked' \ {x}
    BY <1>1, <1>2, <1>4 DEF LinkedLeast
  <2>2. ASSUME NEW q \in Linked' \ {x}
        PROVE  ref[q].next = Nil \/ ref[q].next \in Linked' \ {x}
    <3>1. q \in Linked /\ ref'[q].next = ref[q].next
      BY <1>3
    <3> QED
      BY <1>1, <3>1 DEF LinkedLeast
  <2> QED
    BY <1>1, <2>1, <2>2 DEF LinkedLeast
<1>6. Linked' = Linked \cup {x}
  BY <1>3, <1>4, <1>5
<1>7. /\ \A c \in Buckets, d \in Buckets :
           base'[c] = base'[d] /\ base'[c] # Nil => c = d
      /\ \A q \in Linked', c \in Buckets :
           ref'[q].next # Nil => ref'[q].next # base'[c]
      /\ \A q \in Linked', p \in Linked' :
           ref'[q].next = ref'[p].next /\ ref'[q].next # Nil => q = p
  BY <1>1, <1>2, <1>6 DEF Lists, LinkedLeast
<1> QED
  BY <1>6, <1>7 DEF Lists

\* The first reference of a bucket is taken out.
LEMMA ListsUnlink ==
  ASSUME Typed, Typed', Lists, NEW b \in Buckets, base[b] # Nil,
         base' = [base EXCEPT ![b] = ref[base[b]].next], ref' = ref
  PROVE  Linked' = Linked \ {base[b]} /\ Lists'
<1>1. LinkedLeast /\ LinkedLeast'
  BY LinkedIs, PTL
<1> DEFINE x == base[b]
<1>2. /\ x \in Linked /\ base'[b] = ref[x].next
      /\ \A c \in Buckets : c # b => base'[c] = base[c]
  BY <1>1 DEF Typed, LinkedLeast
<1>3. Linked' \subseteq Linked \ {x}
  <2>1. /\ Linked \ {x} \in SUBSET Refs
        /\ \A c \in Buckets : base'[c] = Nil \/ base'[c] \in Linked \ {x}
        /\ \A q \in Linked \ {x} :
             ref'[q].next = Nil \/ ref'[q].next \in Linked \ {x}
    BY <1>1, <1>2 DEF LinkedLeast, Lists
  <2> QED
    BY <1>1, <2>1 DEF LinkedLeast
<1>4. Linked \ {x} \subseteq Linked'
  <2>1. /\ Linked' \cup {x} \in SUBSET Refs
        /\ \A c \in Buckets : base[c] = Nil \/ base[c] \in Linked' \cup {x}
        /\ \A q \in Linked' \cup {x} :
             ref[q].next = Nil \/ ref[q].next \in Linked' \cup {x}
    BY <1>1, <1>2 DEF LinkedLeast
  <2>2. Linked \subseteq Linked' \cup {x}
    BY <1>1, <2>1 DEF LinkedLeast
  <2> QED
    BY <2>2
<1>5. Linked' = Linked \ {x}
  BY <1>3, <1>4
<1>6. /\ \A c \in Buckets, d \in Buckets :
           base'[c] = base'[d] /\ base'[c] # Nil => c = d
      /\ \A q \in Linked', c \in Buckets :
           ref'[q].next # Nil => ref'[q].next # base'[c]
      /\ \A q \in Linked', p \in Linked' :
           ref'[q].next = ref'[p].next /\ ref'[q].next # Nil => q = p
  BY <1>1, <1>2, <1>5 DEF Lists, LinkedLeast
<1> QED
  BY <1>5, <1>6 DEF Lists

\* All names are forgotten.
LEMMA ListsEmpty ==
  ASSUME Typed', base' = [b \in Buckets |-> Nil]
  PROVE  Linked' = {} /\ Lists'
<1>1. LinkedLeast'
  BY LinkedIs, PTL
<1>2. /\ {} \in SUBSET Refs
      /\ \A b \in Buckets : base'[b] = Nil \/ base'[b] \in {}
      /\ \A q \in {} : ref'[q].next = Nil \/ ref'[q].next \in {}
  OBVIOUS
<1>3. Linked' \subseteq {}
  BY <1>1, <1>2 DEF LinkedLeast
<1> QED
  BY <1>3 DEF Lists

-----------------------------------------------------------------------------
(* The calls pending *)

Frees == {"ref_free", "object_free"}

\* A call is made, and those it makes are put before the others.
LEMMA StackNext ==
  ASSUME Typed, stack # <<>>, NEW p \in Seq(CallsTo), stack' = p \o Tail(stack)
  PROVE  /\ Head(stack) \in CallsTo /\ Head(stack) = stack[1] /\ 1 \in DOMAIN stack
         /\ stack' \in Seq(CallsTo)
         /\ Len(stack') = Len(p) + Len(stack) - 1
         /\ Len(p) \in Nat /\ Len(stack) \in Nat \ {0}
         /\ DOMAIN stack = 1 .. Len(stack) /\ DOMAIN stack' = 1 .. Len(stack')
         /\ DOMAIN p = 1 .. Len(p)
         /\ \A k \in DOMAIN stack' :
              \/ k \in DOMAIN p /\ stack'[k] = p[k]
              \/ \E l \in DOMAIN stack :
                   l # 1 /\ k = l - 1 + Len(p) /\ stack'[k] = stack[l]
         /\ \A k \in DOMAIN p : k \in DOMAIN stack' /\ stack'[k] = p[k]
         /\ \A l \in DOMAIN stack : l # 1 => /\ l - 1 + Len(p) \in DOMAIN stack'
                                             /\ stack'[l - 1 + Len(p)] = stack[l]
         /\ \A c : Occ(stack', c) = Occ(p, c) + Occ(stack, c) - Holds(c = Head(stack))
         /\ \A c : Occ(stack', c) \in Nat /\ Occ(stack, c) \in Nat /\ Occ(p, c) \in Nat
<1>1. stack \in Seq(CallsTo)
  BY DEF Typed
<1>2. /\ Head(stack) \in CallsTo /\ Tail(stack) \in Seq(CallsTo)
      /\ Len(Tail(stack)) = Len(stack) - 1
      /\ \A i \in 1 .. Len(Tail(stack)) : Tail(stack)[i] = stack[i + 1]
  BY <1>1, HeadTailProperties
<1>3. /\ Len(stack) \in Nat \ {0} /\ DOMAIN stack = 1 .. Len(stack)
      /\ Len(p) \in Nat /\ DOMAIN p = 1 .. Len(p)
  BY <1>1, LenProperties, EmptySeq
<1>4. /\ stack' \in Seq(CallsTo)
      /\ Len(stack') = Len(p) + Len(Tail(stack))
      /\ \A i \in 1 .. Len(p) + Len(Tail(stack)) :
           stack'[i] = IF i <= Len(p) THEN p[i] ELSE Tail(stack)[i - Len(p)]
  BY <1>2, ConcatProperties
<1>5. DOMAIN stack' = 1 .. Len(stack') /\ Len(stack') = Len(p) + Len(stack) - 1
  BY <1>2, <1>4, LenProperties
<1>6. ASSUME NEW k \in DOMAIN stack'
      PROVE  \/ k \in DOMAIN p /\ stack'[k] = p[k]
             \/ \E l \in DOMAIN stack :
                  l # 1 /\ k = l - 1 + Len(p) /\ stack'[k] = stack[l]
  <2>1. CASE k <= Len(p)
    BY <1>2, <1>3, <1>4, <1>5, <2>1
  <2>2. CASE k > Len(p)
    <3>1. PICK l \in Int : l = k - Len(p) + 1
      BY <1>3, <1>5
    <3>2. l \in DOMAIN stack /\ l # 1 /\ k = l - 1 + Len(p)
      BY <1>3, <1>5, <2>2, <3>1
    <3>3. stack'[k] = Tail(stack)[k - Len(p)] /\ k - Len(p) = l - 1
      BY <1>2, <1>3, <1>4, <1>5, <2>2, <3>1
    <3>4. Tail(stack)[l - 1] = stack[l]
      <4>1. l - 1 \in 1 .. Len(Tail(stack)) /\ (l - 1) + 1 = l
        BY <1>2, <1>3, <3>2
      <4> QED
        BY <1>2, <4>1
    <3> QED
      BY <3>2, <3>3, <3>4
  <2> QED
    BY <1>3, <1>5, <2>1, <2>2
<1>7. ASSUME NEW l \in DOMAIN stack, l # 1
      PROVE  l - 1 + Len(p) \in DOMAIN stack' /\ stack'[l - 1 + Len(p)] = stack[l]
  <2>1. PICK k \in Int : k = l - 1 + Len(p)
    BY <1>3
  <2>2. k \in DOMAIN stack' /\ k > Len(p)
    BY <1>3, <1>5, <1>7, <2>1
  <2>3. PICK m \in DOMAIN stack :
          m # 1 /\ k = m - 1 + Len(p) /\ stack'[k] = stack[m]
    <3>1. \/ k \in DOMAIN p /\ stack'[k] = p[k]
          \/ \E m \in DOMAIN stack :
               m # 1 /\ k = m - 1 + Len(p) /\ stack'[k] = stack[m]
      BY <1>6, <2>2
    <3>2. k \notin DOMAIN p
      BY <1>3, <2>2
    <3> QED
      BY <3>1, <3>2
  <2>4. m = l
    BY <1>3, <2>1, <2>3
  <2> QED
    BY <2>1, <2>2, <2>3, <2>4
<1>8. \A k \in DOMAIN p : k \in DOMAIN stack' /\ stack'[k] = p[k]
  BY <1>2, <1>3, <1>4, <1>5
<1>9. ASSUME NEW c
      PROVE  /\ Occ(stack', c) = Occ(p, c) + Occ(stack, c) - Holds(c = Head(stack))
             /\ Occ(stack', c) \in Nat /\ Occ(stack, c) \in Nat /\ Occ(p, c) \in Nat
  <2>1. /\ Occ(p, c) \in Nat /\ Occ(Tail(stack), c) \in Nat
        /\ Occ(stack', c) \in Nat /\ Occ(stack, c) \in Nat
    BY <1>1, <1>2, <1>4, OccNat
  <2>2. Occ(stack', c) = Occ(p, c) + Occ(Tail(stack), c)
    BY <1>2, OccConcat
  <2>3. Occ(stack, c) = Holds(c = Head(stack)) + Occ(Tail(stack), c)
    BY <1>1, OccHead
  <2> QED
    BY <2>1, <2>2, <2>3 DEF Holds
<1>10. Head(stack) = stack[1] /\ 1 \in DOMAIN stack
  BY <1>1, <1>3
<1> QED
  BY <1>2, <1>3, <1>4, <1>5, <1>6, <1>7, <1>8, <1>9, <1>10

\* The calls of the stack.
LEMMA CallShape ==
  ASSUME NEW c \in CallsTo
  PROVE  /\ c.op = "ref_free" => c.ref \in Refs /\ c = RefFree(c.ref)
         /\ c.op = "object_free" => c.object \in Objects /\ c = ObjectFree(c.object)
         /\ c.op = "release" => c.object \in Objects /\ c = Release(c.object)
         /\ c.op = "bind" => /\ c.ref \in Refs /\ c.object \in Objects
                             /\ c = Bind(c.object, c.ref)
         /\ c.op = "remove_ref" => c.object \in Objects /\ c = RemoveRef(c.object)
         /\ c.op = "db_free" => c = DbFree
         /\ c.op \in {"ref_free", "object_free", "release", "bind", "remove_ref",
                      "db_free"}
BY DEF CallsTo, RefFree, ObjectFree, Release, Bind, RemoveRef, DbFree

LEMMA FreeCall ==
  ASSUME NEW o \in Objects \cup {Nil}
  PROVE  /\ FreeIfAny(o) \in Seq(CallsTo)
         /\ \A k \in DOMAIN FreeIfAny(o) : o \in Objects /\ FreeIfAny(o)[k] = ObjectFree(o)
         /\ \A q \in Objects : Occ(FreeIfAny(o), ObjectFree(q)) = Holds(q = o)
         /\ \A r \in Refs : Occ(FreeIfAny(o), RefFree(r)) = 0
<1>1. CASE o = Nil
  BY <1>1, OccEmpty, ReferencesAssumption DEF FreeIfAny, Holds
<1>2. CASE o # Nil
  <2>1. FreeIfAny(o) = <<ObjectFree(o)>> /\ o \in Objects
    BY <1>2 DEF FreeIfAny
  <2>2. \A q \in Objects : ObjectFree(q) = ObjectFree(o) <=> q = o
    BY DEF ObjectFree
  <2>3. \A r \in Refs : RefFree(r) # ObjectFree(o)
    BY DEF ObjectFree, RefFree
  <2>4. \A q \in Objects : Occ(<<ObjectFree(o)>>, ObjectFree(q)) = Holds(q = o)
    BY <2>2, OccOne DEF Holds
  <2>5. \A r \in Refs : Occ(<<ObjectFree(o)>>, RefFree(r)) = 0
    BY <2>3, OccOne DEF Holds
  <2>6. <<ObjectFree(o)>> \in Seq(CallsTo)
    BY <2>1 DEF CallsTo
  <2> QED
    BY <2>1, <2>4, <2>5, <2>6
<1> QED
  BY <1>1, <1>2

LEMMA RefFreeCall ==
  ASSUME NEW r \in Refs \cup {Nil}
  PROVE  /\ RefFreeIfAny(r) \in Seq(CallsTo)
         /\ \A k \in DOMAIN RefFreeIfAny(r) : r \in Refs /\ RefFreeIfAny(r)[k] = RefFree(r)
         /\ \A q \in Refs : Occ(RefFreeIfAny(r), RefFree(q)) = Holds(q = r)
         /\ \A o \in Objects : Occ(RefFreeIfAny(r), ObjectFree(o)) = 0
<1>1. CASE r = Nil
  BY <1>1, OccEmpty, ReferencesAssumption DEF RefFreeIfAny, Holds
<1>2. CASE r # Nil
  <2>1. RefFreeIfAny(r) = <<RefFree(r)>> /\ r \in Refs
    BY <1>2 DEF RefFreeIfAny
  <2>2. \A q \in Refs : RefFree(q) = RefFree(r) <=> q = r
    BY DEF RefFree
  <2>3. \A o \in Objects : ObjectFree(o) # RefFree(r)
    BY DEF ObjectFree, RefFree
  <2>4. \A q \in Refs : Occ(<<RefFree(r)>>, RefFree(q)) = Holds(q = r)
    BY <2>2, OccOne DEF Holds
  <2>5. \A o \in Objects : Occ(<<RefFree(r)>>, ObjectFree(o)) = 0
    BY <2>3, OccOne DEF Holds
  <2>6. <<RefFree(r)>> \in Seq(CallsTo)
    BY <2>1 DEF CallsTo
  <2> QED
    BY <2>1, <2>4, <2>5, <2>6
<1> QED
  BY <1>1, <1>2


-----------------------------------------------------------------------------
(* What is held is live *)

\* References and objects with a holder are live.
LEMMA HeldLive ==
  ASSUME Typed, Blank, Counted
  PROVE  /\ \A r \in Refs : ref[r].instances >= 1 => r \in LiveRefs
         /\ \A o \in Objects : obj[o].count >= 1 => o \in LiveObjects
BY DEF Blank, FreeRef, FreeObj, LiveRefs, LiveObjects

\* What can be reached is live.
LEMMA Reached ==
  ASSUME Typed, Blank, Counted
  PROVE  /\ Linked \subseteq LiveRefs
         /\ {stmt.target, stmt.operand} \ {Nil} \subseteq LiveRefs
         /\ {result, held, stmt.literal} \ {Nil} \subseteq LiveObjects
         /\ \A p \in Objects : /\ obj[p].refs \cup obj[p].sets \subseteq LiveRefs
                               /\ obj[p].objs \subseteq LiveObjects
         /\ \A r \in LiveRefs \ Binding : ref[r].object \in LiveObjects \cup {Nil}
         /\ \A o \in Objects : ~obj[o].alive => leaked[o] = 0
<1>1. /\ stmt.target \in Refs \cup {Nil} /\ stmt.operand \in Refs \cup {Nil}
      /\ stmt.literal \in Objects \cup {Nil}
      /\ result \in Objects \cup {Nil} /\ held \in Objects \cup {Nil}
      /\ \A p \in Objects : /\ obj[p].refs \in SUBSET Refs /\ obj[p].sets \in SUBSET Refs
                            /\ obj[p].objs \in SUBSET Objects
      /\ \A r \in Refs : ref[r].object \in Objects \cup {Nil}
  BY DEF Typed, Stmts, ObjCells, RefCells
<1>2. Linked \subseteq Refs
  BY LinkedIs DEF LinkedLeast
<1>3. ASSUME NEW r \in Refs,
             \/ r \in Linked \/ Readers(r) # {} \/ Assigners(r) # {}
             \/ stmt.target = r \/ stmt.operand = r
      PROVE  r \in LiveRefs
  <2>1. ref[r].instances >= 1
    BY <1>3, Instances DEF Counted
  <2> QED
    BY <2>1, HeldLive
<1>4. ASSUME NEW o \in Objects,
             \/ NamesOf(o) # {} \/ Protecting(o) # {}
             \/ result = o \/ held = o \/ stmt.literal = o \/ leaked[o] # 0
      PROVE  o \in LiveObjects
  <2>1. obj[o].count >= 1
    BY <1>4, Holders DEF Counted
  <2> QED
    BY <2>1, HeldLive
<1>5. Linked \subseteq LiveRefs
  BY <1>2, <1>3
<1>6. {stmt.target, stmt.operand} \ {Nil} \subseteq LiveRefs
  BY <1>1, <1>3
<1>7. {result, held, stmt.literal} \ {Nil} \subseteq LiveObjects
  BY <1>1, <1>4
<1>8. ASSUME NEW p \in Objects
      PROVE  /\ obj[p].refs \cup obj[p].sets \subseteq LiveRefs
             /\ obj[p].objs \subseteq LiveObjects
  <2>1. CASE ~obj[p].alive
    BY <2>1 DEF Blank, FreeObj
  <2>2. CASE obj[p].alive
    <3>1. \A r \in obj[p].refs \cup obj[p].sets : p \in Readers(r) \/ p \in Assigners(r)
      BY <2>2 DEF Readers, Assigners, LiveObjects
    <3>2. \A o \in obj[p].objs : p \in Protecting(o)
      BY <2>2 DEF Protecting, LiveObjects
    <3> QED
      BY <1>1, <1>3, <1>4, <3>1, <3>2
  <2> QED
    BY <2>1, <2>2
<1>9. ASSUME NEW r \in LiveRefs \ Binding
      PROVE  ref[r].object \in LiveObjects \cup {Nil}
  <2>1. ref[r].object = Nil \/ r \in NamesOf(ref[r].object)
    BY DEF NamesOf
  <2> QED
    BY <1>1, <1>4, <2>1 DEF LiveRefs
<1>10. \A o \in Objects : ~obj[o].alive => leaked[o] = 0
  BY <1>4 DEF LiveObjects
<1> QED
  BY <1>5, <1>6, <1>7, <1>8, <1>9, <1>10

\* A reference being bound is held by the statement or by the code executed.
LEMMA BoundHeld ==
  ASSUME Typed, Statement, Blank, Counted, Binds, NEW r \in Binding
  PROVE  /\ r \in LiveRefs
         /\ stmt.target = r \/ Assigners(r) # {}
         /\ pc \in {"return", "release"}
<1>1. PICK k \in DOMAIN stack : stack[k].op = "bind" /\ r = stack[k].ref
  BY DEF Binding
<1>2. stack[k] \in CallsTo
  BY ElementOfSeq, LenProperties DEF Typed
<1>3. r \in Refs /\ r # Nil
  BY <1>1, <1>2, CallShape, ReferencesAssumption
<1>5. \/ pc = "release" /\ r = stmt.target
      \/ pc = "return" /\ r \in obj[held].sets
  BY <1>1 DEF Binds
<1>6. pc = "return" => held \in LiveObjects
  BY Reached DEF Statement
<1>7. stmt.target = r \/ Assigners(r) # {}
  BY <1>5, <1>6 DEF Assigners
<1>8. ref[r].instances >= 1
  BY <1>3, <1>7, Instances DEF Counted
<1> QED
  BY <1>3, <1>5, <1>7, <1>8, HeldLive

\* The calls still to be made lead to live cells.
LEMMA CallsLive ==
  ASSUME IInv, NEW k \in DOMAIN stack
  PROVE  /\ stack[k].ref \in LiveRefs \cup {Nil}
         /\ stack[k].object \in LiveObjects \cup {Nil}
<1>1. /\ Typed /\ Blank /\ Counted /\ Statement /\ Binds /\ Clears /\ Releases
  BY DEF IInv
<1>2. stack[k] \in CallsTo
  BY <1>1, ElementOfSeq, LenProperties DEF Typed
<1>3. CASE stack[k].op = "ref_free"
  <2>1. PICK r \in Refs : stack[k] = RefFree(r)
    BY <1>2, <1>3, CallShape
  <2>2. ref[r].instances >= 1
    BY <1>1, <2>1, Instances DEF Counted
  <2> QED
    BY <1>1, <2>1, <2>2, HeldLive DEF RefFree
<1>4. CASE stack[k].op = "object_free"
  <2>1. PICK o \in Objects : stack[k] = ObjectFree(o)
    BY <1>2, <1>4, CallShape
  <2>2. obj[o].count >= 1
    BY <1>1, <2>1, Holders DEF Counted
  <2> QED
    BY <1>1, <2>1, <2>2, HeldLive DEF ObjectFree
<1>5. CASE stack[k].op = "release"
  <2>1. PICK o \in Objects : stack[k] = Release(o)
    BY <1>2, <1>5, CallShape
  <2> QED
    BY <1>1, <2>1 DEF Releases, Spent, Release, LiveObjects
<1>6. CASE stack[k].op = "bind"
  <2>1. stack[k].ref \in Binding
    BY <1>6 DEF Binding
  <2>2. stack[k].ref \in LiveRefs
    BY <1>1, <2>1, BoundHeld
  <2>3. stack[k].object = result
    BY <1>1, <1>6 DEF Binds
  <2> QED
    BY <1>1, <2>2, <2>3, Reached
<1>7. CASE stack[k].op = "remove_ref"
  <2>1. PICK o \in Objects : stack[k] = RemoveRef(o)
    BY <1>2, <1>7, CallShape
  <2>2. PICK r \in Linked : ref[r].object = o
    BY <1>1, <1>7, <2>1 DEF Clears, RemoveRef
  <2>3. r \in LiveRefs /\ r \notin Binding
    BY <1>1, <1>7, Reached, BoundHeld DEF Clears
  <2>4. o # Nil
    BY ReferencesAssumption
  <2> QED
    BY <1>1, <2>1, <2>2, <2>3, <2>4, Reached DEF RemoveRef
<1>8. CASE stack[k].op = "db_free"
  BY <1>2, <1>8, CallShape DEF DbFree
<1> QED
  BY <1>2, <1>3, <1>4, <1>5, <1>6, <1>7, <1>8, CallShape

\* Nothing that can be reached dangles.
LEMMA Sound == IInv => NoDangling
<1> SUFFICES ASSUME IInv PROVE NoDangling
  OBVIOUS
<1> DEFINE refs == {base[b] : b \in Buckets} \cup {stmt.target, stmt.operand}
                   \cup {ref[r].next : r \in Linked}
                   \cup (UNION {obj[p].refs \cup obj[p].sets : p \in LiveObjects})
                   \cup {stack[k].ref : k \in DOMAIN stack}
           objs == {ref[r].object : r \in LiveRefs \ Binding}
                   \cup {result, held, stmt.literal}
                   \cup (UNION {obj[p].objs : p \in LiveObjects})
                   \cup {stack[k].object : k \in DOMAIN stack}
<1>1. Typed /\ Blank /\ Counted
  BY DEF IInv
<1>2. /\ \A b \in Buckets : base[b] \in LiveRefs \cup {Nil}
      /\ \A q \in Linked : ref[q].next \in LiveRefs \cup {Nil}
  BY <1>1, LinkedIs, Reached DEF LinkedLeast
<1>3. LiveObjects \subseteq Objects
  BY DEF LiveObjects
<1>4. /\ {stmt.target, stmt.operand} \ {Nil} \subseteq LiveRefs
      /\ {result, held, stmt.literal} \ {Nil} \subseteq LiveObjects
      /\ \A p \in LiveObjects : /\ obj[p].refs \cup obj[p].sets \subseteq LiveRefs
                               /\ obj[p].objs \subseteq LiveObjects
      /\ \A r \in LiveRefs \ Binding : ref[r].object \in LiveObjects \cup {Nil}
  BY <1>1, <1>3, Reached
<1>5. \A k \in DOMAIN stack : /\ stack[k].ref \in LiveRefs \cup {Nil}
                             /\ stack[k].object \in LiveObjects \cup {Nil}
  BY CallsLive
<1>6. ASSUME NEW r \in refs, r # Nil PROVE r \in LiveRefs
  <2>1. CASE \E p \in LiveObjects : r \in obj[p].refs \cup obj[p].sets
    BY <1>4, <2>1
  <2>2. CASE \E k \in DOMAIN stack : r = stack[k].ref
    BY <1>5, <1>6, <2>2
  <2>3. CASE \/ r \in {base[b] : b \in Buckets} \cup {stmt.target, stmt.operand}
             \/ r \in {ref[q].next : q \in Linked}
    BY <1>2, <1>4, <1>6, <2>3
  <2> QED
    BY <1>6, <2>1, <2>2, <2>3
<1>7. ASSUME NEW o \in objs, o # Nil PROVE o \in LiveObjects
  <2>1. CASE \E p \in LiveObjects : o \in obj[p].objs
    BY <1>4, <2>1
  <2>2. CASE \E k \in DOMAIN stack : o = stack[k].object
    BY <1>5, <1>7, <2>2
  <2>3. CASE \/ o \in {ref[r].object : r \in LiveRefs \ Binding}
             \/ o \in {result, held, stmt.literal}
    BY <1>4, <1>7, <2>3
  <2> QED
    BY <1>7, <2>1, <2>2, <2>3
<1> QED
  BY <1>6, <1>7 DEF NoDangling

-----------------------------------------------------------------------------
(* What the pending calls rely on *)

\* Calls that give back references and objects rely on nothing.
LEMMA OnlyFrees ==
  ASSUME \A k \in DOMAIN stack' : stack'[k].op \in {"ref_free", "object_free"}
  PROVE  Releases' /\ Binds' /\ Clears' /\ Binding' = {}
<1>1. \A k \in DOMAIN stack' :
        stack'[k].op # "release" /\ stack'[k].op # "bind"
        /\ stack'[k].op # "remove_ref" /\ stack'[k].op # "db_free"
  OBVIOUS
<1>2. Releases'
  BY <1>1 DEF Releases
<1>3. Binds'
  BY <1>1 DEF Binds
<1>4. Clears'
  BY <1>1 DEF Clears
<1>5. Binding' = {}
  BY <1>1 DEF Binding
<1> QED
  BY <1>2, <1>3, <1>4, <1>5

\* The calls behind the first one, once it is made and has put p before them.
LEMMA ReleasesNext ==
  ASSUME Typed, Releases, stack # <<>>, NEW p \in Seq(CallsTo),
         stack' = p \o Tail(stack),
         \A k \in DOMAIN stack : k # 1 /\ stack[k].op = "release" =>
           obj'[stack[k].object] = obj[stack[k].object],
         \A k \in DOMAIN p : p[k].op = "release" =>
           /\ Spent(obj'[p[k].object])
           /\ \A l \in DOMAIN p : p[l] = p[k] => l = k
           /\ \A l \in DOMAIN stack : stack[l] # p[k]
  PROVE  Releases'
<1>1. /\ Len(p) \in Nat /\ Len(stack) \in Nat \ {0}
      /\ DOMAIN stack = 1 .. Len(stack) /\ DOMAIN p = 1 .. Len(p)
      /\ \A k \in DOMAIN stack' :
           \/ k \in DOMAIN p /\ stack'[k] = p[k]
           \/ \E l \in DOMAIN stack :
                l # 1 /\ k = l - 1 + Len(p) /\ stack'[k] = stack[l]
  BY StackNext
<1> SUFFICES ASSUME NEW k \in DOMAIN stack', NEW c, c = stack'[k], c.op = "release"
             PROVE  /\ Spent(obj'[c.object])
                    /\ \A l \in DOMAIN stack' : stack'[l] = c => l = k
  BY DEF Releases
<1>2. CASE k \in DOMAIN p /\ c = p[k]
  <2>1. /\ Spent(obj'[c.object])
        /\ \A l \in DOMAIN p : p[l] = c => l = k
        /\ \A l \in DOMAIN stack : stack[l] # c
    BY <1>2
  <2> QED
    BY <1>1, <2>1
<1>3. ASSUME NEW m \in DOMAIN stack, m # 1, k = m - 1 + Len(p), c = stack[m]
      PROVE  /\ Spent(obj'[c.object])
             /\ \A l \in DOMAIN stack' : stack'[l] = c => l = k
  <2>1. /\ Spent(obj[c.object])
        /\ \A l \in DOMAIN stack : stack[l] = c => l = m
    BY <1>3 DEF Releases
  <2>2. obj'[c.object] = obj[c.object]
    BY <1>3
  <2>3. ASSUME NEW l \in DOMAIN stack', stack'[l] = c PROVE l = k
    <3>1. CASE l \in DOMAIN p /\ c = p[l]
      <4>1. \A n \in DOMAIN stack : stack[n] # c
        BY <3>1
      <4> QED
        BY <1>3, <4>1
    <3>2. ASSUME NEW n \in DOMAIN stack, l = n - 1 + Len(p), c = stack[n]
          PROVE  l = k
      <4>1. n = m
        BY <2>1, <3>2
      <4> QED
        BY <1>3, <3>2, <4>1
    <3> QED
      BY <1>1, <2>3, <3>1, <3>2
  <2> QED
    BY <2>1, <2>2, <2>3
<1> QED
  BY <1>1, <1>2, <1>3

LEMMA BindsNext ==
  ASSUME Typed, Binds, stack # <<>>, NEW p \in Seq(CallsTo),
         stack' = p \o Tail(stack), \A k \in DOMAIN p : p[k].op # "bind",
         UNCHANGED <<pc, stmt, result, held>>,
         pc = "return" => obj'[held].sets = obj[held].sets
  PROVE  /\ Binds'
         /\ Head(stack).op # "bind" => Binding' = Binding
         /\ Head(stack).op = "bind" => Binding' = {} /\ Binding = {Head(stack).ref}
<1>1. /\ Len(stack') = Len(p) + Len(stack) - 1
      /\ Len(p) \in Nat /\ Len(stack) \in Nat \ {0}
      /\ Head(stack) = stack[1] /\ 1 \in DOMAIN stack
      /\ DOMAIN stack = 1 .. Len(stack) /\ DOMAIN stack' = 1 .. Len(stack')
      /\ \A k \in DOMAIN stack' :
           \/ k \in DOMAIN p /\ stack'[k] = p[k]
           \/ \E l \in DOMAIN stack :
                l # 1 /\ k = l - 1 + Len(p) /\ stack'[k] = stack[l]
      /\ \A l \in DOMAIN stack : l # 1 => /\ l - 1 + Len(p) \in DOMAIN stack'
                                          /\ stack'[l - 1 + Len(p)] = stack[l]
  BY StackNext
<1>2. \A k \in DOMAIN stack' : stack'[k].op = "bind" =>
        \E l \in DOMAIN stack :
          l # 1 /\ k = l - 1 + Len(p) /\ stack'[k] = stack[l]
  BY <1>1
<1>3. ASSUME NEW k \in DOMAIN stack', stack'[k].op = "bind"
      PROVE  /\ k = Len(stack') /\ stack'[k].object = result
             /\ \/ pc = "release" /\ stack'[k].ref = stmt.target
                \/ pc = "return" /\ stack'[k].ref \in obj'[held].sets
  <2>1. PICK l \in DOMAIN stack : l # 1 /\ k = l - 1 + Len(p) /\ stack'[k] = stack[l]
    BY <1>2, <1>3
  <2>2. /\ l = Len(stack) /\ stack[l].object = result
        /\ \/ pc = "release" /\ stack[l].ref = stmt.target
           \/ pc = "return" /\ stack[l].ref \in obj[held].sets
    BY <1>3, <2>1 DEF Binds
  <2>3. k = Len(stack')
    BY <1>1, <2>1, <2>2
  <2> QED
    BY <2>1, <2>2, <2>3
<1>4. Binds'
  BY <1>3 DEF Binds
<1>5. Binding' \subseteq Binding
  BY <1>2 DEF Binding
<1>6. ASSUME NEW l \in DOMAIN stack, l # 1, stack[l].op = "bind"
      PROVE  stack[l].ref \in Binding'
  <2>1. l - 1 + Len(p) \in DOMAIN stack' /\ stack'[l - 1 + Len(p)] = stack[l]
    BY <1>1, <1>6
  <2> QED
    BY <1>6, <2>1 DEF Binding
<1>7. CASE Head(stack).op # "bind"
  <2>1. \A l \in DOMAIN stack : stack[l].op = "bind" => l # 1
    BY <1>1, <1>7
  <2>2. Binding \subseteq Binding'
    BY <1>6, <2>1 DEF Binding
  <2> QED
    BY <1>4, <1>5, <1>7, <2>2
<1>8. CASE Head(stack).op = "bind"
  <2>1. Len(stack) = 1
    BY <1>1, <1>8 DEF Binds
  <2>2. \A l \in DOMAIN stack : l = 1
    BY <1>1, <2>1
  <2>3. Binding' = {}
    BY <1>2, <2>2 DEF Binding
  <2>4. Binding = {Head(stack).ref}
    BY <1>1, <1>8, <2>2 DEF Binding
  <2> QED
    BY <1>4, <1>8, <2>3, <2>4
<1> QED
  BY <1>4, <1>7, <1>8

LEMMA ClearsNext ==
  ASSUME Typed, Clears, stack # <<>>, NEW p \in Seq(CallsTo),
         stack' = p \o Tail(stack),
         \A k \in DOMAIN p : p[k].op # "remove_ref" /\ p[k].op # "db_free",
         pc' = pc,
         Head(stack).op # "db_free" =>
           \A r \in Linked : r \in Linked' /\ ref'[r].object = ref[r].object
  PROVE  Clears'
<1>1. /\ Len(stack') = Len(p) + Len(stack) - 1
      /\ Len(p) \in Nat /\ Len(stack) \in Nat \ {0}
      /\ Head(stack) = stack[1] /\ 1 \in DOMAIN stack
      /\ DOMAIN stack = 1 .. Len(stack) /\ DOMAIN stack' = 1 .. Len(stack')
      /\ \A k \in DOMAIN stack' :
           \/ k \in DOMAIN p /\ stack'[k] = p[k]
           \/ \E l \in DOMAIN stack :
                l # 1 /\ k = l - 1 + Len(p) /\ stack'[k] = stack[l]
  BY StackNext
<1> SUFFICES ASSUME NEW k \in DOMAIN stack', NEW c, c = stack'[k],
                    c.op \in {"remove_ref", "db_free"}
             PROVE  /\ pc = "idle"
                    /\ c.op = "remove_ref" => \E r \in Linked' : ref'[r].object = c.object
                    /\ c.op = "db_free" => k = Len(stack')
  BY DEF Clears
<1>2. PICK l \in DOMAIN stack : l # 1 /\ k = l - 1 + Len(p) /\ c = stack[l]
  <2>1. ~(k \in DOMAIN p /\ c = p[k])
    OBVIOUS
  <2> QED
    BY <1>1, <2>1
<1>3. /\ pc = "idle"
      /\ c.op = "remove_ref" => \E r \in Linked : ref[r].object = c.object
      /\ c.op = "db_free" => l = Len(stack)
  BY <1>2 DEF Clears
<1>4. Head(stack).op # "db_free"
  BY <1>1, <1>2 DEF Clears
<1>5. c.op = "db_free" => k = Len(stack')
  BY <1>1, <1>2, <1>3
<1>6. c.op = "remove_ref" => \E r \in Linked' : ref'[r].object = c.object
  BY <1>3, <1>4
<1> QED
  BY <1>3, <1>5, <1>6

-----------------------------------------------------------------------------
(* Destructors *)

LEMMA FirstCall ==
  ASSUME Typed, stack # <<>>
  PROVE  /\ Head(stack) \in CallsTo /\ Head(stack) = stack[1] /\ 1 \in DOMAIN stack
         /\ Tail(stack) = <<>> \o Tail(stack) /\ <<>> \in Seq(CallsTo)
         /\ DOMAIN stack = 1 .. Len(stack)
<1>1. stack \in Seq(CallsTo)
  BY DEF Typed
<1>2. Head(stack) \in CallsTo /\ Tail(stack) \in Seq(CallsTo)
  BY <1>1, HeadTailProperties
<1>3. Tail(stack) = <<>> \o Tail(stack)
  BY <1>2, ConcatEmptySeq
<1>4. /\ Head(stack) = stack[1] /\ 1 \in DOMAIN stack /\ <<>> \in Seq(CallsTo)
      /\ DOMAIN stack = 1 .. Len(stack)
  BY <1>1
<1> QED
  BY <1>2, <1>3, <1>4

\* A call changes nothing in the statement and takes no object.
LEMMA CallFrame ==
  ASSUME Statement, Room, stack # <<>>, UNCHANGED <<pc, stmt, result, held>>,
         Unused \subseteq Unused'
  PROVE  Statement' /\ Room'
BY DEF Statement, Room

LEMMA CallRefFreeKeeps ==
  ASSUME IInv, CallRefFree
  PROVE  IInv'
<1> DEFINE r == Head(stack).ref
           last == ref[r].instances = 1
           p == IF last THEN FreeIfAny(ref[r].object) ELSE <<>>
<1>1. /\ Typed /\ Statement /\ Contents /\ Blank /\ Room
      /\ Lists /\ Releases /\ Binds /\ Clears /\ Counted
  BY DEF IInv
<1>2. /\ stack # <<>> /\ Head(stack).op = "ref_free"
      /\ ref' = IF last THEN [ref EXCEPT ![r] = FreeRef]
                        ELSE [ref EXCEPT ![r].instances = @ - 1]
      /\ stack' = IF last THEN FreeIfAny(ref[r].object) \o Tail(stack) ELSE Tail(stack)
      /\ UNCHANGED <<base, obj, pc, stmt, result, held, leaked>>
  BY DEF CallRefFree
<1>3. /\ Head(stack) = RefFree(r) /\ r \in Refs /\ Head(stack) = stack[1]
      /\ 1 \in DOMAIN stack
  BY <1>1, <1>2, FirstCall, CallShape
<1>4. ref[r].instances \in Nat /\ ref[r].instances >= 1 /\ ref[r] \in RefCells
  BY <1>1, <1>3, Instances DEF Counted, Typed, RefCells
<1>5. r \in LiveRefs
  BY <1>1, <1>3, <1>4, HeldLive
<1>6. last => /\ r \notin Linked /\ r \notin Binding
              /\ Readers(r) = {} /\ Assigners(r) = {}
  <2>1. last => /\ r \notin Linked /\ Readers(r) = {} /\ Assigners(r) = {}
                /\ stmt.target # r
    BY <1>1, <1>3, Instances DEF Counted
  <2> QED
    BY <1>1, <2>1, BoundHeld
<1>7. /\ p \in Seq(CallsTo) /\ stack' = p \o Tail(stack)
      /\ \A k \in DOMAIN p : p[k].op = "object_free"
      /\ \A q \in Refs : Occ(p, RefFree(q)) = 0
      /\ \A o \in Objects : Occ(p, ObjectFree(o)) = Holds(last /\ ref[r].object = o)
  <2>1. CASE last
    <3>1. ref[r].object \in Objects \cup {Nil}
      BY <1>4 DEF RefCells
    <3> QED
      BY <1>2, <2>1, <3>1, FreeCall DEF ObjectFree, Holds
  <2>2. CASE ~last
    BY <1>1, <1>2, <2>2, FirstCall, OccEmpty DEF Holds
  <2> QED
    BY <2>1, <2>2
<1>8. /\ \A q \in Refs : q # r => ref'[q] = ref[q]
      /\ last => ref'[r] = FreeRef
      /\ ~last => /\ ref'[r] = [ref[r] EXCEPT !.instances = @ - 1]
                  /\ ref'[r].instances = ref[r].instances - 1
                  /\ ref'[r].alive /\ ref'[r].object = ref[r].object
                  /\ ref'[r].next = ref[r].next
      /\ ref'[r].instances = ref[r].instances - 1
  <2>1. ref \in [Refs -> RefCells]
    BY <1>1 DEF Typed
  <2>2. CASE last
    BY <1>2, <1>3, <2>1, <2>2 DEF FreeRef
  <2>3. CASE ~last
    BY <1>2, <1>3, <1>4, <1>5, <2>1, <2>3 DEF RefCells, LiveRefs
  <2> QED
    BY <2>2, <2>3
<1> HIDE DEF p
<1>9. Typed'
  <2>1. ref'[r] \in RefCells
    <3>1. FreeRef \in RefCells
      BY DEF RefCells, FreeRef
    <3>2. ~last => ref'[r] \in RefCells
      BY <1>4, <1>8 DEF RefCells
    <3> QED
      BY <1>8, <3>1, <3>2
  <2>2. ref' \in [Refs -> RefCells]
    BY <1>1, <1>2, <1>3, <1>8, <2>1 DEF Typed
  <2>3. stack' \in Seq(CallsTo)
    BY <1>1, <1>2, <1>7, StackNext
  <2> QED
    BY <1>1, <1>2, <2>2, <2>3 DEF Typed
<1>10. Linked' = Linked /\ Lists'
  <2>1. \A q \in Linked : ref'[q].next = ref[q].next
    BY <1>1, <1>6, <1>8, LinkedIs DEF LinkedLeast
  <2> QED
    BY <1>1, <1>2, <1>9, <2>1, ListsKept
<1>11. Releases'
  BY <1>1, <1>2, <1>7, ReleasesNext
<1>12. Binds' /\ Binding' = Binding
  BY <1>1, <1>2, <1>7, BindsNext
<1>13. Clears'
  <2>1. \A q \in Linked : q \in Linked' /\ ref'[q].object = ref[q].object
    BY <1>1, <1>6, <1>8, <1>10, LinkedIs DEF LinkedLeast
  <2> QED
    BY <1>1, <1>2, <1>7, <2>1, ClearsNext
<1>14. /\ \A c : Occ(stack', c) = Occ(p, c) + Occ(stack, c) - Holds(c = Head(stack))
       /\ \A c : Occ(stack', c) \in Nat /\ Occ(stack, c) \in Nat
  BY <1>1, <1>2, <1>7, StackNext
<1>15. ASSUME NEW o \in Objects PROVE CountAt(o)'
  <2>1. \A q \in Refs : q # r => (q \in NamesOf(o)' <=> q \in NamesOf(o))
    BY <1>8, <1>12 DEF NamesOf, LiveRefs
  <2>2. NamesOf(o)' \ {r} = NamesOf(o) \ {r}
    BY <2>1 DEF NamesOf, LiveRefs
  <2>3. /\ r \in NamesOf(o) <=> r \notin Binding /\ ref[r].object = o
        /\ r \in NamesOf(o)' <=> ~last /\ r \notin Binding /\ ref[r].object = o
    BY <1>3, <1>5, <1>8, <1>12 DEF NamesOf, LiveRefs, FreeRef
  <2>4. Protecting(o)' = Protecting(o)
    BY <1>2 DEF Protecting, LiveObjects
  <2>5. Occ(stack', ObjectFree(o)) = Occ(stack, ObjectFree(o))
                                     + Holds(last /\ ref[r].object = o)
    <3>1. ObjectFree(o) # Head(stack)
      BY <1>3 DEF ObjectFree, RefFree
    <3> QED
      BY <1>7, <1>14, <3>1 DEF Holds
  <2>6. /\ obj'[o].count = obj[o].count /\ obj[o].count \in Nat /\ leaked[o] \in Nat
        /\ UNCHANGED <<result, held, stmt, leaked>>
        /\ Occ(stack, ObjectFree(o)) \in Nat
    BY <1>1, <1>2, ObjectTerms
  <2>7.   obj'[o].count
          + Holds(r \in NamesOf(o)) + Holds(Nil \in Protecting(o))
          + Holds(result = o) + Holds(held = o) + Holds(stmt.literal = o)
          + Occ(stack, ObjectFree(o)) + leaked[o]
        = obj[o].count
          + Holds(r \in NamesOf(o)') + Holds(Nil \in Protecting(o)')
          + Holds(result' = o) + Holds(held' = o) + Holds(stmt'.literal = o)
          + Occ(stack', ObjectFree(o)) + leaked'[o]
    BY <1>6, <2>3, <2>4, <2>5, <2>6 DEF Holds
  <2> QED
    BY <1>1, <1>9, <2>2, <2>4, <2>7, CountStep DEF Counted
<1>16. ASSUME NEW q \in Refs PROVE InstancesAt(q)'
  <2>1. Readers(q)' = Readers(q) /\ Assigners(q)' = Assigners(q)
    BY <1>2 DEF Readers, Assigners, LiveObjects
  <2>2. Occ(stack', RefFree(q)) = Occ(stack, RefFree(q)) - Holds(q = r)
    <3>1. RefFree(q) = Head(stack) <=> q = r
      BY <1>3 DEF RefFree
    <3> QED
      BY <1>7, <1>14, <3>1 DEF Holds
  <2>3. ref'[q].instances = ref[q].instances - Holds(q = r)
    BY <1>1, <1>8, RefTerms DEF Holds
  <2>4. /\ ref[q].instances \in Nat /\ Occ(stack, RefFree(q)) \in Nat
        /\ stmt' = stmt
    BY <1>1, <1>2, RefTerms
  <2>5.   ref'[q].instances
          + Holds(Nil \in Readers(q)) + Holds(Nil \in Assigners(q))
          + Holds(q \in Linked) + Holds(stmt.target = q) + Holds(stmt.operand = q)
          + Occ(stack, RefFree(q))
        = ref[q].instances
          + Holds(Nil \in Readers(q)') + Holds(Nil \in Assigners(q)')
          + Holds(q \in Linked') + Holds(stmt'.target = q) + Holds(stmt'.operand = q)
          + Occ(stack', RefFree(q))
    BY <1>10, <2>1, <2>2, <2>3, <2>4 DEF Holds
  <2> QED
    BY <1>1, <1>9, <2>1, <2>5, InstanceStep DEF Counted
<1>17. Statement' /\ Room'
  BY <1>1, <1>2, CallFrame DEF Unused
<1>18. Contents'
  BY <1>1, <1>2 DEF Contents
<1>19. Blank'
  BY <1>1, <1>2, <1>3, <1>8 DEF Blank
<1> QED
  BY <1>9, <1>10, <1>11, <1>12, <1>13, <1>15, <1>16, <1>17, <1>18, <1>19
    DEF IInv, Counted

LEMMA ConcatElements ==
  ASSUME NEW D, NEW s \in Seq(D), NEW t \in Seq(D)
  PROVE  /\ s \o t \in Seq(D) /\ Len(s \o t) = Len(s) + Len(t)
         /\ Len(s) \in Nat /\ Len(t) \in Nat
         /\ \A k \in DOMAIN (s \o t) :
              \/ k \in DOMAIN s /\ (s \o t)[k] = s[k]
              \/ \E l \in DOMAIN t : k = Len(s) + l /\ (s \o t)[k] = t[l]
<1>1. /\ s \o t \in Seq(D) /\ Len(s \o t) = Len(s) + Len(t)
      /\ DOMAIN s = 1 .. Len(s) /\ Len(s) \in Nat
      /\ DOMAIN t = 1 .. Len(t) /\ Len(t) \in Nat
      /\ DOMAIN (s \o t) = 1 .. Len(s) + Len(t)
      /\ \A i \in 1 .. Len(s) + Len(t) :
           (s \o t)[i] = IF i <= Len(s) THEN s[i] ELSE t[i - Len(s)]
  BY LenProperties, ConcatProperties
<1>2. ASSUME NEW k \in DOMAIN (s \o t), k > Len(s)
      PROVE  \E l \in DOMAIN t : k = Len(s) + l /\ (s \o t)[k] = t[l]
  <2>1. PICK l \in Int : l = k - Len(s)
    BY <1>1
  <2> QED
    BY <1>1, <1>2, <2>1
<1>3. ASSUME NEW k \in DOMAIN (s \o t), k <= Len(s)
      PROVE  k \in DOMAIN s /\ (s \o t)[k] = s[k]
  BY <1>1, <1>3
<1> QED
  BY <1>1, <1>2, <1>3

\* The calls that give back the content of an object, and its cell.
ContentFree(R, S, T, o) ==
  RefFreeAll(R) \o RefFreeAll(S) \o ObjectFreeAll(T) \o <<Release(o)>>

AreContentFree(p, R, S, T, o) ==
  /\ p \in Seq(CallsTo)
  /\ \A k \in DOMAIN p :
       \/ p[k].op \in {"ref_free", "object_free"}
       \/ p[k] = Release(o) /\ k = Len(p)
  /\ \A r \in Refs : Occ(p, RefFree(r)) = Holds(r \in R) + Holds(r \in S)
  /\ \A q \in Objects : Occ(p, ObjectFree(q)) = Holds(q \in T)

LEMMA ContentCalls ==
  ASSUME NEW R \in SUBSET Refs, NEW S \in SUBSET Refs, NEW T \in SUBSET Objects,
         NEW o \in Objects
  PROVE  AreContentFree(ContentFree(R, S, T, o), R, S, T, o)
<1> DEFINE p == ContentFree(R, S, T, o)
<1> DEFINE a == RefFreeAll(R)
           b == RefFreeAll(S)
           c == ObjectFreeAll(T)
           d == <<Release(o)>>
<1>1. /\ a \in Seq(CallsTo) /\ b \in Seq(CallsTo) /\ c \in Seq(CallsTo)
      /\ \A k \in DOMAIN a : a[k].op = "ref_free"
      /\ \A k \in DOMAIN b : b[k].op = "ref_free"
      /\ \A k \in DOMAIN c : c[k].op = "object_free"
      /\ \A r \in Refs : /\ Occ(a, RefFree(r)) = Holds(r \in R)
                         /\ Occ(b, RefFree(r)) = Holds(r \in S)
                         /\ Occ(c, RefFree(r)) = 0
      /\ \A q \in Objects : /\ Occ(a, ObjectFree(q)) = 0
                            /\ Occ(b, ObjectFree(q)) = 0
                            /\ Occ(c, ObjectFree(q)) = Holds(q \in T)
  BY RefCalls, ObjectCalls DEF RefFree, ObjectFree
<1>2. /\ d \in Seq(CallsTo)
      /\ \A r \in Refs : Occ(d, RefFree(r)) = 0
      /\ \A q \in Objects : Occ(d, ObjectFree(q)) = 0
  <2>1. Release(o) \in CallsTo
    BY DEF CallsTo
  <2>2. /\ \A r \in Refs : RefFree(r) # Release(o)
        /\ \A q \in Objects : ObjectFree(q) # Release(o)
    BY DEF Release, RefFree, ObjectFree
  <2> QED
    BY <2>1, <2>2, OccOne DEF Holds
<1>3. Len(d) = 1 /\ DOMAIN d = {1} /\ d[1] = Release(o)
  OBVIOUS
<1> HIDE DEF a, b, c, d
<1> DEFINE ab == a \o b
           s == ab \o c
<1>4. p = s \o d
  BY DEF a, b, c, d, ContentFree
<1> HIDE DEF p
<1>5. /\ ab \in Seq(CallsTo)
      /\ \A k \in DOMAIN ab : ab[k].op = "ref_free"
      /\ \A e : Occ(ab, e) = Occ(a, e) + Occ(b, e)
  <2>1. \A k \in DOMAIN ab :
          \/ k \in DOMAIN a /\ ab[k] = a[k]
          \/ \E l \in DOMAIN b : ab[k] = b[l]
    BY <1>1, ConcatElements
  <2> QED
    BY <1>1, <2>1, OccConcat, ConcatProperties
<1> HIDE DEF ab
<1>6. /\ s \in Seq(CallsTo)
      /\ \A k \in DOMAIN s : s[k].op \in {"ref_free", "object_free"}
      /\ \A e : Occ(s, e) = Occ(ab, e) + Occ(c, e)
  <2>1. \A k \in DOMAIN s :
          \/ k \in DOMAIN ab /\ s[k] = ab[k]
          \/ \E l \in DOMAIN c : s[k] = c[l]
    BY <1>1, <1>5, ConcatElements
  <2> QED
    BY <1>1, <1>5, <2>1, OccConcat, ConcatProperties
<1> HIDE DEF s
<1>7. /\ p \in Seq(CallsTo) /\ Len(p) = Len(s) + 1
      /\ \A k \in DOMAIN p :
           \/ k \in DOMAIN s /\ p[k] = s[k]
           \/ \E l \in DOMAIN d : k = Len(s) + l /\ p[k] = d[l]
  <2>1. d \in Seq(CallsTo)
    BY <1>2
  <2>2. /\ s \o d \in Seq(CallsTo) /\ Len(s \o d) = Len(s) + Len(d)
        /\ \A k \in DOMAIN (s \o d) :
             \/ k \in DOMAIN s /\ (s \o d)[k] = s[k]
             \/ \E l \in DOMAIN d : k = Len(s) + l /\ (s \o d)[k] = d[l]
    BY <1>6, <2>1, ConcatElements
  <2> QED
    BY <1>3, <1>4, <2>2
<1>8. ASSUME NEW e PROVE Occ(p, e) = Occ(s, e) + Occ(d, e)
  <2>1. d \in Seq(CallsTo) /\ s \in Seq(CallsTo)
    BY <1>2, <1>6
  <2>2. Occ(s \o d, e) = Occ(s, e) + Occ(d, e)
    BY <2>1, OccConcat
  <2> QED
    BY <1>4, <2>2
<1>9. \A k \in DOMAIN p :
        \/ p[k].op \in {"ref_free", "object_free"}
        \/ p[k] = Release(o) /\ k = Len(p)
  BY <1>3, <1>6, <1>7
<1>10. \A r \in Refs : Occ(p, RefFree(r)) = Holds(r \in R) + Holds(r \in S)
  <2>1. ASSUME NEW r \in Refs
        PROVE  Occ(p, RefFree(r)) = Holds(r \in R) + Holds(r \in S)
    <3>1. /\ Occ(p, RefFree(r)) = Occ(s, RefFree(r)) + Occ(d, RefFree(r))
          /\ Occ(s, RefFree(r)) = Occ(ab, RefFree(r)) + Occ(c, RefFree(r))
          /\ Occ(ab, RefFree(r)) = Occ(a, RefFree(r)) + Occ(b, RefFree(r))
      BY <1>5, <1>6, <1>8
    <3>2. /\ Occ(a, RefFree(r)) = Holds(r \in R) /\ Occ(b, RefFree(r)) = Holds(r \in S)
          /\ Occ(c, RefFree(r)) = 0 /\ Occ(d, RefFree(r)) = 0
      BY <1>1, <1>2
    <3> QED
      BY <3>1, <3>2 DEF Holds
  <2> QED
    BY <2>1
<1>11. \A q \in Objects : Occ(p, ObjectFree(q)) = Holds(q \in T)
  <2>1. ASSUME NEW q \in Objects
        PROVE  Occ(p, ObjectFree(q)) = Holds(q \in T)
    <3>1. /\ Occ(p, ObjectFree(q)) = Occ(s, ObjectFree(q)) + Occ(d, ObjectFree(q))
          /\ Occ(s, ObjectFree(q)) = Occ(ab, ObjectFree(q)) + Occ(c, ObjectFree(q))
          /\ Occ(ab, ObjectFree(q)) = Occ(a, ObjectFree(q)) + Occ(b, ObjectFree(q))
      BY <1>5, <1>6, <1>8
    <3>2. /\ Occ(a, ObjectFree(q)) = 0 /\ Occ(b, ObjectFree(q)) = 0
          /\ Occ(c, ObjectFree(q)) = Holds(q \in T) /\ Occ(d, ObjectFree(q)) = 0
      BY <1>1, <1>2
    <3> QED
      BY <3>1, <3>2 DEF Holds
  <2> QED
    BY <2>1
<1> QED
  BY <1>7, <1>9, <1>10, <1>11 DEF AreContentFree, p

LEMMA CallObjectFreeKeeps ==
  ASSUME IInv, CallObjectFree
  PROVE  IInv'
<1> DEFINE o == Head(stack).object
           last == obj[o].count = 1
           p == IF last THEN RefFreeAll(obj[o].refs) \o RefFreeAll(obj[o].sets)
                             \o ObjectFreeAll(obj[o].objs) \o <<Release(o)>>
                        ELSE <<>>
<1>1. /\ Typed /\ Statement /\ Contents /\ Blank /\ Room
      /\ Lists /\ Releases /\ Binds /\ Clears /\ Counted
  BY DEF IInv
<1>2. /\ stack # <<>> /\ Head(stack).op = "object_free"
      /\ UNCHANGED <<base, ref, pc, stmt, result, held, leaked>>
  BY DEF CallObjectFree
<1>3. /\ Head(stack) = ObjectFree(o) /\ o \in Objects /\ Head(stack) = stack[1]
      /\ 1 \in DOMAIN stack
  BY <1>1, <1>2, FirstCall, CallShape
<1>4. /\ obj[o] \in ObjCells /\ obj[o].count \in Nat /\ obj[o].count >= 1
      /\ obj[o].refs \in SUBSET Refs /\ obj[o].sets \in SUBSET Refs
      /\ obj[o].objs \in SUBSET Objects
  BY <1>1, <1>3, Holders DEF Counted, Typed, ObjCells
<1>5. o \in LiveObjects
  BY <1>1, <1>3, <1>4, HeldLive
<1>6. /\ obj' = IF last THEN [obj EXCEPT ![o].count = 0, ![o].refs = {},
                                         ![o].sets = {}, ![o].objs = {}]
                        ELSE [obj EXCEPT ![o].count = obj[o].count - 1]
      /\ stack' = IF last THEN RefFreeAll(obj[o].refs) \o RefFreeAll(obj[o].sets)
                               \o ObjectFreeAll(obj[o].objs)
                               \o <<Release(o)>> \o Tail(stack)
                          ELSE Tail(stack)
  <2>1. (IF obj[o].count > 0 THEN obj[o].count - 1 ELSE 0) = obj[o].count - 1
    BY <1>4
  <2>2. obj[o].count - 1 = 0 <=> last
    BY <1>4
  <2> QED
    BY <2>1, <2>2 DEF CallObjectFree
<1>7. /\ p \in Seq(CallsTo) /\ stack' = p \o Tail(stack)
      /\ \A k \in DOMAIN p :
           \/ p[k].op \in {"ref_free", "object_free"}
           \/ last /\ p[k] = Release(o) /\ k = Len(p)
      /\ \A q \in Refs : Occ(p, RefFree(q)) =
           Holds(last /\ q \in obj[o].refs) + Holds(last /\ q \in obj[o].sets)
      /\ \A q \in Objects : Occ(p, ObjectFree(q)) = Holds(last /\ q \in obj[o].objs)
  <2>1. CASE last
    <3>1. /\ p = RefFreeAll(obj[o].refs) \o RefFreeAll(obj[o].sets)
                 \o ObjectFreeAll(obj[o].objs) \o <<Release(o)>>
          /\ stack' = p \o Tail(stack)
      BY <1>6, <2>1
    <3> HIDE DEF p
    <3>2. PICK R \in SUBSET Refs, S \in SUBSET Refs, T \in SUBSET Objects :
            R = obj[o].refs /\ S = obj[o].sets /\ T = obj[o].objs
      BY <1>4
    <3>3. p = ContentFree(R, S, T, o)
      BY <3>1, <3>2 DEF ContentFree
    <3>4. AreContentFree(p, R, S, T, o)
      BY <1>3, <3>3, ContentCalls
    <3>5. /\ \A q : Holds(last /\ q \in obj[o].refs) = Holds(q \in R)
          /\ \A q : Holds(last /\ q \in obj[o].sets) = Holds(q \in S)
          /\ \A q : Holds(last /\ q \in obj[o].objs) = Holds(q \in T)
      BY <2>1, <3>2 DEF Holds
    <3> QED
      BY <2>1, <3>1, <3>4, <3>5 DEF AreContentFree
  <2>2. CASE ~last
    BY <1>1, <1>2, <1>6, <2>2, FirstCall, OccEmpty DEF Holds
  <2> QED
    BY <2>1, <2>2
<1> HIDE DEF p
<1>8. /\ \A q \in Objects : q # o => obj'[q] = obj[q]
      /\ obj'[o].alive = obj[o].alive /\ obj'[o].type = obj[o].type
      /\ obj'[o].value = obj[o].value
      /\ obj'[o].count = obj[o].count - 1
      /\ last => /\ obj'[o].refs = {} /\ obj'[o].sets = {} /\ obj'[o].objs = {}
      /\ ~last => /\ obj'[o].refs = obj[o].refs /\ obj'[o].sets = obj[o].sets
                  /\ obj'[o].objs = obj[o].objs
      /\ obj'[o] \in ObjCells
  <2>1. obj \in [Objects -> ObjCells]
    BY <1>1 DEF Typed
  <2>2. CASE last
    <3>1. obj' = [obj EXCEPT ![o] = [[[[obj[o] EXCEPT !.count = 0] EXCEPT !.refs = {}]
                                       EXCEPT !.sets = {}] EXCEPT !.objs = {}]]
      BY <1>6, <2>2
    <3>2. obj'[o] = [alive |-> obj[o].alive, type |-> obj[o].type, count |-> 0,
                     value |-> obj[o].value, refs |-> {}, sets |-> {}, objs |-> {}]
      BY <1>3, <1>4, <2>1, <3>1 DEF ObjCells
    <3>3. \A q \in Objects : q # o => obj'[q] = obj[q]
      BY <1>3, <2>1, <3>1
    <3> QED
      BY <1>4, <2>2, <3>2, <3>3 DEF ObjCells
  <2>3. CASE ~last
    <3>1. obj' = [obj EXCEPT ![o] = [obj[o] EXCEPT !.count = obj[o].count - 1]]
      BY <1>6, <2>3
    <3>2. obj[o].count - 1 \in Nat
      BY <1>4
    <3>3. obj'[o] = [obj[o] EXCEPT !.count = obj[o].count - 1]
      BY <1>3, <2>1, <3>1
    <3>4. \A q \in Objects : q # o => obj'[q] = obj[q]
      BY <1>3, <2>1, <3>1
    <3> QED
      BY <1>4, <2>3, <3>2, <3>3, <3>4 DEF ObjCells
  <2> QED
    BY <2>2, <2>3
<1>9. Typed'
  <2>2. obj' \in [Objects -> ObjCells]
    BY <1>1, <1>3, <1>6, <1>8 DEF Typed
  <2>3. stack' \in Seq(CallsTo)
    BY <1>1, <1>2, <1>7, StackNext
  <2> QED
    BY <1>1, <1>2, <2>2, <2>3 DEF Typed
<1>10. Linked' = Linked /\ Lists'
  BY <1>1, <1>2, <1>9, ListsKept
<1>11. Releases'
  <2>1. ASSUME NEW k \in DOMAIN stack, stack[k].op = "release"
        PROVE  /\ obj'[stack[k].object] = obj[stack[k].object]
               /\ stack[k] # Release(o)
    <3>1. obj[stack[k].object].count = 0
      BY <1>1, <2>1 DEF Releases, Spent
    <3>2. stack[k].object # o
      BY <1>4, <3>1
    <3>3. stack[k].object \in Objects
      <4>1. stack[k] \in CallsTo
        BY <1>1, ElementOfSeq, LenProperties DEF Typed
      <4> QED
        BY <2>1, <4>1, CallShape
    <3> QED
      BY <1>8, <3>2, <3>3 DEF Release
  <2>2. ASSUME NEW k \in DOMAIN p, p[k].op = "release"
        PROVE  /\ Spent(obj'[p[k].object])
               /\ \A l \in DOMAIN p : p[l] = p[k] => l = k
               /\ \A l \in DOMAIN stack : stack[l] # p[k]
    <3>1. last /\ p[k] = Release(o) /\ k = Len(p)
      BY <1>7, <2>2
    <3>2. Spent(obj'[o])
      BY <1>4, <1>5, <1>8, <3>1 DEF Spent, LiveObjects
    <3>3. \A l \in DOMAIN p : p[l] = p[k] => l = k
      BY <1>7, <2>2, <3>1
    <3>4. \A l \in DOMAIN stack : stack[l] # p[k]
      BY <2>1, <2>2, <3>1
    <3> QED
      BY <3>1, <3>2, <3>3, <3>4 DEF Release
  <2> QED
    BY <1>1, <1>2, <1>7, <2>1, <2>2, ReleasesNext
<1>12. Binds' /\ Binding' = Binding
  <2>1. obj'[held].sets = obj[held].sets \/ held = Nil
    <3>1. last => held # o
      BY <1>1, <1>3, Holders DEF Counted
    <3> QED
      BY <1>1, <1>8, <3>1 DEF Typed
  <2>2. pc = "return" => held # Nil
    BY <1>1 DEF Statement
  <2>3. \A k \in DOMAIN p : p[k].op # "bind"
    BY <1>7 DEF Release
  <2> QED
    BY <1>1, <1>2, <1>7, <2>1, <2>2, <2>3, BindsNext
<1>13. Clears'
  <2>1. \A k \in DOMAIN p : p[k].op # "remove_ref" /\ p[k].op # "db_free"
    BY <1>7 DEF Release
  <2> QED
    BY <1>1, <1>2, <1>7, <1>10, <2>1, ClearsNext
<1>14. \A c : Occ(stack', c) = Occ(p, c) + Occ(stack, c) - Holds(c = Head(stack))
  BY <1>1, <1>2, <1>7, StackNext
<1>15. ASSUME NEW q \in Objects PROVE CountAt(q)'
  <2>1. NamesOf(q)' = NamesOf(q)
    BY <1>2, <1>12 DEF NamesOf, LiveRefs
  <2>2. Protecting(q)' \ {o} = Protecting(q) \ {o}
    BY <1>8 DEF Protecting, LiveObjects
  <2>3. /\ o \in Protecting(q) <=> q \in obj[o].objs
        /\ o \in Protecting(q)' <=> ~last /\ q \in obj[o].objs
    BY <1>3, <1>5, <1>8 DEF Protecting, LiveObjects
  <2>4. Occ(stack', ObjectFree(q)) = Occ(stack, ObjectFree(q))
                                     + Holds(last /\ q \in obj[o].objs) - Holds(q = o)
    <3>1. ObjectFree(q) = Head(stack) <=> q = o
      BY <1>3 DEF ObjectFree
    <3>2. Occ(stack, ObjectFree(q)) \in Nat
      BY <1>1, ObjectTerms
    <3> QED
      BY <1>7, <1>14, <3>1, <3>2 DEF Holds
  <2>5. obj'[q].count = obj[q].count - Holds(q = o)
    BY <1>1, <1>8, ObjectTerms DEF Holds
  <2>6. /\ obj[q].count \in Nat /\ leaked[q] \in Nat
        /\ UNCHANGED <<result, held, stmt, leaked>>
        /\ Occ(stack, ObjectFree(q)) \in Nat
    BY <1>1, <1>2, ObjectTerms
  <2>7.   obj'[q].count
          + Holds(Nil \in NamesOf(q)) + Holds(o \in Protecting(q))
          + Holds(result = q) + Holds(held = q) + Holds(stmt.literal = q)
          + Occ(stack, ObjectFree(q)) + leaked[q]
        = obj[q].count
          + Holds(Nil \in NamesOf(q)') + Holds(o \in Protecting(q)')
          + Holds(result' = q) + Holds(held' = q) + Holds(stmt'.literal = q)
          + Occ(stack', ObjectFree(q)) + leaked'[q]
    BY <2>1, <2>3, <2>4, <2>5, <2>6 DEF Holds
  <2> QED
    BY <1>1, <1>9, <2>1, <2>2, <2>7, CountStep DEF Counted
<1>16. ASSUME NEW r \in Refs PROVE InstancesAt(r)'
  <2>1. /\ Readers(r)' \ {o} = Readers(r) \ {o}
        /\ Assigners(r)' \ {o} = Assigners(r) \ {o}
    BY <1>8 DEF Readers, Assigners, LiveObjects
  <2>2. /\ o \in Readers(r) <=> r \in obj[o].refs
        /\ o \in Readers(r)' <=> ~last /\ r \in obj[o].refs
        /\ o \in Assigners(r) <=> r \in obj[o].sets
        /\ o \in Assigners(r)' <=> ~last /\ r \in obj[o].sets
    BY <1>3, <1>5, <1>8 DEF Readers, Assigners, LiveObjects
  <2>3. Occ(stack', RefFree(r)) = Occ(stack, RefFree(r))
          + Holds(last /\ r \in obj[o].refs) + Holds(last /\ r \in obj[o].sets)
    <3>1. RefFree(r) # Head(stack)
      BY <1>3 DEF ObjectFree, RefFree
    <3>2. Occ(stack, RefFree(r)) \in Nat
      BY <1>1, RefTerms
    <3> QED
      BY <1>7, <1>14, <3>1, <3>2 DEF Holds
  <2>4. /\ ref[r].instances \in Nat /\ Occ(stack, RefFree(r)) \in Nat
        /\ stmt' = stmt /\ ref' = ref
    BY <1>1, <1>2, RefTerms
  <2>5.   ref'[r].instances
          + Holds(o \in Readers(r)) + Holds(o \in Assigners(r))
          + Holds(r \in Linked) + Holds(stmt.target = r) + Holds(stmt.operand = r)
          + Occ(stack, RefFree(r))
        = ref[r].instances
          + Holds(o \in Readers(r)') + Holds(o \in Assigners(r)')
          + Holds(r \in Linked') + Holds(stmt'.target = r) + Holds(stmt'.operand = r)
          + Occ(stack', RefFree(r))
    BY <1>10, <2>2, <2>3, <2>4 DEF Holds
  <2> QED
    BY <1>1, <1>9, <2>1, <2>5, InstanceStep DEF Counted
<1>17. Statement' /\ Room'
  BY <1>1, <1>2, <1>3, <1>8, CallFrame DEF Unused
<1>18. Contents'
  BY <1>1, <1>3, <1>8 DEF Contents
<1>19. Blank'
  BY <1>1, <1>2, <1>3, <1>5, <1>8 DEF Blank, LiveObjects
<1> QED
  BY <1>9, <1>10, <1>11, <1>12, <1>13, <1>15, <1>16, <1>17, <1>18, <1>19
    DEF IInv, Counted

LEMMA CallReleaseKeeps ==
  ASSUME IInv, CallRelease
  PROVE  IInv'
<1> DEFINE o == Head(stack).object
<1>1. /\ Typed /\ Statement /\ Contents /\ Blank /\ Room
      /\ Lists /\ Releases /\ Binds /\ Clears /\ Counted
  BY DEF IInv
<1>2. /\ stack # <<>> /\ Head(stack).op = "release"
      /\ obj' = [obj EXCEPT ![o] = FreeObj]
      /\ UNCHANGED <<base, ref, pc, stmt, result, held, leaked>>
  BY DEF CallRelease
<1>3. /\ Head(stack) = Release(o) /\ o \in Objects /\ Head(stack) = stack[1]
      /\ 1 \in DOMAIN stack
  BY <1>1, <1>2, FirstCall, CallShape
<1>4. /\ Spent(obj[o])
      /\ \A l \in DOMAIN stack : stack[l] = stack[1] => l = 1
  BY <1>1, <1>2, <1>3 DEF Releases
<1>5. held # o
  BY <1>1, <1>3, <1>4, Holders DEF Counted, Spent
<1>6. <<>> \in Seq(CallsTo) /\ stack' = <<>> \o Tail(stack) /\ DOMAIN <<>> = {}
  BY <1>1, <1>2, FirstCall DEF CallRelease
<1>7. /\ \A q \in Objects : q # o => obj'[q] = obj[q]
      /\ obj'[o] = FreeObj
  BY <1>1, <1>2, <1>3 DEF Typed
<1>8. Typed'
  <2>1. FreeObj \in ObjCells
    BY DEF FreeObj, ObjCells
  <2>2. obj' \in [Objects -> ObjCells]
    BY <1>1, <1>2, <2>1 DEF Typed
  <2>3. stack' \in Seq(CallsTo)
    BY <1>1, <1>2, <1>6, StackNext
  <2> QED
    BY <1>1, <1>2, <2>2, <2>3 DEF Typed
<1>9. Linked' = Linked /\ Lists'
  BY <1>1, <1>2, <1>8, ListsKept
<1>10. Releases'
  <2>1. ASSUME NEW k \in DOMAIN stack, k # 1, stack[k].op = "release"
        PROVE  obj'[stack[k].object] = obj[stack[k].object]
    <3>1. stack[k] \in CallsTo
      BY <1>1, ElementOfSeq, LenProperties DEF Typed
    <3>2. stack[k].object \in Objects /\ stack[k] = Release(stack[k].object)
      BY <2>1, <3>1, CallShape
    <3>3. stack[k].object # o
      BY <1>3, <1>4, <2>1, <3>2
    <3> QED
      BY <1>7, <3>2, <3>3
  <2> QED
    BY <1>1, <1>2, <1>6, <2>1, ReleasesNext
<1>11. Binds' /\ Binding' = Binding
  <2>1. pc = "return" => obj'[held].sets = obj[held].sets
    BY <1>1, <1>5, <1>7 DEF Statement, Typed
  <2> QED
    BY <1>1, <1>2, <1>6, <2>1, BindsNext
<1>12. Clears'
  BY <1>1, <1>2, <1>6, <1>9, ClearsNext
<1>13. \A c : Occ(stack', c) = Occ(stack, c) - Holds(c = Head(stack))
  <2>1. ASSUME NEW c PROVE Occ(stack', c) = Occ(stack, c) - Holds(c = Head(stack))
    <3>1. Occ(stack', c) = Occ(<<>>, c) + Occ(stack, c) - Holds(c = Head(stack))
      BY <1>1, <1>2, <1>6, StackNext
    <3>2. Occ(<<>>, c) = 0 /\ Occ(stack, c) \in Nat
      BY <1>1, <1>2, <1>6, OccEmpty, StackNext
    <3> QED
      BY <3>1, <3>2 DEF Holds
  <2> QED
    BY <2>1
<1>14. ASSUME NEW q \in Objects PROVE CountAt(q)'
  <2>1. NamesOf(q)' = NamesOf(q)
    BY <1>2, <1>11 DEF NamesOf, LiveRefs
  <2>2. Protecting(q)' = Protecting(q)
    BY <1>4, <1>7 DEF Protecting, LiveObjects, Spent, FreeObj
  <2>3. Occ(stack', ObjectFree(q)) = Occ(stack, ObjectFree(q))
    <3>1. ObjectFree(q) # Head(stack)
      BY <1>3 DEF ObjectFree, Release
    <3>2. Occ(stack, ObjectFree(q)) \in Nat
      BY <1>1, ObjectTerms
    <3> QED
      BY <1>13, <3>1, <3>2 DEF Holds
  <2>4. obj'[q].count = obj[q].count
    BY <1>4, <1>7 DEF Spent, FreeObj
  <2>5. UNCHANGED <<result, held, stmt, leaked>>
    BY <1>2
  <2> QED
    BY <1>1, <1>8, <2>1, <2>2, <2>3, <2>4, <2>5 DEF Counted, CountAt
<1>15. ASSUME NEW r \in Refs PROVE InstancesAt(r)'
  <2>1. Readers(r)' = Readers(r) /\ Assigners(r)' = Assigners(r)
    BY <1>4, <1>7 DEF Readers, Assigners, LiveObjects, Spent, FreeObj
  <2>2. Occ(stack', RefFree(r)) = Occ(stack, RefFree(r))
    <3>1. RefFree(r) # Head(stack)
      BY <1>3 DEF RefFree, Release
    <3>2. Occ(stack, RefFree(r)) \in Nat
      BY <1>1, RefTerms
    <3> QED
      BY <1>13, <3>1, <3>2 DEF Holds
  <2>3. stmt' = stmt /\ ref' = ref
    BY <1>2
  <2> QED
    BY <1>1, <1>9, <2>1, <2>2, <2>3 DEF Counted, InstancesAt
<1>16. Statement' /\ Room'
  BY <1>1, <1>2, <1>3, <1>7, CallFrame DEF Unused, FreeObj
<1>17. Contents'
  BY <1>1, <1>3, <1>7 DEF Contents, FreeObj
<1>18. Blank'
  BY <1>1, <1>2, <1>7 DEF Blank
<1> QED
  BY <1>8, <1>9, <1>10, <1>11, <1>12, <1>14, <1>15, <1>16, <1>17, <1>18
    DEF IInv, Counted

LEMMA CallBindKeeps ==
  ASSUME IInv, CallBind
  PROVE  IInv'
<1> DEFINE r == Head(stack).ref
           o == Head(stack).object
<1>1. /\ Typed /\ Statement /\ Contents /\ Blank /\ Room
      /\ Lists /\ Releases /\ Binds /\ Clears /\ Counted
  BY DEF IInv
<1>2. /\ stack # <<>> /\ Head(stack).op = "bind"
      /\ ref' = [ref EXCEPT ![r].object = o]
      /\ obj' = [obj EXCEPT ![o].count = @ + 1]
      /\ stack' = Tail(stack)
      /\ UNCHANGED <<base, pc, stmt, result, held, leaked>>
  BY DEF CallBind
<1>3. /\ Head(stack) = Bind(o, r) /\ o \in Objects /\ r \in Refs
      /\ Head(stack) = stack[1] /\ 1 \in DOMAIN stack /\ DOMAIN stack = 1 .. Len(stack)
  BY <1>1, <1>2, FirstCall, CallShape
<1>4. Len(stack) = 1 /\ r \in Binding
  BY <1>1, <1>2, <1>3 DEF Binds, Binding
<1>5. r \in LiveRefs
  BY <1>1, <1>4, BoundHeld
<1>6. o \in LiveObjects
  <2>1. o # Nil
    BY <1>3, ReferencesAssumption
  <2> QED
    BY <1>3, <2>1, CallsLive
<1>7. stack' = <<>>
  <2>1. Tail(stack) \in Seq(CallsTo) /\ Len(Tail(stack)) = 0
    BY <1>1, <1>2, <1>4, HeadTailProperties DEF Typed
  <2> QED
    BY <1>2, <2>1, EmptySeq
<1>8. <<>> \in Seq(CallsTo) /\ stack' = <<>> \o Tail(stack) /\ DOMAIN <<>> = {}
  BY <1>1, <1>2, FirstCall
<1>9. /\ \A q \in Objects : q # o => obj'[q] = obj[q]
      /\ obj'[o] = [obj[o] EXCEPT !.count = @ + 1]
      /\ obj'[o] \in ObjCells /\ obj[o] \in ObjCells
      /\ \A q \in Objects : obj'[q].count = obj[q].count + Holds(q = o)
      /\ \A q \in Refs : q # r => ref'[q] = ref[q]
      /\ ref'[r] = [ref[r] EXCEPT !.object = o]
      /\ ref'[r] \in RefCells /\ ref[r] \in RefCells
  <2>1. /\ ref \in [Refs -> RefCells] /\ obj \in [Objects -> ObjCells]
        /\ ref[r] \in RefCells /\ obj[o] \in ObjCells
    BY <1>1, <1>3 DEF Typed
  <2>2. /\ \A q \in Objects : q # o => obj'[q] = obj[q]
        /\ obj'[o] = [obj[o] EXCEPT !.count = @ + 1]
    BY <1>2, <1>3, <2>1
  <2>3. /\ \A q \in Refs : q # r => ref'[q] = ref[q]
        /\ ref'[r] = [ref[r] EXCEPT !.object = o]
    BY <1>2, <1>3, <2>1
  <2>4. obj'[o] \in ObjCells /\ obj'[o].count = obj[o].count + 1
    BY <2>1, <2>2 DEF ObjCells
  <2>5. ref'[r] \in RefCells
    BY <1>3, <2>1, <2>3 DEF RefCells
  <2>6. \A q \in Objects : obj'[q].count = obj[q].count + Holds(q = o)
    <3>1. ASSUME NEW q \in Objects PROVE obj'[q].count = obj[q].count + Holds(q = o)
      <4>1. obj[q].count \in Nat
        BY <1>1, ObjectTerms
      <4>2. CASE q = o
        BY <2>4, <4>2 DEF Holds
      <4>3. CASE q # o
        BY <2>2, <4>1, <4>3 DEF Holds
      <4> QED
        BY <4>2, <4>3
    <3> QED
      BY <3>1
  <2> QED
    BY <2>1, <2>2, <2>3, <2>4, <2>5, <2>6
<1>10. /\ obj'[o].alive /\ obj'[o].type = obj[o].type /\ obj'[o].refs = obj[o].refs
       /\ obj'[o].sets = obj[o].sets /\ obj'[o].objs = obj[o].objs
       /\ ref'[r].alive /\ ref'[r].object = o /\ ref'[r].next = ref[r].next
       /\ ref'[r].instances = ref[r].instances
  BY <1>5, <1>6, <1>9 DEF ObjCells, RefCells, LiveRefs, LiveObjects
<1>21. \A q \in Objects :
         /\ obj'[q].alive = obj[q].alive /\ obj'[q].type = obj[q].type
         /\ obj'[q].refs = obj[q].refs /\ obj'[q].sets = obj[q].sets
         /\ obj'[q].objs = obj[q].objs
  <2>1. obj'[o].alive = obj[o].alive
    BY <1>6, <1>9, <1>10 DEF LiveObjects
  <2> QED
    BY <1>9, <1>10, <2>1
<1>11. Typed'
  <2>1. ref' \in [Refs -> RefCells] /\ obj' \in [Objects -> ObjCells]
    BY <1>1, <1>2, <1>9 DEF Typed
  <2> QED
    BY <1>1, <1>2, <1>8, <1>7, <2>1 DEF Typed
<1>12. Linked' = Linked /\ Lists'
  <2>1. \A q \in Linked : ref'[q].next = ref[q].next
    BY <1>1, <1>9, <1>10, LinkedIs DEF LinkedLeast
  <2> QED
    BY <1>1, <1>2, <1>11, <2>1, ListsKept
<1>13. Releases' /\ Binds' /\ Clears' /\ Binding' = {}
  BY <1>7, OnlyFrees
<1>14. Binding = {r}
  <2>1. \A l \in DOMAIN stack : l = 1
    BY <1>3, <1>4
  <2> QED
    BY <1>2, <1>3, <2>1 DEF Binding
<1>15. /\ \A q \in Objects : Occ(stack', ObjectFree(q)) = 0 /\ Occ(stack, ObjectFree(q)) = 0
       /\ \A q \in Refs : Occ(stack', RefFree(q)) = 0 /\ Occ(stack, RefFree(q)) = 0
  <2>1. \A k \in DOMAIN stack : stack[k] = Bind(o, r)
    BY <1>3, <1>4
  <2>2. \A k \in DOMAIN stack : \A q : stack[k] # ObjectFree(q) /\ stack[k] # RefFree(q)
    BY <2>1 DEF Bind, ObjectFree, RefFree
  <2> QED
    BY <1>1, <1>7, <2>2, OccEmpty, OccNat DEF Typed
<1>16. ASSUME NEW q \in Objects PROVE CountAt(q)'
  <2>1. NamesOf(q)' \ {r} = NamesOf(q) \ {r}
    BY <1>9, <1>13, <1>14 DEF NamesOf, LiveRefs
  <2>2. r \notin NamesOf(q) /\ (r \in NamesOf(q)' <=> q = o)
    BY <1>3, <1>10, <1>13, <1>14 DEF NamesOf, LiveRefs
  <2>3. Protecting(q)' = Protecting(q)
    BY <1>21 DEF Protecting, LiveObjects
  <2>4. /\ obj'[q].count = obj[q].count + Holds(q = o)
        /\ obj[q].count \in Nat /\ leaked[q] \in Nat
        /\ UNCHANGED <<result, held, stmt, leaked>>
    BY <1>1, <1>2, <1>9, ObjectTerms
  <2>5.   obj'[q].count
          + Holds(r \in NamesOf(q)) + Holds(Nil \in Protecting(q))
          + Holds(result = q) + Holds(held = q) + Holds(stmt.literal = q)
          + Occ(stack, ObjectFree(q)) + leaked[q]
        = obj[q].count
          + Holds(r \in NamesOf(q)') + Holds(Nil \in Protecting(q)')
          + Holds(result' = q) + Holds(held' = q) + Holds(stmt'.literal = q)
          + Occ(stack', ObjectFree(q)) + leaked'[q]
    BY <1>15, <2>2, <2>3, <2>4 DEF Holds
  <2> QED
    BY <1>1, <1>11, <2>1, <2>3, <2>5, CountStep DEF Counted
<1>17. ASSUME NEW q \in Refs PROVE InstancesAt(q)'
  <2>1. Readers(q)' = Readers(q) /\ Assigners(q)' = Assigners(q)
    BY <1>21 DEF Readers, Assigners, LiveObjects
  <2>2. stmt' = stmt /\ ref'[q].instances = ref[q].instances
    BY <1>2, <1>9, <1>10
  <2>3. Occ(stack', RefFree(q)) = Occ(stack, RefFree(q))
    BY <1>15
  <2> QED
    BY <1>1, <1>12, <2>1, <2>2, <2>3 DEF Counted, InstancesAt
<1>18. Statement' /\ Room'
  BY <1>1, <1>2, <1>6, <1>9, <1>10, CallFrame DEF Unused, LiveObjects
<1>19. Contents'
  BY <1>1, <1>21 DEF Contents
<1>20. Blank'
  BY <1>1, <1>9, <1>10 DEF Blank
<1> QED
  BY <1>11, <1>12, <1>13, <1>16, <1>17, <1>18, <1>19, <1>20 DEF IInv, Counted

LEMMA CallRemoveRefKeeps ==
  ASSUME IInv, CallRemoveRef
  PROVE  IInv'
<1> DEFINE o == Head(stack).object
           p == RefFreeAll(obj[o].refs)
<1>1. /\ Typed /\ Statement /\ Contents /\ Blank /\ Room
      /\ Lists /\ Releases /\ Binds /\ Clears /\ Counted
  BY DEF IInv
<1>2. /\ stack # <<>> /\ Head(stack).op = "remove_ref"
      /\ obj' = [obj EXCEPT ![o].refs = {}]
      /\ stack' = p \o Tail(stack)
      /\ UNCHANGED <<base, ref, pc, stmt, result, held, leaked>>
  BY DEF CallRemoveRef
<1>3. /\ Head(stack) = RemoveRef(o) /\ o \in Objects
      /\ Head(stack) = stack[1] /\ 1 \in DOMAIN stack
  BY <1>1, <1>2, FirstCall, CallShape
<1>4. o \in LiveObjects /\ pc = "idle"
  <2>1. o # Nil
    BY <1>3, ReferencesAssumption
  <2> QED
    BY <1>1, <1>2, <1>3, <2>1, CallsLive DEF Clears
<1>5. /\ \A q \in Objects : q # o => obj'[q] = obj[q]
      /\ obj[o] \in ObjCells /\ obj'[o] \in ObjCells
      /\ obj'[o] = [obj[o] EXCEPT !.refs = {}]
  <2>1. obj \in [Objects -> ObjCells] /\ obj[o] \in ObjCells
    BY <1>1, <1>3 DEF Typed
  <2>2. /\ \A q \in Objects : q # o => obj'[q] = obj[q]
        /\ obj'[o] = [obj[o] EXCEPT !.refs = {}]
    BY <1>2, <1>3, <2>1
  <2>3. obj'[o] \in ObjCells
    BY <2>1, <2>2 DEF ObjCells
  <2> QED
    BY <2>1, <2>2, <2>3
<1>6. /\ obj'[o].refs = {} /\ obj[o].refs \in SUBSET Refs
      /\ \A q \in Objects :
           /\ obj'[q].alive = obj[q].alive /\ obj'[q].type = obj[q].type
           /\ obj'[q].count = obj[q].count
           /\ obj'[q].sets = obj[q].sets /\ obj'[q].objs = obj[q].objs
  <2>1. /\ obj'[o].refs = {} /\ obj[o].refs \in SUBSET Refs
        /\ obj'[o].alive = obj[o].alive /\ obj'[o].type = obj[o].type
        /\ obj'[o].count = obj[o].count
        /\ obj'[o].sets = obj[o].sets /\ obj'[o].objs = obj[o].objs
    BY <1>5 DEF ObjCells
  <2> QED
    BY <1>5, <2>1
<1>7. /\ p \in Seq(CallsTo)
      /\ \A k \in DOMAIN p : p[k].op = "ref_free"
      /\ \A q \in Refs : Occ(p, RefFree(q)) = Holds(q \in obj[o].refs)
      /\ \A q \in Objects : Occ(p, ObjectFree(q)) = 0
  BY <1>6, RefCalls DEF RefFree
<1> HIDE DEF p
<1>8. Typed'
  <2>1. obj' \in [Objects -> ObjCells]
    BY <1>1, <1>2, <1>5 DEF Typed
  <2>2. stack' \in Seq(CallsTo)
    BY <1>1, <1>2, <1>7, StackNext
  <2> QED
    BY <1>1, <1>2, <2>1, <2>2 DEF Typed
<1>9. Linked' = Linked /\ Lists'
  BY <1>1, <1>2, <1>8, ListsKept
<1>10. Releases'
  <2>1. ASSUME NEW k \in DOMAIN stack, k # 1, stack[k].op = "release"
        PROVE  obj'[stack[k].object] = obj[stack[k].object]
    <3>1. stack[k] \in CallsTo
      BY <1>1, ElementOfSeq, LenProperties DEF Typed
    <3>2. stack[k].object \in Objects
      BY <2>1, <3>1, CallShape
    <3>3. obj[stack[k].object].refs = {}
      BY <1>1, <2>1 DEF Releases, Spent
    <3> QED
      <4>1. CASE stack[k].object # o
        BY <1>5, <3>2, <4>1
      <4>2. CASE stack[k].object = o
        <5>1. obj'[o].refs = obj[o].refs
          BY <1>6, <3>3, <4>2
        <5>2. /\ obj'[o].alive = obj[o].alive /\ obj'[o].type = obj[o].type
              /\ obj'[o].count = obj[o].count /\ obj'[o].value = obj[o].value
              /\ obj'[o].sets = obj[o].sets /\ obj'[o].objs = obj[o].objs
          BY <1>5 DEF ObjCells
        <5> HIDE DEF o
        <5>3. obj'[o] = obj[o]
          BY <1>5, <5>1, <5>2 DEF ObjCells
        <5> QED
          BY <4>2, <5>3
      <4> QED
        BY <4>1, <4>2
  <2> QED
    BY <1>1, <1>2, <1>7, <2>1, ReleasesNext
<1>11. Binds' /\ Binding' = Binding
  BY <1>1, <1>2, <1>4, <1>7, BindsNext
<1>12. Clears'
  BY <1>1, <1>2, <1>7, <1>9, ClearsNext
<1>13. \A c : Occ(stack', c) = Occ(p, c) + Occ(stack, c) - Holds(c = Head(stack))
  BY <1>1, <1>2, <1>7, StackNext
<1>14. ASSUME NEW q \in Objects PROVE CountAt(q)'
  <2>1. NamesOf(q)' = NamesOf(q)
    BY <1>2, <1>11 DEF NamesOf, LiveRefs
  <2>2. Protecting(q)' = Protecting(q)
    BY <1>6 DEF Protecting, LiveObjects
  <2>3. Occ(stack', ObjectFree(q)) = Occ(stack, ObjectFree(q))
    <3>1. ObjectFree(q) # Head(stack)
      BY <1>3 DEF ObjectFree, RemoveRef
    <3>2. Occ(stack, ObjectFree(q)) \in Nat
      BY <1>1, ObjectTerms
    <3> QED
      BY <1>7, <1>13, <3>1, <3>2 DEF Holds
  <2>4. obj'[q].count = obj[q].count
    BY <1>6
  <2>5. UNCHANGED <<result, held, stmt, leaked>>
    BY <1>2
  <2> QED
    BY <1>1, <2>1, <2>2, <2>3, <2>4, <2>5 DEF Counted, CountAt
<1>15. ASSUME NEW r \in Refs PROVE InstancesAt(r)'
  <2>1. Readers(r)' \ {o} = Readers(r) \ {o} /\ Assigners(r)' = Assigners(r)
    BY <1>5, <1>6 DEF Readers, Assigners, LiveObjects
  <2>2. o \notin Readers(r)' /\ (o \in Readers(r) <=> r \in obj[o].refs)
    BY <1>4, <1>6 DEF Readers, LiveObjects
  <2>3. Occ(stack', RefFree(r)) = Occ(stack, RefFree(r)) + Holds(r \in obj[o].refs)
    <3>1. RefFree(r) # Head(stack)
      BY <1>3 DEF RefFree, RemoveRef
    <3>2. Occ(stack, RefFree(r)) \in Nat
      BY <1>1, RefTerms
    <3> QED
      BY <1>7, <1>13, <3>1, <3>2 DEF Holds
  <2>4. /\ ref[r].instances \in Nat /\ Occ(stack, RefFree(r)) \in Nat
        /\ stmt' = stmt /\ ref' = ref
    BY <1>1, <1>2, RefTerms
  <2>5.   ref'[r].instances
          + Holds(o \in Readers(r)) + Holds(Nil \in Assigners(r))
          + Holds(r \in Linked) + Holds(stmt.target = r) + Holds(stmt.operand = r)
          + Occ(stack, RefFree(r))
        = ref[r].instances
          + Holds(o \in Readers(r)') + Holds(Nil \in Assigners(r)')
          + Holds(r \in Linked') + Holds(stmt'.target = r) + Holds(stmt'.operand = r)
          + Occ(stack', RefFree(r))
    BY <1>9, <2>1, <2>2, <2>3, <2>4 DEF Holds
  <2> QED
    BY <1>1, <1>8, <2>1, <2>5, InstanceStep DEF Counted
<1>16. Statement' /\ Room'
  BY <1>1, <1>2, <1>6, CallFrame DEF Unused
<1>17. Contents'
  BY <1>1, <1>5, <1>6 DEF Contents
<1>18. Blank'
  BY <1>1, <1>2, <1>4, <1>5, <1>6 DEF Blank, LiveObjects
<1> QED
  BY <1>8, <1>9, <1>10, <1>11, <1>12, <1>14, <1>15, <1>16, <1>17, <1>18
    DEF IInv, Counted

LEMMA CallDbFreeKeeps ==
  ASSUME IInv, CallDbFree
  PROVE  IInv'
<1> DEFINE p == RefFreeAll(Linked)
<1>1. /\ Typed /\ Statement /\ Contents /\ Blank /\ Room
      /\ Lists /\ Releases /\ Binds /\ Clears /\ Counted
  BY DEF IInv
<1>2. /\ stack # <<>> /\ Head(stack).op = "db_free"
      /\ base' = [b \in Buckets |-> Nil]
      /\ stack' = p \o Tail(stack)
      /\ UNCHANGED <<ref, obj, pc, stmt, result, held, leaked>>
  BY DEF CallDbFree
<1>3. /\ Head(stack) = DbFree /\ Head(stack) = stack[1] /\ 1 \in DOMAIN stack
  BY <1>1, <1>2, FirstCall, CallShape
<1>4. Linked \in SUBSET Refs
  BY <1>1, LinkedIs DEF LinkedLeast
<1>5. /\ p \in Seq(CallsTo)
      /\ \A k \in DOMAIN p : p[k].op = "ref_free"
      /\ \A q \in Refs : Occ(p, RefFree(q)) = Holds(q \in Linked)
      /\ \A q \in Objects : Occ(p, ObjectFree(q)) = 0
  BY <1>4, RefCalls DEF RefFree
<1> HIDE DEF p
<1>6. Typed'
  <2>1. stack' \in Seq(CallsTo)
    BY <1>1, <1>2, <1>5, StackNext
  <2>2. base' \in [Buckets -> Refs \cup {Nil}]
    BY <1>2
  <2> QED
    BY <1>1, <1>2, <2>1, <2>2 DEF Typed
<1>7. Linked' = {} /\ Lists'
  BY <1>2, <1>6, ListsEmpty
<1>8. Releases'
  BY <1>1, <1>2, <1>5, ReleasesNext
<1>9. Binds' /\ Binding' = Binding
  BY <1>1, <1>2, <1>5, BindsNext
<1>10. Clears'
  BY <1>1, <1>2, <1>5, ClearsNext
<1>11. \A c : Occ(stack', c) = Occ(p, c) + Occ(stack, c) - Holds(c = Head(stack))
  BY <1>1, <1>2, <1>5, StackNext
<1>12. ASSUME NEW q \in Objects PROVE CountAt(q)'
  <2>1. NamesOf(q)' = NamesOf(q)
    BY <1>2, <1>9 DEF NamesOf, LiveRefs
  <2>2. Protecting(q)' = Protecting(q)
    BY <1>2 DEF Protecting, LiveObjects
  <2>3. Occ(stack', ObjectFree(q)) = Occ(stack, ObjectFree(q))
    <3>1. ObjectFree(q) # Head(stack)
      BY <1>3 DEF ObjectFree, DbFree
    <3>2. Occ(stack, ObjectFree(q)) \in Nat
      BY <1>1, ObjectTerms
    <3> QED
      BY <1>5, <1>11, <3>1, <3>2 DEF Holds
  <2>4. UNCHANGED <<obj, result, held, stmt, leaked>>
    BY <1>2
  <2> QED
    BY <1>1, <2>1, <2>2, <2>3, <2>4 DEF Counted, CountAt
<1>13. ASSUME NEW r \in Refs PROVE InstancesAt(r)'
  <2>1. Readers(r)' = Readers(r) /\ Assigners(r)' = Assigners(r)
    BY <1>2 DEF Readers, Assigners, LiveObjects
  <2>2. Occ(stack', RefFree(r)) = Occ(stack, RefFree(r)) + Holds(r \in Linked)
    <3>1. RefFree(r) # Head(stack)
      BY <1>3 DEF RefFree, DbFree
    <3>2. Occ(stack, RefFree(r)) \in Nat
      BY <1>1, RefTerms
    <3> QED
      BY <1>5, <1>11, <3>1, <3>2 DEF Holds
  <2>3. /\ ref[r].instances \in Nat /\ Occ(stack, RefFree(r)) \in Nat
        /\ stmt' = stmt /\ ref' = ref
    BY <1>1, <1>2, RefTerms
  <2>4.   ref'[r].instances
          + Holds(Nil \in Readers(r)) + Holds(Nil \in Assigners(r))
          + Holds(r \in Linked) + Holds(stmt.target = r) + Holds(stmt.operand = r)
          + Occ(stack, RefFree(r))
        = ref[r].instances
          + Holds(Nil \in Readers(r)') + Holds(Nil \in Assigners(r)')
          + Holds(r \in Linked') + Holds(stmt'.target = r) + Holds(stmt'.operand = r)
          + Occ(stack', RefFree(r))
    BY <1>7, <2>1, <2>2, <2>3 DEF Holds
  <2> QED
    BY <1>1, <1>6, <2>1, <2>4, InstanceStep DEF Counted
<1>14. Statement' /\ Room'
  BY <1>1, <1>2, CallFrame DEF Unused
<1>15. Contents' /\ Blank'
  BY <1>1, <1>2 DEF Contents, Blank
<1> QED
  BY <1>6, <1>7, <1>8, <1>9, <1>10, <1>12, <1>13, <1>14, <1>15 DEF IInv, Counted

-----------------------------------------------------------------------------
(* Between two calls: the stack is empty *)

LEMMA AtRest ==
  /\ stack = <<>> => Binding = {} /\ \A c : Occ(stack, c) = 0
  /\ stack' = <<>> => /\ Releases' /\ Binds' /\ Clears' /\ Binding' = {}
                      /\ \A c : Occ(stack', c) = 0
BY OnlyFrees, OccEmpty DEF Binding

\* One more holder of an object.
LEMMA Retained ==
  ASSUME Typed, NEW o \in Objects, NEW cells, cells = Retain(o)
  PROVE  /\ cells \in [Objects -> ObjCells]
         /\ \A q \in Objects :
              /\ cells[q].alive = obj[q].alive /\ cells[q].type = obj[q].type
              /\ cells[q].value = obj[q].value
              /\ cells[q].refs = obj[q].refs /\ cells[q].sets = obj[q].sets
              /\ cells[q].objs = obj[q].objs
              /\ cells[q].count = obj[q].count + Holds(q = o)
              /\ q # o => cells[q] = obj[q]
<1>1. obj \in [Objects -> ObjCells] /\ obj[o] \in ObjCells
  BY DEF Typed
<1>2. cells = [obj EXCEPT ![o] = [obj[o] EXCEPT !.count = obj[o].count + 1]]
  BY DEF Retain
<1>3. /\ \A q \in Objects : q # o => cells[q] = obj[q]
      /\ cells[o] = [obj[o] EXCEPT !.count = obj[o].count + 1]
  BY <1>1, <1>2
<1>4. /\ cells[o] \in ObjCells /\ cells[o].count = obj[o].count + 1
      /\ cells[o].alive = obj[o].alive /\ cells[o].type = obj[o].type
      /\ cells[o].value = obj[o].value
      /\ cells[o].refs = obj[o].refs /\ cells[o].sets = obj[o].sets
      /\ cells[o].objs = obj[o].objs
  BY <1>1, <1>3 DEF ObjCells
<1>5. cells \in [Objects -> ObjCells]
  BY <1>1, <1>2, <1>3, <1>4
<1>6. ASSUME NEW q \in Objects PROVE cells[q].count = obj[q].count + Holds(q = o)
  <2>1. obj[q].count \in Nat
    BY ObjectTerms
  <2>2. CASE q = o
    BY <1>4, <2>2 DEF Holds
  <2>3. CASE q # o
    BY <1>3, <2>1, <2>3 DEF Holds
  <2> QED
    BY <2>2, <2>3
<1> QED
  BY <1>3, <1>4, <1>5, <1>6

\* One more holder of a reference.
LEMMA Shared ==
  ASSUME Typed, NEW r \in Refs, NEW cells, cells = Instance(r)
  PROVE  /\ cells \in [Refs -> RefCells]
         /\ \A q \in Refs :
              /\ cells[q].alive = ref[q].alive /\ cells[q].name = ref[q].name
              /\ cells[q].object = ref[q].object /\ cells[q].next = ref[q].next
              /\ cells[q].instances = ref[q].instances + Holds(q = r)
              /\ q # r => cells[q] = ref[q]
<1>1. ref \in [Refs -> RefCells] /\ ref[r] \in RefCells
  BY DEF Typed
<1>2. cells = [ref EXCEPT ![r] = [ref[r] EXCEPT !.instances = ref[r].instances + 1]]
  BY DEF Instance
<1>3. /\ \A q \in Refs : q # r => cells[q] = ref[q]
      /\ cells[r] = [ref[r] EXCEPT !.instances = ref[r].instances + 1]
  BY <1>1, <1>2
<1>4. /\ cells[r] \in RefCells /\ cells[r].instances = ref[r].instances + 1
      /\ cells[r].alive = ref[r].alive /\ cells[r].name = ref[r].name
      /\ cells[r].object = ref[r].object /\ cells[r].next = ref[r].next
  BY <1>1, <1>3 DEF RefCells
<1>5. cells \in [Refs -> RefCells]
  BY <1>1, <1>2, <1>3, <1>4
<1>6. ASSUME NEW q \in Refs PROVE cells[q].instances = ref[q].instances + Holds(q = r)
  <2>1. ref[q].instances \in Nat
    BY RefTerms
  <2>2. CASE q = r
    BY <1>4, <2>2 DEF Holds
  <2>3. CASE q # r
    BY <1>3, <2>1, <2>3 DEF Holds
  <2> QED
    BY <2>2, <2>3
<1> QED
  BY <1>3, <1>4, <1>5, <1>6

\* The cell of a new object: nothing holds it.
LEMMA NewObject ==
  ASSUME Typed, Blank, Counted, stack = <<>>, NEW o \in Unused
  PROVE  /\ o \in Objects /\ o # Nil /\ o \notin LiveObjects /\ obj[o] = FreeObj
         /\ obj[o].count = 0
         /\ NamesOf(o) = {} /\ Protecting(o) = {}
         /\ result # o /\ held # o /\ stmt.literal # o /\ leaked[o] = 0
         /\ \A r \in LiveRefs : ref[r].object # o
         /\ \A q \in Objects : o \notin obj[q].objs
<1>1. o \in Objects /\ ~obj[o].alive /\ o # Nil
  BY ReferencesAssumption DEF Unused
<1>2. obj[o] = FreeObj /\ obj[o].count = 0
  BY <1>1 DEF Blank, FreeObj
<1>3. /\ NamesOf(o) = {} /\ Protecting(o) = {}
      /\ result # o /\ held # o /\ stmt.literal # o /\ leaked[o] = 0
  BY <1>1, <1>2, Holders DEF Counted
<1>4. \A r \in LiveRefs : ref[r].object # o
  BY <1>3, AtRest DEF NamesOf
<1>5. \A q \in Objects : o \notin obj[q].objs
  BY <1>1, Reached DEF LiveObjects
<1> QED
  BY <1>1, <1>2, <1>3, <1>4, <1>5 DEF LiveObjects

\* A step that shares one object at most, which the result or the code
\* executed leads to.
LEMMA RetainKeeps ==
  ASSUME IInv, NEW o \in LiveObjects \cup {Nil},
         obj' = IF o = Nil THEN obj ELSE Retain(o),
         stack = <<>>, UNCHANGED <<base, ref, stack, stmt, leaked>>,
         result' \in Objects \cup {Nil}, held' \in Objects \cup {Nil}, pc' \in PCs,
         \A q \in Objects : Holds(result' = q) + Holds(held' = q)
                          = Holds(result = q) + Holds(held = q) + Holds(q = o),
         Statement',
         Unused' = Unused /\ (\A q \in Objects : Recursive(q)' = Recursive(q)) => Room'
  PROVE  IInv'
<1>1. /\ Typed /\ Statement /\ Contents /\ Blank /\ Room
      /\ Lists /\ Releases /\ Binds /\ Clears /\ Counted
  BY DEF IInv
<1>2. /\ obj' \in [Objects -> ObjCells]
      /\ \A q \in Objects :
           /\ obj'[q].alive = obj[q].alive /\ obj'[q].type = obj[q].type
           /\ obj'[q].refs = obj[q].refs /\ obj'[q].sets = obj[q].sets
           /\ obj'[q].objs = obj[q].objs
           /\ obj'[q].count = obj[q].count + Holds(q = o)
           /\ q # o => obj'[q] = obj[q]
  <2>1. CASE o = Nil
    <3>1. \A q \in Objects : Holds(q = o) = 0 /\ obj[q].count \in Nat
      BY <1>1, <2>1, ObjectTerms, ReferencesAssumption DEF Holds
    <3> QED
      BY <1>1, <2>1, <3>1 DEF Typed
  <2>2. CASE o # Nil
    <3>1. o \in Objects /\ obj' = Retain(o)
      BY <2>2 DEF LiveObjects
    <3> QED
      BY <1>1, <3>1, Retained
  <2> QED
    BY <2>1, <2>2
<1>3. Typed'
  BY <1>1, <1>2 DEF Typed
<1>4. Linked' = Linked /\ Lists'
  BY <1>1, <1>3, ListsKept
<1>5. /\ Releases' /\ Binds' /\ Clears' /\ Binding' = Binding
      /\ \A c : Occ(stack', c) = Occ(stack, c)
  BY AtRest
<1>6. ASSUME NEW q \in Objects PROVE CountAt(q)'
  <2>1. NamesOf(q)' = NamesOf(q)
    BY <1>5 DEF NamesOf, LiveRefs
  <2>2. Protecting(q)' = Protecting(q)
    BY <1>2 DEF Protecting, LiveObjects
  <2>3. /\ obj'[q].count = obj[q].count + Holds(q = o)
        /\ obj[q].count \in Nat /\ leaked[q] \in Nat
        /\ leaked' = leaked /\ stmt' = stmt
        /\ Occ(stack', ObjectFree(q)) = Occ(stack, ObjectFree(q))
        /\ Occ(stack, ObjectFree(q)) \in Nat
        /\ Holds(result' = q) + Holds(held' = q)
              = Holds(result = q) + Holds(held = q) + Holds(q = o)
    BY <1>1, <1>2, <1>5, ObjectTerms
  <2>4.   obj'[q].count
          + Holds(Nil \in NamesOf(q)) + Holds(Nil \in Protecting(q))
          + Holds(result = q) + Holds(held = q) + Holds(stmt.literal = q)
          + Occ(stack, ObjectFree(q)) + leaked[q]
        = obj[q].count
          + Holds(Nil \in NamesOf(q)') + Holds(Nil \in Protecting(q)')
          + Holds(result' = q) + Holds(held' = q) + Holds(stmt'.literal = q)
          + Occ(stack', ObjectFree(q)) + leaked'[q]
    BY <2>1, <2>2, <2>3 DEF Holds
  <2> QED
    BY <1>1, <1>3, <2>1, <2>2, <2>4, CountStep DEF Counted
<1>7. ASSUME NEW r \in Refs PROVE InstancesAt(r)'
  <2>1. Readers(r)' = Readers(r) /\ Assigners(r)' = Assigners(r)
    BY <1>2 DEF Readers, Assigners, LiveObjects
  <2> QED
    BY <1>1, <1>4, <1>5, <2>1 DEF Counted, InstancesAt
<1>8. Room'
  BY <1>2 DEF Unused, Recursive
<1>9. Contents'
  BY <1>1, <1>2 DEF Contents
<1>10. Blank'
  BY <1>1, <1>2 DEF Blank, LiveObjects
<1> QED
  BY <1>3, <1>4, <1>5, <1>6, <1>7, <1>8, <1>9, <1>10 DEF IInv, Counted

LEMMA ExecuteLeafKeeps ==
  ASSUME IInv, ExecuteLeaf
  PROVE  IInv'
<1> DEFINE o == IF stmt.kind = "object" THEN stmt.literal ELSE Value(stmt.operand)
<1>1. Typed /\ Statement /\ Blank /\ Room /\ Counted
  BY DEF IInv
<1>2. /\ stack = <<>> /\ pc = "execute"
      /\ result' = o /\ obj' = IF o = Nil THEN obj ELSE Retain(o)
      /\ pc' = Evaluated
      /\ UNCHANGED <<base, ref, stmt, held, stack, leaked>>
  BY DEF ExecuteLeaf, Executing, Ready
<1>3. result = Nil /\ held = Nil /\ Binding = {}
  BY <1>1, <1>2, AtRest DEF Statement
<1>4. o \in LiveObjects \cup {Nil}
  <2>1. CASE stmt.kind = "object"
    BY <1>1, <2>1, Reached
  <2>2. CASE stmt.kind # "object"
    <3>1. stmt.operand \in LiveRefs
      BY <1>1, <1>2, <2>2, Reached DEF Statement
    <3> QED
      BY <1>1, <1>3, <2>2, <3>1, Reached DEF Value
  <2> QED
    BY <2>1, <2>2
<1>5. o \in Objects \cup {Nil} /\ Nil \notin Objects
  BY <1>4, ReferencesAssumption DEF LiveObjects
<1> HIDE DEF o
<1>6. \A q \in Objects : Holds(result' = q) + Holds(held' = q)
                       = Holds(result = q) + Holds(held = q) + Holds(q = o)
  BY <1>2, <1>3, <1>5 DEF Holds
<1>7. Statement' /\ pc' \in PCs
  BY <1>1, <1>2, <1>3 DEF Statement, Evaluated, PCs
<1>8. Room'
  BY <1>2 DEF Room, Evaluated
<1> QED
  BY <1>1, <1>2, <1>3, <1>4, <1>5, <1>6, <1>7, <1>8, RetainKeeps

LEMMA ExecuteErrorKeeps ==
  ASSUME IInv, ExecuteError
  PROVE  IInv'
<1>1. Typed /\ Statement /\ Blank /\ Room /\ Counted
  BY DEF IInv
<1>2. /\ stack = <<>> /\ pc = "execute" /\ pc' = Evaluated
      /\ UNCHANGED <<base, ref, obj, stmt, result, held, stack, leaked>>
  BY DEF ExecuteError, Executing, Ready
<1>3. Nil \in LiveObjects \cup {Nil} /\ Nil \notin Objects
  BY ReferencesAssumption
<1>4. \A q \in Objects : Holds(result' = q) + Holds(held' = q)
                       = Holds(result = q) + Holds(held = q) + Holds(q = Nil)
  BY <1>2, <1>3 DEF Holds
<1>5. Statement' /\ pc' \in PCs
  BY <1>1, <1>2 DEF Statement, Evaluated, PCs
<1>6. Room'
  BY <1>2 DEF Room, Evaluated
<1>7. result' \in Objects \cup {Nil} /\ held' \in Objects \cup {Nil}
  BY <1>1, <1>2 DEF Typed
<1> QED
  BY <1>2, <1>3, <1>4, <1>5, <1>6, <1>7, RetainKeeps

LEMMA ExecuteCallKeeps ==
  ASSUME IInv, ExecuteCall
  PROVE  IInv'
<1> DEFINE o == Value(stmt.operand)
<1>1. Typed /\ Statement /\ Blank /\ Room /\ Counted
  BY DEF IInv
<1>2. /\ stack = <<>> /\ pc = "execute" /\ stmt.kind = "call" /\ o # Nil
      /\ held' = o /\ obj' = Retain(o) /\ pc' = "body"
      /\ UNCHANGED <<base, ref, stmt, result, stack, leaked>>
  BY DEF ExecuteCall, Executing, Ready, HasType
<1>3. result = Nil /\ held = Nil /\ Binding = {}
  BY <1>1, <1>2, AtRest DEF Statement
<1>4. o \in LiveObjects
  <2>1. stmt.operand \in LiveRefs
    BY <1>1, <1>2, Reached DEF Statement
  <2> QED
    BY <1>1, <1>2, <1>3, <2>1, Reached DEF Value
<1>5. o \in Objects /\ Nil \notin Objects
  BY <1>4, ReferencesAssumption DEF LiveObjects
<1>6. /\ Unused # {}
      /\ Recursive(o) => Cardinality(Unused) >= 2
  BY <1>1, <1>2 DEF Room, Value
<1> HIDE DEF o
<1>7. \A q \in Objects : Holds(result' = q) + Holds(held' = q)
                       = Holds(result = q) + Holds(held = q) + Holds(q = o)
  BY <1>2, <1>3, <1>5 DEF Holds
<1>8. Statement' /\ pc' \in PCs
  BY <1>1, <1>2, <1>3 DEF Statement, PCs
<1>9. ASSUME Unused' = Unused, \A q \in Objects : Recursive(q)' = Recursive(q)
      PROVE  Room'
  <2>1. PICK x \in Objects : x = o
    BY <1>5
  <2>2. Recursive(x)' = Recursive(x)
    BY <1>9
  <2>3. obj'[x].refs \cup obj'[x].sets = {} <=> obj[x].refs \cup obj[x].sets = {}
    BY <2>2 DEF Recursive
  <2>4. Recursive(held)' <=> Recursive(o)
    BY <1>2, <2>1, <2>3 DEF Recursive
  <2> QED
    BY <1>2, <1>6, <1>9, <2>4 DEF Room
<1>10. result' \in Objects \cup {Nil} /\ held' \in Objects \cup {Nil}
  BY <1>2, <1>3, <1>5
<1> QED
  BY <1>2, <1>4, <1>5, <1>7, <1>8, <1>9, <1>10, RetainKeeps

LEMMA BodyReturnsKeeps ==
  ASSUME IInv, BodyReturns
  PROVE  IInv'
<1>1. Typed /\ Statement /\ Blank /\ Room /\ Counted
  BY DEF IInv
<1>2. PICK r \in obj[held].refs :
        /\ result' = Value(r)
        /\ obj' = IF Value(r) = Nil THEN obj ELSE Retain(Value(r))
  BY DEF BodyReturns
<1>3. /\ stack = <<>> /\ pc = "body" /\ pc' = "return"
      /\ UNCHANGED <<base, ref, stmt, held, stack, leaked>>
  BY DEF BodyReturns, Body, Ready
<1>4. result = Nil /\ held # Nil /\ Binding = {} /\ Unused # {}
  BY <1>1, <1>3, AtRest DEF Statement, Room
<1>5. held \in Objects
  BY <1>1, <1>4 DEF Typed
<1>6. r \in LiveRefs
  BY <1>1, <1>5, Reached
<1>7. Value(r) \in LiveObjects \cup {Nil}
  BY <1>1, <1>4, <1>6, Reached DEF Value
<1>8. Value(r) \in Objects \cup {Nil} /\ Nil \notin Objects
  BY <1>7, ReferencesAssumption DEF LiveObjects
<1>9. \A q \in Objects : Holds(result' = q) + Holds(held' = q)
                       = Holds(result = q) + Holds(held = q) + Holds(q = Value(r))
  BY <1>2, <1>3, <1>4, <1>8 DEF Holds
<1>10. Statement' /\ pc' \in PCs
  BY <1>1, <1>3, <1>4 DEF Statement, PCs
<1>11. Unused' = Unused => Room'
  BY <1>3, <1>4 DEF Room
<1>12. result' \in Objects \cup {Nil} /\ held' \in Objects \cup {Nil}
  BY <1>2, <1>3, <1>5, <1>8
<1> QED
  BY <1>2, <1>3, <1>7, <1>9, <1>10, <1>11, <1>12, RetainKeeps

\* A step that shares a reference with the statement.
LEMMA ShareKeeps ==
  ASSUME IInv, NEW r \in LiveRefs, ref' = Instance(r),
         stack = <<>>, UNCHANGED <<base, obj, result, held, stack, leaked>>,
         stmt' \in Stmts, stmt'.literal = stmt.literal, pc' \in PCs,
         \A q \in Refs : Holds(stmt'.target = q) + Holds(stmt'.operand = q)
                       = Holds(stmt.target = q) + Holds(stmt.operand = q) + Holds(q = r),
         Statement',
         (\A q \in Refs : ref'[q].object = ref[q].object) => Room'
  PROVE  IInv'
<1>1. /\ Typed /\ Statement /\ Contents /\ Blank /\ Room
      /\ Lists /\ Releases /\ Binds /\ Clears /\ Counted
  BY DEF IInv
<1>2. r \in Refs
  BY DEF LiveRefs
<1>3. /\ ref' \in [Refs -> RefCells]
      /\ \A q \in Refs :
           /\ ref'[q].alive = ref[q].alive /\ ref'[q].name = ref[q].name
           /\ ref'[q].object = ref[q].object /\ ref'[q].next = ref[q].next
           /\ ref'[q].instances = ref[q].instances + Holds(q = r)
           /\ q # r => ref'[q] = ref[q]
  BY <1>1, <1>2, Shared
<1>4. Typed'
  BY <1>1, <1>3 DEF Typed
<1>5. Linked' = Linked /\ Lists'
  <2>1. \A q \in Linked : ref'[q].next = ref[q].next
    BY <1>1, <1>3, LinkedIs DEF LinkedLeast
  <2> QED
    BY <1>1, <1>4, <2>1, ListsKept
<1>6. /\ Releases' /\ Binds' /\ Clears' /\ Binding' = Binding
      /\ \A c : Occ(stack', c) = Occ(stack, c)
  BY AtRest
<1>7. ASSUME NEW q \in Objects PROVE CountAt(q)'
  <2>1. NamesOf(q)' = NamesOf(q)
    BY <1>3, <1>6 DEF NamesOf, LiveRefs
  <2>2. Protecting(q)' = Protecting(q)
    BY DEF Protecting, LiveObjects
  <2> QED
    BY <1>1, <1>6, <2>1, <2>2 DEF Counted, CountAt
<1>8. ASSUME NEW q \in Refs PROVE InstancesAt(q)'
  <2>1. Readers(q)' = Readers(q) /\ Assigners(q)' = Assigners(q)
    BY DEF Readers, Assigners, LiveObjects
  <2>2. /\ ref[q].instances \in Nat /\ Occ(stack, RefFree(q)) \in Nat
        /\ ref'[q].instances = ref[q].instances + Holds(q = r)
        /\ Occ(stack', RefFree(q)) = Occ(stack, RefFree(q))
        /\ Holds(stmt'.target = q) + Holds(stmt'.operand = q)
             = Holds(stmt.target = q) + Holds(stmt.operand = q) + Holds(q = r)
    BY <1>1, <1>3, <1>6, RefTerms
  <2>3.   ref'[q].instances
          + Holds(Nil \in Readers(q)) + Holds(Nil \in Assigners(q))
          + Holds(q \in Linked) + Holds(stmt.target = q) + Holds(stmt.operand = q)
          + Occ(stack, RefFree(q))
        = ref[q].instances
          + Holds(Nil \in Readers(q)') + Holds(Nil \in Assigners(q)')
          + Holds(q \in Linked') + Holds(stmt'.target = q) + Holds(stmt'.operand = q)
          + Occ(stack', RefFree(q))
    BY <1>5, <2>1, <2>2 DEF Holds
  <2> QED
    BY <1>1, <1>4, <2>1, <2>3, InstanceStep DEF Counted
<1>9. Room'
  BY <1>3
<1>10. Contents'
  BY <1>1 DEF Contents
<1>11. Blank'
  BY <1>1, <1>3 DEF Blank, LiveRefs
<1> QED
  BY <1>4, <1>5, <1>6, <1>7, <1>8, <1>9, <1>10, <1>11 DEF IInv, Counted

\* A name that is found has a live reference.
LEMMA FoundLive ==
  ASSUME Typed, Blank, Counted, NEW n \in Names, Lookup(n) # Nil
  PROVE  Lookup(n) \in LiveRefs /\ Lookup(n) \in Refs /\ Lookup(n) \in Linked
BY Found, Reached DEF LiveRefs

LEMMA OperandKeeps ==
  ASSUME IInv, NEW n \in Names, NEW kind \in {"name", "call", "apply", "alter"},
         Operand(n, kind)
  PROVE  IInv'
<1> DEFINE r == Lookup(n)
<1>1. Typed /\ Statement /\ Blank /\ Room /\ Counted
  BY DEF IInv
<1>2. /\ stack = <<>> /\ pc \in {"idle", "rvalue"} /\ r # Nil
      /\ Cardinality(Unused) >= Makes(kind, ref[r].object)
      /\ ref' = Instance(r)
      /\ stmt' = [stmt EXCEPT !.kind = kind, !.operand = r]
      /\ pc' = "execute"
      /\ UNCHANGED <<base, obj, result, held, stack, leaked>>
  BY DEF Operand, Reading, Ready
<1>3. r \in LiveRefs /\ r \in Refs
  BY <1>1, <1>2, FoundLive
<1> HIDE DEF r
<1>4. /\ stmt \in Stmts /\ stmt.operand = Nil /\ stmt.literal = Nil
      /\ result = Nil /\ held = Nil
  BY <1>1, <1>2 DEF Statement, NoStmt, Typed
<1>5. /\ stmt' \in Stmts /\ stmt'.literal = Nil /\ stmt'.target = stmt.target
      /\ stmt'.operand = r /\ stmt'.kind = kind
  BY <1>2, <1>3, <1>4 DEF Stmts, Kinds
<1>6. r # Nil /\ \A q \in Refs : q # Nil
  BY <1>2, ReferencesAssumption
<1>7. \A q \in Refs : Holds(stmt'.target = q) + Holds(stmt'.operand = q)
                    = Holds(stmt.target = q) + Holds(stmt.operand = q) + Holds(q = r)
  BY <1>4, <1>5, <1>6 DEF Holds
<1>8. Statement'
  BY <1>2, <1>4, <1>5, <1>6 DEF Statement
<1>9. ASSUME \A q \in Refs : ref'[q].object = ref[q].object PROVE Room'
  <2>1. Unused' = Unused /\ ref'[stmt'.operand].object = ref[r].object
    BY <1>2, <1>3, <1>5, <1>9 DEF Unused
  <2>2. Unused \subseteq Objects /\ IsFiniteSet(Unused) /\ Cardinality(Unused) \in Nat
    BY ReferencesAssumption, FS_Subset, FS_CardinalityType DEF Unused
  <2>3. kind # "name" => Unused # {}
    <3>1. kind # "name" => Makes(kind, ref[r].object) \in {1, 2}
      BY DEF Makes
    <3>2. kind # "name" => Cardinality(Unused) >= 1
      BY <1>2, <2>2, <3>1
    <3> QED
      BY <2>2, <3>2, FS_EmptySet
  <2>4. kind = "call" /\ ref[r].object # Nil
          /\ obj[ref[r].object].refs \cup obj[ref[r].object].sets = {} =>
             Cardinality(Unused) >= 2
    BY <1>2 DEF Makes
  <2>5. Recursive(ref[stmt.operand].object)' <=>
          obj[ref[r].object].refs \cup obj[ref[r].object].sets = {}
    BY <1>2, <2>1 DEF Recursive
  <2> QED
    BY <1>2, <1>5, <2>1, <2>3, <2>4, <2>5 DEF Room
<1> QED
  BY <1>2, <1>3, <1>4, <1>5, <1>7, <1>8, <1>9, ShareKeeps DEF PCs

LEMMA LvalueFoundKeeps ==
  ASSUME IInv, NEW n \in Names, Lvalue(n), Lookup(n) # Nil
  PROVE  IInv'
<1> DEFINE r == Lookup(n)
<1>1. Typed /\ Statement /\ Blank /\ Room /\ Counted
  BY DEF IInv
<1>2. /\ stack = <<>> /\ pc = "idle" /\ r # Nil
      /\ ref' = Instance(r)
      /\ stmt' = [stmt EXCEPT !.target = r]
      /\ pc' = "rvalue"
      /\ UNCHANGED <<base, obj, result, held, stack, leaked>>
  BY DEF Lvalue, LvalueCounting, Ready
<1>3. r \in LiveRefs /\ r \in Refs
  BY <1>1, <1>2, FoundLive
<1> HIDE DEF r
<1>4. stmt = NoStmt /\ result = Nil /\ held = Nil
  BY <1>1, <1>2 DEF Statement
<1>5. /\ stmt' \in Stmts /\ stmt'.literal = Nil /\ stmt'.operand = Nil
      /\ stmt'.target = r
  BY <1>2, <1>3, <1>4 DEF Stmts, Kinds, NoStmt
<1>6. \A q \in Refs : q # Nil
  BY ReferencesAssumption
<1>7. \A q \in Refs : Holds(stmt'.target = q) + Holds(stmt'.operand = q)
                    = Holds(stmt.target = q) + Holds(stmt.operand = q) + Holds(q = r)
  BY <1>4, <1>5, <1>6 DEF Holds, NoStmt
<1>8. Statement' /\ Room'
  BY <1>2, <1>4, <1>5 DEF Statement, Room
<1> QED
  BY <1>2, <1>3, <1>4, <1>5, <1>7, <1>8, ShareKeeps DEF PCs, NoStmt

\* A new name: its reference was not used.
LEMMA LvalueNewKeeps ==
  ASSUME IInv, NEW n \in Names, Lvalue(n), Lookup(n) = Nil
  PROVE  IInv'
<1> DEFINE x == NewRef
           b == Bucket[n]
           cell == [alive |-> TRUE, name |-> n, object |-> Nil, instances |-> 2,
                    next |-> base[b]]
<1>1. /\ Typed /\ Statement /\ Contents /\ Blank /\ Room
      /\ Lists /\ Releases /\ Binds /\ Clears /\ Counted
  BY DEF IInv
<1>2. /\ stack = <<>> /\ pc = "idle" /\ RefAvailable
      /\ ref' = [ref EXCEPT ![x] = cell]
      /\ base' = [base EXCEPT ![b] = x]
      /\ stmt' = [stmt EXCEPT !.target = x]
      /\ pc' = "rvalue"
      /\ UNCHANGED <<obj, result, held, stack, leaked>>
  BY DEF Lvalue, LvalueCounting, EnterName, Ready
<1>3. x \in Refs /\ ~ref[x].alive
  BY <1>2 DEF NewRef, RefAvailable
<1> HIDE DEF x
<1>4. b \in Buckets /\ base[b] \in Refs \cup {Nil} /\ x # Nil
  BY <1>1, <1>3, ReferencesAssumption DEF Typed
<1>5. cell \in RefCells /\ ref[x] = FreeRef
  BY <1>1, <1>3, <1>4 DEF RefCells, Blank
<1>6. /\ ref'[x] = cell /\ \A q \in Refs : q # x => ref'[q] = ref[q]
      /\ ref' \in [Refs -> RefCells]
  BY <1>1, <1>2, <1>3, <1>5 DEF Typed
<1>7. stmt = NoStmt /\ result = Nil /\ held = Nil
  BY <1>1, <1>2 DEF Statement
<1>8. /\ stmt' \in Stmts /\ stmt'.literal = Nil /\ stmt'.operand = Nil
      /\ stmt'.target = x
  BY <1>2, <1>3, <1>7 DEF Stmts, Kinds, NoStmt
<1>9. Typed'
  BY <1>1, <1>2, <1>3, <1>6, <1>8 DEF Typed, PCs
<1>10. x \notin Linked
  BY <1>1, <1>3, Reached DEF LiveRefs
<1>11. Linked' = Linked \cup {x} /\ Lists'
  <2>1. \A q \in Linked : ref'[q].next = ref[q].next
    BY <1>1, <1>6, <1>10, LinkedIs DEF LinkedLeast
  <2> QED
    BY <1>1, <1>2, <1>3, <1>4, <1>6, <1>9, <1>10, <2>1, ListsEnter
<1>12. /\ Releases' /\ Binds' /\ Clears' /\ Binding' = Binding
       /\ \A c : Occ(stack', c) = Occ(stack, c)
  BY <1>2, AtRest
<1>13. ASSUME NEW q \in Objects PROVE CountAt(q)'
  <2>1. NamesOf(q)' = NamesOf(q)
    <3>1. q # Nil
      BY ReferencesAssumption
    <3> QED
      BY <1>3, <1>6, <1>12, <3>1 DEF NamesOf, LiveRefs
  <2>2. Protecting(q)' = Protecting(q)
    BY <1>2 DEF Protecting, LiveObjects
  <2>3. stmt'.literal = stmt.literal
    BY <1>7, <1>8 DEF NoStmt
  <2> QED
    BY <1>1, <1>2, <1>12, <2>1, <2>2, <2>3 DEF Counted, CountAt
<1>14. ASSUME NEW q \in Refs PROVE InstancesAt(q)'
  <2>1. Readers(q)' = Readers(q) /\ Assigners(q)' = Assigners(q)
    BY <1>2 DEF Readers, Assigners, LiveObjects
  <2>2. /\ ref[q].instances \in Nat /\ Occ(stack, RefFree(q)) \in Nat
        /\ Occ(stack', RefFree(q)) = Occ(stack, RefFree(q)) /\ q # Nil
    BY <1>1, <1>12, RefTerms, ReferencesAssumption
  <2>3. ref'[q].instances = ref[q].instances + 2 * Holds(q = x)
    BY <1>5, <1>6, <2>2 DEF FreeRef, Holds
  <2>4. /\ Holds(q \in Linked') = Holds(q \in Linked) + Holds(q = x)
        /\ Holds(stmt'.target = q) = Holds(stmt.target = q) + Holds(q = x)
        /\ Holds(stmt'.operand = q) = Holds(stmt.operand = q)
    BY <1>7, <1>8, <1>10, <1>11, <2>2 DEF Holds, NoStmt
  <2>5.   ref'[q].instances
          + Holds(Nil \in Readers(q)) + Holds(Nil \in Assigners(q))
          + Holds(q \in Linked) + Holds(stmt.target = q) + Holds(stmt.operand = q)
          + Occ(stack, RefFree(q))
        = ref[q].instances
          + Holds(Nil \in Readers(q)') + Holds(Nil \in Assigners(q)')
          + Holds(q \in Linked') + Holds(stmt'.target = q) + Holds(stmt'.operand = q)
          + Occ(stack', RefFree(q))
    BY <2>1, <2>2, <2>3, <2>4 DEF Holds
  <2> QED
    BY <1>1, <1>9, <2>1, <2>5, InstanceStep DEF Counted
<1>15. Statement' /\ Room'
  BY <1>2, <1>4, <1>7, <1>8 DEF Statement, Room
<1>16. Contents'
  BY <1>1, <1>2 DEF Contents
<1>17. Blank'
  BY <1>1, <1>2, <1>6 DEF Blank
<1> QED
  BY <1>9, <1>11, <1>12, <1>13, <1>14, <1>15, <1>16, <1>17 DEF IInv, Counted

LEMMA SyntaxErrorKeeps ==
  ASSUME IInv, SyntaxError
  PROVE  IInv'
<1> DEFINE r == stmt.target
<1>1. /\ Typed /\ Statement /\ Contents /\ Blank /\ Room
      /\ Lists /\ Releases /\ Binds /\ Clears /\ Counted
  BY DEF IInv
<1>2. /\ stack = <<>> /\ pc = "rvalue" /\ stack' = <<RefFree(r)>>
      /\ stmt' = NoStmt /\ pc' = "idle"
      /\ UNCHANGED <<base, ref, obj, result, held, leaked>>
  BY DEF SyntaxError, Ready
<1>3. /\ r # Nil /\ stmt.operand = Nil /\ stmt.literal = Nil
      /\ result = Nil /\ held = Nil
  BY <1>1, <1>2 DEF Statement
<1>4. r \in Refs
  BY <1>1, <1>3 DEF Typed, Stmts
<1>5. stack' \in Seq(CallsTo) /\ DOMAIN stack' = {1} /\ stack'[1] = RefFree(r)
  BY <1>2, <1>4 DEF CallsTo
<1>6. NoStmt \in Stmts
  BY DEF NoStmt, Stmts, Kinds
<1>7. Typed'
  BY <1>1, <1>2, <1>5, <1>6 DEF Typed, PCs
<1>8. Linked' = Linked /\ Lists'
  BY <1>1, <1>2, <1>7, ListsKept
<1>9. /\ Releases' /\ Binds' /\ Clears' /\ Binding' = Binding
  <2>1. \A k \in DOMAIN stack' : stack'[k].op \in {"ref_free", "object_free"}
    BY <1>5 DEF RefFree
  <2> QED
    BY <1>2, <2>1, OnlyFrees, AtRest
<1>10. /\ \A q \in Refs : Occ(stack', RefFree(q)) = Holds(q = r) /\ Occ(stack, RefFree(q)) = 0
       /\ \A q \in Objects : Occ(stack', ObjectFree(q)) = 0 /\ Occ(stack, ObjectFree(q)) = 0
  <2>1. /\ \A q : RefFree(q) = RefFree(r) <=> q = r
        /\ \A q : ObjectFree(q) # RefFree(r)
    BY DEF RefFree, ObjectFree
  <2> QED
    BY <1>2, <2>1, OccOne, AtRest DEF Holds
<1>11. ASSUME NEW q \in Objects PROVE CountAt(q)'
  <2>1. NamesOf(q)' = NamesOf(q)
    BY <1>2, <1>9 DEF NamesOf, LiveRefs
  <2>2. Protecting(q)' = Protecting(q)
    BY <1>2 DEF Protecting, LiveObjects
  <2>3. stmt'.literal = stmt.literal
    BY <1>2, <1>3 DEF NoStmt
  <2>4. Occ(stack', ObjectFree(q)) = Occ(stack, ObjectFree(q))
    BY <1>10
  <2> QED
    BY <1>1, <1>2, <2>1, <2>2, <2>3, <2>4 DEF Counted, CountAt
<1>12. ASSUME NEW q \in Refs PROVE InstancesAt(q)'
  <2>1. Readers(q)' = Readers(q) /\ Assigners(q)' = Assigners(q)
    BY <1>2 DEF Readers, Assigners, LiveObjects
  <2>2. ref[q].instances \in Nat /\ q # Nil /\ ref' = ref
    BY <1>1, <1>2, RefTerms, ReferencesAssumption
  <2>3.   ref'[q].instances
          + Holds(Nil \in Readers(q)) + Holds(Nil \in Assigners(q))
          + Holds(q \in Linked) + Holds(stmt.target = q) + Holds(stmt.operand = q)
          + Occ(stack, RefFree(q))
        = ref[q].instances
          + Holds(Nil \in Readers(q)') + Holds(Nil \in Assigners(q)')
          + Holds(q \in Linked') + Holds(stmt'.target = q) + Holds(stmt'.operand = q)
          + Occ(stack', RefFree(q))
    BY <1>2, <1>3, <1>8, <1>10, <2>1, <2>2 DEF Holds, NoStmt
  <2> QED
    BY <1>1, <1>7, <2>1, <2>3, InstanceStep DEF Counted
<1>13. Statement' /\ Room'
  BY <1>2, <1>3 DEF Statement, Room
<1>14. Contents' /\ Blank'
  BY <1>1, <1>2 DEF Contents, Blank
<1> QED
  BY <1>7, <1>8, <1>9, <1>11, <1>12, <1>13, <1>14 DEF IInv, Counted

-----------------------------------------------------------------------------
(* New objects *)

\* What the objects hold, when a cell is taken for a new one.
LEMMA Created ==
  ASSUME NEW o \in Objects, ~obj[o].alive, obj'[o].alive,
         \A q \in Objects \ {o} :
           /\ obj'[q].refs = obj[q].refs /\ obj'[q].sets = obj[q].sets
           /\ obj'[q].objs = obj[q].objs
           /\ \/ obj'[q].alive <=> obj[q].alive
              \/ obj[q].refs = {} /\ obj[q].sets = {} /\ obj[q].objs = {}
  PROVE  /\ \A q : /\ Protecting(q)' \ {o} = Protecting(q) \ {o}
                   /\ o \notin Protecting(q)
                   /\ o \in Protecting(q)' <=> q \in obj'[o].objs
         /\ \A r : /\ Readers(r)' \ {o} = Readers(r) \ {o}
                   /\ o \notin Readers(r)
                   /\ o \in Readers(r)' <=> r \in obj'[o].refs
         /\ \A r : /\ Assigners(r)' \ {o} = Assigners(r) \ {o}
                   /\ o \notin Assigners(r)
                   /\ o \in Assigners(r)' <=> r \in obj'[o].sets
<1>1. ASSUME NEW q PROVE /\ Protecting(q)' \ {o} = Protecting(q) \ {o}
                         /\ o \notin Protecting(q)
                         /\ o \in Protecting(q)' <=> q \in obj'[o].objs
  BY DEF Protecting, LiveObjects
<1>2. ASSUME NEW r PROVE /\ Readers(r)' \ {o} = Readers(r) \ {o}
                         /\ o \notin Readers(r)
                         /\ o \in Readers(r)' <=> r \in obj'[o].refs
  BY DEF Readers, LiveObjects
<1>3. ASSUME NEW r PROVE /\ Assigners(r)' \ {o} = Assigners(r) \ {o}
                         /\ o \notin Assigners(r)
                         /\ o \in Assigners(r)' <=> r \in obj'[o].sets
  BY DEF Assigners, LiveObjects
<1> QED
  BY <1>1, <1>2, <1>3

\* A step that makes an object o, which has a leaf of reference r and holds v.
Creates(o, v, r) ==
  /\ stack = <<>> /\ UNCHANGED <<base, stack, leaked>>
  /\ ref' = IF r = Nil THEN ref ELSE Instance(r)
  /\ obj' \in [Objects -> ObjCells]
  /\ obj'[o].alive /\ obj'[o].count = 1
  /\ obj'[o].type = "data" => obj'[o].refs = {} /\ obj'[o].sets = {}
  /\ obj'[o].refs \cap obj'[o].sets = {}
  /\ obj'[o].refs \cup obj'[o].sets = {r} \ {Nil}
  /\ obj'[o].objs = {v} \ {Nil}
  /\ \A q \in Objects \ {o} :
       /\ obj'[q].refs = obj[q].refs /\ obj'[q].sets = obj[q].sets
       /\ obj'[q].objs = obj[q].objs /\ obj'[q].type = obj[q].type
       /\ obj'[q].count = obj[q].count + Holds(q = v)
       /\ q = v => obj'[q].alive
       /\ q # v => obj'[q] = obj[q]
  /\ stmt' \in Stmts /\ stmt'.target = stmt.target /\ stmt'.operand = stmt.operand
  /\ result' \in Objects \cup {Nil} /\ held' \in Objects \cup {Nil} /\ pc' \in PCs
  /\ \A q \in Objects :
         Holds(result' = q) + Holds(held' = q) + Holds(stmt'.literal = q)
       = Holds(result = q) + Holds(held = q) + Holds(stmt.literal = q) + Holds(q = o)

LEMMA CreateKeeps ==
  ASSUME IInv, NEW o \in Unused, NEW v \in (Objects \ {o}) \cup {Nil},
         NEW r \in LiveRefs \cup {Nil}, Creates(o, v, r), Statement', Room'
  PROVE  IInv'
<1>1. /\ Typed /\ Statement /\ Contents /\ Blank /\ Room
      /\ Lists /\ Releases /\ Binds /\ Clears /\ Counted
  BY DEF IInv
<1>2. /\ o \in Objects /\ ~obj[o].alive /\ obj[o] = FreeObj /\ obj[o].count = 0
      /\ NamesOf(o) = {}
      /\ leaked[o] = 0 /\ o # Nil
      /\ \A q \in LiveRefs : ref[q].object # o
  BY <1>1, NewObject DEF LiveObjects, Creates
<1>3. /\ ref' \in [Refs -> RefCells]
      /\ \A q \in Refs :
           /\ ref'[q].alive = ref[q].alive /\ ref'[q].object = ref[q].object
           /\ ref'[q].next = ref[q].next
           /\ ref'[q].instances = ref[q].instances + Holds(q = r)
           /\ q # r => ref'[q] = ref[q]
  <2>1. CASE r = Nil
    <3>1. \A q \in Refs : Holds(q = r) = 0 /\ ref[q].instances \in Nat
      BY <1>1, <2>1, RefTerms, ReferencesAssumption DEF Holds
    <3> QED
      BY <1>1, <2>1, <3>1 DEF Typed, Creates
  <2>2. CASE r # Nil
    <3>1. r \in Refs /\ ref' = Instance(r)
      BY <2>2 DEF LiveRefs, Creates
    <3> QED
      BY <1>1, <3>1, Shared
  <2> QED
    BY <2>1, <2>2
<1>4. Typed'
  BY <1>1, <1>3 DEF Typed, Creates
<1>5. Linked' = Linked /\ Lists'
  <2>1. \A q \in Linked : ref'[q].next = ref[q].next
    BY <1>1, <1>3, LinkedIs DEF LinkedLeast
  <2> QED
    BY <1>1, <1>4, <2>1, ListsKept DEF Creates
<1>6. /\ Releases' /\ Binds' /\ Clears' /\ Binding' = Binding
      /\ \A c : Occ(stack', c) = Occ(stack, c)
  BY AtRest DEF Creates
<1>7. /\ \A q : /\ Protecting(q)' \ {o} = Protecting(q) \ {o}
                /\ o \notin Protecting(q)
                /\ o \in Protecting(q)' <=> q \in obj'[o].objs
      /\ \A q : /\ Readers(q)' \ {o} = Readers(q) \ {o}
                /\ o \notin Readers(q)
                /\ o \in Readers(q)' <=> q \in obj'[o].refs
      /\ \A q : /\ Assigners(q)' \ {o} = Assigners(q) \ {o}
                /\ o \notin Assigners(q)
                /\ o \in Assigners(q)' <=> q \in obj'[o].sets
  <2>1. ASSUME NEW q \in Objects \ {o}
        PROVE  /\ obj'[q].refs = obj[q].refs /\ obj'[q].sets = obj[q].sets
               /\ obj'[q].objs = obj[q].objs
               /\ \/ obj'[q].alive <=> obj[q].alive
                  \/ obj[q].refs = {} /\ obj[q].sets = {} /\ obj[q].objs = {}
    <3>1. CASE obj[q].alive
      BY <3>1 DEF Creates
    <3>2. CASE ~obj[q].alive
      BY <1>1, <3>2 DEF Blank, FreeObj, Creates
    <3> QED
      BY <3>1, <3>2
  <2> QED
    BY <1>2, <2>1, Created DEF Creates
<1>8. ASSUME NEW q \in Objects PROVE CountAt(q)'
  <2>1. NamesOf(q)' = NamesOf(q)
    BY <1>3, <1>6 DEF NamesOf, LiveRefs
  <2>2. Holds(o \in Protecting(q)') = Holds(q = v) /\ Holds(o \in Protecting(q)) = 0
    BY <1>7, ReferencesAssumption DEF Holds, Creates
  <2>3. obj'[q].count = obj[q].count + Holds(q = v) + Holds(q = o)
    <3>1. obj[q].count \in Nat
      BY <1>1, ObjectTerms
    <3>2. CASE q = o
      BY <1>2, <3>2 DEF Holds, Creates
    <3>3. CASE q # o
      BY <3>1, <3>3 DEF Holds, Creates
    <3> QED
      BY <3>2, <3>3
  <2>4. /\ obj[q].count \in Nat /\ leaked[q] \in Nat /\ leaked' = leaked
        /\ Occ(stack', ObjectFree(q)) = Occ(stack, ObjectFree(q))
        /\ Occ(stack, ObjectFree(q)) \in Nat
        /\ Holds(result' = q) + Holds(held' = q) + Holds(stmt'.literal = q)
         = Holds(result = q) + Holds(held = q) + Holds(stmt.literal = q) + Holds(q = o)
    BY <1>1, <1>6, ObjectTerms DEF Creates
  <2>5.   obj'[q].count
          + Holds(Nil \in NamesOf(q)) + Holds(o \in Protecting(q))
          + Holds(result = q) + Holds(held = q) + Holds(stmt.literal = q)
          + Occ(stack, ObjectFree(q)) + leaked[q]
        = obj[q].count
          + Holds(Nil \in NamesOf(q)') + Holds(o \in Protecting(q)')
          + Holds(result' = q) + Holds(held' = q) + Holds(stmt'.literal = q)
          + Occ(stack', ObjectFree(q)) + leaked'[q]
    BY <2>1, <2>2, <2>3, <2>4 DEF Holds
  <2> QED
    BY <1>1, <1>4, <1>7, <2>1, <2>5, CountStep DEF Counted
<1>9. ASSUME NEW q \in Refs PROVE InstancesAt(q)'
  <2>1. /\ Holds(o \in Readers(q)') + Holds(o \in Assigners(q)') = Holds(q = r)
        /\ Holds(o \in Readers(q)) = 0 /\ Holds(o \in Assigners(q)) = 0
    BY <1>7, ReferencesAssumption DEF Holds, Creates
  <2>2. /\ ref[q].instances \in Nat /\ Occ(stack, RefFree(q)) \in Nat
        /\ ref'[q].instances = ref[q].instances + Holds(q = r)
        /\ Occ(stack', RefFree(q)) = Occ(stack, RefFree(q))
    BY <1>1, <1>3, <1>6, RefTerms
  <2>3.   ref'[q].instances
          + Holds(o \in Readers(q)) + Holds(o \in Assigners(q))
          + Holds(q \in Linked) + Holds(stmt.target = q) + Holds(stmt.operand = q)
          + Occ(stack, RefFree(q))
        = ref[q].instances
          + Holds(o \in Readers(q)') + Holds(o \in Assigners(q)')
          + Holds(q \in Linked') + Holds(stmt'.target = q) + Holds(stmt'.operand = q)
          + Occ(stack', RefFree(q))
    BY <1>5, <2>1, <2>2 DEF Holds, Creates
  <2> QED
    BY <1>1, <1>4, <1>7, <2>3, InstanceStep DEF Counted
<1>10. Contents'
  <2>1. o \notin obj'[o].objs
    BY <1>2 DEF Creates
  <2> QED
    BY <1>1, <2>1 DEF Contents, Creates
<1>11. Blank'
  BY <1>1, <1>3 DEF Blank, LiveRefs, Creates
<1> QED
  BY <1>4, <1>5, <1>6, <1>8, <1>9, <1>10, <1>11 DEF IInv, Counted

\* The cells of new objects.
LEMMA NewCells ==
  /\ FreeObj \in ObjCells
  /\ FreeObj.alive = FALSE /\ FreeObj.type = "data" /\ FreeObj.count = 0
  /\ FreeObj.refs = {} /\ FreeObj.sets = {} /\ FreeObj.objs = {}
  /\ \A c \in ObjCells :
       LET d == [c EXCEPT !.alive = TRUE, !.count = 1]
       IN  /\ d \in ObjCells /\ d.alive /\ d.count = 1 /\ d.type = c.type
           /\ d.refs = c.refs /\ d.sets = c.sets /\ d.objs = c.objs
<1>1. /\ FreeObj \in ObjCells
      /\ FreeObj.alive = FALSE /\ FreeObj.type = "data" /\ FreeObj.count = 0
      /\ FreeObj.refs = {} /\ FreeObj.sets = {} /\ FreeObj.objs = {}
  BY DEF FreeObj, ObjCells
<1>2. ASSUME NEW c \in ObjCells, NEW d, d = [c EXCEPT !.alive = TRUE, !.count = 1]
      PROVE  /\ d \in ObjCells /\ d.alive /\ d.count = 1 /\ d.type = c.type
             /\ d.refs = c.refs /\ d.sets = c.sets /\ d.objs = c.objs
  BY <1>2 DEF ObjCells
<1> QED
  BY <1>1, <1>2

LEMMA ConstantKeeps ==
  ASSUME IInv, Constant
  PROVE  IInv'
<1> DEFINE o == NewObj
           cell == [FreeObj EXCEPT !.alive = TRUE, !.count = 1]
<1>1. Typed /\ Statement /\ Blank /\ Counted
  BY DEF IInv
<1>2. /\ stack = <<>> /\ pc \in {"idle", "rvalue"} /\ Unused # {}
      /\ obj' = [obj EXCEPT ![o] = cell]
      /\ stmt' = [stmt EXCEPT !.kind = "object", !.literal = o]
      /\ pc' = "execute"
      /\ UNCHANGED <<base, ref, result, held, stack, leaked>>
  BY DEF Constant, Reading, Ready
<1>3. o \in Unused
  BY <1>2 DEF NewObj
<1> HIDE DEF o
<1>4. o \in Objects /\ o # Nil
  BY <1>3, ReferencesAssumption DEF Unused
<1>5. /\ cell \in ObjCells /\ cell.alive /\ cell.count = 1 /\ cell.refs = {}
      /\ cell.sets = {} /\ cell.objs = {}
  BY NewCells
<1>6. /\ obj' \in [Objects -> ObjCells] /\ obj'[o] = cell
      /\ \A q \in Objects : q # o => obj'[q] = obj[q]
  BY <1>1, <1>2, <1>4, <1>5 DEF Typed
<1>7. /\ stmt \in Stmts /\ stmt.operand = Nil /\ stmt.literal = Nil
      /\ result = Nil /\ held = Nil
  BY <1>1, <1>2 DEF Statement, NoStmt, Typed
<1>8. /\ stmt' \in Stmts /\ stmt'.literal = o /\ stmt'.target = stmt.target
      /\ stmt'.operand = Nil /\ stmt'.kind = "object"
  BY <1>2, <1>4, <1>7 DEF Stmts, Kinds
<1>9. \A q \in Objects : q # Nil
  BY ReferencesAssumption
<1>10. \A q \in Objects :
             Holds(result' = q) + Holds(held' = q) + Holds(stmt'.literal = q)
           = Holds(result = q) + Holds(held = q) + Holds(stmt.literal = q) + Holds(q = o)
  BY <1>2, <1>7, <1>8, <1>9 DEF Holds
<1>11. Statement' /\ Room'
  BY <1>2, <1>4, <1>7, <1>8 DEF Statement, Room
<1>12. ASSUME NEW q \in Objects \ {o}
       PROVE  /\ obj'[q] = obj[q] /\ q # Nil
              /\ obj'[q].count = obj[q].count + Holds(q = Nil)
  <2>1. obj[q].count \in Nat
    BY <1>1, ObjectTerms
  <2> QED
    BY <1>6, <1>9, <2>1 DEF Holds
<1>13. result' \in Objects \cup {Nil} /\ held' \in Objects \cup {Nil} /\ pc' \in PCs
  BY <1>2, <1>7 DEF PCs
<1> HIDE DEF cell
<1>14. Creates(o, Nil, Nil)
  BY <1>2, <1>5, <1>6, <1>7, <1>8, <1>10, <1>12, <1>13 DEF Creates
<1> QED
  BY <1>3, <1>11, <1>14, CreateKeeps

LEMMA FunctionReturnsKeeps ==
  ASSUME IInv, NEW n \in Names, FunctionReturns(n)
  PROVE  IInv'
<1> DEFINE o == NewObj
           r == Lookup(n)
           cell == [FreeObj EXCEPT !.alive = TRUE, !.type = "code", !.count = 1,
                                   !.refs = {r}]
<1>1. Typed /\ Statement /\ Blank /\ Counted
  BY DEF IInv
<1>2. /\ stack = <<>> /\ pc \in {"idle", "rvalue"} /\ Unused # {} /\ r # Nil
      /\ obj' = [obj EXCEPT ![o] = cell]
      /\ ref' = Instance(r)
      /\ stmt' = [stmt EXCEPT !.kind = "object", !.literal = o]
      /\ pc' = "execute"
      /\ UNCHANGED <<base, result, held, stack, leaked>>
  BY DEF FunctionReturns, Reading, Ready
<1>3. o \in Unused /\ r \in LiveRefs /\ r \in Refs
  BY <1>1, <1>2, FoundLive DEF NewObj
<1> HIDE DEF o, r
<1>4. o \in Objects /\ o # Nil
  BY <1>3, ReferencesAssumption DEF Unused
<1>5. /\ cell \in ObjCells /\ cell.alive /\ cell.count = 1 /\ cell.type = "code"
      /\ cell.refs = {r} /\ cell.sets = {} /\ cell.objs = {}
  BY <1>3, NewCells DEF ObjCells
<1> HIDE DEF cell
<1>6. /\ obj' \in [Objects -> ObjCells] /\ obj'[o] = cell
      /\ \A q \in Objects : q # o => obj'[q] = obj[q]
  BY <1>1, <1>2, <1>4, <1>5 DEF Typed
<1>7. /\ stmt \in Stmts /\ stmt.operand = Nil /\ stmt.literal = Nil
      /\ result = Nil /\ held = Nil
  BY <1>1, <1>2 DEF Statement, NoStmt, Typed
<1>8. /\ stmt' \in Stmts /\ stmt'.literal = o /\ stmt'.target = stmt.target
      /\ stmt'.operand = Nil /\ stmt'.kind = "object"
  BY <1>2, <1>4, <1>7 DEF Stmts, Kinds
<1>9. \A q \in Objects : q # Nil
  BY ReferencesAssumption
<1>10. \A q \in Objects :
             Holds(result' = q) + Holds(held' = q) + Holds(stmt'.literal = q)
           = Holds(result = q) + Holds(held = q) + Holds(stmt.literal = q) + Holds(q = o)
  BY <1>2, <1>7, <1>8, <1>9 DEF Holds
<1>11. Statement' /\ Room'
  BY <1>2, <1>4, <1>7, <1>8 DEF Statement, Room
<1>12. ASSUME NEW q \in Objects \ {o}
       PROVE  /\ obj'[q] = obj[q] /\ q # Nil
              /\ obj'[q].count = obj[q].count + Holds(q = Nil)
  <2>1. obj[q].count \in Nat
    BY <1>1, ObjectTerms
  <2> QED
    BY <1>6, <1>9, <2>1 DEF Holds
<1>13. result' \in Objects \cup {Nil} /\ held' \in Objects \cup {Nil} /\ pc' \in PCs
  BY <1>2, <1>7 DEF PCs
<1>14. Creates(o, Nil, r)
  BY <1>2, <1>5, <1>6, <1>7, <1>8, <1>10, <1>12, <1>13 DEF Creates
<1> QED
  BY <1>3, <1>11, <1>14, CreateKeeps

\* The constant that the function assigns is a new object too.
LEMMA FunctionAssignsKeeps ==
  ASSUME IInv, NEW n \in Names, FunctionAssigns(n)
  PROVE  IInv'
<1> DEFINE o == NewObj
           v == NewConst
           r == Lookup(n)
           cell == [FreeObj EXCEPT !.alive = TRUE, !.type = "code", !.count = 1,
                                   !.sets = {r}, !.objs = {v}]
           constant == [FreeObj EXCEPT !.alive = TRUE, !.count = 1]
<1>1. Typed /\ Statement /\ Blank /\ Counted
  BY DEF IInv
<1>2. /\ stack = <<>> /\ pc \in {"idle", "rvalue"} /\ Cardinality(Unused) > 1
      /\ r # Nil
      /\ obj' = [obj EXCEPT ![o] = cell, ![v] = constant]
      /\ ref' = Instance(r)
      /\ stmt' = [stmt EXCEPT !.kind = "object", !.literal = o]
      /\ pc' = "execute"
      /\ UNCHANGED <<base, result, held, stack, leaked>>
  BY DEF FunctionAssigns, Reading, Ready
<1>3. r \in LiveRefs /\ r \in Refs
  BY <1>1, <1>2, FoundLive
<1> HIDE DEF r
<1>4. IsFiniteSet(Unused) /\ Cardinality(Unused) \in Nat
  BY ReferencesAssumption, FS_Subset, FS_CardinalityType DEF Unused
<1>5. o \in Unused
  <2>1. Unused # {}
    BY <1>2, <1>4, FS_EmptySet
  <2> QED
    BY <2>1 DEF NewObj
<1>6. v \in Unused /\ v # o
  <2>1. /\ IsFiniteSet(Unused \ {o})
        /\ Cardinality(Unused \ {o}) = Cardinality(Unused) - 1
    BY <1>4, <1>5, FS_RemoveElement
  <2>2. Unused \ {o} # {}
    <3>1. Cardinality(Unused \ {o}) # 0
      BY <1>2, <1>4, <2>1
    <3> QED
      BY <2>1, <3>1, FS_EmptySet
  <2> QED
    BY <2>2 DEF NewConst
<1> HIDE DEF o, v
<1>7. /\ o \in Objects /\ o # Nil /\ v \in Objects /\ v # Nil /\ o # v
      /\ obj[v] = FreeObj
  BY <1>1, <1>5, <1>6, ReferencesAssumption DEF Unused, Blank
<1>8. /\ cell \in ObjCells /\ cell.alive /\ cell.count = 1 /\ cell.type = "code"
      /\ cell.refs = {} /\ cell.sets = {r} /\ cell.objs = {v}
  <2>1. {r} \in SUBSET Refs /\ {v} \in SUBSET Objects
    BY <1>3, <1>7
  <2> QED
    BY <2>1, NewCells DEF ObjCells
<1>9. /\ constant \in ObjCells /\ constant.alive /\ constant.count = 1
      /\ constant.type = "data"
      /\ constant.refs = {} /\ constant.sets = {} /\ constant.objs = {}
  BY NewCells
<1> HIDE DEF cell, constant
<1>10. /\ obj' \in [Objects -> ObjCells] /\ obj'[o] = cell /\ obj'[v] = constant
       /\ \A q \in Objects : q # o /\ q # v => obj'[q] = obj[q]
  BY <1>1, <1>2, <1>7, <1>8, <1>9 DEF Typed
<1>11. /\ stmt \in Stmts /\ stmt.operand = Nil /\ stmt.literal = Nil
       /\ result = Nil /\ held = Nil
  BY <1>1, <1>2 DEF Statement, NoStmt, Typed
<1>12. /\ stmt' \in Stmts /\ stmt'.literal = o /\ stmt'.target = stmt.target
       /\ stmt'.operand = Nil /\ stmt'.kind = "object"
  BY <1>2, <1>7, <1>11 DEF Stmts, Kinds
<1>13. \A q \in Objects : q # Nil
  BY ReferencesAssumption
<1>14. \A q \in Objects :
             Holds(result' = q) + Holds(held' = q) + Holds(stmt'.literal = q)
           = Holds(result = q) + Holds(held = q) + Holds(stmt.literal = q) + Holds(q = o)
  BY <1>2, <1>11, <1>12, <1>13 DEF Holds
<1>15. Statement' /\ Room'
  BY <1>2, <1>7, <1>11, <1>12 DEF Statement, Room
<1>16. ASSUME NEW q \in Objects \ {o}
       PROVE  /\ obj'[q].refs = obj[q].refs /\ obj'[q].sets = obj[q].sets
              /\ obj'[q].objs = obj[q].objs /\ obj'[q].type = obj[q].type
              /\ obj'[q].count = obj[q].count + Holds(q = v)
              /\ q = v => obj'[q].alive
              /\ q # v => obj'[q] = obj[q]
  <2>1. obj[q].count \in Nat
    BY <1>1, ObjectTerms
  <2>2. CASE q = v
    <3>1. /\ obj[v].refs = {} /\ obj[v].sets = {} /\ obj[v].objs = {}
          /\ obj[v].type = "data" /\ obj[v].count = 0
      BY <1>7 DEF FreeObj
    <3> QED
      BY <1>7, <1>9, <1>10, <2>2, <3>1 DEF Holds
  <2>3. CASE q # v
    BY <1>10, <2>1, <2>3 DEF Holds
  <2> QED
    BY <2>2, <2>3
<1>17. result' \in Objects \cup {Nil} /\ held' \in Objects \cup {Nil} /\ pc' \in PCs
  BY <1>2, <1>11 DEF PCs
<1>18. Creates(o, v, r)
  BY <1>2, <1>3, <1>7, <1>8, <1>10, <1>11, <1>12, <1>13, <1>14, <1>16, <1>17,
     ReferencesAssumption DEF Creates
<1> QED
  BY <1>3, <1>5, <1>7, <1>15, <1>18, CreateKeeps

LEMMA ExecuteApplyKeeps ==
  ASSUME IInv, ExecuteApply
  PROVE  IInv'
<1> DEFINE o == NewObj
           v == Value(stmt.operand)
           cell == [FreeObj EXCEPT !.alive = TRUE, !.count = 1, !.objs = {v}]
<1>1. Typed /\ Statement /\ Blank /\ Room /\ Counted
  BY DEF IInv
<1>2. /\ stack = <<>> /\ pc = "execute" /\ stmt.kind = "apply"
      /\ HasType(stmt.operand, "data")
      /\ obj' = [Retain(v) EXCEPT ![o] = cell]
      /\ result' = o /\ pc' = Evaluated
      /\ UNCHANGED <<base, ref, stmt, held, stack, leaked>>
  BY DEF ExecuteApply, Executing, Ready
<1>3. /\ o \in Unused /\ result = Nil /\ held = Nil /\ stmt.operand # Nil
      /\ Binding = {}
  BY <1>1, <1>2, AtRest DEF NewObj, Room, Statement
<1>4. v \in LiveObjects /\ v # Nil
  <2>1. stmt.operand \in LiveRefs
    BY <1>1, <1>3, Reached
  <2> QED
    BY <1>1, <1>2, <1>3, <2>1, Reached DEF HasType, Value
<1> HIDE DEF o, v
<1>5. o \in Objects /\ o # Nil /\ v \in Objects /\ v # o
  BY <1>3, <1>4, ReferencesAssumption DEF Unused, LiveObjects
<1>6. /\ cell \in ObjCells /\ cell.alive /\ cell.count = 1 /\ cell.type = "data"
      /\ cell.refs = {} /\ cell.sets = {} /\ cell.objs = {v}
  <2>1. {v} \in SUBSET Objects
    BY <1>5
  <2> QED
    BY <2>1, NewCells DEF ObjCells
<1> HIDE DEF cell
<1>7. PICK cells : cells = Retain(v)
  OBVIOUS
<1>8. /\ cells \in [Objects -> ObjCells]
      /\ \A q \in Objects :
           /\ cells[q].alive = obj[q].alive /\ cells[q].type = obj[q].type
           /\ cells[q].refs = obj[q].refs /\ cells[q].sets = obj[q].sets
           /\ cells[q].objs = obj[q].objs
           /\ cells[q].count = obj[q].count + Holds(q = v)
           /\ q # v => cells[q] = obj[q]
  BY <1>1, <1>5, <1>7, Retained
<1>9. /\ obj' \in [Objects -> ObjCells] /\ obj'[o] = cell
      /\ \A q \in Objects : q # o => obj'[q] = cells[q]
  BY <1>2, <1>5, <1>6, <1>7, <1>8
<1>10. \A q \in Objects :
             Holds(result' = q) + Holds(held' = q) + Holds(stmt'.literal = q)
           = Holds(result = q) + Holds(held = q) + Holds(stmt.literal = q) + Holds(q = o)
  <2>1. \A q \in Objects : q # Nil
    BY ReferencesAssumption
  <2> QED
    BY <1>2, <1>3, <2>1 DEF Holds
<1>11. Statement' /\ Room' /\ pc' \in PCs
  BY <1>1, <1>2, <1>3, <1>5 DEF Statement, Room, Evaluated, PCs
<1>12. stmt' \in Stmts /\ result' \in Objects \cup {Nil} /\ held' \in Objects \cup {Nil}
  BY <1>1, <1>2, <1>5 DEF Typed
<1>13. ASSUME NEW q \in Objects \ {o}
       PROVE  /\ obj'[q].refs = obj[q].refs /\ obj'[q].sets = obj[q].sets
              /\ obj'[q].objs = obj[q].objs /\ obj'[q].type = obj[q].type
              /\ obj'[q].count = obj[q].count + Holds(q = v)
              /\ q = v => obj'[q].alive
              /\ q # v => obj'[q] = obj[q]
  BY <1>4, <1>8, <1>9 DEF LiveObjects
<1>14. Creates(o, v, Nil)
  BY <1>2, <1>4, <1>6, <1>9, <1>10, <1>11, <1>12, <1>13 DEF Creates
<1> QED
  BY <1>3, <1>5, <1>11, <1>14, CreateKeeps

LEMMA BodyRecursKeeps ==
  ASSUME IInv, BodyRecurs
  PROVE  IInv'
<1> DEFINE o == NewObj
           cell == [FreeObj EXCEPT !.alive = TRUE, !.type = "code", !.count = 1]
<1>1. Typed /\ Statement /\ Blank /\ Room /\ Counted
  BY DEF IInv
<1>2. /\ stack = <<>> /\ pc = "body" /\ obj[held].refs = {} /\ obj[held].sets = {}
      /\ obj' = [obj EXCEPT ![o] = cell]
      /\ result' = o /\ pc' = "return"
      /\ UNCHANGED <<base, ref, stmt, held, stack, leaked>>
  BY DEF BodyRecurs, Body, Ready
<1>3. /\ result = Nil /\ held # Nil
      /\ Unused # {} /\ Cardinality(Unused) >= 2
  BY <1>1, <1>2 DEF Room, Recursive, Statement
<1>4. o \in Unused
  BY <1>3 DEF NewObj
<1> HIDE DEF o
<1>5. o \in Objects /\ o # Nil
  BY <1>4, ReferencesAssumption DEF Unused
<1>6. /\ cell \in ObjCells /\ cell.alive /\ cell.count = 1 /\ cell.type = "code"
      /\ cell.refs = {} /\ cell.sets = {} /\ cell.objs = {}
  BY NewCells DEF ObjCells
<1> HIDE DEF cell
<1>7. /\ obj' \in [Objects -> ObjCells] /\ obj'[o] = cell
      /\ \A q \in Objects : q # o => obj'[q] = obj[q]
  BY <1>1, <1>2, <1>5, <1>6 DEF Typed
<1>8. Unused' # {}
  <2>1. IsFiniteSet(Unused) /\ Cardinality(Unused) \in Nat
    BY ReferencesAssumption, FS_Subset, FS_CardinalityType DEF Unused
  <2>2. /\ IsFiniteSet(Unused \ {o})
        /\ Cardinality(Unused \ {o}) = Cardinality(Unused) - 1
    BY <1>4, <2>1, FS_RemoveElement
  <2>3. Unused \ {o} # {}
    <3>1. Cardinality(Unused \ {o}) # 0
      BY <1>3, <2>1, <2>2
    <3> QED
      BY <2>2, <3>1, FS_EmptySet
  <2> QED
    BY <1>7, <2>3 DEF Unused
<1>9. \A q \in Objects :
             Holds(result' = q) + Holds(held' = q) + Holds(stmt'.literal = q)
           = Holds(result = q) + Holds(held = q) + Holds(stmt.literal = q) + Holds(q = o)
  <2>1. \A q \in Objects : q # Nil
    BY ReferencesAssumption
  <2>2. ASSUME NEW q \in Objects
        PROVE  Holds(result' = q) = Holds(result = q) + Holds(q = o)
    BY <1>2, <1>3, <2>1 DEF Holds
  <2>3. held' = held /\ stmt' = stmt
    BY <1>2
  <2> QED
    BY <2>2, <2>3 DEF Holds
<1>10. Statement' /\ pc' \in PCs
  BY <1>1, <1>2, <1>3 DEF Statement, PCs
<1>11. Room'
  BY <1>2, <1>8 DEF Room
<1>12. ASSUME NEW q \in Objects \ {o}
       PROVE  /\ obj'[q] = obj[q] /\ q # Nil
              /\ obj'[q].count = obj[q].count + Holds(q = Nil)
  <2>1. obj[q].count \in Nat /\ q # Nil
    BY <1>1, ObjectTerms, ReferencesAssumption
  <2> QED
    BY <1>7, <2>1 DEF Holds
<1>13. stmt' \in Stmts /\ result' \in Objects \cup {Nil} /\ held' \in Objects \cup {Nil}
  BY <1>1, <1>2, <1>5 DEF Typed
<1>14. Creates(o, Nil, Nil)
  BY <1>2, <1>6, <1>7, <1>9, <1>10, <1>12, <1>13 DEF Creates
<1> QED
  BY <1>4, <1>10, <1>11, <1>14, CreateKeeps

-----------------------------------------------------------------------------
(* The end of a code *)

\* What is returned is not a code: only the code executed is given back.
LEMMA ReturnValueKeeps ==
  ASSUME IInv, Return, ~(result # Nil /\ obj[result].type = "code")
  PROVE  IInv'
<1>1. /\ Typed /\ Statement /\ Contents /\ Blank /\ Room
      /\ Lists /\ Releases /\ Binds /\ Clears /\ Counted
  BY DEF IInv
<1>2. /\ stack = <<>> /\ pc = "return" /\ stack' = <<ObjectFree(held)>>
      /\ held' = Nil /\ pc' = Evaluated
      /\ UNCHANGED <<base, ref, obj, stmt, result, leaked>>
  BY DEF Return, Ready
<1>3. held \in Objects /\ held # Nil
  BY <1>1, <1>2 DEF Statement, Typed
<1>4. stack' \in Seq(CallsTo) /\ DOMAIN stack' = {1} /\ stack'[1] = ObjectFree(held)
  BY <1>2, <1>3 DEF CallsTo
<1>5. Typed' /\ Statement' /\ Room'
  <2>1. pc' \in PCs
    BY <1>2 DEF Evaluated, PCs
  <2>2. Typed'
    BY <1>1, <1>2, <1>4, <2>1 DEF Typed
  <2>3. Statement' /\ Room'
    BY <1>1, <1>2 DEF Statement, Room, Evaluated
  <2> QED
    BY <2>2, <2>3
<1>6. Linked' = Linked /\ Lists'
  BY <1>1, <1>2, <1>5, ListsKept
<1>7. /\ Releases' /\ Binds' /\ Clears' /\ Binding' = Binding
  <2>1. \A k \in DOMAIN stack' : stack'[k].op \in {"ref_free", "object_free"}
    BY <1>4 DEF ObjectFree
  <2> QED
    BY <1>2, <2>1, OnlyFrees, AtRest
<1>8. /\ \A q \in Refs : Occ(stack', RefFree(q)) = 0 /\ Occ(stack, RefFree(q)) = 0
      /\ \A q \in Objects : /\ Occ(stack', ObjectFree(q)) = Holds(q = held)
                            /\ Occ(stack, ObjectFree(q)) = 0
  <2>1. /\ \A q : ObjectFree(q) = ObjectFree(held) <=> q = held
        /\ \A q : RefFree(q) # ObjectFree(held)
    BY DEF RefFree, ObjectFree
  <2> QED
    BY <1>2, <2>1, OccOne, AtRest DEF Holds
<1>9. ASSUME NEW q \in Objects PROVE CountAt(q)'
  <2>1. NamesOf(q)' = NamesOf(q)
    BY <1>2, <1>7 DEF NamesOf, LiveRefs
  <2>2. Protecting(q)' = Protecting(q)
    BY <1>2 DEF Protecting, LiveObjects
  <2>3. /\ obj[q].count \in Nat /\ leaked[q] \in Nat /\ q # Nil
        /\ obj'[q] = obj[q] /\ leaked' = leaked
    BY <1>1, <1>2, ObjectTerms, ReferencesAssumption
  <2>4.   obj'[q].count
          + Holds(Nil \in NamesOf(q)) + Holds(Nil \in Protecting(q))
          + Holds(result = q) + Holds(held = q) + Holds(stmt.literal = q)
          + Occ(stack, ObjectFree(q)) + leaked[q]
        = obj[q].count
          + Holds(Nil \in NamesOf(q)') + Holds(Nil \in Protecting(q)')
          + Holds(result' = q) + Holds(held' = q) + Holds(stmt'.literal = q)
          + Occ(stack', ObjectFree(q)) + leaked'[q]
    BY <1>2, <1>8, <2>1, <2>2, <2>3 DEF Holds
  <2> QED
    BY <1>1, <1>5, <2>1, <2>2, <2>4, CountStep DEF Counted
<1>10. ASSUME NEW q \in Refs PROVE InstancesAt(q)'
  <2>1. Readers(q)' = Readers(q) /\ Assigners(q)' = Assigners(q)
    BY <1>2 DEF Readers, Assigners, LiveObjects
  <2>2. Occ(stack', RefFree(q)) = Occ(stack, RefFree(q))
    BY <1>8
  <2> QED
    BY <1>1, <1>2, <1>6, <2>1, <2>2 DEF Counted, InstancesAt
<1>11. Contents' /\ Blank'
  BY <1>1, <1>2 DEF Contents, Blank
<1> QED
  BY <1>5, <1>6, <1>7, <1>9, <1>10, <1>11 DEF IInv, Counted

\* A code is returned as a copy.
LEMMA ReturnCodeKeeps ==
  ASSUME IInv, Return, result # Nil, obj[result].type = "code"
  PROVE  IInv'
<1> DEFINE o == NewObj
           code == obj[result]
           reads(q) == {r \in code.refs : Value(r) = q}
<1>1. /\ Typed /\ Statement /\ Contents /\ Blank /\ Room
      /\ Lists /\ Releases /\ Binds /\ Clears /\ Counted
  BY DEF IInv
<1>2. /\ stack = <<>> /\ pc = "return"
      /\ ref' = [r \in Refs |->
                  IF r \in code.refs \cup code.sets
                  THEN [ref[r] EXCEPT !.instances = @ + 1] ELSE ref[r]]
      /\ leaked' = [q \in Objects |-> leaked[q] + Cardinality(reads(q))]
      /\ obj' = [q \in Objects |->
                  IF q = o THEN [code EXCEPT !.count = 1]
                  ELSE [obj[q] EXCEPT !.count =
                         @ + (leaked'[q] - leaked[q])
                           + (IF q \in code.objs THEN 1 ELSE 0)]]
      /\ result' = o
      /\ stack' = <<ObjectFree(result), ObjectFree(held)>>
      /\ held' = Nil /\ pc' = Evaluated
      /\ UNCHANGED <<base, stmt>>
  BY DEF Return, Ready
<1>3. /\ held \in Objects /\ held # Nil /\ result \in Objects /\ result # Nil
      /\ code \in ObjCells /\ Unused # {} /\ Binding = {}
  BY <1>1, <1>2, AtRest DEF Statement, Typed, Room
<1>4. o \in Unused
  BY <1>3 DEF NewObj
<1> HIDE DEF o
<1>5. /\ o \in Objects /\ o # Nil /\ ~obj[o].alive /\ obj[o] = FreeObj
      /\ obj[o].count = 0 /\ NamesOf(o) = {}
      /\ result # o /\ held # o /\ stmt.literal # o /\ leaked[o] = 0
      /\ \A r \in LiveRefs : ref[r].object # o
      /\ \A q \in Objects : o \notin obj[q].objs
  BY <1>1, <1>2, <1>4, NewObject DEF LiveObjects
<1>6. /\ code.refs \subseteq LiveRefs /\ code.sets \subseteq LiveRefs
      /\ code.objs \subseteq LiveObjects /\ o \notin code.objs /\ result \in LiveObjects
      /\ \A r \in LiveRefs : ref[r].object \in LiveObjects \cup {Nil}
      /\ code.refs \cap code.sets = {}
  BY <1>1, <1>3, <1>5, Reached DEF Contents
<1>7. ASSUME NEW q \in Objects
      PROVE  /\ Cardinality(reads(q)) \in Nat
             /\ ~obj[q].alive => Cardinality(reads(q)) = 0
  <2>1. IsFiniteSet(reads(q))
    <3>1. reads(q) \subseteq Refs
      BY <1>6 DEF LiveRefs
    <3> QED
      BY <3>1, FS_Subset, ReferencesAssumption
  <2>2. ~obj[q].alive => reads(q) = {}
    BY <1>6, ReferencesAssumption DEF Value, LiveObjects
  <2> HIDE DEF reads
  <2> QED
    BY <2>1, <2>2, FS_CardinalityType, FS_EmptySet
<1> HIDE DEF reads
<1>8. /\ leaked' \in [Objects -> Nat] /\ leaked'[o] = 0
      /\ \A q \in Objects : leaked'[q] - leaked[q] = Cardinality(reads(q))
  <2>1. \A q \in Objects : leaked[q] \in Nat
    BY <1>1 DEF Typed
  <2> QED
    BY <1>2, <1>5, <1>7, <2>1
<1>9. ASSUME NEW q \in Objects \ {o}
      PROVE  /\ obj'[q] \in ObjCells
             /\ obj'[q].alive = obj[q].alive /\ obj'[q].type = obj[q].type
             /\ obj'[q].refs = obj[q].refs /\ obj'[q].sets = obj[q].sets
             /\ obj'[q].objs = obj[q].objs
             /\ obj'[q].count = obj[q].count + Cardinality(reads(q))
                                + Holds(q \in code.objs)
             /\ ~obj[q].alive => obj'[q] = FreeObj
  <2>1. obj[q] \in ObjCells /\ obj[q].count \in Nat
    BY <1>1, ObjectTerms DEF Typed
  <2>2. PICK k \in Nat : k = obj[q].count + Cardinality(reads(q)) + Holds(q \in code.objs)
    BY <1>7, <2>1 DEF Holds
  <2>3. obj'[q] = [obj[q] EXCEPT !.count = k]
    BY <1>2, <1>8, <2>2 DEF Holds
  <2>4. ~obj[q].alive => k = 0 /\ obj[q] = FreeObj
    <3>1. ~obj[q].alive => /\ obj[q] = FreeObj /\ Cardinality(reads(q)) = 0
                           /\ Holds(q \in code.objs) = 0 /\ FreeObj.count = 0
      BY <1>1, <1>6, <1>7, NewCells DEF Blank, LiveObjects, Holds
    <3> QED
      BY <2>2, <3>1
  <2>5. [FreeObj EXCEPT !.count = 0] = FreeObj
    BY DEF FreeObj
  <2>6. /\ obj'[q] \in ObjCells /\ obj'[q].count = k
        /\ obj'[q].alive = obj[q].alive /\ obj'[q].type = obj[q].type
        /\ obj'[q].refs = obj[q].refs /\ obj'[q].sets = obj[q].sets
        /\ obj'[q].objs = obj[q].objs
    BY <2>1, <2>3 DEF ObjCells
  <2> QED
    BY <2>2, <2>3, <2>4, <2>5, <2>6
<1>10. /\ obj'[o] \in ObjCells /\ obj'[o].alive /\ obj'[o].type = "code"
       /\ obj'[o].refs = code.refs /\ obj'[o].sets = code.sets
       /\ obj'[o].objs = code.objs /\ obj'[o].count = 1
  <2>1. obj'[o] = [code EXCEPT !.count = 1]
    BY <1>2, <1>5
  <2>2. code.alive /\ code.type = "code"
    BY <1>6 DEF LiveObjects
  <2> HIDE DEF code
  <2> QED
    BY <1>3, <2>1, <2>2 DEF ObjCells
<1>11. ASSUME NEW r \in Refs
       PROVE  /\ ref'[r] \in RefCells
              /\ ref'[r].alive = ref[r].alive /\ ref'[r].object = ref[r].object
              /\ ref'[r].next = ref[r].next
              /\ ref'[r].instances = ref[r].instances
                                     + Holds(r \in code.refs) + Holds(r \in code.sets)
              /\ ~ref[r].alive => ref'[r] = ref[r]
  <2>1. ref[r] \in RefCells /\ ref[r].instances \in Nat
    BY <1>1, RefTerms DEF Typed
  <2>2. CASE r \in code.refs \cup code.sets
    <3>1. PICK k \in Nat : k = ref[r].instances + 1
      BY <2>1
    <3>2. ref'[r] = [ref[r] EXCEPT !.instances = k]
      BY <1>2, <2>2, <3>1
    <3>3. Holds(r \in code.refs) + Holds(r \in code.sets) = 1
      BY <1>6, <2>2 DEF Holds
    <3>4. /\ ref'[r] \in RefCells
          /\ ref'[r].alive = ref[r].alive /\ ref'[r].object = ref[r].object
          /\ ref'[r].next = ref[r].next /\ ref'[r].instances = k
      BY <2>1, <3>2 DEF RefCells
    <3>5. ref[r].alive
      BY <1>6, <2>2 DEF LiveRefs
    <3>6. ref'[r].instances = ref[r].instances
                              + Holds(r \in code.refs) + Holds(r \in code.sets)
      <4>1. Holds(r \in code.refs) \in Nat /\ Holds(r \in code.sets) \in Nat
        BY DEF Holds
      <4> QED
        BY <2>1, <3>1, <3>3, <3>4, <4>1
    <3> QED
      BY <3>4, <3>5, <3>6
  <2>3. CASE r \notin code.refs \cup code.sets
    BY <1>2, <2>1, <2>3 DEF Holds
  <2> QED
    BY <2>2, <2>3
<1>12. stack' \in Seq(CallsTo) /\ DOMAIN stack' = {1, 2}
       /\ stack'[1] = ObjectFree(result) /\ stack'[2] = ObjectFree(held)
  BY <1>2, <1>3 DEF CallsTo
<1>13. Typed' /\ Statement' /\ Room'
  <2>1. pc' \in PCs
    BY <1>2 DEF Evaluated, PCs
  <2>2. ref' \in [Refs -> RefCells]
    BY <1>2, <1>11
  <2>3. obj' \in [Objects -> ObjCells]
    BY <1>2, <1>9, <1>10
  <2>4. Typed'
    BY <1>1, <1>2, <1>5, <1>8, <1>12, <2>1, <2>2, <2>3 DEF Typed
  <2>5. Statement' /\ Room'
    BY <1>1, <1>2 DEF Statement, Room, Evaluated
  <2> QED
    BY <2>4, <2>5
<1>14. Linked' = Linked /\ Lists'
  <2>1. \A q \in Linked : ref'[q].next = ref[q].next
    BY <1>1, <1>11, LinkedIs DEF LinkedLeast
  <2> QED
    BY <1>1, <1>2, <1>13, <2>1, ListsKept
<1>15. /\ Releases' /\ Binds' /\ Clears' /\ Binding' = Binding
  <2>1. \A k \in DOMAIN stack' : stack'[k].op \in {"ref_free", "object_free"}
    BY <1>12 DEF ObjectFree
  <2> QED
    BY <1>2, <2>1, OnlyFrees, AtRest
<1>16. /\ \A q \in Refs : Occ(stack', RefFree(q)) = 0 /\ Occ(stack, RefFree(q)) = 0
       /\ \A q \in Objects :
            /\ Occ(stack', ObjectFree(q)) = Holds(q = result) + Holds(q = held)
            /\ Occ(stack, ObjectFree(q)) = 0
  <2>1. /\ \A p, q : ObjectFree(q) = ObjectFree(p) <=> q = p
        /\ \A p, q : RefFree(q) # ObjectFree(p)
    BY DEF RefFree, ObjectFree
  <2>2. /\ <<ObjectFree(result)>> \in Seq(CallsTo) /\ <<ObjectFree(held)>> \in Seq(CallsTo)
        /\ stack' = <<ObjectFree(result)>> \o <<ObjectFree(held)>>
    BY <1>2, <1>3 DEF CallsTo
  <2>3. \A c : Occ(stack', c) = Occ(<<ObjectFree(result)>>, c) + Occ(<<ObjectFree(held)>>, c)
    BY <2>2, OccConcat
  <2> QED
    BY <1>2, <2>1, <2>3, OccOne, AtRest DEF Holds
<1>17. /\ \A q : /\ Protecting(q)' \ {o} = Protecting(q) \ {o}
                 /\ o \notin Protecting(q)
                 /\ o \in Protecting(q)' <=> q \in code.objs
       /\ \A r : /\ Readers(r)' \ {o} = Readers(r) \ {o}
                 /\ o \notin Readers(r)
                 /\ o \in Readers(r)' <=> r \in code.refs
       /\ \A r : /\ Assigners(r)' \ {o} = Assigners(r) \ {o}
                 /\ o \notin Assigners(r)
                 /\ o \in Assigners(r)' <=> r \in code.sets
  <2>1. \A q \in Objects \ {o} :
          /\ obj'[q].refs = obj[q].refs /\ obj'[q].sets = obj[q].sets
          /\ obj'[q].objs = obj[q].objs /\ (obj'[q].alive <=> obj[q].alive)
    BY <1>9
  <2> QED
    BY <1>5, <1>10, <2>1, Created
<1>18. ASSUME NEW q \in Objects PROVE CountAt(q)'
  <2>1. NamesOf(q)' = NamesOf(q)
    BY <1>11, <1>15 DEF NamesOf, LiveRefs
  <2>2. /\ Holds(o \in Protecting(q)) = 0
        /\ Holds(o \in Protecting(q)') = Holds(q \in code.objs)
    BY <1>17 DEF Holds
  <2>3. /\ obj[q].count \in Nat /\ leaked[q] \in Nat /\ leaked'[q] \in Nat
        /\ q # Nil /\ leaked'[q] = leaked[q] + Cardinality(reads(q))
        /\ Cardinality(reads(q)) \in Nat
    BY <1>1, <1>2, <1>7, <1>8, ObjectTerms, ReferencesAssumption
  <2>4. obj'[q].count = obj[q].count + Cardinality(reads(q))
                        + Holds(q \in code.objs) + Holds(q = o)
    <3>1. CASE q = o
      <4>1. obj'[o].count = 1 /\ obj[o].count = 0 /\ o \notin code.objs
        BY <1>5, <1>6, <1>10
      <4>2. Cardinality(reads(o)) = 0
        BY <1>5, <1>7
      <4> QED
        BY <3>1, <4>1, <4>2 DEF Holds
    <3>2. CASE q # o
      <4>1. obj'[q].count = obj[q].count + Cardinality(reads(q)) + Holds(q \in code.objs)
        BY <1>9, <3>2
      <4> QED
        BY <2>3, <3>2, <4>1 DEF Holds
    <3> QED
      BY <3>1, <3>2
  <2>5. /\ Holds(result' = q) = Holds(q = o) /\ Holds(held' = q) = 0
        /\ Holds(stmt'.literal = q) = Holds(stmt.literal = q)
        /\ Holds(result = q) = Holds(q = result) /\ Holds(held = q) = Holds(q = held)
        /\ Occ(stack', ObjectFree(q)) = Holds(q = result) + Holds(q = held)
        /\ Occ(stack, ObjectFree(q)) = 0
    BY <1>2, <1>16, <2>3 DEF Holds
  <2>6.   obj'[q].count
          + Holds(Nil \in NamesOf(q)) + Holds(o \in Protecting(q))
          + Holds(result = q) + Holds(held = q) + Holds(stmt.literal = q)
          + Occ(stack, ObjectFree(q)) + leaked[q]
        = obj[q].count
          + Holds(Nil \in NamesOf(q)') + Holds(o \in Protecting(q)')
          + Holds(result' = q) + Holds(held' = q) + Holds(stmt'.literal = q)
          + Occ(stack', ObjectFree(q)) + leaked'[q]
    BY <2>1, <2>2, <2>3, <2>4, <2>5 DEF Holds
  <2> QED
    BY <1>1, <1>13, <1>17, <2>1, <2>6, CountStep DEF Counted
<1>19. ASSUME NEW r \in Refs PROVE InstancesAt(r)'
  <2>1. /\ Holds(o \in Readers(r)') = Holds(r \in code.refs)
        /\ Holds(o \in Assigners(r)') = Holds(r \in code.sets)
        /\ Holds(o \in Readers(r)) = 0 /\ Holds(o \in Assigners(r)) = 0
    BY <1>17 DEF Holds
  <2>2. /\ ref[r].instances \in Nat
        /\ ref'[r].instances = ref[r].instances
                               + Holds(r \in code.refs) + Holds(r \in code.sets)
        /\ Occ(stack', RefFree(r)) = 0 /\ Occ(stack, RefFree(r)) = 0
    BY <1>1, <1>11, <1>16, RefTerms
  <2>3.   ref'[r].instances
          + Holds(o \in Readers(r)) + Holds(o \in Assigners(r))
          + Holds(r \in Linked) + Holds(stmt.target = r) + Holds(stmt.operand = r)
          + Occ(stack, RefFree(r))
        = ref[r].instances
          + Holds(o \in Readers(r)') + Holds(o \in Assigners(r)')
          + Holds(r \in Linked') + Holds(stmt'.target = r) + Holds(stmt'.operand = r)
          + Occ(stack', RefFree(r))
    BY <1>2, <1>14, <2>1, <2>2 DEF Holds
  <2> QED
    BY <1>1, <1>13, <1>17, <2>3, InstanceStep DEF Counted
<1>20. Contents'
  <2>1. ASSUME NEW q \in Objects \ {o}
        PROVE  /\ obj'[q].type = "data" => obj'[q].refs = {} /\ obj'[q].sets = {}
               /\ obj'[q].refs \cap obj'[q].sets = {}
               /\ q \notin obj'[q].objs
    BY <1>1, <1>9 DEF Contents
  <2> QED
    BY <1>6, <1>10, <2>1 DEF Contents
<1>21. Blank'
  <2>1. \A r \in Refs : ~ref'[r].alive => ref'[r] = FreeRef
    BY <1>1, <1>11 DEF Blank
  <2>2. \A q \in Objects : ~obj'[q].alive => obj'[q] = FreeObj
    BY <1>9, <1>10
  <2> QED
    BY <2>1, <2>2 DEF Blank
<1> QED
  BY <1>13, <1>14, <1>15, <1>18, <1>19, <1>20, <1>21 DEF IInv, Counted

LEMMA ReturnKeeps ==
  ASSUME IInv, Return
  PROVE  IInv'
BY ReturnValueKeeps, ReturnCodeKeeps

-----------------------------------------------------------------------------
(* Assignments *)

\* The calls that give a name its value: the former value first.
LEMMA Registered ==
  ASSUME NEW o \in Objects, NEW r \in Refs, Value(r) \in Objects \cup {Nil},
         stack' = Register(o, r), result' = o,
         \/ pc' = "release" /\ r = stmt'.target
         \/ pc' = "return" /\ r \in obj'[held'].sets
  PROVE  /\ stack' \in Seq(CallsTo) /\ Releases' /\ Binds' /\ Clears'
         /\ Binding' = IF o = Value(r) THEN {} ELSE {r}
         /\ \A q \in Refs : Occ(stack', RefFree(q)) = 0
         /\ \A q \in Objects :
              Occ(stack', ObjectFree(q)) = IF o = Value(r) THEN 0 ELSE Holds(q = Value(r))
<1>1. CASE o = Value(r)
  BY <1>1, AtRest DEF Register
<1>2. CASE o # Value(r)
  <2> DEFINE a == FreeIfAny(Value(r))
             b == <<Bind(o, r)>>
  <2>1. stack' = a \o b
    BY <1>2 DEF Register
  <2>2. /\ a \in Seq(CallsTo)
        /\ \A k \in DOMAIN a : a[k].op = "object_free"
        /\ \A q \in Objects : Occ(a, ObjectFree(q)) = Holds(q = Value(r))
        /\ \A q \in Refs : Occ(a, RefFree(q)) = 0
    BY FreeCall DEF ObjectFree
  <2>3. b \in Seq(CallsTo) /\ Len(b) = 1 /\ DOMAIN b = {1} /\ b[1] = Bind(o, r)
    BY DEF CallsTo
  <2>4. /\ \A q \in Objects : Occ(b, ObjectFree(q)) = 0
        /\ \A q \in Refs : Occ(b, RefFree(q)) = 0
    <3>1. \A q : ObjectFree(q) # Bind(o, r) /\ RefFree(q) # Bind(o, r)
      BY DEF ObjectFree, RefFree, Bind
    <3> QED
      BY <3>1, OccOne DEF Holds
  <2> HIDE DEF a, b
  <2>5. /\ stack' \in Seq(CallsTo) /\ Len(stack') = Len(a) + 1 /\ Len(a) \in Nat
        /\ DOMAIN stack' = 1 .. Len(stack')
        /\ \A k \in DOMAIN stack' :
             \/ stack'[k].op = "object_free"
             \/ k = Len(stack') /\ stack'[k] = Bind(o, r)
    <3>1. /\ a \o b \in Seq(CallsTo) /\ Len(a \o b) = Len(a) + Len(b)
          /\ Len(a) \in Nat /\ Len(b) \in Nat
          /\ \A k \in DOMAIN (a \o b) :
               \/ k \in DOMAIN a /\ (a \o b)[k] = a[k]
               \/ \E l \in DOMAIN b : k = Len(a) + l /\ (a \o b)[k] = b[l]
      <4>1. a \in Seq(CallsTo) /\ b \in Seq(CallsTo)
        BY <2>2, <2>3
      <4> QED
        BY <4>1, ConcatElements
    <3> QED
      BY <2>1, <2>2, <2>3, <3>1
  <2>6. Len(stack') \in DOMAIN stack' /\ stack'[Len(stack')] = Bind(o, r)
    BY <2>1, <2>2, <2>3, <2>5, ConcatProperties
  <2>7. Bind(o, r).op = "bind" /\ Bind(o, r).ref = r /\ Bind(o, r).object = o
    BY DEF Bind
  <2>8. Releases' /\ Clears'
    BY <2>5, <2>7 DEF Releases, Clears
  <2>9. Binds'
    BY <2>5, <2>7 DEF Binds
  <2>10. Binding' = {r}
    BY <2>5, <2>6, <2>7 DEF Binding
  <2>11. /\ \A q \in Refs : Occ(stack', RefFree(q)) = 0
         /\ \A q \in Objects : Occ(stack', ObjectFree(q)) = Holds(q = Value(r))
    <3>1. \A c : Occ(stack', c) = Occ(a, c) + Occ(b, c)
      BY <2>1, <2>2, <2>3, OccConcat
    <3> QED
      BY <2>2, <2>4, <3>1 DEF Holds
  <2> QED
    BY <1>2, <2>5, <2>8, <2>9, <2>10, <2>11
<1> QED
  BY <1>1, <1>2

\* The names of each object while a name is given another value.
LEMMA NamesBound ==
  ASSUME Binding = {}, UNCHANGED <<ref>> \/ (\A q \in Refs : /\ ref'[q].alive = ref[q].alive
                                                             /\ ref'[q].object = ref[q].object),
         NEW r \in LiveRefs, NEW o, Binding' = (IF o = Value(r) THEN {} ELSE {r}),
         NEW q
  PROVE  /\ NamesOf(q)' \ {r} = NamesOf(q) \ {r}
         /\ r \in NamesOf(q) <=> Value(r) = q
         /\ r \in NamesOf(q)' <=> Value(r) = q /\ o = Value(r)
BY DEF NamesOf, LiveRefs, Value

LEMMA BodyAssignsKeeps ==
  ASSUME IInv, BodyAssigns
  PROVE  IInv'
<1>1. /\ Typed /\ Statement /\ Contents /\ Blank /\ Room
      /\ Lists /\ Releases /\ Binds /\ Clears /\ Counted
  BY DEF IInv
<1>2. PICK r \in obj[held].sets, c \in obj[held].objs :
        result' = c /\ obj' = Retain(c) /\ stack' = Register(c, r)
  BY DEF BodyAssigns
<1>3. /\ stack = <<>> /\ pc = "body" /\ pc' = "return"
      /\ UNCHANGED <<base, ref, stmt, held, leaked>>
  BY DEF BodyAssigns, Body, Ready
<1>4. /\ result = Nil /\ held # Nil /\ held \in Objects /\ Binding = {} /\ Unused # {}
      /\ \A x : Occ(stack, x) = 0
  BY <1>1, <1>3, AtRest DEF Statement, Room, Typed
<1>5. r \in LiveRefs /\ r \in Refs /\ c \in LiveObjects /\ c \in Objects
  BY <1>1, <1>4, Reached DEF LiveRefs, LiveObjects
<1>6. Value(r) \in Objects \cup {Nil}
  BY <1>1, <1>4, <1>5, Reached DEF Value, LiveObjects
<1>7. /\ obj' \in [Objects -> ObjCells]
      /\ \A q \in Objects :
           /\ obj'[q].alive = obj[q].alive /\ obj'[q].type = obj[q].type
           /\ obj'[q].refs = obj[q].refs /\ obj'[q].sets = obj[q].sets
           /\ obj'[q].objs = obj[q].objs
           /\ obj'[q].count = obj[q].count + Holds(q = c)
           /\ q # c => obj'[q] = obj[q]
  BY <1>1, <1>2, <1>5, Retained
<1>8. /\ stack' \in Seq(CallsTo) /\ Releases' /\ Binds' /\ Clears'
      /\ Binding' = IF c = Value(r) THEN {} ELSE {r}
      /\ \A q \in Refs : Occ(stack', RefFree(q)) = 0
      /\ \A q \in Objects :
           Occ(stack', ObjectFree(q)) = IF c = Value(r) THEN 0 ELSE Holds(q = Value(r))
  <2>1. r \in obj'[held'].sets
    BY <1>2, <1>3, <1>4, <1>7
  <2> QED
    BY <1>2, <1>3, <1>5, <1>6, <2>1, Registered
<1>9. Typed' /\ Statement' /\ Room'
  <2>1. Typed'
    BY <1>1, <1>2, <1>3, <1>5, <1>7, <1>8 DEF Typed, PCs
  <2>2. Statement'
    BY <1>1, <1>3, <1>4 DEF Statement
  <2>3. Unused' = Unused
    BY <1>7 DEF Unused
  <2>4. Room'
    BY <1>3, <1>4, <2>3 DEF Room
  <2> QED
    BY <2>1, <2>2, <2>4
<1>10. Linked' = Linked /\ Lists'
  BY <1>1, <1>3, <1>9, ListsKept
<1>11. ASSUME NEW q \in Objects PROVE CountAt(q)'
  <2>1. /\ NamesOf(q)' \ {r} = NamesOf(q) \ {r}
        /\ r \in NamesOf(q) <=> Value(r) = q
        /\ r \in NamesOf(q)' <=> Value(r) = q /\ c = Value(r)
    BY <1>3, <1>4, <1>5, <1>8, NamesBound
  <2>2. Protecting(q)' = Protecting(q)
    BY <1>7 DEF Protecting, LiveObjects
  <2>3. /\ obj[q].count \in Nat /\ leaked[q] \in Nat /\ q # Nil /\ leaked' = leaked
        /\ obj'[q].count = obj[q].count + Holds(q = c)
    BY <1>1, <1>3, <1>7, ObjectTerms, ReferencesAssumption
  <2>4. Occ(stack, ObjectFree(q)) = 0
    BY <1>4
  <2>5. Occ(stack', ObjectFree(q)) + Holds(r \in NamesOf(q)') = Holds(r \in NamesOf(q))
    BY <1>8, <2>1 DEF Holds
  <2>6. Holds(result = q) = 0 /\ Holds(result' = q) = Holds(q = c)
    BY <1>2, <1>4, <2>3 DEF Holds
  <2>7. Occ(stack', ObjectFree(q)) \in Nat
    BY <1>8 DEF Holds
  <2>8.   obj'[q].count
          + Holds(r \in NamesOf(q)) + Holds(Nil \in Protecting(q))
          + Holds(result = q) + Holds(held = q) + Holds(stmt.literal = q)
          + Occ(stack, ObjectFree(q)) + leaked[q]
        = obj[q].count
          + Holds(r \in NamesOf(q)') + Holds(Nil \in Protecting(q)')
          + Holds(result' = q) + Holds(held' = q) + Holds(stmt'.literal = q)
          + Occ(stack', ObjectFree(q)) + leaked'[q]
    BY <1>3, <2>2, <2>3, <2>4, <2>5, <2>6, <2>7 DEF Holds
  <2> QED
    BY <1>1, <1>9, <2>1, <2>2, <2>8, CountStep DEF Counted
<1>12. ASSUME NEW q \in Refs PROVE InstancesAt(q)'
  <2>1. Readers(q)' = Readers(q) /\ Assigners(q)' = Assigners(q)
    BY <1>7 DEF Readers, Assigners, LiveObjects
  <2>2. Occ(stack', RefFree(q)) = Occ(stack, RefFree(q))
    BY <1>4, <1>8
  <2> QED
    BY <1>1, <1>3, <1>10, <2>1, <2>2 DEF Counted, InstancesAt
<1>13. Contents'
  BY <1>1, <1>7 DEF Contents
<1>14. Blank'
  BY <1>1, <1>3, <1>5, <1>7 DEF Blank, LiveObjects
<1> QED
  BY <1>8, <1>9, <1>10, <1>11, <1>12, <1>13, <1>14 DEF IInv, Counted

\* The error of an assignment: there is nothing to assign.
LEMMA AssignNothingKeeps ==
  ASSUME IInv, Assign, result = Nil
  PROVE  IInv'
<1>1. /\ Typed /\ Statement /\ Contents /\ Blank /\ Room
      /\ Lists /\ Releases /\ Binds /\ Clears /\ Counted
  BY DEF IInv
<1>2. /\ stack = <<>> /\ pc = "assign" /\ pc' = "release"
      /\ UNCHANGED <<base, ref, obj, stmt, result, held, stack, leaked>>
  BY DEF Assign, AssignTaking, Ready
<1>3. Typed' /\ Statement' /\ Room' /\ Contents' /\ Blank'
  BY <1>1, <1>2 DEF Typed, PCs, Statement, Room, Contents, Blank
<1>4. Linked' = Linked /\ Lists'
  BY <1>1, <1>2, <1>3, ListsKept
<1>5. Releases' /\ Binds' /\ Clears' /\ Binding' = Binding
  BY <1>2, AtRest
<1>6. ASSUME NEW q \in Objects PROVE CountAt(q)'
  <2>1. NamesOf(q)' = NamesOf(q) /\ Protecting(q)' = Protecting(q)
    BY <1>2, <1>5 DEF NamesOf, Protecting, LiveRefs, LiveObjects
  <2> QED
    BY <1>1, <1>2, <2>1 DEF Counted, CountAt
<1>7. ASSUME NEW q \in Refs PROVE InstancesAt(q)'
  <2>1. Readers(q)' = Readers(q) /\ Assigners(q)' = Assigners(q)
    BY <1>2 DEF Readers, Assigners, LiveObjects
  <2> QED
    BY <1>1, <1>2, <1>4, <2>1 DEF Counted, InstancesAt
<1> QED
  BY <1>3, <1>4, <1>5, <1>6, <1>7 DEF IInv, Counted

\* The name gets the value of the statement; a code that reads the name it is
\* assigned to loses the leaf.
LEMMA AssignValueKeeps ==
  ASSUME IInv, Assign, result # Nil
  PROVE  IInv'
<1> DEFINE t == stmt.target
           c == result
           own == t \in obj[c].refs
<1>1. /\ Typed /\ Statement /\ Contents /\ Blank /\ Room
      /\ Lists /\ Releases /\ Binds /\ Clears /\ Counted
  BY DEF IInv
<1>2. /\ stack = <<>> /\ pc = "assign" /\ pc' = "release"
      /\ own => /\ obj' = [obj EXCEPT ![c].refs = @ \ {t}]
                /\ ref' = [ref EXCEPT ![t].instances = @ - 1]
      /\ ~own => ref' = ref /\ obj' = obj
      /\ stack' = Register(c, t)
      /\ UNCHANGED <<base, stmt, result, held, leaked>>
  BY DEF Assign, AssignTaking, Ready
<1>3. /\ held = Nil /\ t # Nil /\ t \in Refs /\ c \in Objects /\ Binding = {}
      /\ \A d : Occ(stack, d) = 0
  BY <1>1, <1>2, AtRest DEF Statement, Typed, Stmts
<1>4. t \in LiveRefs /\ c \in LiveObjects
  BY <1>1, <1>3, Reached
<1>5. Value(t) \in Objects \cup {Nil}
  BY <1>1, <1>3, <1>4, Reached DEF Value, LiveObjects
<1>6. ref[t].instances \in Nat /\ (own => ref[t].instances >= 1)
  <2>1. own => c \in Readers(t)
    BY <1>4 DEF Readers
  <2>2. ref[t].instances \in Nat
    BY <1>1, <1>3, RefTerms
  <2> QED
    BY <1>1, <1>3, <2>1, <2>2, Instances DEF Counted
<1> HIDE DEF own
<1>7. /\ ref' \in [Refs -> RefCells]
      /\ \A q \in Refs :
           /\ ref'[q].alive = ref[q].alive /\ ref'[q].object = ref[q].object
           /\ ref'[q].next = ref[q].next
           /\ q # t \/ ~own => ref'[q] = ref[q]
      /\ own => ref'[t].instances = ref[t].instances - 1
  <2>1. CASE own
    <3>1. PICK k \in Nat : k = ref[t].instances - 1
      BY <1>6, <2>1
    <3>2. ref' = [ref EXCEPT ![t] = [ref[t] EXCEPT !.instances = k]]
      BY <1>2, <2>1, <3>1
    <3>3. ref[t] \in RefCells
      BY <1>1, <1>3 DEF Typed
    <3>4. PICK cell : cell = [ref[t] EXCEPT !.instances = k]
      OBVIOUS
    <3>5. /\ cell \in RefCells /\ cell.alive = ref[t].alive
          /\ cell.object = ref[t].object /\ cell.next = ref[t].next
          /\ cell.instances = k
      BY <3>3, <3>4 DEF RefCells
    <3>6. ref' = [ref EXCEPT ![t] = cell]
      BY <3>2, <3>4
    <3> QED
      BY <1>1, <1>3, <2>1, <3>1, <3>5, <3>6 DEF Typed
  <2>2. CASE ~own
    BY <1>1, <1>2, <2>2 DEF Typed
  <2> QED
    BY <2>1, <2>2
<1>8. /\ obj' \in [Objects -> ObjCells]
      /\ \A q \in Objects :
           /\ obj'[q].alive = obj[q].alive /\ obj'[q].type = obj[q].type
           /\ obj'[q].count = obj[q].count /\ obj'[q].sets = obj[q].sets
           /\ obj'[q].objs = obj[q].objs
           /\ q # c => obj'[q] = obj[q]
      /\ obj'[c].refs = obj[c].refs \ {t}
  <2>1. CASE own
    <3>1. obj[c] \in ObjCells
      BY <1>1, <1>3 DEF Typed
    <3>2. PICK cell : cell = [obj[c] EXCEPT !.refs = @ \ {t}]
      OBVIOUS
    <3>3. /\ cell \in ObjCells /\ cell.alive = obj[c].alive
          /\ cell.type = obj[c].type /\ cell.count = obj[c].count
          /\ cell.sets = obj[c].sets /\ cell.objs = obj[c].objs
          /\ cell.refs = obj[c].refs \ {t}
      BY <3>1, <3>2 DEF ObjCells
    <3>4. obj' = [obj EXCEPT ![c] = cell]
      BY <1>2, <2>1, <3>2
    <3> QED
      BY <1>1, <1>3, <3>3, <3>4 DEF Typed
  <2>2. CASE ~own
    BY <1>1, <1>2, <2>2 DEF Typed, own
  <2> QED
    BY <2>1, <2>2
<1>9. /\ stack' \in Seq(CallsTo) /\ Releases' /\ Binds' /\ Clears'
      /\ Binding' = IF c = Value(t) THEN {} ELSE {t}
      /\ \A q \in Refs : Occ(stack', RefFree(q)) = 0
      /\ \A q \in Objects :
           Occ(stack', ObjectFree(q)) = IF c = Value(t) THEN 0 ELSE Holds(q = Value(t))
  <2>1. result' = c /\ pc' = "release" /\ t = stmt'.target
    BY <1>2
  <2> HIDE DEF c, t
  <2> QED
    BY <1>2, <1>3, <1>5, <2>1, Registered
<1>10. Typed' /\ Statement' /\ Room'
  <2>1. Typed'
    BY <1>1, <1>2, <1>7, <1>8, <1>9 DEF Typed, PCs
  <2>2. Statement' /\ Room'
    BY <1>1, <1>2, <1>3 DEF Statement, Room
  <2> QED
    BY <2>1, <2>2
<1>11. Linked' = Linked /\ Lists'
  <2>1. \A q \in Linked : ref'[q].next = ref[q].next
    BY <1>1, <1>7, LinkedIs DEF LinkedLeast
  <2> QED
    BY <1>1, <1>2, <1>10, <2>1, ListsKept
<1>12. ASSUME NEW q \in Objects PROVE CountAt(q)'
  <2>1. /\ NamesOf(q)' \ {t} = NamesOf(q) \ {t}
        /\ t \in NamesOf(q) <=> Value(t) = q
        /\ t \in NamesOf(q)' <=> Value(t) = q /\ c = Value(t)
    BY <1>3, <1>4, <1>7, <1>9, NamesBound
  <2>2. Protecting(q)' = Protecting(q)
    BY <1>8 DEF Protecting, LiveObjects
  <2>3. /\ obj[q].count \in Nat /\ leaked[q] \in Nat /\ leaked' = leaked
        /\ obj'[q].count = obj[q].count
        /\ Occ(stack, ObjectFree(q)) = 0
        /\ Occ(stack', ObjectFree(q)) \in Nat
    BY <1>1, <1>2, <1>3, <1>8, <1>9, ObjectTerms DEF Holds
  <2>4. Occ(stack', ObjectFree(q)) + Holds(t \in NamesOf(q)') = Holds(t \in NamesOf(q))
    BY <1>9, <2>1 DEF Holds
  <2>5.   obj'[q].count
          + Holds(t \in NamesOf(q)) + Holds(Nil \in Protecting(q))
          + Holds(result = q) + Holds(held = q) + Holds(stmt.literal = q)
          + Occ(stack, ObjectFree(q)) + leaked[q]
        = obj[q].count
          + Holds(t \in NamesOf(q)') + Holds(Nil \in Protecting(q)')
          + Holds(result' = q) + Holds(held' = q) + Holds(stmt'.literal = q)
          + Occ(stack', ObjectFree(q)) + leaked'[q]
    BY <1>2, <2>2, <2>3, <2>4 DEF Holds
  <2> QED
    BY <1>1, <1>10, <2>1, <2>2, <2>5, CountStep DEF Counted
<1>13. ASSUME NEW q \in Refs PROVE InstancesAt(q)'
  <2>1. /\ Readers(q)' \ {c} = Readers(q) \ {c} /\ Assigners(q)' = Assigners(q)
        /\ c \in Readers(q) <=> q \in obj[c].refs
        /\ c \in Readers(q)' <=> q \in obj[c].refs /\ q # t
    BY <1>4, <1>8 DEF Readers, Assigners, LiveObjects
  <2>2. ref'[q].instances + Holds(c \in Readers(q))
          = ref[q].instances + Holds(c \in Readers(q)')
    <3>1. ref[q].instances \in Nat
      BY <1>1, RefTerms
    <3>2. CASE q = t
      BY <1>6, <1>7, <2>1, <3>1, <3>2 DEF Holds, own
    <3>3. CASE q # t
      BY <1>7, <2>1, <3>1, <3>3 DEF Holds
    <3> QED
      BY <3>2, <3>3
  <2>3. /\ ref[q].instances \in Nat /\ ref'[q].instances \in Nat
        /\ Occ(stack', RefFree(q)) = 0 /\ Occ(stack, RefFree(q)) = 0
    BY <1>1, <1>3, <1>7, <1>9, RefTerms DEF RefCells
  <2>4.   ref'[q].instances
          + Holds(c \in Readers(q)) + Holds(Nil \in Assigners(q))
          + Holds(q \in Linked) + Holds(stmt.target = q) + Holds(stmt.operand = q)
          + Occ(stack, RefFree(q))
        = ref[q].instances
          + Holds(c \in Readers(q)') + Holds(Nil \in Assigners(q)')
          + Holds(q \in Linked') + Holds(stmt'.target = q) + Holds(stmt'.operand = q)
          + Occ(stack', RefFree(q))
    BY <1>2, <1>11, <2>1, <2>2, <2>3 DEF Holds
  <2> QED
    BY <1>1, <1>10, <2>1, <2>4, InstanceStep DEF Counted
<1>14. Contents'
  <2>1. ASSUME NEW q \in Objects
        PROVE  obj'[q].refs \subseteq obj[q].refs
    BY <1>8
  <2> QED
    BY <1>1, <1>8, <2>1 DEF Contents
<1>15. Blank'
  BY <1>1, <1>4, <1>7, <1>8 DEF Blank, LiveObjects, LiveRefs
<1> QED
  BY <1>9, <1>10, <1>11, <1>12, <1>13, <1>14, <1>15 DEF IInv, Counted

LEMMA AssignKeeps ==
  ASSUME IInv, Assign
  PROVE  IInv'
BY AssignNothingKeeps, AssignValueKeeps

-----------------------------------------------------------------------------
(* A builtin function that alters its argument *)

\* Nothing else holds the argument: it is altered in place.
LEMMA AlterInPlaceKeeps ==
  ASSUME IInv, ExecuteAlter, obj[Value(stmt.operand)].count + 1 <= 2
  PROVE  IInv'
<1> DEFINE o == Value(stmt.operand)
<1>1. /\ Typed /\ Statement /\ Contents /\ Blank /\ Room
      /\ Lists /\ Releases /\ Binds /\ Clears /\ Counted
  BY DEF IInv
<1>2. /\ stack = <<>> /\ pc = "execute" /\ stmt.kind = "alter"
      /\ HasType(stmt.operand, "data") /\ pc' = Evaluated
      /\ UNCHANGED <<base, stmt, result, held, stack, leaked>>
  BY DEF ExecuteAlter, AlterAbove, Executing, Ready
<1>3. /\ result = Nil /\ held = Nil /\ stmt.operand # Nil /\ Binding = {}
  BY <1>1, <1>2, AtRest DEF Statement
<1>4. o \in LiveObjects /\ o \in Objects
  <2>1. stmt.operand \in LiveRefs
    BY <1>1, <1>3, Reached
  <2> QED
    BY <1>1, <1>2, <1>3, <2>1, Reached DEF HasType, Value, LiveObjects
<1>5. obj' = [obj EXCEPT ![o].value = 1 - @] /\ ref' = ref
  <2>1. obj[o].count \in Nat
    BY <1>1, <1>4, ObjectTerms
  <2>2. ~(obj[o].count + 1 > 2)
    BY <2>1
  <2> QED
    BY <2>2 DEF ExecuteAlter, AlterAbove
<1> HIDE DEF o
<1>6. /\ obj' \in [Objects -> ObjCells]
      /\ \A q \in Objects :
           /\ obj'[q].alive = obj[q].alive /\ obj'[q].type = obj[q].type
           /\ obj'[q].count = obj[q].count /\ obj'[q].refs = obj[q].refs
           /\ obj'[q].sets = obj[q].sets /\ obj'[q].objs = obj[q].objs
           /\ q # o => obj'[q] = obj[q]
  <2>1. obj[o] \in ObjCells
    BY <1>1, <1>4 DEF Typed
  <2>2. PICK k \in 0 .. 1 : k = 1 - obj[o].value
    BY <2>1 DEF ObjCells
  <2>3. PICK cell : cell = [obj[o] EXCEPT !.value = k]
    OBVIOUS
  <2>4. /\ cell \in ObjCells /\ cell.alive = obj[o].alive
        /\ cell.type = obj[o].type /\ cell.count = obj[o].count
        /\ cell.refs = obj[o].refs /\ cell.sets = obj[o].sets
        /\ cell.objs = obj[o].objs
    BY <2>1, <2>3 DEF ObjCells
  <2>5. obj' = [obj EXCEPT ![o] = cell]
    BY <1>5, <2>2, <2>3
  <2> QED
    BY <1>1, <1>4, <2>4, <2>5 DEF Typed
<1>7. Typed' /\ Statement' /\ Room'
  <2>1. Typed'
    BY <1>1, <1>2, <1>5, <1>6 DEF Typed, PCs, Evaluated
  <2>2. Statement' /\ Room'
    BY <1>1, <1>2, <1>3 DEF Statement, Room, Evaluated
  <2> QED
    BY <2>1, <2>2
<1>8. Linked' = Linked /\ Lists'
  BY <1>1, <1>2, <1>5, <1>7, ListsKept
<1>9. Releases' /\ Binds' /\ Clears' /\ Binding' = Binding
  BY <1>2, AtRest
<1>10. ASSUME NEW q \in Objects PROVE CountAt(q)'
  <2>1. NamesOf(q)' = NamesOf(q)
    BY <1>5, <1>9 DEF NamesOf, LiveRefs
  <2>2. Protecting(q)' = Protecting(q)
    BY <1>6 DEF Protecting, LiveObjects
  <2>3. obj'[q].count = obj[q].count
    BY <1>6
  <2> QED
    BY <1>1, <1>2, <2>1, <2>2, <2>3 DEF Counted, CountAt
<1>11. ASSUME NEW q \in Refs PROVE InstancesAt(q)'
  <2>1. Readers(q)' = Readers(q) /\ Assigners(q)' = Assigners(q)
    BY <1>6 DEF Readers, Assigners, LiveObjects
  <2> QED
    BY <1>1, <1>2, <1>5, <1>8, <2>1 DEF Counted, InstancesAt
<1>12. Contents' /\ Blank'
  BY <1>1, <1>4, <1>5, <1>6 DEF Contents, Blank, LiveObjects
<1> QED
  BY <1>7, <1>8, <1>9, <1>10, <1>11, <1>12 DEF IInv, Counted

\* Otherwise the name gets a copy, which protects what the argument protects.
LEMMA AlterCopyKeeps ==
  ASSUME IInv, ExecuteAlter, obj[Value(stmt.operand)].count + 1 > 2
  PROVE  IInv'
<1> DEFINE o == Value(stmt.operand)
           t == stmt.operand
           n == NewObj
           P == obj[o].objs
<1>1. /\ Typed /\ Statement /\ Contents /\ Blank /\ Room
      /\ Lists /\ Releases /\ Binds /\ Clears /\ Counted
  BY DEF IInv
<1>2. /\ stack = <<>> /\ pc = "execute" /\ stmt.kind = "alter"
      /\ HasType(t, "data") /\ pc' = Evaluated
      /\ obj' = [p \in Objects |->
                  CASE p = n -> [obj[o] EXCEPT !.count = 1, !.value = 1 - @]
                    [] p = o -> [obj[o] EXCEPT !.count = @ - 1]
                    [] p \in P -> [obj[p] EXCEPT !.count = @ + 1]
                    [] OTHER -> obj[p]]
      /\ ref' = [ref EXCEPT ![t].object = n]
      /\ UNCHANGED <<base, stmt, result, held, stack, leaked>>
  BY DEF ExecuteAlter, AlterAbove, Executing, Ready
<1>3. /\ result = Nil /\ held = Nil /\ t # Nil /\ Binding = {} /\ n \in Unused
  BY <1>1, <1>2, AtRest DEF Statement, Room, NewObj
<1>4. /\ t \in LiveRefs /\ t \in Refs /\ o \in LiveObjects /\ o \in Objects
      /\ o = ref[t].object /\ obj[o].type = "data"
  <2>1. t \in LiveRefs
    BY <1>1, <1>3, Reached
  <2> QED
    BY <1>1, <1>2, <1>3, <2>1, Reached DEF HasType, Value, LiveObjects, LiveRefs
<1>5. obj[o].count \in Nat /\ obj[o].count > 1
  <2>1. obj[o].count \in Nat /\ obj[o].count + 1 > 2
    BY <1>1, <1>4, ObjectTerms
  <2> HIDE DEF o
  <2> QED
    BY <2>1
<1>6. P \subseteq LiveObjects /\ o \notin P
  BY <1>1, <1>4, Reached DEF Contents
<1> HIDE DEF o, t, n
<1>7. /\ n \in Objects /\ n # Nil /\ ~obj[n].alive /\ obj[n].count = 0
      /\ n # o /\ n \notin P /\ NamesOf(n) = {}
      /\ \A q \in Objects : n \notin obj[q].objs
  BY <1>1, <1>2, <1>3, <1>4, NewObject DEF LiveObjects
<1>8. obj[o] \in ObjCells
  BY <1>1, <1>4 DEF Typed
<1>9. /\ obj'[n] \in ObjCells /\ obj'[n].alive /\ obj'[n].count = 1
      /\ obj'[n].refs = {} /\ obj'[n].sets = {} /\ obj'[n].objs = P
  <2>1. PICK k \in 0 .. 1 : k = 1 - obj[o].value
    BY <1>8 DEF ObjCells
  <2>2. obj'[n] = [obj[o] EXCEPT !.count = 1, !.value = k]
    BY <1>2, <1>7, <2>1
  <2>3. obj[o].alive /\ obj[o].refs = {} /\ obj[o].sets = {}
    BY <1>1, <1>4 DEF LiveObjects, Contents
  <2>4. PICK c \in ObjCells : c = obj[o]
    BY <1>8
  <2>5. PICK d : d = [c EXCEPT !.count = 1, !.value = k]
    OBVIOUS
  <2>6. /\ d \in ObjCells /\ d.alive = c.alive /\ d.count = 1
        /\ d.refs = c.refs /\ d.sets = c.sets /\ d.objs = c.objs
    BY <2>5 DEF ObjCells
  <2> QED
    BY <2>2, <2>3, <2>4, <2>5, <2>6
<1>10. ASSUME NEW q \in Objects \ {n}
       PROVE  /\ obj'[q] \in ObjCells
              /\ obj'[q].alive = obj[q].alive /\ obj'[q].type = obj[q].type
              /\ obj'[q].refs = obj[q].refs /\ obj'[q].sets = obj[q].sets
              /\ obj'[q].objs = obj[q].objs
              /\ obj'[q].count + Holds(q = o) = obj[q].count + Holds(q \in P)
              /\ ~obj[q].alive => obj'[q] = obj[q]
  <2>1. obj[q] \in ObjCells /\ obj[q].count \in Nat
    BY <1>1, ObjectTerms DEF Typed
  <2>2. CASE q = o
    <3>1. PICK k \in Nat : k = obj[o].count - 1
      BY <1>5
    <3>2. obj'[o] = [obj[o] EXCEPT !.count = k]
      BY <1>2, <1>4, <1>6, <1>7, <3>1
    <3>3. /\ obj'[o] \in ObjCells /\ obj'[o].alive = obj[o].alive
          /\ obj'[o].type = obj[o].type /\ obj'[o].refs = obj[o].refs
          /\ obj'[o].sets = obj[o].sets /\ obj'[o].objs = obj[o].objs
          /\ obj'[o].count = k
      BY <1>8, <3>2 DEF ObjCells
    <3>4. obj[o].alive
      BY <1>4 DEF LiveObjects
    <3> QED
      BY <1>5, <1>6, <2>2, <3>1, <3>3, <3>4 DEF Holds
  <2>3. CASE q # o /\ q \in P
    <3>1. PICK k \in Nat : k = obj[q].count + 1
      BY <2>1
    <3>2. obj'[q] = [obj[q] EXCEPT !.count = k]
      BY <1>2, <2>3, <3>1
    <3>3. /\ obj'[q] \in ObjCells /\ obj'[q].alive = obj[q].alive
          /\ obj'[q].type = obj[q].type /\ obj'[q].refs = obj[q].refs
          /\ obj'[q].sets = obj[q].sets /\ obj'[q].objs = obj[q].objs
          /\ obj'[q].count = k
      BY <2>1, <3>2 DEF ObjCells
    <3>4. obj[q].alive
      BY <1>6, <2>3 DEF LiveObjects
    <3> QED
      BY <2>1, <2>3, <3>1, <3>3, <3>4 DEF Holds
  <2>4. CASE q # o /\ q \notin P
    BY <1>2, <2>1, <2>4 DEF Holds
  <2> QED
    BY <2>2, <2>3, <2>4
<1>11. /\ ref' \in [Refs -> RefCells]
       /\ \A q \in Refs :
            /\ ref'[q].alive = ref[q].alive /\ ref'[q].next = ref[q].next
            /\ ref'[q].instances = ref[q].instances
            /\ q # t => ref'[q] = ref[q]
       /\ ref'[t].object = n
  <2>1. ref[t] \in RefCells
    BY <1>1, <1>4 DEF Typed
  <2>2. PICK cell : cell = [ref[t] EXCEPT !.object = n]
    OBVIOUS
  <2>3. /\ cell \in RefCells /\ cell.alive = ref[t].alive
        /\ cell.next = ref[t].next /\ cell.instances = ref[t].instances
        /\ cell.object = n
    BY <1>7, <2>1, <2>2 DEF RefCells
  <2>4. ref' = [ref EXCEPT ![t] = cell]
    BY <1>2, <2>2
  <2> QED
    BY <1>1, <1>4, <2>3, <2>4 DEF Typed
<1>12. Typed' /\ Statement' /\ Room'
  <2>1. obj' \in [Objects -> ObjCells]
    BY <1>2, <1>9, <1>10
  <2>2. Typed'
    BY <1>1, <1>2, <1>11, <2>1 DEF Typed, PCs, Evaluated
  <2>3. Statement' /\ Room'
    BY <1>1, <1>2, <1>3 DEF Statement, Room, Evaluated
  <2> QED
    BY <2>2, <2>3
<1>13. Linked' = Linked /\ Lists'
  <2>1. \A q \in Linked : ref'[q].next = ref[q].next
    BY <1>1, <1>11, LinkedIs DEF LinkedLeast
  <2> QED
    BY <1>1, <1>2, <1>12, <2>1, ListsKept
<1>14. /\ Releases' /\ Binds' /\ Clears' /\ Binding' = Binding
       /\ \A c : Occ(stack', c) = Occ(stack, c)
  BY <1>2, AtRest
<1>15. /\ \A q : /\ Protecting(q)' \ {n} = Protecting(q) \ {n}
                 /\ n \notin Protecting(q)
                 /\ n \in Protecting(q)' <=> q \in P
       /\ \A r : /\ Readers(r)' \ {n} = Readers(r) \ {n}
                 /\ n \notin Readers(r) /\ n \notin Readers(r)'
       /\ \A r : /\ Assigners(r)' \ {n} = Assigners(r) \ {n}
                 /\ n \notin Assigners(r) /\ n \notin Assigners(r)'
  <2>1. \A q \in Objects \ {n} :
          /\ obj'[q].refs = obj[q].refs /\ obj'[q].sets = obj[q].sets
          /\ obj'[q].objs = obj[q].objs /\ (obj'[q].alive <=> obj[q].alive)
    BY <1>10
  <2> QED
    BY <1>7, <1>9, <2>1, Created
<1>16. ASSUME NEW q \in Objects PROVE CountAt(q)'
  <2>1. /\ NamesOf(q)' \ {t} = NamesOf(q) \ {t}
        /\ t \in NamesOf(q) <=> q = o
        /\ t \in NamesOf(q)' <=> q = n
    BY <1>3, <1>4, <1>11, <1>14 DEF NamesOf, LiveRefs
  <2>2. /\ Holds(t \in NamesOf(q)) = Holds(q = o) /\ Holds(t \in NamesOf(q)') = Holds(q = n)
        /\ Holds(n \in Protecting(q)) = 0
        /\ Holds(n \in Protecting(q)') = Holds(q \in P)
    BY <1>15, <2>1 DEF Holds
  <2>3. /\ obj[q].count \in Nat /\ leaked[q] \in Nat /\ leaked' = leaked
        /\ obj'[q].count \in Nat
        /\ Occ(stack', ObjectFree(q)) = Occ(stack, ObjectFree(q))
        /\ Occ(stack, ObjectFree(q)) \in Nat
    <3>1. obj'[q] \in ObjCells
      BY <1>9, <1>10
    <3>2. obj'[q].count \in Nat
      BY <3>1 DEF ObjCells
    <3> QED
      BY <1>1, <1>2, <1>14, <3>2, ObjectTerms
  <2>4. obj'[q].count + Holds(q = o) = obj[q].count + Holds(q \in P) + Holds(q = n)
    <3>1. CASE q = n
      BY <1>7, <1>9, <3>1 DEF Holds
    <3>2. CASE q # n
      <4>1. obj'[q].count + Holds(q = o) = obj[q].count + Holds(q \in P)
        BY <1>10, <3>2
      <4> QED
        BY <2>3, <3>2, <4>1 DEF Holds
    <3> QED
      BY <3>1, <3>2
  <2>5.   obj'[q].count
          + Holds(t \in NamesOf(q)) + Holds(n \in Protecting(q))
          + Holds(result = q) + Holds(held = q) + Holds(stmt.literal = q)
          + Occ(stack, ObjectFree(q)) + leaked[q]
        = obj[q].count
          + Holds(t \in NamesOf(q)') + Holds(n \in Protecting(q)')
          + Holds(result' = q) + Holds(held' = q) + Holds(stmt'.literal = q)
          + Occ(stack', ObjectFree(q)) + leaked'[q]
    BY <1>2, <2>2, <2>3, <2>4 DEF Holds
  <2> QED
    BY <1>1, <1>12, <1>15, <2>1, <2>5, CountStep DEF Counted
<1>17. ASSUME NEW r \in Refs PROVE InstancesAt(r)'
  <2>1. /\ ref'[r].instances = ref[r].instances /\ ref[r].instances \in Nat
        /\ Occ(stack', RefFree(r)) = Occ(stack, RefFree(r))
        /\ Occ(stack, RefFree(r)) \in Nat
    BY <1>1, <1>11, <1>14, RefTerms
  <2>2.   ref'[r].instances
          + Holds(n \in Readers(r)) + Holds(n \in Assigners(r))
          + Holds(r \in Linked) + Holds(stmt.target = r) + Holds(stmt.operand = r)
          + Occ(stack, RefFree(r))
        = ref[r].instances
          + Holds(n \in Readers(r)') + Holds(n \in Assigners(r)')
          + Holds(r \in Linked') + Holds(stmt'.target = r) + Holds(stmt'.operand = r)
          + Occ(stack', RefFree(r))
    BY <1>2, <1>13, <1>15, <2>1 DEF Holds
  <2> QED
    BY <1>1, <1>12, <1>15, <2>2, InstanceStep DEF Counted
<1>18. Contents'
  BY <1>1, <1>7, <1>9, <1>10 DEF Contents
<1>19. Blank'
  <2>1. \A q \in Refs : ~ref'[q].alive => ref'[q] = FreeRef
    BY <1>1, <1>4, <1>11 DEF Blank, LiveRefs
  <2>2. \A q \in Objects : ~obj'[q].alive => obj'[q] = FreeObj
    BY <1>1, <1>9, <1>10 DEF Blank
  <2> QED
    BY <2>1, <2>2 DEF Blank
<1> QED
  BY <1>12, <1>13, <1>14, <1>16, <1>17, <1>18, <1>19 DEF IInv, Counted

LEMMA ExecuteAlterKeeps ==
  ASSUME IInv, ExecuteAlter
  PROVE  IInv'
<1>1. obj[Value(stmt.operand)].count \in Nat
  <2>1. Typed /\ Statement /\ Blank /\ Room /\ Counted
    BY DEF IInv
  <2>2. Value(stmt.operand) \in Objects
    <3>1. stmt.operand # Nil /\ Value(stmt.operand) # Nil
      BY <2>1 DEF ExecuteAlter, AlterAbove, Executing, HasType, Statement
    <3>2. stmt.operand \in Refs
      BY <2>1, <3>1 DEF Typed, Stmts
    <3> QED
      BY <2>1, <3>1, <3>2 DEF Typed, RefCells, Value
  <2> QED
    BY <2>1, <2>2, ObjectTerms
<1> QED
  BY <1>1, AlterInPlaceKeeps, AlterCopyKeeps

-----------------------------------------------------------------------------
(* The end of a statement, and names forgotten *)

AreFrees(s) == s \in Seq(CallsTo) /\ \A k \in DOMAIN s : s[k].op \in Frees

LEMMA FreesConcat ==
  ASSUME NEW s, NEW t, AreFrees(s), AreFrees(t)
  PROVE  /\ AreFrees(s \o t)
         /\ \A c : Occ(s \o t, c) = Occ(s, c) + Occ(t, c)
<1>1. s \in Seq(CallsTo) /\ t \in Seq(CallsTo)
  BY DEF AreFrees
<1>2. /\ s \o t \in Seq(CallsTo)
      /\ \A k \in DOMAIN (s \o t) :
           \/ k \in DOMAIN s /\ (s \o t)[k] = s[k]
           \/ \E l \in DOMAIN t : k = Len(s) + l /\ (s \o t)[k] = t[l]
  BY <1>1, ConcatElements
<1>3. AreFrees(s \o t)
  BY <1>2 DEF AreFrees
<1> QED
  BY <1>1, <1>3, OccConcat

LEMMA ReleaseStatementKeeps ==
  ASSUME IInv, ReleaseStatement
  PROVE  IInv'
<1> DEFINE a == FreeIfAny(result)
           b == RefFreeIfAny(stmt.target)
           c == FreeIfAny(stmt.literal)
           d == RefFreeIfAny(stmt.operand)
<1>1. /\ Typed /\ Statement /\ Contents /\ Blank /\ Room
      /\ Lists /\ Releases /\ Binds /\ Clears /\ Counted
  BY DEF IInv
<1>2. /\ stack = <<>> /\ pc = "release" /\ stack' = a \o b \o c \o d
      /\ stmt' = NoStmt /\ result' = Nil /\ pc' = "idle"
      /\ UNCHANGED <<base, ref, obj, held, leaked>>
  BY DEF ReleaseStatement, Ready
<1>3. /\ result \in Objects \cup {Nil} /\ stmt.literal \in Objects \cup {Nil}
      /\ stmt.target \in Refs \cup {Nil} /\ stmt.operand \in Refs \cup {Nil}
  BY <1>1 DEF Typed, Stmts
<1>4. /\ AreFrees(a) /\ AreFrees(b) /\ AreFrees(c) /\ AreFrees(d)
      /\ \A q \in Objects :
           /\ Occ(a, ObjectFree(q)) = Holds(q = result)
           /\ Occ(b, ObjectFree(q)) = 0
           /\ Occ(c, ObjectFree(q)) = Holds(q = stmt.literal)
           /\ Occ(d, ObjectFree(q)) = 0
      /\ \A q \in Refs :
           /\ Occ(a, RefFree(q)) = 0
           /\ Occ(b, RefFree(q)) = Holds(q = stmt.target)
           /\ Occ(c, RefFree(q)) = 0
           /\ Occ(d, RefFree(q)) = Holds(q = stmt.operand)
  <2>1. /\ \A q : ObjectFree(q).op \in Frees
        /\ \A q : RefFree(q).op \in Frees
    BY DEF ObjectFree, RefFree, Frees
  <2> QED
    BY <1>3, <2>1, FreeCall, RefFreeCall DEF AreFrees
<1> HIDE DEF a, b, c, d
<1> DEFINE ab == a \o b
           abc == ab \o c
<1>5. AreFrees(ab) /\ \A e : Occ(ab, e) = Occ(a, e) + Occ(b, e)
  BY <1>4, FreesConcat
<1> HIDE DEF ab
<1>6. AreFrees(abc) /\ \A e : Occ(abc, e) = Occ(ab, e) + Occ(c, e)
  BY <1>4, <1>5, FreesConcat
<1> HIDE DEF abc
<1>7. AreFrees(stack') /\ \A e : Occ(stack', e) = Occ(abc, e) + Occ(d, e)
  <2>1. stack' = abc \o d
    BY <1>2 DEF ab, abc
  <2> QED
    BY <1>4, <1>6, <2>1, FreesConcat
<1>8. /\ \A q \in Objects :
           Occ(stack', ObjectFree(q)) = Holds(q = result) + Holds(q = stmt.literal)
      /\ \A q \in Refs :
           Occ(stack', RefFree(q)) = Holds(q = stmt.target) + Holds(q = stmt.operand)
  BY <1>4, <1>5, <1>6, <1>7 DEF Holds
<1>9. \A e : Occ(stack, e) = 0
  BY <1>2, AtRest
<1>10. Typed' /\ Statement' /\ Room'
  <2>1. NoStmt \in Stmts
    BY DEF NoStmt, Stmts, Kinds
  <2>2. Typed'
    BY <1>1, <1>2, <1>7, <2>1 DEF Typed, PCs, AreFrees
  <2>3. Statement' /\ Room'
    BY <1>1, <1>2 DEF Statement, Room
  <2> QED
    BY <2>2, <2>3
<1>11. Linked' = Linked /\ Lists'
  BY <1>1, <1>2, <1>10, ListsKept
<1>12. /\ Releases' /\ Binds' /\ Clears' /\ Binding' = Binding
  <2>1. \A k \in DOMAIN stack' : stack'[k].op \in {"ref_free", "object_free"}
    BY <1>7 DEF AreFrees, Frees
  <2> QED
    BY <1>2, <2>1, OnlyFrees, AtRest
<1>13. ASSUME NEW q \in Objects PROVE CountAt(q)'
  <2>1. NamesOf(q)' = NamesOf(q)
    BY <1>2, <1>12 DEF NamesOf, LiveRefs
  <2>2. Protecting(q)' = Protecting(q)
    BY <1>2 DEF Protecting, LiveObjects
  <2>3. /\ obj[q].count \in Nat /\ leaked[q] \in Nat /\ q # Nil
        /\ obj'[q] = obj[q] /\ leaked' = leaked
    BY <1>1, <1>2, ObjectTerms, ReferencesAssumption
  <2>4. /\ Occ(stack, ObjectFree(q)) = 0
        /\ Occ(stack', ObjectFree(q)) = Holds(q = result) + Holds(q = stmt.literal)
        /\ Holds(result' = q) = 0 /\ Holds(stmt'.literal = q) = 0
        /\ Holds(held' = q) = Holds(held = q)
        /\ Holds(q = result) = Holds(result = q)
        /\ Holds(q = stmt.literal) = Holds(stmt.literal = q)
    BY <1>2, <1>8, <1>9, <2>3 DEF Holds, NoStmt
  <2>5.   obj'[q].count
          + Holds(Nil \in NamesOf(q)) + Holds(Nil \in Protecting(q))
          + Holds(result = q) + Holds(held = q) + Holds(stmt.literal = q)
          + Occ(stack, ObjectFree(q)) + leaked[q]
        = obj[q].count
          + Holds(Nil \in NamesOf(q)') + Holds(Nil \in Protecting(q)')
          + Holds(result' = q) + Holds(held' = q) + Holds(stmt'.literal = q)
          + Occ(stack', ObjectFree(q)) + leaked'[q]
    BY <2>1, <2>2, <2>3, <2>4 DEF Holds
  <2> QED
    BY <1>1, <1>10, <2>1, <2>2, <2>5, CountStep DEF Counted
<1>14. ASSUME NEW q \in Refs PROVE InstancesAt(q)'
  <2>1. Readers(q)' = Readers(q) /\ Assigners(q)' = Assigners(q)
    BY <1>2 DEF Readers, Assigners, LiveObjects
  <2>2. /\ ref[q].instances \in Nat /\ q # Nil /\ ref' = ref
        /\ Occ(stack, RefFree(q)) = 0
    BY <1>1, <1>2, <1>9, RefTerms, ReferencesAssumption
  <2>3. /\ Occ(stack', RefFree(q)) = Holds(q = stmt.target) + Holds(q = stmt.operand)
        /\ Holds(stmt'.target = q) = 0 /\ Holds(stmt'.operand = q) = 0
        /\ Holds(q = stmt.target) = Holds(stmt.target = q)
        /\ Holds(q = stmt.operand) = Holds(stmt.operand = q)
    BY <1>2, <1>8, <2>2 DEF Holds, NoStmt
  <2>4.   ref'[q].instances
          + Holds(Nil \in Readers(q)) + Holds(Nil \in Assigners(q))
          + Holds(q \in Linked) + Holds(stmt.target = q) + Holds(stmt.operand = q)
          + Occ(stack, RefFree(q))
        = ref[q].instances
          + Holds(Nil \in Readers(q)') + Holds(Nil \in Assigners(q)')
          + Holds(q \in Linked') + Holds(stmt'.target = q) + Holds(stmt'.operand = q)
          + Occ(stack', RefFree(q))
    BY <1>11, <2>1, <2>2, <2>3 DEF Holds
  <2> QED
    BY <1>1, <1>10, <2>1, <2>4, InstanceStep DEF Counted
<1>15. Contents' /\ Blank'
  BY <1>1, <1>2 DEF Contents, Blank
<1> QED
  BY <1>10, <1>11, <1>12, <1>13, <1>14, <1>15 DEF IInv, Counted

\* Only the first name of a bucket is cleared.
LEMMA ClearKeeps ==
  ASSUME IInv, ~ClearInChains, NEW n \in Names, Clear(n)
  PROVE  IInv'
<1> DEFINE r == Lookup(n)
           b == Bucket[n]
<1>1. /\ Typed /\ Statement /\ Contents /\ Blank /\ Room
      /\ Lists /\ Releases /\ Binds /\ Clears /\ Counted
  BY DEF IInv
<1>2. /\ stack = <<>> /\ pc = "idle" /\ r # Nil /\ r = base[b] /\ Unlink(r)
      /\ stack' = <<RefFree(r)>>
      /\ UNCHANGED <<obj, pc, stmt, result, held, leaked>>
  BY DEF Clear, Ready
<1>3. r \in Refs /\ ref[r].name = n /\ r \in Linked
  BY <1>1, <1>2, Found, FoundLive
<1>4. base' = [base EXCEPT ![b] = ref[r].next] /\ ref' = ref
  BY <1>2, <1>3 DEF Unlink
<1> HIDE DEF r
<1>5. b \in Buckets
  BY ReferencesAssumption
<1>6. stack' \in Seq(CallsTo) /\ DOMAIN stack' = {1} /\ stack'[1] = RefFree(r)
  BY <1>2, <1>3 DEF CallsTo
<1>7. Typed'
  <2>1. ref[r].next \in Refs \cup {Nil}
    BY <1>1, <1>3 DEF Typed, RefCells
  <2> QED
    BY <1>1, <1>2, <1>4, <1>5, <1>6, <2>1 DEF Typed
<1>8. Linked' = Linked \ {r} /\ Lists'
  BY <1>1, <1>2, <1>4, <1>5, <1>7, ListsUnlink
<1>9. /\ Releases' /\ Binds' /\ Clears' /\ Binding' = Binding
  <2>1. \A k \in DOMAIN stack' : stack'[k].op \in {"ref_free", "object_free"}
    BY <1>6 DEF RefFree
  <2> QED
    BY <1>2, <2>1, OnlyFrees, AtRest
<1>10. /\ \A q \in Refs : Occ(stack', RefFree(q)) = Holds(q = r) /\ Occ(stack, RefFree(q)) = 0
       /\ \A q \in Objects : Occ(stack', ObjectFree(q)) = 0 /\ Occ(stack, ObjectFree(q)) = 0
  <2>1. /\ \A q : RefFree(q) = RefFree(r) <=> q = r
        /\ \A q : ObjectFree(q) # RefFree(r)
    BY DEF RefFree, ObjectFree
  <2> QED
    BY <1>2, <2>1, OccOne, AtRest DEF Holds
<1>11. ASSUME NEW q \in Objects PROVE CountAt(q)'
  <2>1. NamesOf(q)' = NamesOf(q)
    BY <1>4, <1>9 DEF NamesOf, LiveRefs
  <2>2. Protecting(q)' = Protecting(q)
    BY <1>2 DEF Protecting, LiveObjects
  <2>3. Occ(stack', ObjectFree(q)) = Occ(stack, ObjectFree(q))
    BY <1>10
  <2> QED
    BY <1>1, <1>2, <2>1, <2>2, <2>3 DEF Counted, CountAt
<1>12. ASSUME NEW q \in Refs PROVE InstancesAt(q)'
  <2>1. Readers(q)' = Readers(q) /\ Assigners(q)' = Assigners(q)
    BY <1>2 DEF Readers, Assigners, LiveObjects
  <2>2. ref[q].instances \in Nat
    BY <1>1, RefTerms
  <2>3. Holds(q \in Linked') + Occ(stack', RefFree(q)) = Holds(q \in Linked)
    BY <1>3, <1>8, <1>10 DEF Holds
  <2>4. Occ(stack, RefFree(q)) = 0 /\ Occ(stack', RefFree(q)) \in Nat
    BY <1>10 DEF Holds
  <2>5.   ref'[q].instances
          + Holds(Nil \in Readers(q)) + Holds(Nil \in Assigners(q))
          + Holds(q \in Linked) + Holds(stmt.target = q) + Holds(stmt.operand = q)
          + Occ(stack, RefFree(q))
        = ref[q].instances
          + Holds(Nil \in Readers(q)') + Holds(Nil \in Assigners(q)')
          + Holds(q \in Linked') + Holds(stmt'.target = q) + Holds(stmt'.operand = q)
          + Occ(stack', RefFree(q))
    BY <1>2, <1>4, <2>1, <2>2, <2>3, <2>4 DEF Holds
  <2> QED
    BY <1>1, <1>7, <2>1, <2>5, InstanceStep DEF Counted
<1>13. Statement' /\ Room' /\ Contents' /\ Blank'
  BY <1>1, <1>2, <1>4 DEF Statement, Room, Contents, Blank
<1> QED
  BY <1>7, <1>8, <1>9, <1>11, <1>12, <1>13 DEF IInv, Counted

LEMMA ClearAllKeeps ==
  ASSUME IInv, ClearAll
  PROVE  IInv'
<1> DEFINE codes == {r \in Linked : HasType(r, "code")}
           N == Cardinality(codes)
           g == SetToSeq(codes)
           a == [k \in 1 .. N |-> RemoveRef(Value(g[k]))]
<1>1. /\ Typed /\ Statement /\ Contents /\ Blank /\ Room
      /\ Lists /\ Releases /\ Binds /\ Clears /\ Counted
  BY DEF IInv
<1>2. /\ stack = <<>> /\ pc = "idle" /\ stack' = a \o <<DbFree>>
      /\ UNCHANGED <<base, ref, obj, pc, stmt, result, held, leaked>>
  BY DEF ClearAll, Ready
<1>3. \A r \in codes : r \in Linked /\ Value(r) \in Objects
  <2>1. Linked \subseteq Refs
    BY <1>1, Reached DEF LiveRefs
  <2> QED
    BY <1>1, <2>1 DEF HasType, Value, Typed, RefCells
<1>4. N \in Nat /\ g \in [1 .. N -> codes]
  <2>1. codes \subseteq Refs
    BY <1>1, Reached DEF LiveRefs
  <2>2. IsFiniteSet(codes)
    BY <2>1, FS_Subset, ReferencesAssumption
  <2> HIDE DEF codes
  <2> QED
    BY <2>2, Numbering
<1> HIDE DEF codes, N, g
<1>5. /\ a \in Seq(CallsTo) /\ DOMAIN a = 1 .. N
      /\ \A k \in DOMAIN a : \E r \in Linked : a[k] = RemoveRef(Value(r))
  <2>1. \A k \in 1 .. N : RemoveRef(Value(g[k])) \in CallsTo
    BY <1>3, <1>4 DEF CallsTo
  <2>2. \A k \in 1 .. N : g[k] \in Linked
    BY <1>3, <1>4
  <2> QED
    BY <1>4, <2>1, <2>2
<1>6. /\ <<DbFree>> \in Seq(CallsTo) /\ DOMAIN <<DbFree>> = {1}
      /\ <<DbFree>>[1] = DbFree /\ Len(<<DbFree>>) = 1
  BY DEF CallsTo
<1> HIDE DEF a
<1>7. /\ stack' \in Seq(CallsTo) /\ Len(stack') = Len(a) + 1 /\ Len(a) \in Nat
      /\ \A k \in DOMAIN stack' :
           \/ \E r \in Linked : stack'[k] = RemoveRef(Value(r))
           \/ k = Len(stack') /\ stack'[k] = DbFree
  <2> DEFINE b == <<DbFree>>
  <2>1. a \in Seq(CallsTo) /\ b \in Seq(CallsTo)
    BY <1>5, <1>6
  <2>2. Len(b) = 1 /\ DOMAIN b = {1} /\ b[1] = DbFree /\ stack' = a \o b
    BY <1>2, <1>6
  <2> HIDE DEF b
  <2>3. /\ a \o b \in Seq(CallsTo) /\ Len(a \o b) = Len(a) + Len(b)
        /\ Len(a) \in Nat /\ Len(b) \in Nat
        /\ \A k \in DOMAIN (a \o b) :
             \/ k \in DOMAIN a /\ (a \o b)[k] = a[k]
             \/ \E l \in DOMAIN b : k = Len(a) + l /\ (a \o b)[k] = b[l]
    BY <2>1, ConcatElements
  <2> QED
    BY <1>5, <2>2, <2>3
<1>8. /\ Releases' /\ Binds' /\ Binding' = {}
  <2>1. \A k \in DOMAIN stack' : stack'[k].op \in {"remove_ref", "db_free"}
    BY <1>7 DEF RemoveRef, DbFree
  <2> QED
    BY <2>1 DEF Releases, Binds, Binding
<1>9. Typed' /\ Statement' /\ Room' /\ Contents' /\ Blank'
  BY <1>1, <1>2, <1>7 DEF Typed, Statement, Room, Contents, Blank
<1>10. Linked' = Linked /\ Lists'
  BY <1>1, <1>2, <1>9, ListsKept
<1>11. Clears'
  <2>1. ASSUME NEW k \in DOMAIN stack'
        PROVE  /\ stack'[k].op \in {"remove_ref", "db_free"} => pc' = "idle"
               /\ stack'[k].op = "remove_ref" =>
                    \E r \in Linked' : ref'[r].object = stack'[k].object
               /\ stack'[k].op = "db_free" => k = Len(stack')
    <3>1. CASE \E r \in Linked : stack'[k] = RemoveRef(Value(r))
      BY <1>2, <1>10, <3>1 DEF RemoveRef, Value
    <3>2. CASE k = Len(stack') /\ stack'[k] = DbFree
      BY <1>2, <3>2 DEF DbFree
    <3> QED
      BY <1>7, <3>1, <3>2
  <2> QED
    BY <2>1 DEF Clears
<1>12. /\ \A q : Occ(stack', RefFree(q)) = 0 /\ Occ(stack, RefFree(q)) = 0
       /\ \A q : Occ(stack', ObjectFree(q)) = 0 /\ Occ(stack, ObjectFree(q)) = 0
       /\ Binding = {}
  <2>1. \A q : \A k \in DOMAIN stack' :
             stack'[k] # RefFree(q) /\ stack'[k] # ObjectFree(q)
    BY <1>7 DEF RemoveRef, DbFree, RefFree, ObjectFree
  <2>2. \A q : Occ(stack', RefFree(q)) = 0 /\ Occ(stack', ObjectFree(q)) = 0
    <3>1. ASSUME NEW c, \A k \in DOMAIN stack' : stack'[k] # c
          PROVE  Occ(stack', c) = 0
      BY <1>7, <3>1, OccNat
    <3> QED
      BY <2>1, <3>1
  <2> QED
    BY <1>2, <2>2, AtRest
<1>13. ASSUME NEW q \in Objects PROVE CountAt(q)'
  <2>1. NamesOf(q)' = NamesOf(q) /\ Protecting(q)' = Protecting(q)
    BY <1>2, <1>8, <1>12 DEF NamesOf, Protecting, LiveRefs, LiveObjects
  <2>2. Occ(stack', ObjectFree(q)) = Occ(stack, ObjectFree(q))
    BY <1>12
  <2> QED
    BY <1>1, <1>2, <2>1, <2>2 DEF Counted, CountAt
<1>14. ASSUME NEW q \in Refs PROVE InstancesAt(q)'
  <2>1. Readers(q)' = Readers(q) /\ Assigners(q)' = Assigners(q)
    BY <1>2 DEF Readers, Assigners, LiveObjects
  <2>2. Occ(stack', RefFree(q)) = Occ(stack, RefFree(q))
    BY <1>12
  <2> QED
    BY <1>1, <1>2, <1>10, <2>1, <2>2 DEF Counted, InstancesAt
<1> QED
  BY <1>8, <1>9, <1>10, <1>11, <1>13, <1>14 DEF IInv, Counted

-----------------------------------------------------------------------------
(* The invariant, and the three theorems on counts *)

LEMMA InitHolds == Init => IInv
<1> SUFFICES ASSUME Init PROVE IInv
  OBVIOUS
<1>1. /\ base = [b \in Buckets |-> Nil]
      /\ ref = [r \in Refs |-> FreeRef]
      /\ obj = [o \in Objects |-> FreeObj]
      /\ pc = "idle" /\ stmt = NoStmt /\ result = Nil /\ held = Nil /\ stack = <<>>
      /\ leaked = [o \in Objects |-> 0]
  BY DEF Init
<1>2. /\ FreeRef \in RefCells /\ FreeRef.alive = FALSE /\ FreeRef.instances = 0
      /\ NoStmt \in Stmts /\ NoStmt.target = Nil /\ NoStmt.operand = Nil
      /\ NoStmt.literal = Nil
  BY DEF FreeRef, RefCells, NoStmt, Stmts, Kinds
<1>3. Typed
  <2>1. /\ ref \in [Refs -> RefCells] /\ obj \in [Objects -> ObjCells]
        /\ base \in [Buckets -> Refs \cup {Nil}] /\ leaked \in [Objects -> Nat]
    BY <1>1, <1>2, NewCells
  <2>2. stack \in Seq(CallsTo)
    BY <1>1
  <2> QED
    BY <1>1, <1>2, <2>1, <2>2 DEF Typed, PCs
<1>4. Linked = {}
  <2>1. LinkedLeast
    BY <1>3, LinkedIs
  <2> QED
    <3>1. {} \in SUBSET Refs /\ \A b \in Buckets : base[b] = Nil
      BY <1>1
    <3> QED
      BY <2>1, <3>1 DEF LinkedLeast
<1>5. Lists
  BY <1>1, <1>4 DEF Lists
<1>6. LiveRefs = {} /\ LiveObjects = {}
  BY <1>1, <1>2, NewCells DEF LiveRefs, LiveObjects
<1>7. \A c : Occ(stack, c) = 0
  BY <1>1, AtRest
<1>8. ASSUME NEW o \in Objects PROVE CountAt(o)
  <2>1. NamesOf(o) = {} /\ Protecting(o) = {}
    BY <1>6 DEF NamesOf, Protecting
  <2>2. /\ obj[o].count = 0 /\ leaked[o] = 0 /\ Occ(stack, ObjectFree(o)) = 0
        /\ result # o /\ held # o /\ stmt.literal # o
    BY <1>1, <1>2, <1>7, NewCells, ReferencesAssumption
  <2> QED
    BY <2>1, <2>2, FS_EmptySet DEF CountAt, Holds
<1>9. ASSUME NEW r \in Refs PROVE InstancesAt(r)
  <2>1. Readers(r) = {} /\ Assigners(r) = {}
    BY <1>6 DEF Readers, Assigners
  <2>2. /\ ref[r].instances = 0 /\ r \notin Linked /\ Occ(stack, RefFree(r)) = 0
        /\ stmt.target # r /\ stmt.operand # r
    BY <1>1, <1>2, <1>4, <1>7, ReferencesAssumption
  <2> QED
    BY <2>1, <2>2, FS_EmptySet DEF InstancesAt, Holds
<1>10. Statement /\ Room
  BY <1>1, <1>2 DEF Statement, Room
<1>11. Contents /\ Blank
  BY <1>1, NewCells DEF Contents, Blank
<1>12. Releases /\ Binds /\ Clears
  BY <1>1 DEF Releases, Binds, Clears
<1> QED
  BY <1>3, <1>5, <1>8, <1>9, <1>10, <1>11, <1>12 DEF IInv, Counted

\* One case per action.
LEMMA NextKeeps ==
  ASSUME ~ClearInChains, IInv, [Next]_vars
  PROVE  IInv'
<1>1. ASSUME Read PROVE IInv'
  <2>1. ASSUME NEW n \in Names, Lvalue(n) PROVE IInv'
    BY <2>1, LvalueFoundKeeps, LvalueNewKeeps
  <2>2. ASSUME NEW n \in Names, FunctionReturns(n) PROVE IInv'
    BY <2>2, FunctionReturnsKeeps
  <2>3. ASSUME NEW n \in Names, FunctionAssigns(n) PROVE IInv'
    BY <2>3, FunctionAssignsKeeps
  <2>4. ASSUME NEW n \in Names, NEW kind \in {"name", "call", "apply", "alter"},
               Operand(n, kind)
        PROVE  IInv'
    BY <2>4, OperandKeeps
  <2>5. CASE Constant
    BY <2>5, ConstantKeeps
  <2>6. CASE SyntaxError
    BY <2>6, SyntaxErrorKeeps
  <2> QED
    BY <1>1, <2>1, <2>2, <2>3, <2>4, <2>5, <2>6 DEF Read
<1>2. ASSUME Execute PROVE IInv'
  BY <1>2, ExecuteLeafKeeps, ExecuteErrorKeeps, ExecuteApplyKeeps, ExecuteAlterKeeps,
     ExecuteCallKeeps, BodyReturnsKeeps, BodyAssignsKeeps, BodyRecursKeeps,
     ReturnKeeps, AssignKeeps, ReleaseStatementKeeps DEF Execute
<1>3. ASSUME Forget PROVE IInv'
  BY <1>3, ClearAllKeeps, ClearKeeps DEF Forget
<1>4. ASSUME Destroy PROVE IInv'
  BY <1>4, CallRefFreeKeeps, CallObjectFreeKeeps, CallReleaseKeeps, CallBindKeeps,
     CallRemoveRefKeeps, CallDbFreeKeeps DEF Destroy
<1>5. ASSUME UNCHANGED vars PROVE IInv'
  <2>1. /\ UNCHANGED <<base, ref, obj, pc, stmt, result, held, stack, leaked>>
        /\ Typed /\ Statement /\ Contents /\ Blank /\ Room
        /\ Lists /\ Releases /\ Binds /\ Clears /\ Counted
    BY <1>5 DEF vars, IInv
  <2>2. Typed' /\ Statement' /\ Contents' /\ Blank' /\ Room' /\ Releases' /\ Binds'
    BY <2>1 DEF Typed, Statement, Contents, Blank, Room, Unused, Recursive, Releases,
                Spent, Binds
  <2>3. Linked' = Linked /\ Lists'
    BY <2>1, <2>2, ListsKept
  <2>4. Clears'
    BY <2>1, <2>3 DEF Clears
  <2>5. ASSUME NEW o \in Objects PROVE CountAt(o)'
    <3>1. NamesOf(o)' = NamesOf(o) /\ Protecting(o)' = Protecting(o)
      BY <2>1 DEF NamesOf, Protecting, LiveRefs, LiveObjects, Binding
    <3> QED
      BY <2>1, <3>1 DEF Counted, CountAt
  <2>6. ASSUME NEW r \in Refs PROVE InstancesAt(r)'
    <3>1. Readers(r)' = Readers(r) /\ Assigners(r)' = Assigners(r)
      BY <2>1 DEF Readers, Assigners, LiveObjects
    <3> QED
      BY <2>1, <2>3, <3>1 DEF Counted, InstancesAt
  <2> QED
    BY <2>2, <2>3, <2>4, <2>5, <2>6 DEF IInv, Counted
<1> QED
  BY <1>1, <1>2, <1>3, <1>4, <1>5 DEF Next

\* The invariant is inductive as long as only first names of buckets are cleared:
\* the shape of the statement, the lists, the calls still to be made and the two
\* counts depend on one another and are kept together.
THEOREM CountsInvariance ==
  ASSUME ~ClearInChains
  PROVE  Spec => []IInv
<1>1. Init => IInv
  BY InitHolds
<1>2. IInv /\ [Next]_vars => IInv'
  BY NextKeeps
<1> QED
  BY <1>1, <1>2, PTL DEF Spec

\* The references on an object are those that hold it, at each step of each
\* destructor, for any number of names, cells and pending calls.
THEOREM ReferencesCounted ==
  ASSUME ~ClearInChains
  PROVE  Spec => []CountsExact
<1>1. IInv => CountsExact
  BY Exactly DEF IInv
<1> QED
  BY <1>1, CountsInvariance, PTL

\* The instances of a name are the database, the leaves and the calls that use it.
THEOREM InstancesCounted ==
  ASSUME ~ClearInChains
  PROVE  Spec => []InstancesExact
<1>1. IInv => InstancesExact
  BY Exactly DEF IInv
<1> QED
  BY <1>1, CountsInvariance, PTL

\* Nothing leads to a cell that was given back.
THEOREM NothingDangles ==
  ASSUME ~ClearInChains
  PROVE  Spec => []NoDangling
BY Sound, CountsInvariance, PTL


-----------------------------------------------------------------------------
(* What the steps never do *)

\* No step but those of a function that alters its argument changes a value.
LEMMA ValuesKept ==
  ASSUME IInv, [Next]_vars, ~ExecuteAlter, NEW o \in Objects,
         obj[o].alive, obj'[o].alive
  PROVE  obj'[o].value = obj[o].value
<1>1. /\ obj \in [Objects -> ObjCells]
      /\ Typed /\ Statement /\ Blank /\ Room /\ Counted
  BY DEF IInv, Typed
<1>2. Unused # {} => NewObj \in Objects /\ ~obj[NewObj].alive
  BY DEF NewObj, Unused
<1>3. ASSUME Cardinality(Unused) > 1
      PROVE  /\ NewObj \in Objects /\ ~obj[NewObj].alive
             /\ NewConst \in Objects /\ ~obj[NewConst].alive
  <2>1. IsFiniteSet(Unused) /\ Cardinality(Unused) \in Nat
    BY ReferencesAssumption, FS_Subset, FS_CardinalityType DEF Unused
  <2>2. Unused # {}
    BY <1>3, <2>1, FS_EmptySet
  <2>3. NewObj \in Unused
    BY <2>2 DEF NewObj
  <2>4. Unused \ {NewObj} # {}
    <3>1. /\ IsFiniteSet(Unused \ {NewObj})
          /\ Cardinality(Unused \ {NewObj}) = Cardinality(Unused) - 1
      BY <2>1, <2>3, FS_RemoveElement
    <3>2. Cardinality(Unused \ {NewObj}) # 0
      BY <1>3, <2>1, <3>1
    <3> QED
      BY <3>1, <3>2, FS_EmptySet
  <2>5. NewConst \in Unused
    BY <2>4 DEF NewConst
  <2> QED
    BY <2>3, <2>5 DEF Unused
<1>4. ASSUME NEW v, obj' = Retain(v) PROVE obj'[o].value = obj[o].value
  BY <1>1, <1>4 DEF Retain
<1>5. ASSUME Read PROVE obj'[o].value = obj[o].value
  <2>1. ASSUME NEW n \in Names, Lvalue(n) PROVE obj'[o].value = obj[o].value
    BY <2>1 DEF Lvalue, LvalueCounting
  <2>2. ASSUME NEW n \in Names, FunctionReturns(n) PROVE obj'[o].value = obj[o].value
    BY <1>1, <1>2, <2>2 DEF FunctionReturns
  <2>3. ASSUME NEW n \in Names, FunctionAssigns(n) PROVE obj'[o].value = obj[o].value
    BY <1>1, <1>3, <2>3 DEF FunctionAssigns
  <2>4. ASSUME NEW n \in Names, NEW kind \in {"name", "call", "apply", "alter"},
               Operand(n, kind)
        PROVE  obj'[o].value = obj[o].value
    BY <2>4 DEF Operand
  <2>5. CASE Constant
    BY <1>1, <1>2, <2>5 DEF Constant
  <2>6. CASE SyntaxError
    BY <2>6 DEF SyntaxError
  <2> QED
    BY <1>5, <2>1, <2>2, <2>3, <2>4, <2>5, <2>6 DEF Read
<1>6. ASSUME Execute PROVE obj'[o].value = obj[o].value
  <2>1. CASE ExecuteLeaf
    BY <1>4, <2>1 DEF ExecuteLeaf
  <2>2. CASE ExecuteError
    BY <2>2 DEF ExecuteError
  <2>3. CASE ExecuteApply
    <3>1. NewObj \in Objects /\ ~obj[NewObj].alive
      BY <1>1, <1>2, <2>3 DEF ExecuteApply, Executing, Room
    <3>2. obj'[o] = Retain(Value(stmt.operand))[o]
      BY <1>1, <2>3, <3>1 DEF ExecuteApply, Retain
    <3> QED
      BY <1>1, <3>2 DEF Retain
  <2>4. CASE ExecuteCall
    BY <1>4, <2>4 DEF ExecuteCall
  <2>5. CASE BodyReturns
    BY <1>4, <2>5 DEF BodyReturns
  <2>6. CASE BodyAssigns
    BY <1>4, <2>6 DEF BodyAssigns
  <2>7. CASE BodyRecurs
    BY <1>1, <1>2, <2>7 DEF BodyRecurs, Body, Room
  <2>8. CASE Return
    <3>1. NewObj # o
      BY <1>1, <1>2, <2>8 DEF Return, Room
    <3>2. CASE result # Nil /\ obj[result].type = "code"
      <4>1. PICK k : obj'[o] = [obj[o] EXCEPT !.count = k]
        BY <2>8, <3>1, <3>2 DEF Return
      <4> QED
        BY <1>1, <4>1 DEF ObjCells
    <3>3. CASE ~(result # Nil /\ obj[result].type = "code")
      BY <2>8, <3>3 DEF Return
    <3> QED
      BY <3>2, <3>3
  <2>9. CASE Assign
    <3>1. \/ obj' = obj
          \/ obj' = [obj EXCEPT ![result].refs = @ \ {stmt.target}]
      BY <2>9 DEF Assign, AssignTaking
    <3> QED
      BY <1>1, <3>1 DEF ObjCells
  <2>10. CASE ReleaseStatement
    BY <2>10 DEF ReleaseStatement
  <2> QED
    BY <1>6, <2>1, <2>2, <2>3, <2>4, <2>5, <2>6, <2>7, <2>8, <2>9, <2>10 DEF Execute
<1>7. ASSUME Forget PROVE obj'[o].value = obj[o].value
  BY <1>7 DEF Forget, Clear, ClearAll
<1>8. ASSUME Destroy PROVE obj'[o].value = obj[o].value
  <2>1. CASE CallRefFree
    BY <2>1 DEF CallRefFree
  <2>2. CASE CallObjectFree
    <3> DEFINE h == Head(stack).object
    <3>1. \E k : \/ obj' = [obj EXCEPT ![h] = [obj[h] EXCEPT !.count = 0, !.refs = {},
                                                        !.sets = {}, !.objs = {}]]
                \/ obj' = [obj EXCEPT ![h] = [obj[h] EXCEPT !.count = k]]
      BY <2>2 DEF CallObjectFree
    <3> HIDE DEF h
    <3>2. \/ obj'[o] = obj[o]
          \/ obj'[o] = [obj[o] EXCEPT !.count = 0, !.refs = {}, !.sets = {}, !.objs = {}]
          \/ \E k : obj'[o] = [obj[o] EXCEPT !.count = k]
      BY <1>1, <3>1
    <3>3. PICK c \in ObjCells : c = obj[o]
      BY <1>1
    <3>4. /\ [c EXCEPT !.count = 0, !.refs = {}, !.sets = {}, !.objs = {}].value = c.value
          /\ \A k : [c EXCEPT !.count = k].value = c.value
      BY DEF ObjCells
    <3> QED
      BY <3>2, <3>3, <3>4
  <2>3. CASE CallRelease
    BY <1>1, <2>3, NewCells DEF CallRelease
  <2>4. CASE CallBind
    BY <1>1, <2>4 DEF CallBind
  <2>5. CASE CallRemoveRef
    BY <1>1, <2>5 DEF CallRemoveRef
  <2>6. CASE CallDbFree
    BY <2>6 DEF CallDbFree
  <2> QED
    BY <1>8, <2>1, <2>2, <2>3, <2>4, <2>5, <2>6 DEF Destroy
<1>9. ASSUME UNCHANGED vars PROVE obj'[o].value = obj[o].value
  BY <1>9 DEF vars
<1> QED
  BY <1>5, <1>6, <1>7, <1>8, <1>9 DEF Next

\* The value altered in place is that of the operand, and of nothing else.
LEMMA AltersOwn ==
  ASSUME IInv, ExecuteAlter, NEW o \in Objects, obj[o].alive, obj'[o].alive,
         obj'[o].value # obj[o].value
  PROVE  /\ \A r \in LiveRefs : ref[r].object = o => r = stmt.operand
         /\ \A p \in LiveObjects : o \notin obj[p].objs
<1> DEFINE t == stmt.operand
           v == Value(t)
<1>1. /\ Typed /\ Statement /\ Blank /\ Room /\ Counted
  BY DEF IInv
<1>2. /\ stack = <<>> /\ pc = "execute" /\ stmt.kind = "alter"
      /\ HasType(t, "data")
  BY DEF ExecuteAlter, AlterAbove, Executing, Ready
<1>3. /\ t # Nil /\ Binding = {} /\ NewObj \in Unused
  BY <1>1, <1>2, AtRest DEF Statement, Room, NewObj
<1>4. t \in LiveRefs /\ v \in Objects /\ ref[t].object = v
  <2>1. t \in LiveRefs
    BY <1>1, <1>3, Reached
  <2> QED
    BY <1>1, <1>2, <1>3, <2>1, Reached DEF HasType, Value, LiveObjects
<1>5. obj \in [Objects -> ObjCells] /\ obj[v].count \in Nat
  BY <1>1, <1>4, ObjectTerms DEF Typed
<1>6. v = o /\ obj[o].count <= 1
  <2>1. CASE obj[v].count + 1 > 2
    <3>1. NewObj # o
      BY <1>3 DEF Unused
    <3>2. obj' = [p \in Objects |->
                   CASE p = NewObj -> [obj[v] EXCEPT !.count = 1, !.value = 1 - @]
                     [] p = v -> [obj[v] EXCEPT !.count = @ - 1]
                     [] p \in obj[v].objs -> [obj[p] EXCEPT !.count = @ + 1]
                     [] OTHER -> obj[p]]
      BY <2>1 DEF ExecuteAlter, AlterAbove
    <3>3. v \notin obj[v].objs
      BY <1>4 DEF IInv, Contents
    <3>4. obj'[o].value = obj[o].value
      BY <1>5, <3>1, <3>2, <3>3
    <3> QED
      BY <3>4
  <2>2. CASE ~(obj[v].count + 1 > 2)
    <3>1. obj' = [obj EXCEPT ![v].value = 1 - @]
      BY <2>2 DEF ExecuteAlter, AlterAbove
    <3>2. v # o => obj'[o] = obj[o]
      BY <1>5, <3>1
    <3>3. v = o
      BY <3>2
    <3>4. obj[v].count <= 1
      <4> HIDE DEF v
      <4> QED
        BY <1>5, <2>2
    <3> QED
      BY <3>3, <3>4
  <2> QED
    BY <2>1, <2>2
<1>7. t \in NamesOf(o)
  BY <1>3, <1>4, <1>6 DEF NamesOf
<1>8. Cardinality(NamesOf(o)) = 1 /\ Protecting(o) = {} /\ IsFiniteSet(NamesOf(o))
  <2>1. NamesOf(o) # {}
    BY <1>7
  <2> QED
    BY <1>1, <1>6, <2>1, Holders, ObjectTerms DEF Counted
<1>9. PICK x : NamesOf(o) = {x}
  BY <1>8, FS_Singleton
<1> QED
  BY <1>3, <1>7, <1>8, <1>9 DEF NamesOf, Protecting

\* A value is altered in place only when its name alone holds it.
THEOREM AltersNothingShared ==
  ASSUME ~ClearInChains
  PROVE  Spec => CopyOnWrite
<1> DEFINE Alters ==
      \A o \in Objects :
        obj[o].alive /\ obj'[o].alive /\ obj'[o].value # obj[o].value =>
          /\ \A r \in LiveRefs : ref[r].object = o => r = stmt.operand
          /\ \A p \in LiveObjects : o \notin obj[p].objs
<1>1. IInv /\ [Next]_vars => [Alters]_vars
  BY ValuesKept, AltersOwn
<1>2. CopyOnWrite <=> [][Alters]_vars
  BY PTL DEF CopyOnWrite
<1> QED
  BY <1>1, <1>2, CountsInvariance, PTL DEF Spec

-----------------------------------------------------------------------------
(* Names *)

\* The references of a bucket, as those of all of them.
ChainLeast(b) ==
  /\ Chain(b) \subseteq Linked
  /\ base[b] = Nil \/ base[b] \in Chain(b)
  /\ \A q \in Chain(b) : ref[q].next = Nil \/ ref[q].next \in Chain(b)
  /\ \A S \in SUBSET Refs :
       /\ base[b] = Nil \/ base[b] \in S
       /\ \A q \in S : ref[q].next = Nil \/ ref[q].next \in S
       => Chain(b) \subseteq S

LEMMA ChainIs ==
  ASSUME Typed, NEW b \in Buckets
  PROVE  ChainLeast(b)
<1>1. /\ base[b] \in Refs \cup {Nil}
      /\ \A q \in Refs : ref[q].next \in Refs \cup {Nil}
  BY DEF Typed, RefCells
<1>2. Chain(b) \subseteq Refs /\ Chain(b) \subseteq Linked
  BY DEF Chain, Linked, Walk
<1>3. ASSUME NEW S \in SUBSET Refs, base[b] = Nil \/ base[b] \in S,
             \A q \in S : ref[q].next = Nil \/ ref[q].next \in S
      PROVE  Chain(b) \subseteq S
  BY <1>3 DEF Chain, Walk, Closed
<1>4. base[b] = Nil \/ base[b] \in Chain(b)
  BY <1>1 DEF Chain, Walk
<1>5. ASSUME NEW q \in Chain(b), ref[q].next # Nil PROVE ref[q].next \in Chain(b)
  <2>1. q \in Refs /\ ref[q].next \in Refs
    BY <1>1, <1>2, <1>5
  <2>2. ASSUME NEW S \in SUBSET Refs, \A p \in {base[b]} : p = Nil \/ p \in S, Closed(S)
        PROVE  ref[q].next \in S
    BY <1>5, <2>2 DEF Chain, Walk, Closed
  <2> QED
    BY <2>1, <2>2 DEF Chain, Walk
<1> QED
  BY <1>2, <1>3, <1>4, <1>5 DEF ChainLeast

\* A bucket stays as it is.
LEMMA ChainKept ==
  ASSUME Typed, Typed', NEW b \in Buckets, base'[b] = base[b],
         \A q \in Linked : ref'[q].next = ref[q].next
  PROVE  Chain(b)' = Chain(b)
<1>1. ChainLeast(b) /\ ChainLeast(b)' /\ Linked \subseteq Refs /\ Linked' \subseteq Refs
  <2>1. ChainLeast(b) /\ ChainLeast(b)'
    BY ChainIs, PTL
  <2>2. LinkedLeast /\ LinkedLeast'
    BY LinkedIs, PTL
  <2> QED
    BY <2>1, <2>2 DEF LinkedLeast
<1>2. Chain(b)' \subseteq Chain(b)
  BY <1>1 DEF ChainLeast
<1>3. Chain(b) \subseteq Chain(b)'
  <2>1. \A q \in Chain(b)' : ref[q].next = Nil \/ ref[q].next \in Chain(b)'
    BY <1>1, <1>2 DEF ChainLeast
  <2> QED
    BY <1>1, <2>1 DEF ChainLeast
<1> QED
  BY <1>2, <1>3

\* A reference enters its bucket.
LEMMA ChainEnter ==
  ASSUME Typed, Typed', NEW b \in Buckets, NEW x \in Refs \ Linked,
         base'[b] = x, ref'[x].next = base[b],
         \A q \in Linked : ref'[q].next = ref[q].next
  PROVE  Chain(b)' \ {x} = Chain(b)
<1>1. ChainLeast(b) /\ ChainLeast(b)' /\ Linked \subseteq Refs /\ Linked' \subseteq Refs
  <2>1. ChainLeast(b) /\ ChainLeast(b)'
    BY ChainIs, PTL
  <2>2. LinkedLeast /\ LinkedLeast'
    BY LinkedIs, PTL
  <2> QED
    BY <2>1, <2>2 DEF LinkedLeast
<1>2. x # Nil
  BY ReferencesAssumption
<1>3. Chain(b)' \subseteq Chain(b) \cup {x}
  <2>1. \A q \in Chain(b) \cup {x} : ref'[q].next = Nil \/ ref'[q].next \in Chain(b) \cup {x}
    BY <1>1 DEF ChainLeast
  <2>2. Chain(b) \cup {x} \in SUBSET Refs /\ base'[b] \in Chain(b) \cup {x}
    BY <1>1 DEF ChainLeast
  <2> DEFINE S == Chain(b) \cup {x}
  <2> HIDE DEF S
  <2>3. Chain(b)' \subseteq S
    BY <1>1, <2>1, <2>2 DEF ChainLeast, S
  <2> QED
    BY <2>3 DEF S
<1>4. Chain(b) \subseteq Chain(b)' \ {x}
  <2> DEFINE S == Chain(b)' \ {x}
  <2>1. S \subseteq Chain(b) /\ S \subseteq Refs
    BY <1>1, <1>3 DEF ChainLeast
  <2>2. base[b] = Nil \/ base[b] \in S
    <3>1. base[b] = Nil \/ base[b] \in Chain(b)'
      BY <1>1, <1>2 DEF ChainLeast
    <3>2. base[b] # x
      BY <1>1, <1>2 DEF ChainLeast
    <3> QED
      BY <3>1, <3>2
  <2>3. \A q \in S : ref[q].next = Nil \/ ref[q].next \in S
    <3>1. ASSUME NEW q \in S, ref[q].next # Nil PROVE ref[q].next \in S
      <4>1. q \in Chain(b) /\ ref'[q].next = ref[q].next
        BY <1>1, <2>1 DEF ChainLeast
      <4>2. ref[q].next \in Chain(b) /\ ref[q].next # x
        BY <1>1, <3>1, <4>1 DEF ChainLeast
      <4>3. ref'[q].next \in Chain(b)'
        BY <1>1, <3>1, <4>1 DEF ChainLeast
      <4> QED
        BY <4>1, <4>2, <4>3
    <3> QED
      BY <3>1
  <2> HIDE DEF S
  <2>4. Chain(b) \subseteq S
    BY <1>1, <2>1, <2>2, <2>3 DEF ChainLeast
  <2> QED
    BY <2>4 DEF S
<1> QED
  BY <1>1, <1>3, <1>4 DEF ChainLeast

\* The first reference leaves its bucket.
LEMMA ChainUnlink ==
  ASSUME Typed, Typed', NEW b \in Buckets, base[b] # Nil,
         base'[b] = ref[base[b]].next, ref' = ref
  PROVE  Chain(b) = Chain(b)' \cup {base[b]}
<1>1. ChainLeast(b) /\ ChainLeast(b)' /\ Linked \subseteq Refs /\ Linked' \subseteq Refs
  <2>1. ChainLeast(b) /\ ChainLeast(b)'
    BY ChainIs, PTL
  <2>2. LinkedLeast /\ LinkedLeast'
    BY LinkedIs, PTL
  <2> QED
    BY <2>1, <2>2 DEF LinkedLeast
<1>2. base[b] \in Chain(b) /\ base[b] \in Refs
  BY <1>1 DEF ChainLeast
<1>3. Chain(b)' \subseteq Chain(b)
  BY <1>1, <1>2 DEF ChainLeast
<1>4. Chain(b) \subseteq Chain(b)' \cup {base[b]}
  <2> DEFINE S == Chain(b)' \cup {base[b]}
  <2>1. S \in SUBSET Refs /\ base[b] \in S
    BY <1>1, <1>2 DEF ChainLeast
  <2>2. \A q \in S : ref[q].next = Nil \/ ref[q].next \in S
    BY <1>1 DEF ChainLeast
  <2> HIDE DEF S
  <2>3. Chain(b) \subseteq S
    BY <1>1, <2>1, <2>2 DEF ChainLeast
  <2> QED
    BY <2>3 DEF S
<1> QED
  BY <1>2, <1>3, <1>4

\* A name is found again when the references of its name are the same.
LEMMA SameFound ==
  ASSUME NEW n, {r \in Chain(Bucket[n])' : ref'[r].name = n}
              = {r \in Chain(Bucket[n]) : ref[r].name = n}
  PROVE  Lookup(n)' = Lookup(n)
<1> DEFINE first(A) == IF A = {} THEN Nil ELSE CHOOSE r \in A : TRUE
           found == {r \in Chain(Bucket[n]) : ref[r].name = n}
<1>1. \A A, B : A = B => first(A) = first(B)
  BY SMT
<1>2. Lookup(n) = first(found) /\ Lookup(n)' = first(found')
  BY DEF Lookup
<1> HIDE DEF first
<1> QED
  BY <1>1, <1>2

\* Steps that keep the buckets and the names keep what is found.
LEMMA FoundAgain ==
  ASSUME Typed, Typed', base' = base,
         \A q \in Linked : ref'[q].next = ref[q].next /\ ref'[q].name = ref[q].name,
         NEW n \in Names
  PROVE  Lookup(n)' = Lookup(n)
<1>1. Bucket[n] \in Buckets
  BY ReferencesAssumption
<1>2. Chain(Bucket[n])' = Chain(Bucket[n]) /\ Chain(Bucket[n]) \subseteq Linked
  BY <1>1, ChainKept, ChainIs DEF ChainLeast
<1> QED
  BY <1>2, SameFound

\* A new name changes nothing for the others.
LEMMA EnterFound ==
  ASSUME IInv, IInv', NEW m \in Names, Lvalue(m), Lookup(m) = Nil,
         NEW n \in Names, n # m
  PROVE  Lookup(n)' = Lookup(n)
<1> DEFINE x == NewRef
           b == Bucket[n]
<1>1. /\ RefAvailable
      /\ ref' = [ref EXCEPT ![x] =
                  [alive |-> TRUE, name |-> m, object |-> Nil, instances |-> 2,
                   next |-> base[Bucket[m]]]]
      /\ base' = [base EXCEPT ![Bucket[m]] = x]
  BY DEF Lvalue, LvalueCounting, EnterName
<1>2. x \in Refs /\ ~ref[x].alive
  BY <1>1 DEF NewRef, RefAvailable
<1> HIDE DEF x
<1>3. Typed /\ Typed' /\ Linked \subseteq LiveRefs /\ b \in Buckets /\ Bucket[m] \in Buckets
  BY Reached, ReferencesAssumption DEF IInv
<1>4. x \notin Linked
  BY <1>2, <1>3 DEF LiveRefs
<1>5. /\ ref'[x].name = m /\ ref'[x].next = base[Bucket[m]]
      /\ \A q \in Refs : q # x => ref'[q] = ref[q]
  BY <1>1, <1>2, <1>3 DEF Typed
<1>6. \A q \in Linked : ref'[q] = ref[q]
  BY <1>3, <1>4, <1>5 DEF LiveRefs
<1>7. Chain(b) \subseteq Linked /\ x \notin Chain(b)
  BY <1>3, <1>4, ChainIs DEF ChainLeast
<1>8. Chain(b)' \ {x} = Chain(b)
  <2>1. CASE b = Bucket[m]
    <3>1. base'[b] = x /\ ref'[x].next = base[b]
      BY <1>1, <1>3, <1>5, <2>1 DEF Typed
    <3> QED
      BY <1>2, <1>3, <1>4, <1>6, <3>1, ChainEnter
  <2>2. CASE b # Bucket[m]
    <3>1. base'[b] = base[b]
      BY <1>1, <1>3, <2>2 DEF Typed
    <3>2. Chain(b)' = Chain(b)
      BY <1>3, <1>6, <3>1, ChainKept
    <3> QED
      BY <1>7, <3>2
  <2> QED
    BY <2>1, <2>2
<1>9. {r \in Chain(b)' : ref'[r].name = n} = {r \in Chain(b) : ref[r].name = n}
  BY <1>5, <1>6, <1>7, <1>8
<1> QED
  BY <1>9, SameFound

\* Clearing the first name of a bucket neither.
LEMMA ClearFound ==
  ASSUME IInv, IInv', ~ClearInChains, NEW m \in Names, Clear(m),
         NEW n \in Names, n # m
  PROVE  Lookup(n)' = Lookup(n)
<1> DEFINE x == Lookup(m)
           b == Bucket[n]
<1>1. Typed /\ Typed' /\ Blank /\ Counted /\ b \in Buckets /\ Bucket[m] \in Buckets
  BY ReferencesAssumption DEF IInv
<1>2. x # Nil /\ x = base[Bucket[m]] /\ Unlink(x)
  BY DEF Clear
<1>3. x \in Refs /\ ref[x].name = m
  BY <1>1, <1>2, Found, FoundLive
<1>4. base' = [base EXCEPT ![Bucket[m]] = ref[x].next] /\ ref' = ref
  BY <1>2, <1>3 DEF Unlink
<1> HIDE DEF x
<1>5. {r \in Chain(b)' : ref'[r].name = n} = {r \in Chain(b) : ref[r].name = n}
  <2>1. CASE b = Bucket[m]
    <3>1. base[b] = x /\ base[b] # Nil /\ base'[b] = ref[base[b]].next
      BY <1>1, <1>2, <1>4, <2>1 DEF Typed
    <3>2. Chain(b) = Chain(b)' \cup {x}
      BY <1>1, <1>4, <3>1, ChainUnlink
    <3> QED
      BY <1>3, <1>4, <3>2
  <2>2. CASE b # Bucket[m]
    <3>1. base'[b] = base[b]
      BY <1>1, <1>4, <2>2 DEF Typed
    <3>2. Chain(b)' = Chain(b)
      BY <1>1, <1>4, <3>1, ChainKept
    <3> QED
      BY <1>4, <3>2
  <2> QED
    BY <2>1, <2>2
<1> QED
  BY <1>5, SameFound

\* A name keeps its reference, but in a step that clears it or starts to forget
\* them all.
LEMMA NameStays ==
  ASSUME ~ClearInChains, IInv, IInv', [Next]_vars, NEW n \in Names
  PROVE  \/ Lookup(n)' = Lookup(n)
         \/ Lookup(n) = Nil
         \/ stack' # <<>> /\ Head(stack') = RefFree(Lookup(n))
         \/ stack # <<>> /\ Head(stack) = DbFree
<1>1. Typed /\ Typed' /\ Blank /\ Counted /\ Statement /\ Linked \subseteq LiveRefs
  BY Reached DEF IInv
<1>2. ref \in [Refs -> RefCells] /\ Linked \subseteq Refs
  BY <1>1 DEF Typed, LiveRefs
<1>3. ASSUME base' = base, ref' = ref PROVE Lookup(n)' = Lookup(n)
  BY <1>1, <1>3, FoundAgain
<1>4. ASSUME base' = base,
             \A q \in Linked : ref'[q].next = ref[q].next /\ ref'[q].name = ref[q].name
      PROVE  Lookup(n)' = Lookup(n)
  BY <1>1, <1>4, FoundAgain
<1>5. ASSUME base' = base, NEW r, ref' = Instance(r) PROVE Lookup(n)' = Lookup(n)
  <2>1. \A q \in Linked : ref'[q].next = ref[q].next /\ ref'[q].name = ref[q].name
    BY <1>2, <1>5 DEF Instance, RefCells
  <2> QED
    BY <1>4, <1>5, <2>1
<1>6. ASSUME Read PROVE Lookup(n)' = Lookup(n) \/ Lookup(n) = Nil
  <2>1. ASSUME NEW m \in Names, Lvalue(m)
        PROVE  Lookup(n)' = Lookup(n) \/ Lookup(n) = Nil
    <3>1. CASE Lookup(m) = Nil
      BY <2>1, <3>1, EnterFound
    <3>2. CASE Lookup(m) # Nil
      BY <1>5, <2>1, <3>2 DEF Lvalue, LvalueCounting
    <3> QED
      BY <3>1, <3>2
  <2>2. ASSUME NEW m \in Names, FunctionReturns(m) PROVE Lookup(n)' = Lookup(n)
    BY <1>5, <2>2 DEF FunctionReturns
  <2>3. ASSUME NEW m \in Names, FunctionAssigns(m) PROVE Lookup(n)' = Lookup(n)
    BY <1>5, <2>3 DEF FunctionAssigns
  <2>4. ASSUME NEW m \in Names, NEW kind \in {"name", "call", "apply", "alter"},
               Operand(m, kind)
        PROVE  Lookup(n)' = Lookup(n)
    BY <1>5, <2>4 DEF Operand
  <2>5. CASE Constant
    BY <1>3, <2>5 DEF Constant
  <2>6. CASE SyntaxError
    BY <1>3, <2>6 DEF SyntaxError
  <2> QED
    BY <1>6, <2>1, <2>2, <2>3, <2>4, <2>5, <2>6 DEF Read
<1>7. ASSUME Execute PROVE Lookup(n)' = Lookup(n)
  <2>1. CASE ExecuteAlter
    <3>1. /\ base' = base
          /\ ref' = ref \/ ref' = [ref EXCEPT ![stmt.operand].object = NewObj]
      BY <2>1 DEF ExecuteAlter, AlterAbove
    <3>2. \A q \in Linked : ref'[q].next = ref[q].next /\ ref'[q].name = ref[q].name
      BY <1>2, <3>1 DEF RefCells
    <3> QED
      BY <1>4, <3>1, <3>2
  <2>2. CASE Return
    <3>1. /\ base' = base
          /\ \/ ref' = ref
             \/ ref' = [r \in Refs |->
                          IF r \in obj[result].refs \cup obj[result].sets
                          THEN [ref[r] EXCEPT !.instances = @ + 1] ELSE ref[r]]
      BY <2>2 DEF Return
    <3>2. \A q \in Linked : ref'[q].next = ref[q].next /\ ref'[q].name = ref[q].name
      BY <1>2, <3>1 DEF RefCells
    <3> QED
      BY <1>4, <3>1, <3>2
  <2>3. CASE Assign
    <3>1. /\ base' = base
          /\ ref' = ref \/ ref' = [ref EXCEPT ![stmt.target].instances = @ - 1]
      BY <2>3 DEF Assign, AssignTaking
    <3>2. \A q \in Linked : ref'[q].next = ref[q].next /\ ref'[q].name = ref[q].name
      BY <1>2, <3>1 DEF RefCells
    <3> QED
      BY <1>4, <3>1, <3>2
  <2>4. ASSUME ~ExecuteAlter, ~Return, ~Assign PROVE base' = base /\ ref' = ref
    BY <1>7, <2>4 DEF Execute, ExecuteLeaf, ExecuteError, ExecuteApply, ExecuteCall,
       BodyReturns, BodyAssigns, BodyRecurs, ReleaseStatement
  <2> QED
    BY <1>3, <2>1, <2>2, <2>3, <2>4
<1>8. ASSUME Forget
      PROVE  \/ Lookup(n)' = Lookup(n)
             \/ stack' # <<>> /\ Head(stack') = RefFree(Lookup(n))
  <2>1. CASE ClearAll
    BY <1>3, <2>1 DEF ClearAll
  <2>2. ASSUME NEW m \in Names, Clear(m)
        PROVE  \/ Lookup(n)' = Lookup(n)
               \/ stack' # <<>> /\ Head(stack') = RefFree(Lookup(n))
    <3>1. CASE n = m
      <4>1. stack' = <<RefFree(Lookup(n))>>
        BY <2>2, <3>1 DEF Clear
      <4> QED
        BY <4>1
    <3>2. CASE n # m
      BY <2>2, <3>2, ClearFound
    <3> QED
      BY <3>1, <3>2
  <2> QED
    BY <1>8, <2>1, <2>2 DEF Forget
<1>9. ASSUME Destroy
      PROVE  \/ Lookup(n)' = Lookup(n)
             \/ stack # <<>> /\ Head(stack) = DbFree
  <2>1. CASE CallRefFree
    <3> DEFINE r == Head(stack).ref
    <3>1. /\ base' = base
          /\ \/ ref[r].instances = 1 /\ ref' = [ref EXCEPT ![r] = FreeRef]
             \/ ref' = [ref EXCEPT ![r].instances = @ - 1]
      BY <2>1 DEF CallRefFree
    <3>2. stack # <<>> /\ Head(stack).op = "ref_free"
      BY <2>1 DEF CallRefFree
    <3>3. 1 \in DOMAIN stack /\ stack[1] = RefFree(r) /\ r \in Refs
      BY <1>1, <3>2, FirstCall, CallShape
    <3> HIDE DEF r
    <3>4. ref[r].instances = 1 => r \notin Linked
      BY <1>1, <3>3, Instances DEF Counted
    <3>5. \A q \in Linked : ref'[q].next = ref[q].next /\ ref'[q].name = ref[q].name
      BY <1>2, <3>1, <3>4 DEF RefCells
    <3> QED
      BY <1>4, <3>1, <3>5
  <2>2. CASE CallBind
    <3>1. /\ base' = base
          /\ ref' = [ref EXCEPT ![Head(stack).ref].object = Head(stack).object]
      BY <2>2 DEF CallBind
    <3>2. \A q \in Linked : ref'[q].next = ref[q].next /\ ref'[q].name = ref[q].name
      BY <1>2, <3>1 DEF RefCells
    <3> QED
      BY <1>4, <3>1, <3>2
  <2>3. CASE CallDbFree
    <3>1. stack # <<>> /\ Head(stack).op = "db_free"
      BY <2>3 DEF CallDbFree
    <3> QED
      BY <1>1, <3>1, FirstCall, CallShape
  <2>4. CASE CallObjectFree \/ CallRelease \/ CallRemoveRef
    BY <1>3, <2>4 DEF CallObjectFree, CallRelease, CallRemoveRef
  <2> QED
    BY <1>9, <2>1, <2>2, <2>3, <2>4 DEF Destroy
<1>10. ASSUME UNCHANGED vars PROVE Lookup(n)' = Lookup(n)
  BY <1>3, <1>10 DEF vars
<1> QED
  BY <1>6, <1>7, <1>8, <1>9, <1>10 DEF Next

\* A name leads to the same reference until it is cleared, whatever else the
\* session does to other names of its bucket.
THEOREM NamesStay ==
  ASSUME ~ClearInChains
  PROVE  Spec => NamesKept
<1> DEFINE Stays ==
      \A n \in Names :
        LET before == Lookup(n)
            after  == Lookup(n)'
        IN  before # after => \/ before = Nil
                              \/ stack' # <<>> /\ Head(stack') = RefFree(before)
                              \/ stack # <<>> /\ Head(stack) = DbFree
<1>1. IInv /\ IInv' /\ [Next]_vars => [Stays]_vars
  BY NameStays
<1>2. NamesKept <=> [][Stays]_vars
  BY PTL DEF NamesKept
<1> QED
  BY <1>1, <1>2, CountsInvariance, PTL DEF Spec
=============================================================================
