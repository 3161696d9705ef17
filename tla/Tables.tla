------------------------------- MODULE Tables --------------------------------
(* The hash tables of the library (kernel/libhaplo/hash.tmpl, hash_ul.c,     *)
(* hash_str.c) and those of objects (hash.c). Entries are in a list in the   *)
(* order their keys were first set; each is in the chain of its key, the     *)
(* last one first. A key is a sequence of character codes, the one of        *)
(* hash_ul.c a single number.                                                *)
(* What a program sets is an object of its own; the objects of a copy are    *)
(* new ones, which are set in no other table (README, section 6).            *)
EXTENDS Integers, Sequences, FiniteSets, SequencesExt

CONSTANTS
  Keys,                \* the keys that are used
  HashValues,          \* what objects hold
  TableSizes,          \* sizes of new tables
  HASH_COLLISION_MAX,  \* length of the chains from which a table is made larger
  MaxCopies            \* bound on the objects that are copied

ASSUME TableAssumption ==
  /\ Keys \subseteq Seq(Int)
  /\ TableSizes \subseteq Nat \ {0} /\ HASH_COLLISION_MAX \in Nat \ {0} /\ MaxCopies \in Nat

VARIABLES
  entries,  \* the list of entries, [key, value]
  entry,    \* the chains, from 0: sequences of ranks of entries
  counts,   \* the references of each object that entries had, until it is freed
  copies,   \* objects copied so far
  map,      \* the function the table stands for
  order     \* its keys in the order they were first set

tableVars == <<entries, entry, counts, copies, map, order>>

\* An object, by what it holds: one of the program, or that copied as the n-th one.
Objects == [of : HashValues, made : Nat]
Given(v) == [of |-> v, made |-> 0]
__haplo_object_copy(object, n) == [of |-> object.of, made |-> n]

\* The references once an entry has the object.
OBJECT_REF(refs, object) ==
  [o \in DOMAIN refs \cup {object} |->
     IF o # object THEN refs[o] ELSE IF o \in DOMAIN refs THEN refs[o] + 1 ELSE 1]

\* A reference is given back, if there is one; without any the object is freed.
__haplo_object_free(refs, object) ==
  IF refs[object] > 1 THEN [refs EXCEPT ![object] = @ - 1]
  ELSE [o \in DOMAIN refs \ {object} |-> refs[o]]

HashSize(chains) == Cardinality(DOMAIN chains)

\* Characters are weighted by powers of 16 (the folding of long keys is left out).
hash_function(key, size) == FoldLeft(LAMBDA val, c : 16 * val + c, 0, key) % size

haplo_hash_new(size) == [c \in 0..(size - 1) |-> <<>>]

\* The rank of the entry of a key, 0 when there is none.
hash_get(es, chains, key) ==
  LET chain == chains[hash_function(key, HashSize(chains))]
      found == SelectInSeq(chain, LAMBDA e : es[e].key = key)
  IN  IF found = 0 THEN 0 ELSE chain[found]

\* The chains once the entry of a rank is put in that of its key.
Chain(es, chains, e) ==
  [chains EXCEPT ![hash_function(es[e].key, HashSize(chains))] = <<e>> \o @]

\* The ranks in the chains, one chain after the other.
Chained(chains) ==
  FoldLeft(LAMBDA all, c : all \o chains[c], <<>>, [c \in 1..HashSize(chains) |-> c - 1])

\* Mutant of hash_reorder: entries are put in the chains of the size before.
ReorderByOldSize(es, chains) ==
  FoldLeft(LAMBDA new, e : [new EXCEPT ![hash_function(es[e].key, HashSize(chains))] = <<e>> \o @],
           haplo_hash_new(2 * HashSize(chains) + 1), Chained(chains))

\* Chains are read in order, so that each is turned round.
hash_reorder(es, chains) ==
  FoldLeft(LAMBDA new, e : Chain(es, new, e), haplo_hash_new(2 * HashSize(chains) + 1),
           Chained(chains))

\* The table [es, chains] after a key is set.
haplo_hash_set(table, key, value) ==
  LET found == hash_get(table.es, table.chains, key)
      c == hash_function(key, HashSize(table.chains))
      es == Append(table.es, [key |-> key, value |-> value])
      chains == Chain(es, table.chains, Len(es))
  IN  IF found # 0 THEN [table EXCEPT !.es[found].value = value]
      ELSE [es |-> es,
            chains |-> IF Len(chains[c]) - 1 >= HASH_COLLISION_MAX THEN hash_reorder(es, chains)
                       ELSE chains]

\* The copy has as many chains as there are entries: an empty table is not copied here.
haplo_hash_copy(es) ==
  FoldLeft(LAMBDA table, e : haplo_hash_set(table, e.key, e.value),
           [es |-> <<>>, chains |-> haplo_hash_new(Len(es))], es)

\* The key of the first entry whose value is accepted; none is <<>>.
haplo_hash_search(es, Test(_)) ==
  LET found == SelectInSeq(es, LAMBDA e : Test(e.value))
  IN  IF found = 0 THEN <<>> ELSE <<es[found].key>>

\* strcmp: the first character that differs.
hash_str_sort(k, l) ==
  \E n \in DOMAIN l :
    /\ \A m \in 1..(n - 1) : m \in DOMAIN k /\ k[m] = l[m]
    /\ n \in DOMAIN k => k[n] < l[n]

\* What qsort makes of the entries, whose keys differ: before each as many as come before it.
haplo_hash_str_loop_sorted(es) ==
  LET before(e) == {d \in DOMAIN es : hash_str_sort(es[d].key, es[e].key)}
  IN  [k \in DOMAIN es |-> es[CHOOSE e \in DOMAIN es : Cardinality(before(e)) = k - 1]]

-----------------------------------------------------------------------------
TableInit ==
  /\ \E size \in TableSizes : entry = haplo_hash_new(size)
  /\ entries = <<>> /\ counts = <<>> /\ copies = 0
  /\ map = <<>> /\ order = <<>>

\* The object that is replaced loses a reference, the new one gets one.
__haplo_hash_set ==
  \E key \in Keys, v \in HashValues :
    LET found == hash_get(entries, entry, key)
        table == haplo_hash_set([es |-> entries, chains |-> entry], key, Given(v))
    IN  /\ entries' = table.es /\ entry' = table.chains
        /\ counts' = IF found = 0 THEN OBJECT_REF(counts, Given(v))
                     ELSE IF entries[found].value = Given(v) THEN counts
                     ELSE OBJECT_REF(__haplo_object_free(counts, entries[found].value), Given(v))
        /\ map' = [k \in DOMAIN map \cup {key} |-> IF k = key THEN v ELSE map[k]]
        /\ order' = IF key \in DOMAIN map THEN order ELSE Append(order, key)
        /\ UNCHANGED copies

\* hash_free_object, for every entry.
Freed(refs, es) ==
  LET held(o) == Cardinality({e \in DOMAIN es : es[e].value = o})
  IN  [o \in {o \in DOMAIN refs : held(o) = 0 \/ refs[o] > held(o)} |-> refs[o] - held(o)]

\* The entries with copies of their objects.
WithCopies(es) ==
  [e \in DOMAIN es |-> [key |-> es[e].key, value |-> __haplo_object_copy(es[e].value, copies + e)]]

\* The copy takes the place of the table, which is freed. Its objects have no reference:
\* they are put in the copy by haplo_hash_set, not by __haplo_hash_set.
__haplo_hash_copy ==
  /\ entries # <<>> /\ copies + Len(entries) <= MaxCopies
  /\ LET copied == WithCopies(entries)
         copy == haplo_hash_copy(copied)
         objects == {copied[e].value : e \in DOMAIN copied}
         left == Freed(counts, entries)
     IN  /\ entries' = copy.es /\ entry' = copy.chains
         /\ counts' = [o \in DOMAIN left \cup objects |-> IF o \in objects THEN 0 ELSE left[o]]
  /\ copies' = copies + Len(entries)
  /\ UNCHANGED <<map, order>>

\* The table is freed and another one made.
__haplo_hash_free ==
  /\ entries # <<>>
  /\ \E size \in TableSizes : entry' = haplo_hash_new(size)
  /\ entries' = <<>> /\ map' = <<>> /\ order' = <<>>
  /\ counts' = Freed(counts, entries)
  /\ UNCHANGED copies

TableNext == __haplo_hash_set \/ __haplo_hash_copy \/ __haplo_hash_free

-----------------------------------------------------------------------------
\* A key has the value last set, whatever the table went through.
TableIsFunction ==
  \A k \in Keys :
    LET e == hash_get(entries, entry, k)
    IN  IF k \in DOMAIN map THEN e # 0 /\ entries[e].value.of = map[k] ELSE e = 0

\* Every entry is in one chain, once, and chains hold nothing else.
ChainsWhole ==
  /\ \A e \in DOMAIN entries :
       \E c \in DOMAIN entry : \E r \in DOMAIN entry[c] :
         /\ entry[c][r] = e
         /\ \A d \in DOMAIN entry : \A q \in DOMAIN entry[d] : entry[d][q] = e => <<d, q>> = <<c, r>>
  /\ \A c \in DOMAIN entry : ToSet(entry[c]) \subseteq DOMAIN entries

\* A loop sees the keys in the order they came, a sorted one in theirs, a search finds
\* the first key with the value.
LoopsInOrder ==
  /\ [e \in DOMAIN entries |-> entries[e].key] = order
  /\ LET sorted == haplo_hash_str_loop_sorted(entries)
     IN  /\ Len(sorted) = Len(order) /\ ToSet(sorted) = ToSet(entries)
         /\ \A e \in 1..(Len(sorted) - 1) : hash_str_sort(sorted[e].key, sorted[e + 1].key)
  /\ \A v \in HashValues :
       LET found == SelectInSeq(order, LAMBDA k : map[k] = v)
       IN  haplo_hash_search(entries, LAMBDA x : x.of = v) =
             IF found = 0 THEN <<>> ELSE <<order[found]>>

\* An object lives as long as an entry has it: none is freed before, none is left. It has
\* a reference for each of them, but for one that was copied with its table, which has
\* none and is the object of one entry (hash.c:133-163, object.c:241-264).
EntriesCounted ==
  /\ DOMAIN counts = {entries[e].value : e \in DOMAIN entries}
  /\ \A o \in DOMAIN counts :
       LET held == Cardinality({e \in DOMAIN entries : entries[e].value = o})
       IN  counts[o] = IF o.made = 0 THEN held ELSE held - 1
  /\ \A d, e \in DOMAIN entries :
       entries[d].value = entries[e].value /\ entries[d].value.made > 0 => d = e
=============================================================================
