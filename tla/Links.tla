-------------------------------- MODULE Links --------------------------------
(* Simply linked lists (kernel/libhaplo/slink.c) over a cache of cells       *)
(* (haplo_mcache_*, memory.c): a cell released is kept in the cache while    *)
(* there is room, one asked for is taken from it first.                      *)
EXTENDS Integers, Sequences, FiniteSets, SequencesExt

CONSTANTS
  Cells,           \* the addresses malloc may give
  Data,            \* what the links carry
  SLINK_CACHE_SIZE

ASSUME CellAssumption == IsFiniteSet(Cells) /\ SLINK_CACHE_SIZE \in Nat /\ 0 \notin Cells

VARIABLES
  head, slot,  \* the cache: the slots from head are cells that may be given
  malloced,    \* the cells that malloc has given and free has not had
  next, linkData,  \* the links: the cell that follows (0 for none) and what it carries
  lists        \* the lists that are used: the first cell of each and what it stands for

linkVars == <<head, slot, malloced, next, linkData, lists>>

HAPLO_MCACHE_GET(new) ==
  IF head < SLINK_CACHE_SIZE
  THEN /\ new = slot[head] /\ head' = head + 1 /\ UNCHANGED <<slot, malloced>>
  ELSE /\ new \in Cells \ malloced /\ malloced' = malloced \cup {new} /\ UNCHANGED <<head, slot>>

\* The cells of a list, those up to the n-th first.
CellsOf(l) ==
  LET cells[n \in 1..Cardinality(Cells)] ==
        IF n = 1 THEN <<l.first>>
        ELSE IF next[Last(cells[n - 1])] = 0 THEN cells[n - 1]
        ELSE Append(cells[n - 1], next[Last(cells[n - 1])])
  IN  cells[Cardinality(Cells)]

\* The cache [head, slot, malloced] once a cell is released.
HAPLO_MCACHE_RELEASE(cache, c) ==
  IF cache.head > 0
  THEN [cache EXCEPT !.head = @ - 1, !.slot[cache.head - 1] = c]
  ELSE [cache EXCEPT !.malloced = @ \ {c}]

-----------------------------------------------------------------------------
\* The cache is empty.
LinkInit ==
  /\ head = SLINK_CACHE_SIZE /\ slot = [n \in 0..(SLINK_CACHE_SIZE - 1) |-> 0]
  /\ malloced = {} /\ lists = <<>>
  /\ next = [c \in Cells |-> 0] /\ linkData = [c \in Cells |-> 0]

__haplo_slink_new ==
  \E new \in Cells, d \in Data :
    /\ HAPLO_MCACHE_GET(new)
    /\ next' = [next EXCEPT ![new] = 0] /\ linkData' = [linkData EXCEPT ![new] = d]
    /\ lists' = Append(lists, [first |-> new, items |-> <<d>>])

\* After any cell of a list.
__haplo_slink_append ==
  \E l \in DOMAIN lists, new \in Cells, d \in Data :
    \E k \in DOMAIN CellsOf(lists[l]) :
      LET prev == CellsOf(lists[l])[k]
      IN  /\ HAPLO_MCACHE_GET(new)
          /\ next' = [next EXCEPT ![new] = next[prev], ![prev] = new]
          /\ linkData' = [linkData EXCEPT ![new] = d]
          /\ lists' = [lists EXCEPT ![l].items = SubSeq(@, 1, k) \o <<d>> \o SubSeq(@, k + 1, Len(@))]

__haplo_slink_prepend ==
  \E l \in DOMAIN lists, new \in Cells, d \in Data :
    /\ HAPLO_MCACHE_GET(new)
    /\ next' = [next EXCEPT ![new] = lists[l].first]
    /\ linkData' = [linkData EXCEPT ![new] = d]
    /\ lists' = [lists EXCEPT ![l] = [first |-> new, items |-> <<d>> \o @.items]]

\* __haplo_slink_free and __haplo_slink_free_f: the next cell is read before one is released.
__haplo_slink_free ==
  \E l \in DOMAIN lists :
    LET cache == FoldLeft(HAPLO_MCACHE_RELEASE,
                          [head |-> head, slot |-> slot, malloced |-> malloced], CellsOf(lists[l]))
    IN  /\ head' = cache.head /\ slot' = cache.slot /\ malloced' = cache.malloced
        /\ lists' = RemoveAt(lists, l)
        /\ UNCHANGED <<next, linkData>>

LinkNext == __haplo_slink_new \/ __haplo_slink_append \/ __haplo_slink_prepend \/ __haplo_slink_free

-----------------------------------------------------------------------------
Cached == {slot[n] : n \in head..(SLINK_CACHE_SIZE - 1)}

\* What a loop over a list sees.
LinksInOrder ==
  \A l \in DOMAIN lists :
    LET cells == CellsOf(lists[l])
    IN  [k \in DOMAIN cells |-> linkData[cells[k]]] = lists[l].items

\* A cell of malloc is in one place: a list, or the cache.
CellsHaveOnePlace ==
  /\ \A l, m \in DOMAIN lists :
       \A j \in DOMAIN CellsOf(lists[l]), k \in DOMAIN CellsOf(lists[m]) :
         CellsOf(lists[l])[j] = CellsOf(lists[m])[k] => <<l, j>> = <<m, k>>
  /\ \A n, o \in head..(SLINK_CACHE_SIZE - 1) : slot[n] = slot[o] => n = o
  /\ \A l \in DOMAIN lists : ToSet(CellsOf(lists[l])) \cap Cached = {}
  /\ malloced = Cached \cup UNION {ToSet(CellsOf(lists[l])) : l \in DOMAIN lists}
=============================================================================
