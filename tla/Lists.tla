-------------------------------- MODULE Lists --------------------------------
(* The lists of the library (kernel/libhaplo/list.c): pages of a fixed size, *)
(* each twice the one before or as large as the block asked for; elements    *)
(* are only added to and removed from the last page. A list of objects       *)
(* (olist.c) is one of them with a cursor. A page is [size, content].        *)
EXTENDS Integers, Sequences, SequencesExt

CONSTANTS
  Elements,    \* what is put in a list
  PageSizes,   \* sizes of the first page
  MaxElements  \* bound on the elements of a list

ASSUME ListAssumption == PageSizes \subseteq Nat /\ MaxElements \in Nat

VARIABLES
  pages,    \* the pages, from "first" to "last"
  added,    \* the size of the last block added, 0 once it may not be taken back
  listPage, rank,  \* page and i, the cursor of the list of objects; page 0 is no page
  given,    \* what haplo_olist_arg has given since haplo_olist_start
  items,    \* the sequence the list stands for
  places    \* where each of the items was put: its page and its rank there

listVars == <<pages, added, listPage, rank, given, items, places>>

list_page_new(size) == [size |-> size, content |-> <<>>]
nb(p) == Len(p.content)

haplo_list_size(ps) == FoldLeft(LAMBDA n, p : n + nb(p), 0, ps)
haplo_list_vector(ps) == FoldLeft(LAMBDA v, p : v \o p.content, <<>>, ps)

\* Ranks begin at 0; null is <<>>.
haplo_list_get(ps, indice) ==
  LET before(q) == haplo_list_size(SubSeq(ps, 1, q - 1))
      in == {q \in DOMAIN ps : before(q) <= indice /\ indice < before(q) + nb(ps[q])}
  IN  IF in = {} THEN <<>>
      ELSE LET q == CHOOSE q \in in : TRUE IN <<ps[q].content[indice - before(q) + 1]>>

\* The first element the function accepts.
haplo_list_search(ps, Test(_)) ==
  LET vector == haplo_list_vector(ps)
      found == SelectInSeq(vector, Test)
  IN  IF found = 0 THEN <<>> ELSE <<vector[found]>>

\* A block is never cut: when it does not fit, a new page begins with it.
haplo_list_append_n(ps, block) ==
  LET last == Last(ps)
      full == last.size - nb(last) < Len(block)
      size == IF Len(block) > 2 * last.size THEN Len(block) ELSE 2 * last.size
      room == IF full THEN Append(ps, list_page_new(size)) ELSE ps
  IN  [room EXCEPT ![Len(room)].content = @ \o block]

haplo_list_append_content(ps, e) == haplo_list_append_n(ps, <<e>>)

haplo_list_remove_n(ps, n) ==
  [ps EXCEPT ![Len(ps)].content = SubSeq(@, 1, Len(@) - n)]

haplo_list_merge(ps, others) ==
  FoldLeft(haplo_list_append_content, ps, haplo_list_vector(others))

-----------------------------------------------------------------------------
ListInit ==
  /\ \E size \in PageSizes : pages = <<list_page_new(size)>>
  /\ added = 0 /\ listPage = 1 /\ rank = 0
  /\ given = <<>> /\ items = <<>> /\ places = <<>>

\* Where a block of that length is put.
Put(block, new) ==
  LET q == Len(new)  first == nb(new[q]) - Len(block)
  IN  places \o [j \in DOMAIN block |-> <<q, first + j>>]

AppendN ==
  \E n \in 1..MaxElements : \E block \in [1..n -> Elements] :
    /\ Len(items) + n <= MaxElements
    /\ pages' = haplo_list_append_n(pages, block)
    /\ items' = items \o block
    /\ places' = Put(block, pages')
    /\ added' = n
    /\ UNCHANGED <<listPage, rank, given>>

\* A block just added is taken back (as meshing.c does when a mesh is wrong).
RemoveN ==
  /\ added > 0
  /\ pages' = haplo_list_remove_n(pages, added)
  /\ items' = SubSeq(items, 1, Len(items) - added)
  /\ places' = SubSeq(places, 1, Len(items) - added)
  /\ added' = 0 /\ listPage' = 1 /\ rank' = 0 /\ given' = <<>>

\* A list merged into itself would be read while it grows; two lists are merged here.
Merge ==
  \E e \in Elements :
    LET other == haplo_list_append_content(<<list_page_new(1)>>, e)
    IN  /\ Len(items) < MaxElements
        /\ pages' = haplo_list_merge(pages, other)
        /\ items' = Append(items, e)
        /\ places' = Put(<<e>>, pages')
        /\ added' = 0
        /\ UNCHANGED <<listPage, rank, given>>

haplo_olist_start ==
  /\ listPage' = 1 /\ rank' = 0 /\ given' = <<>> /\ added' = 0
  /\ UNCHANGED <<pages, items, places>>

\* The cursor is moved past a page as soon as its last element is given.
haplo_olist_arg ==
  /\ items # <<>> /\ listPage \in DOMAIN pages /\ rank < nb(pages[listPage])
  /\ given' = Append(given, pages[listPage].content[rank + 1])
  /\ IF rank + 1 < nb(pages[listPage]) THEN listPage' = listPage /\ rank' = rank + 1
     ELSE listPage' = (IF listPage < Len(pages) THEN listPage + 1 ELSE 0) /\ rank' = 0
  /\ added' = 0
  /\ UNCHANGED <<pages, items, places>>

ListNext == AppendN \/ RemoveN \/ Merge \/ haplo_olist_start \/ haplo_olist_arg

-----------------------------------------------------------------------------
\* The list is the sequence of what was added and not removed.
ListIsSequence ==
  /\ haplo_list_size(pages) = Len(items)
  /\ haplo_list_vector(pages) = items
  /\ \A k \in 0..Len(items) :
       haplo_list_get(pages, k) = IF k < Len(items) THEN <<items[k + 1]>> ELSE <<>>
  /\ \A e \in Elements :
       haplo_list_search(pages, LAMBDA x : x = e) = IF e \in ToSet(items) THEN <<e>> ELSE <<>>

\* The place of an element is its own for ever: those who kept its address may use it.
PlacesStay ==
  \A k \in DOMAIN items :
    LET q == places[k][1]  r == places[k][2]
    IN  /\ r <= pages[q].size
        /\ pages[q].content[r] = items[k]
        /\ \A l \in DOMAIN items : places[l] = places[k] => l = k

\* A reader of the list is given its elements in order, none twice.
GivenInOrder == IsPrefix(given, items)
=============================================================================
