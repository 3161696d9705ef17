----------------------------- MODULE Containers ------------------------------
(* The containers of the library: a list, a hash table and linked lists over *)
(* a cache of cells, each used as it may be, in any order of their calls.    *)
(* They share nothing.                                                       *)
EXTENDS Lists, Tables, Links

containersVars == <<listVars, tableVars, linkVars>>

ContainersInit == ListInit /\ TableInit /\ LinkInit

ContainersNext ==
  \/ ListNext /\ UNCHANGED <<tableVars, linkVars>>
  \/ TableNext /\ UNCHANGED <<listVars, linkVars>>
  \/ LinkNext /\ UNCHANGED <<listVars, tableVars>>

ContainersSpec == ContainersInit /\ [][ContainersNext]_containersVars

\* Lists, tables and links hold what was put in them, in order, in one place each
\* (list.c, olist.c, hash.tmpl, hash.c, slink.c, memory.c).
ContainersExact ==
  /\ ListIsSequence /\ PlacesStay /\ GivenInOrder
  /\ TableIsFunction /\ ChainsWhole /\ LoopsInOrder /\ EntriesCounted
  /\ LinksInOrder /\ CellsHaveOnePlace
=============================================================================
