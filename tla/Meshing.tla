------------------------------- MODULE Meshing -------------------------------
(***************************************************************************)
(* Meshings, their fusion, copies, files and numbering:                    *)
(* modules/fem/src/meshing.c and renum.c.                                  *)
(*                                                                         *)
(* A meshing has a list of nodes and a list of meshes; a mesh points to    *)
(* its nodes (their ranks in the list).  A node or a mesh has a number of  *)
(* the user, which a hash table leads from, and an internal one, n, from 0 *)
(* on, which is the row of whatever is computed about it.                  *)
(***************************************************************************)
EXTENDS Integers, Sequences, FiniteSets, SequencesExt, TLC

CONSTANTS
  Names,        \* names the meshings are bound to
  Dims,         \* dimensions of space
  Users,        \* numbers given by the user, 0 for an automatic one
  Vectors,      \* coordinates
  Files,        \* files that were not written by fem_meshing_save
  MaxNodes,     \* bound: nodes of all meshings
  MaxMeshes,    \* bound: meshes of all meshings
  MaxCalls,     \* bound: operations
  MaxNumber     \* bound: numbers, and what is found in one nobody set

MeshingAssumption ==
  /\ Dims \subseteq Nat /\ Users \subseteq Nat
  /\ MaxNodes \in Nat /\ MaxMeshes \in Nat /\ MaxCalls \in Nat /\ MaxNumber \in Nat

VARIABLES
  meshing,      \* fem_meshing_t, by name; what gives an error leaves it
  calls         \* operations so far

vars == <<meshing, calls>>

None == [dim |-> 0, nodes |-> <<>>, meshes |-> <<>>]

Has(x) == meshing[x] # None

\* meshing_new.  "redefined" is a ghost: a node was defined again.
meshing_new(dim) ==
  [dim |-> dim, nodes |-> <<>>, meshes |-> <<>>, node_max |-> 1, mesh_max |-> 1,
   redefined |-> FALSE]

\* node_get, fem_mesh_get: the rank of what has a number, 0 for none.
RankOf(list, user) ==
  IF \E k \in DOMAIN list : list[k].user = user
    THEN CHOOSE k \in DOMAIN list : list[k].user = user ELSE 0
-----------------------------------------------------------------------------
(* The Reverse Cuthill-McKee numbering (renum.c): "size" nodes are numbered *)
(* from 0; a mesh is the sequence of the internal numbers of its nodes.      *)

Nodes(size) == 0 .. size - 1

\* The pairs of nodes of a mesh in the order of the two loops of renum_neigh_do.
PairsOf(mesh) ==
  FlattenSeq([i \in DOMAIN mesh |-> [j \in 1 .. i - 1 |-> <<mesh[i], mesh[j]>>]])

Edges(meshes) == FlattenSeq([k \in DOMAIN meshes |-> PairsOf(meshes[k])])

RECURSIVE renum_neigh_do(_, _)
\* An edge two meshes share is entered once.
renum_neigh_do(g, edges) ==
  IF edges = <<>> THEN g
  ELSE LET a == Head(edges)[1]  b == Head(edges)[2]
       IN  renum_neigh_do(IF b \in Range(g[a]) THEN g
                          ELSE [g EXCEPT ![a] = Append(@, b), ![b] = Append(@, a)], Tail(edges))

renum_neigh(size, meshes) == renum_neigh_do([i \in Nodes(size) |-> <<>>], Edges(meshes))

\* renum_neigh_prepare: room for the edges of every mesh.
Room(i, meshes) ==
  FoldLeft(LAMBDA s, m : s + (IF i \in Range(m) THEN Len(m) - 1 ELSE 0), 0, meshes)

\* The room that is left is full of zeros, as the table was set.
Slots(size, meshes) ==
  LET neigh == renum_neigh(size, meshes)
  IN  [i \in Nodes(size) |->
         neigh[i] \o [k \in 1 .. Room(i, meshes) - Len(neigh[i]) |-> 0]]

-----------------------------------------------------------------------------
(* The first node of the numbering *)

RECURSIVE renum_level(_, _)
\* The levels from one on: their number and the last one.
renum_level(neigh, s) ==
  LET near == FlattenSeq([k \in DOMAIN s.list |-> neigh[s.list[k]]])
      new(k) == near[k] \notin s.seen /\ \A j \in 1 .. k - 1 : near[j] # near[k]
      order == SelectSeq([k \in DOMAIN near |-> k], new)
      list == [k \in DOMAIN order |-> near[order[k]]]
  IN  IF list = <<>> THEN [e |-> s.e, list |-> s.list]
      ELSE renum_level(neigh, [list |-> list, seen |-> s.seen \cup Range(list), e |-> s.e + 1])

renum_e(neigh, vertex) == renum_level(neigh, [list |-> <<vertex>>, seen |-> {vertex}, e |-> 0])

RECURSIVE Better(_, _)
\* A node of the last level that has more levels, as long as there is one.
Better(neigh, first) ==
  LET r == renum_e(neigh, first)
      deeper == SelectSeq(r.list, LAMBDA v : renum_e(neigh, v).e > r.e)
  IN  IF deeper = <<>> THEN first ELSE Better(neigh, Head(deeper))

renum_choose_first(neigh) == Better(neigh, 0)

-----------------------------------------------------------------------------
(* The numbering *)

\* renum_rcmk_update: every slot of the node, those that are not filled too.
renum_rcmk_update(nb, slots) ==
  FoldLeft(LAMBDA f, j : IF f[j] > 0 THEN [f EXCEPT ![j] = @ - 1] ELSE f, nb, slots)

\* NUMBER
Number(s, slots, i) ==
  [s EXCEPT !.left = @ - 1, !.numbering[i] = s.left - 1,
            !.buffer = (s.left - 1 :> i) @@ @,
            !.nb = renum_rcmk_update(@, slots[i])]

\* Mutant: nodes that have a number are not passed over.
CandidateAny(s, slots, vertex) ==
  LET Choice(c, v) == IF c.min = 0 \/ s.nb[v] < c.min THEN [min |-> s.nb[v], next |-> v] ELSE c
      all == FlattenSeq([k \in 1 .. Cardinality(DOMAIN slots) |-> slots[k - 1]])
  IN  FoldLeft(Choice, [min |-> 0, next |-> Head(all)], slots[vertex]).next

\* renum_rcmk_candidate: a neighbour without a number (zero), with the fewest
\* such neighbours; a minimum of zero counts as none.
renum_rcmk_candidate(s, slots, vertex) ==
  LET Choice(c, v) ==
        IF s.numbering[v] = 0 /\ (c.min = 0 \/ s.nb[v] < c.min)
          THEN [min |-> s.nb[v], next |-> v] ELSE c
      all == FlattenSeq([k \in 1 .. Cardinality(DOMAIN slots) |-> slots[k - 1]])
  IN  FoldLeft(Choice, [min |-> 0, next |-> Head(all)], slots[vertex]).next

RECURSIVE Filled(_, _, _, _), Level(_, _)
\* Every neighbour of a node that has no number yet gets one, as often as it had of them.
Filled(s, slots, v, k) ==
  IF k = 0 THEN s ELSE Filled(Number(s, slots, renum_rcmk_candidate(s, slots, v)), slots, v, k - 1)

\* The numbers of a level, from the last down to the first, are those of the next one's
\* neighbours; without a next level an error.
Level(s, slots) ==
  LET down[i \in 0 .. s.max + 1] ==
        IF i > s.max THEN s
        ELSE LET t == down[i + 1] IN Filled(t, slots, t.buffer[i], t.nb[t.buffer[i]])
      last == down[s.min]
  IN  IF s.left = 0 THEN s
      ELSE IF last.left = s.left THEN [last EXCEPT !.status = -1]
      ELSE Level([last EXCEPT !.max = s.left - 1, !.min = last.left], slots)

renum_rcmk(size, meshes, first) ==
  LET none == [i \in Nodes(size) |-> 0]
      degrees == [i \in Nodes(size) |-> Len(renum_neigh(size, meshes)[i])]
      slots == Slots(size, meshes)
  IN  Level(Number([left |-> size, numbering |-> none, buffer |-> none, nb |-> degrees,
                    min |-> size - 1, max |-> size - 1, status |-> 0], slots, first), slots)

-----------------------------------------------------------------------------
(* Nodes and meshes *)

Padded(at, dim) == [i \in 1 .. dim |-> IF i <= Len(at) THEN at[i] ELSE 0]

\* node_add, fem_node_add: a node that exists gets the coordinates, and the
\* internal number of the last one.
node_add(m, user, at) ==
  LET u == IF user = 0 THEN m.node_max ELSE user
      k == RankOf(m.nodes, u)
      list == IF k = 0 THEN Append(m.nodes, 0) ELSE m.nodes
      node == [n |-> Len(list) - 1, user |-> u, at |-> Padded(at, m.dim)]
  IN  [m EXCEPT !.nodes = [list EXCEPT ![IF k = 0 THEN Len(list) ELSE k] = node],
                !.node_max = IF user = 0 THEN @ + 1 ELSE @,
                !.redefined = @ \/ k # 0]

\* mesh_add_node: nodes are numbered from 1 and have to exist.
CanJoin(m, users) == \A i \in DOMAIN users : users[i] >= 1 /\ RankOf(m.nodes, users[i]) # 0

Pointers(m, users) == [i \in DOMAIN users |-> RankOf(m.nodes, users[i])]

\* Mutant: a number that is taken is not looked for.
MeshTwice(m, user, users) ==
  LET u == IF user = 0 THEN m.mesh_max ELSE user
      counted == [m EXCEPT !.mesh_max = IF user = 0 THEN @ + 1 ELSE @]
  IN  IF ~CanJoin(m, users) THEN counted
      ELSE [counted EXCEPT !.meshes =
              Append(@, [n |-> Len(@), user |-> u, nodes |-> Pointers(m, users)])]

\* mesh_add, fem_mesh_add: refused when the number is taken, or when a node is
\* missing; what was reserved is then removed.
mesh_add(m, user, users) ==
  LET u == IF user = 0 THEN m.mesh_max ELSE user
      counted == [m EXCEPT !.mesh_max = IF user = 0 THEN @ + 1 ELSE @]
  IN  IF RankOf(m.meshes, u) # 0 \/ ~CanJoin(m, users) THEN counted
      ELSE [counted EXCEPT !.meshes =
              Append(@, [n |-> Len(@), user |-> u, nodes |-> Pointers(m, users)])]

UsersOf(m, mesh) == [i \in DOMAIN mesh.nodes |-> m.nodes[mesh.nodes[i]].user]

\* fem_meshing_copy: the next automatic numbers are not copied, nor set.
Copies(m) ==
  {LET c == [m EXCEPT !.node_max = i, !.mesh_max = i]
   IN  [c EXCEPT !.meshes = [k \in DOMAIN m.meshes |->
          [m.meshes[k] EXCEPT !.nodes = Pointers(c, UsersOf(m, m.meshes[k]))]]] :
     i \in {0, MaxNumber}}

\* fem_meshing_add: the numbers of the second are shifted by the next automatic
\* ones of the first.
fem_meshing_add(m1, m2) ==
  LET AddNodes(f, m, s) == FoldLeft(LAMBDA g, d : node_add(g, d.user + s, d.at), f, m.nodes)
      AddMeshes(f, m, s, t) ==
        FoldLeft(LAMBDA g, e : mesh_add(g, e.user + t, [i \in DOMAIN e.nodes |-> UsersOf(m, e)[i] + s]),
                 f, m.meshes)
      one == AddMeshes(AddNodes(meshing_new(m1.dim), m1, 0), m1, 0, 0)
  IN  AddMeshes(AddNodes(one, m2, m1.node_max), m2, m1.node_max, m1.mesh_max)

-----------------------------------------------------------------------------
(* Files *)

D(dim) == [key |-> "D", dim |-> dim]
N(user, at) == [key |-> "N", user |-> user, at |-> at]
M(user, nodes, count) == [key |-> "M", user |-> user, nodes |-> nodes, count |-> count]
X == [key |-> "X"]

\* fem_meshing_save
Saved(m) ==
  <<D(m.dim)>>
  \o [k \in DOMAIN m.nodes |-> N(m.nodes[k].user, m.nodes[k].at)]
  \o [k \in DOMAIN m.meshes |->
        M(m.meshes[k].user, UsersOf(m, m.meshes[k]), Len(m.meshes[k].nodes))]
  \o <<X>>

\* meshing_load: nothing when the dimension is given twice; a line before it, an
\* incomplete mesh or an unknown one is passed with a warning.
Loaded(lines) ==
  LET Read(s, l) ==
        CASE s.end -> s
          [] ~s.end /\ l.key = "D" ->
               IF s.m # None THEN [m |-> None, end |-> TRUE]
               ELSE [s EXCEPT !.m = meshing_new(l.dim)]
          [] ~s.end /\ l.key = "N" ->
               IF s.m = None THEN s ELSE [s EXCEPT !.m = node_add(@, l.user, l.at)]
          [] ~s.end /\ l.key = "M" ->
               IF s.m = None \/ Len(l.nodes) < l.count THEN s
               ELSE [s EXCEPT !.m = mesh_add(@, l.user, l.nodes)]
          [] ~s.end /\ l.key = "X" -> [s EXCEPT !.end = TRUE]
          [] OTHER -> s
  IN  FoldLeft(Read, [m |-> None, end |-> FALSE], lines).m

-----------------------------------------------------------------------------
(* Actions *)

Init == meshing = [x \in Names |-> None] /\ calls = 0

\* The bounds are on what all the meshings have.
Set(x, m) ==
  /\ calls < MaxCalls /\ calls' = calls + 1
  /\ \A e \in Range(m.nodes) \cup Range(m.meshes) : e.user <= MaxNumber
  /\ meshing' = [meshing EXCEPT ![x] = m]
  /\ Cardinality({<<y, k>> \in Names \X (1 .. MaxNodes + 1) : k <= Len(meshing'[y].nodes)}) <= MaxNodes
  /\ Cardinality({<<y, k>> \in Names \X (1 .. MaxMeshes + 1) : k <= Len(meshing'[y].meshes)}) <= MaxMeshes

New(x, dim) == ~Has(x) /\ Set(x, meshing_new(dim))

\* fem_node_add, fem_node_add_automatic
NodeAdd(x, user, at) ==
  /\ Has(x) /\ meshing[x].node_max < MaxNumber
  /\ Len(at) <= meshing[x].dim
  /\ Set(x, node_add(meshing[x], user, at))

\* fem_mesh_add, fem_mesh_add_automatic
MeshAdd(x, user, nodes) ==
  /\ Has(x) /\ meshing[x].mesh_max < MaxNumber
  /\ Set(x, mesh_add(meshing[x], user, nodes))

\* fem_meshing_copy, before a meshing with two names is altered.  One without
\* nodes or meshes gets a table of size zero, by which its first use divides.
Copy(x, y) == Has(x) /\ meshing[x].meshes # <<>> /\ \E c \in Copies(meshing[x]) : Set(y, c)

\* Those there are to add to one.
Others == ({meshing[y] : y \in Names} \cup {Loaded(lines) : lines \in Files}) \ {None}

Fuse(x, m) ==
  /\ Has(x) /\ meshing[x].dim = m.dim
  /\ Set(x, fem_meshing_add(meshing[x], m))

Load(x, lines) == Loaded(lines) # None /\ Set(x, Loaded(lines))

SaveAndLoad(x) == Has(x) /\ Load(x, Saved(meshing[x]))

\* The meshes as the renumbering sees them.
Internal(m) ==
  [k \in DOMAIN m.meshes |->
     [i \in DOMAIN m.meshes[k].nodes |-> m.nodes[m.meshes[k].nodes[i]].n]]

\* fem_renum_rcmk (first = 0), fem_renum_rcmk_from
Renumbering(m, first) ==
  LET size == Len(m.nodes)
      neigh == renum_neigh(size, Internal(m))
      from == IF first = 0 THEN renum_choose_first(neigh)
              ELSE IF first > size THEN size - 1 ELSE first - 1
  IN  renum_rcmk(size, Internal(m), from)

\* renum_apply: only when every node got a number.
Renumber(x, first) ==
  /\ Has(x) /\ meshing[x].meshes # <<>> /\ ~meshing[x].redefined
  /\ LET m == meshing[x]  r == Renumbering(m, first)
     IN  /\ r.status = 0
         /\ Set(x, [m EXCEPT !.nodes = [k \in DOMAIN @ |->
                      [@[k] EXCEPT !.n = r.numbering[@]]]])

Joined == {<<1, 2>>, <<2, 3>>, <<1, 0>>}

Next ==
  \/ \E x \in Names :
       \/ \E dim \in Dims : New(x, dim)
       \/ \E user \in Users, at \in Vectors : NodeAdd(x, user, at)
       \/ \E user \in Users, nodes \in Joined : MeshAdd(x, user, nodes)
       \/ \E y \in Names : Copy(x, y)
       \/ \E m \in Others : Fuse(x, m)
       \/ SaveAndLoad(x)
       \/ \E lines \in Files : Load(x, lines)
       \/ \E first \in 0 .. MaxNodes + 1 : Renumber(x, first)

Spec == Init /\ [][Next]_vars

-----------------------------------------------------------------------------
(* Properties *)

Distinct(list) == \A j, k \in DOMAIN list : list[j].user = list[k].user => j = k

Numbered(list) == {list[k].n : k \in DOMAIN list} = 0 .. Len(list) - 1

\* The internal numbers are those of the rows 0 to N-1, each once: an element
\* array and a table of degrees of freedom are indexed by them (element.c:362,
\* numbering.c:153).  A node that is defined again breaks it (meshing.c:235).
RowsDistinct ==
  \A x \in Names : Has(x) =>
    LET m == meshing[x]
    IN  /\ Distinct(m.nodes) /\ Distinct(m.meshes)
        /\ Numbered(m.meshes)
        /\ ~m.redefined => Numbered(m.nodes)
        /\ \A k \in DOMAIN m.meshes : Range(m.meshes[k].nodes) \subseteq DOMAIN m.nodes

\* The same meshing up to the order of the lists and the internal numbers.
Same(m, c) ==
  LET Points(g) == {[user |-> d.user, at |-> d.at] : d \in Range(g.nodes)}
      Lines(g) == {[user |-> e.user, nodes |-> UsersOf(g, e)] : e \in Range(g.meshes)}
  IN  m.dim = c.dim /\ Points(m) = Points(c) /\ Lines(m) = Lines(c)

\* A meshing comes back from its file, and from a copy with its internal numbers
\* (meshing.c:691-763, 856-968, 1007-1096).
ComesBack ==
  \A x \in Names : Has(x) =>
    LET m == meshing[x]
        ByUser(g, list) == {<<list[k].user, list[k].n>> : k \in DOMAIN list}
    IN  /\ (\A d \in Range(m.nodes) \cup Range(m.meshes) : d.user # 0)
             => Same(m, Loaded(Saved(m)))
        /\ RankOf(m.nodes, 0) = 0 =>
             \A c \in Copies(m) : /\ Same(m, c)
                                  /\ ByUser(c, c.nodes) = ByUser(m, m.nodes)
                                  /\ ByUser(c, c.meshes) = ByUser(m, m.meshes)

\* The fusion of two meshings holds both, the second one shifted, as long as the
\* first one's numbers are all automatic (meshing.c:1187-1206).
FusionWhole ==
  \A x \in Names, o \in Others :
    LET m == meshing[x]
        Automatic(list, max) == \A k \in DOMAIN list : list[k].user \in 1 .. max - 1
        f == fem_meshing_add(m, o)
        Shifted(d) == [user |-> d.user + m.node_max, at |-> d.at]
        Moved(e) == [user |-> e.user + m.mesh_max,
                     nodes |-> [i \in DOMAIN e.nodes |-> UsersOf(o, e)[i] + m.node_max]]
    IN  (/\ Has(x) /\ m.dim = o.dim
         /\ Automatic(m.nodes, m.node_max) /\ Automatic(m.meshes, m.mesh_max)
         /\ m.mesh_max > 0 /\ RankOf(o.nodes, 0) = 0) =>
          /\ {[user |-> d.user, at |-> d.at] : d \in Range(f.nodes)} =
               {[user |-> d.user, at |-> d.at] : d \in Range(m.nodes)}
                 \cup {Shifted(d) : d \in Range(o.nodes)}
          /\ {[user |-> e.user, nodes |-> UsersOf(f, e)] : e \in Range(f.meshes)} =
               {[user |-> e.user, nodes |-> UsersOf(m, e)] : e \in Range(m.meshes)}
                 \cup {Moved(e) : e \in Range(o.meshes)}

Linked(m) ==
  LET size == Len(m.nodes)
      neigh == renum_neigh(size, Internal(m))
      reached[k \in Nat] == IF k = 0 THEN {0}
                            ELSE reached[k - 1] \cup UNION {Range(neigh[i]) : i \in reached[k - 1]}
  IN  reached[size] = Nodes(size)

\* The renumbering gives every node of a linked meshing a number, from any first
\* one, when no edge is shared by two meshes; else it may say that parts are not
\* linked (renum.c:591).  It starts from a node with no deeper one on its last level.
Renumbered ==
  \A m \in IF calls = 0 THEN Others ELSE {meshing[x] : x \in Names} :
    LET size == Len(m.nodes)
        neigh == renum_neigh(size, Internal(m))
        shared == \E i \in Nodes(size) : Room(i, Internal(m)) # Len(neigh[i])
        first == renum_choose_first(neigh)
    IN  (m.meshes # <<>> /\ ~m.redefined) =>
          /\ \A v \in Range(renum_e(neigh, first).list) :
               renum_e(neigh, v).e <= renum_e(neigh, first).e
          /\ \A f \in 0 .. size :
               LET r == Renumbering(m, f)
               IN  /\ r.status = 0 => Linked(m) /\ Range([i \in 1 .. size |-> r.numbering[i - 1]]) = Nodes(size)
                   /\ (Linked(m) /\ ~shared) => r.status = 0

\* "Meshing contains unlinked parts." (renum.c:593)
UnlinkedOnly ==
  \A x \in Names :
    (Has(x) /\ meshing[x].meshes # <<>> /\ ~meshing[x].redefined) =>
      (Linked(meshing[x]) => Renumbering(meshing[x], 0).status = 0)
=============================================================================
