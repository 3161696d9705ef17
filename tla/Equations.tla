------------------------------ MODULE Equations ------------------------------
(***************************************************************************)
(* From a model, its conditions and its loads to a system of equations:    *)
(* modules/fem/src/model.c, element.c, group.c, bc.c, load.c, numbering.c  *)
(* and problem.c.                                                          *)
(*                                                                         *)
(* Every degree of freedom a mesh brings to a node has an equation; every  *)
(* condition has two, one before the first of its degrees of freedom and   *)
(* one after the last, so that the matrix factorizes without pivoting.     *)
(***************************************************************************)
EXTENDS Integers, Sequences, FiniteSets, SequencesExt

CONSTANTS
  Meshings,     \* meshings: the users of their nodes, in the order of n, and meshes
  ElementTypes, \* element types, in the order of their registration
  Dofs,         \* degrees of freedom a type may have: 0, 1...
  Groups,       \* groups of numbers
  Conditions,   \* lists of conditions given by strings
  Forces,       \* lists of loads given by strings
  Unset,        \* what is found in beta before the stiffness is computed
  SystemCalls   \* bound: operations

\* A part of a condition, and a condition, which has one at least.
BcParts == [node : Nat, dof : Dofs, coef : Int]
Bcs == [parts : Seq(BcParts) \ {<<>>}, value : Int]

ElementKinds ==
  [nodes : Nat, dim : Nat, dofset : SUBSET Dofs, features : SUBSET STRING,
   hooked : BOOLEAN, integrated : BOOLEAN]

ASSUME EquationsAssumption ==
  /\ Dofs \subseteq Nat /\ IsFiniteSet(Dofs) /\ SystemCalls \in Nat
  /\ ElementTypes \in Seq(ElementKinds)
  /\ \A m \in Meshings : m.nodes \in Seq(Nat)
  /\ \A g \in Groups : g.list \in Seq(Nat)
  /\ Conditions \subseteq Seq(Bcs)

VARIABLES
  meshing,      \* fem_meshing_t
  element,      \* the type of the element of each mesh (element_t)
  material,     \* a material was given to the model
  problem,      \* fem_problem_t
  matrix,       \* fem_matrix_t made from the problem
  vector,       \* fem_vector_t made from the problem
  requested     \* operations so far

systemVars == <<meshing, element, material, problem, matrix, vector, requested>>

None == [none |-> TRUE]

Size == Len(meshing.nodes)
Meshes == DOMAIN meshing.meshes

\* fem_node_internal: the number of nodes for a node that is not there.
Internal(user) ==
  IF \E k \in DOMAIN meshing.nodes : meshing.nodes[k] = user
    THEN (CHOOSE k \in DOMAIN meshing.nodes : meshing.nodes[k] = user) - 1 ELSE Size

-----------------------------------------------------------------------------
(* Model *)

\* element_type_get_default
Default(m, mesh) ==
  SelectInSeq(ElementTypes,
              LAMBDA t : t.nodes = Len(mesh.nodes) /\ t.dim = m.dim)

\* __fem_element_create: there is a type for every mesh.
CanModel(m) == m.meshes # <<>> /\ \A k \in DOMAIN m.meshes : Default(m, m.meshes[k]) # 0

\* model_set_element: as many nodes, in the same space.
Set(e, k, type) ==
  IF ElementTypes[e[k]].nodes = ElementTypes[type].nodes
     /\ ElementTypes[type].dim = meshing.dim
    THEN [e EXCEPT ![k] = type] ELSE e

TypeOf(k) == ElementTypes[element[k]]

-----------------------------------------------------------------------------
(* Numbering *)

\* numbering_update: a table for every degree of freedom an element has, with 1
\* for the nodes it is defined at; the last place, of a node that is not there,
\* has 1 too.
Tables ==
  LET At(d) == UNION {Range(meshing.meshes[k].nodes) : k \in {j \in Meshes : d \in TypeOf(j).dofset}}
  IN  [d \in UNION {TypeOf(k).dofset : k \in Meshes} |->
         [n \in 0 .. Size |-> IF n = Size \/ n \in At(d) THEN 1 ELSE 0]]

Earlier(p, q) == p[1] < q[1] \/ (p[1] = q[1] /\ p[2] < q[2])

\* The elements of S in the order the pairs of R give them.
InOrder(S, R) ==
  [k \in 1 .. Cardinality(S) |-> CHOOSE x \in S : Cardinality({y \in S : <<y, x>> \in R}) = k - 1]

PlaceOf(part) == <<Internal(part.node), part.dof>>

\* Mutant: by the first of their parts.
SortedByPart(conditions) ==
  LET Less(a, b) == LET p == PlaceOf(conditions[a].parts[1])  q == PlaceOf(conditions[b].parts[1])
                    IN  Earlier(p, q) \/ (p = q /\ a < b)
  IN  InOrder(DOMAIN conditions, {ab \in (DOMAIN conditions) \X (DOMAIN conditions) : Less(ab[1], ab[2])})

\* bc_compare: by the first of their degrees of freedom, then as they were given.
FirstOf(c) ==
  CHOOSE p \in {PlaceOf(c.parts[i]) : i \in DOMAIN c.parts} :
    \A i \in DOMAIN c.parts : ~Earlier(PlaceOf(c.parts[i]), p)

bc_compare(a, b, conditions) ==
  LET p == FirstOf(conditions[a])  q == FirstOf(conditions[b])
  IN  Earlier(p, q) \/ (p = q /\ a < b)

Sorted(conditions) ==
  InOrder(DOMAIN conditions,
          {ab \in (DOMAIN conditions) \X (DOMAIN conditions) : bc_compare(ab[1], ab[2], conditions)})

Involves(c, n, d) == \E i \in DOMAIN c.parts : PlaceOf(c.parts[i]) = <<n, d>>

\* A part that has no number yet.
Waits(row, c) ==
  \E i \in DOMAIN c.parts :
    c.parts[i].dof \in DOMAIN row /\ row[c.parts[i].dof][Internal(c.parts[i].node)] = 1

\* __fem_bc_numbering_l1: the conditions that come next and involve the degree
\* of freedom d of the node n.
Opened(s, conditions, n, d) ==
  LET next == {j \in s.nb1 + 1 .. Len(s.order) :
                 \A i \in s.nb1 + 1 .. j : Involves(conditions[s.order[i]], n, d)}
      current == s.current + s.l2 + 1
  IN  [s EXCEPT !.nb1 = @ + Cardinality(next),
                !.lambda1 = [c \in DOMAIN @ |->
                   IF \E j \in next : s.order[j] = c
                     THEN current + (CHOOSE j \in next : s.order[j] = c) - s.nb1 - 1
                     ELSE @[c]]]

\* __fem_bc_numbering_l2: the conditions that are open and wait for nothing; they
\* change places with those at the front.
Close(t, conditions, j) ==
  IF Waits(t.row, conditions[t.order[j]]) THEN t
  ELSE [t EXCEPT !.nb2 = @ + 1, !.l2 = @ + 1,
                 !.lambda2[t.order[j]] = t.current + 1 + t.l2,
                 !.order[j] = t.order[t.nb2 + 1],
                 !.order[t.nb2 + 1] = t.order[j]]

Closed(s, conditions) ==
  FoldLeft(LAMBDA t, j : Close(t, conditions, j), [s EXCEPT !.l2 = 0],
           [j \in 1 .. s.nb1 - s.nb2 |-> s.nb2 + j])

\* numbering_finish: a degree of freedom of a node, after the conditions it opens and
\* before those it closes.
Number(s, conditions, p) ==
  LET o == Opened(s, conditions, p[1], p[2])
      current == s.current + s.row[p[2]][p[1]] + (o.nb1 - s.nb1) + s.l2
  IN  Closed([o EXCEPT !.current = current,
                       !.total = @ + s.row[p[2]][p[1]],
                       !.row[p[2]][p[1]] = IF @ > 0 THEN current ELSE @],
             conditions)

\* Every degree of freedom of every node, node by node.
AllPlaces == (0 .. Size - 1) \X (DOMAIN Tables)

\* __fem_numbering_create
fem_numbering_create(conditions) ==
  LET zeros == [c \in DOMAIN conditions |-> 0]
      s == FoldLeft(LAMBDA t, p : Number(t, conditions, p),
             [row |-> Tables, lambda1 |-> zeros, lambda2 |-> zeros, current |-> 0, l2 |-> 0,
              total |-> 0, nb1 |-> 0, nb2 |-> 0, order |-> Sorted(conditions)],
             InOrder(AllPlaces, {pq \in AllPlaces \X AllPlaces : Earlier(pq[1], pq[2])}))
  IN  [row |-> s.row, lambda1 |-> s.lambda1, lambda2 |-> s.lambda2, dof |-> s.total]

Equal(p) == p.dof + 2 * Len(p.lambda1)

\* numbering_finish_lambda
Failed(p) == \E c \in DOMAIN p.lambda1 : p.lambda1[c] = 0 \/ p.lambda2[c] = 0

\* __fem_numbering_local: the loops on the nodes stop at "no", "the number of node of
\* the model"; <<>> when nothing is found.
fem_numbering_local(p, no, dof) ==
  LET Stops(d, n) == p.row[d][n] >= dof
      At(d) == CHOOSE n \in 0 .. no : /\ n = no \/ Stops(d, n)
                                      /\ \A m \in 0 .. n - 1 : ~Stops(d, m)
      found == {d \in DOMAIN p.row : At(d) < no /\ p.row[d][At(d)] = dof}
      bcs == {c \in DOMAIN p.lambda1 : dof \in {p.lambda1[c], p.lambda2[c]}}
  IN  CASE found # {} -> LET d == CHOOSE d \in found : \A e \in found : d <= e
                         IN  <<d, At(d)>>
        [] found = {} /\ bcs # {} -> <<"LAMBDA", CHOOSE c \in bcs : \A b \in bcs : c <= b>>
        [] OTHER -> <<>>

\* fem_problem_dof_get_local gives the number of meshes for "no" (problem.c:279).
fem_problem_dof_get_local(p, dof) == fem_numbering_local(p, Len(meshing.meshes), dof)

-----------------------------------------------------------------------------
(* Matrix: diag[i] is the place of the coefficient (i, i) in coef, where those *)
(* of the column i before it are, from the first that is not zero.             *)

\* The degrees of freedom of the element k, node by node, and their equations.
DofsOf(k) ==
  LET dofs == SetToSortSeq(TypeOf(k).dofset, <)
      nodes == meshing.meshes[k].nodes
  IN  FlattenSeq([i \in DOMAIN nodes |-> [j \in DOMAIN dofs |-> <<nodes[i], dofs[j]>>]])

RowOf(p, n, d) == p.row[d][n] - 1

Rows(p) ==
  [k \in Meshes |-> LET dofs == DofsOf(k) IN [i \in DOMAIN dofs |-> RowOf(p, dofs[i][1], dofs[i][2])]]

PartRows(p, c) == [i \in DOMAIN c.parts |-> RowOf(p, Internal(c.parts[i].node), c.parts[i].dof)]

Greatest(S, init) == IF S = {} THEN init ELSE CHOOSE x \in S : \A y \in S : y <= x

\* __fem_element_matrix_profile, __fem_bc_matrix_profile, problem_matrix
Profile(p) ==
  LET of == [k \in Meshes |-> Range(Rows(p)[k])]
      Height(r) ==
        LET close == {r - i : i \in UNION {{i \in of[k] : i <= r} : k \in {j \in Meshes : r \in of[j]}}}
            open == {r - (p.lambda1[c] - 1) :
                       c \in {b \in DOMAIN p.bc : r \in Range(PartRows(p, p.bc[b]))}}
            closing == {p.lambda2[c] - p.lambda1[c] :
                          c \in {b \in DOMAIN p.bc : p.lambda2[b] - 1 = r}}
        IN  IF closing # {} THEN Greatest(closing, 0) ELSE Greatest(close \cup open, 0)
      diag[r \in 0 .. Equal(p) - 1] == Height(r) + IF r = 0 THEN 0 ELSE diag[r - 1] + 1
  IN  diag

At(diag, i, j) == IF i < j THEN diag[j] + i - j ELSE diag[i] + j - i

\* What an element computes for its degrees of freedom i and j, j <= i: any
\* numbers that tell the places and the features apart.
Computed(feature, i, j) == IF feature = "K" THEN 2 * (5 * i + j) ELSE 3 * i + j

\* element_matrix_compute: nothing without a function, without its material, or
\* when the jacobian of a mesh that is integrated is not positive.
Contributes(k, feature) ==
  LET t == TypeOf(k)
  IN  /\ feature \in t.features
      /\ t.hooked => material
      /\ t.integrated => meshing.meshes[k].jacobian > 0

\* __fem_element_matrix_compute, element_matrix_update
Assembled(p, feature) ==
  LET diag == Profile(p)
      rows == Rows(p)
      Put(k, coef, i) ==
        FoldLeftDomain(LAMBDA f, j : [f EXCEPT ![At(diag, rows[k][i], rows[k][j])] =
                                        @ + Computed(feature, i, j)],
                       coef, [j \in 1 .. i |-> j])
      Element(coef, k) ==
        IF Contributes(k, feature)
          THEN FoldLeftDomain(LAMBDA f, i : Put(k, f, i), coef, rows[k]) ELSE coef
  IN  [diag |-> diag, feature |-> feature,
       coef |-> FoldLeftDomain(Element, [x \in 0 .. diag[Equal(p) - 1] |-> 0], meshing.meshes)]

\* bc_gsm_alpha: half the sum of the greatest and the smallest on the diagonal.
Alpha(m) ==
  LET on == {m.coef[m.diag[i]] : i \in DOMAIN m.diag} \ {0}
  IN  IF on = {} THEN 1 ELSE (Greatest(on, 0) + (CHOOSE x \in on : \A y \in on : x <= y)) \div 2

\* Mutant: the coefficients of the second equation are not in the column of l2.
ConstrainedOnce(p, m) ==
  LET alpha == Alpha(m)
      Write(coef, c) ==
        LET l1 == p.lambda1[c] - 1
            l2 == p.lambda2[c] - 1
            Part(f, i) ==
              LET r == PartRows(p, p.bc[c])[i]
              IN  [f EXCEPT ![m.diag[r] - r + l1] = alpha * p.bc[c].parts[i].coef]
        IN  [FoldLeftDomain(Part, coef, p.bc[c].parts)
               EXCEPT ![m.diag[l1]] = -alpha,
                      ![m.diag[l2] - l2 + l1] = alpha,
                      ![m.diag[l2]] = -alpha]
  IN  [m EXCEPT !.coef = FoldLeftDomain(Write, @, p.bc)]

\* bc_gsm_compute: the coefficients are written, not added.
Constrained(p, m) ==
  LET alpha == Alpha(m)
      Write(coef, c) ==
        LET l1 == p.lambda1[c] - 1
            l2 == p.lambda2[c] - 1
            Part(f, i) ==
              LET r == PartRows(p, p.bc[c])[i]
              IN  [f EXCEPT ![m.diag[r] - r + l1] = alpha * p.bc[c].parts[i].coef,
                            ![m.diag[l2] - l2 + r] = alpha * p.bc[c].parts[i].coef]
        IN  [FoldLeftDomain(Part, coef, p.bc[c].parts)
               EXCEPT ![m.diag[l1]] = -alpha,
                      ![m.diag[l2] - l2 + l1] = alpha,
                      ![m.diag[l2]] = -alpha]
  IN  [m EXCEPT !.coef = FoldLeftDomain(Write, @, p.bc)]

-----------------------------------------------------------------------------
(* Vector *)

\* load_node_vector, load_mesh_vector: the equations a load is added to.
LoadedRows(p, l) ==
  LET n == Internal(l.n)
      mesh == SelectInSeq(meshing.meshes, LAMBDA e : e.user = l.n)
  IN  CASE l.type = "node" ->
             IF l.dof \in DOMAIN p.row /\ p.row[l.dof][n] > 0 THEN {RowOf(p, n, l.dof)} ELSE {}
        [] l.type = "mesh" ->
             IF meshing.dim \in {2, 3} /\ mesh # 0 /\ "F" \in TypeOf(mesh).features
                /\ (TypeOf(mesh).integrated => meshing.meshes[mesh].jacobian # 0)
               THEN {RowOf(p, i, l.dof) : i \in Range(meshing.meshes[mesh].nodes)} ELSE {}

\* fem_problem_vector
Vector(p) ==
  LET zeros == [i \in 0 .. Equal(p) - 1 |-> 0]
      Bc(b, c) == [b EXCEPT ![p.lambda1[c] - 1] = @ + p.beta * p.bc[c].value,
                            ![p.lambda2[c] - 1] = @ + p.beta * p.bc[c].value]
      Load(b, j) == [i \in DOMAIN b |->
                       b[i] + IF i \in LoadedRows(p, p.load[j]) THEN p.load[j].value ELSE 0]
  IN  FoldLeftDomain(Load, FoldLeftDomain(Bc, zeros, p.bc), p.load)

-----------------------------------------------------------------------------
(* Conditions and loads *)

\* fem_group_new_node_from_meshing, fem_group_new_mesh_from_meshing
Everything ==
  {[type |-> "node", list |-> meshing.nodes],
   [type |-> "mesh", list |-> [k \in Meshes |-> meshing.meshes[k].user]]}

Part(n, d, c) == [node |-> n, dof |-> d, coef |-> c]

\* bc_set_node_loop: a condition for each node.
Fixed(list, d, v) == [i \in DOMAIN list |-> [parts |-> <<Part(list[i], d, 1)>>, value |-> v]]

\* bc_equal_loop: each node with the one before it.
Same(list, d) ==
  [i \in 1 .. Len(list) - 1 |->
     [parts |-> <<Part(list[i], d, 1), Part(list[i + 1], d, -1)>>, value |-> 0]]

\* fem_bc_new_from_group: nothing but an error for a group of meshes.
OfGroup(g) == IF g.type = "node" THEN g.list ELSE <<>>

\* fem_bc_add puts a list behind another.
BcLists ==
  LET groups == {OfGroup(g) : g \in Groups \cup Everything}
      made == UNION {{Fixed(l, d, 1), Same(l, d)} : l \in groups, d \in Dofs}
  IN  Conditions \cup made \cup {b \o a : a \in Conditions, b \in made}

\* fem_load_add puts the second list behind a copy of the first, which has no
\* element (list.c:402).
fem_load_add(a, b) == b

\* fem_load_new_from_group
LoadLists ==
  LET Loaded(g, d) ==
        [i \in DOMAIN g.list |-> [type |-> g.type, n |-> g.list[i], dof |-> d, value |-> 2]]
      made == {Loaded(g, d) : g \in Groups \cup Everything, d \in Dofs}
  IN  Forces \cup {fem_load_add(a, b) : a \in made, b \in Forces}

-----------------------------------------------------------------------------
(* Actions *)

\* A model with any elements its meshes may have, with a material or without.
SystemInit ==
  /\ meshing \in Meshings /\ CanModel(meshing)
  /\ \E types \in [Meshes -> DOMAIN ElementTypes] :
       element = [k \in Meshes |->
                    Set([j \in Meshes |-> Default(meshing, meshing.meshes[j])], k, types[k])[k]]
  /\ material \in BOOLEAN
  /\ problem = None /\ matrix = None /\ vector = <<>>
  /\ requested = 0

\* fem_model_set_element, fem_model_set_element_n
SetElement(which, type) ==
  /\ element' = [k \in Meshes |-> IF k \in which THEN Set(element, k, type)[k] ELSE element[k]]
  /\ UNCHANGED <<meshing, material, problem, matrix, vector>>

SetMaterial ==
  /\ material' = TRUE
  /\ UNCHANGED <<meshing, element, problem, matrix, vector>>

\* fem_problem_new: beta is not set.
ProblemNew(bc, load) ==
  /\ LET p == fem_numbering_create(bc)
     IN  problem' = IF Failed(p) THEN None
                    ELSE [row |-> p.row, lambda1 |-> p.lambda1, lambda2 |-> p.lambda2,
                          dof |-> p.dof, bc |-> bc, load |-> load, beta |-> Unset]
  /\ UNCHANGED <<meshing, element, material, matrix, vector>>

\* The rows a computation reads are there.  They may not be when elements were
\* changed since, or when a condition of an open problem names one no element
\* has: what is then read and written is not in the tables.
RowThere(p, n, d) == d \in DOMAIN p.row /\ n < Size /\ p.row[d][n] > 0

RowsThere(p) ==
  /\ \A k \in Meshes, n \in 0 .. Size - 1, d \in Dofs :
       n \in Range(meshing.meshes[k].nodes) /\ d \in TypeOf(k).dofset => RowThere(p, n, d)
  /\ \A c \in DOMAIN p.bc : \A i \in DOMAIN p.bc[c].parts :
       RowThere(p, Internal(p.bc[c].parts[i].node), p.bc[c].parts[i].dof)

\* fem_problem_gsm
Gsm ==
  /\ problem # None /\ RowsThere(problem) /\ Equal(problem) > 0
  /\ matrix' = Constrained(problem, Assembled(problem, "K"))
  /\ problem' = [problem EXCEPT !.beta = Alpha(Assembled(problem, "K"))]
  /\ UNCHANGED <<meshing, element, material, vector>>

\* fem_problem_mass
MassMatrix ==
  /\ problem # None /\ RowsThere(problem) /\ Equal(problem) > 0
  /\ matrix' = Assembled(problem, "M")
  /\ UNCHANGED <<meshing, element, material, problem, vector>>

ProblemVector ==
  /\ problem # None
  /\ \A l \in Range(problem.load) : l.type = "mesh" =>
       \A k \in Meshes : meshing.meshes[k].user = l.n => l.dof \in TypeOf(k).dofset
  /\ RowsThere(problem)
  /\ vector' = Vector(problem)
  /\ UNCHANGED <<meshing, element, material, problem, matrix>>

\* What the conditions are and what the loads are do not depend on each other:
\* a problem has any of the ones, with one of the others.
SystemNext ==
  /\ requested < SystemCalls /\ requested' = requested + 1
  /\ \/ \E type \in DOMAIN ElementTypes, which \in {Meshes} \cup {{k} : k \in Meshes} :
          SetElement(which, type)
     \/ SetMaterial
     \/ problem = None /\ \E load \in Forces, bc \in BcLists : ProblemNew(bc, load)
     \/ problem = None /\ \E load \in LoadLists, bc \in Conditions : ProblemNew(bc, load)
     \/ Gsm \/ MassMatrix \/ ProblemVector

SystemSpec == SystemInit /\ [][SystemNext]_systemVars

-----------------------------------------------------------------------------
(* Properties *)

Known(row, conditions) ==
  \A c \in DOMAIN conditions : \A i \in DOMAIN conditions[c].parts :
    LET n == Internal(conditions[c].parts[i].node)  d == conditions[c].parts[i].dof
    IN  n < Size /\ d \in DOMAIN row /\ row[d][n] > 0

PlacesOn(p) == {q \in (DOMAIN p.row) \X (0 .. Size - 1) : p.row[q[1]][q[2]] > 0}

\* The name of an equation leads back to it, for the nodes before "no"; there is none, and
\* not another place's, for the nodes after (numbering.c:412-470).
Named(p, name, no) ==
  /\ \A q \in PlacesOn(p) : name[p.row[q[1]][q[2]]] = IF q[2] < no THEN q ELSE <<>>
  /\ \A c \in DOMAIN p.lambda1 : /\ name[p.lambda1[c]] = <<"LAMBDA", c>>
                                 /\ name[p.lambda2[c]] = <<"LAMBDA", c>>

\* The equations are numbered from 1 to the last, each once; those of a condition
\* enclose all those it binds; the number of nodes names them all, and what a program
\* asks names those before the number of meshes, which is not what the comment of
\* numbering.c:408 asks for (README, section 6); with more meshes than nodes its loops
\* leave the tables (numbering.c:225-284 and 412-470, problem.c:269-289, bc.c:742-937).
Numbered(p, conditions) ==
  LET rows == {p.row[q[1]][q[2]] : q \in PlacesOn(p)}
      meshes == Len(meshing.meshes)
  IN  /\ ~Failed(p)
      /\ rows \cup Range(p.lambda1) \cup Range(p.lambda2) = 1 .. Equal(p)
      /\ Cardinality(rows) = p.dof /\ Cardinality(PlacesOn(p)) = p.dof
      /\ \A c \in DOMAIN conditions : \A i \in DOMAIN conditions[c].parts :
           LET place == PlaceOf(conditions[c].parts[i])
               r == p.row[place[2]][place[1]]
           IN  p.lambda1[c] < r /\ r < p.lambda2[c]
      /\ Named(p, [dof \in 1 .. Equal(p) |-> fem_numbering_local(p, Size, dof)], Size)
      /\ meshes <= Size =>
           Named(p, [dof \in 1 .. Equal(p) |-> fem_problem_dof_get_local(p, dof)], meshes)

\* A problem whose conditions name what is known is numbered right; one is refused that
\* names a node that is not there, with a degree of freedom some element has: the last
\* place of each table, which no node has, is for that (numbering.c:119-129).
EquationsNumbered ==
  problem = None => \A bc \in BcLists :
    LET p == fem_numbering_create(bc)
    IN  /\ Known(p.row, bc) => Numbered(p, bc)
        /\ (\E c \in DOMAIN bc : \E i \in DOMAIN bc[c].parts :
              Internal(bc[c].parts[i].node) = Size /\ bc[c].parts[i].dof \in DOMAIN p.row)
             => Failed(p)

\* A coefficient of the matrix: zero out of the profile.
Coefficient(m, i, j) ==
  LET r == Greatest({i, j}, 0)  c == i + j - r
      height == IF r = 0 THEN 0 ELSE m.diag[r] - m.diag[r - 1] - 1
  IN  IF r - c > height THEN 0 ELSE m.coef[At(m.diag, i, j)]

Stiffness(rows, m, i, j) ==
  MapThenSumSet(LAMBDA k :
      MapThenSumSet(LAMBDA ab : Computed(m.feature, ab[1], ab[2]),
                    {ab \in (DOMAIN rows[k]) \X (DOMAIN rows[k]) :
                       ab[2] <= ab[1] /\ {rows[k][ab[1]], rows[k][ab[2]]} = {i, j}}),
    {k \in Meshes : Contributes(k, m.feature)})

\* No condition names a degree of freedom twice: the second coefficient would be
\* written over the first (bc.c:1057).
Plain(c) == Cardinality({PlaceOf(c.parts[i]) : i \in DOMAIN c.parts}) = Len(c.parts)

\* The matrix just made of a problem has what the elements bring to the pairs of
\* their degrees of freedom, the sum of both equations of a condition is twice
\* beta times the condition, as is their second member, and their difference
\* makes both unknowns of the condition equal (problem.c:155-253, bc.c:1037-1186,
\* element.c:441-730).
MadeRight(p, m) ==
  LET all == 0 .. Equal(p) - 1
      dofs == {i \in all : \E d \in DOMAIN p.row, n \in 0 .. Size - 1 : p.row[d][n] = i + 1}
      rows == Rows(p)
  IN  /\ \A i, j \in dofs : j <= i => Coefficient(m, i, j) = Stiffness(rows, m, i, j)
      /\ m.feature = "K" => \A c \in DOMAIN p.bc :
           LET l1 == p.lambda1[c] - 1  l2 == p.lambda2[c] - 1
               Wanted(j) == MapThenSumSet(LAMBDA i : p.bc[c].parts[i].coef,
                 {i \in DOMAIN p.bc[c].parts : PartRows(p, p.bc[c])[i] = j})
           IN  Plain(p.bc[c]) => \A j \in all :
                 /\ Coefficient(m, l1, j) + Coefficient(m, l2, j) = 2 * p.beta * Wanted(j)
                 /\ Coefficient(m, l1, j) - Coefficient(m, l2, j) =
                      CASE j = l1 -> -2 * p.beta [] j = l2 -> 2 * p.beta [] OTHER -> 0

VectorRight(p, v) ==
  \A r \in 0 .. Equal(p) - 1 :
    v[r] = MapThenSumSet(LAMBDA l : p.load[l].value,
                         {l \in DOMAIN p.load : r \in LoadedRows(p, p.load[l])})
           + MapThenSumSet(LAMBDA c : p.beta * p.bc[c].value,
                           {c \in DOMAIN p.bc : r \in {p.lambda1[c] - 1, p.lambda2[c] - 1}})

SystemStep ==
  /\ matrix' # matrix => MadeRight(problem', matrix')
  /\ vector' # vector => VectorRight(problem, vector')

SystemRight == [][SystemStep]_systemVars
=============================================================================
