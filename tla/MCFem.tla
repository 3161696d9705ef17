-------------------------------- MODULE MCFem --------------------------------
(* The models of modules/fem in one run: a state belongs to the one in       *)
(* "part" and the variables of the others keep a value of their own.         *)
EXTENDS Skyline, Analyses, Equations, TLC

CONSTANTS Names, Dims, Users, Vectors, Files, MaxNodes, MaxMeshes, MeshingCalls, MaxNumber,
          Types, Features, Models, Cara, Numbers, MaxLists, LibraryCalls,
          Sentences, DofNames, GroupFiles, Lists, GroupCalls

VARIABLES part, element_type_list, caras, meant, ofModel, computed, asked,
          sentence, offset, condition, answer, group, grouped

Mesh == INSTANCE Meshing WITH MaxCalls <- MeshingCalls
Library == INSTANCE Elements
             WITH Names <- Cara, MaxCalls <- LibraryCalls, element <- ofModel, requests <- asked
Condition == INSTANCE Conditions
               WITH Dofs <- DofNames, MaxCalls <- GroupCalls, requests <- grouped

ASSUME FemAssumption == Mesh!MeshingAssumption

builtVars == <<element, material, problem, matrix, vector, requested>>
matrixVars == <<A, v>>
libraryVars == <<element_type_list, caras, meant, ofModel, computed, asked>>
conditionVars == <<sentence, offset, condition, answer, group, grouped>>
vars == <<part, meshing, calls, builtVars, matrixVars, libraryVars, analysisVars, conditionVars>>

NoSystem ==
  /\ element = 0 /\ material = 0 /\ problem = [none |-> FALSE] /\ matrix = 0 /\ vector = 0
  /\ requested = 0
NoLibrary ==
  /\ element_type_list = 0 /\ caras = 0 /\ meant = 0 /\ ofModel = 0 /\ computed = 0 /\ asked = 0
NoCondition ==
  /\ sentence = 0 /\ offset = 0 /\ condition = 0 /\ answer = 0 /\ group = 0 /\ grouped = 0

\* The meshing is that of the system too.
Init ==
  /\ part \in {"mesh", "system", "matrix", "library", "analysis", "condition"}
  /\ SkylineInit /\ (part # "matrix" => A.size = 1 /\ A.state = "LDLT" /\ \A c \in Ons : c <= A.coef[0])
  /\ CASE part = "mesh" -> Mesh!Init /\ NoSystem
       [] part = "system" -> SystemInit
       [] OTHER -> meshing = 0 /\ NoSystem
  /\ IF part = "library" THEN Library!Init ELSE NoLibrary
  /\ AnalysisInit /\ (part # "analysis" => analysis.type = "OTHER" /\ \A dim \in Spaces : analysis.dim <= dim)
  /\ IF part = "condition" THEN Condition!Init ELSE NoCondition

\* The step is one of the part p.
Keep(p) ==
  /\ part' = part
  /\ IF p \in {"mesh", "system"} THEN TRUE ELSE UNCHANGED meshing
  /\ IF p \in {"mesh", "matrix"} THEN TRUE ELSE UNCHANGED calls
  /\ IF p = "system" THEN TRUE ELSE UNCHANGED builtVars
  /\ IF p = "matrix" THEN TRUE ELSE UNCHANGED matrixVars
  /\ IF p = "library" THEN TRUE ELSE UNCHANGED libraryVars
  /\ IF p = "analysis" THEN TRUE ELSE UNCHANGED analysisVars
  /\ IF p = "condition" THEN TRUE ELSE UNCHANGED conditionVars

Next ==
  \/ part = "mesh" /\ Mesh!Next /\ Keep("mesh")
  \/ part = "system" /\ SystemNext /\ Keep("system")
  \/ part = "matrix" /\ SkylineNext /\ Keep("matrix")
  \/ part = "library" /\ Library!Next /\ Keep("library")
  \/ part = "analysis" /\ AnalysisNext /\ Keep("analysis")
  \/ part = "condition" /\ Condition!Next /\ Keep("condition")

Spec == Init /\ [][Next]_vars

\* Nodes and meshes have the rows 0 to N - 1, a fusion holds both meshings, a meshing
\* comes back from its file and from a copy, and a linked one is renumbered by a
\* permutation (meshing.c, renum.c).
MeshingsWhole ==
  part = "mesh" =>
    Mesh!RowsDistinct /\ Mesh!FusionWhole /\ Mesh!ComesBack /\ Mesh!Renumbered

\* "Meshing contains unlinked parts." is said of a meshing that is not linked (renum.c:593).
UnlinkedOnly == part = "mesh" => Mesh!UnlinkedOnly

\* A characteristic is read as it was set, whatever was set since, and elements are given
\* those of their own material and property;
\* a condition says what is written, a group comes back from its file; the rules integrate
\* polynomials up to their degree (cara.c, element.c, model.c, bc.c, group.c,
\* integration.c).
AttributesExact ==
  /\ part = "library" => Library!ListsExact /\ Library!GivenWhatWasSet /\ Library!TypesInPlace
  /\ part = "analysis" /\ requests = 0 => LinesExact /\ TrianglesExact
  /\ part = "condition" => Condition!SaysWhatWasWritten /\ Condition!GroupComesBack

MCVectors == {<<1>>, <<0, 1, 1>>}

MCFiles ==
  LET D(dim) == [key |-> "D", dim |-> dim]
      N(user, at) == [key |-> "N", user |-> user, at |-> at]
      M(user, nodes, count) == [key |-> "M", user |-> user, nodes |-> nodes, count |-> count]
      end == [key |-> "X"]
  IN  {<<D(2), N(1, <<1, 0>>), D(2)>>,
       <<N(1, <<0, 0>>), D(2), N(2, <<1, 0>>), M(1, <<2>>, 2), [key |-> "?"],
         N(1, <<0, 0>>), M(2, <<2, 1>>, 2), end, N(3, <<0, 0>>)>>,
       <<D(2), N(1, <<1, 1>>), N(3, <<1, 0>>), N(2, <<0, 0>>),
         M(1, <<1, 3>>, 2)>>,
       <<D(1), N(1, <<0>>), N(2, <<1>>), N(3, <<2>>), N(4, <<3>>),
         N(5, <<4>>), M(1, <<4, 2, 5>>, 3), M(2, <<1, 4>>, 2), M(3, <<3, 5>>, 2)>>}

Type(n, s, f, h, i) ==
  [nodes |-> n, dim |-> 2, dofset |-> s, features |-> f, hooked |-> h, integrated |-> i]

MCElementTypes ==
  <<Type(2, {0, 1}, {"K", "M", "F"}, TRUE, TRUE), Type(2, {0}, {"K"}, FALSE, FALSE),
    Type(3, {0, 1}, {"K", "F"}, FALSE, TRUE)>>

MCMeshings ==
  LET E(u, ns, j) == [user |-> u, nodes |-> ns, jacobian |-> j]
  IN  {[dim |-> 2, nodes |-> <<1, 5, 2>>, meshes |-> <<E(1, <<0, 2>>, 1), E(4, <<2, 1>>, -1)>>],
       [dim |-> 2, nodes |-> <<3, 1, 2>>, meshes |-> <<E(1, <<1, 0, 2>>, 1)>>]}

MCGroups == {[type |-> "node", list |-> <<2, 1>>], [type |-> "mesh", list |-> <<4>>]}

\* A condition on a node, two crossed ones, one on a node that is not there and
\* one that names a degree of freedom twice.
MCConditions ==
  LET P(n, d, c) == [node |-> n, dof |-> d, coef |-> c]
      C(ps, x) == [parts |-> ps, value |-> x]
      cross == C(<<P(2, 0, 1), P(1, 1, -2)>>, 0)
  IN  {<<cross, C(<<P(1, 0, 1)>>, 2)>>, <<C(<<P(2, 0, 1), P(1, 0, 1)>>, 1), cross>>,
       <<C(<<P(1, 0, 1), P(9, 0, 1)>>, 1)>>, <<C(<<P(1, 0, 1), P(1, 0, 1)>>, 1)>>}

MCForces ==
  LET F(t, n, d, x) == [type |-> t, n |-> n, dof |-> d, value |-> x]
  IN  {<<F("node", 2, 0, 3), F("mesh", 1, 0, 5), F("node", 2, 1, 1)>>}

MCOffs == {0, 2, -1}
MCOns == {1, -1}
MCStarts == <<1, 3, -2, 5, 7>>

MCEntries ==
  {[size |-> 4, entries |-> <<<<1, 1, 2>>, <<3, 1, 1>>, <<3, 3, 4>>, <<4, 3, 5>>, <<3, 1, 3>>, <<4, 4, 1>>>>],
   [size |-> 5, entries |-> <<<<5, 2, -1>>, <<5, 5, 1>>, <<2, 2, 1>>>>]}

\* Types with several names in a part, with all of them, and with a name that there is not.
MCTypes ==
  LET T(n, nn, dofs, m, p) ==
        [name |-> n, nb_node |-> nn, dim |-> 2, dofset |-> dofs, material |-> m, property |-> p]
      all == {"E", "nu", "rho", "S", "Iy", "Iz", "J"}
  IN  {T("bar", 2, <<{"DX"}, {"DY"}>>, [K |-> <<{"E"}>>, M |-> <<{"rho"}>>],
         [K |-> <<{"Iy", "Iz"}>>, M |-> <<all>>]),
       T("bar", 2, <<{"DX", "DY", "DZ", "DRX", "DRY", "DRZ"}>>, [K |-> <<{"E"}, {"nu"}>>], [K |-> <<>>]),
       T("tria", 3, <<{"DX"}, {"DY"}>>, [K |-> <<{"nu"}, {"zz"}>>], [K |-> <<all>>])}

MCModels == {<<2>>, <<2, 3>>}

\* All the texts of three words, and longer ones that begin as conditions do.
MCSentences ==
  LET D(dof, node) == [is |-> "dof", dof |-> dof, node |-> node]
      S(sign) == [is |-> "sign", sign |-> sign]
      X(value) == [is |-> "number", value |-> value]
      W(word) == [is |-> word]
      words == {D("DX", 1), D("DY", 2), D("P", 1), S(1), S(-1), X(2), X(-3), W("*"), W("=")}
      begins == {<<D("DX", 1), S(-1), D("DY", 2)>>, <<X(2), W("*"), D("DX", 1), X(-3), W("*"), D("DY", 2)>>,
                 <<D("DX", 1), S(1), X(2), W("*"), D("DY", 2)>>, <<X(2), W("*"), D("P", 1)>>}
      ends == {<<W("="), X(2)>>, <<W("="), S(-1), X(2)>>, <<W("=")>>, <<W("="), X(-3), W("=")>>}
  IN  UNION {[1..n -> words] : n \in 1..3}
      \cup {<<a, D("DX", 1)>> \o e : a \in {S(-1), W("*")}, e \in [1..2 -> words]}
      \cup {b \o e : b \in begins, e \in ends}

MCGroupFiles ==
  LET R(k, l) == [key |-> k, list |-> l]
  IN  {<<R("N", <<1, 2>>), R("M", <<3>>), R("N", <<4>>), R("X", <<>>), R("N", <<5>>)>>,
       <<R("?", <<7>>), R("M", <<3>>)>>}

MCLists == {<<3>>, <<4, 1>>, <<2, -1>>}
=============================================================================
