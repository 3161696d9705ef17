----------------------------- MODULE Conditions ------------------------------
(* Boundary conditions as they are written (modules/fem/src/bc.c) and the    *)
(* groups of nodes or meshes they are for, with their files (group.c). A     *)
(* text is a sequence of words: a degree of freedom and its node, a sign, a  *)
(* number, "*" or "=".                                                       *)
EXTENDS Integers, Sequences, SequencesExt

CONSTANTS
  Sentences,   \* conditions written
  Dofs,        \* the names of degrees of freedom that are known
  GroupFiles,  \* files of groups: sequences of [key, list]
  Lists,       \* numbers added to a group; a word that is not a number is negative
  MaxCalls     \* bound on the calls about groups

VARIABLES
  sentence, offset,   \* the text, and how much of it is read
  condition,          \* [parts, value]: parts [dof, node, coef]
  answer,             \* "reading", "understood", "error"
  group,              \* [type, list]; no type before it has one
  requests

conditionVars == <<sentence, offset, condition, answer, group, requests>>

NoGroup == [type |-> "none", list |-> <<>>]

Init ==
  /\ sentence \in Sentences
  /\ offset = 0 /\ condition = [parts |-> <<>>, value |-> 0] /\ answer = "reading"
  /\ group = NoGroup /\ requests = 0

Is(k, kinds) ==
  \A i \in DOMAIN kinds : k + i <= Len(sentence) /\ sentence[k + i].is = kinds[i]

\* bc_new_from_string_len: room for a part, and for one more at each sign before "="; numbers
\* may have a sign of their own.
Signs ==
  LET equals == {k \in DOMAIN sentence : sentence[k].is = "="}
      end == IF equals = {} THEN Len(sentence) ELSE CHOOSE k \in equals : \A l \in equals : k <= l
      signed(k) == sentence[k].is = "sign" \/ (sentence[k].is = "number" /\ sentence[k].value < 0)
  IN  1 + Len(SelectSeq([k \in 1..end |-> k], signed))

\* The first form that fits: [taken, dof, node, coef], a sign being only for a coefficient of 1.
Forms ==
  CASE Is(offset, <<"dof">>) -> {[taken |-> 1, coef |-> 1]}
    [] Is(offset, <<"sign", "dof">>) -> {[taken |-> 2, coef |-> sentence[offset + 1].sign]}
    [] Is(offset, <<"number", "*", "dof">>) -> {[taken |-> 3, coef |-> sentence[offset + 1].value]}
    [] OTHER -> {}

\* Mutant of bc_new_from_string_scan: the sign is read and forgotten.
SignForgotten ==
  /\ answer = "reading" /\ Len(condition.parts) < Signs
  /\ \E f \in Forms :
       LET d == sentence[offset + f.taken]
       IN  /\ d.dof \in Dofs
           /\ condition' = [condition EXCEPT !.parts =
                              Append(@, [dof |-> d.dof, node |-> d.node, coef |-> IF f.taken = 2 THEN 1 ELSE f.coef])]
           /\ offset' = offset + f.taken
  /\ UNCHANGED <<sentence, answer, group, requests>>

\* bc_new_from_string_scan: the words of a form, when they fit. A name that is not in the
\* table is looked for past its end (dof.c:143, it has no terminator): taken as not found.
bc_new_from_string_scan ==
  /\ answer = "reading" /\ Len(condition.parts) < Signs
  /\ \E f \in Forms :
       LET d == sentence[offset + f.taken]
       IN  /\ d.dof \in Dofs
           /\ condition' = [condition EXCEPT !.parts =
                              Append(@, [dof |-> d.dof, node |-> d.node, coef |-> f.coef])]
           /\ offset' = offset + f.taken
  /\ UNCHANGED <<sentence, answer, group, requests>>

Scans == Len(condition.parts) < Signs /\ \E f \in Forms : sentence[offset + f.taken].dof \in Dofs

\* fem_bc_new_from_string, after the parts: what follows the value is not read. The
\* normalisation, which multiplies both sides by one number, is left out.
fem_bc_new_from_string ==
  /\ answer = "reading" /\ ~Scans
  /\ IF Is(offset, <<"=", "number">>)
     THEN /\ condition' = [condition EXCEPT !.value = sentence[offset + 2].value]
          /\ answer' = "understood"
     ELSE answer' = "error" /\ UNCHANGED condition
  /\ UNCHANGED <<sentence, offset, group, requests>>

-----------------------------------------------------------------------------
(* Groups *)

Request == answer # "reading" /\ requests < MaxCalls /\ requests' = requests + 1

\* fem_group_new_mesh, fem_group_new_node
group_new ==
  /\ Request
  /\ \E type \in {"node", "mesh"} : group' = [type |-> type, list |-> <<>>]
  /\ UNCHANGED <<sentence, offset, condition, answer>>

\* A list that is not all numbers is an error.
fem_group_add ==
  /\ Request
  /\ group # NoGroup
  /\ \E list \in Lists :
       group' = IF \E k \in DOMAIN list : list[k] < 0 THEN group ELSE [group EXCEPT !.list = @ \o list]
  /\ UNCHANGED <<sentence, offset, condition, answer>>

TypeOf(key) == IF key = "N" THEN "node" ELSE "mesh"

RECURSIVE group_load(_, _)
\* The first record gives the group its type, those of the other type are passed over, and what
\* follows the end is not read.
group_load(g, file) ==
  IF file = <<>> \/ Head(file).key = "X" THEN g
  ELSE LET r == Head(file)
           type == IF g.type = "none" THEN TypeOf(r.key) ELSE g.type
       IN  group_load(IF r.key \notin {"N", "M"} THEN g
                      ELSE IF TypeOf(r.key) = type THEN [type |-> type, list |-> g.list \o r.list] ELSE g,
                      Tail(file))

fem_group_load ==
  /\ Request
  /\ \E file \in GroupFiles : group' = group_load(NoGroup, file)
  /\ UNCHANGED <<sentence, offset, condition, answer>>

\* A record for each number, and the end.
group_save(g) ==
  [k \in DOMAIN g.list |-> [key |-> IF g.type = "node" THEN "N" ELSE "M", list |-> <<g.list[k]>>]]
    \o <<[key |-> "X", list |-> <<>>]>>

Next ==
  \/ bc_new_from_string_scan \/ fem_bc_new_from_string
  \/ group_new \/ fem_group_add \/ fem_group_load

-----------------------------------------------------------------------------
\* The value of the left side, for a value of each degree of freedom: with signs and
\* coefficients as one reads them.
Term(k) ==
  LET before == IF k > 1 THEN sentence[k - 1].is ELSE ""
  IN  CASE before = "sign" -> sentence[k - 1].sign
        [] before = "*" -> sentence[k - 2].value
        [] OTHER -> 1

\* A condition that was understood says what was written, each of its parts once and nothing of
\* it left out; a degree of freedom nobody knows, a coefficient without its factor or a sign
\* that is not for what follows it are never passed over.
SaysWhatWasWritten ==
  answer = "understood" =>
    LET equals == CHOOSE k \in DOMAIN sentence :
                    sentence[k].is = "=" /\ \A l \in 1..(k - 1) : sentence[l].is # "="
        dofs == SelectSeq([k \in 1..(equals - 1) |-> k], LAMBDA k : sentence[k].is = "dof")
    IN  /\ condition.value = sentence[equals + 1].value
        /\ condition.parts =
             [k \in DOMAIN dofs |-> [dof |-> sentence[dofs[k]].dof, node |-> sentence[dofs[k]].node,
                                     coef |-> Term(dofs[k])]]
        /\ \A k \in DOMAIN dofs : sentence[dofs[k]].dof \in Dofs

\* A group that was saved and is loaded again is the same, but an empty one.
GroupComesBack == group.list # <<>> => group_load(NoGroup, group_save(group)) = group
=============================================================================
