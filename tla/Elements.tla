------------------------------ MODULE Elements -------------------------------
(* The types of finite elements and what their evaluation needs, in          *)
(* modules/fem: element.c (the library of types), dof.c, cara.c, material.c, *)
(* property.c, hook.c and model.c (what a model gives to its elements).      *)
EXTENDS Integers, Sequences, FiniteSets, SequencesExt

CONSTANTS
  Types,          \* types registered: [name, nb_node, dim, dofset, material, property]
  Features,       \* what an element computes
  Models,         \* the elements of a model: their numbers of nodes; the space has 2 dimensions
  Names, Numbers, \* characteristics that are set and read, and their values
  MaxLists, MaxCalls

\* "dofset", and "material" and "property" for every feature there is a function for, are the
\* parts of a string "...:...:..."; a part is the set of the names it is the beginning of.

VARIABLES
  element_type_list,   \* types, as they were first registered
  caras,               \* materials and properties: [kind, mask, values]
  meant,               \* what was set in each of them
  element,             \* elements of the model: [nodes, type, material, property]
  computed,            \* what the last evaluation of the model was given
  requests             \* calls made

elementVars == <<element_type_list, caras, meant, element, computed, requests>>

dof_name == <<"DX", "DY", "DZ", "DRX", "DRY", "DRZ">>
CaraNames == [material |-> <<"E", "nu", "rho">>, property |-> <<"S", "Iy", "Iz", "J">>]

\* The first of the names that has the part for a beginning.
FirstOf(names, part) ==
  {names[k] : k \in {j \in DOMAIN names : names[j] \in part /\ \A l \in 1..(j - 1) : names[l] \notin part}}

\* An empty part is the beginning of every name: it is passed over here, but is DX there.
fem_cara_mask(names, parts) ==
  UNION {FirstOf(names, parts[k]) : k \in {j \in DOMAIN parts : ~(ToSet(names) \subseteq parts[j])}}

fem_dof_dofset(parts) == UNION {FirstOf(dof_name, parts[k]) : k \in DOMAIN parts}

\* element_type_setup: what a type is worth in the library.
Setup(et) ==
  [name |-> et.name, nb_node |-> et.nb_node, dim |-> et.dim, dofset |-> fem_dof_dofset(et.dofset),
   eval |-> DOMAIN et.material,
   hook |-> [f \in DOMAIN et.material |->
               [material |-> fem_cara_mask(CaraNames.material, et.material[f]),
                property |-> fem_cara_mask(CaraNames.property, et.property[f])]]]

NewCara(kind) ==
  [kind |-> kind, mask |-> {}, values |-> [n \in ToSet(CaraNames[kind]) |-> "uninitialised"]]

\* A type for this number of nodes: the first one.
element_type_get_default(n) ==
  {k \in DOMAIN element_type_list :
     /\ element_type_list[k].nb_node = n /\ element_type_list[k].dim = 2
     /\ \A l \in 1..(k - 1) : element_type_list[l].nb_node # n \/ element_type_list[l].dim # 2}

Init ==
  /\ element_type_list = <<>> /\ caras = <<>> /\ meant = <<>> /\ element = <<>> /\ computed = <<>>
  /\ requests = 0

Request == requests < MaxCalls /\ requests' = requests + 1

\* A type that is there already changes in its place, for the models that use it too.
fem_element_type_register ==
  /\ Request
  /\ \E et \in Types :
       LET slot == {k \in DOMAIN element_type_list : element_type_list[k].name = et.name}
       IN  element_type_list' =
             IF slot = {} THEN Append(element_type_list, Setup(et))
             ELSE [k \in DOMAIN element_type_list |->
                     IF k \in slot THEN Setup(et) ELSE element_type_list[k]]
  /\ UNCHANGED <<caras, meant, element, computed>>

\* The function is forgotten and nothing else; an unknown type is a warning.
fem_element_type_remove_feature ==
  /\ Request
  /\ \E k \in DOMAIN element_type_list, f \in Features :
       element_type_list' = [element_type_list EXCEPT ![k].eval = @ \ {f}]
  /\ UNCHANGED <<caras, meant, element, computed>>

New(kind) ==
  /\ Request
  /\ Len(caras) < MaxLists
  /\ caras' = Append(caras, NewCara(kind)) /\ meant' = Append(meant, <<>>)
  /\ UNCHANGED <<element_type_list, element, computed>>

fem_material_new == New("material")
fem_property_new == New("property")

Of(kind) == {k \in DOMAIN caras : caras[k].kind = kind}

\* Mutant of fem_cara_list_copy: the values without what tells which of them are set.
CopyValues(list) == [list EXCEPT !.mask = {}]

fem_cara_list_copy(list) == [NewCara(list.kind) EXCEPT !.values = list.values, !.mask = list.mask]

Copy(kind) ==
  /\ Request
  /\ Len(caras) < MaxLists
  /\ \E k \in Of(kind) :
       caras' = Append(caras, fem_cara_list_copy(caras[k])) /\ meant' = Append(meant, meant[k])
  /\ UNCHANGED <<element_type_list, element, computed>>

fem_material_copy == Copy("material")
fem_property_copy == Copy("property")

\* fem_cara_list_set: an unknown name is an error and no more.
CaraSet(kind) ==
  /\ Request
  /\ \E k \in Of(kind), c \in Names, x \in Numbers :
       IF c \in DOMAIN caras[k].values
       THEN /\ caras' = [caras EXCEPT ![k].mask = @ \cup {c}, ![k].values[c] = x]
            /\ meant' = [meant EXCEPT ![k] = [n \in DOMAIN @ \cup {c} |-> IF n = c THEN x ELSE @[n]]]
       ELSE UNCHANGED <<caras, meant>>
  /\ UNCHANGED <<element_type_list, element, computed>>

fem_material_cara_set == CaraSet("material")
fem_property_cara_set == CaraSet("property")

\* fem_cara_list_unset
CaraUnset(kind) ==
  /\ Request
  /\ \E k \in Of(kind), c \in Names :
       /\ caras' = [caras EXCEPT ![k].mask = @ \ {c}]
       /\ meant' = [meant EXCEPT ![k] = [n \in DOMAIN @ \ {c} |-> @[n]]]
  /\ UNCHANGED <<element_type_list, element, computed>>

fem_material_cara_unset == CaraUnset("material")
fem_property_cara_unset == CaraUnset("property")

\* Two errors, or a value.
fem_cara_list_get(list, c) ==
  IF c \notin DOMAIN list.values THEN "No such" ELSE IF c \notin list.mask THEN "not set" ELSE list.values[c]

\* A model has a type for each of its meshes or is not made.
fem_model_new ==
  /\ Request
  /\ element = <<>>
  /\ \E nodes \in Models :
       /\ \A e \in DOMAIN nodes : element_type_get_default(nodes[e]) # {}
       /\ element' = [e \in DOMAIN nodes |->
                        [nodes |-> nodes[e],
                         type |-> CHOOSE k \in element_type_get_default(nodes[e]) : TRUE,
                         material |-> 0, property |-> 0]]
  /\ UNCHANGED <<element_type_list, caras, meant, computed>>

\* For all elements.
SetList(kind) ==
  /\ Request
  /\ \E k \in Of(kind) : element' = [e \in DOMAIN element |-> [element[e] EXCEPT ![kind] = k]]
  /\ UNCHANGED <<element_type_list, caras, meant, computed>>

fem_model_set_material == SetList("material")
fem_model_set_property == SetList("property")

fem_cara_cmp(k, data) == k # 0 /\ caras[k].mask \cap data = data

Missing(what) == [error |-> what, values |-> <<>>]

\* What the function of an element reads, or the list that misses something. A list is looked
\* at when something of it is needed.
__fem_hook_update(e, hook) ==
  IF hook.material # {} /\ ~fem_cara_cmp(e.material, hook.material) THEN Missing("material")
  ELSE IF hook.property # {} /\ ~fem_cara_cmp(e.property, hook.property) THEN Missing("property")
  ELSE [error |-> "",
        values |-> [c \in hook.material |-> caras[e.material].values[c]] @@
                   [c \in hook.property |-> caras[e.property].values[c]]]

\* Elements that cannot do it are passed over, those that miss something are left out.
__fem_element_matrix_compute(feature) ==
  [e \in DOMAIN element |->
     LET type == element_type_list[element[e].type]
     IN  IF feature \notin type.eval THEN Missing("function") ELSE __fem_hook_update(element[e], type.hook[feature])]

Compute ==
  /\ Request
  /\ element # <<>>
  /\ \E f \in Features : computed' = <<f, __fem_element_matrix_compute(f)>>
  /\ UNCHANGED <<element_type_list, caras, meant, element>>

Next ==
  \/ fem_element_type_register \/ fem_element_type_remove_feature
  \/ fem_material_new \/ fem_material_copy \/ fem_material_cara_set \/ fem_material_cara_unset
  \/ fem_property_new \/ fem_property_copy \/ fem_property_cara_set \/ fem_property_cara_unset
  \/ fem_model_new \/ fem_model_set_material \/ fem_model_set_property \/ Compute

-----------------------------------------------------------------------------
\* fem_element_info: the features of a type, and what they need.
fem_element_info(type) == {[feature |-> f, needs |-> type.hook[f]] : f \in type.eval}

\* fem_element_list: the names in order, down four columns.
fem_element_list(n) ==
  LET size == n \div 4 + 1
  IN  [i \in 1..size |-> SelectSeq(<<i, size + i, 2 * size + i, 3 * size + i>>, LAMBDA k : k <= n)]

Set(k) == IF k = 0 THEN <<>> ELSE meant[k]

\* A list tells what was set last in it or in the one it is a copy of, and what was not.
ListsExact ==
  \A k \in DOMAIN caras, c \in Names :
    LET got == fem_cara_list_get(caras[k], c)
    IN  CASE c \notin ToSet(CaraNames[caras[k].kind]) -> got = "No such"
          [] c \in DOMAIN meant[k] -> got = meant[k][c]
          [] OTHER -> got = "not set"

\* An element is evaluated with what was set, when all that its type is said to need is, and
\* never with a value that nobody gave it.
GivenWhatWasSet ==
  \A e \in DOMAIN element, f \in Features :
    LET type == element_type_list[element[e].type]
        needs == {i.needs : i \in {j \in fem_element_info(type) : j.feature = f}}
        given == __fem_element_matrix_compute(f)[e]
        has(n) == n.material \subseteq DOMAIN Set(element[e].material)
                  /\ n.property \subseteq DOMAIN Set(element[e].property)
    IN  IF needs = {} THEN given.error = "function"
        ELSE \A n \in needs :
               IF ~has(n) THEN given.error \in {"material", "property"}
               ELSE /\ given.error = ""
                    /\ DOMAIN given.values = n.material \cup n.property
                    /\ \A c \in DOMAIN given.values :
                         given.values[c] = IF c \in n.material THEN Set(element[e].material)[c]
                                    ELSE Set(element[e].property)[c]

\* A name has one type, its last one; the elements of a model keep their number of nodes, and a
\* listing has every name once.
TypesInPlace ==
  /\ \A i, k \in DOMAIN element_type_list :
       element_type_list[i].name = element_type_list[k].name => i = k
  /\ \A k \in DOMAIN element_type_list : element_type_list[k].dofset # {}
  /\ \A e \in DOMAIN element : element_type_list[element[e].type].nb_node = element[e].nodes
  /\ \A n \in 0..9 : LET rows == fem_element_list(n)
                     IN  \A k \in 1..n : Cardinality({i \in DOMAIN rows : k \in ToSet(rows[i])}) = 1
=============================================================================
