------------------------------ MODULE Registry -------------------------------
(* The functions a name stands for (kernel/libhaplo/func.c) and the choice   *)
(* of one by the types of the arguments (code.c). The functions of a name    *)
(* are linked; a leaf read earlier keeps the first one. A signature is its   *)
(* pieces <<type, mark>>: the result first, the mark is that of the argument *)
(* that follows, "" at the end. A function is known by its rank in "nodes".  *)
EXTENDS Naturals, Sequences, FiniteSets, SequencesExt

CONSTANTS
  FunctionNames,  \* the names functions are registered under
  Signatures,     \* the signatures that are used
  ObjectTypes,    \* the types that are registered
  Copyable,       \* those that have a copy constructor
  FUNC_MAX_ARGS,
  MaxFunctions    \* bound on the registrations

ASSUME RegistryAssumption ==
  /\ Signatures \subseteq Seq(STRING \X STRING)
  /\ Copyable \subseteq ObjectTypes /\ FUNC_MAX_ARGS \in Nat \ {0} /\ MaxFunctions \in Nat

VARIABLES
  nodes,      \* the functions: [name, args (the types, the result first), flags, profile, next]
  func_hash,  \* the first function of each name, 0 when there is none
  leaves,     \* leaves read: the name and the first function it had then
  latest,     \* the last function registered for a name and types of arguments
  again       \* the names whose first function was registered again

registryVars == <<nodes, func_hash, leaves, latest, again>>

NULL == "null"

-----------------------------------------------------------------------------
(* Signatures *)

Known(type) == IF type \in ObjectTypes THEN type ELSE NULL

\* Arguments past the last one allowed are read as the end of the last type.
__haplo_func_signature(sig) ==
  LET marks == {k \in DOMAIN sig : sig[k][2] # ""}
      n == IF Cardinality(marks) > FUNC_MAX_ARGS THEN FUNC_MAX_ARGS ELSE Cardinality(marks)
      long == Cardinality(marks) > FUNC_MAX_ARGS
  IN  [n |-> n,
       type |-> [k \in 0..n |-> IF k = n /\ long THEN NULL ELSE Known(sig[k + 1][1])],
       flag |-> [k \in 0..(n - 1) |-> sig[k + 1][2]]]

\* The signatures as they are registered.
Signed == {__haplo_func_signature(sig) : sig \in Signatures}

OUT == {"!", "*"}
PROTECT == {"/", "*"}

\* A type that is not known is an error for an argument; for the result it is none at all.
func_check(s) ==
  \A k \in 0..(s.n - 1) :
    /\ s.type[k + 1] # NULL
    /\ ~(s.type[0] = NULL /\ s.flag[k] \in PROTECT)
    /\ s.flag[k] \in OUT => s.type[k + 1] \in Copyable

-----------------------------------------------------------------------------
(* Lists of functions *)

\* The functions from one on: those up to the n-th first.
Linked(ns, f) ==
  LET following(fs) == IF fs = <<>> THEN f ELSE ns[Last(fs)].next
      linked[n \in 0..Len(ns)] ==
        IF n = 0 THEN <<>>
        ELSE IF following(linked[n - 1]) = 0 THEN linked[n - 1]
        ELSE Append(linked[n - 1], following(linked[n - 1]))
  IN  linked[Len(ns)]

Args(f) == [k \in 1..(Cardinality(DOMAIN f.args) - 1) |-> f.args[k]]

\* The first function from one on that has these types.
code_func_choose(ns, first, types) ==
  LET list == Linked(ns, first)
      k == SelectInSeq(list, LAMBDA f : Args(ns[f]) = types)
  IN  IF k = 0 THEN 0 ELSE list[k]

\* Mutant of func_register: the new function is put at the end, behind the one it should hide.
RegisterAtEnd(name, s) ==
  LET new == [name |-> name, args |-> s.type, flags |-> s.flag, profile |-> FALSE, next |-> 0]
      list == Linked(nodes, func_hash[name])
      rank == Len(nodes) + 1
  IN  /\ UNCHANGED again
      /\ IF list = <<>>
         THEN nodes' = Append(nodes, new) /\ func_hash' = [func_hash EXCEPT ![name] = rank]
         ELSE nodes' = [Append(nodes, new) EXCEPT ![Last(list)].next = rank] /\ UNCHANGED func_hash

\* The new function is put before the one it hides, else at the end; the first one of
\* a name is replaced, with all that follow.
func_register(name, s) ==
  LET new == [name |-> name, args |-> s.type, flags |-> s.flag, profile |-> FALSE, next |-> 0]
      types == Args(new)
      list == Linked(nodes, func_hash[name])
      same == {k \in DOMAIN list : Args(nodes[list[k]]) = types}
      pos == IF same = {} THEN Len(list) ELSE (CHOOSE k \in same : \A l \in same : k <= l) - 1
      rank == Len(nodes) + 1
  IN  IF pos = 0
      THEN /\ nodes' = Append(nodes, new)
           /\ func_hash' = [func_hash EXCEPT ![name] = rank]
           /\ again' = IF same = {} THEN again ELSE again \cup {name}
      ELSE /\ nodes' = [Append(nodes, [new EXCEPT !.next = nodes[list[pos]].next])
                          EXCEPT ![list[pos]].next = rank]
           /\ UNCHANGED <<func_hash, again>>

-----------------------------------------------------------------------------
RegistryInit ==
  /\ nodes = <<>> /\ leaves = {} /\ latest = <<>> /\ again = {}
  /\ func_hash = [name \in FunctionNames |-> 0]

\* A function of a module or of "bind"; one that is not right is not registered.
func_register_sig ==
  /\ Len(nodes) < MaxFunctions
  /\ \E name \in FunctionNames, s \in Signed :
       LET types == [k \in 1..s.n |-> s.type[k]]
       IN  /\ func_check(s)
           /\ func_register(name, s)
           /\ latest' = [x \in DOMAIN latest \cup {<<name, types>>} |->
                           IF x = <<name, types>> THEN Len(nodes) + 1 ELSE latest[x]]
           /\ UNCHANGED leaves

\* The parser gives a leaf the functions its name has now.
Read ==
  \E name \in FunctionNames :
    /\ func_hash[name] # 0
    /\ leaves' = leaves \cup {[name |-> name, func |-> func_hash[name]]}
    /\ UNCHANGED <<nodes, func_hash, latest, again>>

__haplo_func_profile ==
  \E name \in FunctionNames, on \in BOOLEAN :
    LET list == ToSet(Linked(nodes, func_hash[name]))
    IN  /\ list # {}
        /\ nodes' = [f \in DOMAIN nodes |-> IF f \in list THEN [nodes[f] EXCEPT !.profile = on]
                                            ELSE nodes[f]]
        /\ UNCHANGED <<func_hash, leaves, latest, again>>

RegistryNext == func_register_sig \/ Read \/ __haplo_func_profile

RegistrySpec == RegistryInit /\ [][RegistryNext]_registryVars

-----------------------------------------------------------------------------
\* What is called is the last function registered with these types, or none when none was,
\* for a name read now as for a leaf read before, as long as the first function of the
\* name was never registered again.
LatestChosen ==
  \A name \in FunctionNames \ again :
    \A s \in Signed :
      LET types == [k \in 1..s.n |-> s.type[k]]
          last == IF <<name, types>> \in DOMAIN latest THEN latest[<<name, types>>] ELSE 0
      IN  /\ code_func_choose(nodes, func_hash[name], types) = last
          /\ \A leaf \in leaves : leaf.name = name => code_func_choose(nodes, leaf.func, types) = last

\* Also for the others, the last one registered is the one called.
NewestCalled ==
  \A name \in FunctionNames :
    LET of == {x \in DOMAIN latest : x[1] = name}
    IN  of # {} =>
        LET x == CHOOSE y \in of : \A z \in of : latest[z] <= latest[y]
        IN  code_func_choose(nodes, func_hash[name], x[2]) = latest[x]

\* A function that may change its argument has a copy to give it, and what it may keep
\* from being freed is a result.
ArgumentsSound ==
  \A f \in DOMAIN nodes :
    \A k \in DOMAIN nodes[f].flags :
      /\ nodes[f].args[k + 1] \in ObjectTypes
      /\ nodes[f].flags[k] \in OUT => nodes[f].args[k + 1] \in Copyable
      /\ nodes[f].flags[k] \in PROTECT => nodes[f].args[0] # NULL

\* The function called is the last one registered for its arguments (func.c, code.c).
CallsRight == LatestChosen /\ NewestCalled /\ ArgumentsSound
=============================================================================
