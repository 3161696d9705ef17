----------------------------- MODULE References -----------------------------
(***************************************************************************)
(* Objects, references and the database of names of the interpreter:       *)
(* kernel/libhaplo/object.c, with the statements of parser.y and the       *)
(* leaves of code.c that count on them.                                    *)
(*                                                                         *)
(* A name of the database is a reference_t, shared by the database and the *)
(* leaves that use the name (instances); a reference leads to an object_t, *)
(* shared by references, leaves, results and protectors (references, here  *)
(* count).  The destructors call one another recursively: stack holds the  *)
(* calls still to be made, and one step makes one of them.                 *)
(*                                                                         *)
(* A session is a sequence of statements at top level.  Bodies of functions*)
(* are cut down to one statement: they return the value of a name, or      *)
(* assign a constant to it.                                                *)
(***************************************************************************)
EXTENDS Integers, Sequences, FiniteSets, SequencesExt

CONSTANTS
  Names,          \* names of variables
  Buckets,        \* entries of the hash table
  Bucket,         \* object_hash: the entry of each name
  Refs,           \* cells of reference_cache
  Objects,        \* cells of object_cache
  Nil,            \* NULL
  ClearInChains,  \* names may be cleared that are not first of their bucket
  MaxLeaks        \* bound of leaked: no code is called beyond it

ASSUME ReferencesAssumption ==
  /\ IsFiniteSet(Refs)
  /\ IsFiniteSet(Objects)
  /\ Bucket \in [Names -> Buckets]
  /\ Nil \notin Refs \cup Objects \cup Names
  /\ ClearInChains \in BOOLEAN
  /\ MaxLeaks \in Nat

VARIABLES
  base,       \* the hash table: first reference of each bucket
  ref,        \* reference_t cells
  obj,        \* object_t cells
  pc,         \* what the interpreter does next
  stmt,       \* leaves of the statement: target, kind, operand, literal
  result,     \* object the statement evaluates to
  held,       \* code being executed
  stack,      \* calls to destructors still to be made, first one first
  leaked      \* history: references code_leaf_copy took and nothing gives back

vars == <<base, ref, obj, pc, stmt, result, held, stack, leaked>>

Kinds == {"none", "object", "name", "call", "apply", "alter"}
NoStmt == [target |-> Nil, kind |-> "none", operand |-> Nil, literal |-> Nil]

FreeRef == [alive |-> FALSE, name |-> Nil, object |-> Nil, instances |-> 0,
            next |-> Nil]

\* refs and sets are the REF and ASSIGN leaves of a code, objs its OBJECT
\* leaves or, for another object, what it protects.
FreeObj == [alive |-> FALSE, type |-> "data", count |-> 0, value |-> 0,
            refs |-> {}, sets |-> {}, objs |-> {}]

Init ==
  /\ base = [b \in Buckets |-> Nil]
  /\ ref = [r \in Refs |-> FreeRef]
  /\ obj = [o \in Objects |-> FreeObj]
  /\ pc = "idle"
  /\ stmt = NoStmt
  /\ result = Nil
  /\ held = Nil
  /\ stack = <<>>
  /\ leaked = [o \in Objects |-> 0]

\* A set of references that their links do not leave.
Closed(S) == \A q \in S : ref[q].next = Nil \/ ref[q].next \in S

\* The references met along the links from those of a set: the least closed set
\* that holds them.
Walk(from) ==
  {r \in Refs : \A S \in SUBSET Refs :
     (\A q \in from : q = Nil \/ q \in S) /\ Closed(S) => r \in S}

Chain(b) == Walk({base[b]})
Linked   == Walk({base[b] : b \in Buckets})

\* __haplo_object_ref_get, without the new instance.
Lookup(n) ==
  LET found == {r \in Chain(Bucket[n]) : ref[r].name = n}
  IN  IF found = {} THEN Nil ELSE CHOOSE r \in found : TRUE

Unused == {o \in Objects : ~obj[o].alive}

\* Calls, as entries of the stack.
RefFree(r)    == [op |-> "ref_free", ref |-> r, object |-> Nil]
ObjectFree(o) == [op |-> "object_free", ref |-> Nil, object |-> o]
Release(o)    == [op |-> "release", ref |-> Nil, object |-> o]
Bind(o, r)    == [op |-> "bind", ref |-> r, object |-> o]
RemoveRef(o)  == [op |-> "remove_ref", ref |-> Nil, object |-> o]
DbFree        == [op |-> "db_free", ref |-> Nil, object |-> Nil]

FreeIfAny(o)    == IF o = Nil THEN <<>> ELSE <<ObjectFree(o)>>
RefFreeIfAny(r) == IF r = Nil THEN <<>> ELSE <<RefFree(r)>>
RefFreeAll(S)   == [k \in 1 .. Cardinality(S) |-> RefFree(SetToSeq(S)[k])]
ObjectFreeAll(S) == [k \in 1 .. Cardinality(S) |-> ObjectFree(SetToSeq(S)[k])]

Instance(r) == [ref EXCEPT ![r].instances = @ + 1]

-----------------------------------------------------------------------------
(* Destructors: the next call of the stack *)

\* __haplo_object_ref_free
CallRefFree ==
  /\ stack # <<>> /\ Head(stack).op = "ref_free"
  /\ LET r == Head(stack).ref
     IN  IF ref[r].instances = 1
         THEN /\ ref' = [ref EXCEPT ![r] = FreeRef]
              /\ stack' = FreeIfAny(ref[r].object) \o Tail(stack)
         ELSE /\ ref' = [ref EXCEPT ![r].instances = @ - 1]
              /\ stack' = Tail(stack)
  /\ UNCHANGED <<base, obj, pc, stmt, result, held, leaked>>

\* __haplo_object_free and object_free: the content of a code is its leaves,
\* another object only has protected ones; then the cell is released.
CallObjectFree ==
  /\ stack # <<>> /\ Head(stack).op = "object_free"
  /\ LET o == Head(stack).object
         n == IF obj[o].count > 0 THEN obj[o].count - 1 ELSE 0
     IN  IF n = 0
         THEN /\ obj' = [obj EXCEPT ![o].count = 0, ![o].refs = {},
                                    ![o].sets = {}, ![o].objs = {}]
              /\ stack' = RefFreeAll(obj[o].refs) \o RefFreeAll(obj[o].sets)
                          \o ObjectFreeAll(obj[o].objs)
                          \o <<Release(o)>> \o Tail(stack)
         ELSE /\ obj' = [obj EXCEPT ![o].count = n]
              /\ stack' = Tail(stack)
  /\ UNCHANGED <<base, ref, pc, stmt, result, held, leaked>>

CallRelease ==
  /\ stack # <<>> /\ Head(stack).op = "release"
  /\ obj' = [obj EXCEPT ![Head(stack).object] = FreeObj]
  /\ stack' = Tail(stack)
  /\ UNCHANGED <<base, ref, pc, stmt, result, held, leaked>>

\* Mutant: the new value of a reference is not counted.
CallBindUncounted ==
  /\ stack # <<>> /\ Head(stack).op = "bind"
  /\ ref' = [ref EXCEPT ![Head(stack).ref].object = Head(stack).object]
  /\ stack' = Tail(stack)
  /\ UNCHANGED <<base, obj, pc, stmt, result, held, leaked>>

\* __haplo_object_register, once the former value has been freed.
CallBind ==
  /\ stack # <<>> /\ Head(stack).op = "bind"
  /\ ref' = [ref EXCEPT ![Head(stack).ref].object = Head(stack).object]
  /\ obj' = [obj EXCEPT ![Head(stack).object].count = @ + 1]
  /\ stack' = Tail(stack)
  /\ UNCHANGED <<base, pc, stmt, result, held, leaked>>

\* Mutant: the leaves stay in the code.
CallRemoveRefKeepsLeaves ==
  /\ stack # <<>> /\ Head(stack).op = "remove_ref"
  /\ stack' = RefFreeAll(obj[Head(stack).object].refs) \o Tail(stack)
  /\ UNCHANGED <<base, ref, obj, pc, stmt, result, held, leaked>>

\* __haplo_code_remove_ref: the REF leaves of a code give their instances back.
CallRemoveRef ==
  /\ stack # <<>> /\ Head(stack).op = "remove_ref"
  /\ LET o == Head(stack).object
     IN  /\ obj' = [obj EXCEPT ![o].refs = {}]
         /\ stack' = RefFreeAll(obj[o].refs) \o Tail(stack)
  /\ UNCHANGED <<base, ref, pc, stmt, result, held, leaked>>

\* __haplo_object_db_free, and the __haplo_object_db_init that follows it.
CallDbFree ==
  /\ stack # <<>> /\ Head(stack).op = "db_free"
  /\ stack' = RefFreeAll(Linked) \o Tail(stack)
  /\ base' = [b \in Buckets |-> Nil]
  /\ UNCHANGED <<ref, obj, pc, stmt, result, held, leaked>>

Destroy ==
  \/ CallRefFree \/ CallObjectFree \/ CallRelease \/ CallBind
  \/ CallRemoveRef \/ CallDbFree

-----------------------------------------------------------------------------
(* Reading a statement: its leaves *)

Ready == stack = <<>>

NewRef == CHOOSE r \in Refs : ~ref[r].alive
NewObj == CHOOSE o \in Unused : TRUE
NewConst == CHOOSE o \in Unused \ {NewObj} : TRUE

RefAvailable == \E r \in Refs : ~ref[r].alive

\* A new name is shared by the database and the statement, and bound to
\* nothing yet; n is the number of its instances.
EnterName(n, count) ==
  /\ RefAvailable
  /\ ref' = [ref EXCEPT ![NewRef] =
              [alive |-> TRUE, name |-> n, object |-> Nil, instances |-> count,
               next |-> base[Bucket[n]]]]
  /\ base' = [base EXCEPT ![Bucket[n]] = NewRef]
  /\ stmt' = [stmt EXCEPT !.target = NewRef]

\* assignment_lvalue: `n = ...' has been read up to the sign; a new name has
\* count instances.
LvalueCounting(n, count) ==
  /\ Ready /\ pc = "idle"
  /\ \/ /\ Lookup(n) = Nil
        /\ EnterName(n, count)
     \/ /\ Lookup(n) # Nil
        /\ ref' = Instance(Lookup(n))
        /\ stmt' = [stmt EXCEPT !.target = Lookup(n)]
        /\ UNCHANGED base
  /\ pc' = "rvalue"
  /\ UNCHANGED <<obj, result, held, stack, leaked>>

\* Mutant: the statement does not count its own instance of a new name.
LvalueUncounted(n) == LvalueCounting(n, 1)

Lvalue(n) == LvalueCounting(n, 2)

\* The rest of the assignment does not parse: the parser drops the symbol.
SyntaxError ==
  /\ Ready /\ pc = "rvalue"
  /\ stack' = <<RefFree(stmt.target)>>
  /\ stmt' = NoStmt
  /\ pc' = "idle"
  /\ UNCHANGED <<base, ref, obj, result, held, leaked>>

Reading == Ready /\ pc \in {"idle", "rvalue"}

\* An OBJECT leaf: a constant,
Constant ==
  /\ Reading /\ Unused # {}
  /\ obj' = [obj EXCEPT ![NewObj] = [FreeObj EXCEPT !.alive = TRUE, !.count = 1]]
  /\ stmt' = [stmt EXCEPT !.kind = "object", !.literal = NewObj]
  /\ pc' = "execute"
  /\ UNCHANGED <<base, ref, result, held, stack, leaked>>

\* `function() return n;'
FunctionReturns(n) ==
  /\ Reading /\ Unused # {} /\ Lookup(n) # Nil
  /\ obj' = [obj EXCEPT ![NewObj] =
              [FreeObj EXCEPT !.alive = TRUE, !.type = "code", !.count = 1,
                              !.refs = {Lookup(n)}]]
  /\ ref' = Instance(Lookup(n))
  /\ stmt' = [stmt EXCEPT !.kind = "object", !.literal = NewObj]
  /\ pc' = "execute"
  /\ UNCHANGED <<base, result, held, stack, leaked>>

\* or `function() n = <constant>;'.
FunctionAssigns(n) ==
  /\ Reading /\ Cardinality(Unused) > 1 /\ Lookup(n) # Nil
  /\ obj' = [obj EXCEPT ![NewObj] =
              [FreeObj EXCEPT !.alive = TRUE, !.type = "code", !.count = 1,
                              !.sets = {Lookup(n)}, !.objs = {NewConst}],
                        ![NewConst] =
              [FreeObj EXCEPT !.alive = TRUE, !.count = 1]]
  /\ ref' = Instance(Lookup(n))
  /\ stmt' = [stmt EXCEPT !.kind = "object", !.literal = NewObj]
  /\ pc' = "execute"
  /\ UNCHANGED <<base, result, held, stack, leaked>>

\* Objects an execution makes: a session that would need more is cut here.
Makes(kind, o) ==
  CASE kind = "name" -> 0
    [] kind = "call" -> IF o # Nil /\ obj[o].refs \cup obj[o].sets = {} THEN 2 ELSE 1
    [] OTHER         -> 1

LeakBound == \A o \in Objects : leaked[o] < MaxLeaks

\* A REF leaf, alone or under the execution of a code (call), of a builtin
\* function (apply) or of one that alters its argument (alter).
Operand(n, kind) ==
  /\ Reading /\ Lookup(n) # Nil /\ Cardinality(Unused) >= Makes(kind, ref[Lookup(n)].object)
  /\ kind = "call" => LeakBound
  /\ ref' = Instance(Lookup(n))
  /\ stmt' = [stmt EXCEPT !.kind = kind, !.operand = Lookup(n)]
  /\ pc' = "execute"
  /\ UNCHANGED <<base, obj, result, held, stack, leaked>>

-----------------------------------------------------------------------------
(* Executing it *)

Executing(kind) == Ready /\ pc = "execute" /\ stmt.kind = kind

Value(r) == ref[r].object
Evaluated == IF stmt.target = Nil THEN "release" ELSE "assign"

Retain(o) == [obj EXCEPT ![o].count = @ + 1]

\* code_leaf_execute_object and code_leaf_execute_ref: the result shares the
\* object; a name bound to nothing is an error and has no result.
ExecuteLeaf ==
  /\ Executing("object") \/ Executing("name")
  /\ LET o == IF stmt.kind = "object" THEN stmt.literal ELSE Value(stmt.operand)
     IN  /\ result' = o
         /\ obj' = IF o = Nil THEN obj ELSE Retain(o)
  /\ pc' = Evaluated
  /\ UNCHANGED <<base, ref, stmt, held, stack, leaked>>

HasType(r, type) == Value(r) # Nil /\ obj[Value(r)].type = type

\* The operand is nothing, or nothing the leaf can be executed with.
ExecuteError ==
  /\ \/ Executing("call") /\ ~HasType(stmt.operand, "code")
     \/ (Executing("apply") \/ Executing("alter")) /\ ~HasType(stmt.operand, "data")
  /\ pc' = Evaluated
  /\ UNCHANGED <<base, ref, obj, stmt, result, held, stack, leaked>>

\* A builtin function makes a new object which protects its argument.
ExecuteApply ==
  /\ Executing("apply") /\ HasType(stmt.operand, "data")
  /\ LET o == Value(stmt.operand)
     IN  obj' = [Retain(o) EXCEPT ![NewObj] =
                  [FreeObj EXCEPT !.alive = TRUE, !.count = 1, !.objs = {o}]]
  /\ result' = NewObj
  /\ pc' = Evaluated
  /\ UNCHANGED <<base, ref, stmt, held, stack, leaked>>

\* A builtin function alters its argument: in place when only the name and the
\* call (limit) hold it, otherwise a copy becomes the value of the name.
AlterAbove(limit) ==
  /\ Executing("alter") /\ HasType(stmt.operand, "data")
  /\ LET o == Value(stmt.operand)
     IN  IF obj[o].count + 1 > limit
         THEN /\ obj' = [p \in Objects |->
                          CASE p = NewObj -> [obj[o] EXCEPT !.count = 1,
                                                            !.value = 1 - @]
                            [] p = o -> [obj[o] EXCEPT !.count = @ - 1]
                            [] p \in obj[o].objs -> [obj[p] EXCEPT !.count = @ + 1]
                            [] OTHER -> obj[p]]
              /\ ref' = [ref EXCEPT ![stmt.operand].object = NewObj]
         ELSE /\ obj' = [obj EXCEPT ![o].value = 1 - @]
              /\ UNCHANGED ref
  /\ pc' = Evaluated
  /\ UNCHANGED <<base, stmt, result, held, stack, leaked>>

\* Mutant: the copy is made one holder too late.
ExecuteAlterShared == AlterAbove(3)

ExecuteAlter == AlterAbove(2)

\* code_leaf_execute_execute holds the code while it executes it.
ExecuteCall ==
  /\ Executing("call") /\ HasType(stmt.operand, "code")
  /\ held' = Value(stmt.operand)
  /\ obj' = Retain(Value(stmt.operand))
  /\ pc' = "body"
  /\ UNCHANGED <<base, ref, stmt, result, stack, leaked>>

\* __haplo_object_register, and what it calls.
Register(o, r) ==
  IF o = Value(r) THEN <<>> ELSE FreeIfAny(Value(r)) \o <<Bind(o, r)>>

Body == Ready /\ pc = "body"

BodyReturns ==
  /\ Body
  /\ \E r \in obj[held].refs :
       /\ result' = Value(r)
       /\ obj' = IF Value(r) = Nil THEN obj ELSE Retain(Value(r))
  /\ pc' = "return"
  /\ UNCHANGED <<base, ref, stmt, held, stack, leaked>>

BodyAssigns ==
  /\ Body
  /\ \E r \in obj[held].sets, c \in obj[held].objs :
       /\ result' = c
       /\ obj' = Retain(c)
       /\ stack' = Register(c, r)
  /\ pc' = "return"
  /\ UNCHANGED <<base, ref, stmt, held, leaked>>

\* The name was the code's own: the value is the code itself (RECURSIVE).
BodyRecurs ==
  /\ Body /\ obj[held].refs = {} /\ obj[held].sets = {}
  /\ obj' = [obj EXCEPT ![NewObj] = [FreeObj EXCEPT !.alive = TRUE,
                                                   !.type = "code", !.count = 1]]
  /\ result' = NewObj
  /\ pc' = "return"
  /\ UNCHANGED <<base, ref, stmt, held, stack, leaked>>

\* End of code_execute: a code is returned as a copy.  The copy of a REF leaf
\* counts the value of the name as well, and nothing gives that one back.
Return ==
  /\ Ready /\ pc = "return"
  /\ IF result # Nil /\ obj[result].type = "code"
     THEN LET code == obj[result]
          IN  /\ ref' = [r \in Refs |->
                          IF r \in code.refs \cup code.sets
                          THEN [ref[r] EXCEPT !.instances = @ + 1] ELSE ref[r]]
              /\ leaked' = [o \in Objects |->
                             leaked[o] + Cardinality({r \in code.refs : Value(r) = o})]
              /\ obj' = [o \in Objects |->
                          IF o = NewObj THEN [code EXCEPT !.count = 1]
                          ELSE [obj[o] EXCEPT !.count =
                                 @ + (leaked'[o] - leaked[o])
                                   + (IF o \in code.objs THEN 1 ELSE 0)]]
              /\ result' = NewObj
              /\ stack' = <<ObjectFree(result), ObjectFree(held)>>
     ELSE /\ stack' = <<ObjectFree(held)>>
          /\ UNCHANGED <<ref, obj, result, leaked>>
  /\ held' = Nil
  /\ pc' = Evaluated
  /\ UNCHANGED <<base, stmt>>

\* code_leaf_execute_assign: a code that uses the name it is assigned to calls
\* itself, without an instance of the name.
AssignTaking(n) ==
  /\ Ready /\ pc = "assign"
  /\ IF result = Nil
     THEN UNCHANGED <<ref, obj, stack>>
     ELSE /\ IF stmt.target \in obj[result].refs
             THEN /\ obj' = [obj EXCEPT ![result].refs = @ \ {stmt.target}]
                  /\ ref' = [ref EXCEPT ![stmt.target].instances = @ - n]
             ELSE UNCHANGED <<ref, obj>>
          /\ stack' = Register(result, stmt.target)
  /\ pc' = "release"
  /\ UNCHANGED <<base, stmt, result, held, leaked>>

\* Mutant: the instance of the leaf is forgotten.
AssignKeepsInstance == AssignTaking(0)

Assign == AssignTaking(1)

\* parser_instruction frees the result and the leaves.
ReleaseStatement ==
  /\ Ready /\ pc = "release"
  /\ stack' = FreeIfAny(result) \o RefFreeIfAny(stmt.target)
              \o FreeIfAny(stmt.literal) \o RefFreeIfAny(stmt.operand)
  /\ stmt' = NoStmt
  /\ result' = Nil
  /\ pc' = "idle"
  /\ UNCHANGED <<base, ref, obj, held, leaked>>

-----------------------------------------------------------------------------
(* Clearing names *)

\* The bucket, and the links, without r.  Only the first reference is taken
\* out as one takes out of a list.
Unlink(r) ==
  LET first == base[Bucket[ref[r].name]]
      last  == IF ref[first].next = r THEN r ELSE first
  IN  IF first = r
      THEN /\ base' = [base EXCEPT ![Bucket[ref[r].name]] = ref[r].next]
           /\ UNCHANGED ref
      ELSE /\ ref' = [ref EXCEPT ![last].next = ref[r].next]
           /\ UNCHANGED base

\* Mutant: the names behind the first one go with it.
ClearDropsBucket(n) ==
  /\ Ready /\ pc = "idle" /\ Lookup(n) # Nil
  /\ ClearInChains \/ Lookup(n) = base[Bucket[n]]
  /\ base' = [base EXCEPT ![Bucket[n]] = Nil]
  /\ stack' = <<RefFree(Lookup(n))>>
  /\ UNCHANGED <<ref, obj, pc, stmt, result, held, leaked>>

\* `clear n;': __haplo_object_ref_free_db, then the leaf of the name; the
\* instance of the leaf and the one it gives back are one entry of the stack.
Clear(n) ==
  /\ Ready /\ pc = "idle" /\ Lookup(n) # Nil
  /\ ClearInChains \/ Lookup(n) = base[Bucket[n]]
  /\ Unlink(Lookup(n))
  /\ stack' = <<RefFree(Lookup(n))>>
  /\ UNCHANGED <<obj, pc, stmt, result, held, leaked>>

\* `clear;': __haplo_object_db_free_root.
ClearAll ==
  /\ Ready /\ pc = "idle"
  /\ LET codes == {r \in Linked : HasType(r, "code")}
     IN  stack' = [k \in 1 .. Cardinality(codes) |->
                     RemoveRef(Value(SetToSeq(codes)[k]))] \o <<DbFree>>
  /\ UNCHANGED <<base, ref, obj, pc, stmt, result, held, leaked>>

Read ==
  \/ \E n \in Names : \/ Lvalue(n) \/ FunctionReturns(n) \/ FunctionAssigns(n)
                      \/ \E kind \in {"name", "call", "apply", "alter"} :
                            Operand(n, kind)
  \/ Constant \/ SyntaxError

Execute ==
  \/ ExecuteLeaf \/ ExecuteError \/ ExecuteApply \/ ExecuteAlter \/ ExecuteCall
  \/ BodyReturns \/ BodyAssigns \/ BodyRecurs \/ Return
  \/ Assign \/ ReleaseStatement

Forget == ClearAll \/ \E n \in Names : Clear(n)

Next == Read \/ Execute \/ Forget \/ Destroy

Spec == Init /\ [][Next]_vars

-----------------------------------------------------------------------------
(* Properties *)

Holds(b) == IF b THEN 1 ELSE 0
Calls(call) == Cardinality({k \in DOMAIN stack : stack[k] = call})

LiveRefs == {r \in Refs : ref[r].alive}
LiveObjects == {o \in Objects : obj[o].alive}

\* References being bound: the former value has been given back already.
Binding == {stack[k].ref : k \in {k \in DOMAIN stack : stack[k].op = "bind"}}

\* object_t.references is the number of holders: names, leaves and protectors,
\* the result, the code executed, and calls that will give one back; only the
\* copies of REF leaves make it higher.
CountsExact ==
  \A o \in LiveObjects :
    obj[o].count = Cardinality({r \in LiveRefs \ Binding : ref[r].object = o})
                 + Cardinality({p \in LiveObjects : o \in obj[p].objs})
                 + Holds(result = o) + Holds(held = o) + Holds(stmt.literal = o)
                 + Calls(ObjectFree(o)) + leaked[o]

\* reference_t.instances is the number of holders: the database, leaves of
\* codes and of the statement, and calls that will give one back.
InstancesExact ==
  \A r \in LiveRefs :
    ref[r].instances =
        Holds(r \in Linked)
      + Cardinality({p \in LiveObjects : r \in obj[p].refs})
      + Cardinality({p \in LiveObjects : r \in obj[p].sets})
      + Holds(stmt.target = r) + Holds(stmt.operand = r) + Calls(RefFree(r))

\* Nothing that can be reached has been given back to its cache: buckets,
\* links, names, leaves, protected objects, the statement and pending calls
\* lead to live cells.
NoDangling ==
  LET refs == {base[b] : b \in Buckets} \cup {stmt.target, stmt.operand}
              \cup {ref[r].next : r \in Linked}
              \cup (UNION {obj[p].refs \cup obj[p].sets : p \in LiveObjects})
              \cup {stack[k].ref : k \in DOMAIN stack}
      objs == {ref[r].object : r \in LiveRefs \ Binding}
              \cup {result, held, stmt.literal}
              \cup (UNION {obj[p].objs : p \in LiveObjects})
              \cup {stack[k].object : k \in DOMAIN stack}
  IN  refs \ {Nil} \subseteq LiveRefs /\ objs \ {Nil} \subseteq LiveObjects

\* A function that alters the value of a name alters no object that another
\* name, a protector, a leaf or a result also leads to.
CopyOnWrite ==
  [][\A o \in Objects :
       obj[o].alive /\ obj'[o].alive /\ obj'[o].value # obj[o].value =>
         /\ \A r \in LiveRefs : ref[r].object = o => r = stmt.operand
         /\ \A p \in LiveObjects : o \notin obj[p].objs
     ]_vars

\* A name keeps its reference, hence its value, until a `clear' of this name or
\* of all names: no statement and no other clear takes it out of its bucket.
NamesKept ==
  [][\A n \in Names :
       LET before == Lookup(n)
           after  == Lookup(n)'
       IN  before # after => \/ before = Nil
                             \/ stack' # <<>> /\ Head(stack') = RefFree(before)
                             \/ stack # <<>> /\ Head(stack) = DbFree
     ]_vars

=============================================================================
