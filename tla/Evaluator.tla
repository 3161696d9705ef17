------------------------------ MODULE Evaluator ------------------------------
(* The execution of leaves (kernel/libhaplo/code.c) and of whole statements  *)
(* (parser_instruction). A state "s" of the machine has the codes, the       *)
(* global names, the hash tables, the active contexts (the last one is the   *)
(* innermost, "father" is the one before), the status and the result of the  *)
(* last leaf. Counts of references are those of References.tla: objects live *)
(* on here. A null pointer that is followed is the status CRASH.             *)
EXTENDS Leaves

CONSTANT
  Files   \* the texts that may be included, by name

Set(s, status, result) == [s EXCEPT !.status = status, !.result = result]
Ok(s, result) == Set(s, "OK", result)
Error(s) == Set(s, "ERROR", Null)
Crash(s) == Set(s, "CRASH", Null)

Machine ==
  [codes |-> <<>>, globals |-> <<>>, scopes |-> <<>>, hashes |-> <<>>, ctx |-> <<>>,
   status |-> "OK", result |-> Null]

\* The functions of the registry that are used, null when none has these types.
builtin(f, v) ==
  IF \E i \in DOMAIN v : v[i].t # "float" THEN Null
  ELSE CASE f = "+" /\ Len(v) = 2 -> Float(v[1].v + v[2].v)
         [] f = "-" /\ Len(v) = 2 -> Float(v[1].v - v[2].v)
         [] f = "*" /\ Len(v) = 2 -> Float(v[1].v * v[2].v)
         [] f = "<" /\ Len(v) = 2 -> Boolean(v[1].v < v[2].v)
         [] f = "=" /\ Len(v) = 2 -> Boolean(v[1].v = v[2].v)
         [] OTHER -> Null

RECURSIVE code_leaf_execute(_, _), code_execute(_, _, _), Values(_, _), Statements(_, _, _)
RECURSIVE Run(_, _), RunAll(_, _)

\* Leaves evaluated in order up to the first that fails: the state and the values.
Values(ls, s) ==
  IF ls = <<>> THEN [s |-> Ok(s, Null), values |-> <<>>]
  ELSE LET a == Values(Front(ls), s)
       IN  IF a.s.status # "OK" THEN a
           ELSE LET r == code_leaf_execute(Last(ls), a.s)
                IN  [s |-> r, values |-> Append(a.values, r.result)]

\* Statements in order, up to one that does not end well.
Statements(ls, s, keep) ==
  IF ls = <<>> THEN Ok(s, Null)
  ELSE LET a == Statements(Front(ls), s, keep)
       IN  IF a.status # "OK" THEN a
           ELSE LET r == code_leaf_execute(Last(ls), a)
                IN  IF r.status = "OK" \/ (r.status = "RETURN" /\ keep) THEN r
                    ELSE [r EXCEPT !.result = Null]

-----------------------------------------------------------------------------
(* Codes *)

\* The arguments are computed in the context of the call; a code without variables has
\* none computed.
code_context_new(s, c, args) ==
  LET a == IF s.codes[c].n = 0 THEN [s |-> Ok(s, Null), values |-> <<>>] ELSE Values(args, s)
  IN  IF a.s.status # "OK" THEN IF a.s.status = "CRASH" THEN a.s ELSE Error(a.s)
      ELSE [a.s EXCEPT !.ctx = Append(@, [code |-> c, db |-> a.values \o
              [i \in 1..(s.codes[c].n - Len(a.values)) |-> Null]])]

code_context_free(s) == [s EXCEPT !.ctx = Front(@)]

\* Mutant of Independent: the copy is still bound to the context that is left.
IndependentBound(s) ==
  IF s.result.t # "code" \/ s.status = "CRASH" THEN s
  ELSE LET copy == code_copy(s.result.v, s)
       IN  IF copy.code = 0 THEN Error(copy.s) ELSE [copy.s EXCEPT !.result = Code(copy.code)]

\* A code that is a result is a copy, made independent of the context it leaves.
Independent(s) ==
  IF s.result.t # "code" \/ s.status = "CRASH" THEN s
  ELSE LET copy == code_copy(s.result.v, s)
       IN  IF copy.code = 0 THEN Error(copy.s)
           ELSE remove_local([copy.s EXCEPT !.result = Code(copy.code)], copy.code, s.result.v)

code_execute(c, args, s) ==
  IF s.codes[c].args # Len(args) THEN Error(s)
  ELSE LET new == code_context_new(s, c, args)
       IN  IF new.status # "OK" THEN new
           ELSE code_context_free(Independent(Statements(s.codes[c].entry, new, TRUE)))

execute_block(l, s) == IF l.arg = 0 THEN Crash(s) ELSE code_execute(l.arg, <<>>, s)

-----------------------------------------------------------------------------
(* Lists and hash tables *)

get_list(s, list, index) ==
  IF index.t # "float" THEN Error(s)
  ELSE IF index.v \in DOMAIN list.v THEN Ok(s, list.v[index.v])
  ELSE Error(s)

get_hash(s, hash, key) ==
  IF key.t # "string" THEN Error(s)
  ELSE IF key.v \notin DOMAIN s.hashes[hash.v] THEN Error(s)
  ELSE IF s.hashes[hash.v][key.v].t = "null" THEN Error(s)
  ELSE Ok(s, s.hashes[hash.v][key.v])

execute_get(l, s) ==
  LET a == Values(l.child, s)
      of == a.values[1]
  IN  IF a.s.status # "OK" THEN Set(a.s, a.s.status, Null)
      ELSE IF of.t = "null" \/ (of.t \in {"hash", "list"} /\ a.values[2].t = "null") THEN Crash(a.s)
      ELSE IF of.t = "hash" THEN get_hash(a.s, of, a.values[2])
      ELSE IF of.t = "list" THEN get_list(a.s, of, a.values[2])
      ELSE Error(a.s)

\* One member of a table: the key, then its value.
set_n(s, hash, pair) ==
  LET a == Values(pair, s)
      key == a.values[1]
  IN  IF a.s.status # "OK" THEN a.s
      ELSE IF key.t = "null" THEN Crash(a.s)
      ELSE IF key.t # "string" THEN Error(a.s)
      ELSE [a.s EXCEPT !.hashes[hash.v] = (key.v :> a.values[2]) @@ @]

\* The member is set in the table itself, whoever else holds it.
execute_set(l, s) ==
  LET h == code_leaf_execute(l.child[1], s)
      r == set_n(h, h.result, Tail(l.child))
  IN  IF h.status # "OK" THEN h
      ELSE IF h.result.t = "null" THEN Crash(h)
      ELSE IF h.result.t # "hash" THEN Error(h)
      ELSE [r EXCEPT !.result = h.result]

\* A member that fails is left out.
execute_hash(l, s) ==
  LET h == HashTable(Len(s.hashes) + 1)
      pairs == [i \in 1..(Len(l.child) \div 2) |-> SubSeq(l.child, 2 * i - 1, 2 * i)]
      all == FoldLeft(LAMBDA a, p : IF a.status = "CRASH" THEN a ELSE set_n(a, h, p),
                      Ok([s EXCEPT !.hashes = Append(@, <<>>)], Null), pairs)
  IN  IF all.status = "CRASH" THEN all ELSE Ok(all, h)

\* A first atom without value has no list to be in; another one is left out.
execute_list(l, s) ==
  LET a == Values(l.child, s)
  IN  IF a.values # <<>> /\ a.values[1].t = "null" /\ (Len(a.values) > 1 \/ a.s.status = "OK")
      THEN Crash(a.s)
      ELSE IF a.s.status # "OK" THEN Set(a.s, a.s.status, Null)
      ELSE Ok(a.s, List(SelectSeq(a.values, LAMBDA v : v.t # "null")))

\* A code is called, a list gives one of its elements; the status of a call is dropped.
execute_execute(l, s) ==
  LET f == code_leaf_execute(l.child[1], s)
      call == code_execute(f.result.v, Tail(l.child), f)
      index == code_leaf_execute(l.child[2], f)
  IN  IF f.status # "OK" THEN f
      ELSE IF f.result.t = "null" THEN Crash(f)
      ELSE IF f.result.t = "code" THEN
        IF call.status = "CRASH" THEN call ELSE [call EXCEPT !.status = "OK"]
      ELSE IF f.result.t = "list" THEN
        IF Len(l.child) = 1 THEN Crash(f)
        ELSE IF index.status # "OK" THEN index
        ELSE IF index.result.t = "null" THEN Crash(index)
        ELSE get_list(index, f.result, index.result)
      ELSE Error(f)

-----------------------------------------------------------------------------
(* Variables and constants *)

execute_assign(l, s) ==
  LET v == code_leaf_execute(l.child[1], s)
      free == remove_local(v, v.result.v, v.result.v)
      new == IF v.result.t # "code" THEN v
             ELSE IF free.status = "CRASH" THEN free
             ELSE assign_remove_ref(free, v.result.v, l.arg)
  IN  IF new.status = "OK" /\ new.result.t # "null"
      THEN [new EXCEPT !.globals[l.arg] = new.result] ELSE new

execute_local_assign(l, s) ==
  LET v == code_leaf_execute(l.child[1], s)
  IN  IF v.status # "OK" \/ Activations(v, l.arg) = {} THEN v
      ELSE [v EXCEPT !.ctx[Nearest(v, l.arg)].db[l.n] = v.result]

execute_local_ref(l, s) ==
  Ok(s, IF Activations(s, l.arg) = {} THEN Null ELSE Captured(s, l))

execute_ref(l, s) ==
  IF s.globals[l.arg].t = "null" THEN Error(s) ELSE Ok(s, s.globals[l.arg])

-----------------------------------------------------------------------------
(* Functions of the registry, control *)

execute_func(l, s) ==
  LET a == Values(l.child, s)
      without == \E i \in DOMAIN a.values : a.values[i].t = "null"
      value == builtin(l.arg, a.values)
  IN  IF a.s.status # "OK" THEN Set(a.s, a.s.status, Null)
      ELSE IF without THEN Error(a.s)
      ELSE IF value.t = "null" THEN Error(a.s)
      ELSE Ok(a.s, value)

execute_if(l, s) ==
  LET cond == code_leaf_execute(l.child[1], s)
  IN  IF cond.status # "OK" THEN Set(cond, cond.status, Null)
      ELSE IF cond.result.t = "null" THEN Crash(cond)
      ELSE IF cond.result.t # "boolean" THEN Error(cond)
      ELSE code_leaf_execute(l.child[IF cond.result.v THEN 2 ELSE 3], Ok(cond, Null))

\* The result of the body, whatever ends the loop, is lost.
RECURSIVE execute_while(_, _)
execute_while(l, s) ==
  LET cond == code_leaf_execute(l.child[1], s)
      body == code_leaf_execute(l.child[2], Ok(cond, Null))
  IN  IF cond.status # "OK" THEN Set(cond, cond.status, Null)
      ELSE IF cond.result.t = "null" THEN Crash(cond)
      ELSE IF cond.result.t # "boolean" \/ ~cond.result.v THEN Ok(cond, Null)
      ELSE IF body.status = "BREAK" THEN Ok(body, Null)
      ELSE IF body.status \in {"OK", "CONTINUE"} THEN execute_while(l, Ok(body, Null))
      ELSE Set(body, body.status, Null)

execute_return(l, s) ==
  LET r == Statements(l.child, s, FALSE)
  IN  IF r.status = "OK" THEN [r EXCEPT !.status = "RETURN"] ELSE r

\* The statements of a file are read and executed outside of every context.
execute_load(l, s) ==
  LET name == code_leaf_execute(l.child[1], s)
      all == RunAll(Files[name.result.v], [name EXCEPT !.ctx = <<>>])
  IN  IF name.status # "OK" THEN Set(name, name.status, Null)
      ELSE IF name.result.t = "null" THEN Crash(name)
      ELSE IF name.result.t # "string" THEN Error(name)
      ELSE IF name.result.v \notin DOMAIN Files THEN Error(name)
      ELSE IF all.status = "CRASH" THEN all
      ELSE Ok([all EXCEPT !.ctx = s.ctx], Null)

code_leaf_execute(l, s) ==
  CASE l.action = "NONE" -> Ok(s, Null)
    [] l.action = "OBJECT" -> Ok(s, l.arg)
    [] l.action = "REF" -> execute_ref(l, s)
    [] l.action = "ASSIGN" -> execute_assign(l, s)
    [] l.action = "LOCAL_REF" -> execute_local_ref(l, s)
    [] l.action = "LOCAL_ASSIGN" -> execute_local_assign(l, s)
    [] l.action = "RECURSIVE" -> Ok(s, Code(l.arg))
    [] l.action = "BLOCK" -> execute_block(l, s)
    [] l.action = "CHILD" -> Statements(l.child, s, FALSE)
    [] l.action = "EXECUTE" -> execute_execute(l, s)
    [] l.action = "FUNCTION" -> execute_func(l, s)
    [] l.action = "IF" -> execute_if(l, s)
    [] l.action = "WHILE" -> execute_while(l, s)
    [] l.action = "RETURN" -> execute_return(l, s)
    [] l.action = "BREAK" -> Set(s, "BREAK", Null)
    [] l.action = "CONTINUE" -> Set(s, "CONTINUE", Null)
    [] l.action = "LIST" -> execute_list(l, s)
    [] l.action = "HASH" -> execute_hash(l, s)
    [] l.action = "GET" -> execute_get(l, s)
    [] l.action = "SET" -> execute_set(l, s)
    [] l.action = "LOAD" -> execute_load(l, s)

-----------------------------------------------------------------------------
(* Statements *)

\* A statement is read, then executed in no context; its result is kept when it ends well.
Run(text, s) ==
  LET read == Parse(text, s)
      r == code_leaf_execute(read.leaf, Ok(read.s, Null))
  IN  IF r.status = "OK" THEN r ELSE [r EXCEPT !.result = Null]

RunAll(texts, s) ==
  IF texts = <<>> THEN Ok(s, Null)
  ELSE LET a == RunAll(Front(texts), s) IN IF a.status = "CRASH" THEN a ELSE Run(Last(texts), a)
=============================================================================
