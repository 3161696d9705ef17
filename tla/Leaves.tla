------------------------------- MODULE Leaves -------------------------------
(* The tree of leaves the interpreter makes of a text and how codes are      *)
(* copied and made independent (kernel/libhaplo/code.c, with the scopes of   *)
(* parser.y). A text is a record [k, v, names, sub]: its kind, its number,    *)
(* its names, its parts. A leaf is [action, arg, n, child]; the codes are a table, a    *)
(* code is known by its index there. "s" is the whole state of the machine   *)
(* (Evaluator.tla): the table, the global names, the scopes being read.      *)
EXTENDS Integers, Sequences, FiniteSets, TLC, SequencesExt

Null == [t |-> "null"]
Float(x) == [t |-> "float", v |-> x]
Boolean(b) == [t |-> "boolean", v |-> b]
String(x) == [t |-> "string", v |-> x]
Code(c) == [t |-> "code", v |-> c]
List(vs) == [t |-> "list", v |-> vs]
HashTable(h) == [t |-> "hash", v |-> h]

Leaf(action, arg, child) == [action |-> action, arg |-> arg, n |-> 0, child |-> child]
None == Leaf("NONE", 0, <<>>)

leaf_from_object(v) == Leaf("OBJECT", v, <<>>)
leaf_from_ref(name) == Leaf("REF", name, <<>>)
leaf_from_assign(name, value) == Leaf("ASSIGN", name, <<value>>)
leaf_from_block(c) == Leaf("BLOCK", c, <<>>)
leaf_from_break == Leaf("BREAK", 0, <<>>)
leaf_from_continue == Leaf("CONTINUE", 0, <<>>)
leaf_from_execute(c, args) == Leaf("EXECUTE", 0, <<c>> \o args)
leaf_from_function(f, args) == Leaf("FUNCTION", f, args)
leaf_from_if(cond, t, f) == Leaf("IF", 0, <<cond, t, f>>)
leaf_from_while(cond, body) == Leaf("WHILE", 0, <<cond, body>>)
leaf_from_return(value) == Leaf("RETURN", 0, value)
leaf_from_list(atoms) == Leaf("LIST", 0, atoms)
leaf_from_load(file) == Leaf("LOAD", 0, <<file>>)
leaf_from_arrow(hash, key) == Leaf("GET", 0, <<hash, key>>)
hash_set(get, value) == [get EXCEPT !.action = "SET", !.child = Append(@, value)]

\* The post statement follows the body, in one leaf with it.
leaf_from_for(pre, cond, post, body) ==
  Leaf("CHILD", 0,
       <<pre, leaf_from_while(cond, IF body.action = "NONE" THEN post ELSE Leaf("CHILD", 0, <<body, post>>))>>)

\* Every further entry is put before the others.
leaf_from_hash(pairs) ==
  Leaf("HASH", 0, FlattenSeq(Reverse([i \in 1..(Len(pairs) \div 2) |->
                                        <<pairs[2 * i - 1], pairs[2 * i]>>])))

-----------------------------------------------------------------------------
(* Reading: names *)

ScopesOf(s, x) == {i \in DOMAIN s.scopes : x \in ToSet(s.scopes[i].names)}
Scope(s, x) == CHOOSE i \in ScopesOf(s, x) : \A j \in ScopesOf(s, x) : j <= i
Index(names, x) == CHOOSE i \in DOMAIN names : names[i] = x

\* The leaf of a name once its context is closed: local to the innermost context that
\* has it, or global; "what" is REF or ASSIGN.
Named(s, x, what, child) ==
  IF ScopesOf(s, x) # {}
  THEN LET scope == s.scopes[Scope(s, x)]
       IN  [Leaf("LOCAL_" \o what, scope.code, child) EXCEPT !.n = Index(scope.names, x)]
  ELSE Leaf(what, x, child)

Known(s, x) == ScopesOf(s, x) # {} \/ x \in DOMAIN s.globals

\* A new name belongs to the context being read.
Lvalue(s, x) ==
  IF Known(s, x) THEN s
  ELSE IF s.scopes = <<>> THEN [s EXCEPT !.globals = (x :> Null) @@ @]
  ELSE [s EXCEPT !.scopes[Len(s.scopes)].names = Append(@, x)]

Open(s, args) ==
  [s EXCEPT !.codes = Append(@, [n |-> 0, args |-> 0, entry |-> <<>>]),
            !.scopes = Append(@, [code |-> Len(s.codes) + 1, names |-> args])]

\* The context closed becomes a code with a place for each of its names.
code_from_precode(s, args, entry) ==
  LET scope == Last(s.scopes)
  IN  [s EXCEPT !.codes[scope.code] = [n |-> Len(scope.names), args |-> Len(args), entry |-> entry],
                !.scopes = Front(@)]

-----------------------------------------------------------------------------
(* Reading: texts *)

Built(t, ls) ==
  CASE t.k = "number" -> leaf_from_object(Float(t.v))
    [] t.k = "string" -> leaf_from_object(String(Head(t.names)))
    [] t.k = "empty" -> None
    [] t.k = "call" -> leaf_from_execute(Head(ls), Tail(ls))
    [] t.k = "operator" -> leaf_from_function(Head(t.names), ls)
    [] t.k = "if" -> leaf_from_if(ls[1], ls[2], ls[3])
    [] t.k = "while" -> leaf_from_while(ls[1], ls[2])
    [] t.k = "for" -> leaf_from_for(ls[1], ls[2], ls[3], ls[4])
    [] t.k = "return" -> leaf_from_return(ls)
    [] t.k = "break" -> leaf_from_break
    [] t.k = "continue" -> leaf_from_continue
    [] t.k = "list" -> leaf_from_list(ls)
    [] t.k = "hash" -> leaf_from_hash(ls)
    [] t.k = "get" -> leaf_from_arrow(ls[1], ls[2])
    [] t.k = "put" -> hash_set(leaf_from_arrow(ls[1], ls[2]), ls[3])
    [] t.k = "include" -> leaf_from_load(ls[1])

RECURSIVE Parse(_, _), ParseAll(_, _)

ParseAll(ts, s) ==
  IF ts = <<>> THEN [leaf |-> <<>>, s |-> s]
  ELSE LET a == ParseAll(Front(ts), s)
           r == Parse(Last(ts), a.s)
       IN  [leaf |-> Append(a.leaf, r.leaf), s |-> r.s]

\* The leaf of a text, and the state after it is read.
Parse(t, s) ==
  LET x == Head(t.names)
      all == ParseAll(t.sub, IF t.k = "assign" THEN Lvalue(s, x) ELSE s)
      body(args) == LET r == ParseAll(t.sub, Open(s, args)) IN code_from_precode(r.s, args, r.leaf)
      code == Len(s.codes) + 1
  IN  CASE t.k = "name" ->
             [leaf |-> IF Known(s, x) THEN Named(s, x, "REF", <<>>)
                       ELSE leaf_from_object(String(x)), s |-> s]
        [] t.k = "assign" -> [leaf |-> Named(all.s, x, "ASSIGN", all.leaf), s |-> all.s]
        [] t.k = "function" -> [leaf |-> leaf_from_object(Code(code)), s |-> body(t.names)]
        [] t.k = "block" -> [leaf |-> leaf_from_block(code), s |-> body(<<>>)]
        [] OTHER -> [leaf |-> Built(t, all.leaf), s |-> all.s]

-----------------------------------------------------------------------------
(* Copies and independent codes *)

RECURSIVE code_leaf_copy(_, _, _, _), CopyAll(_, _, _, _)
RECURSIVE code_copy(_, _)

CopyAll(old, new, ls, a) ==
  IF ls = <<>> THEN [a EXCEPT !.leaf = <<>>]
  ELSE LET b == CopyAll(old, new, Front(ls), a)
           r == code_leaf_copy(old, new, Last(ls), b)
       IN  [r EXCEPT !.leaf = Append(b.leaf, r.leaf)]

\* An assignment to a variable of another code cannot be copied; a block is a code of its own.
code_leaf_copy(old, new, l, a) ==
  LET children == CopyAll(old, new, l.child, a)
      copy(x) == [children EXCEPT !.leaf = [l EXCEPT !.arg = x, !.child = children.leaf]]
  IN  CASE l.action = "LOCAL_ASSIGN" ->
             IF l.arg = old THEN copy(new)
             ELSE [a EXCEPT !.error = TRUE, !.leaf = leaf_from_object(Null)]
        [] l.action \in {"LOCAL_REF", "RECURSIVE"} -> copy(IF l.arg = old THEN new ELSE l.arg)
        [] l.action = "BLOCK" ->
             LET b == code_copy(l.arg, a.s) IN [a EXCEPT !.s = b.s, !.leaf = [l EXCEPT !.arg = b.code]]
        [] OTHER -> copy(l.arg)

\* The new code, 0 when it cannot be copied.
code_copy(c, s) ==
  LET new == Len(s.codes) + 1
      r == CopyAll(c, new, s.codes[c].entry,
                   [s |-> [s EXCEPT !.codes = Append(@, s.codes[c])], error |-> FALSE, leaf |-> <<>>])
  IN  IF r.error THEN [code |-> 0, s |-> r.s]
      ELSE [code |-> new, s |-> [r.s EXCEPT !.codes[new].entry = r.leaf]]

RECURSIVE BlocksIn(_, _)
\* The codes of the blocks of some leaves.
BlocksIn(s, ls) ==
  UNION {BlocksIn(s, ls[i].child) \cup
         (IF ls[i].action # "BLOCK" THEN {}
          ELSE {ls[i].arg} \cup (IF ls[i].arg = 0 THEN {} ELSE BlocksIn(s, s.codes[ls[i].arg].entry)))
         : i \in DOMAIN ls}

\* The nearest activation of a code, from the innermost context.
Activations(s, c) == {i \in DOMAIN s.ctx : s.ctx[i].code = c}
Nearest(s, c) == CHOOSE i \in Activations(s, c) : \A j \in Activations(s, c) : j <= i

\* What a local variable holds where it is replaced.
Captured(s, l) == s.ctx[Nearest(s, l.arg)].db[l.n]

Captures(s, l) == l.action = "LOCAL_REF" /\ Activations(s, l.arg) # {}

RECURSIVE remove_local_leaves(_, _, _, _)
remove_local_leaves(s, ls, code, new) ==
  LET removed(l) ==
        CASE Captures(s, l) -> [l EXCEPT !.action = "OBJECT", !.arg = Captured(s, l)]
          [] l.action = "LOCAL_REF" /\ ~Captures(s, l) /\ l.arg = code -> [l EXCEPT !.arg = new]
          [] OTHER -> l
      recursive(l) ==
        IF l.action = "OBJECT" /\ l.arg.t = "code" THEN
          IF l.arg.v = code THEN [l EXCEPT !.action = "RECURSIVE", !.arg = new] ELSE l
        ELSE l
  IN  [i \in DOMAIN ls |-> [recursive(removed(ls[i])) EXCEPT
                              !.child = remove_local_leaves(s, @, code, new)]]

RECURSIVE CapturesNull(_, _)
CapturesNull(s, ls) ==
  \E i \in DOMAIN ls :
    \/ IF Captures(s, ls[i]) THEN Captured(s, ls[i]) = Null ELSE FALSE
    \/ CapturesNull(s, ls[i].child)

\* The variables of the active contexts become constants of the code "new", a copy of
\* "code"; a variable without value, or a block that could not be copied, is a null pointer.
remove_local(s, new, code) ==
  LET all == {new} \cup BlocksIn(s, s.codes[new].entry)
  IN  IF 0 \in all \/ \E c \in all : CapturesNull(s, s.codes[c].entry)
      THEN [s EXCEPT !.status = "CRASH"]
      ELSE [s EXCEPT !.codes =
              [c \in DOMAIN @ |-> IF c \notin all THEN @[c]
                                  ELSE [@[c] EXCEPT !.entry = remove_local_leaves(s, @, code, new)]]]

RECURSIVE ConstantsIn(_, _, _)
\* The codes that are constants of some leaves, and their own.
ConstantsIn(s, ls, seen) ==
  LET here(l) == IF l.action = "OBJECT" THEN IF l.arg.t = "code" THEN {l.arg.v} \ seen ELSE {} ELSE {}
  IN  UNION {ConstantsIn(s, ls[i].child, seen) \cup
             UNION {{c} \cup ConstantsIn(s, s.codes[c].entry, seen \cup {c}) : c \in here(ls[i])}
             : i \in DOMAIN ls}

RECURSIVE remove_ref_leaves(_, _, _)
remove_ref_leaves(ls, ref, code) ==
  [i \in DOMAIN ls |->
     LET l == [ls[i] EXCEPT !.child = remove_ref_leaves(@, ref, code)]
     IN  IF l.action = "REF" THEN
           IF l.arg = ref THEN [l EXCEPT !.action = "RECURSIVE", !.arg = code] ELSE l
         ELSE l]

\* The name a code is assigned to stands in it for the code the leaf is in.
assign_remove_ref(s, code, ref) ==
  LET all == {code} \cup ConstantsIn(s, s.codes[code].entry, {code})
  IN  [s EXCEPT !.codes = [c \in DOMAIN @ |->
         IF c \in all THEN [@[c] EXCEPT !.entry = remove_ref_leaves(@, ref, c)] ELSE @[c]]]
=============================================================================
