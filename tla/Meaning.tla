------------------------------- MODULE Meaning -------------------------------
(* What a text means, apart from leaves, copies and contexts: names belong   *)
(* to the frame of the block or function they are first given a value in, a  *)
(* function keeps the frame it is written in, a call has a frame of its own. *)
(* "m" has the frames (the first one is that of the global names), the hash  *)
(* tables, the status and the result of the last text.                       *)
EXTENDS Integers, Sequences, TLC, SequencesExt

CONSTANT Texts                   \* the files that may be included
CONSTANT Operation(_, _)         \* a function of the registry and its arguments

LOCAL Nothing == [t |-> "null"]

Begin ==
  [frames |-> <<[names |-> <<>>, up |-> 0]>>, hashes |-> <<>>, status |-> "OK", result |-> Nothing]

Gives(m, v) == [m EXCEPT !.status = "OK", !.result = v]
Fails(m) == [m EXCEPT !.status = "ERROR", !.result = Nothing]

RECURSIVE Frame(_, _, _)
\* The innermost frame that has the name, 0 when none has.
Frame(m, f, x) ==
  IF f = 0 THEN 0
  ELSE IF x \in DOMAIN m.frames[f].names THEN f ELSE Frame(m, m.frames[f].up, x)

Bind(m, f, x, v) == [m EXCEPT !.frames[f].names = (x :> v) @@ @]

RECURSIVE Means(_, _, _), InOrder(_, _, _), Body(_, _, _)

InOrder(ts, f, m) ==
  IF ts = <<>> THEN [m |-> Gives(m, Nothing), values |-> <<>>]
  ELSE LET a == InOrder(Front(ts), f, m)
       IN  IF a.m.status # "OK" THEN a
           ELSE LET r == Means(Last(ts), f, a.m) IN [m |-> r, values |-> Append(a.values, r.result)]

\* The last value, or that of the "return" met.
Body(ts, f, m) == InOrder(ts, f, m).m

Within(m, up, names) == [m EXCEPT !.frames = Append(@, [names |-> names, up |-> up])]

\* An error inside a call leaves the call without a value.
Called(c, args, m) ==
  IF Len(c.v.args) # Len(args) THEN Gives(m, Nothing)
  ELSE LET in == Within(m, c.v.up, [x \in ToSet(c.v.args) |->
                                      args[CHOOSE i \in DOMAIN args : c.v.args[i] = x]])
           r == Body(c.v.body, Len(in.frames), in)
       IN  Gives(r, IF r.status \in {"OK", "RETURN"} THEN r.result ELSE Nothing)

Element(list, i, m) ==
  IF i.t # "float" THEN Fails(m) ELSE IF i.v \in DOMAIN list.v THEN Gives(m, list.v[i.v]) ELSE Fails(m)

Member(hash, key, m) ==
  IF key.t # "string" THEN Fails(m)
  ELSE IF key.v \in DOMAIN m.hashes[hash.v] THEN Gives(m, m.hashes[hash.v][key.v])
  ELSE Fails(m)

RECURSIVE Loop(_, _, _, _, _)
\* "post" is done after the body, also after a "continue".
Loop(cond, body, post, f, m) ==
  LET c == Means(cond, f, m)
      b == Means(body, f, Gives(c, Nothing))
      next == IF b.status \in {"OK", "CONTINUE"} THEN Body(post, f, Gives(b, Nothing)) ELSE b
  IN  IF c.status # "OK" THEN c
      ELSE IF ~c.result.v THEN Gives(c, Nothing)
      ELSE IF b.status = "BREAK" THEN Gives(b, Nothing)
      ELSE IF next.status = "OK" THEN Loop(cond, body, post, f, Gives(next, Nothing))
      ELSE next

Means(t, f, m) ==
  LET x == Head(t.names)
      all == InOrder(t.sub, f, m)
      v == all.values
      first == Means(t.sub[1], f, m)
      Given(new) == IF all.m.status = "OK" THEN new ELSE all.m
  IN  CASE t.k = "number" -> Gives(m, [t |-> "float", v |-> t.v])
        [] t.k = "string" -> Gives(m, [t |-> "string", v |-> x])
        [] t.k = "empty" -> Gives(m, Nothing)
        [] t.k = "name" ->
             LET g == Frame(m, f, x)
             IN  IF g = 0 THEN Gives(m, [t |-> "string", v |-> x])
                 ELSE IF m.frames[g].names[x].t = "null" THEN Fails(m)
                 ELSE Gives(m, m.frames[g].names[x])
        [] t.k = "assign" ->
             LET g == Frame(m, f, x)
                 seen == IF g = 0 THEN Bind(m, f, x, Nothing) ELSE m
                 r == Means(t.sub[1], f, seen)
             IN  IF r.status = "OK" THEN Bind(r, IF g = 0 THEN f ELSE g, x, r.result) ELSE r
        [] t.k = "function" -> Gives(m, [t |-> "code", v |-> [args |-> t.names, body |-> t.sub, up |-> f]])
        [] t.k = "block" -> LET in == Within(m, f, <<>>) IN Body(t.sub, Len(in.frames), in)
        [] t.k = "call" ->
             IF all.m.status # "OK" THEN all.m
             ELSE IF v[1].t = "code" THEN Called(v[1], Tail(v), all.m)
             ELSE IF v[1].t = "list" THEN Element(v[1], v[2], all.m)
             ELSE Fails(all.m)
        [] t.k = "operator" ->
             Given(IF Operation(x, v).t = "null" THEN Fails(all.m) ELSE Gives(all.m, Operation(x, v)))
        [] t.k = "if" ->
             IF first.status # "OK" THEN first
             ELSE IF first.result.t # "boolean" THEN Fails(first)
             ELSE Means(t.sub[IF first.result.v THEN 2 ELSE 3], f, first)
        [] t.k = "while" -> Loop(t.sub[1], t.sub[2], <<>>, f, m)
        [] t.k = "for" ->
             IF first.status # "OK" THEN first ELSE Loop(t.sub[2], t.sub[4], <<t.sub[3]>>, f, first)
        [] t.k = "return" -> Given([all.m EXCEPT !.status = "RETURN"])
        [] t.k = "break" -> [Gives(m, Nothing) EXCEPT !.status = "BREAK"]
        [] t.k = "continue" -> [Gives(m, Nothing) EXCEPT !.status = "CONTINUE"]
        [] t.k = "list" -> Given(Gives(all.m, [t |-> "list", v |-> v]))
        [] t.k = "hash" ->
             LET keys == {i \in DOMAIN v : i % 2 = 1}
                 value(y) == v[(CHOOSE i \in keys : v[i].v = y) + 1]
             IN  Given([Gives(all.m, [t |-> "hash", v |-> Len(all.m.hashes) + 1]) EXCEPT
                          !.hashes = Append(@, [y \in {v[i].v : i \in keys} |-> value(y)])])
        [] t.k = "get" -> Given(IF v[1].t = "hash" THEN Member(v[1], v[2], all.m) ELSE Element(v[1], v[2], all.m))
        [] t.k = "put" ->
             Given([Gives(all.m, v[1]) EXCEPT !.hashes[v[1].v] = (v[2].v :> v[3]) @@ @])
        [] t.k = "include" ->
             Given(Gives(FoldLeft(LAMBDA a, y : Means(y, 1, a), all.m, Texts[v[1].v]), Nothing))

\* A statement, and its value when it ends well.
Statement(t, m) ==
  LET r == Means(t, 1, m) IN IF r.status = "OK" THEN r ELSE [r EXCEPT !.result = Nothing]
=============================================================================
