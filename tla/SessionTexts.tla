---------------------------- MODULE SessionTexts ----------------------------
(* The sessions that are run: every program of a family is a session in which *)
(* functions, blocks, loops and tables are put together in another way.       *)
EXTENDS Integers, Sequences

Text(k, v, names, sub) == [k |-> k, v |-> v, names |-> names, sub |-> sub]
N(x) == Text("name", 0, <<x>>, <<>>)
V(v) == Text("number", v, <<>>, <<>>)
S(x) == Text("string", 0, <<x>>, <<>>)
Op(f, a, b) == Text("operator", 0, <<f>>, <<a, b>>)
Let(x, e) == Text("assign", 0, <<x>>, <<e>>)
Fun(args, body) == Text("function", 0, args, body)
Of(kind, sub) == Text(kind, 0, <<>>, sub)
Empty == Of("empty", <<>>)
Block(body) == Of("block", body)
Call(f, args) == Of("call", <<f>> \o args)
If(c, yes, no) == Of("if", <<c, yes, no>>)
While(c, b) == Of("while", <<c, b>>)
For(first, c, post, b) == Of("for", <<first, c, post, b>>)
Return(e) == Of("return", <<e>>)
Break == Of("break", <<>>)
Continue == Of("continue", <<>>)
ListOf(es) == Of("list", es)
Hash(members) == Of("hash", members)
Get(h, x) == Of("get", <<h, x>>)
Put(h, x, v) == Of("put", <<h, x, v>>)
Include(f) == Of("include", <<S(f)>>)

Add(a, b) == Op("+", a, b)
Sub(a, b) == Op("-", a, b)
Mul(a, b) == Op("*", a, b)
Lower(a, b) == Op("<", a, b)
Equal(a, b) == Op("=", a, b)

g == N("g")
h == N("h")
i == N("i")
k == N("k")
n == N("n")
r == N("r")
t == N("t")
u == N("u")

-----------------------------------------------------------------------------
(* Functions that make functions of one argument *)

\* Bodies of the function that is made; "t" is the variable of the one that makes it.
Inner ==
  {<<n>>, <<Add(n, t)>>, <<Let("n", Sub(n, V(1))), Mul(n, t)>>,
   <<Let("r", Add(n, t)), Mul(r, r)>>,
   <<Let("r", V(0)), While(Lower(r, n), Let("r", Add(r, t))), r>>,
   <<If(Lower(n, t), Return(V(7)), Empty), t>>,
   <<Let("r", V(0)),
     For(Let("i", V(0)), Lower(i, n), Let("i", Add(i, V(1))), Let("r", Add(r, t))), r>>,
   <<If(Equal(n, V(0)), V(1), Block(<<Let("r", Mul(n, t)), Add(r, n)>>))>>,
   <<ListOf(<<t, n>>)>>,
   <<Get(Hash(<<S("x"), t, S("y"), n>>), S("x"))>>}

Maker(body) ==
  {<<Fun(<<"n">>, body)>>,
   <<Return(Fun(<<"n">>, body))>>,
   <<Let("u", Add(t, V(1))), Fun(<<"n">>, body)>>,
   <<Let("t", Add(t, V(1))), Fun(<<"n">>, body)>>,
   <<Let("u", Fun(<<"n">>, body)), u>>,
   <<Let("u", Fun(<<"n">>, body)), Call(u, <<V(5)>>), Let("t", V(4)), u>>,
   <<If(Lower(t, V(2)), Fun(<<"n">>, body), Fun(<<"n">>, <<V(9)>>))>>,
   <<Block(<<Let("u", t), Fun(<<"n">>, body)>>)>>,
   <<Let("u", Fun(<<"n">>, <<If(Lower(n, V(1)), t, Call(N("u"), <<Sub(n, V(1))>>))>>)),
     Let("v", Fun(<<"n">>, body)), Call(u, <<V(2)>>), N("v")>>}

\* Two functions made with other values, called in turn, and one called at once.
Makers ==
  {<<Let("a", Fun(<<"t">>, maker)), Let("one", Call(N("a"), <<V(1)>>)),
     Let("two", Call(N("a"), <<V(2)>>)), Call(N("one"), <<V(3)>>), Call(N("two"), <<V(2)>>),
     Call(N("one"), <<V(0)>>), Call(Call(N("a"), <<V(3)>>), <<V(4)>>)>>
   : maker \in UNION {Maker(body) : body \in Inner}}

-----------------------------------------------------------------------------
(* Functions that change what is outside of them *)

Count(x) == Let(x, Add(N(x), V(1)))
Steps ==
  {Let("g", n), Let("r", Add(n, V(1))), Let("n", Sub(n, V(1))),
   If(Lower(n, V(2)), Let("g", V(4)), Let("r", V(5))),
   If(Lower(n, V(2)), Return(V(8)), Empty),
   While(Lower(g, n), Count("g")),
   While(Lower(g, n), Block(<<Count("g"), Let("q", g), If(Equal(N("q"), V(1)), Break, Empty)>>)),
   While(Lower(g, n), Block(<<Count("g"), If(Equal(g, V(1)), Continue, Empty), Count("n"), Break>>)),
   For(Let("i", V(0)), Lower(i, n), Count("i"), Let("g", Add(g, i))),
   Block(<<Let("r", n), Let("g", r)>>),
   Let("r", ListOf(<<n, g>>)), Let("g", Call(ListOf(<<n, V(3)>>), <<V(1)>>)),
   Let("r", Hash(<<S("x"), n, S("y"), g>>)), Let("g", Get(Hash(<<S("x"), n>>), S("x"))),
   Put(h, S("x"), n), Include("file"),
   If(Lower(V(0), n), Let("g", Add(g, Call(N("f"), <<Sub(n, V(1))>>))), Empty),
   Let("g", Call(Fun(<<"k">>, <<Mul(k, n)>>), <<g>>))}

Changes ==
  {<<Let("g", V(0)), Let("h", Hash(<<S("x"), V(6)>>)), Let("e", h), Let("f", Fun(<<"n">>, <<one, two>>)),
     Call(N("f"), <<V(2)>>), g, Call(N("f"), <<V(1)>>), Get(N("e"), S("x"))>> : one, two \in Steps}

\* The name of a file, and what it holds.
Included == [file |-> <<Let("z", Add(g, V(3))), Let("g", N("z"))>>]

-----------------------------------------------------------------------------
(* A function that gives a global name a function made of its variable *)

Assigned ==
  {<<Let("g", V(0)), Let("f", Fun(<<"n">>, <<first, Let("g", Fun(<<>>, <<body>>))>>)),
     Call(N("f"), <<V(1)>>), Call(g, <<>>), Call(N("f"), <<V(2)>>), Call(g, <<>>)>>
   : first \in {Empty, Let("r", n), Let("n", Add(n, n))}, body \in {n, V(3), Add(n, n)}}
=============================================================================
