------------------------------ MODULE Sessions ------------------------------
(* A session: statements read and executed one after the other, each next to *)
(* what it means.                                                            *)
EXTENDS Integers, Sequences

CONSTANTS Files, Programs

VARIABLES rest, machine, meaning

INSTANCE Evaluator
Sense == INSTANCE Meaning WITH Texts <- Files, Operation <- builtin
Text == INSTANCE SessionTexts

sessionVars == <<rest, machine, meaning>>

Init == rest \in Programs /\ machine = Machine /\ meaning = Sense!Begin

Next ==
  /\ rest # <<>> /\ machine.status # "CRASH"
  /\ rest' = Tail(rest)
  /\ machine' = Run(Head(rest), machine)
  /\ meaning' = Sense!Statement(Head(rest), meaning)

RECURSIVE Same(_, _)
\* A value of the machine and a value, as they are displayed.
Same(v, w) ==
  /\ v.t = w.t
  /\ v.t \in {"float", "boolean", "string"} => v.v = w.v
  /\ v.t = "list" =>
       Len(v.v) = Len(w.v) /\ \A i \in DOMAIN v.v : Same(v.v[i], w.v[i])
  /\ v.t = "hash" =>
       LET h == machine.hashes[v.v]  g == meaning.hashes[w.v]
       IN  DOMAIN h = DOMAIN g /\ \A x \in DOMAIN h : Same(h[x], g[x])

\* Every statement has the value it means, and leaves the global names theirs.
AsMeant ==
  /\ machine.status # "CRASH"
  /\ Same(machine.result, meaning.result)
  /\ \A x \in DOMAIN machine.globals :
       x \in DOMAIN meaning.frames[1].names => Same(machine.globals[x], meaning.frames[1].names[x])

-----------------------------------------------------------------------------
\* Sessions in which a function gives a global name a function made of its own
\* variable, and the files they include.
AssignedFunctions == Text!Assigned
IncludedFiles == Text!Included
=============================================================================
