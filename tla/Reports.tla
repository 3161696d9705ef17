------------------------------- MODULE Reports -------------------------------
(* What the interpreter says (kernel/libhaplo/error.c, the colours of        *)
(* utils.c): messages of the functions that are called, under a header that *)
(* is printed when what is said is of another kind than before.              *)
EXTENDS Naturals, Sequences, SequencesExt

CONSTANTS
  Codes,       \* messages of the interpreter that have a text: their numbers
  MaxDepth,    \* functions inside one another
  MaxReports   \* bound on what is said

NULL == 0
Interpreter == 99
General == {500, 1000, 3000, 4000}   \* headers of the messages of modules; they have no text

VARIABLES
  colors,         \* colours are printed
  calls,          \* evaluations and functions that run: [kind, prefix], with the one to restore
  error_prefix,   \* [function, thrown, color]; no function outside of calls
  off,            \* messages that are off
  out,            \* what was printed
  ended

reportVars == <<colors, calls, error_prefix, off, out, ended>>

Kind(n) == IF n < 1000 THEN "INFO" ELSE IF n < 2000 THEN "WARNING" ELSE IF n < 4000 THEN "ERROR" ELSE "FATAL"

Token(what, n, function) == [what |-> what, n |-> n, function |-> function]
Header(n, function) == Token("header", n, function)
Text(n, function) == Token("text", n, function)

__haplo_colors_set(kind) == IF colors /\ kind # "" THEN <<Token("color", NULL, NULL)>> ELSE <<>>
__haplo_colors_reset == <<Token("reset", NULL, NULL)>>   \* and a new line

\* A message that is off prints nothing, a general one a header and no text.
__haplo_error(n, function) ==
  IF n \in off THEN <<>>
  ELSE __haplo_colors_set(Kind(n)) \o (IF function # NULL THEN <<Header(n, function)>> ELSE <<>>)
       \o (IF n \in General THEN <<>> ELSE <<Text(n, function)>> \o __haplo_colors_reset)

Init ==
  /\ colors \in BOOLEAN
  /\ calls = <<>> /\ error_prefix = [function |-> NULL, thrown |-> 0, color |-> ""]
  /\ off = {} /\ out = <<>> /\ ended = FALSE

Reporting == ~ended /\ Len(SelectSeq(out, LAMBDA t : t.what = "text")) < MaxReports
Running(kind) == calls # <<>> /\ Last(calls).kind = kind
Pushed(kind) == Append(calls, [kind |-> kind, prefix |-> error_prefix.function])

\* Mutant of __haplo_error_prefix_set: what was said last is remembered over a call.
PrefixKept(function) == error_prefix' = [error_prefix EXCEPT !.function = function]

__haplo_error_prefix_set(function) ==
  error_prefix' = [function |-> function, thrown |-> 0, color |-> ""]

\* __haplo_code_leaf_execute, at the prompt or from a function
Evaluate ==
  /\ Reporting
  /\ Len(calls) < MaxDepth /\ ~Running("evaluation")
  /\ calls' = Pushed("evaluation")
  /\ UNCHANGED <<colors, error_prefix, off, out, ended>>

\* code_leaf_execute_func, around the call
Call ==
  /\ Reporting
  /\ Len(calls) < MaxDepth /\ Running("evaluation")
  /\ calls' = Pushed("function")
  /\ __haplo_error_prefix_set(Len(calls))
  /\ UNCHANGED <<colors, off, out, ended>>

Return ==
  /\ Reporting
  /\ calls # <<>>
  /\ __haplo_error_prefix_set(Last(calls).prefix)
  /\ calls' = Front(calls)
  /\ UNCHANGED <<colors, off, out, ended>>

\* SIGINT ends the last evaluation and the functions it runs.
Interrupted ==
  /\ Reporting
  /\ \E k \in DOMAIN calls :
       /\ calls[k].kind = "evaluation"
       /\ \A i \in (k + 1)..Len(calls) : calls[i].kind = "function"
       /\ __haplo_error_prefix_set(calls[k].prefix)
       /\ calls' = SubSeq(calls, 1, k - 1)
  /\ UNCHANGED <<colors, off, out, ended>>

\* prefix, then the message: haplo_info, haplo_warning, haplo_error and haplo_fatal.
Report ==
  /\ Reporting
  /\ ~Running("evaluation")
  /\ \E n \in General :
       LET again == error_prefix.thrown = n
           color == IF again THEN error_prefix.color ELSE IF n \in off THEN "" ELSE Kind(n)
       IN  /\ error_prefix' = [error_prefix EXCEPT !.thrown = n, !.color = color]
           /\ out' = out \o (IF again THEN <<>> ELSE __haplo_error(n, error_prefix.function))
                         \o __haplo_colors_set(color)
                         \o <<Text(n, error_prefix.function)>> \o __haplo_colors_reset
           /\ ended' = (n = 4000)
  /\ UNCHANGED <<colors, calls, off>>

\* code_execute_error: a message of the interpreter itself, at a place of its own.
InterpreterReport ==
  /\ Reporting
  /\ Running("evaluation")
  /\ \E n \in Codes : out' = out \o __haplo_error(n, Interpreter)
  /\ UNCHANGED <<colors, calls, error_prefix, off, ended>>

haplo_error_off ==
  /\ Reporting
  /\ \E n \in Codes \cup General : off' = off \cup {n}
  /\ UNCHANGED <<colors, calls, error_prefix, out, ended>>

Next ==
  Evaluate \/ Call \/ Return \/ Interrupted \/ Report \/ InterpreterReport \/ haplo_error_off

-----------------------------------------------------------------------------
Before(k, what) == {i \in 1..(k - 1) : out[i].what = what}

\* A message of a function comes under a header that has its kind and its function, unless
\* such headers are off: no message is taken for one of another call or of another kind.
UnderItsHeader ==
  \A k \in DOMAIN out :
    out[k].what = "text" /\ out[k].function # NULL /\ out[k].n \notin off =>
      \E i \in Before(k, "header") :
        /\ out[i] = Header(out[k].n, out[k].function)
        /\ \A j \in Before(k, "header") : j <= i

\* Every text ends the colour it is in, and every colour is ended by the one of a text.
ColoursEnd ==
  /\ \A k \in DOMAIN out : out[k].what = "text" => k < Len(out) /\ out[k + 1].what = "reset"
  /\ out # <<>> => Last(out).what = "reset"
  /\ \A k \in DOMAIN out : out[k].what = "color" => colors
=============================================================================
