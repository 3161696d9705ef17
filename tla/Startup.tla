------------------------------- MODULE Startup -------------------------------
(* The command line and the life of the process: kernel/haplo/hgetopt.c and  *)
(* main.c, haplo_init and haplo_fini of libhaplo/init.c, haplo_main of       *)
(* parser.y. The words are read twice: parameters before the interpreter is  *)
(* initialised, everything else after.                                       *)
EXTENDS Integers, Sequences, SequencesExt

CONSTANTS Lines,   \* command lines: sequences of words [head, rest, upper]
          Leaks    \* whether the process may leave memory behind it

NoInt == 0 - 1

\* The options: what they take, and when they are carried out.
Option ==
  [x \in {"-I", "-L", "-cpu", "-mem"} |-> "OPTARG"] @@
  [x \in {"-colors"} |-> "PARAM"] @@
  [x \in {"-nobanner", "-noinit", "-autoload"} |-> "PARAMONLY"] @@
  [x \in {"-cflags", "-config", "-libs", "-version"} |-> "NONE"] @@
  [x \in {"-help"} |-> "OPTIONS"]

\* Mutant of PassOf: every option is carried out as it is first read.
PassAtOnce(type) == "first"

TakesValue(type) == type \in {"OPTARG", "PARAM"}
PassOf(type) == IF type \in {"PARAM", "PARAMONLY"} THEN "first" ELSE "second"

VARIABLES
  words, i,       \* the command line, and the word that is read
  phase,          \* "first" and "second" reading, "init" between them, "main", "fini", "over"
  status,         \* of the pass
  param,          \* haplo_param_t
  scripts, modules,   \* search paths, the last one added first
  limits, printed,    \* limits set, options that print something
  ran,            \* the files that were run
  exit            \* how the process ended

startVars == <<words, i, phase, status, param, scripts, modules, limits, printed, ran, exit>>

-----------------------------------------------------------------------------
(* One option *)

\* "-Ivalue", "-name=value", or the name alone; "-name=" is a name of its own.
Name(w) == IF w.upper \/ Len(w.rest) = 2 THEN <<w.head>> ELSE <<w.head>> \o w.rest
Value(w) == IF w.upper THEN w.rest ELSE IF Len(w.rest) = 2 THEN <<w.rest[2]>> ELSE <<>>

IsOption(w) == w.head # ""
Ends(w) == w.head = "--" /\ w.rest = <<>>

\* What is to be done with the word k: the option, its value, how many words it took; an
\* option that is wrong takes one.
Parsed(ws, k) ==
  LET w == ws[k]
      known == Len(Name(w)) = 1 /\ w.head \in DOMAIN Option
      type == Option[w.head]
      next == k < Len(ws) /\ ~IsOption(ws[k + 1])
      wrong == [option |-> "", value |-> "", taken |-> 1]
  IN  IF ~known THEN wrong
      ELSE IF TakesValue(type)
      THEN IF Value(w) # <<>> THEN [option |-> w.head, value |-> Head(Value(w)), taken |-> 1]
           ELSE IF next THEN [option |-> w.head, value |-> Head(ws[k + 1].rest), taken |-> 2] ELSE wrong
      ELSE IF Value(w) # <<>> THEN wrong ELSE [option |-> w.head, value |-> "", taken |-> 1]

Colors == {"none", "ansi", "flash"}

\* setcolors, noinit, autoload, nobanner
SetParam(o) ==
  CASE o.option = "-colors" ->
         IF o.value \in Colors THEN [param EXCEPT !.colors = o.value] ELSE param
    [] o.option = "-noinit" -> [param EXCEPT !.init_filename = ""]
    [] o.option = "-autoload" -> [param EXCEPT !.autoload = TRUE]
    [] o.option = "-nobanner" -> [param EXCEPT !.banner = FALSE]

\* What the action of an option returns: printing ends the process, after the others.
Status(o) ==
  IF Option[o.option] \in {"NONE", "OPTIONS"} THEN 1
  ELSE IF o.option = "-colors" /\ o.value \notin Colors THEN NoInt ELSE 0

-----------------------------------------------------------------------------
\* haplo_param_default
Init ==
  /\ words \in Lines
  /\ i = 1 /\ phase = "first" /\ status = 0
  /\ param = [colors |-> "flash", autoload |-> FALSE, banner |-> TRUE,
              init_filename |-> "haplo-init.hpl", filename |-> 0]
  /\ scripts = <<>> /\ modules = <<>> /\ limits = <<>> /\ printed = <<>> /\ ran = <<>>
  /\ exit = ""

Reading == phase \in {"first", "second"} /\ i <= Len(words) /\ IsOption(words[i]) /\ ~Ends(words[i])

\* Limits are set and paths are added by the second pass, once the default ones are there.
\* limit_mem sets nothing: it does so when getrlimit fails (main.c:411).
hgetopt ==
  /\ Reading
  /\ LET o == Parsed(words, i)
         done == o.option # "" /\ PassOf(Option[o.option]) = phase
         got == IF done THEN Status(o) ELSE 0
     IN  /\ i' = i + o.taken
         /\ status' = IF o.option = "" THEN NoInt
                      ELSE IF status = 0 \/ got = NoInt THEN got ELSE status
         /\ param' = IF done /\ Option[o.option] \in {"PARAM", "PARAMONLY"} THEN SetParam(o) ELSE param
         /\ scripts' = IF done /\ o.option = "-I" THEN <<o.value>> \o scripts ELSE scripts
         /\ modules' = IF done /\ o.option = "-L" THEN <<o.value>> \o modules ELSE modules
         /\ limits' = IF done /\ o.option = "-cpu" THEN Append(limits, o.value) ELSE limits
         /\ printed' = IF done /\ Option[o.option] \in {"NONE", "OPTIONS"}
                       THEN Append(printed, o.option) ELSE printed
  /\ UNCHANGED <<words, phase, ran, exit>>

\* The words end, or the options do: the process too when one was wrong or has printed.
PassEnds ==
  /\ phase \in {"first", "second"} /\ ~Reading
  /\ LET first == IF i <= Len(words) /\ Ends(words[i]) THEN i + 1 ELSE i
     IN  IF status # 0
         THEN /\ phase' = "over" /\ exit' = IF status < 0 THEN "failure" ELSE "success"
              /\ UNCHANGED <<i, param>>
         ELSE /\ phase' = IF phase = "first" THEN "init" ELSE "main"
              /\ i' = 1
              /\ param' = IF phase = "second" /\ first <= Len(words)
                          THEN [param EXCEPT !.filename = first] ELSE param
              /\ UNCHANGED exit
  /\ UNCHANGED <<words, status, scripts, modules, limits, printed, ran>>

haplo_init ==
  /\ phase = "init" /\ phase' = "second"
  /\ scripts' = <<"share">> /\ modules' = <<"modules">>
  /\ UNCHANGED <<words, i, status, param, limits, printed, ran, exit>>

\* A file that cannot be read is an error message, and nothing is run.
haplo_main ==
  /\ phase = "main" /\ phase' = "fini"
  /\ \E readable, found \in BOOLEAN :
       ran' = IF param.filename # 0 /\ ~readable THEN <<>>
              ELSE (IF param.init_filename # "" /\ found THEN <<param.init_filename>> ELSE <<>>)
                   \o <<IF param.filename # 0 THEN "file" ELSE "(stdin)">>
  /\ UNCHANGED <<words, i, status, param, scripts, modules, limits, printed, exit>>

\* Memory that is left is looked for with the banner only; a file that was not run is no failure.
do_work ==
  /\ phase = "fini" /\ phase' = "over"
  /\ \E leaks \in Leaks : exit' = IF param.banner /\ leaks THEN "failure" ELSE "success"
  /\ UNCHANGED <<words, i, status, param, scripts, modules, limits, printed, ran>>

Next == hgetopt \/ PassEnds \/ haplo_init \/ haplo_main \/ do_work

-----------------------------------------------------------------------------
RECURSIVE Asked(_, _)
\* The options of a command line, from a word on.
Asked(ws, k) ==
  IF k > Len(ws) \/ ~IsOption(ws[k]) \/ Ends(ws[k]) THEN <<>>
  ELSE <<Parsed(ws, k)>> \o Asked(ws, k + Parsed(ws, k).taken)

Values(asked, option) == {k \in DOMAIN asked : asked[k].option = option}

\* A command line that is wrong does nothing and runs nothing; another one does all that was
\* asked for: a printing option is carried out once, and nothing is run.
WrongDoesNothing ==
  LET asked == Asked(words, 1)
      wrong == \E k \in DOMAIN asked :
                 asked[k].option = "" \/ (asked[k].option = "-colors" /\ asked[k].value \notin Colors)
      prints == SelectSeq(asked, LAMBDA o : o.option # "" /\ Option[o.option] \in {"NONE", "OPTIONS"})
  IN  /\ wrong => printed = <<>> /\ limits = <<>> /\ scripts = <<>> /\ ran = <<>>
      /\ phase = "over" /\ wrong => exit = "failure"
      /\ phase \in {"main", "fini"} => prints = <<>>
      /\ phase = "over" /\ ~wrong => printed = [k \in DOMAIN prints |-> prints[k].option]
      /\ prints # <<>> => ran = <<>>

\* The parameters are known before the interpreter is initialised and no longer change; the
\* last value of an option counts, and the path added last is searched first.
ParametersFirst ==
  LET asked == Asked(words, 1)
      added == SelectSeq(asked, LAMBDA o : o.option = "-I")
  IN  /\ phase \notin {"first", "over"} =>
           /\ param.banner = (Values(asked, "-nobanner") = {})
           /\ param.autoload = (Values(asked, "-autoload") # {})
           /\ param.colors =
                IF Values(asked, "-colors") = {} THEN "flash"
                ELSE asked[CHOOSE k \in Values(asked, "-colors") :
                             \A l \in Values(asked, "-colors") : l <= k].value
      /\ phase \in {"main", "fini"} =>
           scripts = [k \in DOMAIN added |-> added[Len(added) + 1 - k].value] \o <<"share">>
=============================================================================
