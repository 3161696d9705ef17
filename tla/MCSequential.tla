--------------------------- MODULE MCSequential ---------------------------
(* The sequential parts of the kernel, of modules/io and of modules/net in   *)
(* one run: a state belongs to the one in "part" and the variables of the    *)
(* others keep a value of their own.  Init and Next are those of GzFile.     *)
EXTENDS GzFile, Interruption, Containers, Registry, TLC

CONSTANTS
  DataSets, AnalysisTypes,
  Layouts, HeaderLines, Types, MaxBlocks,
  Files, Programs,
  Libraries, Here, Paths, Modules, UserTypes, HAPLO_MAJOR, HAPLO_MINOR, MaxLoads,
  Lines, Leaks, Addresses, Sizes, MaxBlocksAsked,
  Codes, MaxCallDepth, MaxReports, Million, Seconds, ClockSteps, Widths, MantissaBits,
  BLOCK, WORD, Limit, Pieces, MaxGiven

VARIABLES part,
  dataset, analysis, block, page, decoded, problem, step,
  layout, lines, cursor, inFilter, outFilter, data, error, message, output, status, failed,
  chosen,
  rest, machine, meaning,
  module_list, module_path, opened, types, functions, handles, ending, requests,
  words, word, phase, passStatus, param, scripts, paths, limits, printed, ran, exit,
  heap, memory_usage, memory_size, memory_max, calls, ended,
  colors, running, error_prefix, off, out, fatal,
  clock, timer, started, stopped,
  fed, bits, in, buf, digest

Records == INSTANCE UnvRecords
Sets == INSTANCE UnvFile
Session == INSTANCE Sessions
Module == INSTANCE Loader WITH MaxCalls <- MaxLoads
Start == INSTANCE Startup WITH i <- word, status <- passStatus, modules <- paths
Memory == INSTANCE Blocks WITH counts <- calls, MaxCalls <- MaxBlocksAsked
Report == INSTANCE Reports WITH calls <- running, ended <- fatal, MaxDepth <- MaxCallDepth
Timer == INSTANCE Timers WITH begun <- started, Steps <- ClockSteps
Digest == INSTANCE Digests WITH given <- fed
SessionText == INSTANCE SessionTexts

ASSUME SequentialAssumption ==
  /\ Records!UnvRecordsAssumption
  /\ Sets!UnvFileAssumption
  /\ Module!LoaderAssumption
  /\ Digest!DigestsAssumption

recordsVars == <<dataset, analysis, block, page, decoded, problem, step>>
setsVars == <<layout, lines, cursor, inFilter, outFilter, data, error, message, output, status,
              failed, chosen>>
sessionVars == <<rest, machine, meaning>>
modulesVars == <<module_list, module_path, opened, types, functions, handles, ending, requests>>
startVars == <<words, word, phase, passStatus, param, scripts, paths, limits, printed, ran, exit>>
memoryVars == <<heap, memory_usage, memory_size, memory_max, calls, ended>>
reportsVars == <<colors, running, error_prefix, off, out, fatal>>
timerVars == <<clock, timer, started, stopped>>
digestVars == <<fed, bits, in, buf, digest>>
fileVars == <<text, gzVars, lineVars, open, sliceVars, fresh>>
sequentialVars ==
  <<part, fileVars, recordsVars, setsVars, sessionVars, listVars, tableVars, linkVars,
    registryVars, interruptionVars, modulesVars, startVars, memoryVars, reportsVars,
    timerVars, digestVars>>

NoRecords ==
  /\ dataset = 0 /\ analysis = 0 /\ block = 0 /\ page = 0 /\ decoded = 0 /\ problem = 0
  /\ step = 0

NoSets ==
  /\ layout = 0 /\ lines = 0 /\ cursor = 0 /\ inFilter = 0 /\ outFilter = 0 /\ data = 0
  /\ error = 0 /\ message = 0 /\ output = 0 /\ status = 0 /\ failed = 0 /\ chosen = 0

NoSession == rest = 0 /\ machine = 0 /\ meaning = 0

NoModule ==
  /\ module_list = 0 /\ module_path = 0 /\ opened = 0 /\ types = 0 /\ functions = 0
  /\ handles = 0 /\ ending = 0 /\ requests = 0

NoStart ==
  /\ words = 0 /\ word = 0 /\ phase = 0 /\ passStatus = 0 /\ param = 0 /\ scripts = 0
  /\ paths = 0 /\ limits = 0 /\ printed = 0 /\ ran = 0 /\ exit = 0

NoMemory ==
  /\ heap = 0 /\ memory_usage = 0 /\ memory_size = 0 /\ memory_max = 0 /\ calls = 0
  /\ ended = 0

NoReport ==
  /\ colors = 0 /\ running = 0 /\ error_prefix = 0 /\ off = 0 /\ out = 0 /\ fatal = 0

NoTimer == clock = 0 /\ timer = 0 /\ started = 0 /\ stopped = 0

NoDigest == fed = 0 /\ bits = 0 /\ in = 0 /\ buf = 0 /\ digest = 0

Parts == {"file", "signal", "records", "sets", "session", "list", "table", "links", "functions",
          "modules", "start", "memory", "reports", "timer", "digest"}

SequentialInit ==
  /\ part \in Parts
  /\ Init /\ (part # "file" => text = <<>>)
  /\ __haplo_interruptible_init
  /\ ContainersInit
  /\ RegistryInit
  /\ part # "list" => \A size \in PageSizes : pages[1].size <= size
  /\ part # "table" => \A size \in TableSizes : HashSize(entry) <= size
  /\ IF part = "records" THEN Records!Init ELSE NoRecords
  /\ IF part = "sets" THEN Sets!Init ELSE NoSets
  /\ IF part = "session" THEN Session!Init ELSE NoSession
  /\ IF part = "modules" THEN Module!Init ELSE NoModule
  /\ IF part = "start" THEN Start!Init ELSE NoStart
  /\ IF part = "memory" THEN Memory!Init ELSE NoMemory
  /\ IF part = "reports" THEN Report!Init ELSE NoReport
  /\ IF part = "timer" THEN Timer!Init ELSE NoTimer
  /\ IF part = "digest" THEN Digest!Init ELSE NoDigest

\* The step is one of the part p.
Keep(p) ==
  /\ part' = part
  /\ IF p = "file" THEN TRUE ELSE UNCHANGED fileVars
  /\ IF p = "signal" THEN TRUE ELSE UNCHANGED interruptionVars
  /\ IF p = "records" THEN TRUE ELSE UNCHANGED recordsVars
  /\ IF p = "sets" THEN TRUE ELSE UNCHANGED setsVars
  /\ IF p = "session" THEN TRUE ELSE UNCHANGED sessionVars
  /\ IF p = "list" THEN TRUE ELSE UNCHANGED listVars
  /\ IF p = "table" THEN TRUE ELSE UNCHANGED tableVars
  /\ IF p = "links" THEN TRUE ELSE UNCHANGED linkVars
  /\ IF p = "functions" THEN TRUE ELSE UNCHANGED registryVars
  /\ IF p = "modules" THEN TRUE ELSE UNCHANGED modulesVars
  /\ IF p = "start" THEN TRUE ELSE UNCHANGED startVars
  /\ IF p = "memory" THEN TRUE ELSE UNCHANGED memoryVars
  /\ IF p = "reports" THEN TRUE ELSE UNCHANGED reportsVars
  /\ IF p = "timer" THEN TRUE ELSE UNCHANGED timerVars
  /\ IF p = "digest" THEN TRUE ELSE UNCHANGED digestVars

SequentialNext ==
  \/ part = "file" /\ Next /\ Keep("file")
  \/ part = "signal" /\ InterruptionNext /\ Keep("signal")
  \/ part = "records" /\ Records!Next /\ Keep("records")
  \/ part = "sets" /\ Sets!Next /\ Keep("sets")
  \/ part = "session" /\ Session!Next /\ Keep("session")
  \/ part \in {"list", "table", "links"} /\ Keep(part) /\ ContainersNext
  \/ part = "functions" /\ RegistryNext /\ Keep("functions")
  \/ part = "modules" /\ Module!Next /\ Keep("modules")
  \/ part = "start" /\ Start!Next /\ Keep("start")
  \/ part = "memory" /\ Memory!Next /\ Keep("memory")
  \/ part = "reports" /\ Report!Next /\ Keep("reports")
  \/ part = "timer" /\ Timer!Next /\ Keep("timer")
  \/ part = "digest" /\ Digest!Next /\ Keep("digest")

SequentialSpec == SequentialInit /\ [][SequentialNext]_sequentialVars

\* A header written and read again is the same block (parser_UNV*.c). The blocks read
\* are the data sets the filter wants, in order and without exception, and are found
\* again from their OFFSET; what is copied is a universal file again, character for
\* character (parser_UNV.c, parser_UNVXX.c, parser.c, data.c, fileslice.c).
BlocksRead ==
  /\ part = "records" => Records!RoundTrip
  /\ part = "sets" => Sets!ReadInOrder /\ Sets!NoneLeft /\ Sets!SameAgain /\ Sets!CopyWhole
  /\ part = "file" => SliceWhole

\* Statements do what they say: scopes, copies of functions, loops, tables, included
\* files (code.c, parser.y).
AsMeant == part = "session" => Session!AsMeant

\* Modules are loaded after those they need, once, and leave nothing behind; a wrong
\* command line does nothing, a right one is known before the start (module.c, main.c).
ModulesSound ==
  /\ part = "modules" => Module!DependenciesFirst /\ Module!OpenedOnce /\ Module!NothingLeft
  /\ part = "start" => Start!WrongDoesNothing /\ Start!ParametersFirst

\* What is reported is right: the memory in use, the function a message comes from, the
\* time, the integer a number becomes, the digest of a text given in any pieces (memory.c,
\* error.c, timer.c, utils.c, identity.c).
ReportsRight ==
  /\ part = "memory" => Memory!ListIsHeap /\ Memory!SizeIsSum
  /\ part = "reports" => Report!UnderItsHeader /\ Report!ColoursEnd
  /\ part = "timer" =>
       Timer!TimeRight /\ (started = <<>> => Timer!PrintedRight /\ Timer!ConvertedRight)
  /\ part = "digest" => Digest!SplitsAlike

\* Lines shorter and longer than the buffer, with a carriage return or without, that
\* need not end with the file.
MCTexts ==
  LET a == "a"  n == "newline"  r == "return"
  IN  {<<a, n, r, a, n, n, a>>, <<a, r, n, a, a, r, n, a>>,
       <<a, a, a, a, a, n, a>>, <<a, a, a, n, a>>, <<>>}

MCLayouts ==
  LET D(n, s) == [number |-> n, size |-> s, closed |-> TRUE]
  IN  {<<D(55, 2), D(2411, 0), D(151, 1), D(55, 3)>>,
       <<D(151, 0), D(55, 1), D(2411, 2), D(55, 2)>>,
       <<D(2411, 1), D(55, 2), [number |-> 55, size |-> 1, closed |-> FALSE]>>}

MCHeaderLines == [UNV55 |-> 2, UNV2411 |-> 0, UNVXX |-> 0]

MCPrograms == SessionText!Makers \cup SessionText!Changes
MCFiles == SessionText!Included
MCKeys == {<<1>>, <<4>>, <<1, 2>>, <<7>>}

MCSignatures ==
  {<<<<"float", "">>>>, <<<<"float", ":">>, <<"float", "">>>>, <<<<"", ":">>, <<"list", "">>>>,
   <<<<"list", "!">>, <<"matrix", "">>>>, <<<<"", "/">>, <<"list", "">>>>,
   <<<<"list", "*">>, <<"list", "">>>>, <<<<"float", ":">>, <<"float", ":">>, <<"float", "">>>>,
   <<<<"float", ":">>, <<"float", ":">>, <<"float", ":">>, <<"float", "">>>>}

\* Libraries that load, that the linker refuses, that ask for another version, that are
\* not modules of haplo, that do not initialise.
MCLibraries ==
  LET L(uses, minor, depend, init, ts, fs) ==
        [opens |-> TRUE, uses |-> uses, magic |-> TRUE, required_major |-> 2, required_minor |-> minor,
         depend |-> depend, init |-> init, fini |-> 0, types |-> ts, functions |-> fs]
      base == L({}, 0, <<>>, 0, <<"t">>, <<"f">>)
  IN  (<<"", "base">> :> base)
   @@ (<<"lib", "base">> :> [base EXCEPT !.opens = FALSE])
   @@ (<<"lib", "fem">> :> [L({"base"}, 1, <<"base">>, 0, <<"t", "m">>, <<"f", "g">>) EXCEPT !.fini = 1])
   @@ (<<"here", "plot">> :> L({"fem"}, 0, <<>>, 0, <<"p">>, <<>>))
   @@ (<<"other", "plot">> :> L({"fem"}, 0, <<"fem", "base">>, 0, <<"p">>, <<>>))
   @@ (<<"lib", "new">> :> L({}, 9, <<"base">>, 0, <<>>, <<>>))
   @@ (<<"lib", "text">> :> [base EXCEPT !.magic = FALSE])
   @@ (<<"lib", "fails">> :> L({"base"}, 0, <<"base", "fem">>, 1, <<"x">>, <<"x">>))

MCUserTypes == {[name |-> "u", display |-> TRUE, free |-> TRUE, copy |-> c] : c \in BOOLEAN}

\* Command lines of up to three words.
MCLines ==
  LET O(name, more, upper) == [head |-> name, rest |-> more, upper |-> upper]
      Words == {O(name, <<>>, FALSE) : name \in {"-nobanner", "-autoload", "-version", "-colors", "-what", "--"}}
               \cup {O("-colors", <<"=", v>>, FALSE) : v \in {"ansi", "red"}}
               \cup {O("-I", <<"a">>, TRUE), O("-I", <<>>, TRUE), O("", <<"b">>, FALSE),
                     O("-mem", <<"=", "9">>, FALSE), O("-cpu", <<"=", "5">>, FALSE)}
  IN  UNION {[1..n -> Words] : n \in 0..3}
=============================================================================
