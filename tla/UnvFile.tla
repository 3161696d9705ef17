------------------------------ MODULE UnvFile ------------------------------
(***************************************************************************)
(* Data sets of a universal file read through a filter, kept as blocks and *)
(* written to another file: modules/io/src/filter.c, parser.c,             *)
(* parser_UNV.c, parser_UNVXX.c and data.c.                                *)
(*                                                                         *)
(* A file is a sequence of lines; a line is a mark (-1 alone), the number  *)
(* of a data set, or data.  A position is a number of lines, as GzFile     *)
(* shows that positions are those of lines.  Only read_header, mark and    *)
(* copy do something: the bodies of the read and write methods are         *)
(* compiled out and their stubs return a constant, or a value nobody set.  *)
(***************************************************************************)
EXTENDS Integers, Sequences, FiniteSets, SequencesExt, TLC

CONSTANTS
  Layouts,      \* the files: sequences of [number, size, closed]
  HeaderLines,  \* lines read by read_header, by type of block
  Types,        \* the types a user sets a method for, UNVXX among them
  MaxBlocks     \* bound: blocks written to the output

UnvFileAssumption ==
  /\ Types \subseteq {"UNV55", "UNV56", "UNV57", "UNV58", "UNV2411", "UNV2412",
                      "UNV2414", "UNVXX"}
  /\ \A t \in Types : HeaderLines[t] \in Nat
  /\ MaxBlocks \in Nat

VARIABLES
  layout,       \* the data sets of the input (ghost)
  lines,        \* the input
  cursor,       \* io_file_get_pos_current() of the input
  inFilter,     \* methods of the input filter: a type -> a method or none
  outFilter,    \* methods of the output filter
  data,         \* io_data_t: its list of blocks
  error,        \* io_error_get()
  message,      \* data->error is not empty
  output,       \* lines of the output
  status,       \* what the last io_data_write returned
  failed,       \* a block of the last io_data_write was not written (ghost)
  chosen        \* blocks copied since the output is open (ghost)

vars == <<layout, lines, cursor, inFilter, outFilter, data, error, message,
          output, status, failed, chosen>>

-----------------------------------------------------------------------------
(* Tables of methods *)

Mark == [kind |-> "mark", number |-> 0]
Id(n) == [kind |-> "id", number |-> n]
Text(n) == [kind |-> "data", number |-> n]

Method(fcn, mode) == [fcn |-> fcn, mode |-> mode]

NoMethod == Method("none", "none")

\* io_parser_UNV55: also that of 56, 57, 58, 2411 and 2412.
io_parser_UNV55 ==
  [read_header |-> Method("header", "read"), read |-> Method("read", "read"),
   mark |-> Method("mark", "read"),
   write |-> Method("write", "write"), copy |-> Method("copy", "write")]

io_parser_UNV56 == io_parser_UNV55
io_parser_UNV57 == io_parser_UNV55
io_parser_UNV58 == io_parser_UNV55
io_parser_UNV2411 == io_parser_UNV55
io_parser_UNV2412 == io_parser_UNV55

io_parser_UNV2414 ==
  [read_by_part |-> Method("read", "read"), read_from_label |-> Method("read", "read")]
    @@ io_parser_UNV55

io_parser_UNVXX ==
  [read |-> Method("mark", "read"), mark |-> Method("mark", "read"),
   write |-> Method("copy", "write")]

\* parser_UNV
Functions(type) ==
  CASE type = "UNV55" -> io_parser_UNV55 [] type = "UNV56" -> io_parser_UNV56
    [] type = "UNV57" -> io_parser_UNV57 [] type = "UNV58" -> io_parser_UNV58
    [] type = "UNV2411" -> io_parser_UNV2411 [] type = "UNV2412" -> io_parser_UNV2412
    [] type = "UNV2414" -> io_parser_UNV2414 [] type = "UNVXX" -> io_parser_UNVXX

\* io_parser_get_function, io_filter_set: a method of the other mode is refused
\* and takes the one that was set away.  The tables have no last entry: a name
\* that is not in them is not looked for here.
io_filter_set(filter, mode, type, name) ==
  LET method == Functions(type)[name]
  IN  IF method.mode = mode
        THEN [filter EXCEPT ![type] = method]
        ELSE [filter EXCEPT ![type] = NoMethod]

-----------------------------------------------------------------------------
(* Reading *)

TypeOf(number) ==
  CASE number = 55 -> "UNV55" [] number = 56 -> "UNV56" [] number = 57 -> "UNV57"
    [] number = 58 -> "UNV58" [] number = 2411 -> "UNV2411"
    [] number = 2412 -> "UNV2412" [] number = 2414 -> "UNV2414" [] OTHER -> "UNVXX"

LineCount == Len(lines)

\* io_parser_UNV_skip: after the next mark, or the end.
io_parser_UNV_skip(c) ==
  CHOOSE e \in c .. LineCount :
    /\ e = LineCount \/ (e > c /\ lines[e].kind = "mark")
    /\ \A i \in c + 1 .. e - 1 : lines[i].kind # "mark"

\* parser_UNV_type: a mark, then a line with one number; it is called with the
\* cursor c and leaves it behind the lines it read.
parser_UNV_type(c) ==
  CASE c + 1 > LineCount -> [type |-> "INVALID", cursor |-> c]
    [] c + 1 <= LineCount /\ lines[c + 1].kind # "mark" ->
         [type |-> "INVALID", cursor |-> c + 1]
    [] c + 1 = LineCount /\ lines[c + 1].kind = "mark" ->
         [type |-> "INVALID", cursor |-> c + 1]
    [] c + 1 < LineCount /\ lines[c + 1].kind = "mark" ->
         [type |-> CASE lines[c + 2].kind = "data" -> "INVALID"
                     [] lines[c + 2].kind = "mark" -> "UNVXX"
                     [] lines[c + 2].kind = "id" -> TypeOf(lines[c + 2].number),
          cursor |-> c + 2]

\* Mutant: a data set without a method is not skipped.
TypeNoSkip(filter, c) ==
  LET found[k \in Nat] ==
        LET t == parser_UNV_type(k)
            own == t.type \in Types /\ filter[t.type] # NoMethod
        IN  IF t.type = "INVALID" \/ own THEN t
            ELSE IF "UNVXX" \in Types /\ filter["UNVXX"] # NoMethod
              THEN [t EXCEPT !.type = "UNVXX"]
            ELSE found[t.cursor]
  IN  found[c]

\* io_parser_UNV_type: the first data set with a method, its own or that of
\* UNVXX; the others are skipped.
io_parser_UNV_type(filter, c) ==
  LET found[k \in Nat] ==
        LET t == parser_UNV_type(k)
            own == t.type \in Types /\ filter[t.type] # NoMethod
        IN  IF t.type = "INVALID" \/ own THEN t
            ELSE IF "UNVXX" \in Types /\ filter["UNVXX"] # NoMethod
              THEN [t EXCEPT !.type = "UNVXX"]
            ELSE found[io_parser_UNV_skip(t.cursor)]
  IN  found[c]

Nothing == <<-1, -1>>

\* read_header: the lines of the header, whatever they are, then the rest of the
\* data set (its status is not looked at).
read_header_only(type, c) ==
  [status |-> 0, slice |-> Nothing,
   cursor |-> io_parser_UNV_skip(IF c + HeaderLines[type] > LineCount THEN LineCount
                                 ELSE c + HeaderLines[type])]

\* parser_UNVXX_read: from the line of the number to the mark.
parser_UNVXX_read(c) ==
  LET e == io_parser_UNV_skip(c) IN [status |-> 0, slice |-> <<c - 1, e>>, cursor |-> e]

\* The stubs of the read methods: those of 58 return what is on the stack.
ReadStatus(type) ==
  CASE type = "UNV2414" -> {-1} [] type = "UNV58" -> {-1, 0} [] OTHER -> {0}

\* parser_read: the outcomes of one call, with the cursor and the block.
parser_read(filter, c) ==
  LET t == io_parser_UNV_type(filter, c)
      fcn == filter[t.type].fcn
      Done(r) == [status |-> IF r.status < 0 THEN -1 ELSE 1, cursor |-> r.cursor,
                  bad |-> r.status < 0,
                  block |-> [type |-> t.type, offset |-> c, slice |-> r.slice]]
  IN  IF t.type = "INVALID"
        THEN {[status |-> -1, cursor |-> t.cursor, bad |-> FALSE,
               block |-> [type |-> "INVALID", offset |-> c, slice |-> Nothing]]}
      ELSE CASE fcn = "header" -> {Done(read_header_only(t.type, t.cursor))}
             [] fcn = "mark" -> {Done(parser_UNVXX_read(t.cursor))}
             [] fcn = "read" ->
                  {Done([status |-> s, slice |-> Nothing, cursor |-> t.cursor]) :
                    s \in ReadStatus(t.type)}

\* io_data_read_n: blocks until nb of them, or one that fails or is none.
io_data_read_n(filter, c, nb) ==
  LET after[n \in Nat, k \in Nat] ==
        IF n = 0 THEN {[blocks |-> <<>>, cursor |-> k, bad |-> FALSE]}
        ELSE UNION
          {IF r.status < 0
             THEN {[blocks |-> <<>>, cursor |-> r.cursor, bad |-> r.bad]}
             ELSE {[a EXCEPT !.blocks = <<r.block>> \o @] : a \in after[n - 1, r.cursor]} :
           r \in parser_read(filter, k)}
  IN  after[IF nb < 0 THEN LineCount ELSE nb, c]

-----------------------------------------------------------------------------
(* Writing *)

\* The stubs of the write methods: 56, 58, 2411 and 2412 return what is there.
WriteStatus(type) ==
  CASE type \in {"UNV55", "UNV2414"} -> {-1} [] type = "UNV57" -> {0}
    [] OTHER -> {-1, 0}

\* io_fileslice_write
Slice(b) == SubSeq(lines, b.slice[1] + 1, b.slice[2])

\* Mutant: the opening mark is forgotten.
CopyNoMark(b) ==
  IF b.slice = Nothing THEN [status |-> -1, lines |-> <<>>]
  ELSE [status |-> 0, lines |-> Slice(b)]

\* parser_UNVXX_write: nothing without a slice.
parser_UNVXX_write(b) ==
  IF b.slice = Nothing THEN [status |-> -1, lines |-> <<>>]
  ELSE [status |-> 0, lines |-> <<Mark>> \o Slice(b)]

\* parser_write_block, io_parser_write: a block without a method is left out;
\* the status is that of the last one with a method.
io_parser_write(filter, blocks) ==
  LET Add(a, b) ==
        CASE filter[b.type].fcn = "none" -> {a}
          [] filter[b.type].fcn = "copy" ->
               LET w == parser_UNVXX_write(b)
               IN  {[lines |-> a.lines \o w.lines, status |-> w.status,
                     bad |-> a.bad \/ w.status < 0]}
          [] filter[b.type].fcn = "write" ->
               {[a EXCEPT !.status = s, !.bad = @ \/ s < 0] : s \in WriteStatus(b.type)}
  IN  FoldLeft(LAMBDA as, b : UNION {Add(a, b) : a \in as},
               {[lines |-> <<>>, status |-> 0, bad |-> FALSE]}, blocks)

-----------------------------------------------------------------------------
(* The input, as it is laid out *)

LinesOf(d) ==
  <<Mark, Id(d.number)>> \o [i \in 1 .. d.size |-> Text(d.number)]
    \o (IF d.closed THEN <<Mark>> ELSE <<>>)

FileOf(l) == FoldLeft(LAMBDA s, d : s \o LinesOf(d), <<>>, l)

\* Where data set i starts.
StartOf(l, i) == Len(FileOf(SubSeq(l, 1, i - 1)))

Init ==
  /\ layout \in Layouts
  /\ lines = FileOf(layout)
  /\ cursor = 0
  /\ inFilter = [t \in Types |-> NoMethod] /\ outFilter = inFilter
  /\ data = <<>> /\ error = "NOERR" /\ message = FALSE
  /\ output = <<>> /\ status = 0 /\ failed = FALSE /\ chosen = <<>>

\* io_filter_set on the filter of the input, a file open to read, and on that
\* of the output, before anything is read.
SetInput(type, name) ==
  /\ cursor = 0 /\ chosen = <<>>
  /\ name \in DOMAIN Functions(type)
  /\ inFilter' = io_filter_set(inFilter, "read", type, name)
  /\ error' = IF inFilter'[type] = NoMethod THEN "BADMETHOD" ELSE error
  /\ UNCHANGED <<layout, lines, cursor, outFilter, data, message, output, status,
                 failed, chosen>>

SetOutput(type, name) ==
  /\ cursor = 0 /\ chosen = <<>>
  /\ name \in DOMAIN Functions(type)
  /\ outFilter' = io_filter_set(outFilter, "write", type, name)
  /\ error' = IF outFilter'[type] = NoMethod THEN "BADMETHOD" ELSE error
  /\ UNCHANGED <<layout, lines, cursor, inFilter, data, message, output, status,
                 failed, chosen>>

\* io_data_read_n; io_data_new resets the error.
Read(nb, from) ==
  \E r \in io_data_read_n(inFilter, from, nb) :
    /\ data' = r.blocks /\ cursor' = r.cursor
    /\ error' = IF r.bad THEN "BADBLOCK" ELSE "NOERR"
    /\ message' = r.bad
    /\ UNCHANGED <<layout, lines, inFilter, outFilter, output, status, failed, chosen>>

ReadN(nb) == Read(nb, cursor)

\* io_data_read_pos_n
ReadPos(pos, nb) ==
  IF pos > LineCount
    THEN /\ error' = "BADSEEK" /\ cursor' = LineCount
         /\ UNCHANGED <<layout, lines, inFilter, outFilter, data, message, output,
                        status, failed, chosen>>
    ELSE Read(nb, pos)

\* io_data_write
Write ==
  /\ Len(chosen) + Len(data) <= MaxBlocks
  /\ data # <<>>
  /\ \E w \in io_parser_write(outFilter, data) :
       /\ output' = output \o w.lines
       /\ status' = w.status /\ failed' = w.bad
       /\ error' = IF w.bad THEN "BADBLOCK" ELSE error
       /\ chosen' = chosen \o SelectSeq(data, LAMBDA b : outFilter[b.type].fcn = "copy")
  /\ UNCHANGED <<layout, lines, cursor, inFilter, outFilter, data, message>>

\* io_data_free; io_file_close and io_file_open of both files.
Reopen ==
  /\ cursor > 0
  /\ cursor' = 0 /\ data' = <<>> /\ message' = FALSE
  /\ output' = <<>> /\ status' = 0 /\ failed' = FALSE /\ chosen' = <<>>
  /\ UNCHANGED <<layout, lines, inFilter, outFilter, error>>

Names == {"read_header", "read", "mark", "write", "copy"}

Next ==
  \/ \E t \in Types, n \in Names : SetInput(t, n) \/ SetOutput(t, n)
  \/ \E nb \in {-1, 1, 2} : ReadN(nb)
  \/ \E b \in Range(data) : ReadPos(b.offset, 1)
  \/ ReadPos(LineCount + 1, 1)
  \/ Write \/ Reopen

Spec == Init /\ [][Next]_vars

-----------------------------------------------------------------------------
(* Properties *)

\* What a data set is read as with a filter.
ReadAs(filter, d) ==
  LET own == TypeOf(d.number)
  IN  IF own \in Types /\ filter[own] # NoMethod THEN own ELSE "UNVXX"

\* Every data set can be read past: it is closed, and long enough for the header
\* that is asked for; and no method is one of the stubs.
Sound(filter) ==
  \A d \in Range(layout) :
    LET t == ReadAs(filter, d)
    IN  /\ d.closed
        /\ t \in Types => /\ filter[t].fcn # "read"
                          /\ filter[t].fcn = "header" => d.size >= HeaderLines[t]

\* The data sets wanted by a filter, as blocks.
Wanted(filter) ==
  LET want == {i \in DOMAIN layout :
                 LET t == ReadAs(filter, layout[i]) IN t \in Types /\ filter[t] # NoMethod}
  IN  {[type |-> ReadAs(filter, layout[i]), start |-> StartOf(layout, i),
        end |-> StartOf(layout, i + 1)] : i \in want}

Boundaries == {StartOf(layout, i) : i \in 1 .. Len(layout) + 1}

\* The blocks of a data are consecutive data sets among those the filter wants,
\* whole and in the order of the file (parser_UNV.c:148-173, parser.c:248-310, data.c:245-284).
ReadInOrder ==
  (Sound(inFilter) /\ data # <<>> /\ data[1].offset \in Boundaries) =>
    LET at(b) == CHOOSE w \in Wanted(inFilter) :
                   /\ w.start >= b.offset
                   /\ \A v \in Wanted(inFilter) : v.start >= b.offset => v.start >= w.start
    IN  /\ \A i \in DOMAIN data :
             /\ \E w \in Wanted(inFilter) : w.start >= data[i].offset
             /\ data[i].type = at(data[i]).type
             /\ data[i].slice # Nothing =>
                  data[i].slice = <<at(data[i]).start + 1, at(data[i]).end>>
        /\ \A i \in 1 .. Len(data) - 1 : data[i + 1].offset = at(data[i]).end

\* Reading everything from a data set on leaves no wanted one behind.
NoneLeft ==
  (Sound(inFilter) /\ cursor = 0) =>
    \A c \in Boundaries : \A r \in io_data_read_n(inFilter, c, -1) :
      Len(r.blocks) = Cardinality({w \in Wanted(inFilter) : w.start >= c})

\* A block read again from its OFFSET is the same block (parser.c:262-270,
\* data.c:313-330).
SameAgain ==
  \A b \in Range(data) :
    \A r \in io_data_read_n(inFilter, b.offset, 1) : r.blocks \in {<<b>>, <<>>}

\* What is copied to the output is the data sets themselves, in order, so that
\* the output is a universal file again (parser_UNVXX.c, fileslice.c).
CopyWhole ==
  LET marked == SelectSeq(chosen, LAMBDA b : b.slice # Nothing)
      sets == {i \in DOMAIN layout : TRUE}
      SetAt(b) == CHOOSE i \in sets : StartOf(layout, i) + 1 = b.slice[1]
  IN  (\A i \in DOMAIN layout : layout[i].closed)
        /\ (\A b \in Range(marked) : \E i \in sets : StartOf(layout, i) + 1 = b.slice[1])
      => output = FoldLeft(LAMBDA s, b : s \o LinesOf(layout[SetAt(b)]), <<>>, marked)
=============================================================================
