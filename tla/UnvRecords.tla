----------------------------- MODULE UnvRecords -----------------------------
(***************************************************************************)
(* The headers of the universal data sets 55, 56, 57, 58 and 2414: what    *)
(* parser_UNVxx_write_header puts in a file and what                       *)
(* parser_UNVxx_read_header makes of it (modules/io/src/parser_UNV*.c,     *)
(* encode.h, decode.h), through the block that holds the fields (block.c). *)
(*                                                                         *)
(* A field is a kind (A string, I integer, E real, X one blank), a width   *)
(* and a name; a line is a sequence of fields.  A character is the name of *)
(* the value it belongs to and its rank there, so that a column too far or *)
(* a field for another shows.  What a value is called in the block is all  *)
(* that is kept of its C type but for the kind.                            *)
(***************************************************************************)
EXTENDS Integers, Sequences, SequencesExt, TLC

CONSTANTS
  DataSets,        \* those examined, among 55, 56, 57, 58 and 2414
  AnalysisTypes    \* values of analysis_type examined

UnvRecordsAssumption ==
  /\ DataSets \subseteq {55, 56, 57, 58, 2414}
  /\ AnalysisTypes \subseteq Nat

VARIABLES
  dataset,         \* type of the block
  analysis,        \* its analysis_type
  block,           \* io_block_t: a function from names to values
  page,           \* the file: sequences of characters
  decoded,         \* the block made by reading them
  problem,           \* io_error_get()
  step             \* "block", then "written", then "read", or "failed"

vars == <<dataset, analysis, block, page, decoded, problem, step>>

-----------------------------------------------------------------------------
(* Formats *)

F(kind, width, names) ==
  [i \in DOMAIN names |-> [kind |-> kind, width |-> width, name |-> names[i]]]

\* IO_DECODE_X, IO_ENCODE_X
X == F("X", 1, <<"">>)

Each(fields) == [i \in DOMAIN fields |-> <<fields[i]>>]

\* name1, name2, ... as the names of n fields from the first on
Numbered(name, first, n) == [i \in 1 .. n |-> name \o ToString(first + i - 1)]

Comments == Each(F("A", 80, Numbered("comment", 1, 5)))

\* 55, 56 and 57: records 6 to 8, the last two by type of analysis; "damping"
\* is what ends the reals of normal modes.
NodalIntegers(t) ==
  CASE t = 0 -> <<"id_number">>
    [] t \in {1, 6} -> <<"load_case_number">>
    [] t \in {2, 3} -> <<"load_case_number", "mode_number">>
    [] t = 4 -> <<"load_case_number", "time_step_number">>
    [] t = 5 -> <<"load_case_number", "frequency_step_number">>
    [] OTHER -> <<>>

NodalReals(t, damping) ==
  CASE t \in {0, 1} -> <<"zero_number">>
    [] t = 2 -> <<"frequency", "modal_mass">> \o damping
    [] t = 3 -> <<"real_part_eigenvalue", "imaginary_part_eigenvalue",
                  "real_part_modal_A", "imaginary_part_modal_A",
                  "real_part_modal_B", "imaginary_part_modal_B">>
    [] t = 4 -> <<"time">>
    [] t = 5 -> <<"frequency">>
    [] t = 6 -> <<"eigenvalue">>

KnownAnalysis(t) == t \in 0 .. 6

Nodal(t, damping) ==
  LET head ==
        Comments
        \o << F("I", 10, <<"model_type", "analysis_type", "data_characteristic",
                "specific_data_type", "data_type", "number_data_values">>) >>
      counts == F("I", 10, <<"number_integer_data", "number_real_data">>)
  IN  [head |-> head,
       last |-> IF KnownAnalysis(t)
                  THEN << counts \o F("I", 10, NodalIntegers(t)),
                          F("E", 13, NodalReals(t, damping)) >>
                  ELSE <<counts>>]

Damping55 == <<"viscous_ratio", "hysteretic_ratio">>
Damping56 == <<"modal_damping">>

ReadNodal(t, damping) == LET n == Nodal(t, damping) IN n.head \o n.last

\* Mutant: the counts are flushed before the integers of the type.
WriteNodalFlushed(t, damping) ==
  LET n == Nodal(t, damping)
  IN  IF KnownAnalysis(t)
        THEN n.head \o << SubSeq(n.last[1], 1, 2), SubSeq(n.last[1], 3, Len(n.last[1])),
                          n.last[2] >>
        ELSE n.head

\* The last record of an unknown type is read, but left unflushed.
WriteNodal(t, damping) ==
  LET n == Nodal(t, damping)
  IN  IF KnownAnalysis(t) THEN n.head \o n.last ELSE n.head

Read55(t) == ReadNodal(t, Damping55)
Read56(t) == ReadNodal(t, Damping56)
Read57(t) == ReadNodal(t, Damping56)

Write55(t) == WriteNodal(t, Damping55)
Write56(t) == WriteNodal(t, Damping56)
Write57(t) == WriteNodal(t, Damping56)

\* 58: record 6, and records 8 to 11, one per axis.
Degree(name, direction) ==
  X \o F("A", 10, <<name \o "_name">>) \o F("I", 10, <<name \o "_node">>)
    \o F("I", 4, <<direction>>)

Axis(name) ==
  F("I", 10, <<name \o "_specific_data_type">>)
  \o F("I", 5, <<name \o "_length_units_exponent", name \o "_force_units_exponent",
                 name \o "_temperature_units_exponent">>)
  \o X \o F("A", 20, <<name \o "_axis_label">>) \o X \o F("A", 20, <<name \o "_axis_units">>)

Read58 ==
  Comments
  \o << F("I", 5, <<"function_type">>) \o F("I", 10, <<"function_number">>)
          \o F("I", 5, <<"version_number">>) \o F("I", 10, <<"load_case">>)
          \o Degree("response", "response_direction")
          \o Degree("reference", "reference_direction"),
        F("I", 10, <<"ordinate_data_type", "abscissa_number", "abscissa_spacing">>)
          \o F("E", 13, <<"abscissa_minimum", "abscissa_increment", "z_value">>),
        Axis("abscissa"), Axis("ordinate_num"), Axis("ordinate_denom"), Axis("zaxis") >>

Write58 == Read58

Read2414 ==
  << F("I", 10, <<"analysis_dataset_label">>), F("A", 80, <<"analysis_dataset_name">>),
     F("I", 10, <<"dataset_location">>) >>
  \o Comments
  \o << F("I", 10, <<"model_type", "analysis_type", "data_characteristic", "result_type",
                     "data_type", "number_data_values">>),
        F("I", 10, Numbered("integer_analysis_type", 1, 8)),
        F("I", 10, Numbered("integer_analysis_type", 9, 2)),
        F("E", 13, Numbered("real_analysis_type", 1, 6)),
        F("E", 13, Numbered("real_analysis_type", 7, 6)) >>

Write2414 == Read2414

ReadFormat(d, t) ==
  CASE d = 55 -> Read55(t) [] d = 56 -> Read56(t) [] d = 57 -> Read57(t)
    [] d = 58 -> Read58 [] d = 2414 -> Read2414

WriteFormat(d, t) ==
  CASE d = 55 -> Write55(t) [] d = 56 -> Write56(t) [] d = 57 -> Write57(t)
    [] d = 58 -> Write58 [] d = 2414 -> Write2414

-----------------------------------------------------------------------------
(* Characters *)

Blank == <<"", 0>>

Spaces(n) == [i \in 1 .. n |-> Blank]

Narrow(a, b) == IF a < b THEN a ELSE b

\* io_encode_long: "% *ld" keeps a place for the sign.
io_encode_long(w, text) ==
  Spaces(w - Len(text) - 1) \o <<Blank>> \o text

\* io_encode_double: the precision makes the text fill the width.
io_encode_double(w, text) == Spaces(w - Len(text)) \o text

\* io_encode_string
io_encode_string(w, text) ==
  SubSeq(text, 1, Narrow(w, Len(text))) \o Spaces(w - Len(text))

\* io_decode_long, io_decode_double: strtol() and strtod() on the columns of
\* the field, so leading blanks are passed and the next one ends the text.
io_decode_number(columns) ==
  LET n == Len(columns)
      Ink(i) == columns[i] # Blank
  IN  IF \A i \in 1 .. n : ~Ink(i) THEN <<>>
      ELSE LET b == CHOOSE i \in 1 .. n : Ink(i) /\ \A j \in 1 .. i - 1 : ~Ink(j)
               e == CHOOSE i \in b .. n : /\ \A j \in b .. i : Ink(j)
                                          /\ i = n \/ ~Ink(i + 1)
           IN  SubSeq(columns, b, e)

\* io_decode_string: trailing blanks are cut, but never the first character.
io_decode_string(columns) ==
  LET last == CHOOSE i \in 1 .. Len(columns) :
                /\ i = 1 \/ columns[i] # Blank
                /\ \A j \in i + 1 .. Len(columns) : columns[j] = Blank
  IN  SubSeq(columns, 1, last)

io_decode_isempty(line) == \A i \in DOMAIN line : line[i] = Blank

Column(line, w) == SubSeq(line, 1, Narrow(w, Len(line)))
Rest(line, w) == SubSeq(line, Narrow(w, Len(line)) + 1, Len(line))

-----------------------------------------------------------------------------
(* Blocks *)

Typed(kind, text) == [type |-> kind, text |-> text]

\* io_block_add_value: the value a name had is freed and replaced.
io_block_add_value(b, name, value) == (name :> value) @@ b

\* io_block_get: 0, -1 without the name, -2 with another type.
io_block_get(b, name, type) ==
  IF name \notin DOMAIN b THEN -1 ELSE IF b[name].type # type THEN -2 ELSE 0

Names(format) == {f.name : f \in UNION {Range(l) : l \in Range(format)}} \ {""}

FieldOf(format, name) ==
  CHOOSE f \in UNION {Range(l) : l \in Range(format)} : f.name = name

-----------------------------------------------------------------------------
(* Writing and reading *)

Encode(field, b) ==
  LET text == b[field.name].text
  IN  CASE field.kind = "X" -> <<Blank>>
        [] field.kind = "A" -> io_encode_string(field.width, text)
        [] field.kind = "I" -> io_encode_long(field.width, text)
        [] field.kind = "E" -> io_encode_double(field.width, text)

\* IO_ENCODE_A, IO_ENCODE_I, IO_ENCODE_E fail on a missing field; the line it
\* belongs to is not flushed, the lines before it are in the file.
CanEncode(l, b) ==
  \A f \in Range(l) : f.kind # "X" => io_block_get(b, f.name, f.kind) = 0

EncodeLine(l, b) == FoldLeft(LAMBDA s, f : s \o Encode(f, b), <<>>, l)

Flushed(format, b) ==
  LET Good(n) == \A i \in 1 .. n : CanEncode(format[i], b)
      n == CHOOSE k \in 0 .. Len(format) : Good(k) /\ (k = Len(format) \/ ~Good(k + 1))
  IN  [i \in 1 .. n |-> EncodeLine(format[i], b)]

\* IO_DECODE_X, IO_DECODE_A, IO_DECODE_I, IO_DECODE_E, in the block s.b from
\* what is left of the line, s.line.
Decode(s, f) ==
  LET columns == Column(s.line, f.width)
      text == IF f.kind = "A" THEN io_decode_string(columns) ELSE io_decode_number(columns)
  IN  [line |-> Rest(s.line, f.width),
       b |-> IF f.kind = "X" THEN s.b
             ELSE io_block_add_value(s.b, f.name, Typed(f.kind, text))]

\* The reference of record 6 of a data set 58 may be missing.
NoReference(b) ==
  ("reference_name" :> Typed("A", <<<<"NONE", 1>>>>)) @@ ("reference_node" :> Typed("I", <<>>))
    @@ ("reference_direction" :> Typed("I", <<>>)) @@ b

DecodeLine(l, line, b) ==
  LET rest == {k \in 2 .. Len(l) - 2 : l[k].name = "reference_name"}
      n == IF rest = {} THEN Len(l) ELSE (CHOOSE k \in rest : TRUE) - 2
      first == FoldLeft(Decode, [line |-> line, b |-> b], SubSeq(l, 1, n))
  IN  IF rest # {} /\ io_decode_isempty(first.line)
        THEN NoReference(first.b)
        ELSE FoldLeft(Decode, first, SubSeq(l, n + 1, Len(l))).b

\* parser_UNVxx_read_header: -1 when the file ends too early.
DecodeAll(format) ==
  FoldLeftDomain(LAMBDA b, i : DecodeLine(format[i], page[i], b), <<>>, format)

-----------------------------------------------------------------------------
(* Actions *)

\* What the fields of a block hold: one character, or for one of them a text
\* that fills its columns, up to the place of the sign, nothing for a string,
\* or no value at all.
Text(f, class) ==
  LET n == CASE class = "short" -> 1
             [] class = "wide" -> IF f.kind = "A" THEN f.width ELSE f.width - 1
             [] class = "empty" -> 0
  IN  [i \in 1 .. n |-> <<f.name, i>>]

Blocks(format) ==
  LET Plain == [n \in Names(format) |->
                  Typed(FieldOf(format, n).kind, Text(FieldOf(format, n), "short"))]
  IN  {Plain}
      \cup {[Plain EXCEPT ![n].text = Text(FieldOf(format, n), "wide")] :
             n \in Names(format)}
      \cup {[Plain EXCEPT ![n].text = <<>>] :
             n \in {m \in Names(format) : FieldOf(format, m).kind = "A"}}
      \cup {[n \in Names(format) \ {m} |-> Plain[n]] : m \in Names(format)}

Init ==
  /\ dataset \in DataSets
  /\ analysis \in AnalysisTypes
  /\ block \in Blocks(ReadFormat(dataset, analysis))
  /\ page = <<>> /\ decoded = <<>> /\ problem = "NOERR" /\ step = "block"

\* parser_UNVxx_write_header
WriteHeader ==
  LET format == WriteFormat(dataset, analysis)
  IN  /\ step = "block"
      /\ page' = Flushed(format, block)
      /\ IF \A l \in Range(ReadFormat(dataset, analysis)) : CanEncode(l, block)
           THEN step' = "written" /\ UNCHANGED problem
           ELSE step' = "failed" /\ problem' = "BADBLOCK"
      /\ UNCHANGED <<dataset, analysis, block, decoded>>

\* Other programs do not write blanks at the end of a line.  Not so with an
\* empty string: to decode_string of nothing the code reads outside its buffer
\* (decode.c:213).
Trim ==
  LET Trimmed(l) ==
        LET e == CHOOSE i \in 1 .. Len(l) :
                   /\ \A j \in i + 1 .. Len(l) : l[j] = Blank
                   /\ i = 1 \/ l[i] # Blank
        IN  SubSeq(l, 1, e)
      trimmed == [i \in DOMAIN page |-> Trimmed(page[i])]
  IN  /\ step = "written" /\ page # trimmed
      /\ \A n \in DOMAIN block : block[n].text # <<>>
      /\ page' = trimmed
      /\ UNCHANGED <<dataset, analysis, block, decoded, problem, step>>

\* Nor does every program write the reference of a data set 58.
DropReference ==
  /\ step = "written" /\ dataset = 58 /\ Len(page[6]) > 55
  /\ page' = [page EXCEPT ![6] = SubSeq(@, 1, 55)]
  /\ UNCHANGED <<dataset, analysis, block, decoded, problem, step>>

\* parser_UNVxx_read_header
ReadHeader ==
  LET format == ReadFormat(dataset, analysis)
  IN  /\ step = "written"
      /\ IF Len(page) >= Len(format) /\ (dataset \in {58, 2414} \/ KnownAnalysis(analysis))
           THEN step' = "read" /\ decoded' = DecodeAll(format)
           ELSE step' = "failed" /\ UNCHANGED decoded
      /\ UNCHANGED <<dataset, analysis, block, page, problem>>

Next == WriteHeader \/ Trim \/ DropReference \/ ReadHeader

Spec == Init /\ [][Next]_vars

-----------------------------------------------------------------------------
(* Properties *)

\* A block written and read again has the same fields with the same types and
\* values; an empty string comes back as one blank, a reference that is not in
\* the file as NONE (parser_UNV*.c, encode.c, decode.c).
RoundTrip ==
  step = "read" =>
    LET given == IF dataset = 58 /\ Len(page[6]) = 55 THEN NoReference(block) ELSE block
        Kept(v) == [v EXCEPT !.text = IF v.type = "A" /\ @ = <<>> THEN <<Blank>> ELSE @]
    IN  decoded = [n \in DOMAIN given |-> Kept(given[n])]
=============================================================================
