------------------------------- MODULE GzFile -------------------------------
(***************************************************************************)
(* Reading a text file, compressed or not: modules/io/src/gzio.c, its      *)
(* index of access points (gzindex.c), the lines of file.c and the slices  *)
(* of fileslice.c.                                                         *)
(*                                                                         *)
(* zlib is external: position counts the characters it has delivered, and  *)
(* it delivers from any access point or from the beginning.  The window,   *)
(* the bits and the checksum of an access point are what makes that true   *)
(* and are not modelled; an index is that of the file it was built for.    *)
(***************************************************************************)
EXTENDS Integers, Sequences, FiniteSets, SequencesExt

CONSTANTS
  Texts,        \* the files: sequences of characters
  BufferSize,   \* gz->max, GZ_READ_BUFFER_SZ
  LineSize,     \* IO_FILE_SZ, the size of stream->buffer
  Boundary,     \* a compressed block starts every Boundary characters
  Span          \* GZSPAN, wanted distance between two access points

Characters == {"a", "newline", "return"}

\* A buffer of gz->max holds the longest line that is copied: both sizes are
\* 4096 (gzio.c:48, file.h:100).
ASSUME GzFileAssumption ==
  /\ BufferSize \in Nat \ {0} /\ LineSize \in Nat \ {0, 1}
  /\ LineSize - 1 <= BufferSize
  /\ Boundary \in Nat \ {0} /\ Span \in Nat
  /\ Texts \subseteq Seq(Characters)

VARIABLES
  text,         \* the file that is open
  index,        \* gz->index->list, which ascends: the access points, none without an index
  position,     \* gztell()
  buffer,       \* gz->buffer[0 .. size-1]
  begin,        \* gz->begin
  line,         \* stream->buffer, its last line
  number,       \* stream->line
  unget,        \* stream->unget
  open,         \* the file is open
  mark,         \* where a slice begins, -1 without one
  fresh,        \* the last operation returned the line (not in the code)
  copied        \* what io_fileslice_write wrote of the last slice

gzVars == <<index, position, buffer, begin>>
lineVars == <<line, number, unget>>
sliceVars == <<mark, copied>>
vars == <<text, gzVars, lineVars, open, sliceVars, fresh>>

-----------------------------------------------------------------------------
Least(a, b) == IF a < b THEN a ELSE b

Unread(b, from) == SubSeq(b, from + 1, Len(b))

(* Access points *)

\* From an access point to the next one: the first boundary more than Span
\* characters after it (lines 198-209).
Interval == Boundary * (Span \div Boundary + 1)

\* build_index: a point at the beginning, then one every Interval, none after the
\* last block.
build_index(t) == {0} \cup {out \in 0 .. Len(t) - 1 : \E k \in 0 .. Len(t) : out = k * Interval}

\* Mutant: the point where the search stops is taken.
PointStoppedAt(points, offset) ==
  LET after == {out \in points : out > offset}
  IN  IF after = {} THEN Max(points) ELSE Min(after)

\* gzsetpos_point: the search stops at the first point after the offset, or at
\* the last one; the point before it is taken, if there is one.
gzsetpos_point(points, offset) ==
  LET after  == {out \in points : out > offset}
      here   == IF after = {} THEN Max(points) ELSE Min(after)
      before == {out \in points : out < here}
  IN  IF before = {} THEN here ELSE Max(before)

\* gzsetpos, __io_gz_fseek: where gzseek() stops, from an access point behind
\* the offset, from the position, or rewound to the beginning.
Reached(offset) ==
  LET from == IF index # {} THEN gzsetpos_point(index, offset) ELSE 0
  IN  IF from <= offset THEN Least(offset, Len(text)) ELSE from

-----------------------------------------------------------------------------
(* Lines *)

\* sgets: the line at the head of the unread part, one character of s kept
\* for the end of the string.
HasLine(b) == \E i \in DOMAIN b : b[i] = "newline"

\* Mutant: no character is kept for the end of the string.
LineLengthFull(b) ==
  Least(CHOOSE i \in DOMAIN b :
          b[i] = "newline" /\ \A j \in 1 .. i - 1 : b[j] # "newline",
        LineSize)

LineLength(b) ==
  Least(CHOOSE i \in DOMAIN b :
          b[i] = "newline" /\ \A j \in 1 .. i - 1 : b[j] # "newline",
        LineSize - 1)

\* sgets drops the carriage return of a line that is not empty.
Dropped(s) ==
  IF Len(s) > 2 /\ s[Len(s) - 1] = "return"
    THEN Append(SubSeq(s, 1, Len(s) - 2), "newline") ELSE s

\* Mutant: fill_buffer forgets the unread part.
FilledOver == SubSeq(text, position + 1, Least(Len(text), position + BufferSize))

\* fill_buffer: the unread part goes to the front, gzread() completes it.
Filled ==
  LET rest == Unread(buffer, begin)
  IN  rest \o SubSeq(text, position + 1,
                     Least(Len(text), position + BufferSize - Len(rest)))

\* io_gz_fgets: a line of the buffer, or of the buffer once filled, or what
\* the buffer holds.
FromBuffer ==
  LET rest == Unread(buffer, begin)
      k == LineLength(rest)
  IN  /\ HasLine(rest)
      /\ line' = Dropped(SubSeq(rest, 1, k))
      /\ begin' = begin + k
      /\ UNCHANGED <<position, buffer>>

FromFile ==
  LET b == Filled
      k == IF HasLine(b) THEN LineLength(b) ELSE Least(LineSize - 1, Len(b))
  IN  /\ ~HasLine(Unread(buffer, begin))
      /\ buffer' = b
      /\ position' = position + Len(b) - (Len(buffer) - begin)
      /\ begin' = k
      /\ line' = IF k = 0 THEN line
                 ELSE IF HasLine(b) THEN Dropped(SubSeq(b, 1, k)) ELSE SubSeq(b, 1, k)

\* io_gz_ftell
Tell == position - (Len(buffer) - begin)

\* io_file_get_pos_current, io_file_get_pos_begin
PosCurrent == Tell

\* Mutant: what is in the buffer counts as read.
PosBeginBuffered == position - Len(line)

PosBegin == Tell - Len(line)

-----------------------------------------------------------------------------
(* The operations of file.c *)

Init ==
  /\ text \in Texts
  /\ index = {} /\ position = 0 /\ buffer = <<>> /\ begin = 0
  /\ line = <<>> /\ number = 0 /\ unget = FALSE
  /\ open = FALSE /\ mark = -1 /\ copied = <<>> /\ fresh = FALSE

\* io_gz_fopen_index: the index is read, or built and written; a file that is
\* not compressed has none.
Open ==
  /\ ~open
  /\ open' = TRUE
  /\ index' \in {{}, build_index(text)}
  /\ UNCHANGED <<text, position, buffer, begin, lineVars, sliceVars, fresh>>

\* io_file_close, and another file is opened.
Close ==
  /\ open
  /\ open' = FALSE
  /\ text' \in Texts
  /\ index' = {} /\ position' = 0 /\ buffer' = <<>> /\ begin' = 0
  /\ line' = <<>> /\ number' = 0 /\ unget' = FALSE
  /\ mark' = -1 /\ copied' = <<>> /\ fresh' = FALSE

\* io_file_get_line
GetLine ==
  /\ open
  /\ \/ /\ unget
        /\ unget' = FALSE /\ fresh' = TRUE
        /\ UNCHANGED <<position, buffer, begin, line, number>>
     \/ /\ ~unget
        /\ FromBuffer \/ FromFile
        /\ fresh' = (Tell' > Tell)
        /\ number' = IF number >= 0 /\ Tell' > Tell THEN number + 1 ELSE number
        /\ UNCHANGED unget
  /\ UNCHANGED <<text, index, open, sliceVars>>

\* io_file_unget_line, asserted not to be called twice; its callers have just
\* read a line.
UngetLine ==
  /\ open /\ fresh /\ ~unget
  /\ unget' = TRUE /\ fresh' = FALSE
  /\ UNCHANGED <<text, gzVars, line, number, open, sliceVars>>

\* io_file_set_pos, io_gz_fseek: the buffer is emptied whatever the result.
\* No caller seeks with a line put back.
SetPos(offset) ==
  /\ open /\ ~unget
  /\ position' = Reached(offset)
  /\ buffer' = <<>> /\ begin' = 0
  /\ number' = -1 /\ fresh' = FALSE
  /\ UNCHANGED <<text, index, line, unget, open, sliceVars>>

\* io_gz_feof
Feof ==
  /\ open /\ begin = Len(buffer)
  /\ position' = position + Len(Filled)
  /\ buffer' = Filled /\ begin' = 0
  /\ UNCHANGED <<text, index, lineVars, open, sliceVars, fresh>>

-----------------------------------------------------------------------------
(* Slices, as parser_UNVXX_read and parser_UNVXX_write use them *)

Mark ==
  /\ open /\ fresh /\ mark = -1
  /\ mark' = PosBegin
  /\ UNCHANGED <<text, gzVars, lineVars, open, copied, fresh>>

\* Mutant: the last piece is not cut.
SliceUncut(b, e) ==
  LET piece == LineSize - 1
      copy[pos \in Nat] ==
        IF pos >= e \/ pos >= Len(text) THEN <<>>
        ELSE SubSeq(text, pos + 1, Least(pos + piece, Len(text))) \o copy[pos + piece]
  IN  copy[b]

\* io_fileslice_write: pieces of LineSize - 1 characters of a stream of its
\* own, the last one cut at the end of the slice.
Slice(b, e) ==
  LET piece == LineSize - 1
      copy[pos \in Nat] ==
        IF pos >= e \/ pos >= Len(text) THEN <<>>
        ELSE SubSeq(text, pos + 1, Least(Least(pos + piece, Len(text)), e))
               \o copy[pos + piece]
  IN  copy[b]

Copy ==
  /\ open /\ mark >= 0
  /\ copied' = Slice(mark, PosCurrent)
  /\ mark' = -1
  /\ UNCHANGED <<text, gzVars, lineVars, open, fresh>>

Next ==
  \/ Open \/ Close
  \/ GetLine \/ UngetLine \/ Feof
  \/ \E offset \in 0 .. Len(text) + 1 : SetPos(offset)
  \/ Mark \/ Copy

Spec == Init /\ [][Next]_vars

-----------------------------------------------------------------------------
(* Properties *)

Raw(from, to) == SubSeq(text, from + 1, to)

\* The dropped carriage return moves the beginning of a line by one.
Shift == IF Tell > 1 /\ text[Tell] = "newline" /\ text[Tell - 1] = "return"
            /\ Len(line) > 1 /\ line[Len(line) - 1] # "return"
         THEN 1 ELSE 0

Reader == INSTANCE TextFile WITH Width <- LineSize, cursor <- Tell, shown <- line

\* The line that is returned as it is against the promise: an empty one, whose carriage
\* return is kept (gzio.c:134 and 102; README, section 6).
EmptyLine == <<"return", "newline">>
Returned(l) == IF l = EmptyLine THEN l ELSE Reader!Show(l)

\* What io_file_get_pos_begin answers is where the last line starts, one
\* character too far when its carriage return was dropped; the line is what is in
\* the file from there, but for a carriage return that precedes a newline, which is
\* dropped unless the line is empty (gzio.c:99-134, file.c:494-504).
LineBegin ==
  fresh => line = Returned(Raw(PosBegin - Shift, Tell))

\* The buffer is what follows in the file, whatever was read, put back or
\* sought (gzio.c:159-235 and 555-599).
BufferInStep == Unread(buffer, begin) = Raw(Tell, position)

\* A seek starts from an access point that is not behind the offset
\* (gzindex.c:233-260).
PointBefore ==
  \A offset \in 0 .. Len(text) :
    index # {} => gzsetpos_point(index, offset) <= offset

\* A stream is where it says it is: the line, the buffer and the seeks agree with the
\* file, whatever is read, put back or sought (gzio.c, gzindex.c:233-260, file.c:479-556).
StreamExact == LineBegin /\ BufferInStep /\ PointBefore

\* A slice is written as the characters between its two positions, in whole
\* pieces and the rest (fileslice.c:145-195).
SliceWhole ==
  ~open =>
    \A b, e \in 0 .. Len(text) : b <= e => Slice(b, e) = Raw(b, e)

\* An empty line is read, with its carriage return.
ReadEmpty ==
  /\ Tell + 2 <= Len(text) /\ Tell' = Tell + 2 /\ UNCHANGED text
  /\ Raw(Tell, Tell') = EmptyLine /\ line' = EmptyLine

\* Lines, positions and seeks are those of a text file, whatever was buffered,
\* put back or sought, and another file starts from its beginning (file.h, gzio.h).
\* ReadEmpty is the one step a text file as promised does not take.
Implements == Reader!Init /\ [][Reader!Next \/ ReadEmpty \/ Close]_<<text, Tell, line>>
=============================================================================
