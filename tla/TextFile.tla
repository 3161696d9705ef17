------------------------------ MODULE TextFile ------------------------------
(***************************************************************************)
(* What modules/io promises of a text file that is read (file.h, gzio.h):  *)
(* the next line, a position, and a seek.  A line ends with its newline,   *)
(* after Width - 1 characters, or with the file; a carriage return before  *)
(* the newline is dropped.                                                 *)
(***************************************************************************)
EXTENDS Integers, Sequences

CONSTANT Width           \* size of the buffer a line is copied to

VARIABLES
  text,                  \* the characters of the file
  cursor,                \* how many of them are behind the reader
  shown                  \* the last line returned

vars == <<text, cursor, shown>>

\* Where the line that starts after c characters ends.
LineEnd(c) ==
  CHOOSE e \in c + 1 .. Len(text) :
    /\ e = Len(text) \/ e = c + Width - 1 \/ text[e] = "newline"
    /\ \A i \in c + 1 .. e - 1 : text[i] # "newline"
    /\ e <= c + Width - 1

\* A line as it is shown, without the carriage return before its newline (gzio.c:102).
Show(l) ==
  IF Len(l) > 1 /\ l[Len(l) - 1] = "return" /\ l[Len(l)] = "newline"
    THEN Append(SubSeq(l, 1, Len(l) - 2), "newline") ELSE l

Init == cursor = 0 /\ shown = <<>>

ReadLine ==
  /\ cursor < Len(text)
  /\ cursor' = LineEnd(cursor)
  /\ shown' = Show(SubSeq(text, cursor + 1, cursor'))
  /\ UNCHANGED text

Seek ==
  /\ cursor' \in 0 .. Len(text)
  /\ UNCHANGED <<text, shown>>

Next == ReadLine \/ Seek

Spec == Init /\ [][Next]_vars
=============================================================================
