-------------------------- MODULE SequentialProofs --------------------------
(****************************************************************************)
(* Theorems about three parts of the sequential run: streams (GzFile), for  *)
(* any texts and any sizes of the buffers; which evaluation a signal ends   *)
(* (Interruption), for evaluations inside one another to any depth; which   *)
(* function is called (Registry), for all names, types and signatures.      *)
(*                                                                          *)
(* Streams: what is buffered is in step with the file, and the reader is    *)
(* that of a text file.                                                     *)
(*                                                                          *)
(* The registry: for each name there is a sequence of functions its links   *)
(* run along (Runs), no two names share one; a new function is put in it    *)
(* before the first with its types, and the first with given types is then  *)
(* the last one registered with them (LatestRight).                         *)
(****************************************************************************)
EXTENDS GzFile, Interruption, Registry, Inductions, WellFoundedInduction

-----------------------------------------------------------------------------
(* Numbers *)

LEMMA LeastNumber ==
  ASSUME NEW T \in SUBSET Nat, T # {}
  PROVE  \E x \in T : \A y \in T : x <= y
<1>1. PICK x \in T : \A y \in T : ~(<<y, x>> \in OpToRel(<, Nat))
  BY NatLessThanWellFounded, WFMin
<1>2. ASSUME NEW y \in T PROVE x <= y
  <2>1. ~(y < x)
    BY <1>1 DEF OpToRel
  <2> QED
    BY <2>1
<1> QED
  BY <1>2

\* A set of natural numbers up to n has a least and a greatest element.
LEMMA Extrema ==
  ASSUME NEW n \in Nat, NEW S \in SUBSET (0 .. n), S # {}
  PROVE  /\ Min(S) \in S /\ \A x \in S : Min(S) <= x
         /\ Max(S) \in S /\ \A x \in S : x <= Max(S)
<1>1. \E x \in S : \A y \in S : x =< y
  <2>1. S \in SUBSET Nat
    OBVIOUS
  <2> QED
    BY <2>1, LeastNumber
<1>2. \E x \in S : \A y \in S : x >= y
  <2> DEFINE T == {d \in Nat : n - d \in S}
  <2>1. T \in SUBSET Nat /\ T # {}
    <3>1. PICK x : x \in S
      OBVIOUS
    <3>2. x \in 0 .. n
      BY <3>1
    <3>3. n - x \in Nat /\ n - (n - x) = x
      BY <3>2
    <3> QED
      BY <3>1, <3>3
  <2>2. PICK d \in T : \A e \in T : d <= e
    <3> HIDE DEF T
    <3> QED
      BY <2>1, LeastNumber
  <2>3. ASSUME NEW y \in S PROVE n - d >= y
    <3>1. y \in 0 .. n
      OBVIOUS
    <3>2. n - y \in T
      BY <3>1
    <3>3. d <= n - y /\ d \in Nat
      BY <2>2, <3>2
    <3> QED
      BY <3>1, <3>3
  <2> QED
    BY <2>2, <2>3
<1> QED
  BY <1>1, <1>2 DEF Min, Max

\* The access point a seek starts from is in the file, and not behind the offset
\* when one of them is at the beginning.
LEMMA StartingPoint ==
  ASSUME NEW n \in Nat, NEW points \in SUBSET (0 .. n), 0 \in points, NEW offset \in Nat
  PROVE  /\ gzsetpos_point(points, offset) \in 0 .. n
         /\ gzsetpos_point(points, offset) <= offset
<1> DEFINE after  == {out \in points : out > offset}
           here   == IF after = {} THEN Max(points) ELSE Min(after)
           before == {out \in points : out < here}
<1>1. here \in points /\ \A x \in points : x > offset => here <= x
  <2>1. CASE after = {}
    BY <2>1, Extrema
  <2>2. CASE after # {}
    <3>1. Min(after) \in after /\ \A x \in after : Min(after) <= x
      <4>1. after \in SUBSET (0 .. n)
        OBVIOUS
      <4> HIDE DEF after
      <4> QED
        BY <2>2, <4>1, Extrema
    <3> QED
      BY <2>2, <3>1
  <2> QED
    BY <2>1, <2>2
<1>2. CASE before = {}
  <2>1. here = 0
    <3>1. ~(0 < here)
      BY <1>2
    <3>2. here \in 0 .. n
      BY <1>1
    <3> HIDE DEF here
    <3> QED
      BY <3>1, <3>2
  <2>2. gzsetpos_point(points, offset) = here
    BY <1>2 DEF gzsetpos_point
  <2> HIDE DEF here
  <2> QED
    BY <2>1, <2>2
<1>3. CASE before # {}
  <2>1. Max(before) \in before
    <3>1. before \in SUBSET (0 .. n)
      OBVIOUS
    <3> HIDE DEF before
    <3> QED
      BY <1>3, <3>1, Extrema
  <2>2. Max(before) \in points /\ Max(before) < here
    BY <2>1
  <2>3. ~(Max(before) > offset)
    <3>1. Max(before) \in 0 .. n /\ here \in 0 .. n
      BY <1>1, <2>2
    <3> HIDE DEF before, here
    <3> QED
      BY <1>1, <2>2, <3>1
  <2>4. gzsetpos_point(points, offset) = Max(before)
    BY <1>3 DEF gzsetpos_point
  <2>5. Max(before) \in 0 .. n
    BY <2>2
  <2> HIDE DEF before
  <2> QED
    BY <2>3, <2>4, <2>5
<1> QED
  BY <1>2, <1>3

-----------------------------------------------------------------------------
(* Texts, buffers and lines *)

\* A part of a text, character by character.
LEMMA Part ==
  ASSUME NEW t \in Seq(Characters), NEW a \in 0 .. Len(t), NEW b \in 0 .. Len(t), a <= b
  PROVE  /\ SubSeq(t, a + 1, b) \in Seq(Characters)
         /\ Len(SubSeq(t, a + 1, b)) = b - a
         /\ \A i \in 1 .. b - a : SubSeq(t, a + 1, b)[i] = t[a + i]
<1>1. \A i \in a + 1 .. b : t[i] \in Characters
  BY ElementOfSeq
<1>2. /\ SubSeq(t, a + 1, b) \in Seq(Characters)
      /\ Len(SubSeq(t, a + 1, b)) = IF a + 1 <= b THEN b - (a + 1) + 1 ELSE 0
      /\ \A i \in 1 .. b - (a + 1) + 1 : SubSeq(t, a + 1, b)[i] = t[a + 1 + i - 1]
  <2>1. a + 1 \in Int /\ b \in Int
    OBVIOUS
  <2> QED
    BY <1>1, <2>1, SubSeqProperties
<1> QED
  BY <1>2

LEMMA Beginning ==
  ASSUME NEW t \in Seq(Characters), NEW b \in 0 .. Len(t)
  PROVE  /\ SubSeq(t, 1, b) \in Seq(Characters)
         /\ Len(SubSeq(t, 1, b)) = b
         /\ \A i \in 1 .. b : SubSeq(t, 1, b)[i] = t[i]
<1>1. 0 \in 0 .. Len(t) /\ 0 <= b /\ 0 + 1 = 1 /\ b - 0 = b
  OBVIOUS
<1>2. \A i \in 1 .. b : 0 + i = i
  OBVIOUS
<1> QED
  BY <1>1, <1>2, Part

\* Where the reader is, and what it has buffered.
Typed ==
  /\ text \in Texts
  /\ index \in SUBSET (0 .. Len(text)) /\ (index # {} => 0 \in index)
  /\ position \in 0 .. Len(text)
  /\ buffer \in Seq(Characters) /\ Len(buffer) <= BufferSize
  /\ begin \in 0 .. Len(buffer)
  /\ line \in Seq(Characters)
  /\ unget \in BOOLEAN /\ open \in BOOLEAN /\ fresh \in BOOLEAN

InStep ==
  /\ Len(buffer) - begin <= position
  /\ \A i \in 1 .. Len(buffer) - begin : buffer[begin + i] = text[Tell + i]

LEMMA TextIs ==
  ASSUME Typed
  PROVE  /\ text \in Seq(Characters) /\ Len(text) \in Nat
         /\ Len(buffer) \in Nat /\ Len(line) \in Nat
BY GzFileAssumption DEF Typed

LEMMA TellIn ==
  ASSUME Typed, InStep
  PROVE  Tell \in 0 .. position
BY TextIs DEF Typed, InStep, Tell

\* Two texts with the same characters.
LEMMA Same ==
  ASSUME NEW s \in Seq(Characters), NEW t \in Seq(Characters), NEW n \in Nat,
         Len(s) = n, Len(t) = n, \A i \in 1 .. n : s[i] = t[i]
  PROVE  s = t
BY SeqEqual

\* The unread part of the buffer is the file between the two positions.
LEMMA UnreadIs ==
  ASSUME Typed, InStep
  PROVE  /\ Unread(buffer, begin) = Raw(Tell, position)
         /\ Raw(Tell, position) \in Seq(Characters)
         /\ Len(Raw(Tell, position)) = Len(buffer) - begin
         /\ \A i \in 1 .. Len(buffer) - begin : Raw(Tell, position)[i] = text[Tell + i]
<1> DEFINE n == Len(buffer) - begin
<1>1. n \in Nat /\ position - Tell = n /\ Tell \in 0 .. position /\ position \in 0 .. Len(text)
  BY TextIs, TellIn DEF Typed, Tell
<1>2. /\ Raw(Tell, position) \in Seq(Characters) /\ Len(Raw(Tell, position)) = n
      /\ \A i \in 1 .. n : Raw(Tell, position)[i] = text[Tell + i]
  <2>1. Tell \in 0 .. Len(text) /\ Tell <= position
    BY <1>1, TextIs
  <2> QED
    BY <1>1, <2>1, Part, TextIs DEF Raw
<1>3. /\ Unread(buffer, begin) \in Seq(Characters) /\ Len(Unread(buffer, begin)) = n
      /\ \A i \in 1 .. n : Unread(buffer, begin)[i] = buffer[begin + i]
  <2>1. begin \in 0 .. Len(buffer) /\ Len(buffer) \in 0 .. Len(buffer) /\ begin <= Len(buffer)
    BY TextIs DEF Typed
  <2> QED
    BY <2>1, Part, TextIs DEF Unread, Typed
<1>4. \A i \in 1 .. n : Unread(buffer, begin)[i] = Raw(Tell, position)[i]
  BY <1>2, <1>3 DEF InStep
<1>5. Unread(buffer, begin) = Raw(Tell, position)
  <2> HIDE DEF n
  <2> QED
    BY <1>1, <1>2, <1>3, <1>4, Same
<1> QED
  BY <1>2, <1>5

\* Filling reads on from the position, up to the end or until the buffer is full.
LEMMA FilledIs ==
  ASSUME Typed, InStep
  PROVE  LET e == Tell + Len(Filled)
         IN  /\ Filled = Raw(Tell, e) /\ Filled \in Seq(Characters)
             /\ e \in position .. Len(text) /\ Len(Filled) \in 0 .. BufferSize
             /\ Len(Filled) = BufferSize \/ e = Len(text)
             /\ \A i \in 1 .. Len(Filled) : Filled[i] = text[Tell + i]
<1> DEFINE rest == Unread(buffer, begin)
           last == Least(Len(text), position + BufferSize - Len(rest))
           more == SubSeq(text, position + 1, last)
           n == last - Tell
<1>1. /\ rest \in Seq(Characters) /\ Len(rest) = Len(buffer) - begin
      /\ \A i \in 1 .. Len(rest) : rest[i] = text[Tell + i]
  BY UnreadIs
<1>2. Len(rest) \in 0 .. BufferSize /\ position = Tell + Len(rest) /\ Tell \in Nat
  BY <1>1, TextIs, TellIn, GzFileAssumption DEF Typed, Tell
<1>3. /\ last \in position .. Len(text) /\ n \in Len(rest) .. BufferSize
      /\ n = BufferSize \/ last = Len(text)
  <2> HIDE DEF rest
  <2>1. Len(text) \in Nat /\ position \in 0 .. Len(text) /\ BufferSize \in Nat
    BY TextIs, GzFileAssumption DEF Typed
  <2> QED
    BY <1>2, <2>1 DEF Least
<1>4. /\ more \in Seq(Characters) /\ Len(more) = last - position
      /\ \A i \in 1 .. last - position : more[i] = text[position + i]
  <2>1. position \in 0 .. Len(text) /\ last \in 0 .. Len(text) /\ position <= last
    BY <1>3, TextIs DEF Typed
  <2> HIDE DEF last
  <2> QED
    BY <2>1, Part, TextIs
<1>5. /\ Filled \in Seq(Characters) /\ Len(Filled) = Len(rest) + Len(more)
      /\ \A i \in 1 .. Len(rest) + Len(more) :
           Filled[i] = IF i <= Len(rest) THEN rest[i] ELSE more[i - Len(rest)]
  <2>1. Filled = rest \o more
    BY DEF Filled
  <2> HIDE DEF rest, more
  <2> QED
    BY <1>1, <1>4, <2>1, ConcatProperties
<1>6. Len(Filled) = n /\ Tell + n = last
  <2> HIDE DEF rest, more, last
  <2> QED
    BY <1>2, <1>3, <1>4, <1>5, TextIs DEF Typed
<1>7. \A i \in 1 .. n : Filled[i] = text[Tell + i]
  <2> HIDE DEF rest, more, last
  <2> SUFFICES ASSUME NEW i \in 1 .. n PROVE Filled[i] = text[Tell + i]
    OBVIOUS
  <2>1. n \in Nat /\ position \in Nat /\ last \in Nat /\ Len(rest) + Len(more) = n
    BY <1>2, <1>3, <1>4, <1>5, <1>6, TextIs DEF Typed
  <2>2. CASE i <= Len(rest)
    BY <1>1, <1>2, <1>5, <2>1, <2>2
  <2>3. CASE ~(i <= Len(rest))
    <3>1. i - Len(rest) \in 1 .. last - position /\ position + (i - Len(rest)) = Tell + i
      BY <1>2, <1>3, <2>1, <2>3
    <3> QED
      BY <1>4, <1>5, <2>1, <2>3, <3>1
  <2> QED
    BY <2>2, <2>3
<1>8. /\ Raw(Tell, last) \in Seq(Characters) /\ Len(Raw(Tell, last)) = n
      /\ \A i \in 1 .. n : Raw(Tell, last)[i] = text[Tell + i]
  <2> HIDE DEF last
  <2>1. Tell \in 0 .. Len(text) /\ last \in 0 .. Len(text) /\ Tell <= last
    BY <1>2, <1>3, <1>6, TextIs DEF Typed
  <2> QED
    BY <2>1, Part, TextIs DEF Raw
<1>9. Filled = Raw(Tell, last)
  <2> HIDE DEF n, last
  <2>1. n \in Nat
    BY <1>5, <1>6
  <2> QED
    BY <1>5, <1>6, <1>7, <1>8, <2>1, Same
<1>10. /\ last \in position .. Len(text) /\ Len(Filled) \in 0 .. BufferSize
       /\ Len(Filled) = BufferSize \/ last = Len(text)
  <2> HIDE DEF rest, last
  <2> QED
    BY <1>2, <1>3, <1>6, GzFileAssumption
<1>11. Tell + Len(Filled) = last /\ Filled \in Seq(Characters)
  BY <1>5, <1>6
<1>12. \A i \in 1 .. Len(Filled) : Filled[i] = text[Tell + i]
  BY <1>6, <1>7
<1> HIDE DEF rest, more, last, n
<1> QED
  BY <1>9, <1>10, <1>11, <1>12

\* A carriage return inside a line stands where the line is not cut behind it: a line
\* begins less than LineSize - 2 characters before it.
ReturnsFit ==
  \A t \in Texts : \A i \in 1 .. Len(t) - 1 :
    t[i] = "return" =>
      \/ t[i + 1] = "newline"
      \/ \E j \in 0 .. i - 1 : i - j < LineSize - 2 /\ (j = 0 \/ t[j] = "newline")

\* There are no two in a row.
ReturnsApart ==
  \A t \in Texts : \A i \in 1 .. Len(t) - 1 : t[i] = "return" => t[i + 1] # "return"

\* A line of the buffer is cut after its newline or after LineSize - 1 characters.
LEMMA LineLengthIs ==
  ASSUME NEW b \in Seq(Characters), HasLine(b)
  PROVE  /\ LineLength(b) \in 1 .. Len(b) /\ LineLength(b) <= LineSize - 1
         /\ LineLength(b) = LineSize - 1 \/ b[LineLength(b)] = "newline"
         /\ \A i \in 1 .. LineLength(b) - 1 : b[i] # "newline"
<1> DEFINE S == {i \in 1 .. Len(b) : b[i] = "newline"}
           First(i) == b[i] = "newline" /\ \A j \in 1 .. i - 1 : b[j] # "newline"
           first == CHOOSE i \in DOMAIN b : First(i)
<1>1. Len(b) \in Nat /\ DOMAIN b = 1 .. Len(b)
  BY LenProperties
<1>2. S \in SUBSET Nat /\ S # {}
  BY <1>1 DEF HasLine
<1>3. PICK x \in S : \A y \in S : x <= y
  <2> HIDE DEF S
  <2> QED
    BY <1>2, LeastNumber
<1>4. \A j \in 1 .. x - 1 : b[j] # "newline"
  <2> SUFFICES ASSUME NEW j \in 1 .. x - 1, b[j] = "newline" PROVE FALSE
    OBVIOUS
  <2>1. x \in 1 .. Len(b)
    OBVIOUS
  <2>2. j \in S
    BY <1>1, <2>1
  <2>3. x <= j
    BY <1>3, <2>2
  <2> HIDE DEF S
  <2> QED
    BY <1>1, <2>1, <2>3
<1>5. \E i \in DOMAIN b : First(i)
  BY <1>1, <1>4
<1>6. first \in 1 .. Len(b) /\ First(first)
  <2> HIDE DEF First
  <2> QED
    BY <1>1, <1>5
<1>7. LineLength(b) = Least(first, LineSize - 1)
  BY DEF LineLength
<1>8. LineSize \in Nat \ {0, 1}
  BY GzFileAssumption
<1>9. first \in 1 .. Len(b) /\ b[first] = "newline" /\ \A j \in 1 .. first - 1 : b[j] # "newline"
  BY <1>6
<1> HIDE DEF first, First
<1>10. CASE first < LineSize - 1
  <2>1. LineLength(b) = first
    BY <1>7, <1>10 DEF Least
  <2> QED
    BY <1>1, <1>8, <1>9, <1>10, <2>1
<1>11. CASE ~(first < LineSize - 1)
  <2>1. LineLength(b) = LineSize - 1
    BY <1>7, <1>11 DEF Least
  <2>2. \A i \in 1 .. LineSize - 1 - 1 : i \in 1 .. first - 1
    BY <1>1, <1>8, <1>9, <1>11
  <2>3. LineSize - 1 \in 1 .. Len(b)
    BY <1>1, <1>8, <1>9, <1>11
  <2>4. \A i \in 1 .. LineSize - 1 - 1 : b[i] # "newline"
    BY <1>9, <2>2
  <2>5. LineSize - 1 <= LineSize - 1
    BY <1>8
  <2> QED
    BY <2>1, <2>3, <2>4, <2>5
<1> QED
  BY <1>10, <1>11

\* There is one place where the line that starts at c can end.
LEMMA EndIs ==
  ASSUME text \in Seq(Characters), NEW c \in Nat, NEW e \in c + 1 .. Len(text),
         e = Len(text) \/ e = c + LineSize - 1 \/ text[e] = "newline",
         \A i \in c + 1 .. e - 1 : text[i] # "newline",
         e <= c + LineSize - 1
  PROVE  Reader!LineEnd(c) = e
<1> DEFINE Ends(f) == /\ f = Len(text) \/ f = c + LineSize - 1 \/ text[f] = "newline"
                      /\ \A i \in c + 1 .. f - 1 : text[i] # "newline"
                      /\ f <= c + LineSize - 1
<1>1. Len(text) \in Nat /\ LineSize \in Nat
  BY GzFileAssumption
<1>2. ASSUME NEW f \in c + 1 .. Len(text), Ends(f) PROVE f = e
  <2>1. ~(f < e)
    <3>1. SUFFICES ASSUME f < e PROVE FALSE
      OBVIOUS
    <3>2. text[f] # "newline"
      BY <1>1, <3>1
    <3> QED
      BY <1>1, <1>2, <3>1, <3>2
  <2>2. ~(e < f)
    <3>1. SUFFICES ASSUME e < f PROVE FALSE
      OBVIOUS
    <3>2. text[e] # "newline"
      BY <1>1, <1>2, <3>1
    <3> QED
      BY <1>1, <1>2, <3>1, <3>2
  <2> QED
    BY <1>1, <2>1, <2>2
<1>3. Ends(e)
  OBVIOUS
<1>4. Reader!LineEnd(c) = CHOOSE f \in c + 1 .. Len(text) : Ends(f)
  BY DEF Reader!LineEnd
<1> HIDE DEF Ends
<1> QED
  BY <1>2, <1>3, <1>4

\* A line is returned without its carriage return but for an empty one.
LEMMA ReturnedIs ==
  ASSUME NEW l \in Seq(Characters)
  PROVE  Returned(l) = IF Len(l) > 2 /\ l[Len(l) - 1] = "return" /\ l[Len(l)] = "newline"
                         THEN Append(SubSeq(l, 1, Len(l) - 2), "newline") ELSE l
<1>1. Len(l) \in Nat
  BY LenProperties
<1>2. CASE l = EmptyLine
  <2>1. Len(l) = 2
    BY <1>2 DEF EmptyLine
  <2> QED
    BY <1>2, <2>1 DEF Returned
<1>3. CASE l # EmptyLine
  <2>1. ASSUME Len(l) = 2 PROVE ~(l[1] = "return" /\ l[2] = "newline")
    <3>1. l = <<l[1], l[2]>>
      BY <2>1
    <3> QED
      BY <1>3, <3>1 DEF EmptyLine
  <2>2. CASE Len(l) = 2
    BY <1>3, <2>1, <2>2 DEF Returned, Reader!Show
  <2>3. CASE Len(l) # 2
    <3> DEFINE n == Len(l)
    <3>0. n \in Nat /\ n # 2
      BY <1>1, <2>3
    <3> HIDE DEF n
    <3>1. n > 1 <=> n > 2
      BY <3>0
    <3>2. Returned(l) = Reader!Show(l)
      BY <1>3 DEF Returned
    <3>3. Reader!Show(l) = IF Len(l) > 1 /\ l[Len(l) - 1] = "return" /\ l[Len(l)] = "newline"
                             THEN Append(SubSeq(l, 1, Len(l) - 2), "newline") ELSE l
      BY DEF Reader!Show
    <3> QED
      BY <3>1, <3>2, <3>3 DEF n
  <2> QED
    BY <2>2, <2>3
<1> QED
  BY <1>2, <1>3

\* The position where the last line started is found again from its length.
LEMMA StartIs ==
  ASSUME text \in Seq(Characters), ReturnsApart, text \in Texts,
         NEW c \in Nat, NEW e \in c + 1 .. Len(text),
         NEW l, l = Returned(Raw(c, e))
  PROVE  /\ l \in Seq(Characters)
         /\ e - Len(l)
              - (IF e > 1 /\ text[e] = "newline" /\ text[e - 1] = "return"
                    /\ Len(l) > 1 /\ l[Len(l) - 1] # "return" THEN 1 ELSE 0) = c
<1> DEFINE n == e - c
           r == Raw(c, e)
<1>1. /\ r \in Seq(Characters) /\ Len(r) = n /\ n \in Nat \ {0}
      /\ \A i \in 1 .. n : r[i] = text[c + i]
  <2>1. c \in 0 .. Len(text) /\ e \in 0 .. Len(text) /\ c <= e /\ Len(text) \in Nat
    OBVIOUS
  <2> QED
    BY <2>1, Part DEF Raw
<1>2. l = IF Len(r) > 2 /\ r[Len(r) - 1] = "return" /\ r[Len(r)] = "newline"
          THEN Append(SubSeq(r, 1, Len(r) - 2), "newline") ELSE r
  BY <1>1, ReturnedIs
<1>3. CASE Len(r) > 2 /\ r[Len(r) - 1] = "return" /\ r[Len(r)] = "newline"
  <2>1. n - 2 \in Nat /\ n \in Nat /\ c + (n - 1) = e - 1 /\ c + n = e /\ n > 2
    BY <1>1, <1>3
  <2>2. text[e - 1] = "return" /\ text[e] = "newline"
    <3>1. r[n - 1] = text[c + (n - 1)] /\ r[n] = text[c + n]
      BY <1>1, <2>1
    <3> HIDE DEF n, r
    <3> QED
      BY <1>1, <1>3, <2>1, <3>1
  <2>3. /\ SubSeq(r, 1, n - 2) \in Seq(Characters)
        /\ Len(SubSeq(r, 1, n - 2)) = n - 2
        /\ \A i \in 1 .. n - 2 : SubSeq(r, 1, n - 2)[i] = r[i]
    <3>1. n - 2 \in 0 .. Len(r)
      BY <1>1, <2>1
    <3> HIDE DEF n, r
    <3> QED
      BY <1>1, <3>1, Beginning
  <2>4. /\ l \in Seq(Characters) /\ Len(l) = n - 1
        /\ l[n - 2] = r[n - 2]
    <3>1. l = Append(SubSeq(r, 1, n - 2), "newline") /\ "newline" \in Characters
      BY <1>1, <1>2, <1>3 DEF Characters
    <3>2. n - 2 \in 1 .. n - 2 /\ n - 2 + 1 = n - 1
      BY <2>1
    <3> HIDE DEF n, r
    <3> QED
      BY <2>3, <3>1, <3>2, AppendProperties
  <2>5. l[n - 2] # "return"
    <3>1. r[n - 2] = text[e - 2] /\ e - 2 \in 1 .. Len(text) - 1 /\ (e - 2) + 1 = e - 1
      BY <1>1, <2>1
    <3> QED
      BY <2>2, <2>4, <3>1 DEF ReturnsApart
  <2>6. e > 1 /\ n - 1 > 1 /\ (n - 1) - 1 = n - 2 /\ e - (n - 1) - 1 = c
    BY <2>1
  <2> HIDE DEF n, r
  <2> QED
    BY <2>2, <2>4, <2>5, <2>6
<1>4. CASE ~(Len(r) > 2 /\ r[Len(r) - 1] = "return" /\ r[Len(r)] = "newline")
  <2>1. l = r /\ e - n = c
    BY <1>1, <1>2, <1>4
  <2>2. n > 1 => r[n - 1] = text[e - 1]
    BY <1>1
  <2>3. e - n - 0 = c
    BY <2>1, <1>1
  <2> HIDE DEF n, r
  <2> QED
    BY <1>1, <2>1, <2>2, <2>3
<1> QED
  BY <1>3, <1>4

\* What is cut from the head of the unread text is its first line.
LEMMA CutIs ==
  ASSUME Typed, InStep, NEW b \in Seq(Characters), NEW k,
         Tell + Len(b) <= Len(text), \A i \in 1 .. Len(b) : b[i] = text[Tell + i],
         \/ HasLine(b) /\ k = LineLength(b)
         \/ /\ ~HasLine(b) /\ k = Least(LineSize - 1, Len(b)) /\ k # 0
            /\ Len(b) >= LineSize - 1 \/ Tell + Len(b) = Len(text)
  PROVE  /\ k \in 1 .. Len(b) /\ Tell + k \in Tell + 1 .. Len(text)
         /\ Reader!LineEnd(Tell) = Tell + k
         /\ SubSeq(b, 1, k) \in Seq(Characters)
         /\ Dropped(SubSeq(b, 1, k)) \in Seq(Characters)
         /\ ReturnsFit =>
              Returned(Raw(Tell, Tell + k)) =
                IF HasLine(b) THEN Dropped(SubSeq(b, 1, k)) ELSE SubSeq(b, 1, k)
<1>1. /\ Tell \in Nat /\ Len(b) \in Nat /\ Len(text) \in Nat /\ LineSize \in Nat \ {0, 1}
      /\ text \in Seq(Characters)
  BY TextIs, TellIn, GzFileAssumption DEF Typed
<1>2. /\ k \in 1 .. Len(b) /\ k <= LineSize - 1
      /\ \/ k = LineSize - 1 \/ b[k] = "newline" \/ Tell + k = Len(text)
      /\ \A i \in 1 .. k - 1 : b[i] # "newline"
      /\ ~HasLine(b) => b[k] # "newline"
  <2>1. CASE HasLine(b) /\ k = LineLength(b)
    BY <2>1, LineLengthIs
  <2>2. CASE /\ ~HasLine(b) /\ k = Least(LineSize - 1, Len(b)) /\ k # 0
             /\ Len(b) >= LineSize - 1 \/ Tell + Len(b) = Len(text)
    <3>1. k \in 1 .. Len(b) /\ k <= LineSize - 1 /\ (k = LineSize - 1 \/ k = Len(b))
      BY <1>1, <2>2 DEF Least
    <3>2. k = LineSize - 1 \/ Tell + k = Len(text)
      BY <1>1, <2>2, <3>1
    <3>3. \A i \in 1 .. Len(b) : b[i] # "newline"
      BY <1>1, <2>2, LenProperties DEF HasLine
    <3> QED
      BY <1>1, <3>1, <3>2, <3>3
  <2> QED
    BY <2>1, <2>2
<1>3. Tell + k \in Tell + 1 .. Len(text) /\ b[k] = text[Tell + k]
  BY <1>1, <1>2
<1>4. Reader!LineEnd(Tell) = Tell + k
  <2> DEFINE c == Tell
             e == Tell + k
  <2>1. /\ c \in Nat /\ e = c + k /\ e \in c + 1 .. Len(text)
        /\ e = Len(text) \/ e = c + LineSize - 1 \/ text[e] = "newline"
        /\ e <= c + LineSize - 1 /\ \A i \in 1 .. Len(b) : b[i] = text[c + i]
    BY <1>1, <1>2, <1>3
  <2> HIDE DEF c, e
  <2>2. \A i \in c + 1 .. e - 1 : text[i] # "newline"
    <3> SUFFICES ASSUME NEW i \in c + 1 .. e - 1 PROVE text[i] # "newline"
      OBVIOUS
    <3>1. i - c \in 1 .. k - 1 /\ i - c \in 1 .. Len(b) /\ c + (i - c) = i
      BY <1>1, <1>2, <2>1
    <3> QED
      BY <1>2, <2>1, <3>1
  <2>3. Reader!LineEnd(c) = e
    BY <1>1, <2>1, <2>2, EndIs
  <2> QED
    BY <2>3 DEF c, e
<1>5. /\ SubSeq(b, 1, k) \in Seq(Characters) /\ Len(SubSeq(b, 1, k)) = k
      /\ \A i \in 1 .. k : SubSeq(b, 1, k)[i] = b[i]
  <2>1. k \in 0 .. Len(b)
    BY <1>1, <1>2
  <2> QED
    BY <2>1, Beginning
<1>6. /\ Raw(Tell, Tell + k) \in Seq(Characters) /\ Len(Raw(Tell, Tell + k)) = k
      /\ \A i \in 1 .. k : Raw(Tell, Tell + k)[i] = text[Tell + i]
  <2>1. /\ Tell \in 0 .. Len(text) /\ Tell + k \in 0 .. Len(text) /\ Tell <= Tell + k
        /\ (Tell + k) - Tell = k
    BY <1>1, <1>2, <1>3
  <2> QED
    BY <1>1, <2>1, Part DEF Raw
<1>7. SubSeq(b, 1, k) = Raw(Tell, Tell + k)
  <2>1. k \in Nat /\ \A i \in 1 .. k : i \in 1 .. Len(b)
    BY <1>1, <1>2
  <2> QED
    BY <1>5, <1>6, <2>1, Same
<1> DEFINE r == Raw(Tell, Tell + k)
<1>8. Dropped(r) \in Seq(Characters)
  <2>1. CASE Len(r) > 2 /\ r[Len(r) - 1] = "return"
    <3>1. SubSeq(r, 1, Len(r) - 2) \in Seq(Characters)
      <4>1. Len(r) - 2 \in 0 .. Len(r) /\ r \in Seq(Characters)
        BY <1>1, <1>2, <1>6, <2>1
      <4> HIDE DEF r
      <4> QED
        BY <4>1, Beginning
    <3>2. "newline" \in Characters
      BY DEF Characters
    <3> HIDE DEF r
    <3> QED
      BY <2>1, <3>1, <3>2, AppendProperties DEF Dropped
  <2>2. CASE ~(Len(r) > 2 /\ r[Len(r) - 1] = "return")
    BY <1>6, <2>2 DEF Dropped
  <2> QED
    BY <2>1, <2>2
<1>9. ASSUME ReturnsFit
      PROVE  Returned(r) = IF HasLine(b) THEN Dropped(r) ELSE r
  <2>1. ASSUME HasLine(b), Len(r) > 2, r[Len(r) - 1] = "return"
        PROVE  r[Len(r)] = "newline"
    <3> DEFINE i == Tell + (k - 1)
    <3>1. /\ k - 1 \in 1 .. k /\ k \in 1 .. k /\ k > 2 /\ i \in 1 .. Len(text) - 1
          /\ i + 1 = Tell + k
      <4> DEFINE c == Tell
                 n == Len(text)
      <4>1. k > 2 /\ k \in Nat
        BY <1>1, <1>2, <1>6, <2>1
      <4>2. c \in Nat /\ n \in Nat /\ c + k <= n
        BY <1>1, <1>2, <1>3
      <4> HIDE DEF c, n
      <4>3. /\ k - 1 \in 1 .. k /\ k \in 1 .. k /\ c + (k - 1) \in 1 .. n - 1
            /\ c + (k - 1) + 1 = c + k
        BY <4>1, <4>2
      <4> QED
        BY <4>1, <4>3 DEF c, n
    <3>2. text[i] = "return" /\ r[Len(r)] = text[i + 1] /\ text[i + 1] = b[k]
      BY <1>3, <1>6, <2>1, <3>1
    <3>3. b[k] = "newline" \/ k = LineSize - 1
      BY <2>1, LineLengthIs
    <3>4. CASE k = LineSize - 1
      <4>1. \/ text[i + 1] = "newline"
            \/ \E j \in 0 .. i - 1 : i - j < LineSize - 2 /\ (j = 0 \/ text[j] = "newline")
        <5> HIDE DEF i
        <5> QED
          BY <1>9, <3>1, <3>2 DEF ReturnsFit, Typed
      <4>2. ASSUME NEW j \in 0 .. i - 1, i - j < LineSize - 2, j = 0 \/ text[j] = "newline"
            PROVE  FALSE
        <5>1. j - Tell \in 1 .. k - 1 /\ j - Tell \in 1 .. Len(b) /\ j # 0
              /\ Tell + (j - Tell) = j
          BY <1>1, <1>2, <3>1, <3>4, <4>2
        <5> QED
          BY <1>2, <4>2, <5>1
      <4> HIDE DEF r, i
      <4> QED
        BY <3>2, <4>1, <4>2
    <3> HIDE DEF r, i
    <3> QED
      BY <3>2, <3>3, <3>4
  <2>2. ~HasLine(b) => r[Len(r)] # "newline"
    BY <1>2, <1>3, <1>6
  <2>3. r \in Seq(Characters)
    BY <1>6
  <2> HIDE DEF r
  <2>4. Returned(r) = IF Len(r) > 2 /\ r[Len(r) - 1] = "return" /\ r[Len(r)] = "newline"
                        THEN Append(SubSeq(r, 1, Len(r) - 2), "newline") ELSE r
    BY <2>3, ReturnedIs
  <2>5. Dropped(r) = IF Len(r) > 2 /\ r[Len(r) - 1] = "return"
                       THEN Append(SubSeq(r, 1, Len(r) - 2), "newline") ELSE r
    BY DEF Dropped
  <2> QED
    BY <2>1, <2>2, <2>4, <2>5
<1> QED
  BY <1>2, <1>3, <1>4, <1>5, <1>7, <1>8, <1>9

-----------------------------------------------------------------------------
(* Steps *)

\* A line read leaves the buffer in step, and is the one of the text file.
LEMMA ReadIs ==
  ASSUME Typed, InStep, FromBuffer \/ FromFile, text' = text
  PROVE  /\ position' \in 0 .. Len(text)
         /\ buffer' \in Seq(Characters) /\ Len(buffer') <= BufferSize
         /\ begin' \in 0 .. Len(buffer') /\ line' \in Seq(Characters)
         /\ InStep'
         /\ \/ Tell' = Tell /\ line' = line
            \/ /\ Tell' \in Tell + 1 .. Len(text) /\ Tell' = Reader!LineEnd(Tell)
               /\ ReturnsFit => line' = Returned(Raw(Tell, Tell'))
<1>1. /\ Tell \in 0 .. position /\ position \in 0 .. Len(text) /\ Len(text) \in Nat
      /\ Len(buffer) \in Nat /\ begin \in 0 .. Len(buffer)
      /\ Tell = position - (Len(buffer) - begin)
  BY TextIs, TellIn DEF Typed, Tell
<1>2. CASE FromBuffer
  <2> DEFINE b == Unread(buffer, begin)
             k == LineLength(b)
  <2>1. /\ HasLine(b) /\ line' = Dropped(SubSeq(b, 1, k)) /\ begin' = begin + k
        /\ position' = position /\ buffer' = buffer
    BY <1>2 DEF FromBuffer
  <2>2. /\ b \in Seq(Characters) /\ Len(b) = Len(buffer) - begin
        /\ \A i \in 1 .. Len(b) : b[i] = text[Tell + i]
    BY UnreadIs
  <2> HIDE DEF b
  <2>3. Tell + Len(b) <= Len(text)
    BY <1>1, <2>2
  <2>4. /\ k \in 1 .. Len(b) /\ Tell + k \in Tell + 1 .. Len(text)
        /\ Reader!LineEnd(Tell) = Tell + k
        /\ line' \in Seq(Characters)
        /\ ReturnsFit => line' = Returned(Raw(Tell, Tell + k))
    BY <2>1, <2>2, <2>3, CutIs
  <2> HIDE DEF k
  <2>5. Tell' = Tell + k /\ begin' \in 0 .. Len(buffer)
    <3>1. Tell' = position' - (Len(buffer') - begin')
      BY DEF Tell
    <3>2. Tell' = position - (Len(buffer) - (begin + k))
      BY <2>1, <3>1
    <3>3. k \in 1 .. Len(buffer) - begin
      BY <2>2, <2>4
    <3> HIDE DEF Tell
    <3> QED
      BY <1>1, <2>1, <3>2, <3>3
  <2>6. InStep'
    <3>1. Len(buffer') - begin' <= position'
      <4> DEFINE m == Len(buffer)
      <4>1. /\ m \in Nat /\ begin \in Nat /\ begin <= m /\ position \in Nat /\ m - begin <= position /\ k \in Nat
        BY <1>1, <2>2, <2>4
      <4> HIDE DEF m
      <4>2. m - (begin + k) <= position
        BY <4>1
      <4> QED
        BY <2>1, <4>2 DEF m
    <3>2. ASSUME NEW i \in 1 .. Len(buffer') - begin'
          PROVE  buffer'[begin' + i] = text'[Tell' + i]
      <4>1. begin' = begin + k /\ buffer' = buffer /\ Tell' = Tell + k
        BY <2>1, <2>5
      <4>2. Len(buffer) \in Nat /\ begin \in Nat /\ Tell \in Nat /\ k \in Nat /\ k >= 1
        BY <1>1, <2>4
      <4> HIDE DEF Tell
      <4>3. i \in 1 .. Len(buffer) - (begin + k)
        BY <4>1
      <4>4. k + i \in 1 .. Len(buffer) - begin
        BY <4>2, <4>3
      <4>5. begin' + i = begin + (k + i) /\ Tell' + i = Tell + (k + i)
        BY <4>1, <4>2, <4>3
      <4> QED
        BY <2>1, <4>1, <4>4, <4>5 DEF InStep
    <3> QED
      BY <3>1, <3>2 DEF InStep
  <2>7. Raw(Tell, Tell + k) = Raw(Tell, Tell')
    BY <2>5
  <2> QED
    BY <1>1, <2>1, <2>4, <2>5, <2>6, <2>7 DEF Typed
<1>3. CASE FromFile
  <2> DEFINE b == Filled
             k == IF HasLine(b) THEN LineLength(b) ELSE Least(LineSize - 1, Len(b))
  <2>1. /\ buffer' = b /\ begin' = k
        /\ position' = position + Len(b) - (Len(buffer) - begin)
        /\ line' = IF k = 0 THEN line
                   ELSE IF HasLine(b) THEN Dropped(SubSeq(b, 1, k)) ELSE SubSeq(b, 1, k)
    BY <1>3 DEF FromFile
  <2>2. /\ b \in Seq(Characters) /\ Tell + Len(b) \in position .. Len(text)
        /\ Len(b) \in 0 .. BufferSize /\ (Len(b) = BufferSize \/ Tell + Len(b) = Len(text))
        /\ \A i \in 1 .. Len(b) : b[i] = text[Tell + i]
    BY FilledIs
  <2>3. /\ LineSize \in Nat \ {0, 1} /\ BufferSize \in Nat /\ LineSize - 1 <= BufferSize
    BY GzFileAssumption
  <2> HIDE DEF b
  <2>4. k = 0 \/ /\ k \in 1 .. Len(b) /\ Tell + k \in Tell + 1 .. Len(text)
                 /\ Reader!LineEnd(Tell) = Tell + k
                 /\ SubSeq(b, 1, k) \in Seq(Characters)
                 /\ Dropped(SubSeq(b, 1, k)) \in Seq(Characters)
                 /\ ReturnsFit =>
                      Returned(Raw(Tell, Tell + k)) =
                        IF HasLine(b) THEN Dropped(SubSeq(b, 1, k)) ELSE SubSeq(b, 1, k)
    <3>1. Tell + Len(b) <= Len(text)
      BY <1>1, <2>2
    <3>2. CASE HasLine(b)
      <4>1. k = LineLength(b)
        BY <3>2
      <4> HIDE DEF k
      <4> QED
        BY <2>2, <3>1, <3>2, <4>1, CutIs
    <3>3. CASE ~HasLine(b)
      <4>1. k = Least(LineSize - 1, Len(b))
        BY <3>3
      <4>2. Len(b) >= LineSize - 1 \/ Tell + Len(b) = Len(text)
        BY <2>2, <2>3
      <4> HIDE DEF k
      <4> QED
        BY <2>2, <3>1, <3>3, <4>1, <4>2, CutIs
    <3> QED
      BY <3>2, <3>3
  <2>5. line' \in Seq(Characters)
    <3>1. line \in Seq(Characters)
      BY DEF Typed
    <3> HIDE DEF k
    <3> QED
      BY <2>1, <2>4, <3>1
  <2> HIDE DEF k
  <2>6. /\ position' = Tell + Len(b) /\ Tell' = Tell + k
        /\ position' \in 0 .. Len(text) /\ begin' \in 0 .. Len(buffer')
    <3>1. Tell' = position' - (Len(buffer') - begin')
      BY DEF Tell
    <3>2. k \in 0 .. Len(b) /\ Len(b) \in Nat
      BY <2>2, <2>4
    <3> QED
      BY <1>1, <2>1, <2>2, <3>1, <3>2
  <2>7. InStep'
    <3>1. Len(buffer') - begin' <= position'
      <4> DEFINE m == Len(buffer')
      <4>1. Tell' = position' - (m - begin')
        BY DEF Tell
      <4>2. Tell \in Nat /\ k \in Nat /\ position' \in Nat
        <5>1. Tell \in Nat
          BY <1>1
        <5>2. Len(b) \in Nat
          BY <2>2
        <5>3. k \in Nat
          BY <2>4, <5>2
        <5>4. position' \in Nat
          BY <2>6, <1>1
        <5> QED
          BY <5>1, <5>3, <5>4
      <4>3. Tell' \in Nat /\ begin' \in 0 .. m
        BY <2>6, <4>2
      <4>4. m \in Nat
        BY <2>1, <2>2
      <4> HIDE DEF m, Tell
      <4>5. m - begin' <= position'
        <5>1. ASSUME NEW x \in Nat, NEW y \in Nat, NEW z \in 0 .. m, x = y - (m - z)
              PROVE  m - z <= y
          BY <4>4, <5>1
        <5> QED
          BY <4>1, <4>2, <4>3, <5>1
      <4> QED
        BY <4>5 DEF m
    <3>2. ASSUME NEW i \in 1 .. Len(buffer') - begin'
          PROVE  buffer'[begin' + i] = text'[Tell' + i]
      <4>1. k + i \in 1 .. Len(b) /\ Tell' + i = Tell + (k + i)
        BY <1>1, <2>1, <2>2, <2>4, <2>6
      <4> QED
        BY <2>1, <2>2, <4>1
    <3> QED
      BY <3>1, <3>2 DEF InStep
  <2>8. \/ Tell' = Tell /\ line' = line
        \/ /\ Tell' \in Tell + 1 .. Len(text) /\ Tell' = Reader!LineEnd(Tell)
           /\ ReturnsFit => line' = Returned(Raw(Tell, Tell'))
    <3>1. CASE k = 0
      BY <1>1, <2>1, <2>6, <3>1
    <3>2. CASE k # 0
      <4>1. Raw(Tell, Tell + k) = Raw(Tell, Tell')
        BY <2>6
      <4> QED
        BY <2>1, <2>4, <2>6, <3>2, <4>1
    <3> QED
      BY <3>1, <3>2
  <2> QED
    BY <2>1, <2>2, <2>5, <2>6, <2>7, <2>8
<1> QED
  BY <1>2, <1>3

\* An index has a point at the beginning of the file.
LEMMA IndexIs ==
  ASSUME NEW t \in Texts
  PROVE  build_index(t) \in SUBSET (0 .. Len(t)) /\ 0 \in build_index(t)
<1>1. Len(t) \in Nat
  BY GzFileAssumption
<1>2. 0 .. Len(t) - 1 \subseteq 0 .. Len(t) /\ 0 \in 0 .. Len(t)
  BY <1>1
<1> QED
  BY <1>2 DEF build_index

\* A seek stops in the file.
LEMMA ReachedIs ==
  ASSUME Typed, NEW offset \in Nat
  PROVE  Reached(offset) \in 0 .. Len(text)
<1> DEFINE from == IF index # {} THEN gzsetpos_point(index, offset) ELSE 0
<1>1. Len(text) \in Nat
  BY TextIs
<1>2. from \in 0 .. Len(text)
  <2>1. CASE index # {}
    BY <1>1, <2>1, StartingPoint DEF Typed
  <2>2. CASE index = {}
    BY <1>1, <2>2
  <2> QED
    BY <2>1, <2>2
<1>3. Reached(offset) = IF from <= offset THEN Least(offset, Len(text)) ELSE from
  BY DEF Reached
<1> HIDE DEF from
<1> QED
  BY <1>1, <1>2, <1>3 DEF Least

-----------------------------------------------------------------------------
(* The invariant *)

\* The last line read, put back or not, is what is in the file where it began.
Shown ==
  ReturnsFit /\ ReturnsApart /\ (fresh \/ unget) =>
    line = Returned(Raw(PosBegin - Shift, Tell))

IInv == Typed /\ InStep /\ Shown

LEMMA InitHolds == Init => IInv
<1> SUFFICES ASSUME Init PROVE IInv
  OBVIOUS
<1>1. Typed
  <2>1. BufferSize \in Nat /\ Len(text) \in Nat
    BY GzFileAssumption DEF Init
  <2>2. /\ position \in 0 .. Len(text) /\ buffer \in Seq(Characters)
        /\ Len(buffer) <= BufferSize /\ begin \in 0 .. Len(buffer) /\ line \in Seq(Characters)
    BY <2>1 DEF Init
  <2>3. index \in SUBSET (0 .. Len(text)) /\ (index # {} => 0 \in index)
    BY DEF Init
  <2>4. text \in Texts /\ unget \in BOOLEAN /\ open \in BOOLEAN /\ fresh \in BOOLEAN
    BY DEF Init
  <2> QED
    BY <2>2, <2>3, <2>4 DEF Typed
<1>2. InStep
  BY DEF Init, InStep
<1>3. Shown
  BY DEF Init, Shown
<1> QED
  BY <1>1, <1>2, <1>3 DEF IInv

\* Nothing moves but what the reader has put back.
LEMMA SameShown ==
  ASSUME Shown, Tell' = Tell, line' = line, text' = text, fresh' \/ unget' => fresh \/ unget
  PROVE  Shown'
<1>1. PosBegin' = PosBegin /\ Shift' = Shift
  BY DEF PosBegin, Shift
<1> QED
  BY <1>1 DEF Shown, Raw

\* A step keeps the invariant, and is one of the text file, a stutter or another file.
Moves ==
  \/ UNCHANGED <<text, Tell, line>>
  \/ Tell' \in 0 .. Len(text) /\ UNCHANGED <<text, line>>
  \/ /\ Tell \in Nat /\ Tell' \in Tell + 1 .. Len(text) /\ UNCHANGED text
     /\ Tell < Len(text) /\ Tell' = Reader!LineEnd(Tell)
     /\ ReturnsFit => line' = Returned(Raw(Tell, Tell'))
  \/ Close

LEMMA OpenKeeps ==
  ASSUME IInv, Open
  PROVE  IInv' /\ Moves
<1>1. UNCHANGED <<text, position, buffer, begin, line, unget, fresh>> /\ open' = TRUE
  BY DEF Open, lineVars
<1>2. Tell' = Tell
  BY <1>1 DEF Tell
<1>3. Typed'
  <2>1. text \in Texts /\ index' \in {{}, build_index(text)}
    BY DEF IInv, Typed, Open
  <2>2. index' \in SUBSET (0 .. Len(text)) /\ (index' # {} => 0 \in index')
    BY <2>1, IndexIs
  <2> QED
    BY <1>1, <2>2 DEF IInv, Typed
<1>4. InStep'
  BY <1>1, <1>2 DEF IInv, InStep
<1>5. Shown'
  BY <1>1, <1>2, SameShown DEF IInv
<1> QED
  BY <1>1, <1>2, <1>3, <1>4, <1>5 DEF IInv, Moves

LEMMA CloseKeeps ==
  ASSUME IInv, Close
  PROVE  IInv' /\ Moves
<1>1. Typed'
  <2>1. BufferSize \in Nat /\ Len(text') \in Nat
    BY GzFileAssumption DEF Close
  <2>2. /\ position' \in 0 .. Len(text') /\ buffer' \in Seq(Characters)
        /\ Len(buffer') <= BufferSize /\ begin' \in 0 .. Len(buffer')
        /\ line' \in Seq(Characters)
    BY <2>1 DEF Close
  <2>3. index' \in SUBSET (0 .. Len(text')) /\ (index' # {} => 0 \in index')
    BY DEF Close
  <2>4. text' \in Texts /\ unget' \in BOOLEAN /\ open' \in BOOLEAN /\ fresh' \in BOOLEAN
    BY DEF Close
  <2> QED
    BY <2>2, <2>3, <2>4 DEF Typed
<1>2. InStep' /\ Shown'
  BY DEF Close, InStep, Shown
<1> QED
  BY <1>1, <1>2 DEF IInv, Moves

LEMMA GetLineKeeps ==
  ASSUME IInv, GetLine
  PROVE  IInv' /\ Moves
<1>1. UNCHANGED <<text, index, open>>
  BY DEF GetLine
<1>2. CASE unget
  <2>1. /\ unget' = FALSE /\ fresh' = TRUE
        /\ UNCHANGED <<position, buffer, begin, line>>
    BY <1>2 DEF GetLine
  <2>2. Tell' = Tell
    BY <2>1 DEF Tell
  <2>3. Typed' /\ InStep'
    BY <1>1, <2>1, <2>2 DEF IInv, Typed, InStep
  <2>4. Shown'
    BY <1>1, <1>2, <2>1, <2>2, SameShown DEF IInv
  <2> QED
    BY <1>1, <2>1, <2>2, <2>3, <2>4 DEF IInv, Moves
<1>3. CASE ~unget
  <2>1. /\ FromBuffer \/ FromFile
        /\ fresh' = (Tell' > Tell) /\ unget' = unget
    BY <1>3 DEF GetLine
  <2>2. /\ position' \in 0 .. Len(text)
        /\ buffer' \in Seq(Characters) /\ Len(buffer') <= BufferSize
        /\ begin' \in 0 .. Len(buffer') /\ line' \in Seq(Characters)
        /\ InStep'
        /\ \/ Tell' = Tell /\ line' = line
           \/ /\ Tell' \in Tell + 1 .. Len(text) /\ Tell' = Reader!LineEnd(Tell)
              /\ ReturnsFit => line' = Returned(Raw(Tell, Tell'))
    BY <1>1, <2>1, ReadIs DEF IInv
  <2>3. Typed'
    <3>1. fresh' \in BOOLEAN /\ unget' \in BOOLEAN /\ open' \in BOOLEAN
      BY <1>1, <2>1 DEF IInv, Typed
    <3> QED
      BY <1>1, <2>2, <3>1 DEF IInv, Typed
  <2>4. text \in Texts /\ text \in Seq(Characters) /\ Len(text) \in Nat /\ Tell \in Nat
    BY TextIs, TellIn DEF IInv, Typed
  <2>5. CASE Tell' = Tell /\ line' = line
    <3>1. ~(Tell' > Tell)
      BY <2>4, <2>5
    <3>2. ~fresh' /\ ~unget'
      BY <1>3, <2>1, <3>1
    <3> QED
      BY <1>1, <2>2, <2>3, <2>5, <3>2 DEF IInv, Shown, Moves
  <2>6. CASE /\ Tell' \in Tell + 1 .. Len(text) /\ Tell' = Reader!LineEnd(Tell)
             /\ ReturnsFit => line' = Returned(Raw(Tell, Tell'))
    <3>1. Moves
      BY <1>1, <2>4, <2>6 DEF Moves
    <3>2. ASSUME ReturnsFit, ReturnsApart PROVE PosBegin' - Shift' = Tell
      <4>1. line' = Returned(Raw(Tell, Tell'))
        BY <2>6, <3>2
      <4>2. PosBegin' = Tell' - Len(line')
        BY DEF PosBegin
      <4>3. Shift' = IF Tell' > 1 /\ text[Tell'] = "newline" /\ text[Tell' - 1] = "return"
                        /\ Len(line') > 1 /\ line'[Len(line') - 1] # "return" THEN 1 ELSE 0
        BY <1>1 DEF Shift
      <4> QED
        BY <2>4, <2>6, <3>2, <4>1, <4>2, <4>3, StartIs
    <3>3. Shown'
      BY <1>1, <2>6, <3>2 DEF Shown, Raw
    <3> QED
      BY <2>2, <2>3, <3>1, <3>3 DEF IInv
  <2> QED
    BY <2>2, <2>5, <2>6
<1> QED
  BY <1>2, <1>3 DEF IInv, Typed

LEMMA SetPosKeeps ==
  ASSUME IInv, NEW offset \in 0 .. Len(text) + 1, SetPos(offset)
  PROVE  IInv' /\ Moves
<1>1. /\ position' = Reached(offset) /\ buffer' = <<>> /\ begin' = 0 /\ fresh' = FALSE
      /\ UNCHANGED <<text, index, line, unget, open>> /\ ~unget
  BY DEF SetPos
<1>2. Reached(offset) \in 0 .. Len(text)
  <2>1. offset \in Nat
    BY TextIs DEF IInv
  <2> QED
    BY <2>1, ReachedIs DEF IInv
<1>3. <<>> \in Seq(Characters) /\ Len(<<>>) = 0 /\ BufferSize \in Nat
  BY GzFileAssumption
<1>4. Typed'
  <2>1. /\ position' \in 0 .. Len(text') /\ buffer' \in Seq(Characters)
        /\ Len(buffer') <= BufferSize /\ begin' \in 0 .. Len(buffer')
    BY <1>1, <1>2, <1>3
  <2>2. /\ text' \in Texts /\ line' \in Seq(Characters)
        /\ index' \in SUBSET (0 .. Len(text')) /\ (index' # {} => 0 \in index')
        /\ unget' \in BOOLEAN /\ open' \in BOOLEAN /\ fresh' \in BOOLEAN
    BY <1>1 DEF IInv, Typed
  <2> QED
    BY <2>1, <2>2 DEF Typed
<1>5. Tell' \in 0 .. Len(text)
  BY <1>1, <1>2, <1>3 DEF Tell
<1>6. InStep'
  BY <1>1, <1>2, <1>3 DEF InStep
<1>7. Shown'
  BY <1>1 DEF Shown
<1> QED
  BY <1>1, <1>4, <1>5, <1>6, <1>7 DEF IInv, Moves

LEMMA FeofKeeps ==
  ASSUME IInv, Feof
  PROVE  IInv' /\ Moves
<1>1. /\ begin = Len(buffer) /\ position' = position + Len(Filled) /\ buffer' = Filled
      /\ begin' = 0 /\ UNCHANGED <<text, index, line, unget, open, fresh>>
  BY DEF Feof, lineVars
<1>2. Tell = position /\ position \in Nat
  BY <1>1, TextIs DEF IInv, Typed, Tell
<1>3. /\ Filled \in Seq(Characters) /\ Len(Filled) \in 0 .. BufferSize
      /\ Tell + Len(Filled) \in position .. Len(text)
      /\ \A i \in 1 .. Len(Filled) : Filled[i] = text[Tell + i]
  BY FilledIs DEF IInv
<1>4. Tell' = Tell
  BY <1>1, <1>2, <1>3 DEF Tell
<1>5. Typed'
  <2>1. BufferSize \in Nat /\ Len(text) \in Nat
    BY GzFileAssumption, TextIs DEF IInv
  <2> QED
    BY <1>1, <1>2, <1>3, <2>1 DEF IInv, Typed
<1>6. InStep'
  BY <1>1, <1>2, <1>3, <1>4 DEF InStep
<1>7. Shown'
  BY <1>1, <1>4, SameShown DEF IInv
<1> QED
  BY <1>1, <1>4, <1>5, <1>6, <1>7 DEF IInv, Moves

\* What does not touch the stream.
LEMMA RestKeeps ==
  ASSUME IInv, UngetLine \/ Mark \/ Copy \/ UNCHANGED vars
  PROVE  IInv' /\ Moves
<1>1. /\ UNCHANGED <<text, index, position, buffer, begin, line, open>>
      /\ fresh' \in BOOLEAN /\ unget' \in BOOLEAN
      /\ fresh' \/ unget' => fresh \/ unget
  <2>1. fresh \in BOOLEAN /\ unget \in BOOLEAN
    BY DEF IInv, Typed
  <2>2. CASE UngetLine
    BY <2>2 DEF UngetLine, gzVars, sliceVars
  <2>3. CASE Mark \/ Copy
    BY <2>1, <2>3 DEF Mark, Copy, gzVars, lineVars
  <2>4. CASE UNCHANGED vars
    BY <2>1, <2>4 DEF vars, gzVars, lineVars
  <2> QED
    BY <2>2, <2>3, <2>4
<1>2. Tell' = Tell
  BY <1>1 DEF Tell
<1>3. Typed' /\ InStep'
  BY <1>1, <1>2 DEF IInv, Typed, InStep
<1>4. Shown'
  BY <1>1, <1>2, SameShown DEF IInv
<1> QED
  BY <1>1, <1>2, <1>3, <1>4 DEF IInv, Moves

LEMMA NextKeeps == IInv /\ [Next]_vars => IInv' /\ Moves
BY OpenKeeps, CloseKeeps, GetLineKeeps, SetPosKeeps, FeofKeeps, RestKeeps DEF Next

-----------------------------------------------------------------------------
(* Theorems *)

\* The buffer, the position and the line stay as the file has them, for any texts,
\* whatever is read, put back, sought or tested.
THEOREM ReaderInvariance == Spec => []IInv
BY InitHolds, NextKeeps, PTL DEF Spec

\* What is in the buffer is what follows in the file (fill_buffer, io_gz_fgets,
\* io_gz_feof and io_gz_fseek).
THEOREM BufferStaysInStep == Spec => []BufferInStep
<1>1. IInv => BufferInStep
  BY UnreadIs DEF IInv, BufferInStep
<1> QED
  BY <1>1, ReaderInvariance, PTL

\* A seek never starts from behind its offset: gzsetpos_point takes the point before
\* the one its search stops at.
THEOREM SeeksFromBefore == Spec => []PointBefore
<1>1. IInv => PointBefore
  <2> SUFFICES ASSUME IInv, NEW offset \in 0 .. Len(text), index # {}
               PROVE  gzsetpos_point(index, offset) <= offset
    BY DEF PointBefore
  <2>1. Len(text) \in Nat /\ index \in SUBSET (0 .. Len(text)) /\ 0 \in index
    BY TextIs DEF IInv, Typed
  <2> QED
    BY <2>1, StartingPoint
<1> QED
  BY <1>1, ReaderInvariance, PTL

\* The line, the buffer and the seeks of a stream agree with the file: a line is the text
\* from where io_file_get_pos_begin says it starts, in files whose carriage returns
\* precede a newline, or stand alone where no line is cut.
THEOREM StreamStaysExact ==
  ASSUME ReturnsFit, ReturnsApart
  PROVE  Spec => []StreamExact
<1>1. IInv => LineBegin
  BY DEF IInv, Shown, LineBegin
<1> QED
  BY <1>1, ReaderInvariance, BufferStaysInStep, SeeksFromBefore, PTL DEF StreamExact

\* The lines, the positions and the seeks of a stream are those of the text file, with
\* buffers and access points in between, in files whose carriage returns precede a
\* newline or stand where no line is cut.
THEOREM ReadsLikeText ==
  ASSUME ReturnsFit
  PROVE  Spec => Implements
<1>1. ASSUME Init PROVE Reader!Init
  <2>1. Tell = 0 - (0 - 0)
    BY <1>1 DEF Init, Tell
  <2> QED
    BY <1>1, <2>1 DEF Init, Reader!Init
<1>2. IInv /\ [Next]_vars => [Reader!Next \/ ReadEmpty \/ Close]_<<text, Tell, line>>
  <2> SUFFICES ASSUME IInv, [Next]_vars
               PROVE  [Reader!Next \/ ReadEmpty \/ Close]_<<text, Tell, line>>
    OBVIOUS
  <2>1. Moves
    BY NextKeeps
  <2>2. text \in Seq(Characters)
    BY TextIs DEF IInv, Typed
  <2>3. ASSUME Tell \in Nat, Tell' \in Tell + 1 .. Len(text), text' = text, Tell < Len(text),
               Tell' = Reader!LineEnd(Tell), line' = Returned(Raw(Tell, Tell'))
        PROVE  ReadEmpty \/ Reader!ReadLine
    <3>1. CASE Raw(Tell, Tell') = EmptyLine
      <4>1. Len(Raw(Tell, Tell')) = 2 /\ line' = EmptyLine
        BY <2>3, <3>1 DEF EmptyLine, Returned
      <4>2. Len(Raw(Tell, Tell')) = Tell' - Tell
        <5>1. /\ Tell \in 0 .. Len(text) /\ Tell' \in 0 .. Len(text) /\ Tell <= Tell'
              /\ Len(text) \in Nat
          BY <2>2, <2>3, LenProperties
        <5> QED
          BY <2>2, <5>1, Part DEF Raw
      <4> DEFINE c == Tell
                 e == Tell'
                 n == Len(text)
      <4>3. c \in Nat /\ n \in Nat /\ e \in c + 1 .. n /\ e - c = 2
        BY <2>2, <2>3, <4>1, <4>2, LenProperties
      <4> HIDE DEF c, e, n
      <4>4. e = c + 2 /\ c + 2 <= n
        BY <4>3
      <4>5. Tell' = Tell + 2 /\ Tell + 2 <= Len(text)
        BY <4>4 DEF c, e, n
      <4> QED
        BY <2>3, <3>1, <4>1, <4>5 DEF ReadEmpty
    <3>2. CASE Raw(Tell, Tell') # EmptyLine
      <4>1. line' = Reader!Show(Raw(Tell, Tell'))
        BY <2>3, <3>2 DEF Returned
      <4> QED
        BY <2>3, <4>1 DEF Reader!ReadLine, Raw
    <3> QED
      BY <3>1, <3>2
  <2> QED
    BY <2>1, <2>3 DEF Moves, Reader!Next, Reader!Seek
<1> QED
  BY <1>1, <1>2, ReaderInvariance, PTL DEF Spec, Implements

-----------------------------------------------------------------------------
(* Interruption: the inductive invariant *)

Frames == [id : Nat, pc : {"set", "function", "ended", "landed"}, nested : BOOLEAN]

FramesTyped ==
  /\ frames \in Seq(Frames) /\ begun \in Nat
  /\ interruptible_interrupted \in {0, 1} /\ interruptible_monitor \in {0, 1}

\* Evaluations are numbered in the order they begin; those around another one are in
\* their function.
Stacked ==
  /\ \A k \in 1 .. Len(frames) : frames[k].id <= begun
  /\ \A j, k \in 1 .. Len(frames) : j < k => frames[j].id < frames[k].id
  /\ \A k \in 1 .. Len(frames) - 1 : frames[k].pc = "function"

\* The jump buffer is that of the innermost evaluation before the monitor is on, as
\* long as it is on, and never after a jump.
Armed ==
  /\ At("set") \/ interruptible_monitor = 1 => frames # <<>> /\ Top.id = interruptible_jmp
  /\ At("landed") => interruptible_monitor = 0

InterruptionInv == FramesTyped /\ Stacked /\ Armed /\ CanBeInterrupted /\ NotDeaf

-----------------------------------------------------------------------------
(* Interruption: moves of the frames *)

\* The innermost evaluation is the last one.
LEMMA TopIs ==
  ASSUME FramesTyped, frames # <<>>
  PROVE  /\ Len(frames) \in Nat \ {0} /\ Top = frames[Len(frames)] /\ Top \in Frames
         /\ \A k \in 1 .. Len(frames) : frames[k] \in Frames
<1>1. Len(frames) \in Nat \ {0}
  BY EmptySeq DEF FramesTyped
<1>2. \A k \in 1 .. Len(frames) : frames[k] \in Frames
  BY ElementOfSeq DEF FramesTyped
<1> QED
  BY <1>1, <1>2 DEF Top, Last

\* The innermost evaluation goes on.
LEMMA GotoIs ==
  ASSUME FramesTyped, Stacked, frames # <<>>, NEW pc \in {"set", "function", "ended", "landed"},
         Goto(pc), begun' = begun
  PROVE  /\ frames' \in Seq(Frames) /\ frames' # <<>> /\ Stacked'
         /\ Top' = [Top EXCEPT !.pc = pc]
<1> DEFINE n == Len(frames)
<1>1. n \in Nat \ {0} /\ Top = frames[n] /\ Top \in Frames /\ n \in 1 .. n
  BY TopIs
<1>2. frames' = [frames EXCEPT ![n] = [Top EXCEPT !.pc = pc]]
  BY <1>1 DEF Goto
<1>3. [Top EXCEPT !.pc = pc] \in Frames /\ [Top EXCEPT !.pc = pc].id = Top.id
  BY <1>1 DEF Frames
<1>4. /\ frames' \in Seq(Frames) /\ Len(frames') = n
      /\ \A k \in 1 .. n : frames'[k] = IF k = n THEN [Top EXCEPT !.pc = pc] ELSE frames[k]
  BY <1>1, <1>2, <1>3, ExceptSeq DEF FramesTyped
<1>5. frames' # <<>> /\ Top' = [Top EXCEPT !.pc = pc]
  BY <1>1, <1>4 DEF Top, Last
<1>6. \A k \in 1 .. n : frames'[k].id = frames[k].id
  <2> SUFFICES ASSUME NEW k \in 1 .. n PROVE frames'[k].id = frames[k].id
    OBVIOUS
  <2>1. CASE k = n
    BY <1>1, <1>3, <1>4, <2>1
  <2>2. CASE k # n
    BY <1>4, <2>2
  <2> QED
    BY <2>1, <2>2
<1>7. Stacked'
  <2>1. \A k \in 1 .. n - 1 : k \in 1 .. n /\ frames'[k] = frames[k]
    BY <1>1, <1>4
  <2> QED
    BY <1>4, <1>6, <2>1 DEF Stacked
<1> QED
  BY <1>4, <1>5, <1>7

\* The innermost evaluation is over, and the one around it has had another inside.
LEMMA ReturnIs ==
  ASSUME FramesTyped, Stacked, frames # <<>>, Return, begun' = begun
  PROVE  /\ frames' \in Seq(Frames) /\ Stacked'
         /\ frames' # <<>> => Top'.nested /\ Top'.pc = "function"
<1> DEFINE n == Len(frames) - 1
<1>1. /\ Len(frames) \in Nat \ {0} /\ n \in Nat
      /\ \A k \in 1 .. n : k \in 1 .. Len(frames) /\ frames[k] \in Frames
  BY TopIs
<1>2. frames' = [k \in 1 .. n |->
                   IF k = n THEN [frames[k] EXCEPT !.nested = TRUE] ELSE frames[k]]
  BY DEF Return
<1> HIDE DEF n
<1>3. \A k \in 1 .. n : /\ frames'[k] \in Frames /\ frames'[k].id = frames[k].id
                        /\ k = n => frames'[k].nested
                        /\ frames'[k].pc = "function"
  <2>1. \A k \in 1 .. n : frames[k].pc = "function"
    BY <1>1 DEF Stacked, n
  <2> QED
    BY <1>1, <1>2, <2>1 DEF Frames
<1>4. frames' \in Seq(Frames) /\ Len(frames') = n
  <2>1. frames' \in [1 .. n -> Frames]
    BY <1>2, <1>3
  <2> QED
    BY <1>1, <2>1, IsASeq, LenProperties
<1>5. Stacked'
  <2>1. \A k \in 1 .. n - 1 : k \in 1 .. n
    BY <1>1
  <2> QED
    BY <1>1, <1>3, <1>4, <2>1 DEF Stacked
<1>6. ASSUME frames' # <<>> PROVE Top'.nested /\ Top'.pc = "function"
  <2>1. n # 0
    BY <1>4, <1>6, EmptySeq
  <2>2. n \in 1 .. n /\ Top' = frames'[n]
    BY <1>1, <1>4, <2>1 DEF Top, Last
  <2> QED
    BY <1>3, <2>2
<1> QED
  BY <1>4, <1>5, <1>6

-----------------------------------------------------------------------------
(* Actions *)

\* sigsetjmp keeps the invariant: the buffer is now that of the innermost evaluation.
LEMMA sigsetjmpKeeps ==
  ASSUME InterruptionInv, sigsetjmp
  PROVE  InterruptionInv'
<1> DEFINE frame == [id |-> begun + 1, pc |-> "set", nested |-> FALSE]
           n == Len(frames)
<1>1. /\ frames' = Append(frames, frame) /\ begun' = begun + 1
      /\ interruptible_jmp' = begun + 1
      /\ interruptible_interrupted' = interruptible_interrupted
      /\ interruptible_monitor' = interruptible_monitor
      /\ frames = <<>> \/ At("function")
  BY DEF sigsetjmp
<1>2. /\ frames \in Seq(Frames) /\ begun \in Nat /\ n \in Nat
      /\ \A k \in 1 .. n : frames[k] \in Frames
  BY ElementOfSeq DEF InterruptionInv, FramesTyped
<1>3. frame \in Frames
  BY <1>2 DEF Frames
<1> HIDE DEF frame
<1>4. /\ frames' \in Seq(Frames) /\ frames' # <<>> /\ Len(frames') = n + 1
      /\ \A k \in 1 .. n : frames'[k] = frames[k]
      /\ frames'[n + 1] = frame
  BY <1>1, <1>2, <1>3, AppendProperties
<1>5. Top' = frame
  BY <1>4 DEF Top, Last
<1>6. frame.id = begun + 1 /\ frame.pc = "set" /\ frame.nested = FALSE
  BY DEF frame
<1>7. FramesTyped'
  BY <1>1, <1>2, <1>4 DEF InterruptionInv, FramesTyped
<1>8. Stacked'
  <2>1. \A k \in 1 .. n + 1 : k \in 1 .. n \/ k = n + 1
    BY <1>2
  <2>2. \A k \in 1 .. n : frames[k].id \in Nat /\ frames[k].id <= begun
    BY <1>2 DEF InterruptionInv, Stacked, Frames
  <2>3. \A k \in 1 .. n + 1 : frames'[k].id <= begun'
    BY <1>1, <1>2, <1>4, <1>6, <2>1, <2>2
  <2>4. \A j, k \in 1 .. n + 1 : j < k => frames'[j].id < frames'[k].id
    <3> SUFFICES ASSUME NEW j \in 1 .. n + 1, NEW k \in 1 .. n + 1, j < k
                 PROVE  frames'[j].id < frames'[k].id
      OBVIOUS
    <3>1. j \in 1 .. n
      BY <1>2
    <3>2. CASE k \in 1 .. n
      BY <1>4, <3>1, <3>2 DEF InterruptionInv, Stacked
    <3>3. CASE k = n + 1
      BY <1>2, <1>4, <1>6, <2>2, <3>1, <3>3
    <3> QED
      BY <2>1, <3>2, <3>3
  <2>5. \A k \in 1 .. n : frames'[k].pc = "function"
    <3>1. n # 0 => frames[n].pc = "function"
      BY <1>1, <1>2, EmptySeq DEF At, Top, Last
    <3>2. \A k \in 1 .. n : k \in 1 .. n - 1 \/ k = n
      BY <1>2
    <3> QED
      BY <1>2, <1>4, <3>1, <3>2 DEF InterruptionInv, Stacked
  <2>6. (n + 1) - 1 = n
    BY <1>2
  <2> QED
    BY <1>4, <2>3, <2>4, <2>5, <2>6 DEF Stacked
<1>9. ~(interruptible_interrupted = 1)
  <2>1. ~At("landed")
    BY <1>1 DEF At
  <2> QED
    BY <2>1 DEF InterruptionInv, NotDeaf
<1>10. Armed' /\ CanBeInterrupted' /\ NotDeaf'
  BY <1>1, <1>4, <1>5, <1>6, <1>9 DEF Armed, CanBeInterrupted, NotDeaf, At
<1> QED
  BY <1>7, <1>8, <1>10 DEF InterruptionInv

\* The monitor is turned on and the function is called: the invariant is kept.
LEMMA CallKeeps ==
  ASSUME InterruptionInv, Call
  PROVE  InterruptionInv'
<1>1. At("set") /\ frames # <<>> /\ Top.pc = "set" /\ Top.id = interruptible_jmp
  BY DEF Call, At, InterruptionInv, Armed
<1>2. interruptible_interrupted # 1
  BY <1>1 DEF InterruptionInv, NotDeaf, At
<1>3. /\ interruptible_monitor' = 1 /\ Goto("function")
      /\ interruptible_interrupted' = interruptible_interrupted
      /\ begun' = begun /\ interruptible_jmp' = interruptible_jmp
  BY <1>2 DEF Call
<1>4. /\ frames' \in Seq(Frames) /\ frames' # <<>> /\ Stacked'
      /\ Top' = [Top EXCEPT !.pc = "function"]
  BY <1>1, <1>3, GotoIs DEF InterruptionInv
<1>5. Top'.pc = "function" /\ Top'.id = Top.id
  BY <1>1, <1>4, TopIs DEF InterruptionInv, Frames
<1>6. FramesTyped'
  BY <1>3, <1>4 DEF InterruptionInv, FramesTyped
<1>7. Armed' /\ CanBeInterrupted' /\ NotDeaf'
  BY <1>1, <1>2, <1>3, <1>4, <1>5 DEF Armed, CanBeInterrupted, NotDeaf, At
<1> QED
  BY <1>4, <1>6, <1>7 DEF InterruptionInv

\* The function returns: the invariant is kept.
LEMMA EndedKeeps ==
  ASSUME InterruptionInv, Ended
  PROVE  InterruptionInv'
<1>1. /\ At("function") /\ frames # <<>> /\ Top.pc = "function" /\ Goto("ended")
      /\ begun' = begun /\ interruptible_jmp' = interruptible_jmp
      /\ interruptible_monitor' = interruptible_monitor
      /\ interruptible_interrupted' = interruptible_interrupted
  BY DEF Ended, At
<1>2. /\ frames' \in Seq(Frames) /\ frames' # <<>> /\ Stacked'
      /\ Top' = [Top EXCEPT !.pc = "ended"]
  BY <1>1, GotoIs DEF InterruptionInv
<1>3. Top'.pc = "ended" /\ Top'.id = Top.id
  BY <1>1, <1>2, TopIs DEF InterruptionInv, Frames
<1>4. interruptible_interrupted # 1
  BY <1>1 DEF InterruptionInv, NotDeaf, At
<1>5. FramesTyped'
  BY <1>1, <1>2 DEF InterruptionInv, FramesTyped
<1>6. Armed' /\ CanBeInterrupted' /\ NotDeaf'
  BY <1>1, <1>2, <1>3, <1>4 DEF InterruptionInv, Armed, CanBeInterrupted, NotDeaf, At
<1> QED
  BY <1>2, <1>5, <1>6 DEF InterruptionInv

\* Both ways back leave the monitor off, and nothing to be remembered.
LEMMA BackKeeps ==
  ASSUME InterruptionInv, Disarm \/ Landed
  PROVE  InterruptionInv'
<1>1. /\ frames # <<>> /\ Return /\ begun' = begun
      /\ interruptible_monitor' = 0 /\ interruptible_interrupted' = 0
  <2>1. CASE Disarm
    <3>1. frames # <<>> /\ Top.pc = "ended"
      BY <2>1 DEF Disarm, At
    <3>2. interruptible_interrupted = 0
      BY <3>1 DEF InterruptionInv, FramesTyped, NotDeaf, At
    <3> QED
      BY <2>1, <3>1, <3>2 DEF Disarm
  <2>2. CASE Landed
    <3>1. frames # <<>> /\ Top.pc = "landed" /\ interruptible_monitor = 0
      BY <2>2 DEF Landed, At, InterruptionInv, Armed
    <3> QED
      BY <2>2, <3>1 DEF Landed
  <2> QED
    BY <2>1, <2>2
<1>2. /\ frames' \in Seq(Frames) /\ Stacked'
      /\ frames' # <<>> => Top'.nested /\ Top'.pc = "function"
  BY <1>1, ReturnIs DEF InterruptionInv
<1>3. FramesTyped'
  BY <1>1, <1>2 DEF InterruptionInv, FramesTyped
<1>4. Armed' /\ CanBeInterrupted' /\ NotDeaf'
  <2>1. ~At("set")'
    BY <1>2 DEF At
  <2>2. Armed'
    BY <1>1, <2>1 DEF Armed
  <2>3. CanBeInterrupted'
    BY <1>2 DEF CanBeInterrupted, At
  <2>4. NotDeaf'
    BY <1>1 DEF NotDeaf
  <2> QED
    BY <2>2, <2>3, <2>4
<1> QED
  BY <1>2, <1>3, <1>4 DEF InterruptionInv

\* The evaluation jumped to is found by its number: it is the innermost one.
LEMMA interruptible_handlerKeeps ==
  ASSUME InterruptionInv, interruptible_handler
  PROVE  InterruptionInv'
<1> DEFINE n == Len(frames)
           to == {k \in DOMAIN frames : frames[k].id = interruptible_jmp}
           landed == [Top EXCEPT !.pc = "landed"]
<1>1. /\ interruptible_interrupted = 0 /\ interruptible_monitor = 1
      /\ interruptible_interrupted' = 1 /\ interruptible_monitor' = 0
      /\ begun' = begun /\ interruptible_jmp' = interruptible_jmp
  BY DEF interruptible_handler
<1>2. /\ frames # <<>> /\ Top.id = interruptible_jmp
      /\ n \in Nat \ {0} /\ Top = frames[n] /\ Top \in Frames
      /\ frames \in Seq(Frames) /\ DOMAIN frames = 1 .. n
      /\ \A k \in 1 .. n : frames[k] \in Frames
  BY <1>1, TopIs, LenProperties DEF InterruptionInv, Armed, FramesTyped
<1>3. to = {n}
  <2>1. \A k \in 1 .. n : frames[k].id = frames[n].id => k = n
    <3> HIDE DEF n
    <3> SUFFICES ASSUME NEW k \in 1 .. n, frames[k].id = frames[n].id, k # n PROVE FALSE
      OBVIOUS
    <3>1. k < n /\ n \in 1 .. n
      BY <1>2
    <3>2. frames[k].id < frames[n].id /\ frames[n].id \in Nat
      BY <1>2, <3>1 DEF InterruptionInv, Stacked, Frames, n
    <3> QED
      BY <3>2
  <2>2. n \in 1 .. n /\ to = {k \in 1 .. n : frames[k].id = frames[n].id}
    BY <1>2
  <2> HIDE DEF n
  <2> QED
    BY <2>1, <2>2
<1>4. frames' = Append(SubSeq(frames, 1, n - 1), landed)
  <2>1. to # {} /\ (CHOOSE k \in to : TRUE) = n
    BY <1>3
  <2>2. frames' = IF to = {} THEN <<>>
                  ELSE LET k == CHOOSE k \in to : TRUE
                       IN  Append(SubSeq(frames, 1, k - 1), [frames[k] EXCEPT !.pc = "landed"])
    BY DEF interruptible_handler
  <2> HIDE DEF to
  <2> QED
    BY <1>2, <2>1, <2>2
<1>5. landed \in Frames /\ landed.id = Top.id /\ landed.pc = "landed"
  BY <1>2 DEF Frames
<1> HIDE DEF landed, n
<1>6. /\ SubSeq(frames, 1, n - 1) \in Seq(Frames)
      /\ Len(SubSeq(frames, 1, n - 1)) = n - 1
      /\ \A k \in 1 .. n - 1 : SubSeq(frames, 1, n - 1)[k] = frames[k]
  <2>1. \A k \in 1 .. n - 1 : frames[k] \in Frames
    BY <1>2
  <2>2. 1 \in Int /\ n - 1 \in Int
    BY <1>2
  <2>3. /\ SubSeq(frames, 1, n - 1) \in Seq(Frames)
        /\ Len(SubSeq(frames, 1, n - 1)) = IF 1 <= n - 1 THEN (n - 1) - 1 + 1 ELSE 0
        /\ \A k \in 1 .. (n - 1) - 1 + 1 : SubSeq(frames, 1, n - 1)[k] = frames[1 + k - 1]
    BY <2>1, <2>2, SubSeqProperties
  <2> QED
    BY <1>2, <2>3
<1>7. /\ frames' \in Seq(Frames) /\ Len(frames') = n /\ frames' # <<>>
      /\ \A k \in 1 .. n - 1 : frames'[k] = frames[k]
      /\ frames'[n] = landed
  <2> DEFINE s == SubSeq(frames, 1, n - 1)
  <2>1. (n - 1) + 1 = n
    BY <1>2
  <2>2. s \in Seq(Frames) /\ Len(s) = n - 1 /\ frames' = Append(s, landed)
    BY <1>4, <1>6
  <2>3. \A k \in 1 .. n - 1 : s[k] = frames[k]
    BY <1>6
  <2> HIDE DEF s
  <2>4. /\ Append(s, landed) \in Seq(Frames) /\ Append(s, landed) # <<>>
        /\ Len(Append(s, landed)) = Len(s) + 1
        /\ \A k \in 1 .. Len(s) : Append(s, landed)[k] = s[k]
        /\ Append(s, landed)[Len(s) + 1] = landed
    BY <1>5, <2>2, AppendProperties
  <2> QED
    BY <2>1, <2>2, <2>3, <2>4
<1>8. Top' = landed
  BY <1>7 DEF Top, Last
<1>9. FramesTyped'
  BY <1>1, <1>7 DEF InterruptionInv, FramesTyped
<1>10. Stacked'
  <2>1. \A k \in 1 .. n : frames'[k].id = frames[k].id
    <3>1. \A k \in 1 .. n : k \in 1 .. n - 1 \/ k = n
      BY <1>2
    <3> QED
      BY <1>2, <1>5, <1>7, <3>1
  <2> QED
    BY <1>1, <1>7, <2>1 DEF InterruptionInv, Stacked, n
<1>11. Armed' /\ CanBeInterrupted' /\ NotDeaf'
  BY <1>1, <1>5, <1>7, <1>8 DEF Armed, CanBeInterrupted, NotDeaf, At
<1> QED
  BY <1>9, <1>10, <1>11 DEF InterruptionInv

\* Every step keeps the invariant.
LEMMA InterruptionKeeps == InterruptionInv /\ [InterruptionNext]_interruptionVars => InterruptionInv'
<1> SUFFICES ASSUME InterruptionInv, [InterruptionNext]_interruptionVars PROVE InterruptionInv'
  OBVIOUS
<1>1. CASE UNCHANGED interruptionVars
  BY <1>1 DEF interruptionVars, InterruptionInv, FramesTyped, Stacked, Armed, CanBeInterrupted, NotDeaf,
              At, Top, Last
<1> QED
  BY <1>1, sigsetjmpKeeps, CallKeeps, EndedKeeps, BackKeeps, interruptible_handlerKeeps
     DEF InterruptionNext

\* __haplo_interruptible_init: no evaluation, and the monitor is off.
LEMMA InterruptionBegins == __haplo_interruptible_init => InterruptionInv
<1> SUFFICES ASSUME __haplo_interruptible_init PROVE InterruptionInv
  OBVIOUS
<1>1. frames = <<>> /\ Len(frames) = 0
  BY DEF __haplo_interruptible_init
<1>2. FramesTyped /\ Stacked
  BY <1>1 DEF __haplo_interruptible_init, FramesTyped, Stacked
<1>3. Armed /\ CanBeInterrupted /\ NotDeaf
  BY <1>1 DEF __haplo_interruptible_init, Armed, CanBeInterrupted, NotDeaf, At
<1> QED
  BY <1>2, <1>3 DEF InterruptionInv

-----------------------------------------------------------------------------
(* Interruption: theorems *)

\* The buffer, the flags and the evaluations agree, whenever signals come.
THEOREM InterruptionInvariance == InterruptionSpec => []InterruptionInv
BY InterruptionBegins, InterruptionKeeps, PTL DEF InterruptionSpec

\* A signal that is taken ends the innermost evaluation, at any depth; one without
\* another inside can be interrupted until it has returned, and the handler is deaf
\* between a jump and its end only.
THEOREM EndsTheInnermost == InterruptionSpec => []EndsInnermost
<1>1. InterruptionInv => EndsInnermost
  BY DEF InterruptionInv, Armed, JumpsToInnermost, EndsInnermost
<1> QED
  BY <1>1, InterruptionInvariance, PTL

-----------------------------------------------------------------------------
(* The registry: the functions of a name *)

\* The functions as they are registered.
Node == [name : FunctionNames, args : {s.type : s \in Signed}, flags : {s.flag : s \in Signed},
         profile : BOOLEAN, next : Nat]

\* The functions of a name from one on, in the order they are linked.
Runs(ns, name, first, fs) ==
  /\ fs \in Seq(1..Len(ns)) /\ Injective(fs)
  /\ \A k \in 1..Len(fs) : ns[fs[k]].name = name
  /\ first = IF fs = <<>> THEN 0 ELSE fs[1]
  /\ \A k \in 1..(Len(fs) - 1) : ns[fs[k]].next = fs[k + 1]
  /\ fs # <<>> => ns[fs[Len(fs)]].next = 0

\* What follows the functions fs, from the function f on.
Following(ns, f, fs) == IF fs = <<>> THEN f ELSE ns[Last(fs)].next

\* What Linked goes through.
Walk(g, ns, f) ==
  g = [n \in 0..Len(ns) |->
         IF n = 0 THEN <<>>
         ELSE IF Following(ns, f, g[n - 1]) = 0 THEN g[n - 1]
         ELSE Append(g[n - 1], Following(ns, f, g[n - 1]))]

\* The first functions of a chain, and the one that follows.
LEMMA RunsOn ==
  ASSUME NEW ns, Len(ns) \in Nat, NEW name, NEW first, NEW fs, Runs(ns, name, first, fs), NEW k \in 0..Len(fs)
  PROVE  /\ k < Len(fs) => /\ Following(ns, first, SubSeq(fs, 1, k)) = fs[k + 1] /\ fs[k + 1] # 0
                           /\ SubSeq(fs, 1, k + 1) = Append(SubSeq(fs, 1, k), fs[k + 1])
         /\ k = Len(fs) => Following(ns, first, SubSeq(fs, 1, k)) = 0
<1> DEFINE m == Len(fs)
           s == SubSeq(fs, 1, k)
<1>1. fs \in Seq(1..Len(ns)) /\ m \in Nat /\ k \in Nat /\ k <= m /\ (fs = <<>> <=> m = 0)
  <2>1. fs \in Seq(1..Len(ns))
    BY DEF Runs
  <2> QED
    BY <2>1
<1>2. \A j \in 1..m : fs[j] \in 1..Len(ns) /\ fs[j] # 0
  BY <1>1
<1>3. first = IF fs = <<>> THEN 0 ELSE fs[1]
  BY DEF Runs
<1>4. \A j \in 1..(m - 1) : ns[fs[j]].next = fs[j + 1]
  BY DEF Runs
<1>5. fs # <<>> => ns[fs[m]].next = 0
  BY DEF Runs
<1>6. s \in Seq(1..Len(ns)) /\ Len(s) = k /\ \A i \in 1..k : s[i] = fs[i]
  BY <1>1, FrontIs
<1> HIDE DEF s
<1>7. k = 0 => s = <<>>
  BY <1>6
<1>8. k # 0 => s # <<>> /\ Last(s) = fs[k]
  <2> SUFFICES ASSUME k # 0 PROVE s # <<>> /\ Last(s) = fs[k]
    OBVIOUS
  <2>1. Len(s) # 0 /\ k \in 1..k
    BY <1>1, <1>6
  <2>2. s # <<>>
    BY <2>1
  <2>3. Last(s) = s[k]
    BY <1>6 DEF Last
  <2> QED
    BY <1>6, <2>1, <2>2, <2>3
<1> HIDE DEF m
<1>9. ASSUME k < m PROVE Following(ns, first, s) = fs[k + 1] /\ fs[k + 1] # 0
  <2>1. k + 1 \in 1..m /\ fs # <<>>
    BY <1>1, <1>9
  <2>2. CASE k = 0
    <3>1. Following(ns, first, s) = first
      BY <1>7, <2>2 DEF Following
    <3> QED
      BY <1>2, <1>3, <2>1, <2>2, <3>1
  <2>3. CASE k # 0
    <3>1. k \in 1..(m - 1)
      BY <1>1, <1>9, <2>3
    <3>2. Following(ns, first, s) = ns[fs[k]].next
      BY <1>8, <2>3 DEF Following
    <3> QED
      BY <1>2, <1>4, <2>1, <3>1, <3>2
  <2> QED
    BY <2>2, <2>3
<1>10. ASSUME k < m PROVE SubSeq(fs, 1, k + 1) = Append(s, fs[k + 1])
  <2>1. 1 \in 1..Len(fs) /\ k + 1 \in 1..Len(fs) /\ k + 1 - 1 = k
    BY <1>1, <1>10 DEF m
  <2>2. CASE k = 0
    <3> DEFINE t == SubSeq(fs, 1, k + 1)
    <3>1. k + 1 \in 0..Len(fs) /\ k + 1 = 1
      BY <2>1, <2>2
    <3>2. t \in Seq(1..Len(ns)) /\ Len(t) = 1 /\ t[1] = fs[1]
      <4>1. t \in Seq(1..Len(ns)) /\ Len(t) = k + 1 /\ \A i \in 1..(k + 1) : t[i] = fs[i]
        BY <1>1, <3>1, FrontIs
      <4> HIDE DEF t
      <4> QED
        BY <3>1, <4>1
    <3> HIDE DEF t
    <3>3. t = <<fs[1]>>
      BY <3>2
    <3>4. Append(<<>>, fs[1]) = <<fs[1]>>
      OBVIOUS
    <3> QED
      BY <1>7, <2>2, <3>1, <3>3, <3>4 DEF t
  <2>3. CASE k # 0
    <3>1. SubSeq(fs, 1, k + 1) = SubSeq(fs, 1, k) \o <<fs[k + 1]>>
      <4>1. k + 1 \in 1..Len(fs)
        BY <2>1
      <4> QED
        BY <1>1, <2>1, <4>1, SubSeqRecursiveSecond
    <3>2. Append(s, fs[k + 1]) = s \o <<fs[k + 1]>>
      <4>1. fs[k + 1] \in 1..Len(ns)
        BY <1>2, <2>1 DEF m
      <4> QED
        BY <1>6, <4>1, AppendIsConcat
    <3> QED
      BY <3>1, <3>2 DEF s
  <2> QED
    BY <2>2, <2>3
<1>11. ASSUME k = m PROVE Following(ns, first, s) = 0
  <2>1. CASE k = 0
    <3>1. Following(ns, first, s) = first
      BY <1>7, <2>1 DEF Following
    <3> QED
      BY <1>1, <1>3, <1>11, <2>1, <3>1
  <2>2. CASE k # 0
    <3>1. Following(ns, first, s) = ns[fs[k]].next
      BY <1>8, <2>2 DEF Following
    <3> QED
      BY <1>1, <1>5, <1>11, <2>2, <3>1
  <2> QED
    BY <2>1, <2>2
<1> QED
  BY <1>9, <1>10, <1>11 DEF m, s

\* Linked gives the functions of a chain, in order.
LEMMA LinkedIs ==
  ASSUME NEW ns, Len(ns) \in Nat, NEW name, NEW first, NEW fs, Runs(ns, name, first, fs)
  PROVE  Linked(ns, first) = fs
<1> DEFINE N == Len(ns)
           m == Len(fs)
           at(n) == IF n <= m THEN n ELSE m
           f == [n \in 0..N |-> SubSeq(fs, 1, at(n))]
           g == CHOOSE g : Walk(g, ns, first)
<1>1. fs \in Seq(1..N) /\ m \in Nat /\ Injective(fs)
  <2>1. fs \in Seq(1..N) /\ Injective(fs)
    BY DEF Runs
  <2> QED
    BY <2>1
<1>2. N \in Nat /\ m <= N
  <2>1. IsFiniteSet(1..N) /\ Cardinality(1..N) = N
    <3>1. Cardinality(1..N) = IF 1 > N THEN 0 ELSE N - 1 + 1
      BY FS_Interval
    <3>2. IsFiniteSet(1..N)
      BY FS_Interval
    <3> QED
      BY <3>1, <3>2
  <2> QED
    BY <1>1, <2>1, NotMore
<1>3. Linked(ns, first) = g[N]
  BY DEF Linked, Walk, Following
<1>4. ASSUME NEW n \in 1..N
      PROVE  LET s == SubSeq(fs, 1, at(n - 1))
             IN  SubSeq(fs, 1, at(n)) = IF Following(ns, first, s) = 0 THEN s ELSE Append(s, Following(ns, first, s))
  <2> DEFINE s == SubSeq(fs, 1, at(n - 1))
  <2>1. n \in Nat /\ n - 1 \in Nat
    BY <1>2
  <2>2. CASE n - 1 >= m
    <3>1. at(n - 1) = m /\ at(n) = m /\ m \in 0..m
      BY <1>1, <2>1, <2>2
    <3>2. Following(ns, first, s) = 0
      BY <3>1, RunsOn
    <3> QED
      BY <3>1, <3>2
  <2>3. CASE n - 1 < m
    <3> DEFINE k == n - 1
    <3>1. at(n - 1) = k /\ at(n) = k + 1 /\ k \in 0..m /\ k < m
      BY <1>1, <2>1, <2>3
    <3> HIDE DEF k
    <3>2. /\ Following(ns, first, SubSeq(fs, 1, k)) = fs[k + 1] /\ fs[k + 1] # 0
          /\ SubSeq(fs, 1, k + 1) = Append(SubSeq(fs, 1, k), fs[k + 1])
      BY <3>1, RunsOn
    <3> QED
      BY <3>1, <3>2
  <2> QED
    BY <1>1, <2>1, <2>2, <2>3
<1>5. SubSeq(fs, 1, at(0)) = <<>>
  <2>1. at(0) = 0
    BY <1>1
  <2>2. SubSeq(fs, 1, 0) \in Seq(1..N) /\ Len(SubSeq(fs, 1, 0)) = 0
    <3>1. 0 \in 0..Len(fs)
      BY <1>1
    <3> QED
      BY <1>1, <3>1, FrontIs
  <2> QED
    BY <2>1, <2>2
<1> HIDE DEF N, m, at
<1>6. Walk(f, ns, first)
  <2> DEFINE h == [n \in 0..N |-> IF n = 0 THEN <<>>
                     ELSE IF Following(ns, first, f[n - 1]) = 0 THEN f[n - 1]
                     ELSE Append(f[n - 1], Following(ns, first, f[n - 1]))]
  <2>1. ASSUME NEW n \in 0..N PROVE f[n] = h[n]
    <3>1. CASE n = 0
      BY <1>5, <3>1
    <3>2. CASE n # 0
      <4>1. n \in 1..N /\ n - 1 \in 0..N
        BY <1>2, <3>2
      <4>2. f[n - 1] = SubSeq(fs, 1, at(n - 1)) /\ f[n] = SubSeq(fs, 1, at(n))
        BY <4>1
      <4>3. h[n] = IF Following(ns, first, f[n - 1]) = 0 THEN f[n - 1] ELSE Append(f[n - 1], Following(ns, first, f[n - 1]))
        BY <3>2
      <4> HIDE DEF f, h
      <4> QED
        BY <1>4, <4>1, <4>2, <4>3
    <3> QED
      BY <3>1, <3>2
  <2>2. f = [n \in 0..N |-> f[n]]
    OBVIOUS
  <2>3. f = [n \in 0..N |-> h[n]]
    <3> HIDE DEF f, h
    <3> QED
      BY <2>1, <2>2
  <2>4. [n \in 0..N |-> h[n]] = h
    <3> HIDE DEF f
    <3> QED
      OBVIOUS
  <2> QED
    BY <2>3, <2>4 DEF Walk, N
<1> HIDE DEF f
<1>7. Walk(g, ns, first)
  BY <1>6
<1> HIDE DEF g
<1>8. ASSUME NEW n \in 0..N
      PROVE  /\ g[n] = IF n = 0 THEN <<>>
                       ELSE IF Following(ns, first, g[n - 1]) = 0 THEN g[n - 1]
                       ELSE Append(g[n - 1], Following(ns, first, g[n - 1]))
             /\ f[n] = IF n = 0 THEN <<>>
                       ELSE IF Following(ns, first, f[n - 1]) = 0 THEN f[n - 1]
                       ELSE Append(f[n - 1], Following(ns, first, f[n - 1]))
  BY <1>6, <1>7 DEF Walk, N
<1> DEFINE P == {n \in 0..N : g[n] = f[n]}
<1>9. P = 0..N
  <2>1. P \in SUBSET (0..N) /\ 0 \in P
    <3>1. 0 \in 0..N
      BY <1>2
    <3> QED
      BY <1>8, <3>1
  <2>2. ASSUME NEW n \in 1..N, n - 1 \in P PROVE n \in P
    <3>1. n \in 0..N /\ n # 0
      BY <1>2
    <3>2. g[n - 1] = f[n - 1]
      BY <2>2
    <3>3. g[n] = f[n]
      BY <1>8, <3>1, <3>2
    <3> QED
      BY <3>1, <3>3
  <2> HIDE DEF P
  <2> QED
    BY <1>2, <2>1, <2>2, UpTo
<1>10. g[N] = f[N]
  <2>1. N \in 0..N
    BY <1>2
  <2> QED
    BY <1>9, <2>1
<1>11. f[N] = fs
  <2>1. at(N) = m /\ N \in 0..N
    BY <1>1, <1>2 DEF at
  <2>2. SubSeq(fs, 1, m) = fs
    BY <1>1, SubSeqFull DEF m
  <2> QED
    BY <2>1, <2>2 DEF f
<1> QED
  BY <1>3, <1>10, <1>11

\* f is the first of the functions fs that has these types.
FirstWith(ns, fs, types, f) ==
  \E k \in 1..Len(fs) :
    /\ fs[k] = f /\ Args(ns[f]) = types
    /\ \A l \in 1..(k - 1) : Args(ns[fs[l]]) # types

\* code_func_choose gives the first function with the types.
LEMMA Chosen ==
  ASSUME NEW ns, Len(ns) \in Nat, NEW name, NEW first, NEW fs, Runs(ns, name, first, fs),
         NEW types, NEW f, FirstWith(ns, fs, types, f)
  PROVE  code_func_choose(ns, first, types) = f
<1> DEFINE I == {i \in 1..Len(fs) : Args(ns[fs[i]]) = types}
           k == IF I # {} THEN Min(I) ELSE 0
<1>1. Linked(ns, first) = fs
  BY LinkedIs
<1>2. code_func_choose(ns, first, types) = IF k = 0 THEN 0 ELSE fs[k]
  BY <1>1 DEF code_func_choose, SelectInSeq
<1>3. Len(fs) \in Nat
  <2>1. fs \in Seq(1..Len(ns))
    BY DEF Runs
  <2> QED
    BY <2>1
<1>4. PICK n \in 1..Len(fs) : /\ fs[n] = f /\ Args(ns[f]) = types
                              /\ \A l \in 1..(n - 1) : Args(ns[fs[l]]) # types
  BY DEF FirstWith
<1>5. n \in I /\ I \in SUBSET Nat /\ \A i \in I : i \in 1..Len(fs) /\ Args(ns[fs[i]]) = types
  BY <1>3, <1>4
<1> HIDE DEF I
<1>6. Min(I) \in I /\ \A y \in I : Min(I) <= y
  BY <1>5, MinIn
<1>7. Min(I) = n
  <2>1. Min(I) \in Nat /\ n \in Nat /\ Min(I) <= n /\ Min(I) >= 1
    <3>1. Min(I) \in 1..Len(fs) /\ Min(I) <= n /\ n \in 1..Len(fs)
      BY <1>4, <1>5, <1>6
    <3> HIDE DEF I
    <3> QED
      BY <1>3, <3>1
  <2>2. ASSUME Min(I) # n PROVE FALSE
    <3>1. Min(I) \in 1..(n - 1)
      BY <2>1, <2>2
    <3> QED
      BY <1>4, <1>5, <1>6, <3>1
  <2> QED
    BY <2>2
<1>8. k = n /\ n # 0
  BY <1>3, <1>5, <1>7
<1> QED
  BY <1>2, <1>4, <1>8

\* It gives none when none has the types.
LEMMA NoneChosen ==
  ASSUME NEW ns, Len(ns) \in Nat, NEW name, NEW first, NEW fs, Runs(ns, name, first, fs),
         NEW types, \A k \in 1..Len(fs) : Args(ns[fs[k]]) # types
  PROVE  code_func_choose(ns, first, types) = 0
<1> DEFINE I == {i \in 1..Len(fs) : Args(ns[fs[i]]) = types}
<1>1. Linked(ns, first) = fs
  BY LinkedIs
<1>2. I = {}
  OBVIOUS
<1>3. code_func_choose(ns, first, types) =
        LET k == IF I # {} THEN Min(I) ELSE 0 IN IF k = 0 THEN 0 ELSE fs[k]
  BY <1>1 DEF code_func_choose, SelectInSeq
<1> QED
  BY <1>2, <1>3

\* The types of the arguments of a signature.
TypesOf(s) == [k \in 1..s.n |-> s.type[k]]

\* A signature: as many marks as there are arguments, a type more.
LEMMA SignedIs ==
  ASSUME NEW s \in Signed
  PROVE  /\ s.n \in Nat /\ DOMAIN s.type = 0..s.n /\ DOMAIN s.flag = 0..(s.n - 1)
         /\ \A k \in 0..s.n : s.type[k] = NULL \/ s.type[k] \in ObjectTypes
<1>1. PICK sig \in Signatures : s = __haplo_func_signature(sig)
  BY DEF Signed
<1> DEFINE marks == {k \in DOMAIN sig : sig[k][2] # ""}
           long == Cardinality(marks) > FUNC_MAX_ARGS
           n == IF Cardinality(marks) > FUNC_MAX_ARGS THEN FUNC_MAX_ARGS ELSE Cardinality(marks)
<1>2. n \in Nat
  <2>1. IsFiniteSet(DOMAIN sig)
    <3>1. sig \in Seq(STRING \X STRING)
      BY RegistryAssumption
    <3>2. DOMAIN sig = 1..Len(sig) /\ Len(sig) \in Nat
      BY <3>1
    <3>3. IsFiniteSet(1..Len(sig))
      BY <3>2, FS_Interval
    <3> QED
      BY <3>2, <3>3
  <2>2. IsFiniteSet(marks)
    <3>1. marks \subseteq DOMAIN sig
      OBVIOUS
    <3> QED
      BY <2>1, <3>1, FS_Subset
  <2>3. Cardinality(marks) \in Nat
    BY <2>2, FS_CardinalityType
  <2> HIDE DEF marks
  <2> QED
    BY <2>3, RegistryAssumption
<1>3. /\ s.n = n /\ s.type = [k \in 0..n |-> IF k = n /\ long THEN NULL ELSE Known(sig[k + 1][1])]
      /\ s.flag = [k \in 0..(n - 1) |-> sig[k + 1][2]]
  BY <1>1 DEF __haplo_func_signature
<1> HIDE DEF n, long
<1>4. \A k \in 0..n : s.type[k] = NULL \/ s.type[k] \in ObjectTypes
  BY <1>3 DEF Known
<1> QED
  BY <1>2, <1>3, <1>4

\* The types of a function are those of its signature.
LEMMA ArgsAre ==
  ASSUME NEW s \in Signed, NEW f, f.args = s.type
  PROVE  Args(f) = TypesOf(s)
<1>1. s.n \in Nat /\ DOMAIN s.type = 0..s.n
  BY SignedIs
<1>2. Cardinality(DOMAIN f.args) - 1 = s.n
  <2>1. Cardinality(0..s.n) = IF 0 > s.n THEN 0 ELSE s.n - 0 + 1
    BY <1>1, FS_Interval
  <2> QED
    BY <1>1, <2>1
<1> QED
  BY <1>2 DEF Args, TypesOf

-----------------------------------------------------------------------------
(* The registry: a function more, in the chains *)

\* The functions keep the names and the types they have.
Kept(ns, ms) ==
  /\ Len(ns) \in Nat /\ Len(ms) \in Nat /\ Len(ns) <= Len(ms)
  /\ \A f \in 1..Len(ns) : ms[f].name = ns[f].name /\ Args(ms[f]) = Args(ns[f])

\* What follows each of the functions fs is the same.
SameNext(ns, ms, fs) == \A k \in 1..Len(fs) : ms[fs[k]].next = ns[fs[k]].next

\* A chain whose functions keep what follows them is one still.
LEMMA RunsKept ==
  ASSUME NEW ns, NEW ms, Kept(ns, ms), NEW name, NEW first, NEW fs, Runs(ns, name, first, fs),
         SameNext(ns, ms, fs)
  PROVE  Runs(ms, name, first, fs)
<1>0. \A k \in 1..Len(fs) : ms[fs[k]].next = ns[fs[k]].next
  BY DEF SameNext
<1>1. fs \in Seq(1..Len(ns)) /\ Injective(fs) /\ first = IF fs = <<>> THEN 0 ELSE fs[1]
  BY DEF Runs
<1>2. \A k \in 1..Len(fs) : ns[fs[k]].name = name
  BY DEF Runs
<1>3. \A k \in 1..(Len(fs) - 1) : ns[fs[k]].next = fs[k + 1]
  BY DEF Runs
<1>4. fs # <<>> => ns[fs[Len(fs)]].next = 0
  BY DEF Runs
<1>5. Len(fs) \in Nat /\ \A k \in 1..Len(fs) : fs[k] \in 1..Len(ns)
  BY <1>1
<1>6. fs \in Seq(1..Len(ms))
  <2>1. 1..Len(ns) \subseteq 1..Len(ms)
    BY DEF Kept
  <2> QED
    BY <1>1, <2>1, SeqMonotonic
<1>7. \A k \in 1..Len(fs) : ms[fs[k]].name = name
  BY <1>2, <1>5 DEF Kept
<1>8. ASSUME NEW k \in 1..(Len(fs) - 1) PROVE ms[fs[k]].next = fs[k + 1]
  <2>1. k \in 1..Len(fs)
    BY <1>5
  <2> QED
    BY <1>0, <1>3, <2>1
<1>9. fs # <<>> => ms[fs[Len(fs)]].next = 0
  <2>1. fs # <<>> => Len(fs) \in 1..Len(fs)
    BY <1>1
  <2> QED
    BY <1>0, <1>4, <2>1
<1> QED
  BY <1>1, <1>6, <1>7, <1>8, <1>9 DEF Runs

\* The first with some types is the same.
LEMMA FirstKept ==
  ASSUME NEW ns, NEW ms, Kept(ns, ms), NEW fs \in Seq(1..Len(ns)), NEW types, NEW f,
         FirstWith(ns, fs, types, f)
  PROVE  FirstWith(ms, fs, types, f)
<1>1. PICK k \in 1..Len(fs) : /\ fs[k] = f /\ Args(ns[f]) = types
                              /\ \A l \in 1..(k - 1) : Args(ns[fs[l]]) # types
  BY DEF FirstWith
<1>2. \A l \in 1..Len(fs) : fs[l] \in 1..Len(ns)
  OBVIOUS
<1>3. \A l \in 1..(k - 1) : l \in 1..Len(fs)
  <2>1. Len(fs) \in Nat
    OBVIOUS
  <2> QED
    BY <2>1
<1>4. Args(ms[f]) = types
  BY <1>1, <1>2 DEF Kept
<1>5. \A l \in 1..(k - 1) : Args(ms[fs[l]]) # types
  BY <1>1, <1>2, <1>3 DEF Kept
<1> QED
  BY <1>1, <1>4, <1>5 DEF FirstWith

\* The new function is put behind the one at a place of the chain of its name.
PutBehind(ns, ms, name, fs, pos, r, gs) ==
  /\ fs \in Seq(1..Len(ns)) /\ pos \in 1..Len(fs) /\ gs = Inserted(fs, pos, r)
  /\ Kept(ns, ms) /\ r = Len(ns) + 1 /\ Len(ms) = r
  /\ ms[r].name = name /\ ms[r].next = ns[fs[pos]].next /\ ms[fs[pos]].next = r
  /\ \A f \in 1..Len(ns) : f # fs[pos] => ms[f].next = ns[f].next

\* Where the functions of the chain are then.
Places(ns, ms, fs, pos, r, gs) ==
  /\ gs \in Seq(1..Len(ms)) /\ Len(gs) = Len(fs) + 1 /\ Len(fs) \in Nat /\ gs[pos + 1] = r
  /\ r \in Nat /\ pos \in Nat /\ 1 <= pos /\ pos <= Len(fs)
  /\ \A i \in 1..pos : gs[i] = fs[i]
  /\ \A i \in (pos + 1)..Len(fs) : gs[i + 1] = fs[i]
  /\ \A i \in 1..Len(fs) : fs[i] \in 1..Len(ns) /\ fs[i] # r
  /\ \A k \in 1..(Len(fs) + 1) : \/ k <= pos /\ k \in 1..Len(fs) /\ gs[k] = fs[k]
                                 \/ k = pos + 1 /\ gs[k] = r
                                 \/ k > pos + 1 /\ k - 1 \in 1..Len(fs) /\ gs[k] = fs[k - 1]

\* The places are those.
LEMMA PutPlaces ==
  ASSUME NEW ns, NEW ms, NEW name, NEW fs, NEW pos, NEW r, NEW gs, PutBehind(ns, ms, name, fs, pos, r, gs)
  PROVE  Places(ns, ms, fs, pos, r, gs)
<1>0. fs \in Seq(1..Len(ns)) /\ pos \in 1..Len(fs) /\ gs = Inserted(fs, pos, r)
  BY DEF PutBehind
<1>1. Len(ns) \in Nat /\ r = Len(ns) + 1 /\ Len(ms) = r
  BY DEF PutBehind, Kept
<1>2. 1..Len(ns) \subseteq 1..Len(ms) /\ r \in 1..Len(ms)
  BY <1>1
<1>3. fs \in Seq(1..Len(ms))
  BY <1>0, <1>2, SeqMonotonic
<1>4. gs \in Seq(1..Len(ms)) /\ Placed(gs, fs, pos, r)
  BY <1>0, <1>2, <1>3, InsertedIs
<1>5. Len(fs) \in Nat /\ \A i \in 1..Len(fs) : fs[i] \in 1..Len(ns)
  BY <1>0
<1>6. \A f \in 1..Len(ns) : f # r
  BY <1>1
<1>7. Len(gs) = Len(fs) + 1 /\ gs[pos + 1] = r
  BY <1>4 DEF Placed
<1>8. \A i \in 1..pos : gs[i] = fs[i]
  BY <1>4 DEF Placed
<1>9. \A i \in (pos + 1)..Len(fs) : gs[i + 1] = fs[i]
  BY <1>4 DEF Placed
<1>10. r \in Nat /\ pos \in Nat /\ 1 <= pos /\ pos <= Len(fs)
  BY <1>0, <1>1, <1>5
<1>11. \A i \in 1..Len(fs) : fs[i] \in 1..Len(ns) /\ fs[i] # r
  BY <1>5, <1>6
<1>12. ASSUME NEW k \in 1..(Len(fs) + 1)
       PROVE  \/ k <= pos /\ k \in 1..Len(fs) /\ gs[k] = fs[k]
              \/ k = pos + 1 /\ gs[k] = r
              \/ k > pos + 1 /\ k - 1 \in 1..Len(fs) /\ gs[k] = fs[k - 1]
  <2> DEFINE m == Len(fs)
  <2>1. k \in Nat /\ 1 <= k /\ k <= m + 1 /\ 1 <= pos /\ pos <= m /\ m \in Nat /\ pos \in Nat
    BY <1>5, <1>10
  <2>2. CASE k <= pos
    <3>1. k \in 1..pos /\ k \in 1..m
      <4> HIDE DEF m
      <4> QED
        BY <2>1, <2>2
    <3> QED
      BY <1>8, <2>2, <3>1
  <2>3. CASE k = pos + 1
    BY <1>7, <2>3
  <2>4. CASE k > pos + 1
    <3>1. k - 1 \in (pos + 1)..m /\ k - 1 \in 1..m /\ (k - 1) + 1 = k
      <4> HIDE DEF m
      <4> QED
        BY <2>1, <2>4
    <3>2. gs[k] = fs[k - 1]
      BY <1>9, <3>1
    <3> QED
      BY <2>4, <3>1, <3>2
  <2> QED
    BY <2>1, <2>2, <2>3, <2>4
<1> QED
  BY <1>4, <1>5, <1>7, <1>8, <1>9, <1>10, <1>11, <1>12 DEF Places

\* The chain goes through the new function.
LEMMA RunsPut ==
  ASSUME NEW ns, NEW ms, NEW name, NEW first, NEW fs, Runs(ns, name, first, fs), NEW pos, NEW r, NEW gs,
         PutBehind(ns, ms, name, fs, pos, r, gs)
  PROVE  Runs(ms, name, first, gs)
<1> DEFINE m == Len(fs)
<1>1. fs \in Seq(1..Len(ns)) /\ Injective(fs) /\ first = IF fs = <<>> THEN 0 ELSE fs[1]
  BY DEF Runs
<1>2. \A k \in 1..m : ns[fs[k]].name = name
  BY DEF Runs
<1>3. \A k \in 1..(m - 1) : ns[fs[k]].next = fs[k + 1]
  BY DEF Runs
<1>4. fs # <<>> => ns[fs[m]].next = 0
  BY DEF Runs
<1>5. /\ gs \in Seq(1..Len(ms)) /\ Len(gs) = m + 1 /\ m \in Nat /\ gs[pos + 1] = r
      /\ r \in Nat /\ pos \in Nat /\ 1 <= pos /\ pos <= m
      /\ \A i \in 1..pos : gs[i] = fs[i]
      /\ \A i \in (pos + 1)..m : gs[i + 1] = fs[i]
      /\ \A i \in 1..m : fs[i] \in 1..Len(ns) /\ fs[i] # r
  <2>1. Places(ns, ms, fs, pos, r, gs)
    BY PutPlaces
  <2> QED
    BY <2>1 DEF Places
<1>6. \A k \in 1..(m + 1) :
        \/ k <= pos /\ k \in 1..m /\ gs[k] = fs[k]
        \/ k = pos + 1 /\ gs[k] = r
        \/ k > pos + 1 /\ k - 1 \in 1..m /\ gs[k] = fs[k - 1]
  <2>1. Places(ns, ms, fs, pos, r, gs)
    BY PutPlaces
  <2> QED
    BY <2>1 DEF Places
<1>7. fs # <<>>
  BY <1>1, <1>5
<1>8. \A i, j \in 1..m : fs[i] = fs[j] => i = j
  BY <1>1 DEF Injective
<1>9. /\ ms[r].name = name /\ ms[r].next = ns[fs[pos]].next /\ ms[fs[pos]].next = r
      /\ \A f \in 1..Len(ns) : f # fs[pos] => ms[f].next = ns[f].next
      /\ \A f \in 1..Len(ns) : ms[f].name = ns[f].name
  BY DEF PutBehind, Kept
<1> HIDE DEF m
<1>10. Injective(gs)
  <2> SUFFICES ASSUME NEW j \in 1..(m + 1), NEW k \in 1..(m + 1), gs[j] = gs[k] PROVE j = k
    BY <1>5 DEF Injective
  <2>1. CASE gs[j] = r
    <3>1. j = pos + 1
      BY <1>5, <1>6, <2>1
    <3>2. k = pos + 1
      BY <1>5, <1>6, <2>1
    <3> QED
      BY <3>1, <3>2
  <2>2. CASE gs[j] # r
    <3>1. (j <= pos /\ j \in 1..m /\ gs[j] = fs[j]) \/ (j > pos + 1 /\ j - 1 \in 1..m /\ gs[j] = fs[j - 1])
      BY <1>6, <2>2
    <3>2. (k <= pos /\ k \in 1..m /\ gs[k] = fs[k]) \/ (k > pos + 1 /\ k - 1 \in 1..m /\ gs[k] = fs[k - 1])
      BY <1>6, <2>2
    <3>3. j \in Nat /\ k \in Nat /\ pos \in Nat
      BY <1>5
    <3>4. CASE j <= pos /\ k <= pos
      <4>1. gs[j] = fs[j] /\ gs[k] = fs[k] /\ j \in 1..m /\ k \in 1..m
        BY <3>1, <3>2, <3>3, <3>4
      <4> QED
        BY <1>8, <4>1
    <3>5. CASE j <= pos /\ k > pos + 1
      <4>1. gs[j] = fs[j] /\ gs[k] = fs[k - 1] /\ j \in 1..m /\ k - 1 \in 1..m
        BY <3>1, <3>2, <3>3, <3>5
      <4>2. j = k - 1
        BY <1>8, <4>1
      <4> QED
        BY <3>3, <3>5, <4>2
    <3>6. CASE j > pos + 1 /\ k <= pos
      <4>1. gs[j] = fs[j - 1] /\ gs[k] = fs[k] /\ j - 1 \in 1..m /\ k \in 1..m
        BY <3>1, <3>2, <3>3, <3>6
      <4>2. j - 1 = k
        BY <1>8, <4>1
      <4> QED
        BY <3>3, <3>6, <4>2
    <3>7. CASE j > pos + 1 /\ k > pos + 1
      <4>1. gs[j] = fs[j - 1] /\ gs[k] = fs[k - 1] /\ j - 1 \in 1..m /\ k - 1 \in 1..m
        BY <3>1, <3>2, <3>3, <3>7
      <4>2. j - 1 = k - 1
        BY <1>8, <4>1
      <4> QED
        BY <3>3, <4>2
    <3> QED
      BY <3>1, <3>2, <3>4, <3>5, <3>6, <3>7
  <2> QED
    BY <2>1, <2>2
<1>11. ASSUME NEW k \in 1..(m + 1) PROVE ms[gs[k]].name = name
  <2>1. gs[k] = r \/ \E i \in 1..m : gs[k] = fs[i]
    BY <1>6
  <2>2. ASSUME NEW i \in 1..m PROVE ms[fs[i]].name = name
    <3>1. fs[i] \in 1..Len(ns) /\ ns[fs[i]].name = name
      BY <1>2, <1>5 DEF m
    <3> QED
      BY <1>9, <3>1
  <2> QED
    BY <1>9, <2>1, <2>2
<1>12. first = IF gs = <<>> THEN 0 ELSE gs[1]
  <2>1. gs # <<>>
    BY <1>5
  <2>2. 1 \in 1..pos
    BY <1>5
  <2>3. gs[1] = fs[1]
    BY <1>5, <2>2
  <2> QED
    BY <1>1, <1>7, <2>1, <2>3
<1>13. ASSUME NEW k \in 1..m PROVE ms[gs[k]].next = gs[k + 1]
  <2>0. k \in Nat /\ m \in Nat /\ pos \in Nat /\ 1 <= pos /\ pos <= m
    BY <1>5
  <2>1. CASE k < pos
    <3>1. k \in 1..pos /\ k + 1 \in 1..pos /\ k \in 1..(m - 1) /\ pos \in 1..m /\ k # pos
      BY <2>0, <2>1
    <3>2. gs[k] = fs[k] /\ gs[k + 1] = fs[k + 1]
      BY <1>5, <3>1
    <3>3. fs[k] \in 1..Len(ns) /\ fs[k] # fs[pos] /\ ns[fs[k]].next = fs[k + 1]
      BY <1>3, <1>5, <1>8, <3>1 DEF m
    <3> QED
      BY <1>9, <3>2, <3>3
  <2>2. CASE k = pos
    <3>1. pos \in 1..pos
      BY <2>0
    <3> QED
      BY <1>5, <1>9, <2>2, <3>1
  <2>3. CASE k = pos + 1
    <3>1. k \in (pos + 1)..m /\ pos \in 1..(m - 1)
      BY <2>0, <2>3
    <3>2. gs[k] = r /\ gs[k + 1] = fs[pos + 1]
      BY <1>5, <2>3, <3>1
    <3>3. ns[fs[pos]].next = fs[pos + 1]
      BY <1>3, <3>1 DEF m
    <3> QED
      BY <1>9, <3>2, <3>3
  <2>4. CASE k > pos + 1
    <3> DEFINE j == k - 1
    <3>1. j \in (pos + 1)..m /\ k \in (pos + 1)..m /\ j + 1 = k /\ j \in 1..(m - 1) /\ j \in 1..m /\ j # pos
          /\ pos \in 1..m
      BY <2>0, <2>4
    <3> HIDE DEF j
    <3>2. gs[k] = fs[j] /\ gs[k + 1] = fs[k]
      BY <1>5, <3>1
    <3>3. ns[fs[j]].next = fs[k]
      BY <1>3, <3>1 DEF m
    <3>4. fs[j] \in 1..Len(ns) /\ fs[j] # fs[pos]
      BY <1>5, <1>8, <3>1
    <3> QED
      BY <1>9, <3>2, <3>3, <3>4
  <2> QED
    BY <2>0, <2>1, <2>2, <2>3, <2>4
<1>14. ms[gs[m + 1]].next = 0
  <2>0. ns[fs[m]].next = 0
    BY <1>4, <1>7 DEF m
  <2>1. CASE pos = m
    BY <1>5, <1>9, <2>0, <2>1
  <2>2. CASE pos # m
    <3>1. m \in (pos + 1)..m /\ m \in 1..m /\ pos \in 1..m /\ m # pos
      BY <1>5, <2>2
    <3>2. gs[m + 1] = fs[m] /\ fs[m] \in 1..Len(ns) /\ fs[m] # fs[pos]
      BY <1>5, <1>8, <3>1
    <3> QED
      BY <1>9, <2>0, <3>2
  <2> QED
    BY <2>1, <2>2
<1>15. Runs(ms, name, first, gs)
  <2>1. gs \in Seq(1..Len(ms)) /\ Len(gs) = m + 1 /\ m + 1 - 1 = m
    BY <1>5
  <2>2. \A k \in 1..Len(gs) : ms[gs[k]].name = name
    BY <1>11, <2>1
  <2>3. \A k \in 1..(Len(gs) - 1) : ms[gs[k]].next = gs[k + 1]
    <3>1. Len(gs) - 1 = m
      BY <1>5
    <3> QED
      BY <1>13, <3>1
  <2>4. gs # <<>> => ms[gs[Len(gs)]].next = 0
    BY <1>14, <2>1
  <2> QED
    BY <1>10, <1>12, <2>1, <2>2, <2>3, <2>4 DEF Runs
<1> QED
  BY <1>15

\* The first function with other types is the same.
LEMMA OtherFirst ==
  ASSUME NEW ns, NEW ms, NEW name, NEW fs, NEW pos, NEW r, NEW gs,
         PutBehind(ns, ms, name, fs, pos, r, gs),
         NEW types, NEW f, FirstWith(ns, fs, types, f), Args(ms[r]) # types
  PROVE  FirstWith(ms, gs, types, f)
<1> DEFINE m == Len(fs)
<1>1. /\ gs \in Seq(1..Len(ms)) /\ Len(gs) = m + 1 /\ m \in Nat /\ gs[pos + 1] = r
      /\ r \in Nat /\ pos \in Nat
      /\ \A i \in 1..pos : gs[i] = fs[i]
      /\ \A i \in (pos + 1)..m : gs[i + 1] = fs[i]
      /\ \A i \in 1..m : fs[i] \in 1..Len(ns) /\ fs[i] # r
  <2>1. Places(ns, ms, fs, pos, r, gs)
    BY PutPlaces
  <2> QED
    BY <2>1 DEF Places
<1>2. \A k \in 1..(m + 1) :
        \/ k <= pos /\ k \in 1..m /\ gs[k] = fs[k]
        \/ k = pos + 1 /\ gs[k] = r
        \/ k > pos + 1 /\ k - 1 \in 1..m /\ gs[k] = fs[k - 1]
  <2>1. Places(ns, ms, fs, pos, r, gs)
    BY PutPlaces
  <2> QED
    BY <2>1 DEF Places
<1>3. FirstWith(ms, fs, types, f)
  <2>1. Kept(ns, ms) /\ fs \in Seq(1..Len(ns))
    BY DEF PutBehind
  <2> QED
    BY <2>1, FirstKept
<1>4. PICK k \in 1..m : /\ fs[k] = f /\ Args(ms[f]) = types
                        /\ \A l \in 1..(k - 1) : Args(ms[fs[l]]) # types
  BY <1>3 DEF FirstWith
<1> HIDE DEF m
<1>5. ASSUME NEW j \in 1..(m + 1), gs[j] = f, j = k \/ j = k + 1,
             \A l \in 1..(j - 1) : gs[l] = r \/ \E i \in 1..(k - 1) : gs[l] = fs[i]
      PROVE  FirstWith(ms, gs, types, f)
  <2>1. \A l \in 1..(j - 1) : Args(ms[gs[l]]) # types
    BY <1>4, <1>5
  <2> QED
    BY <1>1, <1>4, <1>5, <2>1 DEF FirstWith
<1>6. CASE k <= pos
  <2>1. k \in 1..pos /\ k \in 1..(m + 1) /\ k \in Nat
    BY <1>1, <1>6
  <2>2. gs[k] = f
    BY <1>1, <1>4, <2>1
  <2>3. ASSUME NEW l \in 1..(k - 1) PROVE gs[l] = fs[l]
    <3>1. l \in 1..pos
      BY <1>1, <1>6, <2>1
    <3> QED
      BY <1>1, <3>1
  <2> QED
    BY <1>5, <2>1, <2>2, <2>3
<1>7. CASE k > pos
  <2>1. k \in (pos + 1)..m /\ k + 1 \in 1..(m + 1) /\ k + 1 - 1 = k /\ k \in Nat
    BY <1>1, <1>7
  <2>2. gs[k + 1] = f
    BY <1>1, <1>4, <2>1
  <2>3. ASSUME NEW l \in 1..k PROVE gs[l] = r \/ \E i \in 1..(k - 1) : gs[l] = fs[i]
    <3>1. l \in 1..(m + 1)
      BY <1>1, <2>1
    <3>2. CASE l <= pos
      <4>1. l \in 1..(k - 1) /\ l # pos + 1 /\ ~ (l > pos + 1)
        BY <1>1, <1>7, <2>1, <3>2
      <4> QED
        BY <1>2, <3>1, <4>1
    <3>3. CASE l = pos + 1
      BY <1>1, <3>3
    <3>4. CASE l > pos + 1
      <4>1. l - 1 \in 1..(k - 1) /\ l # pos + 1 /\ ~ (l <= pos)
        BY <1>1, <2>1, <3>4
      <4> QED
        BY <1>2, <3>1, <4>1
    <3> QED
      BY <1>1, <3>2, <3>3, <3>4
  <2> QED
    BY <1>5, <2>1, <2>2, <2>3
<1>8. k > pos \/ k <= pos
  BY <1>1
<1> QED
  BY <1>6, <1>7, <1>8

\* The first functions with other types than the new one are the same.
OthersStay(ns, ms, fs, gs, r) ==
  \A types, f : FirstWith(ns, fs, types, f) /\ Args(ms[r]) # types => FirstWith(ms, gs, types, f)

\* So are all of them.
LEMMA OthersFirst ==
  ASSUME NEW ns, NEW ms, NEW name, NEW fs, NEW pos, NEW r, NEW gs,
         PutBehind(ns, ms, name, fs, pos, r, gs)
  PROVE  OthersStay(ns, ms, fs, gs, r)
<1> SUFFICES ASSUME NEW types, NEW f, FirstWith(ns, fs, types, f), Args(ms[r]) # types
             PROVE  FirstWith(ms, gs, types, f)
  BY DEF OthersStay
<1> QED
  BY OtherFirst

\* None of the first functions has these types.
NoneBefore(ns, fs, pos, types) == \A l \in 1..pos : Args(ns[fs[l]]) # types

\* The new function is the first with its types.
LEMMA NewFirst ==
  ASSUME NEW ns, NEW ms, NEW name, NEW fs, NEW pos, NEW r, NEW gs,
         PutBehind(ns, ms, name, fs, pos, r, gs),
         NoneBefore(ns, fs, pos, Args(ms[r]))
  PROVE  FirstWith(ms, gs, Args(ms[r]), r)
<1> DEFINE m == Len(fs)
           types == Args(ms[r])
<1>1. /\ gs \in Seq(1..Len(ms)) /\ Len(gs) = m + 1 /\ m \in Nat /\ gs[pos + 1] = r
      /\ r \in Nat /\ pos \in Nat /\ 1 <= pos /\ pos <= m
      /\ \A i \in 1..pos : gs[i] = fs[i]
      /\ \A i \in 1..m : fs[i] \in 1..Len(ns) /\ fs[i] # r
  <2>1. Places(ns, ms, fs, pos, r, gs)
    BY PutPlaces
  <2> QED
    BY <2>1 DEF Places
<1> HIDE DEF m, types
<1>2. pos + 1 \in 1..Len(gs) /\ pos + 1 - 1 = pos
  BY <1>1
<1>3. ASSUME NEW l \in 1..pos PROVE Args(ms[gs[l]]) # types
  <2>1. l \in 1..m /\ gs[l] = fs[l] /\ fs[l] \in 1..Len(ns)
    BY <1>1
  <2>2. Args(ms[fs[l]]) = Args(ns[fs[l]])
    BY <2>1 DEF PutBehind, Kept
  <2> QED
    BY <2>1, <2>2 DEF types, NoneBefore
<1>4. FirstWith(ms, gs, types, r)
  <2>1. Args(ms[r]) = types
    BY DEF types
  <2> DEFINE q == pos + 1
  <2>2. q \in 1..Len(gs) /\ gs[q] = r /\ \A l \in 1..(q - 1) : Args(ms[gs[l]]) # types
    BY <1>1, <1>2, <1>3
  <2> HIDE DEF q
  <2> QED
    BY <2>1, <2>2 DEF FirstWith
<1> QED
  BY <1>4 DEF types

\* The chains of the names, ch.
ChainsRight(ns, hash, ch) ==
  /\ ns \in Seq(Node) /\ hash \in [FunctionNames -> Nat]
  /\ ch \in [FunctionNames -> Seq(1..Len(ns))]
  /\ \A name \in FunctionNames : Runs(ns, name, hash[name], ch[name])

\* The last function registered for a name and types is the first of the chain with these
\* types, and none is there that was not registered, as long as the first one of the name
\* was not registered again; the last function of the name always is.
LatestRight(ns, ch, lt, ag) ==
  /\ \A x \in DOMAIN lt : x = <<x[1], x[2]>> /\ x[1] \in FunctionNames /\ lt[x] \in 1..Len(ns)
  /\ \A x \in DOMAIN lt : x[1] \notin ag => FirstWith(ns, ch[x[1]], x[2], lt[x])
  /\ \A name \in FunctionNames \ ag :
       \A k \in 1..Len(ch[name]) : <<name, Args(ns[ch[name][k]])>> \in DOMAIN lt
  /\ \A x \in DOMAIN lt :
       (\A z \in DOMAIN lt : z[1] = x[1] => lt[z] <= lt[x]) => FirstWith(ns, ch[x[1]], x[2], lt[x])

\* Leaves have the first function of their name.
LeavesRight(hash, ag, ls) ==
  \A leaf \in ls :
    leaf.name \in FunctionNames \ ag => leaf.func = hash[leaf.name] /\ leaf.func # 0

\* A function more, with its types, in the chain of a name.
More(ns, ms, ch, ch2, ag, ag2, name, types, r) ==
  /\ Kept(ns, ms) /\ r = Len(ns) + 1 /\ Len(ms) = r /\ Args(ms[r]) = types
  /\ \A m \in FunctionNames : ch[m] \in Seq(1..Len(ns))
  /\ \A m \in FunctionNames : m # name => ch2[m] = ch[m] /\ (m \in ag2 <=> m \in ag)
  /\ ag \subseteq ag2
  /\ FirstWith(ms, ch2[name], types, r)
  /\ name \notin ag2 =>
       /\ \A k \in 1..Len(ch2[name]) :
            ch2[name][k] = r \/ \E j \in 1..Len(ch[name]) : ch2[name][k] = ch[name][j]
       /\ \A t, f : t # types /\ FirstWith(ns, ch[name], t, f) => FirstWith(ms, ch2[name], t, f)

\* What func_register_sig makes of "latest".
Registered(lt, name, types, r) ==
  [x \in DOMAIN lt \cup {<<name, types>>} |-> IF x = <<name, types>> THEN r ELSE lt[x]]

\* It is the last one of its name and types; nothing else changes.
LEMMA LatestMore ==
  ASSUME NEW ns, NEW ms, NEW ch, NEW ch2, NEW lt, NEW ag, NEW ag2, NEW name \in FunctionNames,
         NEW types, NEW r, LatestRight(ns, ch, lt, ag),
         More(ns, ms, ch, ch2, ag, ag2, name, types, r)
  PROVE  LatestRight(ms, ch2, Registered(lt, name, types, r), ag2)
<1> DEFINE x0 == <<name, types>>
           D == DOMAIN lt \cup {x0}
           lt2 == [x \in D |-> IF x = x0 THEN r ELSE lt[x]]
<1>0. Kept(ns, ms) /\ r = Len(ns) + 1 /\ Len(ms) = r /\ Args(ms[r]) = types
  BY DEF More
<1>1. Len(ns) \in Nat /\ r \in Nat /\ r \in 1..Len(ms) /\ Len(ns) < r /\ \A f \in 1..Len(ns) : f \in 1..Len(ms)
  BY <1>0 DEF Kept
<1>2. x0[1] = name /\ x0[2] = types /\ x0 = <<x0[1], x0[2]>>
  OBVIOUS
<1>3. \A m \in FunctionNames : ch[m] \in Seq(1..Len(ns))
  BY DEF More
<1>4. \A m \in FunctionNames : m # name => ch2[m] = ch[m] /\ (m \in ag2 <=> m \in ag)
  BY DEF More
<1>5. ag \subseteq ag2 /\ FirstWith(ms, ch2[name], types, r)
  BY DEF More
<1>6. \A x \in DOMAIN lt : x = <<x[1], x[2]>> /\ x[1] \in FunctionNames /\ lt[x] \in 1..Len(ns)
  BY DEF LatestRight
<1>7. DOMAIN lt2 = D /\ lt2[x0] = r /\ \A x \in D : x # x0 => x \in DOMAIN lt /\ lt2[x] = lt[x]
  OBVIOUS
<1> HIDE DEF x0, lt2
<1>8. ASSUME NEW x \in D, x # x0, x[1] = name PROVE x[2] # types
  <2>1. x = <<x[1], x[2]>>
    BY <1>6, <1>7, <1>8
  <2> QED
    BY <1>8, <2>1 DEF x0
<1>9. ASSUME NEW x \in D
      PROVE  x = <<x[1], x[2]>> /\ x[1] \in FunctionNames /\ lt2[x] \in 1..Len(ms)
  <2>1. CASE x = x0
    BY <1>1, <1>2, <1>7, <2>1
  <2>2. CASE x # x0
    BY <1>1, <1>6, <1>7, <2>2
  <2> QED
    BY <2>1, <2>2
<1>10. ASSUME NEW x \in D, x[1] \notin ag2
       PROVE  FirstWith(ms, ch2[x[1]], x[2], lt2[x])
  <2>1. CASE x = x0
    BY <1>2, <1>5, <1>7, <2>1
  <2>2. CASE x # x0
    <3>1. x \in DOMAIN lt /\ lt2[x] = lt[x] /\ x[1] \in FunctionNames /\ x[1] \notin ag
      BY <1>5, <1>6, <1>7, <1>10, <2>2
    <3>2. FirstWith(ns, ch[x[1]], x[2], lt[x])
      BY <3>1 DEF LatestRight
    <3>3. CASE x[1] = name
      <4>1. x[2] # types
        BY <1>8, <2>2, <3>3
      <4>2. \A t, f : t # types /\ FirstWith(ns, ch[name], t, f) => FirstWith(ms, ch2[name], t, f)
        BY <1>10, <3>3 DEF More
      <4> QED
        BY <3>1, <3>2, <3>3, <4>1, <4>2
    <3>4. CASE x[1] # name
      <4>1. ch2[x[1]] = ch[x[1]] /\ ch[x[1]] \in Seq(1..Len(ns))
        BY <1>3, <1>4, <3>1, <3>4
      <4>2. FirstWith(ms, ch[x[1]], x[2], lt[x])
        BY <1>0, <3>2, <4>1, FirstKept
      <4> QED
        BY <3>1, <4>1, <4>2
    <3> QED
      BY <3>3, <3>4
  <2> QED
    BY <2>1, <2>2
<1>11. ASSUME NEW m \in FunctionNames \ ag2, NEW k \in 1..Len(ch2[m])
       PROVE  <<m, Args(ms[ch2[m][k]])>> \in D
  <2>1. m \in FunctionNames \ ag
    BY <1>5
  <2>2. \A j \in 1..Len(ch[m]) : <<m, Args(ns[ch[m][j]])>> \in DOMAIN lt
    BY <2>1 DEF LatestRight
  <2>3. \A j \in 1..Len(ch[m]) : ch[m][j] \in 1..Len(ns)
    BY <1>3
  <2>4. \A j \in 1..Len(ch[m]) : Args(ms[ch[m][j]]) = Args(ns[ch[m][j]])
    BY <1>0, <2>3 DEF Kept
  <2>5. CASE m = name
    <3>1. ch2[name][k] = r \/ \E j \in 1..Len(ch[name]) : ch2[name][k] = ch[name][j]
      BY <2>5 DEF More
    <3>2. CASE ch2[name][k] = r
      BY <1>0, <2>5, <3>2 DEF x0
    <3>3. CASE \E j \in 1..Len(ch[name]) : ch2[name][k] = ch[name][j]
      BY <2>2, <2>4, <2>5, <3>3
    <3> QED
      BY <3>1, <3>2, <3>3
  <2>6. CASE m # name
    BY <1>4, <2>2, <2>4, <2>6
  <2> QED
    BY <2>5, <2>6
<1>12. ASSUME NEW x \in D, \A z \in D : z[1] = x[1] => lt2[z] <= lt2[x]
       PROVE  FirstWith(ms, ch2[x[1]], x[2], lt2[x])
  <2>1. CASE x[1] = name
    <3>1. r <= lt2[x]
      BY <1>2, <1>7, <1>12, <2>1
    <3>2. x = x0
      <4>1. ASSUME x # x0 PROVE FALSE
        <5>1. lt2[x] \in 1..Len(ns)
          BY <1>6, <1>7, <4>1
        <5> QED
          BY <1>1, <3>1, <5>1
      <4> QED
        BY <4>1
    <3> QED
      BY <1>2, <1>5, <1>7, <3>2
  <2>2. CASE x[1] # name
    <3>1. x # x0 /\ x \in DOMAIN lt /\ lt2[x] = lt[x] /\ x[1] \in FunctionNames
      BY <1>2, <1>6, <1>7, <2>2
    <3>2. ASSUME NEW z \in DOMAIN lt, z[1] = x[1] PROVE lt[z] <= lt[x]
      <4>1. z \in D /\ z # x0
        BY <1>2, <2>2, <3>2
      <4> QED
        BY <1>7, <1>12, <3>1, <3>2, <4>1
    <3>3. FirstWith(ns, ch[x[1]], x[2], lt[x])
      BY <3>1, <3>2 DEF LatestRight
    <3>4. ch2[x[1]] = ch[x[1]] /\ ch[x[1]] \in Seq(1..Len(ns))
      BY <1>3, <1>4, <2>2, <3>1
    <3>5. FirstWith(ms, ch[x[1]], x[2], lt[x])
      BY <1>0, <3>3, <3>4, FirstKept
    <3> QED
      BY <3>1, <3>4, <3>5
  <2> QED
    BY <2>1, <2>2
<1>13. LatestRight(ms, ch2, lt2, ag2)
  BY <1>7, <1>9, <1>10, <1>11, <1>12 DEF LatestRight
<1> QED
  BY <1>13 DEF lt2, x0, Registered

-----------------------------------------------------------------------------
(* The registry: what func_register writes *)

\* ms is ns with the function s of a name more.
Grown(ns, ms, name, s) ==
  /\ ns \in Seq(Node) /\ ms \in Seq(Node) /\ Len(ms) = Len(ns) + 1
  /\ \A f \in 1..Len(ns) : ms[f].name = ns[f].name /\ ms[f].args = ns[f].args /\ ms[f].flags = ns[f].flags
  /\ ms[Len(ns) + 1].name = name /\ ms[Len(ns) + 1].args = s.type /\ ms[Len(ns) + 1].flags = s.flag

\* The function at the end.
LEMMA AtEnd ==
  ASSUME NEW ns \in Seq(Node), NEW name, NEW s, NEW new \in Node,
         new.name = name, new.args = s.type, new.flags = s.flag
  PROVE  /\ Grown(ns, Append(ns, new), name, s)
         /\ Append(ns, new)[Len(ns) + 1] = new
         /\ \A f \in 1..Len(ns) : Append(ns, new)[f] = ns[f]
<1> DEFINE ms == Append(ns, new)
<1>1. /\ ms \in Seq(Node) /\ Len(ms) = Len(ns) + 1 /\ ms[Len(ns) + 1] = new
      /\ \A f \in 1..Len(ns) : ms[f] = ns[f]
  OBVIOUS
<1> HIDE DEF ms
<1>2. Grown(ns, ms, name, s)
  BY <1>1 DEF Grown
<1> QED
  BY <1>1, <1>2 DEF ms

\* What follows a function is written.
LEMMA NextWritten ==
  ASSUME NEW ns, NEW ms, NEW name, NEW s, Grown(ns, ms, name, s), NEW f \in 1..Len(ns), NEW r \in Nat
  PROVE  /\ Grown(ns, [ms EXCEPT ![f].next = r], name, s)
         /\ [ms EXCEPT ![f].next = r][f].next = r
         /\ \A g \in 1..Len(ms) : g # f => [ms EXCEPT ![f].next = r][g] = ms[g]
<1> DEFINE ws == [ms EXCEPT ![f].next = r]
<1>1. ns \in Seq(Node) /\ ms \in Seq(Node) /\ Len(ms) = Len(ns) + 1 /\ Len(ns) \in Nat
  BY DEF Grown
<1>2. f \in 1..Len(ms) /\ f # Len(ns) + 1 /\ Len(ns) + 1 \in 1..Len(ms)
  BY <1>1
<1>3. ms[f] \in Node
  BY <1>1, <1>2
<1>4. [ms[f] EXCEPT !.next = r] \in Node /\ [ms[f] EXCEPT !.next = r].next = r
      /\ [ms[f] EXCEPT !.next = r].name = ms[f].name /\ [ms[f] EXCEPT !.next = r].args = ms[f].args
      /\ [ms[f] EXCEPT !.next = r].flags = ms[f].flags
  BY <1>3 DEF Node
<1>5. ws = [ms EXCEPT ![f] = [ms[f] EXCEPT !.next = r]]
  OBVIOUS
<1>6. /\ ws \in Seq(Node) /\ Len(ws) = Len(ms)
      /\ \A g \in 1..Len(ms) : ws[g] = IF g = f THEN [ms[f] EXCEPT !.next = r] ELSE ms[g]
  BY <1>1, <1>2, <1>4, <1>5, ExceptSeq
<1> HIDE DEF ws
<1>7. ws[f].next = r /\ ws[f].name = ms[f].name /\ ws[f].args = ms[f].args /\ ws[f].flags = ms[f].flags
  BY <1>2, <1>4, <1>6
<1>8. \A g \in 1..Len(ms) : g # f => ws[g] = ms[g]
  BY <1>6
<1>9. \A g \in 1..Len(ns) : g \in 1..Len(ms)
  BY <1>1
<1>10. \A g \in 1..Len(ns) : ws[g].name = ns[g].name /\ ws[g].args = ns[g].args /\ ws[g].flags = ns[g].flags
  BY <1>7, <1>8, <1>9 DEF Grown
<1>11. Grown(ns, ws, name, s)
  <2>1. ws[Len(ns) + 1] = ms[Len(ns) + 1]
    BY <1>2, <1>8
  <2> QED
    BY <1>1, <1>6, <1>10, <2>1 DEF Grown
<1> QED
  BY <1>7, <1>8, <1>11 DEF ws

\* The functions that were there keep their names and types; the new one has those of s.
LEMMA GrownKept ==
  ASSUME NEW ns, NEW ms, NEW name, NEW s \in Signed, Grown(ns, ms, name, s)
  PROVE  Kept(ns, ms) /\ Args(ms[Len(ns) + 1]) = TypesOf(s)
<1>1. Len(ns) \in Nat /\ Len(ms) \in Nat /\ Len(ns) <= Len(ms)
  BY DEF Grown
<1>2. ASSUME NEW f \in 1..Len(ns) PROVE ms[f].name = ns[f].name /\ Args(ms[f]) = Args(ns[f])
  BY DEF Grown, Args
<1>3. Args(ms[Len(ns) + 1]) = TypesOf(s)
  <2>1. ms[Len(ns) + 1].args = s.type
    BY DEF Grown
  <2> QED
    BY <2>1, ArgsAre
<1> QED
  BY <1>1, <1>2, <1>3 DEF Kept

\* What the functions may do to their arguments.
SoundIn(ns) ==
  \A f \in 1..Len(ns) : \A k \in DOMAIN ns[f].flags :
    /\ ns[f].args[k + 1] \in ObjectTypes
    /\ ns[f].flags[k] \in OUT => ns[f].args[k + 1] \in Copyable
    /\ ns[f].flags[k] \in PROTECT => ns[f].args[0] # NULL

\* A function that func_check accepts is sound.
LEMMA GrownSound ==
  ASSUME NEW ns, NEW ms, NEW name, NEW s \in Signed, Grown(ns, ms, name, s), func_check(s), SoundIn(ns)
  PROVE  SoundIn(ms)
<1>1. s.n \in Nat /\ DOMAIN s.flag = 0..(s.n - 1) /\ \A k \in 0..s.n : s.type[k] = NULL \/ s.type[k] \in ObjectTypes
  BY SignedIs
<1>2. Len(ns) \in Nat /\ Len(ms) = Len(ns) + 1
  BY DEF Grown
<1>3. ASSUME NEW f \in 1..Len(ms), NEW k \in DOMAIN ms[f].flags
      PROVE  /\ ms[f].args[k + 1] \in ObjectTypes
             /\ ms[f].flags[k] \in OUT => ms[f].args[k + 1] \in Copyable
             /\ ms[f].flags[k] \in PROTECT => ms[f].args[0] # NULL
  <2>1. CASE f \in 1..Len(ns)
    <3>1. ms[f].args = ns[f].args /\ ms[f].flags = ns[f].flags
      BY <2>1 DEF Grown
    <3> QED
      BY <2>1, <3>1 DEF SoundIn
  <2>2. CASE f = Len(ns) + 1
    <3>1. ms[f].args = s.type /\ ms[f].flags = s.flag
      BY <2>2 DEF Grown
    <3>2. k \in 0..(s.n - 1) /\ k + 1 \in 0..s.n
      BY <1>1, <3>1
    <3>3. /\ s.type[k + 1] # NULL /\ ~(s.type[0] = NULL /\ s.flag[k] \in PROTECT)
          /\ s.flag[k] \in OUT => s.type[k + 1] \in Copyable
      BY <3>2 DEF func_check
    <3> QED
      BY <1>1, <3>1, <3>2, <3>3
  <2> QED
    BY <1>2, <2>1, <2>2
<1> QED
  BY <1>3 DEF SoundIn

-----------------------------------------------------------------------------
(* The registry: the operations *)

\* The inductive invariant of the registry.
RegistryInv ==
  /\ \E ch : ChainsRight(nodes, func_hash, ch) /\ LatestRight(nodes, ch, latest, again)
  /\ LeavesRight(func_hash, again, leaves) /\ again \subseteq FunctionNames
  /\ SoundIn(nodes)

\* No function is registered at first.
LEMMA RegistryInitial == RegistryInit => RegistryInv
<1> SUFFICES ASSUME RegistryInit PROVE RegistryInv
  OBVIOUS
<1> DEFINE ch == [name \in FunctionNames |-> <<>>]
<1>1. nodes = <<>> /\ leaves = {} /\ latest = <<>> /\ again = {} /\ func_hash = [name \in FunctionNames |-> 0]
  BY DEF RegistryInit
<1>2. <<>> \in Seq(Node) /\ Len(nodes) = 0 /\ DOMAIN latest = {}
  <2>1. <<>> \in Seq(Node)
    OBVIOUS
  <2>2. Len(nodes) = 0
    BY <1>1
  <2>3. DOMAIN latest = {}
    <3>1. DOMAIN <<>> = {}
      OBVIOUS
    <3> QED
      BY <1>1, <3>1
  <2> QED
    BY <2>1, <2>2, <2>3
<1>3. <<>> \in Seq(1..Len(nodes)) /\ Len(<<>>) = 0
  OBVIOUS
<1>4. \A name \in FunctionNames : ch[name] = <<>>
  OBVIOUS
<1>5. ch \in [FunctionNames -> Seq(1..Len(nodes))]
  BY <1>3
<1> HIDE DEF ch
<1>6. \A name \in FunctionNames : Runs(nodes, name, func_hash[name], ch[name])
  <2> SUFFICES ASSUME NEW name \in FunctionNames PROVE Runs(nodes, name, 0, <<>>)
    BY <1>1, <1>4
  <2> QED
    BY <1>3 DEF Runs, Injective
<1>7. ChainsRight(nodes, func_hash, ch)
  BY <1>1, <1>2, <1>5, <1>6 DEF ChainsRight
<1>8. LatestRight(nodes, ch, latest, again)
  BY <1>2, <1>3, <1>4 DEF LatestRight
<1>9. LeavesRight(func_hash, again, leaves) /\ SoundIn(nodes)
  BY <1>1, <1>2 DEF LeavesRight, SoundIn
<1> QED
  BY <1>1, <1>7, <1>8, <1>9 DEF RegistryInv

\* A name whose chain is empty has no first function.
LEMMA FirstIs ==
  ASSUME NEW ns, NEW hash, NEW ch, ChainsRight(ns, hash, ch), NEW name \in FunctionNames
  PROVE  /\ Runs(ns, name, hash[name], ch[name]) /\ Linked(ns, hash[name]) = ch[name]
         /\ ch[name] \in Seq(1..Len(ns)) /\ hash[name] \in Nat
         /\ ch[name] = <<>> => hash[name] = 0
<1>1. ns \in Seq(Node) /\ Runs(ns, name, hash[name], ch[name]) /\ ch[name] \in Seq(1..Len(ns)) /\ hash[name] \in Nat
  BY DEF ChainsRight
<1>2. Len(ns) \in Nat
  BY <1>1
<1>3. Linked(ns, hash[name]) = ch[name]
  BY <1>1, <1>2, LinkedIs
<1>4. ch[name] = <<>> => hash[name] = 0
  BY <1>1 DEF Runs
<1> QED
  BY <1>1, <1>3, <1>4

\* A chain of one new function.
LEMMA FirstAlone ==
  ASSUME NEW ns, NEW ms, NEW name \in FunctionNames, NEW s \in Signed, NEW new \in Node,
         new.name = name, new.args = s.type, new.flags = s.flag, new.next = 0,
         NEW hash, NEW ch, ChainsRight(ns, hash, ch), ms = Append(ns, new),
         NEW ag, NEW ag2, ag \subseteq ag2, \A m \in FunctionNames : m # name => (m \in ag2 <=> m \in ag),
         name \notin ag2 => ch[name] = <<>>
  PROVE  /\ ChainsRight(ms, [hash EXCEPT ![name] = Len(ns) + 1], [ch EXCEPT ![name] = <<Len(ns) + 1>>])
         /\ More(ns, ms, ch, [ch EXCEPT ![name] = <<Len(ns) + 1>>], ag, ag2, name, TypesOf(s), Len(ns) + 1)
         /\ Grown(ns, ms, name, s)
<1> DEFINE r == Len(ns) + 1
           hash2 == [hash EXCEPT ![name] = r]
           ch2 == [ch EXCEPT ![name] = <<r>>]
<1>1. /\ ns \in Seq(Node) /\ hash \in [FunctionNames -> Nat]
      /\ ch \in [FunctionNames -> Seq(1..Len(ns))]
      /\ \A m \in FunctionNames : Runs(ns, m, hash[m], ch[m])
  BY DEF ChainsRight
<1>2. Grown(ns, ms, name, s) /\ ms[r] = new /\ \A f \in 1..Len(ns) : ms[f] = ns[f]
  BY <1>1, AtEnd
<1>3. Kept(ns, ms) /\ Args(ms[r]) = TypesOf(s)
  BY <1>2, GrownKept
<1>4. ms \in Seq(Node) /\ Len(ms) = r /\ Len(ns) \in Nat /\ r \in Nat /\ r \in 1..Len(ms) /\ r # 0
  BY <1>1, <1>2 DEF Grown
<1> HIDE DEF r
<1>5. <<r>> \in Seq(1..Len(ms)) /\ Len(<<r>>) = 1 /\ <<r>>[1] = r /\ <<r>> # <<>>
  BY <1>4
<1>6. Runs(ms, name, r, <<r>>)
  <2>1. Injective(<<r>>)
    BY <1>5 DEF Injective
  <2>2. \A k \in 1..1 : ms[<<r>>[k]].name = name
    BY <1>2, <1>5
  <2>3. ms[<<r>>[1]].next = 0
    BY <1>2, <1>5
  <2>4. 1..(1 - 1) = {}
    OBVIOUS
  <2> QED
    BY <1>5, <2>1, <2>2, <2>3, <2>4 DEF Runs
<1>7. /\ hash2[name] = r /\ hash2 \in [FunctionNames -> Nat]
      /\ \A m \in FunctionNames : m # name => hash2[m] = hash[m]
  BY <1>1, <1>4
<1>8. /\ ch2[name] = <<r>> /\ DOMAIN ch2 = FunctionNames
      /\ \A m \in FunctionNames : m # name => ch2[m] = ch[m]
  BY <1>1
<1>9. ch2 \in [FunctionNames -> Seq(1..Len(ms))]
  <2>1. ASSUME NEW m \in FunctionNames PROVE ch[m] \in Seq(1..Len(ms))
    <3>1. 1..Len(ns) \subseteq 1..Len(ms)
      BY <1>3 DEF Kept
    <3>2. ch[m] \in Seq(1..Len(ns))
      BY <1>1
    <3> QED
      BY <3>1, <3>2, SeqMonotonic
  <2>2. ch \in [FunctionNames -> Seq(1..Len(ms))]
    BY <1>1, <2>1
  <2> QED
    BY <1>5, <2>2
<1> HIDE DEF hash2, ch2
<1>10. ASSUME NEW m \in FunctionNames PROVE Runs(ms, m, hash2[m], ch2[m])
  <2>1. CASE m = name
    BY <1>6, <1>7, <1>8, <2>1
  <2>2. CASE m # name
    <3>1. Runs(ns, m, hash[m], ch[m]) /\ ch[m] \in Seq(1..Len(ns))
      BY <1>1
    <3>2. \A k \in 1..Len(ch[m]) : ms[ch[m][k]].next = ns[ch[m][k]].next
      <4>1. \A k \in 1..Len(ch[m]) : ch[m][k] \in 1..Len(ns)
        BY <3>1
      <4> QED
        BY <1>2, <4>1
    <3>3. Runs(ms, m, hash[m], ch[m])
      <4>1. SameNext(ns, ms, ch[m])
        BY <3>2 DEF SameNext
      <4> QED
        BY <1>3, <3>1, <4>1, RunsKept
    <3> QED
      BY <1>7, <1>8, <2>2, <3>3
  <2> QED
    BY <2>1, <2>2
<1>11. ChainsRight(ms, hash2, ch2)
  BY <1>4, <1>7, <1>9, <1>10 DEF ChainsRight
<1>12. FirstWith(ms, ch2[name], TypesOf(s), r)
  <2>1. 1 \in 1..Len(<<r>>) /\ 1..(1 - 1) = {}
    BY <1>5
  <2> QED
    BY <1>3, <1>5, <1>8, <2>1 DEF FirstWith
<1>13. ASSUME name \notin ag2
       PROVE  /\ \A k \in 1..Len(ch2[name]) :
                   ch2[name][k] = r \/ \E j \in 1..Len(ch[name]) : ch2[name][k] = ch[name][j]
              /\ \A t, f : t # TypesOf(s) /\ FirstWith(ns, ch[name], t, f) => FirstWith(ms, ch2[name], t, f)
  <2>1. \A k \in 1..Len(ch2[name]) : ch2[name][k] = r
    BY <1>5, <1>8
  <2>2. \A t, f : ~ FirstWith(ns, ch[name], t, f)
    <3>1. 1..Len(ch[name]) = {}
      BY <1>13
    <3> QED
      BY <3>1 DEF FirstWith
  <2> QED
    BY <2>1, <2>2
<1>14. More(ns, ms, ch, ch2, ag, ag2, name, TypesOf(s), r)
  BY <1>1, <1>3, <1>4, <1>8, <1>12, <1>13 DEF More, r
<1> QED
  BY <1>2, <1>11, <1>14 DEF r, hash2, ch2

\* A new function behind another of its name.
LEMMA BehindAnother ==
  ASSUME NEW ns, NEW ms, NEW name \in FunctionNames, NEW s \in Signed, NEW new \in Node,
         new.name = name, new.args = s.type, new.flags = s.flag,
         NEW hash, NEW ch, ChainsRight(ns, hash, ch), NEW pos \in 1..Len(ch[name]),
         new.next = ns[ch[name][pos]].next,
         ms = [Append(ns, new) EXCEPT ![ch[name][pos]].next = Len(ns) + 1],
         NoneBefore(ns, ch[name], pos, TypesOf(s)), NEW ag
  PROVE  /\ ChainsRight(ms, hash, [ch EXCEPT ![name] = Inserted(ch[name], pos, Len(ns) + 1)])
         /\ More(ns, ms, ch, [ch EXCEPT ![name] = Inserted(ch[name], pos, Len(ns) + 1)], ag, ag, name,
                 TypesOf(s), Len(ns) + 1)
         /\ Grown(ns, ms, name, s)
<1> DEFINE r == Len(ns) + 1
           fs == ch[name]
           gs == Inserted(fs, pos, r)
           ch2 == [ch EXCEPT ![name] = gs]
           us == Append(ns, new)
<1>1. /\ ns \in Seq(Node) /\ hash \in [FunctionNames -> Nat]
      /\ ch \in [FunctionNames -> Seq(1..Len(ns))]
      /\ \A m \in FunctionNames : Runs(ns, m, hash[m], ch[m])
  BY DEF ChainsRight
<1>2. fs \in Seq(1..Len(ns)) /\ fs[pos] \in 1..Len(ns) /\ Runs(ns, name, hash[name], fs)
  <2>1. fs \in Seq(1..Len(ns)) /\ Runs(ns, name, hash[name], fs)
    BY <1>1
  <2> HIDE DEF fs
  <2>2. pos \in 1..Len(fs)
    BY DEF fs
  <2> QED
    BY <2>1, <2>2
<1>3. Grown(ns, us, name, s) /\ us[r] = new /\ \A f \in 1..Len(ns) : us[f] = ns[f]
  BY <1>1, AtEnd
<1>4. Len(us) = r /\ Len(ns) \in Nat /\ r \in Nat /\ r \in 1..Len(us) /\ r # 0 /\ \A f \in 1..Len(ns) : f # r /\ f \in 1..Len(us)
  BY <1>1, <1>3 DEF Grown
<1>5. ms = [us EXCEPT ![fs[pos]].next = r]
  OBVIOUS
<1> HIDE DEF us, r
<1>6. /\ Grown(ns, ms, name, s) /\ ms[fs[pos]].next = r
      /\ \A g \in 1..Len(us) : g # fs[pos] => ms[g] = us[g]
  <2>1. /\ Grown(ns, [us EXCEPT ![fs[pos]].next = r], name, s)
        /\ [us EXCEPT ![fs[pos]].next = r][fs[pos]].next = r
        /\ \A g \in 1..Len(us) : g # fs[pos] => [us EXCEPT ![fs[pos]].next = r][g] = us[g]
    <3>1. fs[pos] \in 1..Len(ns) /\ r \in Nat /\ Grown(ns, us, name, s)
      BY <1>2, <1>3, <1>4
    <3> HIDE DEF fs
    <3> QED
      BY <3>1, NextWritten
  <2> QED
    BY <1>5, <2>1
<1>7. Kept(ns, ms) /\ Args(ms[r]) = TypesOf(s)
  BY <1>6, GrownKept DEF r
<1>8. ms \in Seq(Node) /\ Len(ms) = r /\ ms[r].name = name
  BY <1>6 DEF Grown, r
<1> HIDE DEF fs
<1>9. /\ ms[r].next = ns[fs[pos]].next
      /\ \A f \in 1..Len(ns) : f # fs[pos] => ms[f].next = ns[f].next
  <2>1. r # fs[pos]
    BY <1>2, <1>4
  <2>2. ms[r] = new
    BY <1>3, <1>4, <1>6, <2>1
  <2> QED
    BY <1>3, <1>4, <1>6, <2>2 DEF fs
<1>10. pos \in 1..Len(fs) /\ \A l \in 1..pos : Args(ns[fs[l]]) # TypesOf(s)
  BY DEF fs, NoneBefore
<1>11. PutBehind(ns, ms, name, fs, pos, r, gs)
  BY <1>2, <1>6, <1>7, <1>8, <1>9, <1>10 DEF PutBehind, r
<1>12. Places(ns, ms, fs, pos, r, gs)
  BY <1>11, PutPlaces
<1>13. Runs(ms, name, hash[name], gs)
  BY <1>2, <1>11, RunsPut
<1> HIDE DEF gs
<1>14. gs \in Seq(1..Len(ms)) /\ Len(gs) = Len(fs) + 1
  BY <1>12 DEF Places
<1>15. /\ ch2[name] = gs /\ DOMAIN ch2 = FunctionNames
       /\ \A m \in FunctionNames : m # name => ch2[m] = ch[m]
  BY <1>1
<1>16. ch2 \in [FunctionNames -> Seq(1..Len(ms))]
  <2>1. ASSUME NEW m \in FunctionNames PROVE ch[m] \in Seq(1..Len(ms))
    <3>1. 1..Len(ns) \subseteq 1..Len(ms)
      BY <1>7 DEF Kept
    <3>2. ch[m] \in Seq(1..Len(ns))
      BY <1>1
    <3> QED
      BY <3>1, <3>2, SeqMonotonic
  <2>2. ch \in [FunctionNames -> Seq(1..Len(ms))]
    BY <1>1, <2>1
  <2> QED
    BY <1>14, <2>2
<1> HIDE DEF ch2
<1>17. ASSUME NEW m \in FunctionNames PROVE Runs(ms, m, hash[m], ch2[m])
  <2>1. CASE m = name
    BY <1>13, <1>15, <2>1
  <2>2. CASE m # name
    <3>1. Runs(ns, m, hash[m], ch[m]) /\ ch[m] \in Seq(1..Len(ns))
      BY <1>1
    <3>2. \A k \in 1..Len(ch[m]) : ch[m][k] \in 1..Len(ns) /\ ns[ch[m][k]].name = m
      <4>1. \A k \in 1..Len(ch[m]) : ch[m][k] \in 1..Len(ns)
        BY <3>1
      <4> QED
        BY <3>1, <4>1 DEF Runs
    <3>3. ns[fs[pos]].name = name
      BY <1>2, <1>10 DEF Runs
    <3>4. \A k \in 1..Len(ch[m]) : ms[ch[m][k]].next = ns[ch[m][k]].next
      BY <1>9, <2>2, <3>2, <3>3
    <3>5. Runs(ms, m, hash[m], ch[m])
      <4> DEFINE ds == ch[m]
                 first == hash[m]
      <4>1. Kept(ns, ms) /\ Runs(ns, m, first, ds)
        BY <1>7, <3>1
      <4>2. \A k \in 1..Len(ds) : ms[ds[k]].next = ns[ds[k]].next
        BY <3>4
      <4> HIDE DEF ds, first
      <4>3. Runs(ms, m, first, ds)
        <5>1. SameNext(ns, ms, ds)
          BY <4>2 DEF SameNext
        <5> QED
          BY <4>1, <5>1, RunsKept
      <4> QED
        BY <4>3 DEF ds, first
    <3> QED
      BY <1>15, <2>2, <3>5
  <2> QED
    BY <2>1, <2>2
<1>18. ChainsRight(ms, hash, ch2)
  BY <1>1, <1>8, <1>16, <1>17 DEF ChainsRight
<1>19. FirstWith(ms, ch2[name], TypesOf(s), r)
  <2>1. Args(ms[r]) = TypesOf(s)
    BY <1>7
  <2>2. NoneBefore(ns, fs, pos, Args(ms[r]))
    BY <1>10, <2>1 DEF NoneBefore
  <2>3. FirstWith(ms, gs, Args(ms[r]), r)
    BY <1>11, <2>2, NewFirst
  <2> QED
    BY <1>15, <2>1, <2>3
<1>20. \A k \in 1..Len(ch2[name]) :
         ch2[name][k] = r \/ \E j \in 1..Len(fs) : ch2[name][k] = fs[j]
  <2>1. \A k \in 1..(Len(fs) + 1) : gs[k] = r \/ \E j \in 1..Len(fs) : gs[k] = fs[j]
    BY <1>12 DEF Places
  <2> QED
    BY <1>14, <1>15, <2>1
<1>21. ASSUME NEW t, NEW f, t # TypesOf(s), FirstWith(ns, fs, t, f)
       PROVE  FirstWith(ms, ch2[name], t, f)
  <2>1. Args(ms[r]) # t
    BY <1>7, <1>21
  <2>2. FirstWith(ns, fs, t, f)
    BY <1>21
  <2>3. OthersStay(ns, ms, fs, gs, r)
    BY <1>11, OthersFirst
  <2>4. FirstWith(ms, gs, t, f)
    BY <2>1, <2>2, <2>3 DEF OthersStay
  <2> QED
    BY <1>15, <2>4
<1>22. More(ns, ms, ch, ch2, ag, ag, name, TypesOf(s), r)
  BY <1>1, <1>7, <1>8, <1>15, <1>19, <1>20, <1>21 DEF More, r, fs
<1> QED
  BY <1>6, <1>18, <1>22 DEF r, ch2, gs, fs

\* The chains and what was last registered after a step.
LEMMA Primed ==
  ASSUME NEW c
  PROVE  /\ ChainsRight(nodes, func_hash, c)' <=> ChainsRight(nodes', func_hash', c)
         /\ LatestRight(nodes, c, latest, again)' <=> LatestRight(nodes', c, latest', again')
<1>1. ChainsRight(nodes, func_hash, c)' <=> ChainsRight(nodes', func_hash', c)
  BY DEF ChainsRight, Runs
<1>2. LatestRight(nodes, c, latest, again)' <=> LatestRight(nodes', c, latest', again')
  BY DEF LatestRight, FirstWith
<1> QED
  BY <1>1, <1>2

\* func_register_sig keeps the invariant: the new function is the first of its chain, alone
\* there, or behind the functions with other types.
LEMMA RegisterKeeps == RegistryInv /\ func_register_sig => RegistryInv'
<1> SUFFICES ASSUME RegistryInv, func_register_sig PROVE RegistryInv'
  OBVIOUS
<1>1. PICK ch : ChainsRight(nodes, func_hash, ch) /\ LatestRight(nodes, ch, latest, again)
  BY DEF RegistryInv
<1>2. LeavesRight(func_hash, again, leaves) /\ again \subseteq FunctionNames /\ SoundIn(nodes)
  BY DEF RegistryInv
<1>3. PICK name \in FunctionNames, s \in Signed :
        /\ func_check(s) /\ func_register(name, s) /\ leaves' = leaves
        /\ latest' = Registered(latest, name, TypesOf(s), Len(nodes) + 1)
  BY DEF func_register_sig, TypesOf, Registered
<1> DEFINE types == TypesOf(s)
           list == Linked(nodes, func_hash[name])
           n == Len(nodes)
           r == n + 1
           new == [name |-> name, args |-> s.type, flags |-> s.flag, profile |-> FALSE, next |-> 0]
           same == {k \in DOMAIN list : Args(nodes[list[k]]) = Args(new)}
           least == CHOOSE k \in same : \A l \in same : k <= l
           pos == IF same = {} THEN Len(list) ELSE least - 1
           behind == [new EXCEPT !.next = nodes[list[pos]].next]
<1>4. new \in Node /\ new.name = name /\ new.args = s.type /\ new.flags = s.flag /\ new.next = 0
  BY DEF Node
<1>5. Args(new) = types
  BY <1>4, ArgsAre
<1>6. /\ list = ch[name] /\ list \in Seq(1..n)
      /\ list = <<>> => func_hash[name] = 0
  BY <1>1, FirstIs
<1>7. IF pos = 0
      THEN /\ nodes' = Append(nodes, new)
           /\ func_hash' = [func_hash EXCEPT ![name] = r]
           /\ again' = IF same = {} THEN again ELSE again \cup {name}
      ELSE /\ nodes' = [Append(nodes, behind) EXCEPT ![list[pos]].next = r]
           /\ func_hash' = func_hash /\ again' = again
  BY <1>3 DEF func_register
<1>8. Len(list) \in Nat /\ DOMAIN list = 1..Len(list) /\ (Len(list) = 0 => list = <<>>)
      /\ \A k \in 1..Len(list) : list[k] \in 1..n
  <2> HIDE DEF list
  <2> QED
    BY <1>6
<1>9. nodes \in Seq(Node) /\ n \in Nat /\ func_hash \in [FunctionNames -> Nat]
  BY <1>1 DEF ChainsRight
<1> HIDE DEF types, list, n, new
<1>10. same # {} => least \in same /\ \A l \in same : least <= l
  <2> SUFFICES ASSUME same # {} PROVE \E k \in same : \A l \in same : k <= l
    OBVIOUS
  <2>1. same \in SUBSET Nat
    BY <1>8
  <2> QED
    BY <2>1, NatLeast
<1> HIDE DEF least
<1>11. pos \in 0..Len(list) /\ \A l \in 1..pos : Args(nodes[list[l]]) # Args(new)
  <2>1. CASE same = {}
    BY <1>8, <2>1
  <2>2. CASE same # {}
    <3>1. least \in 1..Len(list) /\ pos = least - 1
      BY <1>8, <1>10, <2>2
    <3>2. ASSUME NEW l \in 1..pos, Args(nodes[list[l]]) = Args(new) PROVE FALSE
      <4>1. l \in 1..Len(list) /\ l \in Nat /\ l < least /\ least \in Nat
        BY <1>8, <3>1
      <4>2. l \in same
        BY <1>8, <3>2, <4>1
      <4>3. least <= l
        BY <1>10, <4>2
      <4> QED
        BY <4>1, <4>3
    <3> QED
      BY <1>8, <3>1, <3>2
  <2> QED
    BY <2>1, <2>2
<1>12. pos = 0 /\ same = {} => list = <<>>
  BY <1>8
<1> HIDE DEF same
<1>13. ASSUME NEW ms, NEW ch2, NEW ag2, ms = nodes', ag2 = again',
              Grown(nodes, ms, name, s), ChainsRight(ms, func_hash', ch2),
              More(nodes, ms, ch, ch2, again, ag2, name, types, r), again' \subseteq FunctionNames,
              LeavesRight(func_hash', again', leaves)
       PROVE  RegistryInv'
  <2>1. LatestRight(ms, ch2, latest', ag2)
    <3>1. LatestRight(nodes, ch, latest, again)
      BY <1>1
    <3>2. LatestRight(ms, ch2, Registered(latest, name, types, r), ag2)
      BY <1>13, <3>1, LatestMore
    <3> QED
      BY <1>3, <3>2 DEF types, n
  <2>2. SoundIn(ms)
    BY <1>2, <1>3, <1>13, GrownSound
  <2>3. ChainsRight(nodes', func_hash', ch2) /\ LatestRight(nodes', ch2, latest', again')
    BY <1>13, <2>1
  <2>4. SoundIn(nodes)' 
    BY <1>13, <2>2 DEF SoundIn
  <2>5. LeavesRight(func_hash, again, leaves)'
    BY <1>3, <1>13 DEF LeavesRight
  <2>6. (\E c : ChainsRight(nodes, func_hash, c) /\ LatestRight(nodes, c, latest, again))'
    BY <2>3, Primed
  <2> QED
    BY <1>13, <2>4, <2>5, <2>6 DEF RegistryInv
<1>14. CASE pos = 0
  <2>1. /\ nodes' = Append(nodes, new) /\ func_hash' = [func_hash EXCEPT ![name] = r]
        /\ again' = IF same = {} THEN again ELSE again \cup {name}
    BY <1>7, <1>14
  <2>2. /\ again \subseteq again' /\ again' \subseteq FunctionNames
        /\ \A m \in FunctionNames : m # name => (m \in again' <=> m \in again)
        /\ name \notin again' => list = <<>>
    BY <1>2, <1>12, <1>14, <2>1
  <2> DEFINE ch2 == [ch EXCEPT ![name] = <<r>>]
  <2>3. /\ ChainsRight(nodes', [func_hash EXCEPT ![name] = n + 1], [ch EXCEPT ![name] = <<n + 1>>])
        /\ More(nodes, nodes', ch, [ch EXCEPT ![name] = <<n + 1>>], again, again', name, TypesOf(s), n + 1)
        /\ Grown(nodes, nodes', name, s)
    <3>1. name \notin again' => ch[name] = <<>>
      BY <1>6, <2>2
    <3> QED
      BY <1>1, <1>4, <2>1, <2>2, <3>1, FirstAlone DEF n
  <2>4. LeavesRight(func_hash', again', leaves)
    <3> SUFFICES ASSUME NEW leaf \in leaves, leaf.name \in FunctionNames \ again'
                 PROVE  leaf.func = func_hash'[leaf.name] /\ leaf.func # 0
      BY DEF LeavesRight
    <3>1. leaf.func = func_hash[leaf.name] /\ leaf.func # 0
      BY <1>2, <2>2 DEF LeavesRight
    <3>2. leaf.name # name
      BY <1>6, <2>2, <3>1
    <3> QED
      BY <1>9, <2>1, <3>1, <3>2
  <2>5. More(nodes, nodes', ch, ch2, again, again', name, types, r) /\ ChainsRight(nodes', func_hash', ch2)
    BY <2>1, <2>3 DEF types
  <2> HIDE DEF ch2
  <2> QED
    BY <1>13, <2>2, <2>3, <2>4, <2>5
<1>15. CASE pos # 0
  <2>1. nodes' = [Append(nodes, behind) EXCEPT ![list[pos]].next = r] /\ func_hash' = func_hash /\ again' = again
    BY <1>7, <1>15
  <2> HIDE DEF pos
  <2>2. pos \in 1..Len(list) /\ list[pos] \in 1..n
    <3>1. pos \in 1..Len(list)
      BY <1>8, <1>11, <1>15
    <3> QED
      BY <1>8, <3>1
  <2>3. behind \in Node /\ behind.name = name /\ behind.args = s.type /\ behind.flags = s.flag
        /\ behind.next = nodes[list[pos]].next
    <3>1. nodes[list[pos]] \in Node
      BY <1>9, <2>2 DEF n
    <3>2. nodes[list[pos]].next \in Nat
      BY <3>1 DEF Node
    <3> QED
      BY <1>4, <3>2 DEF Node
  <2> HIDE DEF behind
  <2> DEFINE ch2 == [ch EXCEPT ![name] = Inserted(list, pos, r)]
  <2>4. /\ ChainsRight(nodes', func_hash, [ch EXCEPT ![name] = Inserted(ch[name], pos, n + 1)])
        /\ More(nodes, nodes', ch, [ch EXCEPT ![name] = Inserted(ch[name], pos, n + 1)], again, again, name,
                TypesOf(s), n + 1)
        /\ Grown(nodes, nodes', name, s)
    <3>1. pos \in 1..Len(ch[name]) /\ behind.next = nodes[ch[name][pos]].next
      BY <1>6, <2>2, <2>3
    <3>2. nodes' = [Append(nodes, behind) EXCEPT ![ch[name][pos]].next = Len(nodes) + 1]
      BY <1>6, <2>1 DEF n
    <3>3. NoneBefore(nodes, ch[name], pos, TypesOf(s))
      BY <1>5, <1>6, <1>11 DEF NoneBefore, types
    <3> QED
      BY <1>1, <2>3, <3>1, <3>2, <3>3, BehindAnother DEF n
  <2>5. More(nodes, nodes', ch, ch2, again, again', name, types, r) /\ ChainsRight(nodes', func_hash', ch2)
    BY <1>6, <2>1, <2>4 DEF types
  <2>6. LeavesRight(func_hash', again', leaves) /\ again' \subseteq FunctionNames
    BY <1>2, <2>1
  <2> HIDE DEF ch2
  <2> QED
    BY <1>13, <2>4, <2>5, <2>6
<1> QED
  BY <1>14, <1>15

\* Read keeps the invariant: a leaf has the first function of its name.
LEMMA ReadKeeps == RegistryInv /\ Read => RegistryInv'
<1> SUFFICES ASSUME RegistryInv, Read PROVE RegistryInv'
  OBVIOUS
<1>1. PICK name \in FunctionNames :
        func_hash[name] # 0 /\ leaves' = leaves \cup {[name |-> name, func |-> func_hash[name]]}
  BY DEF Read
<1>2. nodes' = nodes /\ func_hash' = func_hash /\ latest' = latest /\ again' = again
  BY DEF Read
<1>3. LeavesRight(func_hash, again, leaves')
  BY <1>1 DEF RegistryInv, LeavesRight
<1>4. LeavesRight(func_hash, again, leaves)'
  BY <1>2, <1>3 DEF LeavesRight
<1>5. (\E c : ChainsRight(nodes, func_hash, c) /\ LatestRight(nodes, c, latest, again))'
  <2>1. PICK c : ChainsRight(nodes, func_hash, c) /\ LatestRight(nodes, c, latest, again)
    BY DEF RegistryInv
  <2> QED
    BY <1>2, <2>1, Primed
<1>6. SoundIn(nodes)'
  BY <1>2 DEF RegistryInv, SoundIn
<1> QED
  BY <1>2, <1>4, <1>5, <1>6 DEF RegistryInv

\* Functions that keep their names, types and what follows them have the same chains.
LEMMA LatestKept ==
  ASSUME NEW ns, NEW ms, NEW hash, NEW ch, NEW lt, NEW ag, ChainsRight(ns, hash, ch), LatestRight(ns, ch, lt, ag),
         Kept(ns, ms), Len(ms) = Len(ns), ms \in Seq(Node), \A f \in 1..Len(ns) : ms[f].next = ns[f].next
  PROVE  ChainsRight(ms, hash, ch) /\ LatestRight(ms, ch, lt, ag)
<1>1. /\ hash \in [FunctionNames -> Nat] /\ ch \in [FunctionNames -> Seq(1..Len(ns))]
      /\ \A name \in FunctionNames : Runs(ns, name, hash[name], ch[name])
  BY DEF ChainsRight
<1>2. ASSUME NEW name \in FunctionNames PROVE Runs(ms, name, hash[name], ch[name])
  <2> DEFINE fs == ch[name]
             first == hash[name]
  <2>1. Runs(ns, name, first, fs) /\ fs \in Seq(1..Len(ns))
    BY <1>1
  <2> HIDE DEF fs, first
  <2>2. \A k \in 1..Len(fs) : ms[fs[k]].next = ns[fs[k]].next
    <3>1. \A k \in 1..Len(fs) : fs[k] \in 1..Len(ns)
      BY <2>1
    <3> QED
      BY <3>1
  <2>3. Runs(ms, name, first, fs)
    <3>1. SameNext(ns, ms, fs)
      BY <2>2 DEF SameNext
    <3> QED
      BY <2>1, <3>1, RunsKept
  <2> QED
    BY <2>3 DEF fs, first
<1>3. ChainsRight(ms, hash, ch)
  BY <1>1, <1>2 DEF ChainsRight
<1>4. \A x \in DOMAIN lt : x = <<x[1], x[2]>> /\ x[1] \in FunctionNames /\ lt[x] \in 1..Len(ns)
  BY DEF LatestRight
<1>5. ASSUME NEW x \in DOMAIN lt, FirstWith(ns, ch[x[1]], x[2], lt[x])
      PROVE  FirstWith(ms, ch[x[1]], x[2], lt[x])
  <2>1. ch[x[1]] \in Seq(1..Len(ns))
    BY <1>1, <1>4
  <2> QED
    BY <1>5, <2>1, FirstKept
<1>6. \A x \in DOMAIN lt : x[1] \notin ag => FirstWith(ms, ch[x[1]], x[2], lt[x])
  BY <1>5 DEF LatestRight
<1>7. ASSUME NEW name \in FunctionNames \ ag, NEW k \in 1..Len(ch[name])
      PROVE  <<name, Args(ms[ch[name][k]])>> \in DOMAIN lt
  <2>1. ch[name] \in Seq(1..Len(ns))
    BY <1>1
  <2>2. ch[name][k] \in 1..Len(ns)
    BY <2>1
  <2>3. Args(ms[ch[name][k]]) = Args(ns[ch[name][k]])
    BY <2>2 DEF Kept
  <2> QED
    BY <2>3 DEF LatestRight
<1>8. \A x \in DOMAIN lt :
        (\A z \in DOMAIN lt : z[1] = x[1] => lt[z] <= lt[x]) => FirstWith(ms, ch[x[1]], x[2], lt[x])
  BY <1>5 DEF LatestRight
<1>9. LatestRight(ms, ch, lt, ag)
  BY <1>4, <1>6, <1>7, <1>8 DEF LatestRight
<1> QED
  BY <1>3, <1>9

\* __haplo_func_profile keeps the invariant: it is a mark on functions.
LEMMA ProfileKeeps == RegistryInv /\ __haplo_func_profile => RegistryInv'
<1> SUFFICES ASSUME RegistryInv, __haplo_func_profile PROVE RegistryInv'
  OBVIOUS
<1>0. PICK name \in FunctionNames, on \in BOOLEAN :
        nodes' = [f \in DOMAIN nodes |-> IF f \in ToSet(Linked(nodes, func_hash[name]))
                                          THEN [nodes[f] EXCEPT !.profile = on] ELSE nodes[f]]
  BY DEF __haplo_func_profile
<1> DEFINE list == ToSet(Linked(nodes, func_hash[name]))
<1>1. nodes' = [f \in DOMAIN nodes |-> IF f \in list THEN [nodes[f] EXCEPT !.profile = on] ELSE nodes[f]]
  BY <1>0
<1> HIDE DEF list
<1>2. func_hash' = func_hash /\ leaves' = leaves /\ latest' = latest /\ again' = again
  BY DEF __haplo_func_profile
<1>3. PICK ch : ChainsRight(nodes, func_hash, ch) /\ LatestRight(nodes, ch, latest, again)
  BY DEF RegistryInv
<1>4. nodes \in Seq(Node) /\ DOMAIN nodes = 1..Len(nodes) /\ Len(nodes) \in Nat
  BY <1>3 DEF ChainsRight
<1>5. ASSUME NEW f \in 1..Len(nodes)
      PROVE  /\ nodes'[f] \in Node /\ nodes'[f].name = nodes[f].name /\ nodes'[f].args = nodes[f].args
             /\ nodes'[f].flags = nodes[f].flags /\ nodes'[f].next = nodes[f].next
  <2>1. nodes[f] \in Node
    BY <1>4
  <2>2. nodes'[f] = IF f \in list THEN [nodes[f] EXCEPT !.profile = on] ELSE nodes[f]
    BY <1>1, <1>4
  <2> QED
    BY <2>1, <2>2 DEF Node
<1>6. nodes' \in Seq(Node) /\ Len(nodes') = Len(nodes)
  <2>1. nodes' \in [1..Len(nodes) -> Node]
    BY <1>1, <1>4, <1>5
  <2>2. nodes' \in Seq(Node)
    BY <1>4, <2>1
  <2> QED
    BY <1>4, <2>1, <2>2
<1>7. Kept(nodes, nodes')
  BY <1>4, <1>5, <1>6 DEF Kept, Args
<1>8. ChainsRight(nodes', func_hash, ch) /\ LatestRight(nodes', ch, latest, again)
  <2>1. \A f \in 1..Len(nodes) : nodes'[f].next = nodes[f].next
    BY <1>5
  <2> QED
    BY <1>3, <1>6, <1>7, <2>1, LatestKept
<1>9. (\E c : ChainsRight(nodes, func_hash, c) /\ LatestRight(nodes, c, latest, again))'
  BY <1>2, <1>8, Primed
<1>10. SoundIn(nodes)'
  <2>1. SoundIn(nodes)
    BY DEF RegistryInv
  <2> QED
    BY <1>5, <1>6, <2>1 DEF SoundIn
<1>11. LeavesRight(func_hash, again, leaves)'
  BY <1>2 DEF RegistryInv, LeavesRight
<1> QED
  BY <1>2, <1>9, <1>10, <1>11 DEF RegistryInv

\* Every step keeps the invariant.
LEMMA RegistryKeeps == RegistryInv /\ [RegistryNext]_registryVars => RegistryInv'
<1> SUFFICES ASSUME RegistryInv, [RegistryNext]_registryVars PROVE RegistryInv'
  OBVIOUS
<1>1. CASE func_register_sig
  BY <1>1, RegisterKeeps
<1>2. CASE Read
  BY <1>2, ReadKeeps
<1>3. CASE __haplo_func_profile
  BY <1>3, ProfileKeeps
<1>4. CASE UNCHANGED registryVars
  <2>1. /\ nodes' = nodes /\ func_hash' = func_hash /\ leaves' = leaves /\ latest' = latest
        /\ again' = again
    BY <1>4 DEF registryVars
  <2>2. PICK c : ChainsRight(nodes, func_hash, c) /\ LatestRight(nodes, c, latest, again)
    BY DEF RegistryInv
  <2>3. (\E d : ChainsRight(nodes, func_hash, d) /\ LatestRight(nodes, d, latest, again))'
    BY <2>1, <2>2, Primed
  <2>4. SoundIn(nodes)' /\ LeavesRight(func_hash, again, leaves)'
    BY <2>1 DEF RegistryInv, SoundIn, LeavesRight
  <2> QED
    BY <2>1, <2>3, <2>4 DEF RegistryInv
<1> QED
  BY <1>1, <1>2, <1>3, <1>4 DEF RegistryNext

-----------------------------------------------------------------------------
(* The registry: what is called *)

\* For names whose first function was not registered again, the function called is the last
\* registered with these types.
LEMMA LatestIs == RegistryInv => LatestChosen
<1> SUFFICES ASSUME RegistryInv, NEW name \in FunctionNames \ again, NEW s \in Signed
             PROVE  LET types == [k \in 1..s.n |-> s.type[k]]
                        last == IF <<name, types>> \in DOMAIN latest THEN latest[<<name, types>>] ELSE 0
                    IN  /\ code_func_choose(nodes, func_hash[name], types) = last
                        /\ \A leaf \in leaves :
                             leaf.name = name => code_func_choose(nodes, leaf.func, types) = last
  BY DEF LatestChosen
<1> DEFINE types == [k \in 1..s.n |-> s.type[k]]
           x == <<name, types>>
           last == IF x \in DOMAIN latest THEN latest[x] ELSE 0
<1> HIDE DEF types
<1>1. PICK ch : ChainsRight(nodes, func_hash, ch) /\ LatestRight(nodes, ch, latest, again)
  BY DEF RegistryInv
<1>2. Runs(nodes, name, func_hash[name], ch[name]) /\ Len(nodes) \in Nat
  <2>1. Runs(nodes, name, func_hash[name], ch[name]) /\ nodes \in Seq(Node)
    BY <1>1 DEF ChainsRight
  <2> QED
    BY <2>1
<1>3. code_func_choose(nodes, func_hash[name], types) = last
  <2>1. CASE x \in DOMAIN latest
    <3>1. FirstWith(nodes, ch[x[1]], x[2], latest[x])
      BY <1>1, <2>1 DEF LatestRight
    <3>2. FirstWith(nodes, ch[name], types, latest[x])
      BY <3>1
    <3> QED
      BY <1>2, <2>1, <3>2, Chosen
  <2>2. CASE x \notin DOMAIN latest
    <3>1. \A k \in 1..Len(ch[name]) : <<name, Args(nodes[ch[name][k]])>> \in DOMAIN latest
      BY <1>1 DEF LatestRight
    <3>2. \A k \in 1..Len(ch[name]) : Args(nodes[ch[name][k]]) # types
      BY <2>2, <3>1
    <3>3. code_func_choose(nodes, func_hash[name], types) = 0
      <4> DEFINE fs == ch[name]
                 first == func_hash[name]
      <4>1. Runs(nodes, name, first, fs) /\ \A k \in 1..Len(fs) : Args(nodes[fs[k]]) # types
        BY <1>2, <3>2
      <4> HIDE DEF fs, first
      <4>2. code_func_choose(nodes, first, types) = 0
        BY <1>2, <4>1, NoneChosen
      <4> QED
        BY <4>2 DEF first
    <3> QED
      BY <2>2, <3>3
  <2> QED
    BY <2>1, <2>2
<1>4. \A leaf \in leaves : leaf.name = name => leaf.func = func_hash[name]
  BY DEF RegistryInv, LeavesRight
<1>5. /\ code_func_choose(nodes, func_hash[name], types) = last
      /\ \A leaf \in leaves : leaf.name = name => code_func_choose(nodes, leaf.func, types) = last
  BY <1>3, <1>4
<1> QED
  BY <1>5 DEF types

\* The function registered last is called with its types, for every name.
LEMMA NewestIs == RegistryInv => NewestCalled
<1> SUFFICES ASSUME RegistryInv, NEW name \in FunctionNames, {x \in DOMAIN latest : x[1] = name} # {}
             PROVE  LET of == {x \in DOMAIN latest : x[1] = name}
                        x == CHOOSE y \in of : \A z \in of : latest[z] <= latest[y]
                    IN  code_func_choose(nodes, func_hash[name], x[2]) = latest[x]
  BY DEF NewestCalled
<1> DEFINE of == {x \in DOMAIN latest : x[1] = name}
           x == CHOOSE y \in of : \A z \in of : latest[z] <= latest[y]
<1>1. PICK ch : ChainsRight(nodes, func_hash, ch) /\ LatestRight(nodes, ch, latest, again)
  BY DEF RegistryInv
<1>2. Runs(nodes, name, func_hash[name], ch[name]) /\ Len(nodes) \in Nat
  <2>1. Runs(nodes, name, func_hash[name], ch[name]) /\ nodes \in Seq(Node)
    BY <1>1 DEF ChainsRight
  <2> QED
    BY <2>1
<1>3. \A y \in of : latest[y] \in 1..Len(nodes)
  BY <1>1 DEF LatestRight
<1>4. \E y \in of : \A z \in of : latest[z] <= latest[y]
  <2> DEFINE V == {latest[y] : y \in of}
  <2>1. V \in SUBSET (1..Len(nodes)) /\ V # {}
    BY <1>3
  <2>2. Max(V) \in V /\ \A v \in V : Max(V) >= v
    <3> HIDE DEF V
    <3> QED
      BY <1>2, <2>1, MaxIn
  <2>3. PICK y \in of : Max(V) = latest[y]
    BY <2>2
  <2>4. \A z \in of : latest[z] <= latest[y]
    <3> SUFFICES ASSUME NEW z \in of PROVE latest[z] <= latest[y]
      OBVIOUS
    <3>1. latest[y] >= latest[z]
      BY <2>2, <2>3
    <3>2. latest[y] \in Nat /\ latest[z] \in Nat
      BY <1>2, <1>3
    <3> QED
      BY <3>1, <3>2
  <2> QED
    BY <2>4
<1>5. x \in of /\ \A z \in of : latest[z] <= latest[x]
  BY <1>4
<1> HIDE DEF x
<1>6. x \in DOMAIN latest /\ x[1] = name /\ \A z \in DOMAIN latest : z[1] = x[1] => latest[z] <= latest[x]
  BY <1>5
<1>7. FirstWith(nodes, ch[x[1]], x[2], latest[x])
  BY <1>1, <1>6 DEF LatestRight
<1>8. FirstWith(nodes, ch[name], x[2], latest[x])
  BY <1>6, <1>7
<1>9. code_func_choose(nodes, func_hash[name], x[2]) = latest[x]
  BY <1>2, <1>8, Chosen
<1> QED
  BY <1>9 DEF x

\* The invariant is that of every state.
THEOREM RegistryStays == RegistrySpec => []RegistryInv
<1>1. RegistryInit => RegistryInv
  BY RegistryInitial
<1>2. RegistryInv /\ [RegistryNext]_registryVars => RegistryInv'
  BY RegistryKeeps
<1> QED
  BY <1>1, <1>2, PTL DEF RegistrySpec

\* The function called is the last one registered for its arguments, for a name read now
\* or before, and none that was not; no function can change an argument it has no copy of
\* (func.c, code.c).
THEOREM CallsAreRight == RegistrySpec => []CallsRight
<1>1. RegistryInv => CallsRight
  <2> SUFFICES ASSUME RegistryInv PROVE CallsRight
    OBVIOUS
  <2>1. LatestChosen /\ NewestCalled
    BY LatestIs, NewestIs
  <2>2. ArgumentsSound
    <3>1. PICK ch : ChainsRight(nodes, func_hash, ch)
      BY DEF RegistryInv
    <3>2. DOMAIN nodes = 1..Len(nodes)
      BY <3>1 DEF ChainsRight
    <3> QED
      BY <3>2 DEF RegistryInv, SoundIn, ArgumentsSound
  <2> QED
    BY <2>1, <2>2 DEF CallsRight
<1> QED
  BY <1>1, RegistryStays, PTL
=============================================================================
