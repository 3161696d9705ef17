------------------------------- MODULE Digests -------------------------------
(* How a password becomes a digest (modules/net/src/identity.c): blocks are  *)
(* cut from what is given piece by piece, and the end is padded with the     *)
(* length in bits, in two words. The transformation of a block is left out:  *)
(* the digest is the sequence of blocks.                                     *)
EXTENDS Naturals, Sequences, SequencesExt

CONSTANTS
  BLOCK,    \* bytes of a block (64), two words of the length among them
  WORD,     \* bytes of a word (4)
  Limit,    \* values of a word (2 ^ 32)
  Pieces,   \* lengths given at once
  MaxGiven  \* bound on the bytes given

DigestsAssumption ==
  /\ BLOCK \in Nat /\ WORD \in Nat \ {0} /\ 2 * WORD < BLOCK
  /\ Limit \in Nat /\ Limit % (8 * BLOCK) = 0 /\ MaxGiven \in Nat

VARIABLES
  given,    \* bytes given so far: they are numbered
  bits,     \* the length so far, low word first
  in,       \* the block that is filled
  buf,      \* blocks transformed
  digest    \* what the digest is made of, at the end

digestVars == <<given, bits, in, buf, digest>>

\* MD5Init; the block is not cleared.
Init ==
  /\ given = 0 /\ bits = <<0, 0>> /\ buf = <<>> /\ digest = <<>>
  /\ in = [k \in 1..BLOCK |-> "uninitialised"]

Bytes(from, n) == [k \in 1..n |-> from + k]

\* memcpy to the place p of a block.
Copied(block, p, bytes) ==
  [k \in 1..BLOCK |-> IF k > p /\ k <= p + Len(bytes) THEN bytes[k - p] ELSE block[k]]

\* The blocks of bytes, and what is left of them.
Whole(bytes) == [k \in 1..(Len(bytes) \div BLOCK) |-> SubSeq(bytes, (k - 1) * BLOCK + 1, k * BLOCK)]
Left(bytes) == SubSeq(bytes, (Len(bytes) \div BLOCK) * BLOCK + 1, Len(bytes))

\* Mutant of Counted: the low word overflows without a carry.
NoCarry(len) == <<(bits[1] + 8 * len) % Limit, bits[2] + (8 * len) \div Limit>>

\* The length is counted in the two words: the low one wraps, with a carry.
Counted(len) ==
  LET low == (bits[1] + 8 * len) % Limit
  IN  <<low, (bits[2] + (IF low < bits[1] THEN 1 ELSE 0) + (8 * len) \div Limit) % Limit>>

MD5Update ==
  /\ digest = <<>>
  /\ \E len \in Pieces :
       LET t == (bits[1] \div 8) % BLOCK
           bytes == Bytes(given, len)
           first == Copied(in, t, SubSeq(bytes, 1, BLOCK - t))
           rest == SubSeq(bytes, BLOCK - t + 1, len)
       IN  /\ given + len <= MaxGiven
           /\ given' = given + len
           /\ bits' = Counted(len)
           /\ IF t # 0 /\ len < BLOCK - t THEN in' = Copied(in, t, bytes) /\ UNCHANGED buf
              ELSE IF t # 0
              THEN /\ buf' = buf \o <<first>> \o Whole(rest)
                   /\ in' = Copied(Last(<<first>> \o Whole(rest)), 0, Left(rest))
              ELSE /\ buf' = buf \o Whole(bytes)
                   /\ in' = Copied(Last(<<in>> \o Whole(bytes)), 0, Left(bytes))
  /\ UNCHANGED digest

Zeros(n) == [k \in 1..n |-> "zero"]

\* The length is the last two words of a block of its own when there is no room for it.
MD5Final ==
  /\ digest = <<>>
  /\ LET p == (bits[1] \div 8) % BLOCK
         count == BLOCK - 1 - p
         marked == Copied(in, p, <<"mark">>)
         one == Copied(marked, p + 1, Zeros(count))
         last == IF count < 2 * WORD THEN Copied(one, 0, Zeros(BLOCK - 2 * WORD))
                 ELSE Copied(marked, p + 1, Zeros(count - 2 * WORD))
         done == SubSeq(last, 1, BLOCK - 2 * WORD) \o <<<<"length", bits[1]>>, <<"length", bits[2]>>>>
     IN  digest' = buf \o (IF count < 2 * WORD THEN <<one>> ELSE <<>>) \o <<done>>
  /\ UNCHANGED <<given, bits, in, buf>>

Next == MD5Update \/ MD5Final

-----------------------------------------------------------------------------
\* Blocks of the bytes, a mark, as few zeros as there may be, and the length.
Padded ==
  LET room == BLOCK - 2 * WORD
      zeros == CHOOSE z \in 0..(BLOCK - 1) : (given + 1 + z) % BLOCK = room
      bytes == Bytes(0, given) \o <<"mark">> \o Zeros(zeros)
  IN  Whole(bytes) \o <<Left(bytes) \o <<<<"length", (8 * given) % Limit>>,
                                         <<"length", ((8 * given) \div Limit) % Limit>>>>>>

\* What is digested does not depend on the pieces it was given in.
SplitsAlike == digest # <<>> => digest = Padded
=============================================================================
