------------------------------ MODULE MCSolver ------------------------------
(* Instances of Solver for TLC: the profiles. *)
EXTENDS Solver, Sequences, TLC

\* The line numbers of a profile start at 0.
Profile(columns) == [i \in 0 .. Len(columns) - 1 |-> columns[i + 1]]

\* Sizes 5, 6 and 9: one batch of four lines; a second batch of one line; two
\* batches of four lines.  Line 1 is not connected to line 0.
MCProfiles == {Profile(<<0, 1, 0, 2, 1>>), Profile(<<0, 1, 1, 0, 2, 0>>),
               Profile(<<0, 1, 0, 0, 2, 0, 3, 1, 6>>)}

\* Size 4: lines 1 to 3 do not make a whole batch of four jobs.
MCShort == {Profile(<<0, 1, 1, 2>>)}

\* A full matrix: line 2 and the next are connected to line 0 through line 1.
MCDense == {Profile(<<0, 0, 0>>)}
=============================================================================
