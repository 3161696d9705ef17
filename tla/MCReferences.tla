---------------------------- MODULE MCReferences ----------------------------
(* References on small databases: all names but z share the first bucket.   *)
EXTENDS References, TLC

CONSTANTS x, y, z, b1, b2

Hash == [n \in Names |-> IF n = z THEN b2 ELSE b1]

Alike == Permutations(Names \ {z})
=============================================================================
