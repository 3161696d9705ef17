------------------------------- MODULE MCPool -------------------------------
(* Instances of Pool for TLC. *)
EXTENDS Pool, TLC

\* Workers, and tasks, are interchangeable (no liveness is checked under this).
MCSymmetry == Permutations(Workers) \cup Permutations(Tasks)
=============================================================================
