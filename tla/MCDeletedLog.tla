---------------------------- MODULE MCDeletedLog ----------------------------
(* DeletedLog with two paths, two contents and two requests. *)
EXTENDS DeletedLog, TLC

CONSTANTS a, b, x, y, c1, c2

Symmetry == Permutations(Path) \cup Permutations(Content) \cup Permutations(Caller)
=============================================================================
