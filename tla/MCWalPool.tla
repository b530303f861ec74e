----------------------------- MODULE MCWalPool -----------------------------
(* Instances of WalPool for TLC: two projects. *)
EXTENDS WalPool, TLC

CONSTANTS p1, p2, a, b, x, y

E(p, o, f, t, c) == [proj |-> p, op |-> o, path |-> t, from |-> f, content |-> c]

MCProject == {p1, p2}
\* A file that is written and moved, next to an entry of another project.
FaultRequest ==
  {E(p1, "write", a, a, x), E(p1, "move", a, b, x), E(p2, "write", a, a, y)}
\* One path, which may be deleted.
LiveRequest == {E(p1, "write", a, a, x), E(p1, "delete", a, a, x), E(p2, "write", a, a, y)}

WorkerSymmetry == Permutations(Worker)
=============================================================================
