---------------------------- MODULE MCFileStore ----------------------------
(* FileStore on two paths, two callers and one or two fragments. *)
EXTENDS FileStore, TLC

CONSTANTS p, q, t1, t2, x, y, bg

TaskSymmetry == Permutations({t1, t2})
Write(path, content) ==
  [op |-> "write", path |-> path, from |-> path, content |-> content, ifMatch |-> None]
\* Writes of one path; writes of two and a deletion.
WriteOne == {Write(p, {x}), Write(p, {y})}
WriteEach == {Write(p, {x}), Write(q, {x}), [Write(p, {}) EXCEPT !.op = "delete"]}
=============================================================================
