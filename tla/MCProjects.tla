----------------------------- MODULE MCProjects -----------------------------
(* Projects with three namespaces and two project names. *)
EXTENDS Projects, TLC

CONSTANTS dflt, na, nb, pa, pb, r1, r2, w1

Grant(project, perm) ==
  [zone |-> "", form |-> "namespace", ns |-> na, proj |-> project, perm |-> perm]
MCUserScope == {Grant(pa, "rw")}
MCTokenScope == {Grant(NoName, "admin"), Grant(pa, "")}

\* What the theorem about grants assumes holds of these scopes.
ASSUME MCGrants == FirstGrants

Symmetry == Permutations(Req)
=============================================================================
