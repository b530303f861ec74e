------------------------------ MODULE MCOAuth ------------------------------
(* OAuth with two nested domains and one client of each kind. *)
EXTENDS OAuth, TLC

CONSTANTS r1, r2, a1, a2, corp, sub, url, dcr, conf, cli, all, one, none, op

MCUnder == (corp :> {corp, sub}) @@ (sub :> {sub})
MCHostOf == (url :> corp) @@ (dcr :> sub)
MCPruned == (all :> all) @@ (one :> none) @@ (none :> none)
Symmetry == Permutations(Req) \cup Permutations(Admin)
MCTtl == {<<0, 0>>}
=============================================================================
