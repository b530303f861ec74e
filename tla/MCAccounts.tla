----------------------------- MODULE MCAccounts -----------------------------
(* Accounts with two users, two requests and two connections. *)
EXTENDS Accounts, TLC

CONSTANTS u1, u2, pw1, pw2, adm, one, none, r1, r2, c1, c2

MCPruned == (adm :> adm) @@ (one :> none) @@ (none :> none)
Symmetry == Permutations(Req) \cup Permutations(Conn) \cup Permutations(User)
=============================================================================
