----------------------------- MODULE MCFileLock -----------------------------
(* FileLock on two paths with a stripe each, in the order opposite to the paths'. *)
EXTENDS FileLock, TLC

CONSTANTS a, b, d1, t1, t2, s1, s2

MCStripeOf == (a :> 1) @@ (b :> 0)
MCDirStripeOf == (d1 :> 0)
TwoSessions == (t1 :> s1) @@ (t2 :> s2)
\* A move between the two stripes, a write that cleans its directory up, and the
\* lost+found sweep, which reaps a directory without holding a file stripe.
MCCall == {[paths |-> {a, b}, dirs |-> <<>>], [paths |-> {b}, dirs |-> <<d1>>],
           [paths |-> {}, dirs |-> <<d1>>]}
=============================================================================
