-------------------------------- MODULE Maps --------------------------------
(* Buckets and Go maps as functions with a changing domain. *)

EmptyMap == [k \in {} |-> {}]
\* The map with key k set to v.
Put(f, k, v) == [x \in DOMAIN f \cup {k} |-> IF x = k THEN v ELSE f[x]]
\* The map without the keys in S.
Drop(f, S) == [x \in DOMAIN f \ S |-> f[x]]
=============================================================================
