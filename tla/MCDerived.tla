------------------------------ MODULE MCDerived ------------------------------
(* Derived on three files, of which one links to another. *)
EXTENDS Derived, TLC

CONSTANTS a, b, r, x, y, m1, m2, t1

On(op, p, from, doc) == [op |-> op, path |-> p, from |-> from, doc |-> doc, ifMatch |-> {}]
D(body, link) == [body |-> body, link |-> link]

\* a is linked from r; b does not exist.
MCStart == (a :> D(x, NoPath)) @@ (b :> NoDoc) @@ (r :> D(x, a))
MCDims == (m1 :> 1) @@ (m2 :> 1)
\* Moves there and back, an edit of the referrer that keeps its link, a new file and a deletion.
MCCall == {On("move", b, a, NoDoc), On("move", a, b, NoDoc), On("write", r, NoPath, D(y, a)),
           On("delete", a, NoPath, NoDoc)}
IndexOnly ==
  {[sweep |-> TRUE, librarian |-> FALSE, vector |-> NoModel,
    requests |-> MCCall, damage |-> {"bad", "gone"}]}
\* The vectors know nothing of links, and nothing in these reads the index file.
MCVectorCall == {c \in MCCall : c.from # b}
VectorOnly ==
  {[sweep |-> FALSE, librarian |-> TRUE, vector |-> m1, requests |-> MCVectorCall, damage |-> {}]}
\* No model yet: the reload that brings one starts the worker.
VectorLater ==
  {[sweep |-> FALSE, librarian |-> TRUE, vector |-> NoModel,
    requests |-> MCVectorCall, damage |-> {}]}
Deployed == IndexOnly \cup VectorOnly \cup VectorLater
=============================================================================
