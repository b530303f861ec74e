----------------------------- MODULE MCSessions -----------------------------
(* Sessions with an MCP session and a web connection on two paths. *)
EXTENDS Sessions, TLC

CONSTANTS p, q, t1, t2, x, y, bg, m, w

TaskSymmetry == Permutations({t1, t2})
\* Every call the handlers can make of the store.
MCCall == {c \in [op : CallOp, path : Path, from : Path, content : Content,
                  ifMatch : Content \cup {None}] : c.op = "move" => c.path # c.from}
R(s, op, path, from, content, i) ==
  [sess |-> s, op |-> op, path |-> path, from |-> from, content |-> content, ifMatch |-> i,
   pat |-> {}]
S(s, op, pat) == [R(s, op, p, p, {}, None) EXCEPT !.pat = pat]

MCRequest ==
  {R(m, "write", p, p, {x}, {}), R(m, "append", p, p, {y}, None), R(m, "delete", p, p, {}, {x}),
   R(m, "copy", q, p, {}, None), R(m, "move", q, p, {}, {}),
   R(w, "write", p, p, {y}, {x}), R(w, "drop", q, q, {y}, None), R(w, "delete", p, p, {}, {x}),
   R(w, "move", p, q, {}, None),
   S(m, "subscribe", {p, q}), S(m, "unsubscribe", {q}), S(m, "unsubscribe", {p, q}),
   S(m, "clear", {})}
=============================================================================
