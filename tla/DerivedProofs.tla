---------------------------- MODULE DerivedProofs ----------------------------
(***************************************************************************)
(* Proofs about what is derived from a project's files.                    *)
(*                                                                         *)
(* The index: a record is right unless its file's writer stands between    *)
(* its change of the file and its entry in the log, because from the entry *)
(* on HEAD is going to move past the marker.  Links: what fix_links owes   *)
(* is in a kick, in the pass at work on one, or in the write it makes.     *)
(***************************************************************************)
EXTENDS Derived, TLAPS

----------------------------------------------------------------------------
(* The inductive invariants *)

\* What is left of a write, a move and a deletion at each of their steps.
Stages(op) ==
  CASE op = "write" -> {<<"tree", "log", "index", "vector">>, <<"log", "index", "vector">>,
                        <<"index", "vector">>, <<"vector">>}
    [] op = "move" -> {<<"tree", "remove", "unindex", "index", "unvector", "vector", "log", "kick">>,
                       <<"remove", "unindex", "index", "unvector", "vector", "log", "kick">>,
                       <<"unindex", "index", "unvector", "vector", "log", "kick">>,
                       <<"index", "unvector", "vector", "log", "kick">>,
                       <<"unvector", "vector", "log", "kick">>, <<"vector", "log", "kick">>,
                       <<"log", "kick">>, <<"kick">>}
    [] op = "delete" -> {<<"unindex", "unvector", "log", "remove">>, <<"unvector", "log", "remove">>,
                         <<"log", "remove">>, <<"remove">>}

CallOK(c) ==
  /\ c \in Request /\ c.path # c.from /\ (c.op = "move" <=> c.from # NoPath)
  /\ c.op # "delete" => c.doc # NoDoc
ActType ==
  {Idle} \cup {r \in [call : Request, left : UNION {Stages(op) : op \in {"write", "move", "delete"}}] :
                 CallOK(r.call) /\ r.left \in Stages(r.call.op)}
Place(t) == {act[t].call.path, act[t].call.from}

\* The writers: each at a step of its request, no two at one file; a write's file is as
\* it wrote it.
ActInv ==
  /\ act \in [Writer -> ActType]
  /\ \A t, u \in Writer : t # u => Held(t) \cap Held(u) \subseteq {NoPath}
  /\ \A t \in Writer : act[t].call.op = "write" /\ ~Doing(t, "tree") =>
       tree[act[t].call.path] = act[t].call.doc

StoreInv ==
  /\ tree \in [Path -> File] /\ head \in Nat \ {0} /\ wal \in Nat
  /\ kicks \in Seq(Path \X Path) /\ Len(kicks) <= KickBuffer
  /\ ix \in [file : {"ok", "bad", "gone"}, recs : [Path -> File], marker : Nat] /\ ix.marker <= head
  /\ dep \in Deployments
  /\ {drifted, undone} \subseteq SUBSET Path /\ owed \subseteq Path \X Path

SweepPC == {"off", "idle", "wait", "head", "create", "walk", "scan", "fix", "write"}
SweepType ==
  [pc : SweepPC, todo : SUBSET Path, got : [Path -> File], at : Nat,
   kick : (Path \cup {NoPath}) \X (Path \cup {NoPath}), refs : SUBSET Markdown,
   ref : Markdown \cup {NoPath}, data : File]
Fixing == sw.pc \in {"scan", "fix", "write"}
\* The index goroutine: its walk, and the kick it works on with the file it rewrites.
SweepInv ==
  /\ sw \in SweepType /\ sw.at <= head
  /\ sw.pc = "create" => sw.todo = Path
  /\ Fixing => /\ sw.kick \in Path \X Path /\ sw.kick[1] # sw.kick[2]
               /\ (sw.refs \cup (IF sw.pc = "scan" THEN sw.todo ELSE {})) \cap {sw.kick[1], sw.kick[2]} = {}
  /\ sw.pc = "write" => /\ sw.ref \in Path \ {sw.kick[1], sw.kick[2]}
                        /\ sw.data # NoDoc /\ sw.data.link = sw.kick[1]
  /\ act[Sweeper].left # <<>> => sw.pc = "fix" /\ act[Sweeper].call.op = "write"
  /\ Doing(Sweeper, "tree") =>
       /\ act[Sweeper].call = Rewrite /\ tree[sw.ref] = sw.data
       /\ sw.ref \in Path \ {sw.kick[1], sw.kick[2]} /\ sw.data # NoDoc /\ sw.data.link = sw.kick[1]
  /\ \A i \in DOMAIN kicks : kicks[i][1] # kicks[i][2]

Item == [path : Path, doc : Doc]
Vector == [doc : Doc, model : Model]
WorkerPC == {"off", "list", "keys", "pick", "embed", "store", "select", "dead"}
WorkerType ==
  [pc : WorkerPC, ctx : {"server", "message"}, item : Item \cup {NoItem}, sweep : BOOLEAN,
   files : [Path -> File], left : SUBSET Path, had : BOOLEAN, fails : Nat, cfg : Model \cup {NoModel}]
VectorType ==
  [cfg : Model \cup {NoModel}, rdims : Nat, file : {"ok", "bad", "gone"},
   model : Model \cup {NoModel}, dims : Nat, keys : [Path -> {NoDoc} \cup Vector]]
\* The vector store and its worker.
VectorInv ==
  /\ vx \in VectorType /\ vw \in WorkerType
  /\ queue \in Seq(Item) /\ Len(queue) <= QueueSize /\ missed \subseteq Path
  /\ vw.pc \in {"embed", "store"} => vw.item \in Item
  /\ vw.pc = "store" => vw.cfg \in Model
  /\ \A p \in vw.left : vw.files[p] # NoDoc
  /\ OneModel
  /\ vx.file # "ok" => \A p \in Path : vx.keys[p] = NoDoc

\* A writer that has changed its files, and not the log yet; and one that has taken a
\* file out of the index and not out of the log.
Dirty(t) ==
  \/ act[t].call.op = "write" /\ Doing(t, "log")
  \/ act[t].call.op = "move" /\ ~Doing(t, "tree") /\ ~Doing(t, "kick")
Unlisting(t) == act[t].call.op = "delete" /\ (Doing(t, "unvector") \/ Doing(t, "log"))
Settled(p) == /\ p \notin drifted /\ tree[p] # NoDoc
              /\ \A t \in Writer : Dirty(t) => p \notin Place(t)

Excused(p) == p \in undone \/ \E t \in Writer : Unlisting(t) /\ act[t].call.path = p

\* With the log drained, the records under the marker HEAD are those of the files; only a
\* file that is about to be deleted, or was not after all, may have none.  A walk is on
\* the way to that.
IndexInv ==
  /\ IndexHealthy /\ wal = 0 =>
       \A p \in Path : Settled(p) =>
         \/ ix.recs[p] = tree[p]
         \/ ix.recs[p] = NoDoc /\ Excused(p)
  /\ sw.pc \in {"create", "walk"} /\ sw.at = head /\ wal = 0 =>
       \A p \in Path \ sw.todo : Settled(p) => sw.got[p] = tree[p]

\* Where the link of file p to the moved file is going to be repaired.
Queued(p, src) == \E i \in DOMAIN kicks : kicks[i][1] = src /\ kicks[i][2] # p
InHand(p, src) ==
  /\ sw.kick[1] = src
  /\ \/ Fixing /\ p \in sw.refs
     \/ sw.pc = "scan" /\ p \in sw.todo
     \/ sw.pc = "write" /\ p = sw.ref /\ tree[p] = sw.data
     \/ Doing(Sweeper, "tree") /\ p = sw.ref
LinksInv ==
  \A o \in owed :
    /\ o[1] # o[2] /\ LinksTo(o[1], tree[o[1]], o[2])
    /\ Queued(o[1], o[2]) \/ InHand(o[1], o[2])

DerivedInv == ActInv /\ StoreInv /\ SweepInv /\ VectorInv /\ IndexInv /\ LinksInv

----------------------------------------------------------------------------
(* Requests and their steps *)

LEMMA Types ==
  /\ Sweeper \in Writer /\ Task \subseteq Writer /\ Sweeper \notin Task
  /\ NoDoc \notin Doc /\ NoPath \notin Path /\ Empty \in [Path -> File]
  /\ Idle \in ActType /\ Idle.left = <<>> /\ Idle.call = NoCall /\ NoCall.path = NoPath /\ NoCall.from = NoPath
  /\ Start \in [Path -> File]
BY DerivedAssumption DEF Writer, File, Empty, Idle, NoCall, ActType

Ops == {"write", "move", "delete"}
\* The step after a step.
After(op, step) ==
  CASE op = "write" -> [tree |-> "log", log |-> "index", index |-> "vector", vector |-> "end"][step]
    [] op = "move" -> [tree |-> "remove", remove |-> "unindex", unindex |-> "index", index |-> "unvector",
                       unvector |-> "vector", vector |-> "log", log |-> "kick", kick |-> "end"][step]
    [] op = "delete" -> [unindex |-> "unvector", unvector |-> "log", log |-> "remove", remove |-> "end"][step]
StepsOf(op) ==
  CASE op = "write" -> {"tree", "log", "index", "vector"}
    [] op = "move" -> {"tree", "remove", "unindex", "index", "unvector", "vector", "log", "kick"}
    [] op = "delete" -> {"unindex", "unvector", "log", "remove"}

\* The lists of steps are what is left after each step.
LEMMA Lists ==
  ASSUME NEW op \in Ops, NEW l \in Stages(op)
  PROVE  /\ l # <<>> /\ Len(l) \in 1..8 /\ Head(l) \in StepsOf(op)
         /\ l = <<"kick">> <=> Head(l) = "kick"
         /\ After(op, Head(l)) = "end" <=> Tail(l) = <<>>
         /\ After(op, Head(l)) # "end" => Tail(l) \in Stages(op) /\ Head(Tail(l)) = After(op, Head(l))
<1>1. CASE op = "write"
  <2>1. CASE l = <<"tree", "log", "index", "vector">>
    BY <1>1, <2>1 DEF Stages, StepsOf, After
  <2>2. CASE l = <<"log", "index", "vector">>
    BY <1>1, <2>2 DEF Stages, StepsOf, After
  <2>3. CASE l = <<"index", "vector">>
    BY <1>1, <2>3 DEF Stages, StepsOf, After
  <2>4. CASE l = <<"vector">>
    BY <1>1, <2>4 DEF Stages, StepsOf, After
  <2> QED BY <1>1, <2>1, <2>2, <2>3, <2>4 DEF Stages
<1>2. CASE op = "move"
  <2>1. CASE l = <<"tree", "remove", "unindex", "index", "unvector", "vector", "log", "kick">>
    BY <1>2, <2>1 DEF Stages, StepsOf, After
  <2>2. CASE l = <<"remove", "unindex", "index", "unvector", "vector", "log", "kick">>
    BY <1>2, <2>2 DEF Stages, StepsOf, After
  <2>3. CASE l = <<"unindex", "index", "unvector", "vector", "log", "kick">>
    BY <1>2, <2>3 DEF Stages, StepsOf, After
  <2>4. CASE l = <<"index", "unvector", "vector", "log", "kick">>
    BY <1>2, <2>4 DEF Stages, StepsOf, After
  <2>5. CASE l = <<"unvector", "vector", "log", "kick">>
    BY <1>2, <2>5 DEF Stages, StepsOf, After
  <2>6. CASE l = <<"vector", "log", "kick">>
    BY <1>2, <2>6 DEF Stages, StepsOf, After
  <2>7. CASE l = <<"log", "kick">>
    BY <1>2, <2>7 DEF Stages, StepsOf, After
  <2>8. CASE l = <<"kick">>
    BY <1>2, <2>8 DEF Stages, StepsOf, After
  <2> QED BY <1>2, <2>1, <2>2, <2>3, <2>4, <2>5, <2>6, <2>7, <2>8 DEF Stages
<1>3. CASE op = "delete"
  <2>1. CASE l = <<"unindex", "unvector", "log", "remove">>
    BY <1>3, <2>1 DEF Stages, StepsOf, After
  <2>2. CASE l = <<"unvector", "log", "remove">>
    BY <1>3, <2>2 DEF Stages, StepsOf, After
  <2>3. CASE l = <<"log", "remove">>
    BY <1>3, <2>3 DEF Stages, StepsOf, After
  <2>4. CASE l = <<"remove">>
    BY <1>3, <2>4 DEF Stages, StepsOf, After
  <2> QED BY <1>3, <2>1, <2>2, <2>3, <2>4 DEF Stages
<1> QED BY <1>1, <1>2, <1>3 DEF Ops

LEMMA Busy ==
  ASSUME act \in [Writer -> ActType], NEW t \in Writer, act[t].left # <<>>
  PROVE  /\ CallOK(act[t].call) /\ act[t].left \in Stages(act[t].call.op) /\ act[t].call.op \in Ops
         /\ act[t] \in [call : Request, left : UNION {Stages(op) : op \in Ops}]
         /\ Head(act[t].left) \in StepsOf(act[t].call.op)
<1>1. act[t] \in ActType /\ act[t] # Idle
  BY Types
<1>2. /\ CallOK(act[t].call) /\ act[t].left \in Stages(act[t].call.op) /\ act[t].call.op \in Ops
      /\ act[t] \in [call : Request, left : UNION {Stages(op) : op \in Ops}]
  BY <1>1 DEF ActType, CallOK, Request, Ops
<1> QED BY <1>2, Lists

\* A writer with nothing left has no request.
LEMMA IdleIs ==
  ASSUME act \in [Writer -> ActType], NEW t \in Writer, act[t].left = <<>>
  PROVE  act[t] = Idle /\ act[t].call.op = "none"
<1>1. act[t] \in ActType
  OBVIOUS
<1>2. ASSUME act[t] # Idle PROVE FALSE
  <2>1. CallOK(act[t].call) /\ act[t].left \in Stages(act[t].call.op)
    BY <1>1, <1>2 DEF ActType
  <2>2. act[t].call.op \in Ops
    BY <2>1 DEF CallOK, Request, Ops
  <2> QED BY <2>1, <2>2, Lists
<1> QED BY <1>2 DEF Idle, NoCall

\* A step of one writer's request.
HeldBy(n) == IF n.left \in {<<>>, <<"kick">>} THEN {} ELSE {n.call.path, n.call.from}

\* A writer's step: it goes on to the next of the list, or its request ends.
LEMMA NextStep ==
  ASSUME act \in [Writer -> ActType], NEW t \in Writer, act[t].left # <<>>, Advance(t)
  PROVE  /\ CallOK(act[t].call) /\ act[t].call.op \in Ops
         /\ Head(act[t].left) \in StepsOf(act[t].call.op)
         /\ act' = [act EXCEPT ![t] = act'[t]] /\ act'[t] \in ActType
         /\ \A u \in Writer \ {t} : act'[u] = act[u]
         /\ LET next == After(act[t].call.op, Head(act[t].left)) IN
              /\ next = "end" => act'[t] = Idle
              /\ next # "end" => /\ act'[t].call = act[t].call /\ act'[t].left # <<>>
                                 /\ Head(act'[t].left) = next
         /\ HeldBy(act'[t]) \subseteq {act[t].call.path, act[t].call.from}
<1> DEFINE op == act[t].call.op
           l == act[t].left
           n == [act[t] EXCEPT !.left = Tail(l)]
<1>1. CallOK(act[t].call) /\ l \in Stages(op) /\ op \in Ops
      /\ act[t] \in [call : Request, left : UNION {Stages(o) : o \in Ops}] /\ Head(l) \in StepsOf(op)
  BY Busy
<1>2. /\ After(op, Head(l)) = "end" <=> Tail(l) = <<>>
      /\ After(op, Head(l)) # "end" => Tail(l) \in Stages(op) /\ Head(Tail(l)) = After(op, Head(l))
  BY <1>1, Lists
<1>3. act' = [act EXCEPT ![t] = IF Tail(l) = <<>> THEN Idle ELSE n]
  BY DEF Advance
<1>4. act'[t] = (IF Tail(l) = <<>> THEN Idle ELSE n) /\ \A u \in Writer \ {t} : act'[u] = act[u]
  BY <1>3
<1>5. act' = [act EXCEPT ![t] = act'[t]]
  BY <1>3, <1>4
<1>6. CASE Tail(l) = <<>>
  <2>1. act'[t] = Idle /\ HeldBy(Idle) = {}
    BY <1>4, <1>6, Types DEF HeldBy
  <2> QED BY <1>1, <1>2, <1>4, <1>5, <1>6, <2>1, Types
<1>7. CASE Tail(l) # <<>>
  <2>1. Tail(l) \in Stages(op) /\ Head(Tail(l)) = After(op, Head(l)) /\ After(op, Head(l)) # "end"
    BY <1>2, <1>7
  <2>2. n.call = act[t].call /\ n.left = Tail(l) /\ n \in [call : Request, left : UNION {Stages(o) : o \in Ops}]
    BY <1>1, <2>1
  <2>3. act'[t] = n
    BY <1>4, <1>7
  <2> HIDE DEF n
  <2>4. n \in ActType /\ HeldBy(n) \subseteq {act[t].call.path, act[t].call.from}
    BY <1>1, <2>1, <2>2 DEF ActType, Ops, HeldBy
  <2> QED BY <1>1, <1>4, <1>5, <1>7, <2>1, <2>2, <2>3, <2>4
<1> QED BY <1>6, <1>7

LEMMA Nexts ==
  /\ After("write", "tree") = "log" /\ After("write", "log") = "index" /\ After("write", "index") = "vector"
  /\ After("write", "vector") = "end"
  /\ After("move", "tree") = "remove" /\ After("move", "remove") = "unindex" /\ After("move", "unindex") = "index"
  /\ After("move", "index") = "unvector" /\ After("move", "unvector") = "vector" /\ After("move", "vector") = "log"
  /\ After("move", "log") = "kick" /\ After("move", "kick") = "end"
  /\ After("delete", "unindex") = "unvector" /\ After("delete", "unvector") = "log"
  /\ After("delete", "log") = "remove" /\ After("delete", "remove") = "end"
  /\ \A op \in Ops, s \in {"tree", "remove", "unindex", "index", "unvector", "vector", "log", "kick"} :
       s \in StepsOf(op) => After(op, s) # "tree"
BY DEF After, StepsOf, Ops

\* No step of a request but the first is the writing of the tree, and a writer at a step
\* before the kick has its locks.
LEMMA Steady ==
  ASSUME act \in [Writer -> ActType], NEW t \in Writer, act[t].left # <<>>, Advance(t)
  PROVE  /\ ~Doing(t, "tree")' /\ act' \in [Writer -> ActType]
         /\ ~Doing(t, "kick") => Held(t) = Place(t)
<1>1. /\ act[t].call.op \in Ops /\ Head(act[t].left) \in StepsOf(act[t].call.op)
      /\ act' = [act EXCEPT ![t] = act'[t]] /\ act'[t] \in ActType
  BY NextStep
<1>2. LET next == After(act[t].call.op, Head(act[t].left)) IN
        (next = "end" => act'[t] = Idle) /\ (next # "end" => Head(act'[t].left) = next)
  BY NextStep
<1>3. After(act[t].call.op, Head(act[t].left)) # "tree"
  BY <1>1, Nexts DEF StepsOf, Ops
<1>4. ~Doing(t, "tree")'
  BY <1>2, <1>3, Types DEF Doing
<1>5. ~Doing(t, "kick") => act[t].left # <<"kick">>
  BY DEF Doing
<1> QED BY <1>1, <1>4, <1>5 DEF Held, Place

LEMMA ActStep ==
  ASSUME ActInv, NEW t \in Writer, NEW n \in ActType, act' = [act EXCEPT ![t] = n],
         HeldBy(n) \subseteq Held(t),
         \A p \in Path \ Held(t) : tree'[p] = tree[p],
         n.call.op = "write" /\ ~Doing(t, "tree")' => tree'[n.call.path] = n.call.doc
  PROVE  ActInv'
<1>1. act \in [Writer -> ActType] /\ act' \in [Writer -> ActType]
  BY DEF ActInv
<1>2. act'[t] = n /\ \A u \in Writer \ {t} : act'[u] = act[u]
  BY <1>1
<1>3. Held(t)' \subseteq Held(t) /\ \A u \in Writer \ {t} : Held(u)' = Held(u)
  BY <1>2 DEF Held, HeldBy
<1>4. \A u, v \in Writer : u # v => (Held(u) \cap Held(v))' \subseteq {NoPath}
  BY <1>3 DEF ActInv
<1>5. ASSUME NEW u \in Writer, act'[u].call.op = "write", ~Doing(u, "tree")'
      PROVE  tree'[act'[u].call.path] = act'[u].call.doc
  <2>1. CASE u = t
    BY <1>2, <1>5, <2>1
  <2>2. CASE u # t
    <3>1. act'[u] = act[u]
      BY <1>2, <2>2
    <3>2. tree[act[u].call.path] = act[u].call.doc
      BY <1>5, <3>1 DEF ActInv, Doing
    <3>3. act[u].left # <<>>
      BY <1>1, <1>5, <3>1, IdleIs
    <3>4. act[u].call.path \in Path /\ act[u].left # <<"kick">>
      <4>1. CallOK(act[u].call) /\ Head(act[u].left) \in StepsOf("write")
        BY <1>1, <1>5, <3>1, <3>3, Busy
      <4> QED BY <4>1 DEF CallOK, Request, StepsOf
    <3>5. act[u].call.path \in Held(u) /\ act[u].call.path # NoPath
      BY <3>3, <3>4, Types DEF Held
    <3>6. act[u].call.path \notin Held(t)
      BY <2>2, <3>5 DEF ActInv
    <3> QED BY <3>1, <3>2, <3>4, <3>6
  <2> QED BY <2>1, <2>2
<1> QED BY <1>1, <1>4, <1>5 DEF ActInv

\* A request that begins has its files for itself.
Fresh(c) == /\ c \in Request /\ c.path # c.from /\ (c.op = "move" <=> c.from # NoPath)
            /\ c.op = "write" => c.doc # NoDoc
Begun(c) == [call |-> IF c.op = "move" THEN [c EXCEPT !.doc = tree[c.from]] ELSE c, left |-> Steps(c.op)]
LEMMA BegunIs ==
  ASSUME StoreInv, NEW t \in Writer, NEW c, Fresh(c), Begins(t, c)
  PROVE  /\ act' = [act EXCEPT ![t] = Begun(c)] /\ Begun(c) \in ActType
         /\ Begun(c).left # <<>> /\ (c.op # "delete" => Head(Begun(c).left) = "tree")
         /\ Begun(c).call.path = c.path /\ Begun(c).call.from = c.from /\ Begun(c).call.op = c.op
         /\ c.op = "write" => Begun(c) = [call |-> c, left |-> <<"tree", "log", "index", "vector">>]
<1>1. act' = [act EXCEPT ![t] = Begun(c)]
  BY DEF Begins, Begun
<1>2. c.op \in Ops /\ c.path \in Path /\ c.from \in Path \cup {NoPath} /\ c.doc \in File
  BY DEF Fresh, Request, Ops
<1>3. Steps(c.op) \in Stages(c.op)
      /\ Steps(c.op) # <<>> /\ (c.op # "delete" => Head(Steps(c.op)) = "tree")
      /\ (c.op = "write" => Steps(c.op) = <<"tree", "log", "index", "vector">>)
  BY <1>2 DEF Ops, Steps, Stages
<1>4. CASE c.op = "move"
  <2>1. c.from \in Path /\ tree[c.from] # NoDoc /\ tree[c.from] \in File
    BY <1>2, <1>4 DEF Begins, Admitted, Fresh, StoreInv
  <2>2. DEFINE d == [c EXCEPT !.doc = tree[c.from]]
  <2>3. d \in Request /\ d.path = c.path /\ d.from = c.from /\ d.op = c.op /\ d.doc # NoDoc
    BY <2>1 DEF Fresh, Request
  <2>4. CallOK(d)
    BY <1>4, <2>3 DEF CallOK, Fresh
  <2>5. Begun(c) = [call |-> d, left |-> Steps(c.op)]
    BY <1>4 DEF Begun
  <2> HIDE DEF d
  <2> QED BY <1>1, <1>2, <1>3, <1>4, <2>3, <2>4, <2>5 DEF ActType, Ops
<1>5. CASE c.op # "move"
  <2>1. Begun(c) = [call |-> c, left |-> Steps(c.op)]
    BY <1>5 DEF Begun
  <2>2. CallOK(c)
    BY <1>2, <1>5 DEF CallOK, Fresh, Ops
  <2>3. c \in Request
    BY DEF Fresh
  <2> QED BY <1>1, <1>2, <1>3, <2>1, <2>2, <2>3 DEF ActType, Ops
<1> QED BY <1>4, <1>5

LEMMA ActBegins ==
  ASSUME ActInv, StoreInv, NEW t \in Writer, NEW c, Fresh(c), Begins(t, c), tree' = tree
  PROVE  ActInv'
<1>1. /\ act' = [act EXCEPT ![t] = Begun(c)] /\ Begun(c) \in ActType
      /\ Begun(c).left # <<>> /\ (c.op # "delete" => Head(Begun(c).left) = "tree") /\ Begun(c).call.op = c.op
      /\ HeldBy(Begun(c)) \subseteq {c.path, c.from}
  BY BegunIs DEF HeldBy
<1>2. act \in [Writer -> ActType] /\ act' \in [Writer -> ActType]
  BY <1>1 DEF ActInv
<1>3. act'[t] = Begun(c) /\ \A u \in Writer \ {t} : act'[u] = act[u]
  BY <1>1, <1>2
<1>4. Held(t)' \subseteq {c.path, c.from} /\ \A u \in Writer \ {t} : Held(u)' = Held(u)
  BY <1>1, <1>3 DEF Held, HeldBy
<1>5. \A u \in Writer : {c.path, c.from} \cap Held(u) \subseteq {NoPath}
  BY DEF Begins, Unlocked
<1>6. \A u, v \in Writer : u # v => (Held(u) \cap Held(v))' \subseteq {NoPath}
  BY <1>4, <1>5 DEF ActInv
<1>7. \A u \in Writer : act'[u].call.op = "write" /\ ~Doing(u, "tree")' =>
        tree'[act'[u].call.path] = act'[u].call.doc
  BY <1>1, <1>3 DEF ActInv, Doing
<1> QED BY <1>2, <1>6, <1>7 DEF ActInv

\* What the changes of the working tree do.
LEMMA TreeWritten ==
  ASSUME NEW t \in Writer, act \in [Writer -> ActType], tree \in [Path -> File], WriteTree(t)
  PROVE  /\ tree' = [tree EXCEPT ![act[t].call.path] = act[t].call.doc] /\ tree' \in [Path -> File]
         /\ Held(t) = Place(t) /\ \A p \in Path \ {act[t].call.path} : tree'[p] = tree[p]
         /\ tree'[act[t].call.path] = act[t].call.doc /\ act[t].call.path \in Path
         /\ Doing(t, "tree") /\ Advance(t) /\ CallOK(act[t].call) /\ act[t].left # <<>>
         /\ act[t].call.op \in {"write", "move"}
<1>1. tree' = [tree EXCEPT ![act[t].call.path] = act[t].call.doc] /\ Doing(t, "tree") /\ Advance(t)
  BY DEF WriteTree
<1>2. act[t].left # <<>> /\ ~Doing(t, "kick")
  BY <1>1 DEF Doing
<1>3. /\ CallOK(act[t].call) /\ act[t].call.op \in Ops /\ Head(act[t].left) \in StepsOf(act[t].call.op)
      /\ Held(t) = Place(t)
  BY <1>1, <1>2, NextStep, Steady
<1>4. act[t].call.op \in {"write", "move"}
  BY <1>1, <1>3 DEF StepsOf, Ops, Doing
<1>5. act[t].call.path \in Path /\ act[t].call.doc \in File
  BY <1>3 DEF CallOK, Request
<1> QED BY <1>1, <1>2, <1>3, <1>4, <1>5

LEMMA FileRemoved ==
  ASSUME NEW t \in Writer, act \in [Writer -> ActType], tree \in [Path -> File], RemoveFile(t)
  PROVE  /\ Source(act[t].call) \in Path /\ Source(act[t].call) \in Place(t)
         /\ tree' = [tree EXCEPT ![Source(act[t].call)] = NoDoc] /\ tree' \in [Path -> File]
         /\ Held(t) = Place(t) /\ \A p \in Path \ {Source(act[t].call)} : tree'[p] = tree[p]
         /\ Doing(t, "remove") /\ Advance(t) /\ CallOK(act[t].call) /\ act[t].left # <<>>
         /\ act[t].call.op \in {"move", "delete"} /\ tree'[Source(act[t].call)] = NoDoc
<1>1. tree' = [tree EXCEPT ![Source(act[t].call)] = NoDoc] /\ Doing(t, "remove") /\ Advance(t)
  BY DEF RemoveFile
<1>2. act[t].left # <<>> /\ ~Doing(t, "kick")
  BY <1>1 DEF Doing
<1>3. /\ CallOK(act[t].call) /\ act[t].call.op \in Ops /\ Head(act[t].left) \in StepsOf(act[t].call.op)
      /\ Held(t) = Place(t)
  BY <1>1, <1>2, NextStep, Steady
<1>4. act[t].call.op \in {"move", "delete"}
  BY <1>1, <1>3 DEF StepsOf, Ops, Doing
<1>5. Source(act[t].call) \in Path /\ Source(act[t].call) \in Place(t) /\ NoDoc \in File
  BY <1>3, <1>4 DEF CallOK, Request, Source, Place, File
<1> QED BY <1>1, <1>2, <1>3, <1>4, <1>5

\* What a writer's step makes of its request.
WriterMove(t) ==
  \/ WriteTree(t) \/ RemoveFile(t) \/ AppendLog(t) \/ AppendFails(t) \/ Kick(t)
  \/ IndexDelete(t, FALSE) \/ IndexDelete(t, TRUE) \/ IndexPut(t, FALSE) \/ IndexPut(t, TRUE)
  \/ VectorDelete(t, FALSE) \/ VectorDelete(t, TRUE) \/ VectorEnqueue(t)

LEMMA WriterDoes ==
  ASSUME NEW t, WriterMove(t)
  PROVE  /\ act[t].left # <<>>
         /\ Advance(t) \/ (AppendFails(t) /\ act' = [act EXCEPT ![t] = Idle])
         /\ WriteTree(t) \/ RemoveFile(t) \/ tree' = tree
         /\ sw' = sw /\ head' = head /\ (Kick(t) \/ kicks' = kicks)
<1>1. CASE WriteTree(t)
  BY <1>1 DEF WriteTree, Doing
<1>2. CASE RemoveFile(t)
  BY <1>2 DEF RemoveFile, Doing
<1>3. CASE AppendLog(t)
  BY <1>3 DEF AppendLog, Doing, indexVars
<1>4. CASE AppendFails(t)
  BY <1>4 DEF AppendFails, Doing, indexVars, GiveUp
<1>5. CASE Kick(t)
  BY <1>5 DEF Kick, Doing
<1>6. CASE \E lost \in BOOLEAN : IndexDelete(t, lost)
  BY <1>6 DEF IndexDelete, Doing
<1>7. CASE \E lost \in BOOLEAN : IndexPut(t, lost)
  BY <1>7 DEF IndexPut, Doing
<1>8. CASE (\E lost \in BOOLEAN : VectorDelete(t, lost)) \/ VectorEnqueue(t)
  BY <1>8 DEF VectorDelete, VectorEnqueue, Doing, indexVars
<1> QED BY <1>1, <1>2, <1>3, <1>4, <1>5, <1>6, <1>7, <1>8 DEF WriterMove

LEMMA ActEnds ==
  ASSUME ActInv, NEW t \in Writer, act' = [act EXCEPT ![t] = Idle], \A p \in Path \ Held(t) : tree'[p] = tree[p]
  PROVE  ActInv'
<1>1. Idle \in ActType /\ HeldBy(Idle) = {} /\ Idle.call.op # "write"
  BY Types DEF HeldBy, Idle, NoCall
<1> QED BY <1>1, ActStep

LEMMA ActWriter ==
  ASSUME ActInv, tree \in [Path -> File], NEW t \in Writer, WriterMove(t)
  PROVE  ActInv'
<1>1. act \in [Writer -> ActType]
  BY DEF ActInv
<1>2. act[t].left # <<>> /\ (WriteTree(t) \/ RemoveFile(t) \/ tree' = tree)
  BY WriterDoes
<1>3. \A p \in Path \ Held(t) : tree'[p] = tree[p]
  <2>1. CASE WriteTree(t)
    BY <1>1, <2>1, TreeWritten DEF Place
  <2>2. CASE RemoveFile(t)
    BY <1>1, <2>2, FileRemoved
  <2> QED BY <1>2, <2>1, <2>2
<1>4. CASE act' = [act EXCEPT ![t] = Idle]
  BY <1>3, <1>4, ActEnds
<1>5. CASE Advance(t) /\ act' # [act EXCEPT ![t] = Idle]
  <2> DEFINE n == act'[t]
  <2>1. /\ CallOK(act[t].call) /\ act[t].call.op \in Ops /\ Head(act[t].left) \in StepsOf(act[t].call.op)
        /\ act' = [act EXCEPT ![t] = n] /\ n \in ActType
        /\ HeldBy(n) \subseteq {act[t].call.path, act[t].call.from}
    BY <1>1, <1>2, <1>5, NextStep
  <2>2. n.call = act[t].call /\ After(act[t].call.op, Head(act[t].left)) # "end"
    <3>1. After(act[t].call.op, Head(act[t].left)) = "end" => n = Idle
      BY <1>1, <1>2, <1>5, NextStep
    <3>2. After(act[t].call.op, Head(act[t].left)) # "end" => n.call = act[t].call
      BY <1>1, <1>2, <1>5, NextStep
    <3> QED BY <1>5, <2>1, <3>1, <3>2
  <2>3. HeldBy(n) \subseteq Held(t)
    <3>1. ~Doing(t, "kick")
      BY <2>1, <2>2, Nexts DEF Doing, StepsOf, Ops
    <3> QED BY <1>1, <1>2, <1>5, <2>1, <3>1, Steady DEF Place
  <2>4. ASSUME n.call.op = "write" PROVE tree'[n.call.path] = n.call.doc
    <3>1. CASE WriteTree(t)
      BY <1>1, <2>2, <3>1, TreeWritten
    <3>2. CASE tree' = tree /\ ~WriteTree(t)
      <4>1. ~Doing(t, "tree")
        BY <3>2 DEF WriterMove, RemoveFile, AppendLog, AppendFails, Kick, IndexDelete, IndexPut, VectorDelete,
                    VectorEnqueue, Doing
      <4> QED BY <2>2, <2>4, <3>2, <4>1 DEF ActInv
    <3>3. CASE RemoveFile(t)
      BY <1>1, <2>2, <2>4, <3>3, FileRemoved
    <3> QED BY <1>2, <3>1, <3>2, <3>3
  <2> HIDE DEF n
  <2> QED BY <1>3, <2>1, <2>3, <2>4, ActStep
<1> QED BY <1>4, <1>5, WriterDoes

LEMMA ActSame ==
  ASSUME ActInv, act' = act, tree' = tree
  PROVE  ActInv'
BY DEF ActInv, Held, Doing

LEMMA ActIdle ==
  ASSUME act' = [t \in Writer |-> Idle]
  PROVE  ActInv'
<1>1. \A t \in Writer : act'[t] = Idle /\ Held(t)' = {} /\ act'[t].call.op # "write"
  BY Types DEF Held, Idle, NoCall
<1>2. act' \in [Writer -> ActType]
  BY Types
<1> QED BY <1>1, <1>2, Types DEF ActInv

\* What fix_links is about to write.
LEMMA RewriteFresh ==
  ASSUME SweepInv, sw.pc = "write"
  PROVE  /\ Fresh(Rewrite) /\ Rewrite.op = "write" /\ Rewrite.path = sw.ref /\ Rewrite.from = NoPath
         /\ Rewrite.ifMatch = {sw.data}
         /\ Rewrite.doc = [sw.data EXCEPT !.link = sw.kick[2]]
         /\ sw.ref \in Path /\ sw.data \in Doc /\ sw.kick \in Path \X Path
<1>1. sw.ref \in Path /\ sw.data \in File /\ sw.data # NoDoc /\ sw.data.link = sw.kick[1] /\ sw.kick \in Path \X Path
  BY DEF SweepInv, SweepType, Fixing
<1>2. sw.data \in Doc
  BY <1>1 DEF File
<1>3. sw.kick[1] \in Path /\ sw.kick[2] \in Path
  BY <1>1
<1>4. rewriteLinks(sw.data, sw.kick[1], sw.kick[2]) = [sw.data EXCEPT !.link = sw.kick[2]]
  BY <1>1 DEF rewriteLinks
<1>5. [sw.data EXCEPT !.link = sw.kick[2]] \in Doc
  BY <1>2, <1>3 DEF Doc
<1>6. {sw.data} \in SUBSET File /\ NoPath \notin Path /\ NoDoc \notin Doc
  BY <1>1, Types
<1>7. Rewrite \in Request
  BY <1>1, <1>4, <1>5, <1>6 DEF Rewrite, Request, File
<1> QED BY <1>1, <1>2, <1>4, <1>5, <1>6, <1>7 DEF Rewrite, Fresh

\* The steps, by what they leave alone.
VectorMove ==
  \/ ReconcileAllVectors \/ TakeItem \/ VectorStep \/ Embed(TRUE) \/ Store(TRUE) \/ HandlerReturns
  \/ \E m \in Model \cup {NoModel} : SetVectorConfig(m)
SweepMove ==
  \/ ReconcileAllIndexes \/ WaitForWAL \/ ReconcileIndex \/ CreateIndex(FALSE) \/ CreateIndex(TRUE)
  \/ ReplaceAll(FALSE) \/ ReplaceAll(TRUE) \/ FixLinksEnd
  \/ \E p \in Path : WalkFile(p) \/ discoverReferrers(p) \/ ReadReferrer(p)
rest == <<tree, head, wal, act, calls, kicks, owed, dep, drifted, undone>>

LEMMA SweepMoves ==
  ASSUME SweepMove
  PROVE  UNCHANGED rest /\ UNCHANGED <<vx, queue, vw, missed>>
<1>1. CASE ReconcileAllIndexes \/ WaitForWAL \/ ReconcileIndex \/ FixLinksEnd
  BY <1>1
     DEF ReconcileAllIndexes, WaitForWAL, ReconcileIndex, FixLinksEnd, sweepOnly, tk, ghost, vectorVars, rest
<1>2. CASE CreateIndex(FALSE) \/ CreateIndex(TRUE)
  BY <1>2 DEF CreateIndex, sweepOnly, tk, ghost, vectorVars, rest
<1>3. CASE ReplaceAll(FALSE) \/ ReplaceAll(TRUE)
  BY <1>3 DEF ReplaceAll, sweepOnly, tk, ghost, vectorVars, rest
<1>4. CASE \E p \in Path : WalkFile(p) \/ discoverReferrers(p) \/ ReadReferrer(p)
  BY <1>4 DEF WalkFile, discoverReferrers, ReadReferrer, sweepOnly, tk, ghost, vectorVars, rest
<1> QED BY <1>1, <1>2, <1>3, <1>4 DEF SweepMove

LEMMA VectorMoves ==
  ASSUME VectorMove
  PROVE  UNCHANGED rest /\ ix' = ix /\ sw' = sw
<1>1. CASE ReconcileAllVectors \/ TakeItem \/ HandlerReturns
  BY <1>1 DEF ReconcileAllVectors, TakeItem, HandlerReturns, workerOnly, tk, ghost, indexVars, rest
<1>2. CASE \E m \in Model \cup {NoModel} : SetVectorConfig(m)
  BY <1>2 DEF SetVectorConfig, tk, ghost, indexVars, rest
<1>3. CASE Embed(FALSE) \/ Embed(TRUE)
  <2>1. UNCHANGED workerOnly
    BY <1>3, Zenon DEF Embed
  <2> QED BY <2>1 DEF workerOnly, tk, ghost, indexVars, rest
<1>4. CASE ReconcileProject \/ ReadKeys \/ SweepEnd \/ \E p \in Path : PickFile(p)
  BY ZenonT(60), <1>4 DEF ReconcileProject, ReadKeys, SweepEnd, PickFile, workerOnly, tk, ghost, indexVars, rest
<1>5. CASE Store(FALSE) \/ Store(TRUE)
  <2>1. UNCHANGED workerOnly
    BY <1>5, Zenon DEF Store
  <2> QED BY <2>1 DEF workerOnly, tk, ghost, indexVars, rest
<1> QED BY <1>1, <1>2, <1>3, <1>4, <1>5 DEF VectorMove, VectorStep

LEMMA Moves ==
  ASSUME [Next]_vars
  PROVE  \/ \E t \in Task, c \in Call : Begin(t, c)
         \/ \E t \in Writer : WriterMove(t)
         \/ Commit \/ TakeKick \/ WriteReferrer \/ SweepMove \/ VectorMove
         \/ \E f \in {ix.file} \cup dep.damage, v \in HalfMade : Crash(f, v)
         \/ UNCHANGED vars
BY ZenonT(60) DEF Next, WriterStep, WriterFails, WriterMove, IndexStep, SweepMove, VectorMove

LEMMA CallsFresh ==
  \A c \in Call : Fresh(c)
<1>1. Call \subseteq Request
  BY DerivedAssumption
<1>2. \A c \in Call : c.path # c.from /\ (c.op = "move" <=> c.from # NoPath) /\ (c.op = "write" => c.doc # NoDoc)
  BY DerivedAssumption, Zenon
<1> QED BY <1>1, <1>2 DEF Fresh

\* Every step keeps the writers apart.
LEMMA ActNext ==
  ASSUME ActInv, StoreInv, SweepInv, [Next]_vars
  PROVE  ActInv'
<1>1. tree \in [Path -> File]
  BY DEF StoreInv
<1>2. CASE \E t \in Task, c \in Call : Begin(t, c)
  <2>1. PICK t \in Task, c \in Call : Begin(t, c)
    BY <1>2
  <2>2. Begins(t, c) /\ tree' = tree
    BY <2>1 DEF Begin
  <2> QED BY <2>2, ActBegins, CallsFresh, Types
<1>3. CASE \E t \in Writer : WriterMove(t)
  BY <1>1, <1>3, ActWriter
<1>4. CASE WriteReferrer
  <2>1. sw.pc = "write" /\ tree' = tree
    BY <1>4 DEF WriteReferrer
  <2>2. Begins(Sweeper, Rewrite) \/ act' = act
    BY <1>4 DEF WriteReferrer
  <2> QED BY <2>1, <2>2, RewriteFresh, ActBegins, ActSame, Types
<1>5. CASE \E f \in {ix.file} \cup dep.damage, v \in HalfMade : Crash(f, v)
  BY <1>5, ActIdle DEF Crash
<1>6. CASE UNCHANGED vars \/ Commit \/ TakeKick
  BY <1>6, ActSame DEF vars, Commit, TakeKick, tk
<1>7. CASE SweepMove \/ VectorMove
  BY <1>7, SweepMoves, VectorMoves, ActSame DEF rest
<1> QED BY <1>2, <1>3, <1>4, <1>5, <1>6, <1>7, Moves

----------------------------------------------------------------------------
(* What a writer does to the index file *)

IndexType == [file : {"ok", "bad", "gone"}, recs : [Path -> File], marker : Nat]

LEMMA Put ==
  ASSUME NEW x \in IndexType, NEW p \in Path, NEW d \in File
  PROVE  /\ PutRecord(x, p, d) \in IndexType
         /\ x.file = "ok" => PutRecord(x, p, d) = [x EXCEPT !.recs = [x.recs EXCEPT ![p] = d]]
         /\ x.file = "gone" => PutRecord(x, p, d).marker = 0
         /\ x.file = "bad" => PutRecord(x, p, d) = x
<1>1. CASE x.file = "ok"
  <2>1. PutRecord(x, p, d) = [x EXCEPT !.recs = [x.recs EXCEPT ![p] = d]]
    BY <1>1 DEF PutRecord, indexFor
  <2>2. [x.recs EXCEPT ![p] = d] \in [Path -> File]
    BY DEF IndexType
  <2> QED BY <1>1, <2>1, <2>2 DEF IndexType
<1>2. CASE x.file = "gone"
  <2>1. PutRecord(x, p, d) = [file |-> "ok", recs |-> [Empty EXCEPT ![p] = d], marker |-> 0]
    BY <1>2 DEF PutRecord, indexFor
  <2>2. [Empty EXCEPT ![p] = d] \in [Path -> File]
    BY Types
  <2> QED BY <1>2, <2>1, <2>2 DEF IndexType
<1>3. CASE x.file = "bad"
  BY <1>3 DEF PutRecord, indexFor
<1> QED BY <1>1, <1>2, <1>3 DEF IndexType

\* What the update of a request's record leaves: a new index is not healthy.
LEMMA Updated ==
  ASSUME StoreInv, NEW p \in Path, NEW d \in File, ix' \in {ix, PutRecord(ix, p, d)}
  PROVE  /\ ix' \in IndexType /\ ix'.marker \in {ix.marker, 0}
         /\ ix.file # "ok" => ix'.file # "ok" \/ ix'.marker = 0
         /\ ix.file = "ok" =>
              /\ \A q \in Path \ {p} : ix'.recs[q] = ix.recs[q]
              /\ ix'.recs[p] \in {ix.recs[p], d}
<1>1. ix \in IndexType
  BY DEF StoreInv, IndexType
<1>2. CASE ix' = ix
  BY <1>1, <1>2 DEF IndexType
<1>3. CASE ix' = PutRecord(ix, p, d)
  <2>1. /\ ix' \in IndexType
        /\ ix.file = "ok" => ix' = [ix EXCEPT !.recs = [ix.recs EXCEPT ![p] = d]]
        /\ ix.file = "gone" => ix'.marker = 0
        /\ ix.file = "bad" => ix' = ix
    BY <1>1, <1>3, Put
  <2>2. CASE ix.file = "ok"
    BY <1>1, <2>1, <2>2 DEF IndexType
  <2> QED BY <1>1, <2>1, <2>2 DEF IndexType
<1> QED BY <1>2, <1>3

LEMMA StoreIs == StoreInv => ix \in IndexType
BY DEF StoreInv, IndexType

\* A request's paths.
LEMMA CallTypes ==
  ASSUME NEW c, CallOK(c)
  PROVE  /\ c.path \in Path /\ c.from \in Path \cup {NoPath} /\ c.doc \in File
         /\ c.path # c.from /\ (c.op = "move" => c.from \in Path) /\ (c.op # "move" => c.from = NoPath)
         /\ (c.op # "delete" => c.doc \in Doc) /\ c.op \in Ops /\ c.path # NoPath
BY Types DEF CallOK, Request, File, Ops

\* The steps of a request that touch its records and vectors.
LEMMA DeletePlace ==
  ASSUME ActInv, NEW t \in Writer, Doing(t, "unindex") \/ Doing(t, "unvector")
  PROVE  /\ CallOK(act[t].call) /\ act[t].call.op \in {"move", "delete"}
         /\ Source(act[t].call) \in Path /\ Source(act[t].call) \in Place(t)
<1>1. act[t].left # <<>> /\ CallOK(act[t].call) /\ act[t].call.op \in Ops
      /\ Head(act[t].left) \in StepsOf(act[t].call.op)
  BY Busy DEF ActInv, Doing
<1>2. act[t].call.op \in {"move", "delete"}
  BY <1>1 DEF StepsOf, Ops, Doing
<1> QED BY <1>1, <1>2 DEF CallOK, Request, Source, Place

LEMMA PutPlace ==
  ASSUME ActInv, NEW t \in Writer, Doing(t, "index") \/ Doing(t, "vector")
  PROVE  /\ CallOK(act[t].call) /\ act[t].call.op \in {"write", "move"}
         /\ act[t].call.path \in Path /\ act[t].call.doc \in File /\ act[t].call.doc # NoDoc
<1>1. act[t].left # <<>> /\ CallOK(act[t].call) /\ act[t].call.op \in Ops
      /\ Head(act[t].left) \in StepsOf(act[t].call.op)
  BY Busy DEF ActInv, Doing
<1>2. act[t].call.op \in {"write", "move"}
  BY <1>1 DEF StepsOf, Ops, Doing
<1> QED BY <1>1, <1>2 DEF CallOK, Request

LEMMA KickPlace ==
  ASSUME ActInv, NEW t \in Writer, Kick(t)
  PROVE  act[t].call.op = "move" /\ CallOK(act[t].call)
<1>1. act[t].left # <<>> /\ CallOK(act[t].call) /\ act[t].call.op \in Ops
      /\ Head(act[t].left) \in StepsOf(act[t].call.op) /\ Head(act[t].left) = "kick"
  BY Busy DEF ActInv, Doing, Kick
<1> QED BY <1>1 DEF StepsOf, Ops

LEMMA Buffers ==
  /\ KickBuffer \in Nat \ {0} /\ QueueSize \in Nat \ {0} /\ FailLimit \in Nat \ {0}
<1>1. {KickBuffer, QueueSize, FailLimit} \subseteq Nat \ {0}
  BY DerivedAssumption
<1> QED BY <1>1

LEMMA KickTypes ==
  ASSUME StoreInv, NEW k \in Path \X Path
  PROVE  /\ Append(kicks, k) \in Seq(Path \X Path) /\ Len(Append(kicks, k)) = Len(kicks) + 1
         /\ \A i \in DOMAIN kicks : Append(kicks, k)[i] = kicks[i]
         /\ Append(kicks, k)[Len(kicks) + 1] = k
         /\ DOMAIN Append(kicks, k) = 1..(Len(kicks) + 1) /\ DOMAIN kicks = 1..Len(kicks)
<1>1. kicks \in Seq(Path \X Path)
  BY DEF StoreInv
<1> QED BY <1>1

LEMMA KicksTail ==
  ASSUME StoreInv, kicks # <<>>
  PROVE  /\ Head(kicks) \in Path \X Path /\ Head(kicks) = kicks[1] /\ 1 \in DOMAIN kicks
         /\ Tail(kicks) \in Seq(Path \X Path) /\ Len(Tail(kicks)) = Len(kicks) - 1
         /\ \A i \in DOMAIN Tail(kicks) : i + 1 \in DOMAIN kicks /\ Tail(kicks)[i] = kicks[i + 1]
         /\ \A i \in DOMAIN kicks : i # 1 => i - 1 \in DOMAIN Tail(kicks) /\ Tail(kicks)[i - 1] = kicks[i]
BY DEF StoreInv

----------------------------------------------------------------------------
(* The stores stay typed *)

LEMMA StoreNext ==
  ASSUME ActInv, StoreInv, SweepInv, [Next]_vars
  PROVE  StoreInv'
<1> USE DEF StoreInv
<1>1. CASE \E t \in Task, c \in Call : Begin(t, c)
  BY <1>1 DEF Begin, indexVars, ghost
<1>2. CASE \E t \in Writer : WriteTree(t)
  <2>1. PICK t \in Writer : WriteTree(t)
    BY <1>2
  <2>2. tree' \in [Path -> File] /\ act[t].call.path \in Path
    BY <2>1, TreeWritten DEF ActInv
  <2>3. owed' = Settle(t, act[t].call) /\ UNCHANGED <<head, wal, kicks, ix, dep, drifted, undone>>
    BY <2>1 DEF WriteTree, ghost
  <2>4. \A k \in {kicks[i] : i \in DOMAIN kicks} : k[1] \in Path
    OBVIOUS
  <2>5. owed' \subseteq Path \X Path
    BY <2>2, <2>3, <2>4 DEF Settle
  <2> QED BY <2>2, <2>3, <2>5
<1>14. CASE \E t \in Writer : RemoveFile(t)
  <2>1. PICK t \in Writer : RemoveFile(t)
    BY <1>14
  <2>2. tree' \in [Path -> File]
    BY <2>1, FileRemoved DEF ActInv
  <2>3. owed' \subseteq owed /\ UNCHANGED <<head, wal, kicks, ix, dep, drifted, undone>>
    BY <2>1 DEF RemoveFile, ghost
  <2> QED BY <2>2, <2>3
<1>3. CASE \E t \in Writer : AppendLog(t)
  BY <1>3 DEF AppendLog, indexVars, ghost
<1>4. CASE \E t \in Writer : AppendFails(t)
  <2>1. PICK t \in Writer : AppendFails(t)
    BY <1>4
  <2>2. CallOK(act[t].call)
    BY <2>1, Busy DEF ActInv, AppendFails, Doing
  <2>3. act[t].call.path \in Path /\ act[t].call.from \in Path \cup {NoPath}
    BY <2>2, CallTypes
  <2>4. undone' \subseteq Path /\ drifted' \subseteq Path /\ UNCHANGED <<tree, head, wal, kicks, ix, owed, dep>>
    BY <2>1, <2>3 DEF AppendFails, indexVars
  <2> QED BY <2>4
<1>5. CASE \E t \in Writer, lost \in BOOLEAN : IndexDelete(t, lost) \/ IndexPut(t, lost)
  <2>1. PICK t \in Writer, lost \in BOOLEAN : IndexDelete(t, lost) \/ IndexPut(t, lost)
    BY <1>5
  <2>2. PICK p \in Path, d \in File : ix' \in {ix, PutRecord(ix, p, d)}
    <3>1. CASE IndexDelete(t, lost)
      BY <3>1, DeletePlace DEF IndexDelete, DeleteRecord, File
    <3>2. CASE IndexPut(t, lost)
      BY <3>2, PutPlace DEF IndexPut
    <3> QED BY <2>1, <3>1, <3>2
  <2>3. UNCHANGED <<tree, head, wal, kicks, owed, dep, drifted, undone>>
    BY <2>1 DEF IndexDelete, IndexPut, ghost
  <2>4. ix' \in IndexType /\ ix'.marker \in {ix.marker, 0}
    BY <2>2, Updated
  <2> QED BY <2>3, <2>4 DEF IndexType
<1>15. CASE \E t \in Writer : VectorEnqueue(t) \/ \E lost \in BOOLEAN : VectorDelete(t, lost)
  BY <1>15 DEF VectorEnqueue, VectorDelete, indexVars, ghost
<1>6. CASE \E t \in Writer : Kick(t)
  <2>1. PICK t \in Writer : Kick(t)
    BY <1>6
  <2>2. act[t].call.op = "move" /\ CallOK(act[t].call)
    BY <2>1, KickPlace
  <2> DEFINE src == act[t].call.from
             dst == act[t].call.path
  <2>3. src \in Path /\ dst \in Path /\ <<src, dst>> \in Path \X Path
    BY <2>2, CallTypes
  <2>4. /\ kicks' = IF Len(kicks) < KickBuffer THEN Append(kicks, <<src, dst>>) ELSE kicks
        /\ owed' = owed \/ owed' = owed \cup {<<p, src>> : p \in {p \in Path \ {src, dst} : LinksTo(p, tree[p], src)}}
        /\ UNCHANGED <<tree, head, wal, ix, dep, drifted, undone>>
    BY <2>1 DEF Kick, enqueueFixLinks, ghost
  <2> HIDE DEF src, dst
  <2>5. kicks' \in Seq(Path \X Path) /\ Len(kicks') <= KickBuffer
    BY <2>3, <2>4, KickTypes, Buffers
  <2>6. owed' \subseteq Path \X Path
    BY <2>3, <2>4
  <2> QED BY <2>4, <2>5, <2>6
<1>7. CASE Commit
  BY <1>7 DEF Commit, indexVars, ghost
<1>8. CASE TakeKick
  <2>1. kicks # <<>> /\ kicks' = Tail(kicks) /\ owed' \subseteq owed /\ UNCHANGED <<tree, head, wal, ix, dep, drifted, undone>>
    BY <1>8 DEF TakeKick, ghost
  <2>2. kicks' \in Seq(Path \X Path) /\ Len(kicks') <= KickBuffer
    <3>1. KickBuffer \in Nat
      BY Buffers
    <3> QED BY <2>1, <3>1, KicksTail
  <2> QED BY <2>1, <2>2
<1>9. CASE WriteReferrer
  BY <1>9 DEF WriteReferrer, ghost
<1>10. CASE SweepMove
  <2>1. UNCHANGED <<tree, head, wal, kicks, owed, dep, drifted, undone>>
    BY <1>10, SweepMoves DEF rest
  <2>2. ix' \in IndexType /\ ix'.marker <= head
    <3>1. CASE ix' = ix
      BY <3>1, StoreIs
    <3>2. CASE ReconcileIndex
      BY <3>2, StoreIs DEF ReconcileIndex, discarded, IndexType
    <3>3. CASE \E fails \in BOOLEAN : CreateIndex(fails)
      <4>1. ix' = ix \/ (ix.file = "gone" /\ ix' = indexFor(ix))
        BY <3>3 DEF CreateIndex
      <4>2. ix.file = "gone" => indexFor(ix) = [file |-> "ok", recs |-> Empty, marker |-> 0]
        BY DEF indexFor
      <4> QED BY <4>1, <4>2, StoreIs, Types DEF IndexType
    <3>4. CASE \E fails \in BOOLEAN : ReplaceAll(fails)
      <4>1. ix' = ix \/ ix' = [file |-> "ok", recs |-> sw.got, marker |-> sw.at]
        BY <3>4 DEF ReplaceAll, replaced
      <4>2. sw.got \in [Path -> File] /\ sw.at \in Nat /\ sw.at <= head
        BY SMTT(60) DEF SweepInv, SweepType
      <4> QED BY <4>1, <4>2, StoreIs DEF IndexType
    <3>5. CASE ReconcileAllIndexes \/ WaitForWAL \/ FixLinksEnd
               \/ \E p \in Path : WalkFile(p) \/ discoverReferrers(p) \/ ReadReferrer(p)
      BY ZenonT(60), <3>1, <3>5
         DEF ReconcileAllIndexes, WaitForWAL, FixLinksEnd, WalkFile, discoverReferrers, ReadReferrer
    <3> QED BY <1>10, <3>2, <3>3, <3>4, <3>5 DEF SweepMove
  <2> QED BY <2>1, <2>2 DEF IndexType
<1>11. CASE VectorMove
  BY <1>11, VectorMoves DEF rest
<1>12. CASE \E f \in {ix.file} \cup dep.damage, v \in HalfMade : Crash(f, v)
  <2>1. PICK f \in {ix.file} \cup dep.damage, v \in HalfMade : Crash(f, v)
    BY <1>12
  <2>2. \A t \in Writer : Held(t) \subseteq Path \cup {NoPath}
    <3>1. TAKE t \in Writer
    <3>2. CASE act[t].left \in {<<>>, <<"kick">>}
      BY <3>2 DEF Held
    <3>3. CASE act[t].left \notin {<<>>, <<"kick">>}
      BY <3>3, Busy, CallTypes DEF Held, ActInv
    <3> QED BY <3>2, <3>3
  <2>3. drifted' \subseteq Path
    <3>1. (UNION {Held(t) : t \in Writer}) \ {NoPath} \subseteq Path
      BY <2>2
    <3>2. drifted' = drifted \cup ((UNION {Held(t) : t \in Writer}) \ {NoPath})
      BY <2>1 DEF Crash
    <3> QED BY <3>1, <3>2
  <2>4. kicks' = <<>> /\ owed' = {} /\ ix' = [ix EXCEPT !.file = f] /\ UNCHANGED <<tree, head, wal, dep, undone>>
    BY <2>1 DEF Crash
  <2>5. kicks' \in Seq(Path \X Path) /\ Len(kicks') <= KickBuffer
    BY <2>4, Buffers
  <2>6. f \in {"ok", "bad", "gone"}
    <3>1. dep \in Deployment
      BY DerivedAssumption
    <3> QED BY <3>1 DEF Deployment
  <2>7. ix' \in IndexType /\ ix'.marker = ix.marker
    BY <2>4, <2>6, StoreIs DEF IndexType
  <2> QED BY <2>3, <2>4, <2>5, <2>7 DEF IndexType
<1>13. CASE UNCHANGED vars
  BY <1>13 DEF vars
<1> QED BY <1>1, <1>2, <1>3, <1>4, <1>5, <1>6, <1>7, <1>8, <1>9, <1>10, <1>11, <1>12, <1>13, <1>14, <1>15, Moves
           DEF WriterMove

----------------------------------------------------------------------------
(* The index goroutine *)

\* A writer's step leaves the other writers, and no tree to be written.
LEMMA WriterMoves ==
  ASSUME ActInv, NEW t \in Writer, WriterMove(t)
  PROVE  /\ act[t].left # <<>> /\ act' \in [Writer -> ActType] /\ act \in [Writer -> ActType]
         /\ CallOK(act[t].call) /\ \A u \in Writer \ {t} : act'[u] = act[u]
         /\ act'[t] = Idle \/ (Advance(t) /\ act'[t].call = act[t].call)
         /\ ~Doing(t, "tree")'
<1>1. act \in [Writer -> ActType] /\ act[t].left # <<>> /\ CallOK(act[t].call)
  BY WriterDoes, Busy DEF ActInv
<1>2. CASE act' = [act EXCEPT ![t] = Idle]
  BY <1>1, <1>2, Types DEF Doing
<1>3. CASE Advance(t)
  <2>1. act'[t] = Idle \/ act'[t].call = act[t].call
    BY <1>1, <1>3, NextStep
  <2>2. \A u \in Writer \ {t} : act'[u] = act[u]
    BY <1>1, <1>3, NextStep
  <2> QED BY <1>1, <1>3, <2>1, <2>2, Steady
<1> QED BY <1>2, <1>3, WriterDoes

LEMMA AtRestTyped ==
  /\ AtRest \in SweepType /\ AtRest.pc = "idle" /\ AtRest.at = 0
  /\ \A d \in Deployment : SweepStart(d) \in SweepType /\ SweepStart(d).at = 0 /\ SweepStart(d).pc \in {"wait", "off"}
<1>1. AtRest \in SweepType /\ AtRest.pc = "idle" /\ AtRest.at = 0
  BY Types DEF AtRest, SweepType, SweepPC, File
<1>2. \A pc \in SweepPC : [AtRest EXCEPT !.pc = pc] \in SweepType
                          /\ [AtRest EXCEPT !.pc = pc].at = 0 /\ [AtRest EXCEPT !.pc = pc].pc = pc
  BY <1>1 DEF SweepType
<1> QED BY <1>1, <1>2 DEF SweepStart, SweepPC

\* The goroutine is where it was, and its request no further than before.
LEMMA SweepSame ==
  ASSUME SweepInv, sw' = sw, head' = head \/ head' = head + 1, head \in Nat,
         act'[Sweeper].left # <<>> => act[Sweeper].left # <<>> /\ act'[Sweeper].call.op = "write",
         Doing(Sweeper, "tree")' =>
           Doing(Sweeper, "tree") /\ act'[Sweeper].call = act[Sweeper].call /\ tree'[sw.ref] = tree[sw.ref],
         \A i \in DOMAIN kicks' : kicks'[i][1] # kicks'[i][2]
  PROVE  SweepInv'
<1>1. sw.at <= head'
  BY DEF SweepInv, SweepType
<1>2. (act[Sweeper].left # <<>>)' => sw'.pc = "fix" /\ act'[Sweeper].call.op = "write"
  BY DEF SweepInv
<1>3. Rewrite' = Rewrite
  BY DEF Rewrite
<1>4. Doing(Sweeper, "tree")' =>
       /\ act'[Sweeper].call = Rewrite' /\ tree'[sw'.ref] = sw'.data
       /\ sw'.ref \in Path \ {sw'.kick[1], sw'.kick[2]} /\ sw'.data # NoDoc /\ sw'.data.link = sw'.kick[1]
  BY <1>3 DEF SweepInv
<1> QED BY <1>1, <1>2, <1>4 DEF SweepInv, Fixing

\* The goroutine moves and no request of its own is under way.
LEMMA SweepAlone ==
  ASSUME SweepInv, act'[Sweeper].left = <<>>, sw' \in SweepType, sw'.at <= head',
         sw'.pc = "create" => sw'.todo = Path,
         Fixing' =>
           /\ sw'.kick \in Path \X Path /\ sw'.kick[1] # sw'.kick[2]
           /\ (sw'.refs \cup (IF sw'.pc = "scan" THEN sw'.todo ELSE {})) \cap {sw'.kick[1], sw'.kick[2]} = {},
         sw'.pc = "write" =>
           sw'.ref \in Path \ {sw'.kick[1], sw'.kick[2]} /\ sw'.data # NoDoc /\ sw'.data.link = sw'.kick[1],
         \A i \in DOMAIN kicks' : kicks'[i][1] # kicks'[i][2]
  PROVE  SweepInv'
<1>1. ~ Doing(Sweeper, "tree")'
  BY DEF Doing
<1> QED BY <1>1 DEF SweepInv

LEMMA SweepKicks ==
  ASSUME ActInv, StoreInv, SweepInv, NEW t \in Writer, WriterMove(t)
  PROVE  \A i \in DOMAIN kicks' : kicks'[i][1] # kicks'[i][2]
<1>1. CASE Kick(t)
  <2> DEFINE k == <<act[t].call.from, act[t].call.path>>
  <2>1. act[t].call.op = "move" /\ CallOK(act[t].call)
    BY <1>1, KickPlace
  <2>2. k \in Path \X Path /\ k[1] # k[2]
    BY <2>1, CallTypes
  <2>3. kicks' = kicks \/ kicks' = Append(kicks, k)
    BY <1>1 DEF Kick, enqueueFixLinks
  <2> HIDE DEF k
  <2>4. \A i \in DOMAIN kicks' : (i \in DOMAIN kicks /\ kicks'[i] = kicks[i]) \/ kicks'[i] = k
    BY SMTT(60), <2>2, <2>3, KickTypes DEF StoreInv
  <2> QED BY <2>2, <2>4 DEF SweepInv
<1>2. CASE ~Kick(t)
  BY <1>2, WriterDoes DEF SweepInv
<1> QED BY <1>1, <1>2

LEMMA SweepWriter ==
  ASSUME ActInv, StoreInv, SweepInv, NEW t \in Writer, WriterMove(t)
  PROVE  SweepInv'
<1>1. sw' = sw /\ head' = head /\ head \in Nat
  BY WriterDoes DEF StoreInv
<1>2. \A i \in DOMAIN kicks' : kicks'[i][1] # kicks'[i][2]
  BY SweepKicks
<1>3. /\ act[t].left # <<>> /\ \A u \in Writer \ {t} : act'[u] = act[u]
      /\ act'[t] = Idle \/ act'[t].call = act[t].call
      /\ ~Doing(t, "tree")'
  BY WriterMoves
<1>4. CASE t = Sweeper
  <2>1. act[t].call.op = "write"
    BY <1>3, <1>4 DEF SweepInv
  <2>2. act'[t].left # <<>> => act'[t].call = act[t].call
    BY <1>3, Types
  <2> QED BY <1>1, <1>2, <1>3, <1>4, <2>1, <2>2, SweepSame
<1>5. CASE t # Sweeper
  <2>1. act'[Sweeper] = act[Sweeper]
    BY <1>3, <1>5, Types
  <2>2. ASSUME Doing(Sweeper, "tree") PROVE tree'[sw.ref] = tree[sw.ref]
    <3>1. act[Sweeper].call.path = sw.ref /\ sw.ref \in Path
      BY <2>2 DEF SweepInv, Rewrite
    <3>2. act[Sweeper].left # <<>> /\ act[Sweeper].left # <<"kick">>
      BY <2>2 DEF Doing
    <3>3. sw.ref \in Held(Sweeper) /\ sw.ref # NoPath
      BY <3>1, <3>2, Types DEF Held
    <3>4. sw.ref \notin Held(t)
      BY <1>5, <3>3, Types DEF ActInv
    <3>5. act \in [Writer -> ActType] /\ tree \in [Path -> File]
      BY DEF ActInv, StoreInv
    <3>6. CASE WriteTree(t)
      BY <3>1, <3>4, <3>5, <3>6, TreeWritten DEF Place
    <3>7. CASE RemoveFile(t)
      BY <3>1, <3>4, <3>5, <3>7, FileRemoved
    <3> QED BY <3>6, <3>7, WriterDoes
  <2>3. Doing(Sweeper, "tree")' => Doing(Sweeper, "tree")
    BY <2>1 DEF Doing
  <2>4. act'[Sweeper].left # <<>> => act[Sweeper].left # <<>> /\ act'[Sweeper].call.op = "write"
    BY <2>1 DEF SweepInv
  <2> QED BY <1>1, <1>2, <2>1, <2>2, <2>3, <2>4, SweepSame
<1> QED BY SMTT(60), <1>4, <1>5

LEMMA SweepSweeps ==
  ASSUME StoreInv, SweepInv, SweepMove
  PROVE  SweepInv'
<1>1. act' = act /\ tree' = tree /\ head' = head /\ kicks' = kicks
  BY SweepMoves DEF rest
<1>2. \A i \in DOMAIN kicks' : kicks'[i][1] # kicks'[i][2]
  BY <1>1 DEF SweepInv
<1>3. sw \in SweepType /\ sw.at <= head /\ head \in Nat /\ tree \in [Path -> File]
  BY DEF SweepInv, StoreInv
<1>4. AtRest \in SweepType /\ AtRest.pc = "idle" /\ AtRest.at = 0
  BY AtRestTyped
<1>5. act[Sweeper].left = <<>>
  <2>1. sw.pc = "fix" => act[Sweeper].left = <<>>
    BY ZenonT(60)
       DEF SweepMove, ReconcileAllIndexes, WaitForWAL, ReconcileIndex, CreateIndex, ReplaceAll, FixLinksEnd,
           WalkFile, discoverReferrers, ReadReferrer
  <2> QED BY <2>1 DEF SweepInv
<1>6. act'[Sweeper].left = <<>>
  BY <1>1, <1>5
<1>7. CASE sw' = AtRest
  BY <1>2, <1>3, <1>4, <1>6, <1>7, <1>1, SweepAlone DEF Fixing
<1>8. CASE ReconcileAllIndexes \/ WaitForWAL
  <2>1. sw' = [sw EXCEPT !.pc = "wait"] \/ sw' = [sw EXCEPT !.pc = "head"]
    BY <1>8 DEF ReconcileAllIndexes, WaitForWAL
  <2>2. sw' \in SweepType /\ sw'.at = sw.at /\ sw'.pc \in {"wait", "head"}
    BY <1>3, <2>1 DEF SweepType, SweepPC
  <2> QED BY <1>1, <1>2, <1>3, <1>6, <2>2, SweepAlone DEF Fixing
<1>9. CASE ReconcileIndex
  <2>1. CASE IndexHealthy
    BY <1>7, <1>9, <2>1 DEF ReconcileIndex
  <2>2. CASE ~IndexHealthy
    <3>1. PICK pc \in {"walk", "create"} : sw' = [sw EXCEPT !.at = head, !.todo = Path, !.pc = pc]
      BY <1>9, <2>2 DEF ReconcileIndex
    <3>2. sw' \in SweepType /\ sw'.at = head /\ sw'.todo = Path /\ sw'.pc \in {"walk", "create"}
      BY <1>3, <3>1 DEF SweepType, SweepPC
    <3> QED BY <1>1, <1>2, <1>3, <1>6, <3>2, SweepAlone DEF Fixing
  <2> QED BY <2>1, <2>2
<1>10. CASE \E fails \in BOOLEAN : CreateIndex(fails)
  <2>1. sw' = AtRest \/ sw' = [sw EXCEPT !.pc = "walk"]
    BY <1>10 DEF CreateIndex
  <2>2. CASE sw' = [sw EXCEPT !.pc = "walk"]
    <3>1. sw' \in SweepType /\ sw'.at = sw.at /\ sw'.pc = "walk"
      BY <1>3, <2>2 DEF SweepType, SweepPC
    <3> QED BY <1>1, <1>2, <1>3, <1>6, <3>1, SweepAlone DEF Fixing
  <2> QED BY <1>7, <2>1, <2>2
<1>11. CASE (\E fails \in BOOLEAN : ReplaceAll(fails)) \/ FixLinksEnd
  BY <1>7, <1>11 DEF ReplaceAll, FixLinksEnd
<1>12. CASE \E p \in Path : WalkFile(p)
  <2>1. PICK p \in Path : sw.pc = "walk" /\ sw' = [sw EXCEPT !.todo = sw.todo \ {p}, !.got = [sw.got EXCEPT ![p] = tree[p]]]
    BY ZenonT(60), <1>12 DEF WalkFile
  <2>2. [sw.got EXCEPT ![p] = tree[p]] \in [Path -> File]
    BY <1>3 DEF SweepType
  <2>3. sw' \in SweepType /\ sw'.at = sw.at /\ sw'.pc = "walk"
    BY <1>3, <2>1, <2>2 DEF SweepType, SweepPC
  <2> QED BY <1>1, <1>2, <1>3, <1>6, <2>3, SweepAlone DEF Fixing
<1>13. CASE \E p \in Path : discoverReferrers(p)
  <2>1. PICK p \in Path : discoverReferrers(p)
    BY <1>13
  <2>2. PICK pc \in {"fix", "scan"}, r \in SUBSET (Markdown \cap {p}) :
          sw' = [sw EXCEPT !.todo = sw.todo \ {p}, !.refs = sw.refs \cup r, !.pc = pc]
    <3>1. PICK pc \in {"fix", "scan"}, r \in {{}, {p}} :
            /\ sw' = [sw EXCEPT !.todo = sw.todo \ {p}, !.refs = sw.refs \cup r, !.pc = pc]
            /\ r # {} => LinksTo(p, tree[p], sw.kick[1])
      BY <2>1 DEF discoverReferrers
    <3>2. r \in SUBSET (Markdown \cap {p})
      BY <3>1 DEF LinksTo
    <3> QED BY ZenonT(60), <3>1, <3>2
  <2>3. sw.pc = "scan" /\ p \in sw.todo
    BY <2>1 DEF discoverReferrers
  <2>4. /\ sw' \in SweepType /\ sw'.at = sw.at /\ sw'.pc \in {"scan", "fix"} /\ sw'.kick = sw.kick
        /\ sw'.refs \subseteq sw.refs \cup sw.todo /\ sw'.todo \subseteq sw.todo
    BY <1>3, <2>2, <2>3 DEF SweepType, SweepPC
  <2>5. /\ sw.kick \in Path \X Path /\ sw.kick[1] # sw.kick[2]
        /\ (sw.refs \cup sw.todo) \cap {sw.kick[1], sw.kick[2]} = {}
    BY <2>3 DEF SweepInv, Fixing
  <2>6. (sw'.refs \cup (IF sw'.pc = "scan" THEN sw'.todo ELSE {})) \cap {sw'.kick[1], sw'.kick[2]} = {}
    BY <2>4, <2>5
  <2>7. sw'.at <= head' /\ sw'.pc # "create" /\ sw'.pc # "write"
    BY <1>1, <1>3, <2>4
  <2> QED BY <1>2, <1>6, <2>4, <2>5, <2>6, <2>7, SweepAlone
<1>14. CASE \E p \in Path : ReadReferrer(p)
  <2>1. PICK p \in Path : ReadReferrer(p)
    BY <1>14
  <2>2. PICK pc \in {"fix", "write"} :
          sw' = [sw EXCEPT !.refs = sw.refs \ {p}, !.ref = p, !.data = tree[p], !.pc = pc]
    BY <2>1 DEF ReadReferrer
  <2>3. sw.pc = "fix" /\ p \in sw.refs
    BY <2>1 DEF ReadReferrer
  <2>4. p \in Markdown
    BY <1>3, <2>3 DEF SweepType
  <2>5. /\ sw' \in SweepType /\ sw'.at = sw.at /\ sw'.pc = pc /\ sw'.kick = sw.kick
        /\ sw'.refs \subseteq sw.refs /\ sw'.ref = p /\ sw'.data = tree[p]
    BY <1>3, <2>2, <2>4 DEF SweepType, SweepPC
  <2>6. sw.kick \in Path \X Path /\ sw.kick[1] # sw.kick[2] /\ sw.refs \cap {sw.kick[1], sw.kick[2]} = {}
    BY <2>3 DEF SweepInv, Fixing
  <2>7. sw'.pc = "write" => tree[p] # NoDoc /\ tree[p].link = sw.kick[1]
    BY <1>3, <2>1 DEF ReadReferrer, SweepType
  <2>8. sw'.at <= head' /\ sw'.pc # "create" /\ sw'.pc # "scan"
    BY <1>1, <1>3, <2>5
  <2>9. (sw'.refs \cup (IF sw'.pc = "scan" THEN sw'.todo ELSE {})) \cap {sw'.kick[1], sw'.kick[2]} = {}
    BY <2>5, <2>6, <2>8
  <2>10. sw'.pc = "write" =>
           sw'.ref \in Path \ {sw'.kick[1], sw'.kick[2]} /\ sw'.data # NoDoc /\ sw'.data.link = sw'.kick[1]
    BY <2>3, <2>5, <2>6, <2>7
  <2> QED BY <1>2, <1>6, <2>5, <2>6, <2>8, <2>9, <2>10, SweepAlone
<1> QED BY <1>8, <1>9, <1>10, <1>11, <1>12, <1>13, <1>14 DEF SweepMove

LEMMA SweepTakes ==
  ASSUME StoreInv, SweepInv, TakeKick
  PROVE  SweepInv'
<1> DEFINE k == Head(kicks)
<1>1. sw.pc = "idle" /\ kicks # <<>> /\ kicks' = Tail(kicks) /\ act' = act /\ head' = head
  BY DEF TakeKick, tk
<1>2. k \in Path \X Path /\ k = kicks[1] /\ 1 \in DOMAIN kicks
      /\ \A i \in DOMAIN Tail(kicks) : i + 1 \in DOMAIN kicks /\ Tail(kicks)[i] = kicks[i + 1]
  BY <1>1, KicksTail
<1>3. k[1] # k[2] /\ \A i \in DOMAIN kicks' : kicks'[i][1] # kicks'[i][2]
  BY <1>1, <1>2 DEF SweepInv
<1>4. AtRest \in SweepType /\ AtRest.pc = "idle" /\ AtRest.at = 0 /\ head \in Nat
  BY AtRestTyped DEF StoreInv
<1>5. act'[Sweeper].left = <<>>
  BY <1>1 DEF SweepInv
<1>6. \/ sw' = [AtRest EXCEPT !.pc = "fix", !.kick = k, !.refs = Referrers(k[1]) \ {k[1], k[2]}]
      \/ sw' = [AtRest EXCEPT !.pc = "scan", !.kick = k, !.todo = Path \ {k[1], k[2]}]
  BY DEF TakeKick
<1>7. Referrers(k[1]) \subseteq Markdown /\ AtRest.refs = {}
  BY DEF Referrers, LinksTo, AtRest
<1> HIDE DEF k
<1>8. /\ sw' \in SweepType /\ sw'.at = 0 /\ sw'.kick = k /\ sw'.pc \in {"fix", "scan"}
      /\ (sw'.refs \cup (IF sw'.pc = "scan" THEN sw'.todo ELSE {})) \cap {k[1], k[2]} = {}
  <2> DEFINE R == Referrers(k[1]) \ {k[1], k[2]}
             P == Path \ {k[1], k[2]}
  <2>1. R \in SUBSET Markdown /\ R \cap {k[1], k[2]} = {} /\ P \in SUBSET Path /\ P \cap {k[1], k[2]} = {}
    BY <1>7
  <2>2. ASSUME NEW r \in SUBSET Markdown, r \cap {k[1], k[2]} = {},
               sw' = [AtRest EXCEPT !.pc = "fix", !.kick = k, !.refs = r]
        PROVE  /\ sw' \in SweepType /\ sw'.at = 0 /\ sw'.kick = k /\ sw'.pc = "fix" /\ sw'.refs = r
    BY <1>2, <1>4, <2>2 DEF SweepType, SweepPC
  <2>3. ASSUME NEW r \in SUBSET Path, r \cap {k[1], k[2]} = {},
               sw' = [AtRest EXCEPT !.pc = "scan", !.kick = k, !.todo = r]
        PROVE  /\ sw' \in SweepType /\ sw'.at = 0 /\ sw'.kick = k /\ sw'.pc = "scan" /\ sw'.todo = r
               /\ sw'.refs = AtRest.refs
    BY <1>2, <1>4, <2>3 DEF SweepType, SweepPC
  <2>4. \/ sw' = [AtRest EXCEPT !.pc = "fix", !.kick = k, !.refs = R]
        \/ sw' = [AtRest EXCEPT !.pc = "scan", !.kick = k, !.todo = P]
    BY <1>6
  <2> HIDE DEF R, P
  <2>5. CASE sw' = [AtRest EXCEPT !.pc = "fix", !.kick = k, !.refs = R]
    <3>1. sw' \in SweepType /\ sw'.at = 0 /\ sw'.kick = k /\ sw'.pc = "fix" /\ sw'.refs = R
      BY ZenonT(60), <2>1, <2>2, <2>5
    <3> QED BY <2>1, <3>1
  <2>6. CASE sw' = [AtRest EXCEPT !.pc = "scan", !.kick = k, !.todo = P]
    <3>1. sw' \in SweepType /\ sw'.at = 0 /\ sw'.kick = k /\ sw'.pc = "scan" /\ sw'.todo = P /\ sw'.refs = {}
      BY ZenonT(60), <1>7, <2>1, <2>3, <2>6
    <3> QED BY <2>1, <3>1
  <2> QED BY <2>4, <2>5, <2>6
<1>9. sw'.at <= head'
  BY <1>1, <1>4, <1>8
<1> QED BY <1>2, <1>3, <1>5, <1>8, <1>9, SweepAlone

LEMMA SweepWrites ==
  ASSUME StoreInv, ActInv, SweepInv, WriteReferrer
  PROVE  SweepInv'
<1>1. sw.pc = "write" /\ sw' = [sw EXCEPT !.pc = "fix"] /\ UNCHANGED <<tree, head, kicks>>
  BY DEF WriteReferrer
<1>2. sw \in SweepType /\ sw.at <= head
  BY DEF SweepInv
<1>3. /\ sw' \in SweepType /\ sw'.at = sw.at /\ sw'.pc = "fix" /\ sw'.kick = sw.kick /\ sw'.refs = sw.refs
      /\ sw'.ref = sw.ref /\ sw'.data = sw.data
  BY <1>1, <1>2 DEF SweepType, SweepPC
<1>4. /\ sw.kick \in Path \X Path /\ sw.kick[1] # sw.kick[2] /\ sw.refs \cap {sw.kick[1], sw.kick[2]} = {}
      /\ sw.ref \in Path \ {sw.kick[1], sw.kick[2]} /\ sw.data # NoDoc /\ sw.data.link = sw.kick[1]
      /\ act[Sweeper].left = <<>>
  BY <1>1 DEF SweepInv, Fixing
<1>5. \A i \in DOMAIN kicks' : kicks'[i][1] # kicks'[i][2]
  BY <1>1 DEF SweepInv
<1>6. sw'.at <= head' /\ sw'.pc # "create" /\ sw'.pc # "write" /\ sw'.pc # "scan"
  BY <1>1, <1>2, <1>3
<1>7. (sw'.refs \cup (IF sw'.pc = "scan" THEN sw'.todo ELSE {})) \cap {sw'.kick[1], sw'.kick[2]} = {}
  BY <1>3, <1>4, <1>6
<1>8. CASE act' = act
  BY <1>3, <1>4, <1>5, <1>6, <1>7, <1>8, SweepAlone
<1>9. CASE Begins(Sweeper, Rewrite)
  <2>1. Fresh(Rewrite) /\ Rewrite.op = "write" /\ Rewrite.path = sw.ref /\ Rewrite.ifMatch = {sw.data}
    BY <1>1, RewriteFresh
  <2>2. act' = [act EXCEPT ![Sweeper] = Begun(Rewrite)] /\ Begun(Rewrite) = [call |-> Rewrite, left |-> <<"tree", "log", "index", "vector">>]
    BY <1>9, <2>1, BegunIs, Types
  <2>3. act'[Sweeper].call = Rewrite /\ act'[Sweeper].left = <<"tree", "log", "index", "vector">>
    BY <2>2, Types DEF ActInv
  <2>4. tree[sw.ref] = sw.data
    BY <1>9, <2>1 DEF Begins, Admitted
  <2>5. Rewrite' = Rewrite
    BY <1>3 DEF Rewrite
  <2>6. act'[Sweeper].call = Rewrite' /\ act'[Sweeper].call.op = "write"
    BY <2>1, <2>3, <2>5
  <2>7. tree'[sw'.ref] = sw'.data
    BY <1>1, <1>3, <2>4
  <2> QED BY <1>3, <1>4, <1>5, <1>6, <1>7, <2>6, <2>7 DEF SweepInv
<1> QED BY <1>8, <1>9 DEF WriteReferrer

LEMMA SweepNext ==
  ASSUME ActInv, StoreInv, SweepInv, [Next]_vars
  PROVE  SweepInv'
<1>1. CASE \E t \in Task, c \in Call : Begin(t, c)
  <2>1. PICK t \in Task, c \in Call : Begin(t, c)
    BY <1>1
  <2>2. sw' = sw /\ kicks' = kicks /\ head' = head /\ tree' = tree /\ head \in Nat
    BY <2>1 DEF Begin, indexVars, StoreInv
  <2>3. act'[Sweeper] = act[Sweeper]
    BY <2>1, Types DEF Begin, Begins, ActInv
  <2> QED BY <2>2, <2>3, SweepSame DEF Doing, SweepInv
<1>2. CASE \E t \in Writer : WriterMove(t)
  BY <1>2, SweepWriter
<1>3. CASE Commit \/ VectorMove \/ UNCHANGED vars
  <2>1. UNCHANGED <<sw, kicks, tree, act>> /\ (head' = head \/ head' = head + 1) /\ head \in Nat
    BY <1>3, VectorMoves DEF Commit, vars, indexVars, tk, StoreInv, rest
  <2> QED BY <2>1, SweepSame DEF Doing, SweepInv
<1>4. CASE \E f \in {ix.file} \cup dep.damage, v \in HalfMade : Crash(f, v)
  <2>1. act' = [t \in Writer |-> Idle] /\ sw' = SweepStart(dep) /\ kicks' = <<>> /\ head' = head
    BY <1>4 DEF Crash
  <2>2. dep \in Deployment /\ head \in Nat
    BY DerivedAssumption DEF StoreInv
  <2>3. sw' \in SweepType /\ sw'.at = 0 /\ sw'.pc \in {"wait", "off"}
    BY <2>1, <2>2, AtRestTyped
  <2>4. act'[Sweeper].left = <<>>
    BY <2>1, Types
  <2>5. \A i \in DOMAIN kicks' : kicks'[i][1] # kicks'[i][2]
    BY <2>1
  <2> QED BY <2>1, <2>2, <2>3, <2>4, <2>5, SweepAlone DEF Fixing
<1> QED BY <1>1, <1>2, <1>3, <1>4, SweepTakes, SweepWrites, SweepSweeps, Moves DEF WriterMove

----------------------------------------------------------------------------
(* The vector store and its worker *)

\* Vectors are of the model of their store, and only a store that opens has any.
Sound(v) ==
  /\ v \in VectorType /\ \A p \in Path : v.keys[p] # NoDoc => v.keys[p].model = v.model
  /\ v.file # "ok" => \A p \in Path : v.keys[p] = NoDoc
LEMMA SoundStore == VectorInv => Sound(vx)
BY DEF VectorInv, Sound, OneModel

LEMMA VectorDeleted ==
  ASSUME NEW v, Sound(v), NEW p \in Path
  PROVE  Sound(vectorDelete(v, p))
<1>1. CASE v.cfg = NoModel
  BY <1>1 DEF vectorDelete
<1>2. CASE v.cfg # NoModel
  <2> DEFINE k == [v.keys EXCEPT ![p] = NoDoc]
  <2>1. v.keys \in [Path -> {NoDoc} \cup Vector] /\ vectorDelete(v, p) = [v EXCEPT !.keys = k]
    BY <1>2 DEF Sound, VectorType, vectorDelete
  <2>2. k \in [Path -> {NoDoc} \cup Vector] /\ k[p] = NoDoc /\ \A q \in Path \ {p} : k[q] = v.keys[q]
    BY <2>1
  <2> HIDE DEF k
  <2>3. [v EXCEPT !.keys = k] \in VectorType /\ [v EXCEPT !.keys = k].keys = k /\ [v EXCEPT !.keys = k].model = v.model
        /\ [v EXCEPT !.keys = k].file = v.file
    BY <2>2 DEF Sound, VectorType
  <2> QED BY <2>1, <2>2, <2>3 DEF Sound
<1> QED BY <1>1, <1>2

LEMMA VectorsRemoved ==
  ASSUME NEW v \in VectorType
  PROVE  Sound(removeVectorFile(v)) /\ removeVectorFile(v).cfg = v.cfg
<1>1. Empty \in [Path -> {NoDoc} \cup Vector] /\ \A p \in Path : Empty[p] = NoDoc
  BY DEF Empty
<1> QED BY <1>1 DEF removeVectorFile, Sound, VectorType

\* A store that is created has no vectors, so it may be given a model.
LEMMA VectorsGiven ==
  ASSUME NEW v, Sound(v)
  PROVE  Sound(vectorFor(v)) /\ vectorFor(v).cfg = v.cfg
<1>1. CASE ~(v.file = "gone" /\ v.cfg # NoModel)
  BY <1>1 DEF vectorFor
<1>2. CASE v.file = "gone" /\ v.cfg # NoModel
  <2>1. /\ vectorFor(v) \in VectorType /\ vectorFor(v).keys = v.keys /\ vectorFor(v).cfg = v.cfg
        /\ vectorFor(v).file = "ok"
    BY <1>2 DEF vectorFor, Sound, VectorType
  <2> QED BY <1>2, <2>1 DEF Sound
<1> QED BY <1>1, <1>2

LEMMA VectorStored ==
  ASSUME NEW v, Sound(v), v.file = "ok", NEW p \in Path, NEW d \in Doc, v.model \in Model,
         NEW w, w = [v EXCEPT !.keys = [v.keys EXCEPT ![p] = [doc |-> d, model |-> v.model]]]
  PROVE  Sound(w)
<1> DEFINE k == [v.keys EXCEPT ![p] = [doc |-> d, model |-> v.model]]
<1>1. v.keys \in [Path -> {NoDoc} \cup Vector] /\ w = [v EXCEPT !.keys = k]
  BY DEF Sound, VectorType
<1>2. /\ k \in [Path -> {NoDoc} \cup Vector] /\ k[p] = [doc |-> d, model |-> v.model]
      /\ \A q \in Path \ {p} : k[q] = v.keys[q]
  BY <1>1 DEF Vector
<1> HIDE DEF k
<1>3. [v EXCEPT !.keys = k] \in VectorType /\ [v EXCEPT !.keys = k].keys = k /\ [v EXCEPT !.keys = k].model = v.model
        /\ [v EXCEPT !.keys = k].file = v.file
  BY <1>2 DEF Sound, VectorType
<1> QED BY <1>1, <1>2, <1>3 DEF Sound

LEMMA WorkerRests ==
  /\ Waiting \in WorkerType /\ Waiting.left = {} /\ Waiting.pc = "select"
  /\ vw \in WorkerType => Rest \in WorkerType /\ Rest.left = {} /\ Rest.pc = "select"
  /\ \A m \in Model \cup {NoModel} : /\ WorkerStart(m) \in WorkerType /\ WorkerStart(m).left = {}
                                    /\ WorkerStart(m).pc \in {"off", "list"}
<1>1. Waiting \in WorkerType /\ Waiting.left = {} /\ Waiting.pc = "select"
  BY Types DEF Waiting, WorkerType, WorkerPC
<1>2. ASSUME vw \in WorkerType PROVE Rest \in WorkerType /\ Rest.left = {} /\ Rest.pc = "select"
  BY <1>1, <1>2 DEF Rest, WorkerType
<1>3. \A pc \in {"off", "list"} : /\ [Waiting EXCEPT !.pc = pc] \in WorkerType
                                 /\ [Waiting EXCEPT !.pc = pc].left = {} /\ [Waiting EXCEPT !.pc = pc].pc = pc
  BY <1>1 DEF WorkerType, WorkerPC
<1> QED BY <1>1, <1>2, <1>3 DEF WorkerStart

LEMMA VectorSame ==
  ASSUME VectorInv, UNCHANGED vectorVars
  PROVE  VectorInv'
BY DEF VectorInv, vectorVars, OneModel

LEMMA VectorParts ==
  ASSUME Sound(vx'), vw' \in WorkerType, queue' \in Seq(Item), Len(queue') <= QueueSize, missed' \subseteq Path,
         vw'.pc \in {"embed", "store"} => vw'.item \in Item,
         vw'.pc = "store" => vw'.cfg \in Model,
         \A p \in vw'.left : vw'.files[p] # NoDoc
  PROVE  VectorInv'
BY DEF VectorInv, Sound, OneModel

LEMMA VectorUpdate ==
  ASSUME ActInv, VectorInv, NEW t \in Writer,
         VectorEnqueue(t) \/ VectorDelete(t, FALSE) \/ VectorDelete(t, TRUE)
  PROVE  VectorInv'
<1> DEFINE c == act[t].call
<1>1. CASE VectorEnqueue(t)
  <2>1. c.path \in Path /\ [path |-> c.path, doc |-> c.doc] \in Item
    BY <1>1, PutPlace DEF VectorEnqueue, Item, File
  <2>2. queue' = queue \/ (Len(queue) # QueueSize /\ queue' = Append(queue, [path |-> c.path, doc |-> c.doc]))
    BY <1>1 DEF VectorEnqueue, vectorEnqueue, Dropped
  <2>3. queue' \in Seq(Item) /\ Len(queue') <= QueueSize
    BY <2>1, <2>2, Buffers DEF VectorInv
  <2>4. missed' \subseteq Path /\ UNCHANGED <<vx, vw>>
    BY <1>1, <2>1 DEF VectorEnqueue, VectorInv
  <2> QED BY <2>3, <2>4, SoundStore, VectorParts DEF VectorInv
<1>2. CASE \E lost \in BOOLEAN : VectorDelete(t, lost)
  <2>1. Source(c) \in Path
    BY <1>2, DeletePlace DEF VectorDelete
  <2>2. vx' = vx \/ vx' = vectorDelete(vx, Source(c))
    BY <1>2 DEF VectorDelete
  <2>3. Sound(vx')
    BY <2>1, <2>2, SoundStore, VectorDeleted
  <2>4. missed' \subseteq Path /\ UNCHANGED <<queue, vw>>
    BY <1>2, <2>1 DEF VectorDelete, VectorInv
  <2> QED BY <2>3, <2>4, VectorParts DEF VectorInv
<1> QED BY <1>1, <1>2

LEMMA VectorCrash ==
  ASSUME ActInv, VectorInv, NEW f, NEW v \in HalfMade, Crash(f, v)
  PROVE  VectorInv'
<1>1. \A t \in Writer : Held(t) \subseteq Path \cup {NoPath}
  <2>1. TAKE t \in Writer
  <2>2. CASE act[t].left \in {<<>>, <<"kick">>}
    BY <2>2 DEF Held
  <2>3. CASE act[t].left \notin {<<>>, <<"kick">>}
    BY <2>3, Busy, CallTypes DEF Held, ActInv
  <2> QED BY <2>2, <2>3
<1>2. (UNION {Held(t) : t \in Writer}) \ {NoPath} \subseteq Path
  BY <1>1
<1>3. {queue[i].path : i \in DOMAIN queue} \subseteq Path
  <2>1. queue \in Seq(Item)
    BY DEF VectorInv
  <2>2. \A i \in DOMAIN queue : queue[i] \in Item
    BY <2>1
  <2>3. \A i \in DOMAIN queue : queue[i].path \in Path
    BY <2>2 DEF Item
  <2> QED BY <2>3
<1>4. vw.item # NoItem => Missing \subseteq Path
  BY DEF VectorInv, WorkerType, Item, Missing
<1>5. missed' \subseteq Path
  BY <1>2, <1>3, <1>4 DEF Crash, VectorInv
<1>6. vx.cfg \in Model \cup {NoModel} /\ Sound(vx')
  <2>1. vx' = [v EXCEPT !.rdims = 0] /\ vx \in VectorType /\ Sound(vx)
    BY SoundStore DEF Crash, VectorInv
  <2>2. Sound(v)
    <3>1. CASE v = vx \/ v = vectorFor(vx)
      BY <2>1, <3>1, VectorsGiven
    <3>2. CASE vectorFor(vx) # vx /\ v = [vx EXCEPT !.file = "bad"]
      <4>1. vx.file = "gone"
        BY <3>2 DEF vectorFor
      <4>2. v \in VectorType /\ v.keys = vx.keys
        BY <2>1, <3>2 DEF VectorType
      <4> QED BY <2>1, <4>1, <4>2 DEF Sound
    <3> QED BY <3>1, <3>2 DEF HalfMade
  <2>3. vx' \in VectorType /\ vx'.keys = v.keys /\ vx'.model = v.model /\ vx'.file = v.file
    BY <2>1, <2>2 DEF VectorType, Sound
  <2> QED BY <2>1, <2>2, <2>3 DEF Sound, VectorType
<1>7. vw' = WorkerStart(vx.cfg) /\ queue' = <<>>
  BY DEF Crash
<1>8. vw' \in WorkerType /\ vw'.left = {} /\ vw'.pc \in {"off", "list"}
  BY <1>6, <1>7, WorkerRests
<1> QED BY <1>5, <1>6, <1>7, <1>8, Buffers, VectorParts

LEMMA VectorWorks ==
  ASSUME StoreInv, VectorInv, VectorMove
  PROVE  VectorInv'
<1>1. /\ vw \in WorkerType /\ vx \in VectorType /\ Sound(vx) /\ queue \in Seq(Item) /\ Len(queue) <= QueueSize
      /\ missed \subseteq Path /\ tree \in [Path -> File]
      /\ \A p \in vw.left : vw.files[p] # NoDoc
  BY SoundStore DEF VectorInv, StoreInv
<1>2. Rest \in WorkerType /\ Rest.left = {} /\ Rest.pc = "select"
  BY <1>1, WorkerRests
<1>3. ASSUME vw.pc \in {"embed", "store"}
      PROVE  /\ Missing \subseteq Path /\ Failed \in WorkerType /\ Failed.pc \in {"pick", "select"}
             /\ \A p \in Failed.left : Failed.files[p] # NoDoc
  <2>1. Missing \subseteq Path
    BY <1>1, <1>3 DEF VectorInv, Missing, Item
  <2>2. Failed = Rest \/ Failed = [vw EXCEPT !.pc = "pick", !.fails = vw.fails + 1]
    BY DEF Failed
  <2>3. CASE Failed = [vw EXCEPT !.pc = "pick", !.fails = vw.fails + 1]
    <3>1. Failed \in WorkerType /\ Failed.pc = "pick" /\ Failed.left = vw.left /\ Failed.files = vw.files
      <4>1. vw.fails + 1 \in Nat /\ "pick" \in WorkerPC
        BY <1>1 DEF WorkerType, WorkerPC
      <4> QED BY <1>1, <2>3, <4>1 DEF WorkerType
    <3> QED BY <1>1, <2>1, <3>1
  <2> QED BY <1>2, <2>1, <2>2, <2>3
<1>4. CASE ReconcileAllVectors
  <2>1. vw' = [vw EXCEPT !.pc = "list"] /\ UNCHANGED <<vx, queue, missed>>
    BY <1>4 DEF ReconcileAllVectors
  <2>2. vw' \in WorkerType /\ vw'.pc = "list" /\ vw'.left = vw.left /\ vw'.files = vw.files
    BY <1>1, <2>1 DEF WorkerType, WorkerPC
  <2> QED BY <1>1, <2>1, <2>2, VectorParts
<1>5. CASE TakeItem
  <2>1. queue # <<>> /\ queue' = Tail(queue) /\ vw' = [vw EXCEPT !.pc = "embed", !.item = Head(queue)] /\ UNCHANGED <<vx, missed>>
    BY <1>5 DEF TakeItem
  <2>2. Head(queue) \in Item /\ queue' \in Seq(Item) /\ Len(queue') <= QueueSize
    BY <1>1, <2>1, Buffers
  <2>3. vw' \in WorkerType /\ vw'.pc = "embed" /\ vw'.item \in Item /\ vw'.left = vw.left /\ vw'.files = vw.files
    BY <1>1, <2>1, <2>2 DEF WorkerType, WorkerPC
  <2> QED BY <1>1, <2>1, <2>2, <2>3, VectorParts
<1>6. CASE ReconcileProject
  <2>1. /\ vx' = vx \/ vx' = removeVectorFile(vx)
        /\ \/ vw' = Rest
           \/ \E had \in BOOLEAN : vw' = [Rest EXCEPT !.pc = "keys", !.files = tree, !.had = had]
        /\ UNCHANGED <<queue, missed>>
    BY ZenonT(60), <1>6 DEF ReconcileProject
  <2>2. Sound(vx')
    BY <1>1, <2>1, VectorsRemoved
  <2>3. CASE vw' = Rest
    BY <1>1, <1>2, <2>1, <2>2, <2>3, VectorParts
  <2>4. ASSUME NEW had \in BOOLEAN, vw' = [Rest EXCEPT !.pc = "keys", !.files = tree, !.had = had]
        PROVE  VectorInv'
    <3>1. vw' \in WorkerType /\ vw'.pc = "keys" /\ vw'.left = {}
      BY <1>1, <1>2, <2>4 DEF WorkerType, WorkerPC
    <3> QED BY <1>1, <2>1, <2>2, <3>1, VectorParts
  <2> QED BY <2>1, <2>3, <2>4
<1>13. CASE ReadKeys
  <2> DEFINE l == {p \in Path : vw.files[p] # NoDoc /\ ~(vw.had /\ vx.keys[p] # NoDoc)}
  <2>1. l \subseteq Path /\ \A p \in l : vw.files[p] # NoDoc
    OBVIOUS
  <2>2. vw' = [vw EXCEPT !.pc = "pick", !.sweep = TRUE, !.left = l] /\ UNCHANGED <<vx, queue, missed>>
    BY <1>13 DEF ReadKeys
  <2> HIDE DEF l
  <2>3. vw' \in WorkerType /\ vw'.pc = "pick" /\ vw'.files = vw.files /\ vw'.left = l
    BY <1>1, <2>1, <2>2 DEF WorkerType, WorkerPC
  <2> QED BY <1>1, <2>1, <2>2, <2>3, VectorParts
<1>7. CASE \E p \in Path : PickFile(p)
  <2>1. PICK p \in Path : PickFile(p)
    BY <1>7
  <2>2. p \in vw.left /\ vw' = [vw EXCEPT !.pc = "embed", !.left = vw.left \ {p}, !.item = [path |-> p, doc |-> vw.files[p]]]
        /\ UNCHANGED <<vx, queue, missed>>
    BY <2>1 DEF PickFile
  <2>3. vw.files[p] \in Doc
    BY <1>1, <2>2 DEF WorkerType, File
  <2>4. [path |-> p, doc |-> vw.files[p]] \in Item
    BY <2>3 DEF Item
  <2>5. vw' \in WorkerType /\ vw'.pc = "embed" /\ vw'.item \in Item /\ vw'.left \subseteq vw.left /\ vw'.files = vw.files
    BY <1>1, <2>2, <2>4 DEF WorkerType, WorkerPC
  <2> QED BY <1>1, <2>2, <2>5, VectorParts
<1>8. CASE SweepEnd
  <2>1. vw' = Rest /\ UNCHANGED <<queue, missed>>
    BY <1>8 DEF SweepEnd
  <2>2. Sound(vx')
    <3> DEFINE k == [p \in Path |-> IF p \in gone(vw) THEN NoDoc ELSE vx.keys[p]]
    <3>1. vx' = vx \/ vx' = [vx EXCEPT !.keys = k]
      BY <1>8 DEF SweepEnd
    <3>2. k \in [Path -> {NoDoc} \cup Vector] /\ \A p \in Path : k[p] \in {NoDoc, vx.keys[p]}
      BY <1>1 DEF VectorType
    <3> HIDE DEF k
    <3>3. CASE vx' = [vx EXCEPT !.keys = k]
      <4>1. vx' \in VectorType /\ vx'.keys = k /\ vx'.model = vx.model /\ vx'.file = vx.file
        BY <1>1, <3>2, <3>3 DEF VectorType
      <4>2. \A p \in Path : k[p] # NoDoc => vx.keys[p] = k[p] /\ vx.keys[p] # NoDoc
        BY <3>2
      <4>3. \A p \in Path : k[p] # NoDoc => k[p].model = vx.model
        BY <1>1, <4>2 DEF Sound
      <4>4. vx.file # "ok" => \A p \in Path : k[p] = NoDoc
        BY <1>1, <3>2 DEF Sound
      <4> QED BY <4>1, <4>3, <4>4 DEF Sound
    <3> QED BY <1>1, <3>1, <3>3
  <2> QED BY <1>1, <1>2, <2>1, <2>2, VectorParts
<1>9. CASE \E fails \in BOOLEAN : Embed(fails)
  <2>1. vw.pc = "embed" /\ queue' = queue
    BY <1>9 DEF Embed
  <2>2. CASE vw' = Failed /\ missed' = Missing /\ vx' = vx
    BY <1>1, <1>3, <2>1, <2>2, VectorParts
  <2>3. CASE /\ VectorConfigured /\ vw' = [vw EXCEPT !.pc = "store", !.cfg = vx.cfg] /\ missed' = missed
             /\ vx' = [vx EXCEPT !.rdims = IF vx.rdims = 0 THEN DimsOf[vx.cfg] ELSE vx.rdims]
    <3>1. vx.cfg \in Model /\ DimsOf \in [Model -> Nat \ {0}]
      BY <1>1, <2>3, DerivedAssumption DEF VectorConfigured, VectorType
    <3>2. (IF vx.rdims = 0 THEN DimsOf[vx.cfg] ELSE vx.rdims) \in Nat
      BY <1>1, <3>1 DEF VectorType
    <3>3. vx' \in VectorType /\ vx'.keys = vx.keys /\ vx'.model = vx.model /\ vx'.file = vx.file
      BY <1>1, <2>3, <3>2 DEF VectorType
    <3>4. vw.item \in Item
      BY <2>1 DEF VectorInv
    <3>5. /\ vw' \in WorkerType /\ vw'.pc = "store" /\ vw'.cfg = vx.cfg /\ vw'.left = vw.left
          /\ vw'.files = vw.files /\ vw'.item = vw.item
      BY <1>1, <2>3, <3>1 DEF WorkerType, WorkerPC
    <3> QED BY <1>1, <2>1, <2>3, <3>1, <3>3, <3>4, <3>5, VectorParts DEF Sound
  <2> QED BY <1>9, <2>2, <2>3, Zenon DEF Embed
<1>10. CASE \E fails \in BOOLEAN : Store(fails)
  <2> DEFINE v == vectorFor(vx)
  <2>1. vw.pc = "store" /\ queue' = queue /\ vw.item \in Item /\ vw.cfg \in Model
    BY <1>10 DEF Store, VectorInv
  <2>2. Sound(v) /\ v \in VectorType
    BY <1>1, VectorsGiven DEF Sound
  <2>3. CASE vx' \in {vx, v} /\ vw' = Failed /\ missed' = Missing
    BY <1>1, <1>3, <2>1, <2>2, <2>3, VectorParts
  <2>4. CASE vx' = removeVectorFile(v) /\ vw' = Rest /\ missed' = missed
    BY <1>1, <1>2, <2>1, <2>2, <2>4, VectorsRemoved, VectorParts
  <2>5. CASE /\ v.file = "ok" /\ CheckModel(v, vw.cfg, DimsOf[vw.cfg]) /\ missed' = missed
             /\ vx' = [v EXCEPT !.keys[vw.item.path] = [doc |-> vw.item.doc, model |-> vw.cfg]]
             /\ vw' = IF vw.sweep THEN [vw EXCEPT !.pc = "pick", !.fails = 0] ELSE Rest
    <3>1. v.model = vw.cfg /\ vw.item.path \in Path /\ vw.item.doc \in Doc
      BY <2>1, <2>5 DEF CheckModel, Item
    <3> HIDE DEF v
    <3>2. Sound(vx')
      <4>1. /\ vx' = [v EXCEPT !.keys = [v.keys EXCEPT ![vw.item.path] = [doc |-> vw.item.doc, model |-> v.model]]]
            /\ v.model \in Model /\ v.file = "ok"
        BY <2>1, <2>5, <3>1
      <4> DEFINE p == vw.item.path
                 d == vw.item.doc
                 w == [v EXCEPT !.keys = [v.keys EXCEPT ![p] = [doc |-> d, model |-> v.model]]]
      <4>2. p \in Path /\ d \in Doc /\ vx' = w
        BY <3>1, <4>1
      <4>3. Sound(w)
        <5> HIDE DEF p, d
        <5> QED BY <2>2, <4>1, <4>2, VectorStored
      <4> QED BY <4>2, <4>3, Zenon
    <3>3. CASE vw' = Rest
      BY <1>1, <1>2, <2>1, <2>5, <3>2, <3>3, VectorParts
    <3>4. CASE vw' = [vw EXCEPT !.pc = "pick", !.fails = 0]
      <4>1. vw' \in WorkerType /\ vw'.pc = "pick" /\ vw'.left = vw.left /\ vw'.files = vw.files
        BY <1>1, <3>4 DEF WorkerType, WorkerPC
      <4> QED BY <1>1, <2>1, <2>5, <3>2, <4>1, VectorParts
    <3> QED BY <2>5, <3>3, <3>4
  <2>6. \/ vx' \in {vx, v} /\ vw' = Failed /\ missed' = Missing
        \/ vx' = removeVectorFile(v) /\ vw' = Rest /\ missed' = missed
        \/ /\ v.file = "ok" /\ CheckModel(v, vw.cfg, DimsOf[vw.cfg]) /\ missed' = missed
           /\ vx' = [v EXCEPT !.keys[vw.item.path] = [doc |-> vw.item.doc, model |-> vw.cfg]]
           /\ vw' = IF vw.sweep THEN [vw EXCEPT !.pc = "pick", !.fails = 0] ELSE Rest
    <3> HIDE DEF v
    <3> QED BY <1>10 DEF Store, v
  <2> QED BY <2>3, <2>4, <2>5, <2>6
<1>11. CASE \E m \in Model \cup {NoModel} : SetVectorConfig(m)
  <2>1. PICK m \in Model \cup {NoModel} : SetVectorConfig(m)
    BY <1>11
  <2>2. vx' = [vx EXCEPT !.cfg = m] /\ UNCHANGED <<queue, missed>>
    BY <2>1 DEF SetVectorConfig
  <2>3. Sound(vx')
    <3>1. vx' \in VectorType /\ vx'.keys = vx.keys /\ vx'.model = vx.model /\ vx'.file = vx.file
      BY <1>1, <2>2 DEF VectorType
    <3> QED BY <1>1, <3>1 DEF Sound
  <2>4. \/ vw' = [WorkerStart(m) EXCEPT !.ctx = "message"]
        \/ vw' = vw \/ vw' = [vw EXCEPT !.had = FALSE]
    BY <2>1, Zenon DEF SetVectorConfig
  <2>5. CASE vw' = [WorkerStart(m) EXCEPT !.ctx = "message"]
    <3>1. WorkerStart(m) \in WorkerType /\ WorkerStart(m).left = {} /\ WorkerStart(m).pc \in {"off", "list"}
      BY WorkerRests
    <3>2. vw' \in WorkerType /\ vw'.left = {} /\ vw'.pc \in {"off", "list"}
      BY <2>5, <3>1 DEF WorkerType
    <3> QED BY <1>1, <2>2, <2>3, <3>2, VectorParts
  <2>6. CASE vw' = vw
    BY <1>1, <2>2, <2>3, <2>6, VectorParts DEF VectorInv
  <2>7. CASE vw' = [vw EXCEPT !.had = FALSE]
    <3>1. /\ vw' \in WorkerType /\ vw'.left = vw.left /\ vw'.pc = vw.pc /\ vw'.item = vw.item /\ vw'.cfg = vw.cfg
          /\ vw'.files = vw.files
      BY <1>1, <2>7 DEF WorkerType
    <3> QED BY <1>1, <2>2, <2>3, <3>1, VectorParts DEF VectorInv
  <2> QED BY <2>4, <2>5, <2>6, <2>7
<1>12. CASE HandlerReturns
  <2>1. vw' = [vw EXCEPT !.pc = "dead"] /\ missed' = Missing \ {NoPath} /\ UNCHANGED <<vx, queue>>
    BY <1>12 DEF HandlerReturns
  <2>2. vw' \in WorkerType /\ vw'.pc = "dead" /\ vw'.left = vw.left /\ vw'.files = vw.files
    BY <1>1, <2>1 DEF WorkerType, WorkerPC
  <2>3. vw.item.path \in Path \cup {NoPath}
    BY <1>1 DEF WorkerType, Item, NoItem
  <2>4. missed' \subseteq Path
    BY <1>1, <2>1, <2>3 DEF Missing
  <2> QED BY <1>1, <2>1, <2>2, <2>4, VectorParts
<1> QED BY <1>4, <1>5, <1>6, <1>7, <1>8, <1>9, <1>10, <1>11, <1>12, <1>13 DEF VectorMove, VectorStep

LEMMA VectorNext ==
  ASSUME ActInv, StoreInv, VectorInv, [Next]_vars
  PROVE  VectorInv'
<1>1. CASE \E t \in Writer : VectorEnqueue(t) \/ VectorDelete(t, FALSE) \/ VectorDelete(t, TRUE)
  BY <1>1, VectorUpdate
<1>2. CASE \E t \in Writer : \/ WriteTree(t) \/ RemoveFile(t) \/ AppendLog(t) \/ AppendFails(t) \/ Kick(t)
                             \/ \E lost \in BOOLEAN : IndexDelete(t, lost) \/ IndexPut(t, lost)
  BY <1>2, VectorSame DEF WriteTree, RemoveFile, AppendLog, AppendFails, Kick, IndexDelete, IndexPut
<1>3. CASE (\E t \in Task, c \in Call : Begin(t, c)) \/ Commit \/ TakeKick \/ WriteReferrer \/ UNCHANGED vars
  BY <1>3, VectorSame DEF Begin, Commit, TakeKick, WriteReferrer, vars, vectorVars
<1>4. CASE SweepMove
  BY <1>4, SweepMoves, VectorSame DEF vectorVars
<1> QED BY <1>1, <1>2, <1>3, <1>4, VectorWorks, VectorCrash, Moves DEF WriterMove

----------------------------------------------------------------------------
(* The index is right when it is healthy and the log is drained *)

LEMMA IndexKeeps ==
  ASSUME IndexInv, wal' = wal, head' = head,
         \A p \in Path : Settled(p)' => Settled(p) /\ tree'[p] = tree[p] /\ (Excused(p) => Excused(p)'),
         IndexHealthy' => IndexHealthy /\ ix'.recs = ix.recs,
         sw'.pc \in {"create", "walk"} => sw' = sw \/ sw'.todo = Path
  PROVE  IndexInv'
<1>1. ASSUME IndexHealthy', wal' = 0, NEW p \in Path, Settled(p)'
      PROVE  ix'.recs[p] = tree'[p] \/ (ix'.recs[p] = NoDoc /\ Excused(p)')
  BY <1>1 DEF IndexInv
<1>2. ASSUME sw'.pc \in {"create", "walk"}, sw'.at = head', wal' = 0, NEW p \in Path \ sw'.todo, Settled(p)'
      PROVE  sw'.got[p] = tree'[p]
  BY <1>2 DEF IndexInv
<1> QED BY <1>1, <1>2 DEF IndexInv

\* A step of one writer leaves the files settled that it does not touch.
LEMMA SettledKept ==
  ASSUME NEW t \in Writer, \A u \in Writer \ {t} : act'[u] = act[u],
         drifted \subseteq drifted', undone \subseteq undone',
         \A p \in Path \ Place(t) : tree'[p] = tree[p],
         NEW q \in Path, Settled(q)',
         q \in Place(t) => /\ tree'[q] = tree[q] /\ ~Dirty(t)
                           /\ Unlisting(t) /\ act[t].call.path = q => q \in undone' \/ (Unlisting(t)' /\ act'[t].call.path = q)
  PROVE  Settled(q) /\ tree'[q] = tree[q] /\ (Excused(q) => Excused(q)')
<1>1. tree'[q] = tree[q] /\ q \notin drifted /\ tree[q] # NoDoc
  BY DEF Settled
<1>2. ASSUME NEW u \in Writer, Dirty(u) PROVE q \notin Place(u)
  <2>1. CASE u = t
    BY <1>2, <2>1
  <2>2. CASE u # t
    <3>1. Dirty(u)' /\ Place(u)' = Place(u)
      BY <1>2, <2>2 DEF Dirty, Place, Doing
    <3> QED BY <3>1 DEF Settled
  <2> QED BY <2>1, <2>2
<1>3. ASSUME Excused(q) PROVE Excused(q)'
  <2>1. CASE q \in undone
    BY <2>1 DEF Excused
  <2>2. ASSUME NEW u \in Writer, Unlisting(u), act[u].call.path = q PROVE Excused(q)'
    <3>1. CASE u = t
      <4>1. q \in Place(t)
        BY <2>2, <3>1 DEF Place
      <4> QED BY <2>2, <3>1, <4>1 DEF Excused
    <3>2. CASE u # t
      <4>1. act'[u] = act[u]
        BY <3>2
      <4> QED BY <2>2, <4>1 DEF Excused, Unlisting, Doing
    <3> QED BY <3>1, <3>2
  <2> QED BY <1>3, <2>1, <2>2 DEF Excused
<1> QED BY <1>1, <1>2, <1>3 DEF Settled

\* A step of a request that changes no file: what it still has to log, it has afterwards.
LEMMA StepKeeps ==
  ASSUME ActInv, NEW t \in Writer, WriterMove(t), ~AppendFails(t), ~AppendLog(t), ~WriteTree(t)
  PROVE  /\ Dirty(t) => Dirty(t)' /\ Place(t)' = Place(t)
         /\ Unlisting(t) => Unlisting(t)' /\ act'[t].call = act[t].call
<1>1. act \in [Writer -> ActType] /\ act[t].left # <<>> /\ Advance(t)
  BY WriterDoes DEF ActInv
<1> DEFINE op == act[t].call.op
           step == Head(act[t].left)
<1>2. op \in Ops /\ step \in StepsOf(op)
  BY <1>1, NextStep
<1>3. After(op, step) # "end" =>
        act'[t].call = act[t].call /\ act'[t].left # <<>> /\ Head(act'[t].left) = After(op, step)
  BY <1>1, NextStep
<1>4. step # "log" /\ step # "tree"
  BY DEF WriterMove, RemoveFile, Kick, IndexDelete, IndexPut, VectorDelete, VectorEnqueue, Doing
<1>5. ASSUME Dirty(t) PROVE Dirty(t)' /\ Place(t)' = Place(t)
  <2>1. op = "move" /\ step # "kick"
    BY <1>1, <1>4, <1>5 DEF Dirty, Doing
  <2>2. After(op, step) \in {"unindex", "index", "unvector", "vector", "log"}
    BY <1>2, <1>4, <2>1, Nexts DEF StepsOf
  <2> QED BY <1>3, <2>1, <2>2 DEF Dirty, Doing, Place
<1>6. ASSUME Unlisting(t) PROVE Unlisting(t)' /\ act'[t].call = act[t].call
  <2>1. op = "delete" /\ step = "unvector"
    BY <1>1, <1>4, <1>6 DEF Unlisting, Doing
  <2>2. After(op, step) = "log"
    BY <2>1, Nexts
  <2> QED BY <1>3, <2>1, <2>2 DEF Unlisting, Doing
<1> QED BY <1>5, <1>6

\* ... and the settled files are settled before and after.
LEMMA StepSettled ==
  ASSUME ActInv, NEW t \in Writer, WriterMove(t), ~AppendFails(t), ~AppendLog(t), ~WriteTree(t),
         UNCHANGED <<tree, drifted, undone>>, NEW q \in Path, Settled(q)'
  PROVE  Settled(q) /\ tree'[q] = tree[q] /\ (Excused(q) => Excused(q)')
<1>1. /\ Dirty(t) => Dirty(t)' /\ Place(t)' = Place(t)
      /\ Unlisting(t) => Unlisting(t)' /\ act'[t].call = act[t].call
  BY StepKeeps
<1>2. \A u \in Writer \ {t} : act'[u] = act[u]
  BY WriterMoves
<1>3. q \in Place(t) => ~Dirty(t)
  BY <1>1 DEF Settled
<1> QED BY <1>1, <1>2, <1>3, SettledKept

LEMMA IndexBegins ==
  ASSUME ActInv, StoreInv, IndexInv, NEW t \in Writer, act[t].left = <<>>, \A u \in Writer \ {t} : act'[u] = act[u],
         UNCHANGED <<tree, head, wal, ix, drifted, undone>>, sw' = sw \/ sw'.pc = "fix"
  PROVE  IndexInv'
<1>1. ~Dirty(t) /\ ~Unlisting(t)
  BY IdleIs DEF Dirty, Unlisting, ActInv
<1>2. \A p \in Path : Settled(p)' => Settled(p) /\ tree'[p] = tree[p] /\ (Excused(p) => Excused(p)')
  BY <1>1, SettledKept
<1>3. IndexHealthy' => IndexHealthy /\ ix'.recs = ix.recs
  BY DEF IndexHealthy
<1> QED BY <1>2, <1>3, IndexKeeps

LEMMA IndexTree ==
  ASSUME ActInv, StoreInv, IndexInv, NEW t \in Writer, WriteTree(t) \/ RemoveFile(t)
  PROVE  IndexInv'
<1>1. act \in [Writer -> ActType] /\ tree \in [Path -> File] /\ \A u \in Writer \ {t} : act'[u] = act[u]
  BY WriterMoves DEF WriterMove, ActInv, StoreInv
<1>2. UNCHANGED <<head, wal, ix, sw, drifted, undone>>
  BY DEF WriteTree, RemoveFile, ghost
<1>3. /\ \A p \in Path \ Place(t) : tree'[p] = tree[p]
      /\ act[t].left # <<>> /\ Advance(t) /\ CallOK(act[t].call)
  BY <1>1, TreeWritten, FileRemoved DEF Place
<1>4. ASSUME NEW p \in Path, Settled(p)', p \in Place(t)
      PROVE  FALSE
  <2> DEFINE op == act[t].call.op
             step == Head(act[t].left)
  <2>1. ASSUME After(op, step) # "end"
        PROVE  act'[t].call = act[t].call /\ act'[t].left # <<>> /\ Head(act'[t].left) = After(op, step)
    BY <1>1, <1>3, <2>1, NextStep
  <2>2. CASE op = "write" /\ step = "tree"
    <3>1. Dirty(t)' /\ Place(t)' = Place(t)
      BY <2>1, <2>2, Nexts DEF Dirty, Doing, Place
    <3> QED BY <1>4, <3>1 DEF Settled
  <2>3. CASE op = "move" /\ step \in {"tree", "remove"}
    <3>1. Dirty(t)' /\ Place(t)' = Place(t)
      BY <2>1, <2>3, Nexts DEF Dirty, Doing, Place
    <3> QED BY <1>4, <3>1 DEF Settled
  <2>4. CASE op = "delete" /\ RemoveFile(t)
    <3>1. p = act[t].call.path /\ Source(act[t].call) = p
      BY <1>3, <1>4, <2>4, CallTypes, Types DEF Place, Source
    <3>2. tree'[p] = NoDoc
      BY <1>1, <2>4, <3>1, FileRemoved
    <3> QED BY <1>4, <3>2 DEF Settled
  <2>5. CASE WriteTree(t)
    <3>1. op \in {"write", "move"} /\ step = "tree"
      BY <1>1, <2>5, TreeWritten DEF Doing
    <3> QED BY <2>2, <2>3, <3>1
  <2>6. CASE RemoveFile(t)
    <3>1. op \in {"move", "delete"} /\ step = "remove"
      BY <1>1, <2>6, FileRemoved DEF Doing
    <3> QED BY <2>3, <2>4, <2>6, <3>1
  <2> QED BY <2>5, <2>6
<1>5. \A p \in Path : Settled(p)' => Settled(p) /\ tree'[p] = tree[p] /\ (Excused(p) => Excused(p)')
  BY <1>1, <1>2, <1>3, <1>4, SettledKept
<1>6. IndexHealthy' => IndexHealthy /\ ix'.recs = ix.recs
  BY <1>2 DEF IndexHealthy
<1> QED BY <1>2, <1>5, <1>6, IndexKeeps

LEMMA IndexFails ==
  ASSUME ActInv, StoreInv, IndexInv, NEW t \in Writer, AppendFails(t)
  PROVE  IndexInv'
<1> DEFINE c == act[t].call
<1>1. CallOK(c) /\ \A u \in Writer \ {t} : act'[u] = act[u]
  BY WriterMoves DEF WriterMove
<1>2. /\ UNCHANGED <<tree, head, wal, ix, sw>> /\ Doing(t, "log")
      /\ undone' = undone \cup (IF c.op = "delete" THEN {c.path} ELSE {})
      /\ drifted' = drifted \cup (IF c.op = "delete" THEN {} ELSE {c.path, c.from} \ {NoPath})
  BY DEF AppendFails, indexVars
<1>4. ASSUME NEW p \in Path, Settled(p)', p \in Place(t)
      PROVE  ~Dirty(t) /\ p \in undone'
  <2>1. p \notin drifted'
    BY <1>4 DEF Settled
  <2>2. p \in {c.path, c.from} \ {NoPath}
    BY <1>4, Types DEF Place
  <2>3. c.op = "delete"
    BY <1>2, <2>1, <2>2
  <2>4. p = c.path
    BY <1>1, <2>2, <2>3, CallTypes
  <2> QED BY <1>2, <2>3, <2>4 DEF Dirty
<1>5. \A p \in Path : Settled(p)' => Settled(p) /\ tree'[p] = tree[p] /\ (Excused(p) => Excused(p)')
  BY <1>1, <1>2, <1>4, SettledKept
<1>6. IndexHealthy' => IndexHealthy /\ ix'.recs = ix.recs
  BY <1>2 DEF IndexHealthy
<1> QED BY <1>2, <1>5, <1>6, IndexKeeps

\* A kick, and the update of the vectors.
LEMMA IndexElse ==
  ASSUME ActInv, StoreInv, IndexInv, NEW t \in Writer,
         Kick(t) \/ VectorEnqueue(t) \/ VectorDelete(t, FALSE) \/ VectorDelete(t, TRUE)
  PROVE  IndexInv'
<1>1. UNCHANGED <<tree, head, wal, ix, sw, drifted, undone>>
  BY DEF Kick, VectorEnqueue, VectorDelete, indexVars, ghost
<1>2. WriterMove(t) /\ ~AppendFails(t) /\ ~AppendLog(t) /\ ~WriteTree(t)
  BY DEF WriterMove, Kick, VectorEnqueue, VectorDelete, AppendFails, AppendLog, WriteTree, Doing
<1>3. \A p \in Path : Settled(p)' => Settled(p) /\ tree'[p] = tree[p] /\ (Excused(p) => Excused(p)')
  BY <1>1, <1>2, StepSettled
<1>4. IndexHealthy' => IndexHealthy /\ ix'.recs = ix.recs
  BY <1>1 DEF IndexHealthy
<1> QED BY <1>1, <1>3, <1>4, IndexKeeps

\* The update of one record: of a write's file, of a file about to be deleted, or of one
\* that a move has not logged yet.
LEMMA IndexUpdates ==
  ASSUME ActInv, StoreInv, IndexInv, NEW t \in Writer, NEW lost \in BOOLEAN,
         IndexDelete(t, lost) \/ IndexPut(t, lost)
  PROVE  IndexInv'
<1> DEFINE c == act[t].call
<1>1. act \in [Writer -> ActType] /\ act[t].left # <<>> /\ Advance(t)
  BY DEF ActInv, IndexDelete, IndexPut, Doing
<1>2. UNCHANGED <<tree, head, wal, sw, drifted, undone>>
  BY DEF IndexDelete, IndexPut, ghost
<1>3. WriterMove(t) /\ ~AppendFails(t) /\ ~AppendLog(t) /\ ~WriteTree(t)
  BY DEF WriterMove, IndexDelete, IndexPut, AppendFails, AppendLog, WriteTree, Doing
<1>4. \A p \in Path : Settled(p)' => Settled(p) /\ tree'[p] = tree[p] /\ (Excused(p) => Excused(p)')
  BY <1>2, <1>3, StepSettled
<1>5. PICK q \in Place(t) \cap Path, d \in File :
        /\ ix' \in {ix, PutRecord(ix, q, d)}
        /\ \/ d = NoDoc /\ Doing(t, "unindex") /\ c.op \in {"move", "delete"} /\ q = Source(c)
           \/ d = c.doc /\ Doing(t, "index") /\ c.op \in {"write", "move"} /\ q = c.path
  <2>1. CASE IndexDelete(t, lost)
    BY <2>1, DeletePlace DEF IndexDelete, DeleteRecord, File
  <2>2. CASE IndexPut(t, lost)
    BY <2>2, PutPlace DEF IndexPut, Place
  <2> QED BY <2>1, <2>2
<1>6. /\ ix' \in IndexType /\ ix'.marker \in {ix.marker, 0}
      /\ ix.file # "ok" => ix'.file # "ok" \/ ix'.marker = 0
      /\ ix.file = "ok" =>
           /\ \A p \in Path \ {q} : ix'.recs[p] = ix.recs[p]
           /\ ix'.recs[q] \in {ix.recs[q], d}
  BY <1>5, Updated
<1>7. IndexHealthy' => IndexHealthy
  BY <1>2, <1>6 DEF IndexHealthy, StoreInv
<1>8. ASSUME Settled(q)' PROVE d = tree[q] \/ (d = NoDoc /\ Excused(q)')
  <2>1. CASE c.op = "move"
    <3>1. Dirty(t)
      BY <1>5, <2>1 DEF Dirty, Doing
    <3>2. Dirty(t)' /\ Place(t)' = Place(t)
      BY <1>3, <3>1, StepKeeps
    <3> QED BY <1>5, <1>8, <3>2 DEF Settled
  <2>2. CASE c.op = "write"
    <3>1. d = c.doc /\ q = c.path /\ ~Doing(t, "tree")
      BY <1>5, <2>2 DEF Doing
    <3> QED BY <2>2, <3>1 DEF ActInv
  <2>3. CASE c.op = "delete"
    <3>1. d = NoDoc /\ q = c.path /\ Doing(t, "unindex")
      BY <1>5, <2>3 DEF Source
    <3>2. act'[t].call = c /\ act'[t].left # <<>> /\ Head(act'[t].left) = "unvector"
      BY <1>1, <2>3, <3>1, NextStep, Nexts DEF Doing
    <3> QED BY <2>3, <3>1, <3>2 DEF Excused, Unlisting, Doing
  <2> QED BY <1>5, <2>1, <2>2, <2>3
<1>10. ASSUME IndexHealthy', wal' = 0, NEW p \in Path, Settled(p)'
       PROVE  ix'.recs[p] = tree'[p] \/ (ix'.recs[p] = NoDoc /\ Excused(p)')
  <2>1. IndexHealthy /\ wal = 0 /\ ix.file = "ok"
    BY <1>2, <1>7, <1>10 DEF IndexHealthy
  <2>2. Settled(p) /\ tree'[p] = tree[p] /\ (Excused(p) => Excused(p)')
    BY <1>4, <1>10
  <2>3. ix.recs[p] = tree[p] \/ (ix.recs[p] = NoDoc /\ Excused(p))
    BY <2>1, <2>2 DEF IndexInv
  <2> QED BY <1>6, <1>8, <1>10, <2>1, <2>2, <2>3
<1>11. ASSUME sw'.pc \in {"create", "walk"}, sw'.at = head', wal' = 0, NEW p \in Path \ sw'.todo, Settled(p)'
       PROVE  sw'.got[p] = tree'[p]
  BY <1>2, <1>4, <1>11 DEF IndexInv
<1> QED BY <1>10, <1>11 DEF IndexInv

\* Files and writers as they were.
LEMMA SettledSame ==
  ASSUME UNCHANGED <<tree, act, drifted, undone>>
  PROVE  \A p \in Path : Settled(p)' => Settled(p) /\ tree'[p] = tree[p] /\ (Excused(p) => Excused(p)')
BY DEF Settled, Dirty, Place, Excused, Unlisting, Doing

LEMMA IndexSweeps ==
  ASSUME StoreInv, SweepInv, IndexInv, SweepMove
  PROVE  IndexInv'
<1>1. UNCHANGED <<tree, head, wal, act, drifted, undone>>
  BY SweepMoves DEF rest
<1>2. \A p \in Path : Settled(p)' => Settled(p) /\ tree'[p] = tree[p] /\ (Excused(p) => Excused(p)')
  BY <1>1, SettledSame
<1>3. head \in Nat \ {0} /\ sw \in SweepType /\ tree \in [Path -> File]
  BY DEF StoreInv, SweepInv
<1>4. ASSUME ix' = ix, sw' = AtRest \/ sw'.pc \notin {"create", "walk"} PROVE IndexInv'
  BY <1>1, <1>2, <1>4, AtRestTyped, IndexKeeps DEF IndexHealthy
<1>5. CASE ReconcileAllIndexes \/ WaitForWAL \/ FixLinksEnd
  <2>1. ix' = ix /\ (sw' = AtRest \/ sw' = [sw EXCEPT !.pc = "wait"] \/ sw' = [sw EXCEPT !.pc = "head"])
    BY <1>5 DEF ReconcileAllIndexes, WaitForWAL, FixLinksEnd
  <2> QED BY <1>3, <1>4, <2>1 DEF SweepType
<1>6. CASE ReconcileIndex
  <2>1. IndexHealthy' => IndexHealthy /\ ix'.recs = ix.recs
    BY <1>1, <1>6, StoreIs DEF ReconcileIndex, discarded, IndexHealthy, IndexType
  <2>2. sw' = AtRest \/ sw'.todo = Path
    BY <1>3, <1>6 DEF ReconcileIndex, SweepType
  <2> QED BY <1>1, <1>2, <2>1, <2>2, AtRestTyped, IndexKeeps
<1>7. CASE \E fails \in BOOLEAN : CreateIndex(fails)
  <2>1. CASE ix' = ix /\ sw' = AtRest
    BY <1>4, <2>1
  <2>2. CASE ix.file = "gone" /\ ix' = indexFor(ix) /\ sw' = [sw EXCEPT !.pc = "walk"]
    <3>1. ix'.marker = 0
      BY <2>2 DEF indexFor
    <3>2. ~IndexHealthy'
      BY <1>1, <1>3, <3>1 DEF IndexHealthy
    <3>3. sw'.todo = Path
      BY <1>3, <1>7, <2>2 DEF CreateIndex, SweepInv, SweepType
    <3> QED BY <1>1, <1>2, <3>2, <3>3, IndexKeeps
  <2> QED BY <1>7, <2>1, <2>2 DEF CreateIndex
<1>8. CASE \E fails \in BOOLEAN : ReplaceAll(fails)
  <2>1. sw' = AtRest /\ sw.pc = "walk" /\ sw.todo = {}
    BY <1>8 DEF ReplaceAll
  <2>2. CASE ix' = ix
    BY <1>4, <2>1, <2>2
  <2>3. CASE ix' = replaced(sw.got, sw.at)
    <3>1. ix'.file = "ok" /\ ix'.recs = sw.got /\ ix'.marker = sw.at
      BY <2>3 DEF replaced
    <3>2. ASSUME IndexHealthy', wal' = 0, NEW p \in Path, Settled(p)' PROVE ix'.recs[p] = tree'[p]
      <4>1. sw.at = head /\ wal = 0 /\ p \in Path \ sw.todo /\ Settled(p)
        BY <1>1, <1>2, <2>1, <3>1, <3>2 DEF IndexHealthy
      <4> QED BY <1>1, <2>1, <3>1, <4>1 DEF IndexInv
    <3>3. sw'.pc \notin {"create", "walk"}
      BY <2>1, AtRestTyped
    <3> QED BY <3>2, <3>3 DEF IndexInv
  <2> QED BY <1>8, <2>2, <2>3 DEF ReplaceAll
<1>9. CASE \E p \in Path : WalkFile(p)
  <2>1. PICK q \in Path : /\ ix' = ix /\ sw.pc = "walk"
                          /\ sw' = [sw EXCEPT !.todo = sw.todo \ {q}, !.got = [sw.got EXCEPT ![q] = tree[q]]]
    BY ZenonT(60), <1>9 DEF WalkFile
  <2>2. /\ sw'.pc = "walk" /\ sw'.at = sw.at /\ sw'.todo = sw.todo \ {q}
        /\ sw'.got = [sw.got EXCEPT ![q] = tree[q]] /\ sw.got \in [Path -> File]
    BY <1>3, <2>1 DEF SweepType
  <2>3. ASSUME sw'.at = head', wal' = 0, NEW p \in Path \ sw'.todo, Settled(p)' PROVE sw'.got[p] = tree'[p]
    <3>1. Settled(p) /\ sw.at = head /\ wal = 0
      BY <1>1, <1>2, <2>2, <2>3
    <3>2. CASE p = q
      BY <1>1, <2>2, <3>2
    <3>3. CASE p # q
      <4>1. p \in Path \ sw.todo
        BY <2>2, <2>3, <3>3
      <4>2. sw.got[p] = tree[p]
        BY <2>1, <3>1, <4>1 DEF IndexInv
      <4> QED BY <1>1, <2>2, <3>3, <4>2
    <3> QED BY <3>2, <3>3
  <2>4. ASSUME IndexHealthy', wal' = 0, NEW p \in Path, Settled(p)'
        PROVE  ix'.recs[p] = tree'[p] \/ (ix'.recs[p] = NoDoc /\ Excused(p)')
    BY <1>1, <1>2, <2>1, <2>4 DEF IndexInv, IndexHealthy
  <2> QED BY <2>3, <2>4 DEF IndexInv
<1>10. CASE \E p \in Path : discoverReferrers(p) \/ ReadReferrer(p)
  <2>1. PICK p \in Path : discoverReferrers(p) \/ ReadReferrer(p)
    BY <1>10
  <2>2. ix' = ix /\ sw'.pc \in {"scan", "fix", "write"}
    BY <1>3, <2>1 DEF discoverReferrers, ReadReferrer, SweepType
  <2> QED BY <1>4, <2>2
<1> QED BY <1>5, <1>6, <1>7, <1>8, <1>9, <1>10 DEF SweepMove

LEMMA IndexCrash ==
  ASSUME ActInv, StoreInv, SweepInv, IndexInv, NEW f \in {ix.file} \cup dep.damage, NEW v, Crash(f, v)
  PROVE  IndexInv'
<1>1. UNCHANGED <<tree, head, wal, undone>> /\ act' = [t \in Writer |-> Idle] /\ ix' = [ix EXCEPT !.file = f]
      /\ sw' = SweepStart(dep) /\ drifted' = drifted \cup ((UNION {Held(t) : t \in Writer}) \ {NoPath})
  BY DEF Crash
<1>2. ASSUME NEW p \in Path, Settled(p)', NEW t \in Writer, Dirty(t) \/ Unlisting(t), p \in Place(t) PROVE FALSE
  <2>1. Held(t) = Place(t)
    <3>1. act \in [Writer -> ActType]
      BY DEF ActInv
    <3>2. act[t].left # <<>>
      BY <1>2, <3>1, IdleIs DEF Dirty, Unlisting
    <3>3. act[t].left # <<"kick">>
      <4>1. <<"kick">> # <<>> /\ Head(<<"kick">>) = "kick"
        OBVIOUS
      <4>2. ~Doing(t, "kick")
        BY <1>2 DEF Dirty, Unlisting, Doing
      <4> QED BY <4>1, <4>2, Zenon DEF Doing
    <3> QED BY <3>2, <3>3 DEF Held, Place
  <2>2. p \in Held(t) /\ p # NoPath
    BY <1>2, <2>1, Types
  <2>3. p \in drifted'
    BY <1>1, <2>2
  <2> QED BY <1>2, <2>3 DEF Settled
<1>3. \A p \in Path : Settled(p)' => Settled(p) /\ tree'[p] = tree[p] /\ (Excused(p) => Excused(p)')
  <2>1. ASSUME NEW p \in Path, Settled(p)' PROVE Settled(p) /\ tree'[p] = tree[p] /\ (Excused(p) => Excused(p)')
    <3>1. Settled(p) /\ tree'[p] = tree[p]
      BY <1>1, <1>2, <2>1 DEF Settled
    <3>2. ASSUME Excused(p) PROVE p \in undone
      <4>1. ASSUME NEW t \in Writer, Unlisting(t), act[t].call.path = p PROVE FALSE
        <5>1. p \in Place(t)
          BY <4>1 DEF Place
        <5> QED BY <1>2, <2>1, <4>1, <5>1
      <4> QED BY <3>2, <4>1 DEF Excused
    <3> QED BY <1>1, <3>1, <3>2 DEF Excused
  <2> QED BY <2>1
<1>4. IndexHealthy' => IndexHealthy /\ ix'.recs = ix.recs
  <2>1. ix'.file = f /\ ix'.recs = ix.recs /\ ix'.marker = ix.marker
    BY <1>1, StoreIs DEF StoreInv
  <2>2. dep \in Deployment
    BY DerivedAssumption DEF StoreInv
  <2>3. f = "ok" => ix.file = "ok"
    BY <2>2 DEF Deployment
  <2> QED BY <1>1, <2>1, <2>3 DEF IndexHealthy
<1>5. sw'.pc \notin {"create", "walk"}
  <2>1. dep \in Deployment
    BY DerivedAssumption DEF StoreInv
  <2>2. sw'.pc \in {"wait", "off"}
    BY <1>1, <2>1, AtRestTyped
  <2> QED BY <2>2
<1> QED BY <1>1, <1>3, <1>4, <1>5, IndexKeeps

LEMMA IndexNext ==
  ASSUME ActInv, StoreInv, SweepInv, IndexInv, [Next]_vars
  PROVE  IndexInv'
<1>1. CASE \E t \in Task, c \in Call : Begin(t, c)
  <2>1. PICK t \in Task, c \in Call : Begin(t, c)
    BY <1>1
  <2>2. UNCHANGED <<tree, head, wal, ix, sw, drifted, undone>> /\ act[t].left = <<>> /\ t \in Writer
    BY <2>1, Types DEF Begin, indexVars, ghost
  <2>3. \A u \in Writer \ {t} : act'[u] = act[u]
    BY <2>1, Types DEF Begin, Begins, ActInv
  <2> QED BY <2>2, <2>3, IndexBegins
<1>2. CASE \E t \in Writer : AppendLog(t)
  <2>1. wal' # 0
    BY <1>2 DEF AppendLog, StoreInv
  <2> QED BY <2>1 DEF IndexInv
<1>3. CASE Commit
  <2>1. head' = head + 1 /\ ix' = ix /\ sw' = sw /\ ix.marker <= head /\ sw.at <= head
        /\ head \in Nat /\ ix.marker \in Nat /\ sw.at \in Nat
    BY <1>3 DEF Commit, indexVars, StoreInv, SweepInv, SweepType
  <2>2. ~IndexHealthy' /\ sw'.at # head'
    BY <2>1 DEF IndexHealthy
  <2> QED BY <2>2 DEF IndexInv
<1>4. CASE TakeKick
  <2>1. UNCHANGED <<tree, act, drifted, undone, head, wal, ix>>
    BY <1>4 DEF TakeKick, tk, ghost
  <2>2. sw'.pc \in {"fix", "scan"}
    BY <1>4, AtRestTyped DEF TakeKick, SweepType
  <2> QED BY <2>1, <2>2, SettledSame, IndexKeeps DEF IndexHealthy
<1>5. CASE WriteReferrer
  <2>1. sw.pc = "write" /\ UNCHANGED <<tree, head, wal, ix, drifted, undone>> /\ sw' = [sw EXCEPT !.pc = "fix"]
    BY <1>5 DEF WriteReferrer, ghost
  <2>2. act[Sweeper].left = <<>> /\ sw'.pc = "fix"
    BY <2>1 DEF SweepInv, SweepType
  <2>3. \A u \in Writer \ {Sweeper} : act'[u] = act[u]
    BY <1>5, Types DEF WriteReferrer, Begins, ActInv
  <2> QED BY <2>1, <2>2, <2>3, IndexBegins, Types
<1>6. CASE VectorMove \/ UNCHANGED vars
  <2>1. UNCHANGED <<tree, act, drifted, undone, head, wal, ix, sw>>
    BY <1>6, VectorMoves DEF vars, rest
  <2> QED BY <2>1, SettledSame, IndexKeeps DEF IndexHealthy
<1> QED BY <1>1, <1>2, <1>3, <1>4, <1>5, <1>6, IndexTree, IndexFails, IndexElse, IndexUpdates, IndexSweeps, IndexCrash, Moves
       DEF WriterMove

----------------------------------------------------------------------------
(* No link is forgotten *)

LEMMA OwedIs ==
  ASSUME StoreInv, LinksInv, NEW o \in owed
  PROVE  /\ o = <<o[1], o[2]>> /\ o[1] \in Path /\ o[2] \in Path /\ o[1] # o[2]
         /\ o[1] \in Markdown /\ tree[o[1]] # NoDoc /\ tree[o[1]].link = o[2]
         /\ Queued(o[1], o[2]) \/ InHand(o[1], o[2])
BY DEF StoreInv, LinksInv, LinksTo

\* The links stay owed where they are.
LEMMA LinksKept ==
  ASSUME StoreInv, LinksInv, owed' \subseteq owed,
         \A o \in owed' : tree'[o[1]] = tree[o[1]],
         \A o \in owed' : (Queued(o[1], o[2]) => Queued(o[1], o[2])' \/ InHand(o[1], o[2])'),
         \A o \in owed' : (InHand(o[1], o[2]) => InHand(o[1], o[2])')
  PROVE  LinksInv'
<1>1. ASSUME NEW o \in owed'
      PROVE  /\ o[1] # o[2] /\ LinksTo(o[1], tree'[o[1]], o[2])
             /\ Queued(o[1], o[2])' \/ InHand(o[1], o[2])'
  BY <1>1, OwedIs DEF LinksTo
<1> QED BY <1>1 DEF LinksInv

LEMMA HandSame ==
  ASSUME sw' = sw, Doing(Sweeper, "tree") => Doing(Sweeper, "tree")', NEW p, tree'[p] = tree[p], NEW src
  PROVE  InHand(p, src) => InHand(p, src)'
BY DEF InHand, Fixing

LEMMA LinksSame ==
  ASSUME StoreInv, LinksInv, UNCHANGED <<tree, kicks, sw, owed>>, Doing(Sweeper, "tree") => Doing(Sweeper, "tree")'
  PROVE  LinksInv'
BY HandSame, LinksKept DEF Queued

\* Only its own WriteTree takes the goroutine past its step "tree".
LEMMA DoingElse ==
  ASSUME ActInv, NEW t \in Writer, WriterMove(t), ~WriteTree(t) \/ t # Sweeper, Doing(Sweeper, "tree")
  PROVE  Doing(Sweeper, "tree")'
<1>1. t # Sweeper
  BY DEF WriterMove, WriteTree, RemoveFile, AppendLog, AppendFails, Kick, IndexDelete, IndexPut, VectorDelete,
         VectorEnqueue, Doing
<1> QED BY <1>1, WriterMoves, Types DEF Doing

LEMMA LinksKick ==
  ASSUME ActInv, StoreInv, LinksInv, NEW t \in Writer, Kick(t)
  PROVE  LinksInv'
<1>1. act[t].call.op = "move" /\ CallOK(act[t].call)
  BY KickPlace
<1>2. PICK src \in Path, dst \in Path : src = act[t].call.from /\ dst = act[t].call.path
  BY <1>1, CallTypes
<1> DEFINE k == <<src, dst>>
<1>3. src \in Path /\ dst \in Path /\ k \in Path \X Path /\ k[1] = src /\ k[2] = dst
  OBVIOUS
<1>4. /\ kicks' = IF Len(kicks) < KickBuffer THEN Append(kicks, k) ELSE kicks
      /\ owed' = IF kicks' = kicks THEN owed
                 ELSE owed \cup {<<p, src>> : p \in {p \in Path \ {src, dst} : LinksTo(p, tree[p], src)}}
      /\ tree' = tree /\ sw' = sw
  BY <1>2 DEF Kick, enqueueFixLinks
<1>5. Doing(Sweeper, "tree") => Doing(Sweeper, "tree")'
  <2>1. ~WriteTree(t)
    BY DEF WriteTree, Kick, Doing
  <2> QED BY <2>1, DoingElse DEF WriterMove
<1>6. CASE kicks' = kicks
  BY <1>4, <1>5, <1>6, LinksSame
<1>7. CASE kicks' # kicks
  <2>1. kicks' = Append(kicks, k)
    BY <1>4, <1>7
  <2> HIDE DEF k
  <2>2. /\ \A i \in DOMAIN kicks : i \in DOMAIN kicks' /\ kicks'[i] = kicks[i]
        /\ Len(kicks) + 1 \in DOMAIN kicks' /\ kicks'[Len(kicks) + 1] = k
    BY <1>3, <2>1, KickTypes DEF StoreInv
  <2>3. ASSUME NEW o \in owed
        PROVE  /\ o[1] # o[2] /\ LinksTo(o[1], tree'[o[1]], o[2])
               /\ Queued(o[1], o[2])' \/ InHand(o[1], o[2])'
    <3>1. Queued(o[1], o[2]) => Queued(o[1], o[2])'
      BY <2>2 DEF Queued
    <3>2. InHand(o[1], o[2]) => InHand(o[1], o[2])'
      BY <1>4, <1>5, HandSame
    <3> QED BY <1>4, <3>1, <3>2 DEF LinksInv
  <2>4. ASSUME NEW p \in Path \ {src, dst}, LinksTo(p, tree[p], src)
        PROVE  p # src /\ LinksTo(p, tree'[p], src) /\ Queued(p, src)'
    BY <1>3, <1>4, <2>2, <2>4 DEF Queued
  <2>5. \A o \in owed' : o \in owed \/ \E p \in Path \ {src, dst} : LinksTo(p, tree[p], src) /\ o = <<p, src>>
    BY <1>4, <1>7
  <2>6. ASSUME NEW o \in owed'
        PROVE  /\ o[1] # o[2] /\ LinksTo(o[1], tree'[o[1]], o[2])
               /\ Queued(o[1], o[2])' \/ InHand(o[1], o[2])'
    <3>1. CASE o \in owed
      BY <2>3, <3>1
    <3>2. ASSUME NEW p \in Path \ {src, dst}, LinksTo(p, tree[p], src), o = <<p, src>>
          PROVE  /\ o[1] # o[2] /\ LinksTo(o[1], tree'[o[1]], o[2])
                 /\ Queued(o[1], o[2])' \/ InHand(o[1], o[2])'
      BY <2>4, <3>2
    <3> QED BY <2>5, <3>1, <3>2
  <2> QED BY <2>6 DEF LinksInv
<1> QED BY <1>6, <1>7

\* A change of a caller's file settles what was owed to it.
LEMMA LinksCaller ==
  ASSUME ActInv, StoreInv, LinksInv, NEW t \in Writer, RemoveFile(t) \/ (t # Sweeper /\ WriteTree(t))
  PROVE  LinksInv'
<1>1. PICK p : /\ \A q \in Path \ {p} : tree'[q] = tree[q]
               /\ owed' = {o \in owed : o[1] # p} /\ kicks' = kicks /\ sw' = sw
  <2>1. act \in [Writer -> ActType] /\ tree \in [Path -> File]
    BY DEF ActInv, StoreInv
  <2>2. CASE RemoveFile(t)
    BY <2>1, <2>2, FileRemoved DEF RemoveFile
  <2>3. CASE t # Sweeper /\ WriteTree(t)
    BY <2>1, <2>3, TreeWritten DEF WriteTree, Settle
  <2> QED BY <2>2, <2>3
<1>2. owed' \subseteq owed
  BY <1>1
<1>3. \A o \in owed' : tree'[o[1]] = tree[o[1]]
  BY <1>1, OwedIs
<1>4. Doing(Sweeper, "tree") => Doing(Sweeper, "tree")'
  <2>1. ~WriteTree(t) \/ t # Sweeper
    BY DEF RemoveFile, WriteTree, Doing
  <2> QED BY <2>1, DoingElse DEF WriterMove
<1> QED BY <1>1, <1>2, <1>3, <1>4, HandSame, LinksKept DEF Queued

\* A repair settles its own link; the new one may have been broken in the meantime.
LEMMA LinksRepair ==
  ASSUME ActInv, StoreInv, SweepInv, LinksInv, WriteTree(Sweeper)
  PROVE  LinksInv'
<1>1. Doing(Sweeper, "tree") /\ Sweeper \in Writer
  BY Types DEF WriteTree
<1>2. /\ act[Sweeper].call = Rewrite /\ tree[sw.ref] = sw.data /\ sw.ref \in Path /\ sw.kick \in Path \X Path
      /\ sw.ref # sw.kick[1] /\ sw.ref # sw.kick[2] /\ sw.data # NoDoc /\ sw.data.link = sw.kick[1] /\ sw.pc = "fix"
      /\ sw.ref \in Markdown /\ sw.data \in Doc
  <2>1. sw.ref \in Path /\ sw.data \in File /\ sw.data # NoDoc /\ sw.ref \in Markdown \cup {NoPath}
    BY <1>1 DEF SweepInv, SweepType
  <2>2. sw.pc = "fix"
    BY <1>1 DEF SweepInv, Doing
  <2>3. sw.kick \in Path \X Path
    BY <2>2 DEF SweepInv, Fixing
  <2> QED BY <1>1, <2>1, <2>2, <2>3, Types DEF SweepInv, File
<1> DEFINE c == act[Sweeper].call
<1>3. c.path = sw.ref /\ c.from = NoPath /\ c.op = "write" /\ c.doc = [sw.data EXCEPT !.link = sw.kick[2]]
  BY <1>2 DEF Rewrite, rewriteLinks
<1>4. tree'[sw.ref] = [sw.data EXCEPT !.link = sw.kick[2]] /\ \A p \in Path \ {sw.ref} : tree'[p] = tree[p]
  BY <1>1, <1>2, <1>3, TreeWritten, Types DEF ActInv, StoreInv
<1>5. tree'[sw.ref] # NoDoc /\ tree'[sw.ref].link = sw.kick[2]
  <2>1. [sw.data EXCEPT !.link = sw.kick[2]] \in Doc /\ [sw.data EXCEPT !.link = sw.kick[2]].link = sw.kick[2]
    BY <1>2 DEF Doc
  <2> QED BY <1>4, <2>1, Types
<1>6. /\ kicks' = kicks /\ sw' = sw
      /\ owed' = (owed \ {<<sw.ref, sw.kick[1]>>})
                   \cup {<<sw.ref, k[1]>> : k \in {k \in {kicks[i] : i \in DOMAIN kicks} :
                                                    k[1] = sw.kick[2] /\ sw.ref # k[2]}}
  BY <1>3 DEF WriteTree, Settle
<1>7. ASSUME NEW o \in owed, o # <<sw.ref, sw.kick[1]>>
      PROVE  /\ o[1] # o[2] /\ LinksTo(o[1], tree'[o[1]], o[2])
             /\ Queued(o[1], o[2])' \/ InHand(o[1], o[2])'
  <2>1. o[1] # sw.ref /\ o[1] \in Path
    BY <1>2, <1>7, OwedIs
  <2>2. tree'[o[1]] = tree[o[1]]
    BY <1>4, <2>1
  <2>3. InHand(o[1], o[2]) => InHand(o[1], o[2])'
    BY <1>2, <1>6, <2>1 DEF InHand, Fixing
  <2> QED BY <1>6, <2>2, <2>3 DEF LinksInv, Queued
<1>8. ASSUME NEW i \in DOMAIN kicks, kicks[i][1] = sw.kick[2], sw.ref # kicks[i][2]
      PROVE  LinksTo(sw.ref, tree'[sw.ref], sw.kick[2]) /\ Queued(sw.ref, sw.kick[2])'
  BY <1>2, <1>5, <1>6, <1>8 DEF LinksTo, Queued
<1>9. ASSUME NEW o \in owed'
      PROVE  /\ o[1] # o[2] /\ LinksTo(o[1], tree'[o[1]], o[2])
             /\ Queued(o[1], o[2])' \/ InHand(o[1], o[2])'
  <2>1. \/ o \in owed /\ o # <<sw.ref, sw.kick[1]>>
        \/ \E i \in DOMAIN kicks : kicks[i][1] = sw.kick[2] /\ sw.ref # kicks[i][2] /\ o = <<sw.ref, sw.kick[2]>>
    BY <1>6
  <2>2. CASE o = <<sw.ref, sw.kick[2]>> /\ \E i \in DOMAIN kicks : kicks[i][1] = sw.kick[2] /\ sw.ref # kicks[i][2]
    <3>1. o[1] = sw.ref /\ o[2] = sw.kick[2]
      BY <2>2
    <3>2. LinksTo(sw.ref, tree'[sw.ref], sw.kick[2]) /\ \E i \in DOMAIN kicks : kicks[i][1] = sw.kick[2] /\ kicks[i][2] # sw.ref
      BY <1>8, <2>2
    <3>3. Queued(o[1], o[2])'
      BY <1>6, <3>1, <3>2 DEF Queued
    <3> QED BY <1>2, <3>1, <3>2, <3>3
  <2> QED BY <1>7, <2>1, <2>2
<1> QED BY <1>9 DEF LinksInv

\* A link in hand keeps the goroutine at its kick.
LEMMA HandFixing ==
  ASSUME SweepInv, NEW p, NEW src, InHand(p, src)
  PROVE  Fixing /\ (Doing(Sweeper, "tree") => sw.pc = "fix")
BY DEF SweepInv, InHand, Fixing, Doing

LEMMA LinksSweeps ==
  ASSUME ActInv, StoreInv, SweepInv, LinksInv, SweepMove
  PROVE  LinksInv'
<1>1. UNCHANGED <<tree, kicks, act, owed>>
  BY SweepMoves DEF rest
<1>2. \A p, src : Queued(p, src) => Queued(p, src)'
  BY <1>1 DEF Queued
<1>3. sw \in SweepType
  BY DEF SweepInv
<1>4. ASSUME NEW o \in owed, InHand(o[1], o[2])
      PROVE  InHand(o[1], o[2])'
  <2>1. Fixing /\ sw.kick[1] = o[2] /\ (Doing(Sweeper, "tree") => sw.pc = "fix")
    BY <1>4, HandFixing DEF InHand
  <2>2. o[1] \in Path /\ LinksTo(o[1], tree[o[1]], o[2]) /\ tree[o[1]] # NoDoc /\ tree[o[1]].link = o[2]
    BY OwedIs DEF LinksInv
  <2>3. \/ \E q \in Path : discoverReferrers(q)
        \/ \E q \in Path : ReadReferrer(q)
        \/ FixLinksEnd
    BY ZenonT(60), <2>1
       DEF SweepMove, Fixing, ReconcileAllIndexes, WaitForWAL, ReconcileIndex, CreateIndex, ReplaceAll, WalkFile
  <2>4. ASSUME NEW q \in Path, discoverReferrers(q) PROVE InHand(o[1], o[2])'
    <3>1. /\ sw.pc = "scan" /\ q \in sw.todo
          /\ sw' = [sw EXCEPT !.todo = sw.todo \ {q},
                              !.refs = sw.refs \cup (IF LinksTo(q, tree[q], sw.kick[1]) THEN {q} ELSE {}),
                              !.pc = IF sw.todo = {q} THEN "fix" ELSE "scan"]
      BY <2>4 DEF discoverReferrers
    <3>2. /\ sw'.kick = sw.kick /\ sw'.todo = sw.todo \ {q} /\ sw'.pc = IF sw.todo = {q} THEN "fix" ELSE "scan"
          /\ sw'.refs = sw.refs \cup (IF LinksTo(q, tree[q], sw.kick[1]) THEN {q} ELSE {})
      BY <1>3, <3>1 DEF SweepType
    <3>3. o[1] \in sw.refs \/ o[1] \in sw.todo
      BY <1>4, <2>1, <3>1 DEF InHand
    <3>4. CASE o[1] \in sw.refs \/ o[1] = q
      <4>1. o[1] \in sw'.refs
        BY <2>1, <2>2, <3>2, <3>4
      <4> QED BY <2>1, <3>2, <4>1 DEF InHand, Fixing
    <3>5. CASE o[1] \in sw.todo /\ o[1] # q
      <4>1. sw'.pc = "scan" /\ o[1] \in sw'.todo
        BY <3>2, <3>5
      <4> QED BY <2>1, <3>2, <4>1 DEF InHand
    <3> QED BY <3>3, <3>4, <3>5
  <2>5. ASSUME NEW q \in Path, ReadReferrer(q) PROVE InHand(o[1], o[2])'
    <3>1. /\ sw.pc = "fix" /\ act[Sweeper].left = <<>>
          /\ sw' = [sw EXCEPT !.refs = sw.refs \ {q}, !.ref = q, !.data = tree[q],
                      !.pc = IF tree[q] # NoDoc /\ tree[q].link = sw.kick[1] THEN "write" ELSE "fix"]
      BY <2>5 DEF ReadReferrer
    <3>2. q \in sw.refs
      BY <2>5 DEF ReadReferrer
    <3>3. q \in Markdown /\ tree[q] \in File
      BY <1>3, <3>2 DEF SweepType, StoreInv
    <3>4. /\ sw'.kick = sw.kick /\ sw'.refs = sw.refs \ {q} /\ sw'.ref = q /\ sw'.data = tree[q]
          /\ sw'.pc = IF tree[q] # NoDoc /\ tree[q].link = sw.kick[1] THEN "write" ELSE "fix"
      BY <1>3, <3>1, <3>3 DEF SweepType
    <3>5. o[1] \in sw.refs
      BY <1>4, <3>1 DEF InHand, Doing
    <3>6. CASE o[1] = q
      <4>1. sw'.pc = "write" /\ sw'.ref = o[1] /\ tree'[o[1]] = sw'.data /\ sw'.kick[1] = o[2]
        BY <1>1, <2>1, <2>2, <3>4, <3>6
      <4> QED BY <4>1 DEF InHand
    <3>7. CASE o[1] # q
      <4>1. o[1] \in sw'.refs /\ sw'.pc \in {"write", "fix"} /\ sw'.kick[1] = o[2]
        BY <2>1, <3>4, <3>5, <3>7
      <4> QED BY <4>1 DEF InHand, Fixing
    <3> QED BY <3>6, <3>7
  <2>6. ~FixLinksEnd
    BY <1>4 DEF FixLinksEnd, InHand, Doing
  <2> QED BY <2>3, <2>4, <2>5, <2>6
<1> QED BY <1>1, <1>2, <1>4, LinksKept

\* A kick taken up: the referrers come from an index that is right about them, or from
\* the files.
LEMMA LinksTakes ==
  ASSUME ActInv, StoreInv, SweepInv, LinksInv, TakeKick
  PROVE  LinksInv'
<1>1. sw.pc = "idle" /\ kicks # <<>> /\ kicks' = Tail(kicks) /\ tree' = tree
  BY DEF TakeKick
<1>2. PICK k \in Path \X Path : k = Head(kicks)
  BY <1>1, KicksTail
<1>3. /\ k = kicks[1] /\ 1 \in DOMAIN kicks
      /\ \A i \in DOMAIN kicks : i # 1 => i - 1 \in DOMAIN kicks' /\ kicks'[i - 1] = kicks[i]
  BY <1>2, <1>1, KicksTail
<1>4. /\ \/ IndexHealthy /\ sw' = [AtRest EXCEPT !.pc = "fix", !.kick = k, !.refs = Referrers(k[1]) \ {k[1], k[2]}]
         \/ ~IndexHealthy /\ sw' = [AtRest EXCEPT !.pc = "scan", !.kick = k, !.todo = Path \ {k[1], k[2]}]
      /\ owed' = IF IndexHealthy THEN {o \in owed : o[2] # k[1] \/ ix.recs[o[1]] = tree[o[1]]} ELSE owed
  BY <1>2, Zenon DEF TakeKick, findReferrers
<1>5. \A o \in owed : ~InHand(o[1], o[2])
  BY <1>1, HandFixing DEF Fixing
<1>6. ASSUME NEW o \in owed' PROVE Queued(o[1], o[2])' \/ InHand(o[1], o[2])'
  <2>1. o \in owed
    BY <1>4, <1>6
  <2>2. /\ o[1] \in Path /\ o[2] \in Path /\ o[1] # o[2] /\ LinksTo(o[1], tree[o[1]], o[2])
        /\ Queued(o[1], o[2])
    BY <1>5, <2>1, OwedIs DEF LinksInv
  <2>3. PICK i \in DOMAIN kicks : kicks[i][1] = o[2] /\ kicks[i][2] # o[1]
    BY <2>2 DEF Queued
  <2>4. CASE i # 1
    BY <1>3, <2>3, <2>4 DEF Queued
  <2>5. CASE i = 1
    <3>1. k[1] = o[2] /\ k[2] # o[1]
      BY <1>3, <2>3, <2>5
    <3>2. AtRest \in SweepType
      BY AtRestTyped
    <3>3. CASE IndexHealthy
      <4>1. ix.recs[o[1]] = tree[o[1]]
        BY <1>4, <1>6, <3>1, <3>3
      <4>2. o[1] \in Referrers(k[1]) \ {k[1], k[2]}
        BY <2>2, <3>1, <4>1 DEF Referrers
      <4>3. sw'.pc = "fix" /\ sw'.kick = k /\ sw'.refs = Referrers(k[1]) \ {k[1], k[2]}
        BY <1>4, <3>3 DEF AtRest
      <4>4. sw'.pc = "fix" /\ sw'.kick[1] = o[2] /\ o[1] \in sw'.refs
        BY <3>1, <4>2, <4>3
      <4> QED BY <4>4 DEF InHand, Fixing
    <3>4. CASE ~IndexHealthy
      <4>1. sw'.pc = "scan" /\ sw'.kick = k /\ sw'.todo = Path \ {k[1], k[2]}
        BY <1>4, <3>4 DEF AtRest
      <4>2. sw'.pc = "scan" /\ sw'.kick[1] = o[2] /\ o[1] \in sw'.todo
        BY <2>2, <3>1, <4>1
      <4> QED BY <4>2 DEF InHand
    <3> QED BY <3>3, <3>4
  <2> QED BY <2>4, <2>5
<1>7. \A o \in owed' : o[1] # o[2] /\ LinksTo(o[1], tree'[o[1]], o[2])
  BY <1>1, <1>4 DEF LinksInv
<1> QED BY <1>6, <1>7 DEF LinksInv

\* The rewriting begins, or the file was edited and is no longer owed anything here.
LEMMA LinksWrites ==
  ASSUME ActInv, StoreInv, SweepInv, LinksInv, WriteReferrer
  PROVE  LinksInv'
<1>1. sw.pc = "write" /\ sw' = [sw EXCEPT !.pc = "fix"] /\ UNCHANGED <<tree, kicks, owed>>
  BY DEF WriteReferrer
<1>2. sw'.pc = "fix" /\ sw'.kick = sw.kick /\ sw'.refs = sw.refs /\ sw'.ref = sw.ref
  BY <1>1 DEF SweepInv, SweepType
<1>3. ASSUME NEW o \in owed, InHand(o[1], o[2]) PROVE InHand(o[1], o[2])'
  <2>1. sw.kick[1] = o[2] /\ (o[1] \in sw.refs \/ (o[1] = sw.ref /\ tree[sw.ref] = sw.data))
    BY <1>1, <1>3, HandFixing DEF InHand
  <2>2. CASE o[1] \in sw.refs
    BY <1>2, <2>1, <2>2 DEF InHand, Fixing
  <2>3. CASE o[1] = sw.ref /\ tree[sw.ref] = sw.data
    <3>1. Fresh(Rewrite) /\ Rewrite.op = "write" /\ Rewrite.path = sw.ref /\ Rewrite.ifMatch = {sw.data}
      BY <1>1, RewriteFresh
    <3>2. Begins(Sweeper, Rewrite)
      BY <2>3, <3>1 DEF WriteReferrer, Admitted
    <3>3. act' = [act EXCEPT ![Sweeper] = Begun(Rewrite)] /\ Begun(Rewrite) = [call |-> Rewrite, left |-> <<"tree", "log", "index", "vector">>]
      BY <3>1, <3>2, BegunIs, Types
    <3>4. act'[Sweeper].left = <<"tree", "log", "index", "vector">>
      BY <3>3, Types DEF ActInv
    <3>5. Doing(Sweeper, "tree")'
      BY <3>4 DEF Doing
    <3> QED BY <1>2, <2>1, <2>3, <3>5 DEF InHand
  <2> QED BY <2>1, <2>2, <2>3
<1> QED BY <1>1, <1>3, LinksKept DEF Queued

LEMMA LinksNext ==
  ASSUME ActInv, StoreInv, SweepInv, LinksInv, [Next]_vars
  PROVE  LinksInv'
<1>1. CASE \E t \in Task, c \in Call : Begin(t, c)
  <2>1. PICK t \in Task, c \in Call : Begin(t, c)
    BY <1>1
  <2>2. UNCHANGED <<tree, kicks, sw, owed>>
    BY <2>1 DEF Begin, indexVars
  <2>3. act'[Sweeper] = act[Sweeper]
    BY <2>1, Types DEF Begin, Begins, ActInv
  <2> QED BY <2>2, <2>3, LinksSame DEF Doing
<1>2. CASE \E t \in Writer : WriteTree(t) \/ RemoveFile(t)
  BY <1>2, LinksCaller, LinksRepair
<1>3. ASSUME NEW t \in Writer, WriterMove(t), ~WriteTree(t), ~RemoveFile(t), ~Kick(t) PROVE LinksInv'
  <2>1. UNCHANGED <<tree, kicks, sw>>
    BY <1>3, WriterDoes
  <2>2. owed' = owed
    BY <1>3 DEF WriterMove, AppendLog, AppendFails, IndexDelete, IndexPut, VectorDelete, VectorEnqueue, indexVars
  <2> QED BY <1>3, <2>1, <2>2, DoingElse, LinksSame
<1>4. CASE Commit \/ VectorMove \/ UNCHANGED vars
  <2>1. UNCHANGED <<tree, kicks, sw, owed, act>>
    BY <1>4, VectorMoves DEF Commit, vars, indexVars, tk, rest
  <2> QED BY <2>1, LinksSame DEF Doing
<1>5. CASE \E f \in {ix.file} \cup dep.damage, v \in HalfMade : Crash(f, v)
  <2>1. owed' = {}
    BY <1>5 DEF Crash
  <2> QED BY <2>1 DEF LinksInv
<1> QED BY <1>1, <1>2, <1>3, <1>4, <1>5, LinksKick, LinksSweeps, LinksTakes, LinksWrites, Moves

----------------------------------------------------------------------------
(* The theorems *)

LEMMA DerivedInit == Init => DerivedInv
<1> SUFFICES ASSUME Init PROVE DerivedInv
  OBVIOUS
<1>1. ActInv
  <2>1. \A t \in Writer : act[t] = Idle /\ Held(t) = {}
    BY Types DEF Init, Held
  <2>2. act \in [Writer -> ActType]
    BY Types DEF Init
  <2> QED BY <2>1, <2>2, Types DEF ActInv, Idle, NoCall
<1>2. StoreInv
  BY Types, Buffers DEF Init, StoreInv
<1>3. SweepInv
  <2>1. dep \in Deployment /\ sw = SweepStart(dep) /\ head = 1 /\ kicks = <<>>
    BY DerivedAssumption DEF Init
  <2>2. act[Sweeper].left = <<>>
    BY Types DEF Init
  <2>3. sw \in SweepType /\ sw.at = 0 /\ sw.pc \in {"wait", "off"}
    BY <2>1, AtRestTyped
  <2> QED BY <2>1, <2>2, <2>3 DEF SweepInv, Fixing, Doing
<1>4. VectorInv
  <2>1. dep \in Deployment
    BY DerivedAssumption DEF Init
  <2>2. dep.vector \in Model \cup {NoModel} /\ vw = WorkerStart(dep.vector)
    BY <2>1 DEF Init, Deployment
  <2>3. vw \in WorkerType /\ vw.left = {} /\ vw.pc \in {"off", "list"}
    BY <2>2, WorkerRests
  <2>4. Empty \in [Path -> {NoDoc} \cup Vector] /\ \A p \in Path : Empty[p] = NoDoc
    BY DEF Empty
  <2>5. vx \in VectorType /\ vx.keys = Empty
    BY <2>2, <2>4 DEF Init, VectorType
  <2> QED BY <2>3, <2>4, <2>5, Buffers DEF Init, VectorInv, OneModel
<1>5. IndexInv
  <2>1. ix.recs = tree /\ sw.pc \notin {"create", "walk"}
    BY DerivedAssumption, AtRestTyped DEF Init
  <2> QED BY <2>1 DEF IndexInv
<1>6. LinksInv
  BY DEF Init, LinksInv
<1> QED BY <1>1, <1>2, <1>3, <1>4, <1>5, <1>6 DEF DerivedInv

LEMMA DerivedNext == DerivedInv /\ [Next]_vars => DerivedInv'
BY ActNext, StoreNext, SweepNext, VectorNext, IndexNext, LinksNext DEF DerivedInv

THEOREM DerivedInvariant == Spec => []DerivedInv
<1>1. Init => DerivedInv
  BY DerivedInit
<1>2. DerivedInv /\ [Next]_vars => DerivedInv'
  BY DerivedNext
<1> QED BY <1>1, <1>2, PTL DEF Spec

\* The variables keep their types, and the two channels stay within their buffers
\* (enqueueFixLinks, vectorEnqueue).
THEOREM DerivedTypes == Spec => []DerivedTypeOK
<1>1. DerivedInv => DerivedTypeOK
  <2> SUFFICES ASSUME DerivedInv PROVE DerivedTypeOK
    OBVIOUS
  <2> USE DEF DerivedInv
  <2>1. ASSUME NEW t \in Writer
        PROVE  Len(act[t].left) <= 8 /\ act[t].call.path \in Path \cup {NoPath}
    <3>1. act \in [Writer -> ActType]
      BY DEF ActInv
    <3>2. CASE act[t].left = <<>>
      BY <3>1, <3>2, IdleIs DEF Idle, NoCall
    <3>3. CASE act[t].left # <<>>
      <4>1. CallOK(act[t].call) /\ act[t].left \in Stages(act[t].call.op) /\ act[t].call.op \in Ops
        BY <3>1, <3>3, Busy
      <4>2. Len(act[t].left) \in 1..8
        BY <4>1, Lists
      <4>3. act[t].call.path \in Path
        BY <4>1, CallTypes
      <4>4. \A n \in 1..8 : n <= 8
        OBVIOUS
      <4> QED BY <4>2, <4>3, <4>4, Zenon
    <3> QED BY <3>2, <3>3
  <2>2. sw.pc \in SweepPC
    BY DEF SweepInv, SweepType
  <2>3. /\ vx.cfg \in Model \cup {NoModel} /\ vx.model \in Model \cup {NoModel}
        /\ vx.rdims \in Nat /\ vx.dims \in Nat /\ vx.keys \in [Path -> {NoDoc} \cup Vector]
        /\ vx.file \in {"ok", "bad", "gone"} /\ Len(queue) <= QueueSize /\ vw.pc \in WorkerPC /\ missed \subseteq Path
    BY DEF VectorInv, VectorType, WorkerType
  <2>4. /\ tree \in [Path -> File] /\ head \in Nat /\ wal \in Nat
        /\ kicks \in Seq(Path \X Path) /\ Len(kicks) <= KickBuffer
        /\ ix \in [file : {"ok", "bad", "gone"}, recs : [Path -> File], marker : Nat]
        /\ dep \in Deployments /\ drifted \subseteq Path /\ undone \subseteq Path /\ owed \subseteq Path \X Path
    BY DEF StoreInv
  <2> QED BY <2>1, <2>2, <2>3, <2>4 DEF DerivedTypeOK, SweepPC, WorkerPC, Vector
<1> QED BY <1>1, DerivedInvariant, PTL

\* The index and the vectors answer for the files they were made from: under a marker
\* that is HEAD the records are those of the files (reconcileIndex), a search through them
\* finds what reading the files would (SearchFiles), and no store mixes the vectors of two
\* models (vectorEmbed).
THEOREM IndexAnswers == Spec => []AnswersCurrent
<1>1. DerivedInv => AnswersCurrent
  <2> SUFFICES ASSUME DerivedInv PROVE AnswersCurrent
    OBVIOUS
  <2> USE DEF DerivedInv
  <2>1. OneModel
    BY DEF VectorInv
  <2>2. ASSUME Quiet, IndexHealthy, NEW p \in Path \ drifted, tree[p] # NoDoc
        PROVE  ix.recs[p] = tree[p] \/ (ix.recs[p] = NoDoc /\ p \in undone)
    <3>1. \A t \in Writer : ~Dirty(t) /\ ~Unlisting(t)
      BY <2>2, IdleIs DEF Quiet, Dirty, Unlisting, ActInv
    <3>2. Settled(p) /\ wal = 0
      BY <2>2, <3>1 DEF Settled, Quiet
    <3>3. ix.recs[p] = tree[p] \/ (ix.recs[p] = NoDoc /\ Excused(p))
      BY <2>2, <3>2 DEF IndexInv
    <3> QED BY <3>1, <3>3 DEF Excused
  <2>3. HealthyMeansCurrent
    BY <2>2 DEF HealthyMeansCurrent
  <2>4. SearchFindsAll
    <3> SUFFICES ASSUME Quiet, NEW q \in Body, NEW p \in Path \ drifted, tree[p] # NoDoc, tree[p].body = q
                 PROVE  p \in SearchFiles(q)
      BY DEF SearchFindsAll
    <3>1. ~(IndexHealthy /\ ruledOut(p, q))
      BY <2>2 DEF ruledOut
    <3> QED BY <3>1 DEF SearchFiles
  <2> QED BY <2>1, <2>3, <2>4 DEF AnswersCurrent
<1> QED BY <1>1, DerivedInvariant, PTL

\* Whatever files are moved, edited and deleted while fix_links works, and whether it asks
\* the index or scans the files: once the kicks are worked off no accepted repair is open.
THEOREM LinksRepaired == Spec => []LinksFollow
<1>1. DerivedInv => LinksFollow
  <2> SUFFICES ASSUME DerivedInv, sw.pc = "idle", kicks = <<>>, NEW o \in owed PROVE FALSE
    BY DEF LinksFollow
  <2>1. ~InHand(o[1], o[2])
    BY HandFixing DEF DerivedInv, Fixing
  <2>2. ~Queued(o[1], o[2])
    BY DEF Queued
  <2> QED BY <2>1, <2>2 DEF DerivedInv, LinksInv
<1> QED BY <1>1, DerivedInvariant, PTL

\* fix_links overwrites a file only with the rewriting of what is there: between its read
\* and its write, which holds the lock, nobody gets in unseen (fixLinksRewriteReferrer).
THEOREM FixLinksBacksOff == Spec => NeverClobbers
<1>1. ASSUME DerivedInv, [Next]_vars, NEW p \in Path, tree'[p] # tree[p], Doing(Sweeper, "tree"), ~Doing(Sweeper, "tree")'
      PROVE  act[Sweeper].call.path = p /\ sw.data = tree[p]
  <2> USE DEF DerivedInv
  <2>1. CASE \E t \in Writer : WriterMove(t)
    <3>1. PICK t \in Writer : WriterMove(t)
      BY <2>1
    <3>2. t = Sweeper /\ WriteTree(t)
      BY <1>1, <3>1, DoingElse
    <3>3. act[Sweeper].call = Rewrite /\ tree[sw.ref] = sw.data
      BY <1>1 DEF SweepInv
    <3>4. p = act[Sweeper].call.path
      BY <1>1, <3>2, Types, TreeWritten DEF ActInv, StoreInv
    <3> QED BY <3>3, <3>4 DEF Rewrite
  <2>2. CASE ~ \E t \in Writer : WriterMove(t)
    <3>1. tree' = tree
      BY <1>1, <2>2, Moves, SweepMoves, VectorMoves
         DEF Begin, Commit, TakeKick, WriteReferrer, rest, Crash, vars
    <3> QED BY <1>1, <3>1
  <2> QED BY <2>1, <2>2
<1>2. DerivedInv /\ [Next]_vars =>
        [\A p \in Path : tree'[p] # tree[p] /\ Doing(Sweeper, "tree") /\ ~Doing(Sweeper, "tree")' =>
           act[Sweeper].call.path = p /\ sw.data = tree[p]]_vars
  BY <1>1
<1> QED BY <1>2, DerivedInvariant, PTL DEF Spec, NeverClobbers
=============================================================================
