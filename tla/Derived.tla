------------------------------- MODULE Derived -------------------------------
(***************************************************************************)
(* What is derived from a project's working tree: the full-text and link   *)
(* index, the repair of links after a move, and the vector index.          *)
(*                                                                         *)
(* Writers update both stores under the file lock as they go, best effort. *)
(* One goroutine sweeps the index, by comparing the HEAD it was built at   *)
(* with HEAD, and repairs links; another embeds documents, from a queue    *)
(* and by sweeping for files without a vector.                             *)
(*                                                                         *)
(* A document is a body and the file it links to.  A record or a vector is *)
(* the document it was made from.  HEAD is the number of commits; the wal  *)
(* is the number of entries not yet committed.                             *)
(***************************************************************************)
EXTENDS Naturals, Sequences, FiniteSets

CONSTANTS
  Path, Body,
  Markdown,         \* the paths that end in .md
  NoPath, NoDoc, NoModel,
  Model, DimsOf,    \* embedding models and the length of their vectors
  Task,             \* callers of the write path
  Sweeper,          \* the index goroutine, as a writer
  Call,             \* the requests of the callers
  Start,            \* the documents of a committed and indexed project
  Deployments,      \* what is configured: the sweep, the librarian, its embedding model;
                    \* what callers ask for, and what a restart may find of the index file
  KickBuffer,       \* fixLinksKickBuffer
  QueueSize,        \* vectorQueueSize
  FailLimit,        \* vectorSweepConsecFailLimit
  MaxCalls,         \* bound
  MaxFaults         \* bound: failures, crashes and reloads of the configuration

Doc == [body : Body, link : Path \cup {NoPath}]
File == Doc \cup {NoDoc}
\* A request as the handlers make it: a deletion has no content, only a move a source.
Request == [op : {"write", "move", "delete"}, path : Path, from : Path \cup {NoPath},
            doc : File, ifMatch : SUBSET File]
Deployment == [sweep : BOOLEAN, librarian : BOOLEAN, vector : Model \cup {NoModel},
               requests : SUBSET Call, damage : SUBSET {"bad", "gone"}]

ASSUME DerivedAssumption ==
  /\ Markdown \subseteq Path /\ Sweeper \notin Task
  /\ NoDoc \notin Doc /\ NoPath \notin Path /\ NoModel \notin Model
  /\ DimsOf \in [Model -> Nat \ {0}]
  /\ Call \subseteq Request
  /\ \A c \in Call : /\ c.path # c.from /\ (c.op = "move" <=> c.from # NoPath)
                     /\ c.op = "write" => c.doc # NoDoc
  /\ Start \in [Path -> File] /\ Deployments \subseteq Deployment
  /\ {KickBuffer, QueueSize, FailLimit} \subseteq Nat \ {0}
  /\ {MaxCalls, MaxFaults} \subseteq Nat

VARIABLES
  tree,    \* the working tree
  head, wal,
  act,     \* writer -> its request and the steps it has left
  kicks,   \* fixLinksKicks
  ix,      \* the index file: readable or not, its records and marker
  sw,      \* the index goroutine
  vx,      \* the vector configuration, the store and its vectors
  queue,   \* vecQueue
  vw,      \* the vector worker
  dep,     \* the deployment
  calls, faults,
  drifted, \* ghost: paths changed without an entry in the log
  undone,  \* ghost: paths whose deletion was given up
  owed,    \* ghost: <<file, moved path>>: a link fix_links has accepted to repair
  missed   \* ghost: paths whose embedding was dropped, lost or failed

tk == <<act, calls>>
indexVars == <<kicks, ix, sw, owed>>
vectorVars == <<vx, queue, vw, missed>>
ghost == <<drifted, undone>>
vars == <<tree, head, wal, act, kicks, ix, sw, vx, queue, vw, dep, calls, faults,
          drifted, undone, owed, missed>>

Writer == Task \cup {Sweeper}
Empty == [p \in Path |-> NoDoc]
Fault == faults < MaxFaults /\ faults' = faults + 1

----------------------------------------------------------------------------
(* Links *)

rewriteLinks(doc, src, dst) == IF doc.link = src THEN [doc EXCEPT !.link = dst] ELSE doc
LinksTo(p, doc, target) == p \in Markdown /\ doc # NoDoc /\ doc.link = target

----------------------------------------------------------------------------
(* The index file *)

IndexHealthy == ix.file = "ok" /\ ix.marker = head
Referrers(target) == {p \in Path : LinksTo(p, ix.recs[p], target)}

\* A writer creates a missing index; it cannot open a corrupt one.
indexFor(x) == IF x.file = "gone" THEN [file |-> "ok", recs |-> Empty, marker |-> 0] ELSE x
PutRecord(x, p, doc) ==
  LET o == indexFor(x) IN IF o.file = "ok" THEN [o EXCEPT !.recs[p] = doc] ELSE o
DeleteRecord(x, p) == PutRecord(x, p, NoDoc)

----------------------------------------------------------------------------
(* The vector store: a file that is there and opens, is gone, or is refused by Open *)

VectorConfigured == vx.cfg # NoModel
CheckModel(v, model, dims) == v.model = model /\ v.dims = dims

vectorDelete(v, p) == IF v.cfg = NoModel THEN v ELSE [v EXCEPT !.keys[p] = NoDoc]
\* A missing store is created under the configuration there is now; any other failure of
\* Open is returned, and the file stays.
vectorFor(v) ==
  IF v.file = "gone" /\ v.cfg # NoModel
  THEN [v EXCEPT !.file = "ok", !.model = v.cfg, !.dims = v.rdims] ELSE v
\* An operation's path whose new content finds no room, or no configuration.
Dropped == ~VectorConfigured \/ Len(queue) = QueueSize
vectorEnqueue(p, doc) == IF Dropped THEN queue ELSE Append(queue, [path |-> p, doc |-> doc])

removeVectorFile(v) ==
  [v EXCEPT !.file = "gone", !.model = NoModel, !.dims = 0, !.keys = Empty]

----------------------------------------------------------------------------
(* Writers: writeTransformed, deleteFile, Move *)

NoCall == [op |-> "none", path |-> NoPath, from |-> NoPath, doc |-> NoDoc, ifMatch |-> {}]
Idle == [call |-> NoCall, left |-> <<>>]
Steps(op) ==
  CASE op = "write" -> <<"tree", "log", "index", "vector">>
    [] op = "move" -> <<"tree", "remove", "unindex", "index", "unvector", "vector", "log", "kick">>
    [] op = "delete" -> <<"unindex", "unvector", "log", "remove">>
\* The path that a deletion or a move takes away.
Source(c) == IF c.op = "delete" THEN c.path ELSE c.from

\* The file locks; the kick of a move is sent after they are released.
Held(t) == IF act[t].left \in {<<>>, <<"kick">>} THEN {}
           ELSE {act[t].call.path, act[t].call.from}
Unlocked(c) == \A t \in Writer : {c.path, c.from} \cap Held(t) \subseteq {NoPath}

\* Mutant: if_match is not looked at.
AdmittedM(c) == c.op = "move" => tree[c.from] # NoDoc
\* A move never overwrites without if_match, which otherwise is about the source.
Admitted(c) ==
  IF c.op = "move"
  THEN /\ tree[c.from] # NoDoc
       /\ IF tree[c.path] # NoDoc THEN c.ifMatch = {tree[c.path]}
          ELSE c.ifMatch \subseteq {tree[c.from]}
  ELSE c.ifMatch \subseteq {tree[c.path]}

\* The call takes the locks and passes its checks; a move carries what it reads.
Begins(t, c) ==
  /\ Unlocked(c) /\ Admitted(c)
  /\ act' = [act EXCEPT ![t] =
       [call |-> IF c.op = "move" THEN [c EXCEPT !.doc = tree[c.from]] ELSE c,
        left |-> Steps(c.op)]]

Begin(t, c) ==
  /\ act[t].left = <<>> /\ calls < MaxCalls /\ c \in dep.requests
  /\ Begins(t, c)
  /\ calls' = calls + 1
  /\ UNCHANGED <<tree, head, wal, indexVars, vectorVars, dep, faults, ghost>>

Doing(t, step) == act[t].left # <<>> /\ Head(act[t].left) = step
Advance(t) ==
  LET rest == Tail(act[t].left)
  IN  act' = [act EXCEPT ![t] = IF rest = <<>> THEN Idle ELSE [@ EXCEPT !.left = rest]]
GiveUp(t) == act' = [act EXCEPT ![t] = Idle]

\* A caller's change of a file settles what was owed to it.  A repair settles its own
\* link, and owes the next one when the target has moved on meanwhile.
Settle(t, c) ==
  IF t = Sweeper
  THEN (owed \ {<<c.path, sw.kick[1]>>})
         \cup {<<c.path, k[1]>> : k \in {k \in {kicks[i] : i \in DOMAIN kicks} :
                                          k[1] = sw.kick[2] /\ c.path # k[2]}}
  ELSE {o \in owed : o[1] # c.path}

WriteTree(t) ==
  /\ Doing(t, "tree") /\ Advance(t)
  /\ LET c == act[t].call IN
       tree' = [tree EXCEPT ![c.path] = c.doc] /\ owed' = Settle(t, c)
  /\ UNCHANGED <<head, wal, kicks, ix, sw, vectorVars, calls, dep, faults, ghost>>

RemoveFile(t) ==
  /\ Doing(t, "remove") /\ Advance(t)
  /\ LET p == Source(act[t].call) IN
       tree' = [tree EXCEPT ![p] = NoDoc] /\ owed' = {o \in owed : o[1] # p}
  /\ UNCHANGED <<head, wal, kicks, ix, sw, vectorVars, calls, dep, faults, ghost>>

AppendLog(t) ==
  /\ Doing(t, "log") /\ Advance(t)
  /\ wal' = wal + 1
  /\ UNCHANGED <<tree, head, indexVars, vectorVars, calls, dep, faults, ghost>>

\* A failed append ends the call with what it has changed so far.
AppendFails(t) ==
  /\ Doing(t, "log") /\ Fault /\ GiveUp(t)
  /\ LET c == act[t].call IN
       /\ undone' = undone \cup (IF c.op = "delete" THEN {c.path} ELSE {})
       /\ drifted' = drifted \cup (IF c.op = "delete" THEN {} ELSE {c.path, c.from} \ {NoPath})
  /\ UNCHANGED <<tree, head, wal, indexVars, vectorVars, calls, dep>>

\* The index is updated best effort: an update that fails is lost.
IndexDelete(t, lost) ==
  /\ Doing(t, "unindex") /\ Advance(t)
  /\ IF lost THEN Fault /\ ix' = ix
     ELSE faults' = faults /\ ix' = DeleteRecord(ix, Source(act[t].call))
  /\ UNCHANGED <<tree, head, wal, kicks, sw, owed, vectorVars, calls, dep, ghost>>

IndexPut(t, lost) ==
  /\ Doing(t, "index") /\ Advance(t)
  /\ IF lost THEN Fault /\ ix' = ix
     ELSE faults' = faults /\ ix' = PutRecord(ix, act[t].call.path, act[t].call.doc)
  /\ UNCHANGED <<tree, head, wal, kicks, sw, owed, vectorVars, calls, dep, ghost>>

\* So are the vectors.
VectorDelete(t, lost) ==
  /\ Doing(t, "unvector") /\ Advance(t)
  /\ LET p == Source(act[t].call) IN
       /\ IF lost THEN Fault /\ vx' = vx ELSE faults' = faults /\ vx' = vectorDelete(vx, p)
       /\ missed' = missed \cup (IF VectorConfigured THEN {} ELSE {p})
  /\ UNCHANGED <<tree, head, wal, indexVars, queue, vw, calls, dep, ghost>>

VectorEnqueue(t) ==
  /\ Doing(t, "vector") /\ Advance(t)
  /\ LET c == act[t].call IN
       /\ queue' = vectorEnqueue(c.path, c.doc)
       /\ missed' = missed \cup (IF Dropped THEN {c.path} ELSE {})
  /\ UNCHANGED <<tree, head, wal, indexVars, vx, vw, calls, dep, faults, ghost>>

\* Mutant: the channel grows.
enqueueFixLinksM(src, dst) == Append(kicks, <<src, dst>>)
\* A full channel drops the kick.
enqueueFixLinks(src, dst) ==
  IF Len(kicks) < KickBuffer THEN Append(kicks, <<src, dst>>) ELSE kicks

Kick(t) ==
  /\ Doing(t, "kick") /\ Advance(t)
  /\ LET src == act[t].call.from
         dst == act[t].call.path IN
       /\ kicks' = enqueueFixLinks(src, dst)
       /\ owed' = IF kicks' = kicks THEN owed
                  ELSE owed \cup
                       {<<p, src>> : p \in {p \in Path \ {src, dst} : LinksTo(p, tree[p], src)}}
  /\ UNCHANGED <<tree, head, wal, ix, sw, vectorVars, calls, dep, faults, ghost>>

\* A commit worker's step.
Commit ==
  /\ wal > 0
  /\ wal' = wal - 1 /\ head' = head + 1
  /\ UNCHANGED <<tree, tk, indexVars, vectorVars, dep, faults, ghost>>

----------------------------------------------------------------------------
(* The index goroutine: reconcile passes and fix_links *)

AtRest == [pc |-> "idle", todo |-> {}, got |-> Empty, at |-> 0, kick |-> <<NoPath, NoPath>>,
           refs |-> {}, ref |-> NoPath, data |-> NoDoc]
SweepStart(d) == IF d.sweep THEN [AtRest EXCEPT !.pc = "wait"] ELSE [AtRest EXCEPT !.pc = "off"]
sweepOnly == <<tree, head, wal, tk, kicks, owed, vectorVars, dep, ghost>>

\* The ticker fires.
ReconcileAllIndexes ==
  /\ sw.pc = "idle"
  /\ sw' = [sw EXCEPT !.pc = "wait"]
  /\ UNCHANGED <<sweepOnly, ix, faults>>

\* The wait for an empty log may time out, and what follows is the same.
WaitForWAL ==
  /\ sw.pc = "wait"
  /\ IF wal = 0 THEN faults' = faults ELSE Fault
  /\ sw' = [sw EXCEPT !.pc = "head"]
  /\ UNCHANGED <<sweepOnly, ix>>

\* Mutant: an unusable store is left where it is.
discardedM(x) == x
\* removeIndexFile, on a store that cannot be opened.
discarded(x) == IF x.file = "ok" THEN x ELSE [x EXCEPT !.file = "gone"]

\* Nothing to do, a rebuild into the open store, or a store to be replaced.
ReconcileIndex ==
  /\ sw.pc = "head"
  /\ sw' = IF IndexHealthy THEN AtRest
           ELSE [sw EXCEPT !.at = head, !.todo = Path,
                           !.pc = IF ix.file = "ok" THEN "walk" ELSE "create"]
  /\ ix' = discarded(ix)
  /\ UNCHANGED <<sweepOnly, faults>>

\* index.Create refuses a file that exists: a writer may have made one.
CreateIndex(fails) ==
  /\ sw.pc = "create"
  /\ IF fails THEN Fault ELSE faults' = faults
  /\ IF ix.file = "gone" /\ ~fails
     THEN ix' = indexFor(ix) /\ sw' = [sw EXCEPT !.pc = "walk"]
     ELSE ix' = ix /\ sw' = AtRest
  /\ UNCHANGED sweepOnly

WalkFile(p) ==
  /\ sw.pc = "walk" /\ p \in sw.todo
  /\ sw' = [sw EXCEPT !.todo = @ \ {p}, !.got[p] = tree[p]]
  /\ UNCHANGED <<sweepOnly, ix, faults>>

\* Mutant: the marker is the HEAD at the end of the walk.
replacedM(recs, at) == [file |-> "ok", recs |-> recs, marker |-> head]
replaced(recs, at) == [file |-> "ok", recs |-> recs, marker |-> at]

\* One transaction: every record and the marker, or nothing.
ReplaceAll(fails) ==
  /\ sw.pc = "walk" /\ sw.todo = {}
  /\ IF fails THEN Fault /\ ix' = ix ELSE faults' = faults /\ ix' = replaced(sw.got, sw.at)
  /\ sw' = AtRest
  /\ UNCHANGED sweepOnly

\* Mutant: a stale index is asked as well.
findReferrersM == ix.file = "ok"
\* The index answers only when it is healthy; otherwise the files are scanned.
findReferrers == IndexHealthy

\* The next kick.  A link whose record a healthy index has wrong is out of its sight.
TakeKick ==
  /\ sw.pc = "idle" /\ kicks # <<>>
  /\ kicks' = Tail(kicks)
  /\ LET src == Head(kicks)[1]
         dst == Head(kicks)[2] IN
       /\ sw' = IF findReferrers
                THEN [AtRest EXCEPT !.pc = "fix", !.kick = Head(kicks),
                                    !.refs = Referrers(src) \ {src, dst}]
                ELSE [AtRest EXCEPT !.pc = "scan", !.kick = Head(kicks),
                                    !.todo = Path \ {src, dst}]
       /\ owed' = IF IndexHealthy THEN {o \in owed : o[2] # src \/ ix.recs[o[1]] = tree[o[1]]}
                  ELSE owed
  /\ UNCHANGED <<tree, head, wal, tk, ix, vectorVars, dep, faults, ghost>>

discoverReferrers(p) ==
  /\ sw.pc = "scan" /\ p \in sw.todo
  /\ sw' = [sw EXCEPT !.todo = @ \ {p},
                      !.refs = @ \cup (IF LinksTo(p, tree[p], sw.kick[1]) THEN {p} ELSE {}),
                      !.pc = IF sw.todo = {p} THEN "fix" ELSE "scan"]
  /\ UNCHANGED <<sweepOnly, ix, faults>>

\* A referrer is read off the lock; one that has no such link any more is passed over.
ReadReferrer(p) ==
  /\ sw.pc = "fix" /\ act[Sweeper].left = <<>> /\ p \in sw.refs
  /\ sw' = [sw EXCEPT !.refs = @ \ {p}, !.ref = p, !.data = tree[p],
                      !.pc = IF tree[p] # NoDoc /\ tree[p].link = sw.kick[1] THEN "write" ELSE "fix"]
  /\ UNCHANGED <<sweepOnly, ix, faults>>

Rewrite == [op |-> "write", path |-> sw.ref, from |-> NoPath, ifMatch |-> {sw.data},
            doc |-> rewriteLinks(sw.data, sw.kick[1], sw.kick[2])]

\* Its rewriting is an if_match write; on a conflict it is left alone.
WriteReferrer ==
  /\ sw.pc = "write"
  /\ Unlocked(Rewrite)
  /\ IF Admitted(Rewrite) THEN Begins(Sweeper, Rewrite) ELSE act' = act
  /\ sw' = [sw EXCEPT !.pc = "fix"]
  /\ UNCHANGED <<tree, head, wal, calls, kicks, ix, owed, vectorVars, dep, faults, ghost>>

FixLinksEnd ==
  /\ sw.pc = "fix" /\ act[Sweeper].left = <<>> /\ sw.refs = {}
  /\ sw' = AtRest
  /\ UNCHANGED <<sweepOnly, ix, faults>>

IndexStep ==
  \/ WaitForWAL \/ ReconcileIndex \/ CreateIndex(FALSE) \/ ReplaceAll(FALSE)
  \/ (\E p \in Path : WalkFile(p) \/ discoverReferrers(p) \/ ReadReferrer(p))
  \/ WriteReferrer \/ FixLinksEnd

\* SearchFiles on the contents: an index record may rule a file out without reading it.
ruledOut(p, q) == ix.recs[p] # NoDoc /\ ix.recs[p].body # q
SearchFiles(q) ==
  {p \in Path : /\ tree[p] # NoDoc
                /\ ~(IndexHealthy /\ ruledOut(p, q))
                /\ tree[p].body = q}

----------------------------------------------------------------------------
(* The vector worker *)

NoItem == [path |-> NoPath, doc |-> NoDoc]
Waiting == [pc |-> "select", ctx |-> "server", item |-> NoItem, sweep |-> FALSE, files |-> Empty,
            left |-> {}, had |-> FALSE, fails |-> 0, cfg |-> NoModel]
WorkerStart(m) == IF m = NoModel THEN [Waiting EXCEPT !.pc = "off"]
                  ELSE [Waiting EXCEPT !.pc = "list"]
\* Back to the select of the loop.
Rest == [Waiting EXCEPT !.ctx = vw.ctx]
workerOnly == <<tree, head, wal, tk, indexVars, dep, ghost>>

\* The ticker fires.
ReconcileAllVectors ==
  /\ vw.pc = "select" /\ VectorConfigured
  /\ vw' = [vw EXCEPT !.pc = "list"]
  /\ UNCHANGED <<workerOnly, vx, queue, missed, faults>>

\* A store of another model, as far as the dimensions are known, is discarded.  One that
\* does not open is passed over (vectorForRead), like none at all.
ReconcileProject ==
  /\ vw.pc = "list"
  /\ LET st == vx.file = "ok"
         stale == VectorConfigured /\ st /\ vx.rdims > 0 /\ ~CheckModel(vx, vx.cfg, vx.rdims) IN
       /\ vx' = IF stale THEN removeVectorFile(vx) ELSE vx
       /\ vw' = IF ~VectorConfigured \/ tree = Empty THEN Rest
                ELSE [Rest EXCEPT !.pc = "keys", !.files = tree, !.had = st /\ ~stale]
  /\ UNCHANGED <<workerOnly, queue, missed, faults>>

\* Files with a vector are not looked at again.
ReadKeys ==
  /\ vw.pc = "keys"
  /\ vw' = [vw EXCEPT !.pc = "pick", !.sweep = TRUE,
       !.left = {p \in Path : vw.files[p] # NoDoc /\ ~(vw.had /\ vx.keys[p] # NoDoc)}]
  /\ UNCHANGED <<workerOnly, vx, queue, missed, faults>>

PickFile(p) ==
  /\ vw.pc = "pick" /\ p \in vw.left
  /\ vw' = [vw EXCEPT !.pc = "embed", !.left = @ \ {p},
                      !.item = [path |-> p, doc |-> vw.files[p]]]
  /\ UNCHANGED <<workerOnly, vx, queue, missed, faults>>

\* Mutant: vectors of files that are gone stay.
goneM(v) == {}
gone(v) == {p \in Path : v.files[p] = NoDoc}

\* At the end of a pass, through the handle it began with, if that is still open.
SweepEnd ==
  /\ vw.pc = "pick" /\ vw.left = {}
  /\ vw' = Rest
  /\ vx' = IF vw.had THEN [vx EXCEPT !.keys = [p \in Path |-> IF p \in gone(vw) THEN NoDoc ELSE @[p]]]
           ELSE vx
  /\ UNCHANGED <<workerOnly, queue, missed, faults>>

TakeItem ==
  /\ vw.pc = "select" /\ queue # <<>>
  /\ queue' = Tail(queue)
  /\ vw' = [vw EXCEPT !.pc = "embed", !.item = Head(queue)]
  /\ UNCHANGED <<workerOnly, vx, missed, faults>>

\* After a failure the pass goes on, up to a number of them in a row.
Failed == IF vw.sweep /\ vw.fails + 1 < FailLimit
          THEN [vw EXCEPT !.pc = "pick", !.fails = @ + 1] ELSE Rest
Missing == missed \cup (IF vw.sweep THEN {} ELSE {vw.item.path})

\* The call of the embedder, with the configuration of the moment; the first answer
\* settles the dimensions for the life of the process.
Embed(fails) ==
  /\ vw.pc = "embed"
  /\ IF fails THEN Fault ELSE faults' = faults
  /\ IF fails \/ ~VectorConfigured
     THEN vw' = Failed /\ missed' = Missing /\ vx' = vx
     ELSE /\ vw' = [vw EXCEPT !.pc = "store", !.cfg = vx.cfg]
          /\ vx' = [vx EXCEPT !.rdims = IF @ = 0 THEN DimsOf[vx.cfg] ELSE @]
          /\ missed' = missed
  /\ UNCHANGED <<workerOnly, queue>>

\* The store is opened or created, checked and written; Open, Create or Put may fail.
Store(fails) ==
  /\ vw.pc = "store"
  /\ IF fails THEN Fault ELSE faults' = faults
  /\ LET v == vectorFor(vx)
         fits == v.file = "ok" /\ CheckModel(v, vw.cfg, DimsOf[vw.cfg]) IN
       IF fails \/ v.file # "ok"
       THEN vx' \in {vx} \cup {u \in {v} : fits} /\ vw' = Failed /\ missed' = Missing
       ELSE IF ~fits
       THEN vx' = removeVectorFile(v) /\ vw' = Rest /\ missed' = missed
       ELSE /\ vx' = [v EXCEPT !.keys[vw.item.path] = [doc |-> vw.item.doc, model |-> vw.cfg]]
            /\ vw' = IF vw.sweep THEN [vw EXCEPT !.pc = "pick", !.fails = 0] ELSE Rest
            /\ missed' = missed
  /\ UNCHANGED <<workerOnly, queue>>

VectorStep ==
  \/ ReconcileProject \/ ReadKeys \/ SweepEnd \/ Embed(FALSE) \/ Store(FALSE)
  \/ \E p \in Path : PickFile(p)

----------------------------------------------------------------------------
(* A reload of the librarian's configuration, from the web socket *)

\* SetVectorConfig closes the handles when the model changes.  The worker starts once,
\* under the context of the message that starts it.
SetVectorConfig(m) ==
  /\ dep.librarian
  /\ Fault
  /\ m # vx.cfg
  /\ vx' = [vx EXCEPT !.cfg = m]
  /\ vw' = IF vw.pc = "off" /\ m # NoModel THEN [WorkerStart(m) EXCEPT !.ctx = "message"]
           ELSE IF NoModel \in {m, vx.cfg} THEN vw ELSE [vw EXCEPT !.had = FALSE]
  /\ UNCHANGED <<tree, head, wal, tk, indexVars, queue, missed, dep, ghost>>

\* The handler returns and its context is cancelled.
HandlerReturns ==
  /\ vw.ctx = "message" /\ vw.pc # "dead"
  /\ vw' = [vw EXCEPT !.pc = "dead"]
  /\ missed' = Missing \ {NoPath}
  /\ UNCHANGED <<workerOnly, vx, queue, faults>>

\* What a crash in the middle of vectorFor leaves: the store it found or made, or a file
\* without the buckets that Create had yet to write, which Open refuses from then on.
HalfMade ==
  {vx} \cup (IF vw.pc = "store" /\ vectorFor(vx) # vx
             THEN {vectorFor(vx), [vx EXCEPT !.file = "bad"]} ELSE {})

\* A crash loses the channels; the index file may turn out unreadable or gone.
Crash(file, v) ==
  /\ Fault
  /\ LET half == (UNION {Held(t) : t \in Writer}) \ {NoPath} IN
       /\ drifted' = drifted \cup half
       /\ missed' = missed \cup half \cup {queue[i].path : i \in DOMAIN queue}
                           \cup (IF vw.item # NoItem THEN Missing ELSE {})
  /\ act' = [t \in Writer |-> Idle]
  /\ kicks' = <<>> /\ owed' = {}
  /\ ix' = [ix EXCEPT !.file = file]
  /\ sw' = SweepStart(dep)
  /\ queue' = <<>>
  /\ vx' = [v EXCEPT !.rdims = 0]
  /\ vw' = WorkerStart(vx.cfg)
  /\ UNCHANGED <<tree, head, wal, dep, calls, undone>>

----------------------------------------------------------------------------
Init ==
  /\ tree = Start /\ head = 1 /\ wal = 0
  /\ act = [t \in Writer |-> Idle]
  /\ kicks = <<>> /\ owed = {}
  /\ ix = [file |-> "ok", recs |-> Start, marker |-> 1]
  /\ dep \in Deployments
  /\ sw = SweepStart(dep)
  /\ vx = [cfg |-> dep.vector, rdims |-> 0, file |-> "gone", model |-> NoModel, dims |-> 0,
           keys |-> Empty]
  /\ queue = <<>> /\ vw = WorkerStart(dep.vector)
  /\ calls = 0 /\ faults = 0
  /\ drifted = {} /\ undone = {} /\ missed = {}

WriterStep(t) ==
  \/ WriteTree(t) \/ RemoveFile(t) \/ AppendLog(t) \/ Kick(t)
  \/ IndexDelete(t, FALSE) \/ IndexPut(t, FALSE) \/ VectorDelete(t, FALSE) \/ VectorEnqueue(t)
WriterFails(t) ==
  AppendFails(t) \/ IndexDelete(t, TRUE) \/ IndexPut(t, TRUE) \/ VectorDelete(t, TRUE)

Next ==
  \/ \E t \in Task, c \in Call : Begin(t, c)
  \/ \E t \in Writer : WriterStep(t) \/ WriterFails(t)
  \/ Commit
  \/ ReconcileAllIndexes \/ TakeKick \/ IndexStep \/ CreateIndex(TRUE) \/ ReplaceAll(TRUE)
  \/ ReconcileAllVectors \/ TakeItem \/ VectorStep \/ Embed(TRUE) \/ Store(TRUE)
  \/ \E m \in Model \cup {NoModel} : SetVectorConfig(m)
  \/ HandlerReturns
  \/ \E f \in {ix.file} \cup dep.damage, v \in HalfMade : Crash(f, v)

Spec == Init /\ [][Next]_vars

\* Goroutines are scheduled, the tickers keep firing, and a Go select that finds two
\* channels ready takes either.
Fairness ==
  /\ \A t \in Writer : WF_vars(WriterStep(t))
  /\ WF_vars(Commit)
  /\ WF_vars(IndexStep) /\ SF_vars(ReconcileAllIndexes) /\ SF_vars(TakeKick)
  /\ WF_vars(VectorStep) /\ SF_vars(ReconcileAllVectors) /\ SF_vars(TakeItem)
  /\ WF_vars(HandlerReturns)
FairSpec == Spec /\ Fairness

----------------------------------------------------------------------------
(* Properties *)

\* The type invariant of the variables above; the two channels stay within the buffers
\* of enqueueFixLinks and vectorEnqueue.
DerivedTypeOK ==
  /\ tree \in [Path -> File] /\ head \in Nat /\ wal \in Nat
  /\ \A t \in Writer : Len(act[t].left) <= 8 /\ act[t].call.path \in Path \cup {NoPath}
  /\ kicks \in Seq(Path \X Path) /\ Len(kicks) <= KickBuffer
  /\ ix \in [file : {"ok", "bad", "gone"}, recs : [Path -> File], marker : Nat]
  /\ sw.pc \in {"off", "idle", "wait", "head", "create", "walk", "scan", "fix", "write"}
  /\ vx.file \in {"ok", "bad", "gone"}
  /\ vx.cfg \in Model \cup {NoModel} /\ vx.model \in Model \cup {NoModel}
  /\ vx.rdims \in Nat /\ vx.dims \in Nat
  /\ vx.keys \in [Path -> {NoDoc} \cup [doc : Doc, model : Model]]
  /\ Len(queue) <= QueueSize
  /\ vw.pc \in {"off", "list", "keys", "pick", "embed", "store", "select", "dead"}
  /\ dep \in Deployments
  /\ {drifted, undone, missed} \subseteq SUBSET Path /\ owed \subseteq Path \X Path

\* The vectors of a store come from the model it was created for, though a model may be
\* swapped while a document is being embedded (vectorEmbed).
OneModel == \A p \in Path : vx.keys[p] # NoDoc => vx.keys[p].model = vx.model

\* Nothing is under way that will still change the index or move HEAD.
Quiet == wal = 0 /\ \A t \in Writer : act[t].left = <<>>

\* Once the log is drained, an index whose marker is HEAD has the content of every file
\* whose changes all reached the log: the marker is read before the walk (reconcileIndex),
\* so a write that the walk missed moves HEAD past it.  A change whose append failed or
\* crashed never moves HEAD, and leaves the index healthy and wrong (drifted, undone).
HealthyMeansCurrent ==
  Quiet /\ IndexHealthy =>
    \A p \in Path \ (drifted \cup undone) : tree[p] # NoDoc => ix.recs[p] = tree[p]

\* ... so a search through it finds what reading every file would find, also the file
\* whose deletion was given up after indexDelete (SearchFiles).
SearchFindsAll ==
  Quiet => \A q \in Body :
    {p \in Path : tree[p] # NoDoc /\ tree[p].body = q} \ drifted \subseteq SearchFiles(q)

\* The index and the vectors answer for the files they were made from.
AnswersCurrent == HealthyMeansCurrent /\ SearchFindsAll /\ OneModel

\* When the kicks are worked off, no link that a move broke is left: fix_links scans the
\* files when the index is behind, and a link it redirects to a file that has moved on
\* is repaired by that move's kick.  Edited and moved referrers are their writer's, and a
\* referrer whose record a healthy index has wrong is not promised (TakeKick), though
\* fixlinks.go says that links missed are safe there too.
LinksFollow ==
  sw.pc = "idle" /\ kicks = <<>> =>
    \A o \in owed : tree[o[1]] = NoDoc \/ tree[o[1]].link # o[2]

\* fix_links writes a file only as it was when it was read: a concurrent edit makes it
\* back off (fixLinksRewriteReferrer).
NeverClobbers ==
  [][\A p \in Path : tree'[p] # tree[p] /\ Doing(Sweeper, "tree") /\ ~Doing(Sweeper, "tree")' =>
       act[Sweeper].call.path = p /\ sw.data = tree[p]]_vars

\* The index becomes healthy and the kicks are worked off whatever the failures, the
\* crashes and the state of the file (reconcileIndex).
IndexHeals == <>[](dep.sweep => IndexHealthy /\ kicks = <<>>)

Current(p) ==
  IF tree[p] = NoDoc THEN vx.keys[p] = NoDoc
  ELSE vx.keys[p] = [doc |-> tree[p], model |-> vx.cfg]

\* In a project with files, every file gets the vector of its content and a deleted file
\* loses its own, unless an update of it was dropped, lost or failed: while the worker
\* runs, models have vectors of the length that was resolved first, and something was
\* embedded since the start if the store is of another model (reconcileProjectVectors).
\* A store that a crash left half made is not promised to recover: nothing removes a file
\* that Open refuses (vectorFor, vectorForRead), and its project has no vectors any more.
VectorsSettle ==
  <>[](/\ VectorConfigured /\ vw.ctx = "server" /\ tree # Empty /\ vx.file # "bad"
       /\ \/ vx.rdims = DimsOf[vx.cfg]
          \/ vx.rdims = 0 /\ vx.model \in {NoModel, vx.cfg}
       => \A p \in Path \ (missed \cup drifted) : Current(p))
=============================================================================
