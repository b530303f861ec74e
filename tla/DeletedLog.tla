----------------------------- MODULE DeletedLog -----------------------------
(***************************************************************************)
(* The per-project log of deleted files: the commit-land hook that keeps   *)
(* it, the bounded walk over recent commits that rebuilds it, list_deleted *)
(* and revive_file, and the one-time clean-up of logs left by old builds.  *)
(*                                                                         *)
(* A log file is an inode with a number.  "file" is what the path names,   *)
(* "reg" the handle in the registry; bbolt locks an open file, so opening  *)
(* one that another handle holds times out.  Commit hashes are numbers,    *)
(* and a later commit has a later time.                                    *)
(***************************************************************************)
EXTENDS Integers, Sequences, FiniteSets, FiniteSetsExt, Maps

CONSTANTS
  Path, Content,
  Caller,          \* list_deleted and revive_file requests
  MaxEntries,      \* deletedLogMaxEntries; 0 is no cap
  RepairDepth,     \* deletedLogRepairDepth
  MaxCommits, MaxFiles, MaxQueue, \* bounds
  MaxFaults        \* bound: crashes, failed updates and history rewrites

ASSUME DeletedLogAssumption ==
  /\ {MaxEntries, MaxCommits, MaxFiles, MaxQueue, MaxFaults} \subseteq Nat
  /\ RepairDepth \in Nat \ {0}
  /\ 0 \notin Path \cup Content

None == 0

VARIABLES
  hist,    \* the commits up to HEAD: trailer, hash, and the tree they leave
  queue,   \* acknowledged operations that no worker has finished
  landed,  \* the hash of the commit whose hook has still to run, or None
  files,   \* the log files ever created: records, origin marker, readable
  file,    \* the inode at deletedLogPath, or None
  reg,     \* deletedLogs: the registered handle's inode, or None
  call,    \* caller -> where its handler is
  up,      \* whether the server runs
  cleaned, \* deletedLogCleanupFlag
  nextId, faults,
  dirty    \* ghost: paths whose record the documented tolerances make stale

vars == <<hist, queue, landed, files, file, reg, call, up, cleaned, nextId,
          faults, dirty>>
logs == <<files, file, reg>>
repo == <<hist, queue, landed, nextId>>

----------------------------------------------------------------------------
(* The repository *)

Meta == [op : {"write", "delete"}, path : Path, from : {None}]
          \cup {m \in [op : {"move"}, path : Path, from : Path] : m.path # m.from}

HeadTree == IF hist = <<>> THEN EmptyMap ELSE hist[Len(hist)].tree
\* The tree of the first parent of commit i.
ParentTree(i) == IF i = 1 THEN EmptyMap ELSE hist[i - 1].tree

\* What an operation makes of a tree.
applyToTree(t, e) ==
  CASE e.meta.op = "write" -> Put(t, e.meta.path, e.content)
    [] e.meta.op = "delete" -> Drop(t, {e.meta.path})
    [] e.meta.op = "move" ->
         IF e.meta.from \in DOMAIN t
         THEN Put(Drop(t, {e.meta.from}), e.meta.path, t[e.meta.from])
         ELSE t

\* The project's files: HEAD with the operations still queued.
WorkTree ==
  LET run[n \in 0..Len(queue)] ==
        IF n = 0 THEN HeadTree ELSE applyToTree(run[n - 1], queue[n])
  IN run[Len(queue)]

Hashes == {hist[i].hash : i \in DOMAIN hist}
IndexOf(h) == CHOOSE i \in DOMAIN hist : hist[i].hash = h

added(i) == DOMAIN hist[i].tree \ DOMAIN ParentTree(i)
removed(i) == DOMAIN ParentTree(i) \ DOMAIN hist[i].tree
modified(i) == {p \in DOMAIN hist[i].tree \cap DOMAIN ParentTree(i) :
                  hist[i].tree[p] # ParentTree(i)[p]}

----------------------------------------------------------------------------
(* The repair walk *)

metaMatchesDiff(m, i) ==
  CASE m.op = "move" -> m.from \in removed(i) /\ m.path \in added(i)
    [] m.op = "delete" -> m.path \in removed(i)
    [] m.op = "write" -> m.path \in added(i) \cup modified(i)
\* The paths commit i decides, and those it decides to be deleted.
Decides(i) == added(i) \cup removed(i) \cup modified(i)
Deletes(i) ==
  IF hist[i].meta.op = "move" /\ metaMatchesDiff(hist[i].meta, i)
  THEN removed(i) \ {hist[i].meta.from} ELSE removed(i)

Window == {i \in DOMAIN hist : i > Len(hist) - RepairDepth}

\* Mutant: HEAD is recorded as the deletion commit.
walkDeletedNetStateM ==
  LET newest(p) == Max({i \in Window : p \in Decides(i)})
      D == {p \in UNION {Decides(i) : i \in Window} : p \in Deletes(newest(p))}
  IN [p \in D |-> hist[Len(hist)].hash]
\* path -> deletion commit, each path decided by its newest commit.
walkDeletedNetState ==
  LET newest(p) == Max({i \in Window : p \in Decides(i)})
      D == {p \in UNION {Decides(i) : i \in Window} : p \in Deletes(newest(p))}
  IN [p \in D |-> hist[newest(p)].hash]

----------------------------------------------------------------------------
(* The log file *)

\* The newest MaxEntries records (evictOldest, capNewest).  A later commit
\* has the larger hash number.
capNewest(recs) ==
  IF MaxEntries = 0 THEN recs
  ELSE [p \in {q \in DOMAIN recs :
                Cardinality({r \in DOMAIN recs : recs[r] > recs[q]}) < MaxEntries}
          |-> recs[p]]
NewLog(recs) == [recs |-> recs, marked |-> TRUE, ok |-> TRUE]
Upsert(recs, p, h) == capNewest(Put(recs, p, h))

\* Inodes some handle has open.
Held == ({reg} \cup {call[c].st : c \in Caller}) \ {None}

\* The inode deletedLogForRead gives: the registered one, or the file if it
\* can be opened.
ReadHandle == IF reg # None THEN reg
              ELSE IF file # None /\ files[file].ok /\ file \notin Held
              THEN file ELSE None

Rebuilding == {c \in Caller : call[c].pc \in {"remove", "create", "replace", "register"}}
\* A log update on paths S while a rebuild is under way may be overwritten.
Race(S) == [c \in Caller |-> IF c \in Rebuilding
                             THEN [call[c] EXCEPT !.raced = @ \cup S] ELSE call[c]]

----------------------------------------------------------------------------
(* Clients and the WAL worker *)

\* A write, delete or move is acknowledged once it is in the WAL.
Accept ==
  /\ up /\ Len(queue) < MaxQueue /\ Len(hist) + Len(queue) < MaxCommits
  /\ \E m \in Meta, x \in Content :
       /\ m.op = "delete" => m.path \in DOMAIN WorkTree
       /\ m.op = "move" => m.from \in DOMAIN WorkTree
       /\ m.op # "write" => x = CHOOSE y \in Content : TRUE
       /\ queue' = Append(queue, [meta |-> m, content |-> x])
  /\ UNCHANGED <<hist, landed, nextId, logs, call, up, cleaned, faults, dirty>>

\* commitEntry up to advanceHead.  An entry that changes nothing records
\* nothing and runs no hook.
commitEntry ==
  /\ up /\ landed = None /\ queue # <<>>
  /\ LET e == Head(queue)
         t == applyToTree(HeadTree, e)
     IN IF t = HeadTree
        THEN /\ queue' = Tail(queue)
             /\ UNCHANGED <<hist, landed, nextId>>
        ELSE /\ hist' = Append(hist, [meta |-> e.meta, hash |-> nextId, tree |-> t])
             /\ landed' = nextId
             /\ nextId' = nextId + 1
             /\ UNCHANGED queue
  /\ UNCHANGED <<logs, call, up, cleaned, faults, dirty>>

Touched == {queue[1].meta.path, queue[1].meta.from} \ {None}

\* Mutant: a move drops its source only.
AppliedM(recs) ==
  LET m == queue[1].meta
  IN CASE m.op = "delete" -> Upsert(recs, m.path, landed)
       [] m.op = "move" -> Drop(recs, {m.from})
       [] m.op = "write" -> Drop(recs, {m.path})
\* What the hook leaves of the records of the log it updates.
Applied(recs) ==
  LET m == queue[1].meta
  IN CASE m.op = "delete" -> Upsert(recs, m.path, landed)
       [] m.op = "move" -> Drop(recs, {m.from, m.path})
       [] m.op = "write" -> Drop(recs, {m.path})
\* The hook of the commit that has just landed.  A delete may create the log;
\* a write or a move leaves an absent one absent.  A log that cannot be
\* opened or updated is skipped.
deletedLogApply ==
  /\ up /\ landed # None
  /\ landed' = None /\ queue' = Tail(queue)
  /\ call' = Race(Touched)
  /\ \/ LET n == ReadHandle
        IN /\ n # None
           /\ files' = [files EXCEPT ![n].recs = Applied(@)]
           /\ reg' = n
           /\ dirty' = (dirty \ Touched)
                         \cup (DOMAIN files[n].recs \ (DOMAIN files'[n].recs \cup Touched))
           /\ UNCHANGED <<file, faults>>
     \/ /\ file = None /\ reg = None /\ queue[1].meta.op = "delete"
        /\ Len(files) < MaxFiles
        /\ files' = Append(files, NewLog(Applied(EmptyMap)))
        /\ file' = Len(files) + 1 /\ reg' = file'
        /\ dirty' = dirty \ Touched
        /\ UNCHANGED faults
     \/ /\ ReadHandle = None
        /\ file = None => queue[1].meta.op # "delete"
        /\ dirty' = dirty \cup Touched
        /\ UNCHANGED <<logs, faults>>
     \/ /\ faults < MaxFaults
        /\ faults' = faults + 1
        /\ dirty' = dirty \cup Touched
        /\ UNCHANGED logs
  /\ UNCHANGED <<hist, nextId, up, cleaned>>

----------------------------------------------------------------------------
(* list_deleted and the rebuild *)

Idle == [pc |-> "idle", path |-> None, content |-> None, recs |-> EmptyMap,
         st |-> None, raced |-> {}]
Goto(c, r) == call' = [call EXCEPT ![c] = r]
At(c, pc) == up /\ call[c].pc = pc

\* An absent log is rebuilt; an unreadable one is removed first; a readable
\* one is trusted.
ListDeleted(c) ==
  /\ At(c, "idle")
  /\ \/ file = None /\ Goto(c, [Idle EXCEPT !.pc = "walk"]) /\ UNCHANGED <<logs, dirty>>
     \/ /\ file # None /\ ReadHandle # None
        /\ reg' = ReadHandle
        /\ UNCHANGED <<call, files, file, dirty>>
     \/ /\ file # None /\ ReadHandle = None
        /\ file' = None /\ dirty' = Path
        /\ Goto(c, [Idle EXCEPT !.pc = "walk"])
        /\ UNCHANGED <<files, reg>>
  /\ UNCHANGED <<repo, up, cleaned, faults>>

\* rebuildDeletedLog: the walk.
walk(c) ==
  /\ At(c, "walk")
  /\ Goto(c, [call[c] EXCEPT !.pc = "remove", !.recs = walkDeletedNetState,
                             !.raced = IF landed # None THEN Touched ELSE {}])
  /\ UNCHANGED <<repo, logs, up, cleaned, faults, dirty>>

\* The registered handle is closed and the file is unlinked.  An inode no
\* name and no handle leads to is gone.
removeDeletedLogFile(c) ==
  /\ At(c, "remove")
  /\ file' = None /\ reg' = None /\ dirty' = Path
  /\ files' = [n \in DOMAIN files |-> IF n \in {call[d].st : d \in Caller}
                                      THEN files[n] ELSE NewLog(EmptyMap)]
  /\ Goto(c, [call[c] EXCEPT !.pc = "create"])
  /\ UNCHANGED <<repo, up, cleaned, faults>>

\* Creating over a file fails, and opening that file instead times out while
\* its creator holds it.
Create(c) ==
  /\ At(c, "create")
  /\ \/ /\ file = None /\ Len(files) < MaxFiles
        /\ files' = Append(files, NewLog(EmptyMap))
        /\ file' = Len(files')
        /\ Goto(c, [call[c] EXCEPT !.pc = "replace", !.st = file'])
     \/ /\ file # None /\ (file \in Held \/ ~files[file].ok)
        /\ Goto(c, Idle)
        /\ UNCHANGED <<files, file>>
     \/ /\ file # None /\ file \notin Held /\ files[file].ok
        /\ Goto(c, [call[c] EXCEPT !.pc = "replace", !.st = file])
        /\ UNCHANGED <<files, file>>
  /\ UNCHANGED <<repo, reg, up, cleaned, faults, dirty>>

ReplaceAll(c) ==
  /\ At(c, "replace")
  /\ files' = [files EXCEPT ![call[c].st].recs = capNewest(call[c].recs)]
  /\ Goto(c, [call[c] EXCEPT !.pc = "register"])
  /\ UNCHANGED <<repo, file, reg, up, cleaned, faults, dirty>>

registerDeletedLog(c) ==
  /\ At(c, "register")
  /\ reg' = call[c].st
  /\ dirty' = IF reg' = file
              THEN call[c].raced
                     \cup (DOMAIN call[c].recs \ DOMAIN capNewest(call[c].recs))
              ELSE Path
  /\ Goto(c, Idle)
  /\ UNCHANGED <<repo, files, file, up, cleaned, faults>>
----------------------------------------------------------------------------
(* revive_file *)

\* The newest commit that removed p from the tree, or None.
findDeletionCommit(p) ==
  LET S == {i \in DOMAIN hist : p \in removed(i)}
  IN IF S = {} THEN None ELSE hist[Max(S)].hash

\* Whether p can be read at the parent of the commit with hash h.
Readable(h, p) == h \in Hashes /\ p \in DOMAIN ParentTree(IndexOf(h))
readContentAtDeletionParent(h, p) == ParentTree(IndexOf(h))[p]

\* The commit a revival of p starts from: one the caller names, the recorded
\* one, or the newest in history.
deletionHash(p, from) ==
  IF from # None THEN from
  ELSE IF ReadHandle # None /\ p \in DOMAIN files[ReadHandle].recs
  THEN files[ReadHandle].recs[p] ELSE findDeletionCommit(p)

\* A commit that is gone from git is the divergence error, and the log is
\* rebuilt; a path that was never deleted is an error only.
ReviveFile(c) ==
  /\ At(c, "idle")
  /\ \E p \in Path, from \in {None} \cup Hashes :
       LET h == deletionHash(p, from)
       IN /\ h # None
          /\ IF Readable(h, p)
             THEN Goto(c, [Idle EXCEPT !.pc = "write", !.path = p,
                             !.content = readContentAtDeletionParent(h, p)])
             ELSE Goto(c, [Idle EXCEPT !.pc = "walk"])
  /\ reg' = ReadHandle
  /\ UNCHANGED <<repo, files, file, up, cleaned, faults, dirty>>

ReviveWrite(c) ==
  /\ At(c, "write") /\ Len(queue) < MaxQueue /\ Len(hist) + Len(queue) < MaxCommits
  /\ queue' = Append(queue, [meta |-> [op |-> "write", path |-> call[c].path, from |-> None],
                             content |-> call[c].content])
  /\ Goto(c, [call[c] EXCEPT !.pc = "drop"])
  /\ UNCHANGED <<hist, landed, nextId, logs, up, cleaned, faults, dirty>>

\* The write is acknowledged, not committed: the record goes now, so that a
\* list taken on the answer does not show the file.
ReviveDrop(c) ==
  LET p == call[c].path
      n == ReadHandle
  IN /\ At(c, "drop")
     /\ IF n = None THEN UNCHANGED files
        ELSE files' = [files EXCEPT ![n].recs = Drop(@, {p})]
     /\ reg' = n
     /\ dirty' = dirty \cup {p}
     /\ call' = [Race({p}) EXCEPT ![c] = Idle]
     /\ UNCHANGED <<repo, file, up, cleaned, faults>>

----------------------------------------------------------------------------
(* Start, stop and the outside *)

\* deletedLogCleanupOnce: an unmarked log without records is removed.
Junk(n) == files[n].ok /\ ~files[n].marked /\ files[n].recs = EmptyMap

\* A crash may come between the removal and the flag.
Start ==
  /\ ~up
  /\ \/ /\ cleaned
        /\ up' = TRUE
        /\ UNCHANGED <<file, cleaned, dirty>>
     \/ /\ ~cleaned
        /\ IF file # None /\ Junk(file)
           THEN file' = None /\ dirty' = Path
           ELSE UNCHANGED <<file, dirty>>
        /\ \/ up' = TRUE /\ cleaned' = TRUE
           \/ up' = FALSE /\ cleaned' = FALSE /\ file' # file
  /\ UNCHANGED <<repo, files, reg, call, faults>>

\* The queue is in the WAL and survives; a hook that had not run is lost,
\* because its entry is found to change nothing when it is replayed.
Crash ==
  /\ up /\ faults < MaxFaults
  /\ faults' = faults + 1
  /\ up' = FALSE
  /\ landed' = None /\ reg' = None
  /\ call' = [c \in Caller |-> Idle]
  /\ dirty' = IF reg # None /\ reg # file THEN Path
              ELSE IF landed # None THEN dirty \cup Touched ELSE dirty
  /\ UNCHANGED <<hist, queue, nextId, files, file, cleaned>>

\* Outside the program: a history rewrite gives the commits new hashes.
Rewrite ==
  /\ up /\ faults < MaxFaults /\ hist # <<>> /\ landed = None
  /\ faults' = faults + 1
  /\ hist' = [i \in DOMAIN hist |-> [hist[i] EXCEPT !.hash = nextId + i]]
  /\ nextId' = nextId + Len(hist) + 1
  /\ UNCHANGED <<queue, landed, logs, call, up, cleaned, dirty>>

\* A project with a file, a deletion in its history, and the log file an
\* earlier build left.
Init ==
  /\ \E p \in Path, q \in Path, x \in Content :
       LET W(f) == [op |-> "write", path |-> f, from |-> None]
           t == Put(EmptyMap, q, x)
       IN /\ p # q
          /\ hist = << [meta |-> W(q), hash |-> 1, tree |-> t],
                       [meta |-> W(p), hash |-> 2, tree |-> Put(t, p, x)],
                       [meta |-> [W(p) EXCEPT !.op = "delete"], hash |-> 3, tree |-> t] >>
          /\ \/ files = <<>> /\ file = None /\ dirty = Path
             \/ /\ \E r \in {EmptyMap, Put(EmptyMap, p, 3)}, ok \in BOOLEAN :
                     /\ ok \/ r # EmptyMap
                     /\ files = <<[recs |-> r, marked |-> FALSE, ok |-> ok]>>
                     /\ dirty = IF r = EmptyMap THEN Path ELSE {}
                /\ file = 1
  /\ queue = <<>> /\ landed = None /\ reg = None
  /\ call = [c \in Caller |-> Idle]
  /\ up = FALSE /\ cleaned = FALSE
  /\ nextId = 4 /\ faults = 0

Next ==
  \/ Accept \/ commitEntry \/ deletedLogApply
  \/ \E c \in Caller : \/ ListDeleted(c) \/ walk(c) \/ removeDeletedLogFile(c)
                       \/ Create(c) \/ ReplaceAll(c) \/ registerDeletedLog(c)
                       \/ ReviveFile(c) \/ ReviveWrite(c) \/ ReviveDrop(c)
  \/ Start \/ Crash \/ Rewrite

Spec == Init /\ [][Next]_vars

----------------------------------------------------------------------------
(* Properties *)

Tree == UNION {[S -> Content] : S \in SUBSET Path}
IsRecs(r) == DOMAIN r \subseteq Path /\ \A p \in DOMAIN r : r[p] \in Nat \ {0}

\* The types of the repository, the log files and the requests; a handle is
\* never to a file that was not created, and no log exceeds its cap.
TypeOK ==
  /\ hist \in Seq([meta : Meta, hash : Nat \ {0}, tree : Tree])
  /\ queue \in Seq([meta : Meta, content : Content]) /\ Len(queue) <= MaxQueue
  /\ landed \in Hashes \cup {None} /\ (landed # None => queue # <<>>)
  /\ DOMAIN files = 1..Len(files)
  /\ \A n \in DOMAIN files :
       /\ IsRecs(files[n].recs) /\ {files[n].marked, files[n].ok} \subseteq BOOLEAN
       /\ MaxEntries = 0 \/ Cardinality(DOMAIN files[n].recs) <= MaxEntries
  /\ {file, reg} \subseteq {None} \cup DOMAIN files
  /\ \A c \in Caller :
       /\ call[c].pc \in {"idle", "walk", "remove", "create", "replace", "register",
                          "write", "drop"}
       /\ call[c].path \in Path \cup {None} /\ call[c].content \in Content \cup {None}
       /\ IsRecs(call[c].recs) /\ call[c].raced \subseteq Path
       /\ call[c].st \in {None} \cup DOMAIN files
  /\ {up, cleaned} \subseteq BOOLEAN
  /\ nextId \in Nat /\ faults \in 0..MaxFaults /\ dirty \subseteq Path

Cur == IF reg # None THEN reg ELSE file

\* Every record of the log can be revived: the commit it names removed the
\* path and the commit's parent still has it, whatever hooks, rebuilds,
\* revivals, crashes and evictions came between (deletedLogApply,
\* walkDeletedNetState).  A record whose commit was rewritten away is the
\* divergence revive_file reports.
RecordsResolve ==
  Cur # None =>
    \A p \in DOMAIN files[Cur].recs :
      files[Cur].recs[p] \in Hashes => p \in removed(IndexOf(files[Cur].recs[p]))

\* The log is well formed, bounded and can be revived from.
LogSound == TypeOK /\ RecordsResolve

\* Whether the newest commit on p in the window is a move over a file.
MovedOver(p) ==
  \E i \in Window : /\ hist[i].meta.op = "move" /\ hist[i].meta.from = p
                    /\ hist[i].meta.path \notin added(i)
                    /\ \A j \in Window : j > i => p \notin Decides(j)

\* The log the hooks keep and the log a walk would build name the same
\* deleted paths (rebuildDeletedLog: "the hook and the walk agree by
\* construction"), except on a path that is dirty: its hook failed, was lost
\* in a crash, ran beside a rebuild, found no log, or its record was evicted or
\* dropped by a revival; a path older than the window; and the source of a
\* move over an existing file.
LogAgreesWithWalk ==
  up /\ landed = None /\ Cur # None =>
    \A p \in Path \ dirty :
      (\E i \in Window : p \in Decides(i)) /\ ~MovedOver(p) =>
        (p \in DOMAIN files[Cur].recs <=> p \in DOMAIN walkDeletedNetState)
=============================================================================
