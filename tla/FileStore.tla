----------------------------- MODULE FileStore -----------------------------
(***************************************************************************)
(* One project of the file store: the write path (writeTransformed,        *)
(* deleteFile, Move and their gate checkWritable), the catalog, the drift  *)
(* detection that judges the project, the lost+found sweep that acts on    *)
(* its verdict, the recovery operations and the restart.                   *)
(*                                                                         *)
(* The write path works under the locks of its paths (module FileLock,     *)
(* taken here as exclusion per path); drift detection, sweep and recovery  *)
(* take no lock and run between any two steps of it.  The log and its      *)
(* workers appear as they do in CommitLog: a queue whose entries reach     *)
(* HEAD in order.                                                          *)
(*                                                                         *)
(* A file's content is the set of fragments written to it: a whole-file    *)
(* write replaces the set, an edit of the current bytes adds to it, and {} *)
(* is the empty file.  An etag is the content it is the hash of.           *)
(***************************************************************************)
EXTENDS Naturals, Sequences, FiniteSets

CONSTANTS
  Task,           \* callers of the write path
  Scanner,        \* the actor of background passes and operator recovery
  Path, Fragment,
  NoFile,         \* a path that is not there
  None,           \* no if_match
  Call,           \* the calls tasks may make
  Scans,          \* the passes the scanner may run
  Outside,        \* what may happen behind the store's back: "edit", "commit"
  Disposable,     \* paths shoka.disposable matches
  MaxWALEntries,  \* maxWALEntries
  Failing,        \* the steps that can fail; "drain" is the wait for the log
  MaxCalls,       \* bound: calls
  MaxFaults,      \* bound: failing steps, timeouts, outside changes and crashes together
  MaxCrashes      \* bound: crashes

Content == {c : c \in SUBSET Fragment}
File == Content \cup {NoFile}
Tree == [Path -> File]
EmptyTree == [p \in Path |-> NoFile]
CallOp == {"write", "append", "delete", "move"}
Step == {"put", "remove", "log", "own", "disown"}
PassKind == {"drift", "sweep", "resync", "repair", "restore"}

ASSUME FileStoreAssumption ==
  /\ Call \subseteq [op : CallOp, path : Path, from : Path, content : Content,
                     ifMatch : Content \cup {None}]
  /\ \A c \in Call : c.op = "move" => c.path # c.from
  /\ NoFile \notin Content /\ None \notin Content
  /\ Scanner \notin Task /\ IsFiniteSet(Task)
  /\ Scans \subseteq PassKind /\ Outside \subseteq {"edit", "commit"} /\ Disposable \subseteq Path
  /\ MaxWALEntries \in Nat \ {0} /\ Failing \subseteq Step \cup {"drain"}
  /\ MaxCalls \in Nat /\ MaxFaults \in Nat /\ MaxCrashes \in Nat

Actor == Task \cup {Scanner}

VARIABLES
  tree,        \* the working tree
  catalog,     \* the catalog: path -> etag
  registered,  \* the catalog has an open handle (it is not being rebuilt)
  wal,         \* the log's pending entries
  head, born,  \* the tree of HEAD, and whether HEAD exists yet
  state,       \* the project's state
  lostfound,   \* what the sweep moved away: <<path, content>>
  tk,          \* task -> its call
  scan,        \* actor -> its run of DetectDrift, or of a recovery
  torn,        \* ghost: paths a failure, a crash, an edit from outside or a restore
               \* left different in working tree and log
  acked,       \* ghost: path -> what the last acknowledged call left there, or the
               \* last one that a crash kept from being acknowledged
  recorded,    \* ghost: <<path, content>> in HEAD's history
  calls, faults, crashes

diskVars == <<tree, wal, head, born, lostfound, recorded>>
catVars == <<catalog, registered>>
ghostVars == <<torn, acked>>
countVars == <<calls, faults, crashes>>
vars == <<diskVars, catVars, state, tk, scan, ghostVars, countVars>>

\* sha256Hex of what os.ReadFile returned: a file that is not there reads as no
\* bytes, like an empty one.
Etag(f) == IF f = NoFile THEN {} ELSE f

Paths(c) == IF c.op = "move" THEN {c.path, c.from} ELSE {c.path}
\* The path a call takes away.
Victim(c) == IF c.op = "move" THEN c.from ELSE c.path
Apply(t, e) ==
  CASE e.op = "write"  -> [t EXCEPT ![e.path] = e.content]
    [] e.op = "delete" -> [t EXCEPT ![e.path] = NoFile]
    [] e.op = "move"   -> [[t EXCEPT ![e.from] = NoFile] EXCEPT ![e.path] = e.content]
\* HEAD after the log has drained.
Drained ==
  LET t[n \in 0..Len(wal)] == IF n = 0 THEN head ELSE Apply(t[n - 1], wal[n])
  IN  t[Len(wal)]
Pairs(t) == {<<p, t[p]>> : p \in {q \in Path : t[q] # NoFile}}
\* What the pending entries will record.
Logged == {<<wal[i].path, wal[i].content>> :
             i \in {j \in DOMAIN wal : wal[j].op # "delete"}}

\* Mutant of Plan: a move removes its source first.
PlanM(op) ==
  CASE op \in {"write", "append"} -> <<"put", "log", "own">>
    [] op = "delete"              -> <<"disown", "log", "remove">>
    [] op = "move"                -> <<"remove", "put", "disown", "own", "log">>
\* The order in which an operation changes the working tree (put, remove), the
\* log and the catalog (own, disown) under its locks.
Plan(op) ==
  CASE op \in {"write", "append"} -> <<"put", "log", "own">>
    [] op = "delete"              -> <<"disown", "log", "remove">>
    [] op = "move"                -> <<"put", "remove", "disown", "own", "log">>
Elements(s) == {s[i] : i \in DOMAIN s}

\* "check", "recheck": in checkWritable, before and after its rescan.  "crit": under
\* the locks, with the steps still to do.
TaskPC == {"idle", "check", "rescan", "recheck", "lock", "crit"}
NoCall == [op |-> "write", path |-> CHOOSE p \in Path : TRUE,
           from |-> CHOOSE p \in Path : TRUE, content |-> {}, ifMatch |-> None]
Idle == [pc |-> "idle", call |-> NoCall, todo |-> <<>>, cur |-> NoFile, new |-> NoFile]
Called(c) == [Idle EXCEPT !.pc = "check", !.call = c]
\* "open": has the catalog's handle.  "verify": in VerifyInvariant.  "rebuild",
\* "fill": in rebuildAndRegister.  "walk", "verdict": the end of DetectDrift.
\* "sweep": the sweep of an accepted project.  "adopt", "adopted": in
\* RepairTrackedChanges.  "restore", "clean": in RestoreToLatest.
\* base: the tree the pass works from; left: the paths still to visit; bad: the
\* violations; stale: the handle it holds was closed; past: HEAD's history as it
\* read it.
ScanPC == {"off", "open", "verify", "rebuild", "fill", "walk", "verdict", "sweep",
           "adopt", "adopted", "restore", "clean"}
NoScan == [pc |-> "off", kind |-> "drift", base |-> EmptyTree, left |-> {}, bad |-> {},
           stale |-> FALSE, past |-> {}]

InCrit(t) == tk[t].pc = "crit"
Locked(p) == \E t \in Task : InCrit(t) /\ p \in Paths(tk[t].call)
Fault == faults + crashes < MaxFaults /\ faults' = faults + 1
GotoScan(a, l) == scan' = [scan EXCEPT ![a].pc = l]

Init ==
  /\ tree = EmptyTree /\ catalog = EmptyTree /\ registered = TRUE
  /\ wal = <<>> /\ head = EmptyTree /\ born = FALSE
  /\ state = "healthy" /\ lostfound = {}
  /\ tk = [t \in Task |-> Idle]
  /\ scan = [a \in Actor |-> NoScan]
  /\ torn = {} /\ acked = EmptyTree /\ recorded = {}
  /\ calls = 0 /\ faults = 0 /\ crashes = 0

----------------------------------------------------------------------------
(* The gate: checkWritable *)

Begin(t, c) ==
  /\ tk[t].pc = "idle" /\ calls < MaxCalls
  /\ tk' = [tk EXCEPT ![t] = Called(c)]
  /\ calls' = calls + 1
  /\ UNCHANGED <<diskVars, catVars, state, scan, ghostVars, faults, crashes>>

HasRoom == Len(wal) < MaxWALEntries

\* The project is healthy and the log is below its limit: on to the locks.
Admit(t) ==
  /\ tk[t].pc \in {"check", "recheck"}
  /\ state = "healthy" /\ HasRoom
  /\ tk' = [tk EXCEPT ![t].pc = "lock"]
  /\ UNCHANGED <<diskVars, catVars, state, scan, ghostVars, countVars>>

\* ErrProjectDangerous, ErrProjectCorrupted (only after a rescan) or
\* ErrWriteDisabled.
Refuse(t) ==
  /\ \/ tk[t].pc \in {"check", "recheck"} /\ state = "dangerous"
     \/ tk[t].pc = "recheck" /\ state = "corrupted"
     \/ tk[t].pc \in {"check", "recheck"} /\ state = "healthy" /\ ~HasRoom
  /\ tk' = [tk EXCEPT ![t] = Idle]
  /\ UNCHANGED <<diskVars, catVars, state, scan, ghostVars, countVars>>

\* A corrupted project is looked at again, without waiting for the log.
LazyRescan(t) ==
  /\ tk[t].pc = "check" /\ state = "corrupted" /\ registered
  /\ tk' = [tk EXCEPT ![t].pc = "rescan"]
  /\ GotoScan(t, "open")
  /\ UNCHANGED <<diskVars, catVars, state, ghostVars, countVars>>

----------------------------------------------------------------------------
(* Under the locks: writeTransformed, deleteFile, Move *)

\* Mutant of Free: no lock.
FreeM(t) == TRUE
Free(t) == \A p \in Paths(tk[t].call) : ~Locked(p)

Matches(m, f) == m = None \/ m = Etag(f)

\* The checks on the bytes read under the lock: if_match, requireExisting of an
\* edit, and a move's source and its refusal to overwrite without if_match.
Accepts(c, cur, src) ==
  CASE c.op \in {"write", "delete"} -> Matches(c.ifMatch, cur)
    [] c.op = "append"              -> cur # NoFile /\ Matches(c.ifMatch, cur)
    [] c.op = "move" -> /\ src # NoFile
                        /\ IF cur # NoFile THEN c.ifMatch = Etag(cur)
                                           ELSE Matches(c.ifMatch, src)
NewContent(c, cur, src) ==
  CASE c.op = "write"  -> c.content
    [] c.op = "append" -> Etag(cur) \cup c.content
    [] c.op = "move"   -> src
    [] c.op = "delete" -> NoFile

\* The locks are granted; the current bytes are read and checked.
Enter(t) ==
  /\ tk[t].pc = "lock" /\ Free(t)
  /\ LET c == tk[t].call  cur == tree[c.path]  src == tree[c.from] IN
       IF Accepts(c, cur, src)
       THEN tk' = [tk EXCEPT ![t].pc = "crit", ![t].todo = Plan(c.op),
                             ![t].cur = cur, ![t].new = NewContent(c, cur, src)]
       ELSE tk' = [tk EXCEPT ![t] = Idle]
  /\ UNCHANGED <<diskVars, catVars, state, scan, ghostVars, countVars>>

Does(t, s) ==
  /\ InCrit(t) /\ tk[t].todo # <<>> /\ Head(tk[t].todo) = s
  /\ tk' = [tk EXCEPT ![t].todo = Tail(@)]

Put(t) ==
  /\ Does(t, "put")
  /\ tree' = [tree EXCEPT ![tk[t].call.path] = tk[t].new]
  /\ UNCHANGED <<wal, head, born, lostfound, recorded, catVars, state, scan, ghostVars, countVars>>

Remove(t) ==
  /\ Does(t, "remove")
  /\ tree' = [tree EXCEPT ![Victim(tk[t].call)] = NoFile]
  /\ UNCHANGED <<wal, head, born, lostfound, recorded, catVars, state, scan, ghostVars, countVars>>

\* The wal.Entry of a call: an edit is logged as the write of its result.
Entry(t) ==
  LET c == tk[t].call IN
    [op |-> IF c.op = "append" THEN "write" ELSE c.op,
     path |-> c.path, from |-> c.from, content |-> tk[t].new]
Log(t) ==
  /\ Does(t, "log")
  /\ wal' = Append(wal, Entry(t))
  /\ UNCHANGED <<tree, head, born, lostfound, recorded, catVars, state, scan, ghostVars, countVars>>

\* catalogPut and catalogDelete are best effort: an update that finds the handle
\* closed, or fails, is dropped and the operation goes on.
CatalogStep(t, s, new) ==
  /\ Does(t, s)
  /\ \/ registered /\ catalog' = new /\ UNCHANGED faults
     \/ ~registered /\ UNCHANGED <<catalog, faults>>
     \/ s \in Failing /\ Fault /\ UNCHANGED catalog
  /\ UNCHANGED <<diskVars, registered, state, scan, ghostVars, calls, crashes>>
Own(t) == CatalogStep(t, "own", [catalog EXCEPT ![tk[t].call.path] = tk[t].new])
Disown(t) == CatalogStep(t, "disown", [catalog EXCEPT ![Victim(tk[t].call)] = NoFile])

\* The operation changed one of working tree and log and has still to change one; or
\* it has changed all it changes of them.
Touches == {"put", "remove", "log"}
ToTouch(t) == Elements(tk[t].todo) \cap Touches
Half(t) ==
  /\ InCrit(t)
  /\ ToTouch(t) # {} /\ (Elements(Plan(tk[t].call.op)) \ Elements(tk[t].todo)) \cap Touches # {}
HalfPaths(t) == IF Half(t) THEN Paths(tk[t].call) ELSE {}
Whole(t) == InCrit(t) /\ ToTouch(t) = {}
\* What a whole call leaves at path p.
Leaves(t, p) == IF p = tk[t].call.path THEN tk[t].new ELSE NoFile

\* Mutant of StepFails: the error of the append is dropped.
StepFailsM(t) ==
  /\ InCrit(t) /\ tk[t].todo # <<>> /\ Head(tk[t].todo) \in {"put", "remove", "log"} \cap Failing
  /\ Fault
  /\ IF Head(tk[t].todo) = "log"
     THEN tk' = [tk EXCEPT ![t].todo = Tail(@)] /\ UNCHANGED torn
     ELSE tk' = [tk EXCEPT ![t] = Idle] /\ torn' = torn \cup HalfPaths(t)
  /\ UNCHANGED <<diskVars, catVars, state, scan, acked, calls, crashes>>

\* A failing file operation or append ends the call with an error; what was done
\* before stays.
StepFails(t) ==
  /\ InCrit(t) /\ tk[t].todo # <<>> /\ Head(tk[t].todo) \in {"put", "remove", "log"} \cap Failing
  /\ Fault
  /\ tk' = [tk EXCEPT ![t] = Idle]
  /\ torn' = torn \cup HalfPaths(t)
  /\ UNCHANGED <<diskVars, catVars, state, scan, acked, calls, crashes>>

\* The call returns without an error: it is acknowledged.
Return(t) ==
  /\ InCrit(t) /\ tk[t].todo = <<>>
  /\ tk' = [tk EXCEPT ![t] = Idle]
  /\ acked' = Apply(acked, Entry(t))
  /\ torn' = torn \ {p \in Paths(tk[t].call) : tree[p] = acked'[p]}
  /\ UNCHANGED <<diskVars, catVars, state, scan, countVars>>

\* The worker pool commits the oldest entry.
CommitOldest ==
  /\ wal # <<>>
  /\ head' = Apply(head, Head(wal))
  /\ born' = (born \/ head' # head)
  /\ recorded' = recorded \cup Pairs(head')
  /\ wal' = Tail(wal)
  /\ UNCHANGED <<tree, lostfound, catVars, state, tk, scan, ghostVars, countVars>>

----------------------------------------------------------------------------
(* DetectDrift, by a task in checkWritable or by the scanner *)

\* A pass of the drift scan or the sweep waits for the log to drain, for two
\* minutes at most; ResyncToHead, RepairTrackedChanges and RestoreToLatest do not
\* wait.
BeginPass(k) ==
  /\ scan[Scanner].pc = "off" /\ registered
  /\ \/ (k \in {"drift", "sweep"} => wal = <<>>) /\ UNCHANGED faults
     \/ k \in {"drift", "sweep"} /\ wal # <<>> /\ "drain" \in Failing /\ Fault
  /\ k = "restore" => state # "dangerous" /\ born
  /\ scan' = [scan EXCEPT ![Scanner] =
               [NoScan EXCEPT !.kind = k,
                              !.pc = CASE k = "repair" -> IF born THEN "adopt" ELSE "rebuild"
                                       [] k = "restore" -> "restore"
                                       [] OTHER -> "open",
                              !.base = IF k = "restore" THEN head ELSE EmptyTree]]
  /\ UNCHANGED <<diskVars, catVars, state, tk, ghostVars, calls, crashes>>

\* DetectDrift returns to actor a.
Judged(a) ==
  /\ scan' = [scan EXCEPT ![a] = NoScan]
  /\ tk' = IF a \in Task THEN [tk EXCEPT ![a].pc = "recheck"] ELSE tk

\* VerifyInvariant on a handle that another rebuild has closed: the project is
\* marked dangerous.
HandleClosed(a) ==
  /\ scan[a].pc = "open" /\ scan[a].stale
  /\ state' = "dangerous"
  /\ Judged(a)
  /\ UNCHANGED <<diskVars, catVars, ghostVars, countVars>>

\* VerifyInvariant: one read transaction on the catalog, then file by file.
VerifyInvariant(a) ==
  /\ scan[a].pc = "open" /\ ~scan[a].stale
  /\ scan' = [scan EXCEPT ![a].pc = "verify", ![a].base = catalog,
                          ![a].left = {p \in Path : catalog[p] # NoFile}]
  /\ UNCHANGED <<diskVars, catVars, state, tk, ghostVars, countVars>>

VerifyFile(a, p) ==
  /\ scan[a].pc = "verify" /\ p \in scan[a].left
  /\ scan' = [scan EXCEPT ![a].left = @ \ {p},
                          ![a].bad = IF tree[p] = scan[a].base[p] THEN @ ELSE @ \cup {p}]
  /\ UNCHANGED <<diskVars, catVars, state, tk, ghostVars, countVars>>

\* Mutant of Clean: an external HEAD move is never recognised.
CleanM == FALSE
\* worktreeCleanVsHead: no tracked file is modified or deleted; untracked files
\* do not count, and without a HEAD nothing does.
Clean == ~born \/ \A p \in Path : head[p] # NoFile => tree[p] = head[p]

VerifyEnd(a) ==
  /\ scan[a].pc = "verify" /\ scan[a].left = {}
  /\ scan' = [scan EXCEPT ![a].base = EmptyTree,
                          ![a].pc = IF scan[a].bad # {} /\ Clean THEN "rebuild" ELSE "walk"]
  /\ UNCHANGED <<diskVars, catVars, state, tk, ghostVars, countVars>>

\* rebuildAndRegister: the handle is closed, which waits for read transactions,
\* and the file replaced by an empty catalog; every other run of DetectDrift is
\* left with the closed handle.
Rebuild(a) ==
  /\ scan[a].pc = "rebuild" /\ registered
  /\ \A b \in Actor : scan[b].pc # "verify"
  /\ registered' = FALSE /\ catalog' = EmptyTree
  /\ scan' = [b \in Actor |->
               IF b = a THEN [scan[a] EXCEPT !.pc = "fill", !.bad = {},
                                             !.left = {p \in Path : head[p] # NoFile}]
               ELSE [scan[b] EXCEPT !.stale = scan[b].pc # "off"]]
  /\ UNCHANGED <<diskVars, state, tk, ghostVars, countVars>>

\* rebuildCatalog: one entry per path of HEAD that the working tree has.
RebuildFile(a, p) ==
  /\ scan[a].pc = "fill" /\ p \in scan[a].left
  /\ catalog' = [catalog EXCEPT ![p] = tree[p]]
  /\ scan' = [scan EXCEPT ![a].left = @ \ {p},
                          ![a].bad = IF tree[p] = NoFile THEN @ \cup {p} ELSE @]
  /\ UNCHANGED <<diskVars, registered, state, tk, ghostVars, countVars>>

\* A path HEAD has and the tree lacks marks the project corrupted, until the
\* verdict; a recovery ends healthy whatever it found.
Register(a) ==
  /\ scan[a].pc = "fill" /\ scan[a].left = {}
  /\ registered' = TRUE
  /\ IF scan[a].kind \in {"repair", "restore"}
     THEN state' = "healthy" /\ scan' = [scan EXCEPT ![a] = NoScan]
     ELSE /\ state' = IF scan[a].bad # {} THEN "corrupted" ELSE state
          /\ scan' = [scan EXCEPT ![a].pc = "walk", ![a].bad = {}, ![a].stale = FALSE]
  /\ UNCHANGED <<diskVars, catalog, tk, ghostVars, countVars>>

\* workingTreeContentHashes: the files of the working tree.
Walk(a) ==
  /\ scan[a].pc = "walk"
  /\ scan' = [scan EXCEPT ![a].pc = "verdict", ![a].left = {p \in Path : tree[p] # NoFile}]
  /\ UNCHANGED <<diskVars, catVars, state, tk, ghostVars, countVars>>

\* The files of the walk that the catalog does not list are Added; a closed handle
\* answers for none.  The sweep goes on with them on a healthy project only.
Verdict(a) ==
  /\ scan[a].pc = "verdict"
  /\ state' = IF scan[a].bad = {} THEN "healthy" ELSE "corrupted"
  /\ IF scan[a].kind = "sweep" /\ scan[a].bad = {}
     THEN /\ scan' = [scan EXCEPT ![a].pc = "sweep",
                                  ![a].left = IF scan[a].stale THEN {}
                                              ELSE {p \in @ : catalog[p] = NoFile}]
          /\ UNCHANGED tk
     ELSE Judged(a)
  /\ UNCHANGED <<diskVars, catVars, ghostVars, countVars>>

----------------------------------------------------------------------------
(* sweepProject *)

\* Mutant of SweepFile: the file is deleted where it should be moved.
SweepFileM(p) ==
  /\ scan[Scanner].pc = "sweep" /\ p \in scan[Scanner].left
  /\ scan' = [scan EXCEPT ![Scanner].left = @ \ {p}]
  /\ tree' = [tree EXCEPT ![p] = NoFile]
  /\ UNCHANGED <<wal, head, born, lostfound, recorded, catVars, state, tk, ghostVars, countVars>>

\* One of the Added files is deleted or moved to lost+found, if it is still there.
SweepFile(p) ==
  /\ scan[Scanner].pc = "sweep" /\ p \in scan[Scanner].left
  /\ scan' = [scan EXCEPT ![Scanner].left = @ \ {p}]
  /\ tree' = [tree EXCEPT ![p] = NoFile]
  /\ lostfound' = IF tree[p] = NoFile \/ p \in Disposable THEN lostfound
                  ELSE lostfound \cup {<<p, tree[p]>>}
  /\ UNCHANGED <<wal, head, born, recorded, catVars, state, tk, ghostVars, countVars>>

SweepEnd ==
  /\ scan[Scanner].pc = "sweep" /\ scan[Scanner].left = {}
  /\ scan' = [scan EXCEPT ![Scanner] = NoScan]
  /\ UNCHANGED <<diskVars, catVars, state, tk, ghostVars, countVars>>

----------------------------------------------------------------------------
(* Recovery: RepairTrackedChanges and RestoreToLatest *)

\* HEAD is read and the tracked files that were modified or deleted are adopted
\* into its tree; with none there is nothing to commit.
Adopt ==
  /\ scan[Scanner].pc = "adopt"
  /\ LET adopted == [p \in Path |-> IF head[p] # NoFile THEN tree[p] ELSE NoFile] IN
       scan' = [scan EXCEPT ![Scanner].base = adopted, ![Scanner].past = recorded,
                            ![Scanner].pc = IF adopted = head THEN "rebuild" ELSE "adopted"]
  /\ UNCHANGED <<diskVars, catVars, state, tk, ghostVars, countVars>>

\* The recovery commit has the HEAD that was read as its parent and becomes HEAD,
\* whatever HEAD has become in between.
AdoptCommit ==
  /\ scan[Scanner].pc = "adopted"
  /\ head' = scan[Scanner].base
  /\ recorded' = scan[Scanner].past \cup Pairs(head')
  /\ GotoScan(Scanner, "rebuild")
  /\ UNCHANGED <<tree, wal, born, lostfound, catVars, state, tk, ghostVars, countVars>>

\* The tracked files are written back, the index becomes HEAD and what it does not
\* list is removed.
RestoreTree ==
  /\ scan[Scanner].pc = "restore"
  /\ tree' = [p \in Path |-> IF scan[Scanner].base[p] # NoFile THEN scan[Scanner].base[p]
                             ELSE tree[p]]
  /\ torn' = torn \cup {p \in Path : tree'[p] # tree[p]}
  /\ GotoScan(Scanner, "clean")
  /\ UNCHANGED <<wal, head, born, lostfound, recorded, catVars, state, tk, acked, countVars>>

RestoreClean ==
  /\ scan[Scanner].pc = "clean"
  /\ tree' = [p \in Path |-> IF scan[Scanner].base[p] # NoFile THEN tree[p] ELSE NoFile]
  /\ torn' = torn \cup {p \in Path : tree'[p] # tree[p]}
  /\ GotoScan(Scanner, "rebuild")
  /\ UNCHANGED <<wal, head, born, lostfound, recorded, catVars, state, tk, acked, countVars>>

----------------------------------------------------------------------------
(* Crash and restart; changes from outside *)

\* StartupInit is a gate before the listeners: the log is drained, the catalog
\* opened as the crash left it, and the project judged.
Restart ==
  /\ crashes < MaxCrashes /\ faults + crashes < MaxFaults /\ crashes' = crashes + 1
  /\ tk' = [t \in Task |-> Idle]
  /\ scan' = [a \in Actor |-> NoScan]
  /\ torn' = torn \cup UNION {HalfPaths(t) : t \in Task}
  /\ acked' = [p \in Path |->
                IF \E t \in Task : Whole(t) /\ p \in Paths(tk[t].call)
                THEN Leaves(CHOOSE t \in Task : Whole(t) /\ p \in Paths(tk[t].call), p)
                ELSE acked[p]]
  /\ wal' = <<>> /\ head' = Drained
  /\ born' = (born \/ \E i \in DOMAIN wal : wal[i].op # "delete")
  /\ recorded' = recorded \cup Pairs(head) \cup Logged
  /\ registered' = TRUE
  /\ LET drifted == \E p \in Path : catalog[p] # NoFile /\ tree[p] # catalog[p]
         clean == ~born' \/ \A p \in Path : head'[p] # NoFile => tree[p] = head'[p]
     IN  /\ catalog' = IF drifted /\ clean
                       THEN [p \in Path |-> IF head'[p] # NoFile THEN tree[p] ELSE NoFile]
                       ELSE catalog
         /\ state' = IF drifted /\ ~clean THEN "corrupted" ELSE "healthy"
  /\ UNCHANGED <<tree, lostfound, calls, faults>>

\* A file is edited, created or deleted behind the store's back.
OutsideEdit(p, f) ==
  /\ "edit" \in Outside /\ Fault
  /\ tree[p] # f
  /\ tree' = [tree EXCEPT ![p] = f]
  /\ torn' = torn \cup {p}
  /\ UNCHANGED <<wal, head, born, lostfound, recorded, catVars, state, tk, scan, acked,
                 calls, crashes>>

\* ... and committed: a host's git commit, reset or revert of a file that is clean
\* and has no write under way.
OutsideCommit(p, f) ==
  /\ "commit" \in Outside /\ Fault
  /\ ~Locked(p) /\ \A i \in DOMAIN wal : p \notin {wal[i].path, wal[i].from}
  /\ tree[p] = head[p] /\ tree[p] # f
  /\ tree' = [tree EXCEPT ![p] = f] /\ head' = [head EXCEPT ![p] = f]
  /\ born' = TRUE
  /\ recorded' = recorded \cup Pairs(head')
  /\ UNCHANGED <<wal, lostfound, catVars, state, tk, scan, ghostVars, calls, crashes>>

----------------------------------------------------------------------------
\* A step of the call in progress that does not fail.
TaskStep(t) ==
  \/ Admit(t) \/ Refuse(t) \/ LazyRescan(t) \/ Enter(t)
  \/ Put(t) \/ Remove(t) \/ Log(t) \/ Own(t) \/ Disown(t) \/ Return(t)

DetectDrift(a) ==
  \/ HandleClosed(a) \/ VerifyInvariant(a) \/ (\E p \in Path : VerifyFile(a, p)) \/ VerifyEnd(a)
  \/ Rebuild(a) \/ (\E p \in Path : RebuildFile(a, p)) \/ Register(a) \/ Walk(a) \/ Verdict(a)

Pass ==
  \/ (\E p \in Path : SweepFile(p)) \/ SweepEnd
  \/ Adopt \/ AdoptCommit \/ RestoreTree \/ RestoreClean

Next ==
  \/ \E t \in Task : (\E c \in Call : Begin(t, c)) \/ TaskStep(t) \/ StepFails(t)
  \/ \E a \in Actor : DetectDrift(a)
  \/ \E k \in Scans : BeginPass(k)
  \/ Pass
  \/ CommitOldest
  \/ Restart
  \/ \E p \in Path, f \in File : OutsideEdit(p, f) \/ OutsideCommit(p, f)

Spec == Init /\ [][Next]_vars

\* Goroutines are scheduled, workers retry, and the drift ticker keeps firing.
Fairness ==
  /\ \A t \in Task : WF_vars(TaskStep(t))
  /\ \A a \in Actor : WF_vars(DetectDrift(a))
  /\ WF_vars(Pass) /\ WF_vars(CommitOldest) /\ WF_vars(BeginPass("drift"))
FairSpec == Spec /\ Fairness
----------------------------------------------------------------------------
(* Properties *)

\* The type invariant of the variables above: what writeTransformed, deleteFile,
\* Move, DetectDrift, the sweep and the recovery calls keep in them.  checkWritable reads
\* the number of pending entries before the lock is taken, so the log's limit is overrun
\* by calls already past it: by one each, and no more.
TypeOK ==
  /\ tree \in Tree /\ catalog \in Tree /\ head \in Tree /\ acked \in Tree
  /\ registered \in BOOLEAN /\ born \in BOOLEAN
  /\ wal \in Seq([op : {"write", "delete", "move"}, path : Path, from : Path, content : File])
  /\ state \in {"healthy", "corrupted", "dangerous"}
  /\ lostfound \subseteq Path \X Content /\ recorded \subseteq Path \X Content
  /\ torn \subseteq Path
  /\ \A t \in Task :
       /\ tk[t].pc \in TaskPC /\ tk[t].call \in Call \cup {NoCall}
       /\ tk[t].todo \in Seq(Step) /\ tk[t].cur \in File /\ tk[t].new \in File
  /\ \A a \in Actor :
       /\ scan[a].pc \in ScanPC /\ scan[a].kind \in PassKind
       /\ scan[a].base \in Tree /\ scan[a].left \subseteq Path /\ scan[a].bad \subseteq Path
       /\ scan[a].stale \in BOOLEAN /\ scan[a].past \subseteq Path \X Content
  /\ calls \in 0..MaxCalls /\ faults \in 0..MaxFaults /\ crashes \in 0..MaxCrashes
  /\ Len(wal) <= MaxWALEntries - 1 + Cardinality(Task)

\* The write path keeps working tree and log in step: a path nobody is working on
\* holds what HEAD will hold once the log has drained, unless a failure or a crash
\* cut an operation on it in half.  The working tree and the log are changed by two
\* steps of writeTransformed, deleteFile and Move, under the per-file lock.
LogMatchesTree == \A p \in Path : Locked(p) \/ p \in torn \/ tree[p] = Drained[p]

\* "Catalog membership must imply working-tree presence" (ReadFileWithETag): the
\* catalog lists no path that the working tree lacks, in the middle of a call, after
\* a failed step and after a crash.  The source of a Move is the exception, since
\* Move, unlike deleteFile, removes the file before it disowns it.
CatalogOwnsTree ==
  \A p \in Path : catalog[p] # NoFile =>
    \/ tree[p] # NoFile \/ p \in torn
    \/ \E t \in Task : InCrit(t) /\ tk[t].call.op = "move" /\ tk[t].call.from = p

\* Optimistic concurrency of writeTransformed: the bytes a call replaces are the
\* ones its if_match named, and an edit replaces the file by its current bytes and
\* the new ones, however many callers race for the path.
NoLostUpdate ==
  [][\A t \in Task : LET c == tk[t].call IN
       Put(t) =>
         /\ c.op \in {"write", "append"} => Matches(c.ifMatch, tree[c.path])
         /\ c.op = "append" => Etag(tree[c.path]) \cup c.content = tree'[c.path]]_vars

\* "A crash mid-operation never leaves the content unreachable from both paths"
\* (Move): at every step of a move one of its two paths holds the content.
MoveKeepsContent ==
  \A t \in Task : InCrit(t) /\ tk[t].call.op = "move" =>
    tk[t].new \in {tree[tk[t].call.path], tree[tk[t].call.from]}

\* Working tree, log, catalog and the two ends of a move stay in step, whoever races or
\* fails (writeTransformed, deleteFile, Move).
TreeAgrees == LogMatchesTree /\ CatalogOwnsTree /\ MoveKeepsContent

\* What a call acknowledged is in HEAD's history or on its way there, whatever
\* failed, crashed, was swept or restored since.
AckedRecoverable == Pairs(acked) \subseteq recorded \cup Logged

\* The sweep and the recovery calls take no lock: a sweep may take a file that was
\* just written, a rebuild may drop it from the catalog and RepairTrackedChanges may
\* replace the commit that holds it.  Even so, what a call acknowledged is still in
\* the history, in the log, in the working tree or in lost+found, unless it was a
\* RestoreToLatest that discarded it.
NothingVanishes ==
  \A p \in Path : acked[p] # NoFile /\ ~Locked(p) /\ p \notin torn =>
    <<p, acked[p]>> \in recorded \cup Logged \cup Pairs(tree) \cup lostfound

\* A project whose HEAD is moved from outside over a clean tree is healthy again, for
\* good, with a catalog that agrees with the files it lists: the drift scan's re-sync
\* (DetectDrift) ends every spell in which writers are refused.
SelfHeals ==
  <>[](state = "healthy" /\ wal = <<>> /\ \A p \in Path :
         tree[p] = head[p] /\ catalog[p] \in {NoFile, tree[p]})
=============================================================================
