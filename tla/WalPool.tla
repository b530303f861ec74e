------------------------------ MODULE WalPool ------------------------------
(***************************************************************************)
(* The write-ahead log (internal/storage/wal) and the commit worker pool   *)
(* (internal/storage/walworker) that drains it into git through            *)
(* storage.commitEntry and storage.quarantineEntry.                        *)
(*                                                                         *)
(* One dispatcher goroutine scans the pending entries and hands them to    *)
(* worker goroutines, at most one entry per project at a time.  A worker   *)
(* reads the entry back from disk, commits its content on top of HEAD and  *)
(* removes the file; an entry that cannot be committed is deposited in     *)
(* lost+found first.  The process may crash between any two steps and      *)
(* starts again from the files on disk.                                    *)
(*                                                                         *)
(* An acknowledged entry is identified by its index in acked, the ghost    *)
(* sequence of every entry Append accepted; seq numbers are reused after a *)
(* restart, indices never are.                                             *)
(***************************************************************************)
EXTENDS Naturals, Sequences, FiniteSets

CONSTANTS
  Project,            \* project keys (namespace/project)
  Path,               \* file paths of a project
  Content,            \* file contents
  NoFile,             \* a path that is not in a tree
  Request,            \* the entries the write path may append
  Worker,             \* worker slots: Cardinality(Worker) is cfg.MaxWorkers
  MinWorkers,         \* cfg.MinWorkers
  MaxCommitAttempts,  \* cfg.MaxCommitAttempts
  QuarantineMayFail,  \* whether Log.quarantine's rename can fail
  HeadMayBeUnreadable, \* whether reading HEAD or its commit can fail
  MaxEntries,         \* bound: entries ever appended
  MaxFaults,          \* bound: failing I/O operations and vanishing repositories
  MaxBadReads,        \* bound: log files found unreadable
  MaxCrashes          \* bound: crashes and restarts

Op == {"write", "delete", "move"}
Entry == [proj : Project, op : Op, path : Path, from : Path, content : Content]

ASSUME WalPoolAssumption ==
  /\ Request \subseteq Entry
  /\ IsFiniteSet(Worker) /\ Worker # {}
  /\ MinWorkers \in 1..Cardinality(Worker)
  /\ MaxCommitAttempts \in Nat \ {0}
  /\ QuarantineMayFail \in BOOLEAN /\ HeadMayBeUnreadable \in BOOLEAN
  /\ MaxEntries \in Nat /\ MaxFaults \in Nat
  /\ MaxBadReads \in Nat /\ MaxCrashes \in Nat
  /\ NoFile \notin Content

VARIABLES
  acked,      \* ghost: every entry Append accepted, in order
  disk,       \* files of the wal directory
  pending,    \* Log.pending: the entries the running process knows of
  nextSeq,    \* Log.nextSeq
  corrupted,  \* files of the wal-corrupted directory
  repo,       \* projects whose git repository exists
  head,       \* project -> tree of HEAD
  hist,       \* ghost: project -> indices recorded in HEAD's history, oldest first
  dangerous,  \* projects commitEntry marked StateDangerous
  lostfound,  \* indices deposited in lost+found
  dpc,        \* dispatcher: "select", "loop", "handoff" or "stopped"
  heads,      \* entries of its snapshot that dispatch has still to look at
  inFlight,   \* Pool.inFlight
  wk,         \* worker slot -> its state
  stop,       \* stopCtx is cancelled
  faults, badReads, crashes

logVars == <<disk, pending, nextSeq, corrupted>>
gitVars == <<repo, head, hist, dangerous>>
dspVars == <<dpc, heads, inFlight>>
vars == <<acked, logVars, gitVars, lostfound, dspVars, wk, stop, faults, badReads, crashes>>

Tree == [Path -> Content \cup {NoFile}]
EmptyTree == [x \in Path |-> NoFile]

\* "off": no goroutine in the slot.  "starting": spawned, or back from process,
\* and not yet in the worker's select.  "idle": in the select.  The rest is the
\* program counter of process; "orphan" is "commit" with no parent commit.
WorkerState == {"off", "starting", "idle", "read", "open", "commit", "orphan", "remove",
                "failed", "deposited", "backoff", "done"}
Busy == WorkerState \ {"off", "starting", "idle"}

\* A log file, or an entry of Log.pending: its seq and the entry it carries.
File == [seq : Nat, idx : Nat]
NoEntry == [seq |-> 0, idx |-> 0]
Fresh(st, f) == [st |-> st, ent |-> f, base |-> EmptyTree, tries |-> 0, perm |-> FALSE]
Off == Fresh("off", NoEntry)
Starting == Fresh("starting", NoEntry)

Seqs(F) == {f.seq : f \in F}
WithoutSeq(F, s) == {f \in F : f.seq # s}
\* Mutant of Oldest: newest first.
OldestM(F) == CHOOSE f \in F : \A g \in F : g.seq <= f.seq
Oldest(F) == CHOOSE f \in F : \A g \in F : f.seq <= g.seq
Greatest(S) == CHOOSE s \in S : \A t \in S : t <= s
\* The next seq wal.Open derives from the readable files F.
NextSeq(F) == IF F = {} THEN 1 ELSE Greatest(Seqs(F)) + 1
Elements(s) == {s[i] : i \in DOMAIN s}

\* The project key of a log file, and of the entry a worker processes.
ProjOf(f) == acked[f.idx].proj
KeyOf(w) == ProjOf(wk[w].ent)
ActiveWorkers == Cardinality({w \in Worker : wk[w].st # "off"})

\* The tree commitEntry builds: applyToTree for a write or a delete,
\* buildMoveTree for a move.
Apply(t, e) ==
  CASE e.op = "write"  -> [t EXCEPT ![e.path] = e.content]
    [] e.op = "delete" -> [t EXCEPT ![e.path] = NoFile]
    [] e.op = "move"   -> [[t EXCEPT ![e.from] = NoFile] EXCEPT ![e.path] = e.content]

Fault == faults < MaxFaults /\ faults' = faults + 1

Init ==
  /\ acked = <<>>
  /\ disk = {} /\ pending = {} /\ nextSeq = 1 /\ corrupted = {}
  /\ repo = Project
  /\ head = [p \in Project |-> EmptyTree]
  /\ hist = [p \in Project |-> <<>>]
  /\ dangerous = {} /\ lostfound = {}
  /\ dpc = "select" /\ heads = {} /\ inFlight = {}
  /\ \E core \in SUBSET Worker :
       /\ Cardinality(core) = MinWorkers
       /\ wk = [w \in Worker |-> IF w \in core THEN Starting ELSE Off]
  /\ stop = FALSE /\ faults = 0 /\ badReads = 0 /\ crashes = 0

----------------------------------------------------------------------------
(* The log *)

\* Log.Append as the write path calls it.  A failed append
\* leaves the log as it was and is not an entry.
Append_(e) ==
  /\ Len(acked) < MaxEntries
  /\ acked' = Append(acked, e)
  /\ LET f == [seq |-> nextSeq, idx |-> Len(acked) + 1] IN
       /\ disk' = WithoutSeq(disk, nextSeq) \cup {f}
       /\ pending' = pending \cup {f}
  /\ nextSeq' = nextSeq + 1
  /\ UNCHANGED <<corrupted, gitVars, lostfound, dpc, heads, inFlight, wk, stop,
                 faults, badReads, crashes>>

\* Log.quarantine of the files in F: they are renamed into wal-corrupted under
\* their own names, replacing what is there, or they stay where they are when
\* the rename fails.
Quarantine(F) ==
  \/ /\ disk' = disk \ F
     /\ corrupted' = {c \in corrupted : c.seq \notin Seqs(F)} \cup F
  \/ /\ QuarantineMayFail /\ F # {}
     /\ UNCHANGED <<disk, corrupted>>

\* Log.Remove: deletes the file, then forgets the entry.  The error of a file
\* that cannot be deleted is ignored by the caller and the entry stays pending.
Remove(f) ==
  \/ disk' = disk \ {f} /\ pending' = pending \ {f} /\ UNCHANGED faults
  \/ UNCHANGED <<disk, pending>> /\ Fault

----------------------------------------------------------------------------
(* The dispatcher *)

\* dispatch: ListPending takes a snapshot, sorted by seq.
Snapshot == dpc' = "loop" /\ heads' = pending

\* A wake-up, by Pool.Notify's coalesced signal or by the scan ticker, which
\* is always due again (so the signal only hastens what the ticker allows).
Wake ==
  /\ dpc = "select"
  /\ Snapshot
  /\ UNCHANGED <<acked, logVars, gitVars, lostfound, inFlight, wk, stop, faults, badReads, crashes>>

\* Mutant of Unmark: the mark stays.
UnmarkM(p) == UNCHANGED inFlight
Unmark(p) == inFlight' = inFlight \ {p}

\* The dispatcher receives a finished worker's project key from doneCh.
Done(w) ==
  /\ dpc = "select"
  /\ wk[w].st = "done"
  /\ Unmark(KeyOf(w))
  /\ Snapshot
  /\ wk' = [wk EXCEPT ![w] = Starting]
  /\ UNCHANGED <<acked, logVars, gitVars, lostfound, stop, faults, badReads, crashes>>

\* Worker w receives f from workCh.
Assign(w, f) == wk' = [wk EXCEPT ![w] = Fresh("read", f)]

\* One iteration of dispatch over a head whose project is in flight.
Skip ==
  /\ dpc = "loop" /\ heads # {}
  /\ ProjOf(Oldest(heads)) \in inFlight
  /\ heads' = heads \ {Oldest(heads)}
  /\ UNCHANGED <<acked, logVars, gitVars, lostfound, dpc, inFlight, wk, stop,
                 faults, badReads, crashes>>

\* Mutant of Eligible: no in-flight check.
EligibleM == dpc = "loop" /\ heads # {}
\* The next head of the snapshot belongs to a project that is not in flight.
Eligible == dpc = "loop" /\ heads # {} /\ ProjOf(Oldest(heads)) \notin inFlight

\* markInFlight, and tryAssign's non-blocking send finds a worker in its select.
HandOff(w) ==
  /\ Eligible
  /\ wk[w].st = "idle"
  /\ inFlight' = inFlight \cup {ProjOf(Oldest(heads))}
  /\ Assign(w, Oldest(heads))
  /\ heads' = heads \ {Oldest(heads)}
  /\ UNCHANGED <<acked, logVars, gitVars, lostfound, dpc, stop, faults, badReads, crashes>>

\* No worker is receiving: spawn one if the pool may grow and block on the
\* send, or give up until the next wake-up.
Spawn(w) ==
  /\ Eligible
  /\ \A v \in Worker : wk[v].st # "idle"
  /\ wk[w].st = "off"
  /\ wk' = [wk EXCEPT ![w] = Starting]
  /\ inFlight' = inFlight \cup {ProjOf(Oldest(heads))}
  /\ dpc' = "handoff"
  /\ UNCHANGED <<acked, logVars, gitVars, lostfound, heads, stop, faults, badReads, crashes>>

Saturated ==
  /\ Eligible
  /\ \A v \in Worker : wk[v].st \notin {"idle", "off"}
  /\ dpc' = "select" /\ heads' = {}
  /\ UNCHANGED <<acked, logVars, gitVars, lostfound, inFlight, wk, stop,
                 faults, badReads, crashes>>

\* The blocking send after a spawn: any worker in its select takes the entry.
BlockedHandOff(w) ==
  /\ dpc = "handoff"
  /\ wk[w].st = "idle"
  /\ Assign(w, Oldest(heads))
  /\ heads' = heads \ {Oldest(heads)}
  /\ dpc' = "loop"
  /\ UNCHANGED <<acked, logVars, gitVars, lostfound, inFlight, stop, faults, badReads, crashes>>

EndDispatch ==
  /\ dpc = "loop" /\ heads = {}
  /\ dpc' = "select"
  /\ UNCHANGED <<acked, logVars, gitVars, lostfound, heads, inFlight, wk, stop,
                 faults, badReads, crashes>>

\* stopCtx is cancelled: the select returns; a blocked send releases its mark.
DispatcherStops ==
  /\ stop /\ dpc \in {"select", "handoff"}
  /\ dpc' = "stopped" /\ heads' = {}
  /\ inFlight' = IF dpc = "handoff" THEN inFlight \ {ProjOf(Oldest(heads))} ELSE inFlight
  /\ UNCHANGED <<acked, logVars, gitVars, lostfound, wk, stop, faults, badReads, crashes>>

----------------------------------------------------------------------------
(* The workers *)

Goto(w, st) == wk' = [wk EXCEPT ![w].st = st]

WorkerReady(w) ==
  /\ wk[w].st = "starting"
  /\ Goto(w, "idle")
  /\ UNCHANGED <<acked, logVars, gitVars, lostfound, dspVars, stop, faults, badReads, crashes>>

\* The idle timer fires above MinWorkers and the worker retires (below, it
\* only arms a new timer).  The timer (30 s) does not fire while the dispatcher
\* is blocked sending, which a worker in its select answers at once.
Retire(w) ==
  /\ wk[w].st = "idle" /\ dpc # "handoff"
  /\ ActiveWorkers > MinWorkers
  /\ wk' = [wk EXCEPT ![w] = Off]
  /\ UNCHANGED <<acked, logVars, gitVars, lostfound, dspVars, stop, faults, badReads, crashes>>

\* process: Log.ReadByID succeeds.
ReadEntry(w) ==
  /\ wk[w].st = "read"
  /\ Goto(w, "open")
  /\ UNCHANGED <<acked, logVars, gitVars, lostfound, dspVars, stop, faults, badReads, crashes>>

\* ReadByID fails: the file is quarantined and the seq is no longer pending.
ReadFails(w) ==
  /\ wk[w].st = "read"
  /\ Quarantine({wk[w].ent})
  /\ pending' = pending \ {wk[w].ent}
  /\ Goto(w, "done")
  /\ badReads < MaxBadReads /\ badReads' = badReads + 1
  /\ UNCHANGED <<acked, nextSeq, gitVars, lostfound, dspVars, stop, faults, crashes>>

\* commitEntry opens the repository and resolves HEAD, its base tree.
OpenRepo(w) ==
  /\ wk[w].st = "open" /\ ~stop
  /\ KeyOf(w) \in repo
  /\ wk' = [wk EXCEPT ![w].st = "commit", ![w].base = head[KeyOf(w)]]
  /\ UNCHANGED <<acked, logVars, gitVars, lostfound, dspVars, stop, faults, badReads, crashes>>

\* HEAD, or the commit it names, cannot be read: commitEntry goes on from an
\* empty base tree, in the first case without a parent, as in a new repository.
HeadUnreadable(w, st) ==
  /\ wk[w].st = "open" /\ ~stop
  /\ KeyOf(w) \in repo /\ HeadMayBeUnreadable
  /\ st \in {"commit", "orphan"}
  /\ wk' = [wk EXCEPT ![w].st = st, ![w].base = EmptyTree]
  /\ Fault
  /\ UNCHANGED <<acked, logVars, gitVars, lostfound, dspVars, stop, badReads, crashes>>

\* The repository is gone: ErrCommitPermanent, and the project is dangerous.
RepoAbsent(w) ==
  /\ wk[w].st = "open" /\ ~stop
  /\ KeyOf(w) \notin repo
  /\ wk' = [wk EXCEPT ![w].st = "failed", ![w].tries = @ + 1, ![w].perm = TRUE]
  /\ dangerous' = dangerous \cup {KeyOf(w)}
  /\ UNCHANGED <<acked, logVars, repo, head, hist, lostfound, dspVars, stop, faults, badReads, crashes>>

\* Any other failure of commitEntry, before HEAD moved.  A repository that
\* exists and cannot be opened also marks the project dangerous.
CommitFails(w) ==
  /\ \/ wk[w].st = "open" /\ ~stop /\ KeyOf(w) \in repo
     \/ wk[w].st \in {"commit", "orphan"}
  /\ wk' = [wk EXCEPT ![w].st = "failed", ![w].tries = @ + 1,
                         ![w].base = EmptyTree]
  /\ dangerous' = IF wk[w].st = "open" THEN dangerous \cup {KeyOf(w)} ELSE dangerous
  /\ IF KeyOf(w) \in repo THEN Fault ELSE UNCHANGED faults
  /\ UNCHANGED <<acked, logVars, repo, head, hist, lostfound, dspVars, stop, badReads, crashes>>

\* commitEntry builds the new tree from the entry and its base and advances
\* HEAD; a tree equal to the base records nothing.  hist notes an entry every
\* time it moves HEAD and the first time it finds its effect in HEAD, and loses
\* what a commit without a parent cuts off.
Commit(w) ==
  /\ wk[w].st \in {"commit", "orphan"}
  /\ KeyOf(w) \in repo
  /\ LET p == KeyOf(w)
         i == wk[w].ent.idx
         new == Apply(wk[w].base, acked[i])
     IN  IF new = wk[w].base
         THEN /\ hist' = IF i \in Elements(hist[p]) \/ new # head[p] THEN hist
                         ELSE [hist EXCEPT ![p] = Append(@, i)]
              /\ UNCHANGED head
         ELSE /\ hist' = IF wk[w].st = "orphan" THEN [hist EXCEPT ![p] = <<i>>]
                         ELSE [hist EXCEPT ![p] = Append(@, i)]
              /\ head' = [head EXCEPT ![p] = new]
  /\ wk' = [wk EXCEPT ![w].st = "remove", ![w].base = EmptyTree]
  /\ UNCHANGED <<acked, logVars, repo, dangerous, lostfound, dspVars, stop, faults, badReads, crashes>>

\* Log.Remove after the commit, or after the deposit.
RemoveEntry(w) ==
  /\ wk[w].st \in {"remove", "deposited"}
  /\ Remove(wk[w].ent)
  /\ Goto(w, "done")
  /\ UNCHANGED <<acked, nextSeq, corrupted, gitVars, lostfound, dspVars, stop, badReads, crashes>>

\* Mutant of GivesUp: one attempt too many.
GivesUpM(w) == wk[w].perm \/ wk[w].tries > MaxCommitAttempts
\* A permanent failure, or the backstop cap is reached.
GivesUp(w) == wk[w].perm \/ wk[w].tries >= MaxCommitAttempts

\* runQuarantine deposits the entry's content in lost+found.
Deposit(w) ==
  /\ wk[w].st = "failed" /\ GivesUp(w)
  /\ lostfound' = lostfound \cup {wk[w].ent.idx}
  /\ Goto(w, "deposited")
  /\ UNCHANGED <<acked, logVars, gitVars, dspVars, stop, faults, badReads, crashes>>

\* Mutant of DepositFails: the entry is removed all the same.
DepositFailsM(w) ==
  /\ wk[w].st = "failed" /\ GivesUp(w)
  /\ Goto(w, "deposited")
  /\ Fault
  /\ UNCHANGED <<acked, logVars, gitVars, lostfound, dspVars, stop, badReads, crashes>>

\* The deposit fails: the entry stays in the log and process returns after the
\* backoff.
DepositFails(w) ==
  /\ wk[w].st = "failed" /\ GivesUp(w)
  /\ Goto(w, "backoff")
  /\ Fault
  /\ UNCHANGED <<acked, logVars, gitVars, lostfound, dspVars, stop, badReads, crashes>>

Backoff(w) ==
  /\ wk[w].st = "backoff"
  /\ Goto(w, "done")
  /\ UNCHANGED <<acked, logVars, gitVars, lostfound, dspVars, stop, faults, badReads, crashes>>

\* The backoff of the retry loop.
Retry(w) ==
  /\ wk[w].st = "failed" /\ ~GivesUp(w) /\ ~stop
  /\ Goto(w, "open")
  /\ UNCHANGED <<acked, logVars, gitVars, lostfound, dspVars, stop, faults, badReads, crashes>>

\* Mutant of StopPoint: process insists on sending on doneCh.
StopPointM == {"starting", "idle", "open", "backoff"}
StopPoint == {"starting", "idle", "open", "backoff", "done"}

\* stopCtx is cancelled: idle workers leave, process returns at the top of its
\* loop, in its backoff and instead of sending on doneCh.
WorkerStops(w) ==
  /\ stop
  /\ \/ wk[w].st \in StopPoint
     \/ wk[w].st = "failed" /\ ~GivesUp(w)
  /\ wk' = [wk EXCEPT ![w] = Off]
  /\ UNCHANGED <<acked, logVars, gitVars, lostfound, dspVars, stop, faults, badReads, crashes>>

----------------------------------------------------------------------------
(* The process and its environment *)

\* Pool.Shutdown cancels stopCtx.
Shutdown ==
  /\ ~stop /\ stop' = TRUE
  /\ UNCHANGED <<acked, logVars, gitVars, lostfound, dspVars, wk, faults, badReads, crashes>>

\* The process dies (a crash, or the exit after Shutdown) and starts again:
\* wal.Open scans the directory, quarantines the files in bad and takes
\* nextSeq from the others; NewPool starts over with MinWorkers workers.
Restart(bad) ==
  /\ crashes < MaxCrashes /\ crashes' = crashes + 1
  /\ badReads' = badReads + Cardinality(bad) /\ badReads' \in 0..MaxBadReads
  /\ Quarantine(bad)
  /\ pending' = disk \ bad
  /\ nextSeq' = NextSeq(pending')
  /\ dpc' = "select" /\ heads' = {} /\ inFlight' = {}
  /\ \E core \in SUBSET Worker :
       /\ Cardinality(core) = MinWorkers
       /\ wk' = [w \in Worker |-> IF w \in core THEN Starting ELSE Off]
  /\ stop' = FALSE
  /\ UNCHANGED <<acked, gitVars, lostfound, faults>>

\* Another operation takes the repository away (DeleteProject, MoveProject or
\* RenameProject, none of which drains the log first).
RepoGone(p) ==
  /\ p \in repo
  /\ Fault
  /\ repo' = repo \ {p}
  /\ UNCHANGED <<acked, logVars, head, hist, dangerous, lostfound, dspVars, wk, stop, badReads, crashes>>

Dispatcher ==
  \/ Wake \/ Skip \/ Saturated \/ EndDispatch \/ DispatcherStops
  \/ \E w \in Worker : Done(w) \/ HandOff(w) \/ Spawn(w) \/ BlockedHandOff(w)

Process(w) ==
  \/ ReadEntry(w) \/ ReadFails(w)
  \/ OpenRepo(w) \/ HeadUnreadable(w, "commit") \/ HeadUnreadable(w, "orphan")
  \/ RepoAbsent(w) \/ CommitFails(w) \/ Commit(w)
  \/ RemoveEntry(w) \/ Deposit(w) \/ DepositFails(w) \/ Backoff(w) \/ Retry(w)

WorkerStep(w) == WorkerReady(w) \/ Retire(w) \/ Process(w) \/ WorkerStops(w)

Next ==
  \/ \E e \in Request : Append_(e)
  \/ Dispatcher
  \/ \E w \in Worker : WorkerStep(w)
  \/ Shutdown
  \/ \E bad \in SUBSET disk : Restart(bad)
  \/ \E p \in Project : RepoGone(p)

Spec == Init /\ [][Next]_vars

\* The goroutines keep running; a select that has several cases ready infinitely
\* often takes each of them infinitely often (Go chooses at random), which is
\* what the completions and the cancellation of the dispatcher's select need.
Fairness ==
  /\ WF_vars(Wake \/ Skip \/ Saturated \/ EndDispatch
             \/ \E w \in Worker : HandOff(w) \/ Spawn(w) \/ BlockedHandOff(w))
  /\ SF_vars(DispatcherStops)
  /\ \A w \in Worker :
       /\ SF_vars(Done(w))
       /\ WF_vars(WorkerReady(w) \/ Process(w))
       /\ WF_vars(WorkerStops(w))

FairSpec == Spec /\ Fairness

----------------------------------------------------------------------------
(* Properties *)

WorkerRecord == [st : WorkerState, ent : File, base : Tree,
                 tries : 0..MaxCommitAttempts, perm : BOOLEAN]

LogType ==
  /\ acked \in Seq(Entry)
  /\ disk \subseteq File /\ pending \subseteq File /\ corrupted \subseteq File
  /\ nextSeq \in Nat \ {0}
GitType ==
  /\ repo \subseteq Project /\ dangerous \subseteq Project
  /\ head \in [Project -> Tree] /\ hist \in [Project -> Seq(Nat)]
  /\ lostfound \subseteq Nat
PoolType ==
  /\ dpc \in {"select", "loop", "handoff", "stopped"}
  /\ heads \subseteq File /\ inFlight \subseteq Project
  /\ wk \in [Worker -> WorkerRecord] /\ stop \in BOOLEAN
BoundType ==
  faults \in 0..MaxFaults /\ badReads \in 0..MaxBadReads /\ crashes \in 0..MaxCrashes

\* Types of the log's, the repositories' and the pool's state; among them, a
\* worker never tries an entry more often than MaxCommitAttempts.
TypeOK == LogType /\ GitType /\ PoolType /\ BoundType

\* Pool.inFlight is kept by the dispatcher alone, from a snapshot that may be
\* stale: still no two workers ever process entries of the same project.
OneWorkerPerProject ==
  \A v, w \in Worker :
    v # w /\ wk[v].st \in Busy /\ wk[w].st \in Busy => KeyOf(v) # KeyOf(w)

\* "The dispatcher preserves per-project commit order" (walworker.go): the
\* entries recorded in a project's history are in the order in which the write
\* path acknowledged them, and none moves HEAD twice, whatever crashes between
\* commit and Remove make the pool replay.
CommitOrder ==
  \A p \in Project : \A i, j \in DOMAIN hist[p] :
    /\ acked[hist[p][i]].proj = p
    /\ i < j => hist[p][i] < hist[p][j]

\* The tree obtained by applying the recorded entries one after the other.
Replay(h) ==
  LET tree[n \in 0..Len(h)] ==
        IF n = 0 THEN EmptyTree ELSE Apply(tree[n - 1], acked[h[n]])
  IN  tree[Len(h)]

\* commitEntry builds on a HEAD it read earlier: no commit is lost between the
\* read and the ref update, so HEAD holds exactly the recorded entries' effect.
HeadIsReplay == \A p \in Project : head[p] = Replay(hist[p])

\* An acknowledged entry is never dropped: until it is in git it is a file of
\* the log, a deposit in lost+found or a file of wal-corrupted, whichever of
\* commit, deposit, Remove and restart fails or is interrupted.
NoEntryLost ==
  \A i \in DOMAIN acked :
    \/ \E f \in disk \cup corrupted : f.idx = i
    \/ i \in lostfound
    \/ i \in Elements(hist[acked[i].proj])

\* Liveness: every acknowledged entry leaves the log, committed or preserved,
\* unless the pool is shut down ("process() never loops forever").
Drains ==
  \A i \in 1..MaxEntries : i \in DOMAIN acked ~> stop \/ \A f \in disk : f.idx # i

\* Liveness: after Shutdown every goroutine of the pool ends, or the process is
\* started again.
ShutdownCompletes ==
  stop ~> ~stop \/ (dpc = "stopped" /\ \A w \in Worker : wk[w].st = "off")

(***************************************************************************)
(* The pool implements CommitLog.  An entry is kept once it is in          *)
(* lost+found or was moved to wal-corrupted.                               *)
(***************************************************************************)
Promise == INSTANCE CommitLog
  WITH log <- acked, history <- hist,
       kept <- lostfound \cup {f.idx : f \in corrupted}

\* Refinement: whatever crashes, retries, failed removals and quarantines do, the
\* log and its pool settle every entry as CommitLog says.
ImplementsCommitLog == Promise!CLSpec
=============================================================================
