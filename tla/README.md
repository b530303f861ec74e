# A TLA+ model of Shoka

Shoka keeps Markdown projects for agents and people. A write is acknowledged as
soon as it is in the project's working tree and in a write-ahead log (WAL); a
pool of workers commits it to the project's git repository later. Catalogs,
drift detection, a lost+found sweep and recovery operations watch over the
project in the background; an index, a vector store and a log of deleted files are
derived from it; agents reach it through MCP tools under OAuth, people through a
web socket under accounts of their own. What can go wrong lies between these parts, and this
directory models them: TLA+ modules, the TLC configurations that check them on
small instances, and proofs checked by TLAPS for all instances. `PROJECT.json` lists the
components, runs, mutants, findings, hazards and theorems and maps every
definition to the lines it models.

Paths below are relative to `src/internal/storage/` unless they start with `src/`.

## 1. Inventory

| Component | State | Operations | Hard because | Correct if |
|---|---|---|---|---|
| WAL, `wal/wal.go` | files of `wal/` and `wal-corrupted/`, `pending`, `nextSeq` | Append, ListPending, ReadByID, Remove, Open/scan | crash between any two file operations; unreadable files; sequence numbers start again from what is on disk | an acknowledged entry is never dropped |
| worker pool, `walworker/walworker.go` | `inFlight`, workers, `stopCtx` | dispatch, tryAssign, worker, process, runQuarantine, Shutdown | stale snapshots, spawning and retiring, retries, permanent failure, shutdown | one worker per project; commit order; the log drains; Shutdown ends |
| commit path, `commit.go`, `refwrite.go` | HEAD, git objects, index | commitEntry, applyToTree, buildMoveTree, advanceHead, quarantineEntry | replay after a crash; repository or HEAD missing | HEAD is the composition of the recorded entries |
| file locks, `filelock/filelock.go` | striped mutexes, lease records | WithLock(s), WithDirLock, ReleaseAllForSession, reaper | stripe collisions, cancellation while waiting, nested locks | exclusion, no wait cycle, nothing leaks |
| write path, `fs_git.go`, `move.go`, `partialedit.go` | working tree | write, append, patch, delete, move, checkWritable | five steps over tree, log and catalog; a failure or crash between any two | no lost update; acknowledged means logged; a move keeps its content |
| catalog, `catalog/`, `catalog_store.go` | path → etag, one open handle per project | put, delete, VerifyInvariant, rebuild | best effort; the handle is closed under its readers | it lists no file that is not there |
| drift detection, `drift.go`, `state.go` | project state | DetectDrift, drift ticker, lazy rescan by writers | takes no lock | a sound project does not stay refused |
| lost+found sweep, `lostfound*.go`, `disposable.go` | `lost+found` | sweepProject, depositTree | acts on an old list | no acknowledged file disappears |
| recovery, `recovery.go` | — | ResyncToHead, RepairTrackedChanges, RestoreToLatest | races workers and writers | acknowledged content survives, except where it was to be discarded |
| startup, `startup.go` | — | StartupInit | partial states left by a crash | the project is judged before it is served |
| deleted-file log, `deletedlog*` | path → deletion commit, in a file of its own | commit hook, ListDeleted, repair walk, ReviveFile, cap, clean-up | the walk races the hook; one open handle per file; history rewritten from outside | a record can be revived; hook and walk agree |
| project lifecycle, `projectmove.go`, `projectrename.go`, `projectlifecycle.go`, `nshealth.go`, `nsregistry/` | directories, sibling databases, registry, journal, fence | create, delete, move, rename, recoverInterruptedOp, health repairs | crash between steps; leases checked before the fence | a restart completes or undoes; acknowledged bytes stay in their project |
| authorization, `src/pkg/authz/`, `src/internal/scopeclean/` | scopes of users, invitations, tokens | Authorize, the gates, prune and rewrite of grants | two stores rewritten one after the other; the empty scope is super-user | a grant follows its project and nothing else |
| link index and fix-links, `index*.go`, `fixlinks.go`, `linkrewrite.go` | records and marker, queue of kicks | indexPut/Delete, sweep, search, fixLinks | best effort, stale by design | a healthy index is current; links follow a move |
| vector index, `vector*.go` | embeddings, bounded queue, configuration | enqueue, worker, sweep, reload | full queue, external service, model swapped meanwhile | vectors settle; one model per store |
| OAuth, `src/pkg/oauth/`, `src/pkg/oauthstore/`, `src/pkg/uiws/core_oauth.go` | codes, token series with two index buckets, registrations, clients | authorize, exchange, refresh, revoke, the administrator's requests, cleaner, migration, seeding | several transactions per request; restarts between migrations | a code works once; what is revoked stays revoked |
| users and sessions, `src/pkg/userstore/`, `src/pkg/authapi/`, `src/pkg/uiws/` | accounts, sessions, invitations, ceremonies, principals of open connections | register, login, redeem, account and administration requests | check and write in different transactions; sliding sessions | admitted once; cut off for good |
| clients, `src/internal/tools/`, `src/internal/ui/manager.go`, `src/internal/notify/` | connections, subscriptions, channels | file tools and socket messages, copy, subscribe, fan-out, reaper | publishers, unsubscribers and the reaper share subscriptions | nothing missed, nothing sent to the closed; a copy replaces nothing |
| snapshots, `snapshot*.go` | archives | create, fan out, prune | mostly copying | pruning keeps the newest |

The remaining parts (librarian, webhooks, drafts and ingest, history queries,
configuration, logging, metrics, command line, browser front end) carry no state
that other parts build on, or wrap external services. `PROJECT.json` lists them
with the reason each is left out.

How they interact:

    caller -> checkWritable -> file locks -> working tree, WAL, catalog -> acknowledged
                                                     |
                               dispatcher -> worker -> commitEntry -> HEAD
                                                     '-> lost+found (cannot be committed)
    drift ticker, sweep, operator -> DetectDrift / recovery, without any lock,
                                     on the same tree, catalog, HEAD and state
    MCP tools, web socket -> gate (scope of a token, or of a session's user) -> caller
    acknowledged -> event -> connections and subscriptions of the others
    acknowledged -> index record, embedding queue, kick of the link fixer
    commitEntry  -> deleted-file log
    move, rename, delete of projects -> directories, databases, registry, grants

## 2. Modules and what they correspond to

    CommitLog <- refined by - WalPool <- WalPoolProofs     FileLock <- FileLockProofs
    FileStore <- extended by - Sessions <- StoreProofs     (both modules' proofs)
    Authz     <- extended by - Projects <- ProjectsProofs
    DeletedLog <- DeletedLogProofs     Derived <- DerivedProofs
    OAuth <- OAuthProofs               Accounts <- AccountsProofs
    Maps: partial functions, for Accounts, DeletedLog, OAuth and Projects

FileStore uses the log as CommitLog promises it and the locks as FileLock guarantees them.
StoreProofs has two parts: the write path's proofs, for FileStore, and the clients', for
Sessions, which rest on the lemmas of the first.

Each `MC...` module holds the definitions its `.cfg` files give to the constants.

### WalPool: the log and its worker pool

Several projects, one log, one process. The state is what is on disk (`disk`,
`corrupted`, `repo`, `head`, `lostfound`) and what the process remembers
(`pending`, `nextSeq`, the dispatcher's program counter, its snapshot `heads`,
`inFlight`, one record per worker slot). Actions follow the goroutines: the
dispatcher's select and loop (`Wake`, `Done`, `Skip`, `HandOff`, `Spawn`,
`BlockedHandOff`, `Saturated`, `EndDispatch`), a worker (`WorkerReady`,
`Retire`), and `process` (`ReadEntry`, `OpenRepo`, `Commit`, `RemoveEntry`,
`Deposit`, `Retry` and the failure of each). `Restart` is a crash at any point
followed by `wal.Open` and `NewPool`. An entry is identified by its index in the
ghost `acked`, because sequence numbers are reused.

Data left out: entry format and size, nested directories of trees, commit
messages. Retrying in `process` is a loop over `open`; backoff is a step, not a time.

### CommitLog: what the log promises

Acknowledge, record, keep aside. An entry is recorded at most once and only after
everything acknowledged before it for the same project is settled. `WalPool`
implements it under `log <- acked, history <- hist, kept <- lostfound and
wal-corrupted` (`ImplementsCommitLog`).

### FileLock

Mutexes are numbers: file stripes first, directory stripes above. `lockCtx` is
kept step by step, because of its helper goroutine: `TryLock`, `Block`,
`WaiterGets`, `Acquired`, `CancelledAtOnce`, `Abandon`, `OrphanGets`,
`OrphanReleases`. What the storage layer locks is a constant `Call` (paths, then
the directories locked one after the other inside). Leases are records beside the
mutexes: `RecordLeases`, `DropLeases`, `ReapOnce`, `ReleaseAllForSession`. A
session is given to tasks by `SessionOf`; the age of a lease is abstracted, so
`ReapOnce` may take any records.

### FileStore

One project: the working tree, the catalog, HEAD, the log as a queue, the state, and
`lostfound`. A content is a set of fragments (a write replaces it, an edit adds
to it), an etag is the content itself, and an absent file has the etag of an empty
one, as in `sha256Hex(nil)`.

A call goes through `checkWritable` (`Begin`, `Admit`, `Refuse`, `LazyRescan`),
the locks and checks on the current bytes (`Enter`), and the steps of `Plan`, one
action each, in the order of the code: write is tree, log, catalog; delete is
catalog, log, tree; move is target, source, catalog, log. A step may fail
(`StepFails`), and a crash (`Restart`) may come between any two.

`DetectDrift` is run by the scanner or by a writer in its lazy rescan: verify the
catalog file by file, rebuild it from HEAD if it is stale over a clean tree,
walk the tree, judge. The sweep and the recovery operations continue from there.
None takes a lock, so all interleave with the write path.

Simplifications of FileStore:

- the locks are exclusion per path, which `LocksExclude` justifies, and the pool is
  `CommitOldest`, which `ImplementsCommitLog` justifies; an entry that cannot be
  committed, and is set aside instead, is left to WalPool;
- a pass begins only while the catalog is registered, and rebuilds do not overlap;
  an update of the catalog during a rebuild is lost, as it is when bbolt's file lock
  times out after a second. This excludes a pass that opens a catalog file in the
  middle of another's rebuild;
- start-up is one step: the log drains completely and the project is judged before
  any caller is served, as the gate in `StartupInit` does. `WaitForWAL` may give up there
  (`startup.go:123`) and leave entries to the pool; that start is left out;
- `Rebuild` succeeds or is cut by a crash: an error of `rebuildAndRegister`
  (`drift.go:109-112`, `startup.go:357-364`) is left out;
- `RestoreTree` is one step, where the code writes and removes file by file
  (`recovery.go:275-315`);
- git's index is identified with HEAD's tree; a repository that is missing or has an
  unreadable HEAD belongs to WalPool;
- `OutsideCommit` changes one file that has no write under way or pending; an edit
  from outside may hit any file at any time;
- reads, directories and their reaping, link and vector index updates, the fence of
  project moves and context cancellation (FileLock has it) are left out.

### Sessions

The clients over FileStore. A task of FileStore runs the handler of a request: the file
tools (`WriteFileHandler` to `CopyFileHandler`) and the socket's messages
(`handleSaveFile`, `handleDeleteFile`, `handleMoveFile`) become calls of the write path;
`ReadSource` and `CheckAbsent` are what copy_file and a dropped file look at before.
`StoreStep` is any step of such a call, and the one that succeeds publishes; `FanOut`
and `Deliver` are the center's loop, one subscriber at a time, under its read lock.
`Subscribe`, `AddPattern`, `Unsubscribe`, `TearDown` and the three steps of the reaper
are the steps of `SubscriptionManager` between its mutexes. A web connection serves one
request at a time, an MCP session any number. All of FileStore's write path and its
faults take part, so the write path's properties are checked under the real callers.

### DeletedLog

History with its trailers, the queue of acknowledged operations, the log as files with
inodes (`files`, `file`) and the registered handle (`reg`): bbolt locks a file, so opening
one that another handle holds fails, and a removed file lives on under its handle.
`commitEntry` and `deletedLogApply` are separate steps, as are the walk
(`walkDeletedNetState`, a pure operator over the window), `removeDeletedLogFile`, `Create`,
`ReplaceAll` and `registerDeletedLog` of a rebuild. `Rewrite` is a push from outside.

### Projects, with Authz

Authz has the scope language: `parseGrant`, `Authorize`, the tables of levels
of tools and messages, the gates, and what deleting, moving and renaming do to a scope.
Projects has requests, each a sequence of system calls and bbolt transactions: check, lock and
fence (`Lock`, `Mark`), `Rename` of the directory, `Siblings`, `Registry`, the two stores
of grants one after the other (`RewriteScopes`), `Clear`; deletion and creation
likewise; the journal, `recoverInterruptedOp`, `reconcileManagedRegistry` and the repairs of the
health page. A writer passes `Check`, takes its `Lease` and `Write`s, with any of the former in
between. Projects have identities, directories are names: the properties are about the
identity a name stands for.

The journal is written and cleared at best effort (`Journal`), as `setOpJournal` and
`clearOpJournal` only log an error. A registry transaction may be refused or fail; then the
operation ends past its pivot, half done, and its entry waits in the journal for the next start,
unless another operation overwrites it. A rollback removes the target's catalog and index and not
its deleted-file log (`projectmove.go:321`): with the databases as one unit, it removes all or
none (`BackSibs`, `stay`). Three ghosts say what the properties do not speak about:

- `raced`: two requests worked on one name, a crash or a failing store cut a creation or deletion
  in two or found no entry in the journal, or the registry's transaction failed after the pivot;
- `unfinished`: a special operation stopped after its pivot, so its grants are the finding of
  section 4;
- `revoked`: the projects and namespaces whose grants a deletion took away, for good.

`AccessFollowsProject` says two things of every project directory and scope: a level the scope gives
is one that was given for this project or its namespace at first (`AccessFollows`), and what was
given is still given there, under whatever name, unless it was revoked (`AccessKept`).

### Derived

Writers as in FileStore, with each of their updates a step, in the order of the code: `WriteTree`,
`RemoveFile`, `IndexDelete`, `IndexPut`, `VectorDelete`, `VectorEnqueue`, `AppendLog`, `Kick`. An
update of index or vectors may fail, and is lost; the locks are held until the kick. One goroutine
sweeps the index and fixes links (`ReconcileIndex`, `WalkFile`, `ReplaceAll`, `TakeKick`,
`ReadReferrer`, `WriteReferrer`, the last through the write path with if_match), another embeds
(`TakeItem`, `ReadKeys`, `PickFile`, `Embed`, `Store`). A document is a body and one link.
`Deployments` names what is configured, the sweep, or the vector index with its librarian, and
with each the requests its callers make and what a restart may find of the index file.

The vector file is there and opens, is gone, or is refused by `Open` (`vx.file`). A crash in
the middle of `vectorindex.Create` leaves any of the three (`HalfMade`), and nothing in the code leads
out of the last: see section 4.

Simplifications of Derived: the sweep of the vectors reads all files in one step
(`workingTreeFiles`); an `Open` that fails for a moment there, such as bbolt's timeout, is left out, and
the writers' failing `os.Remove` is left to FileStore. `TakeKick` settles what is owed of a referrer
that a healthy index has wrong (section 4).

### OAuth

A bbolt transaction is a step; a handler is several, between which any other handler, an
administrator, the cleaner or a stop of the process may come. `/authorize` to
`PutCode`; `/token` is `TakeCode`, `ReadScope`, `Issue` or `grantRefreshToken`, `Rotate`, where the
reads that `ReadScope` and `grantRefreshToken` make in several View transactions (`server.go:636-666`,
`server.go:700-724`) are one step; the
administrator's requests read an entry, change it, revoke and store. A start runs `Open` with
`Rehash`, `BootSweep` and `Seed`, and may stop between any two.

### Accounts

The same grain: `handleRegister` and `CreateFirstAdmin`, `handleLogin` and `CreateSession`,
`LookupSession` and `TouchSession` of a middleware request, invitations, passkey ceremonies
in memory, and the account and administration requests of an open connection, which keeps
the principal it was opened with. `handleAccountSetPassword` leaves out the comparison with the
current password (`account.go:208`), so the model allows more than the code.

## 3. The runs

Every run ends well within five minutes on two cores; the largest have about two
million states.

| Run | Instance | Shows |
|---|---|---|
| `wal_faults` | 2 projects, 2 paths, 2 workers, 2 entries, 2 faults, 1 unreadable file, 1 crash | `OneWorkerPerProject`, `NoEntryLost`, `CommitOrder`, `HeadIsReplay` (HEAD is the composition of the recorded entries), and that WalPool implements CommitLog |
| `wal_live` | 2 entries, 1 fault, shutdown at any time, HEAD unreadable for a moment | `Drains`, `ShutdownCompletes` |
| `lock` | 2 sessions, 2 paths on 2 stripes, a directory, 1 orphan per mutex | `Exclusion`, `WaitsUpward`, `LeasesHeld`, and under fairness `CallsReturn` |
| `sessions` | an MCP session and a web connection, 2 paths, 3 requests, buffer 1, 2 slots, a failing step or a crash, log limit 1 | `TreeAgrees` (tree, log and catalog agree outside calls, and a move keeps its content), `AckedRecoverable`, `NoLostUpdate`, `CopyReplacesNothing`, `NothingMissed`, `SubscriptionsHold` |
| `store_passes` | sweep, resync, repair and restore against 2 writers of 2 paths and a deletion; 1 outside edit, failed catalog update or append, drain timeout, or crash | `NothingVanishes` |
| `store_heal` | 2 writers, drift scan, a commit from outside | `SelfHeals` |
| `oauth` | 2 token requests, 2 administrators, a domain with a subdomain, each kind of client, a store from before hashing, 4 events | `TokensResolve`, `CodeOnce`, `NoResurrection`, `DeletedStaysDeleted` |
| `accounts` | 2 users, 2 requests, 2 connections, lifetimes of 1, 4 events | `AdmitOnce`, `CutsAreFinal` |
| `deleted` | 2 paths, 2 contents, 2 callers, cap 1, window 3, 5 commits, 1 fault | `LogSound` (types, cap, every record names a commit that removed the path), `LogAgreesWithWalk` |
| `project` | 3 namespaces, 2 names, 2 requests, a writer, 2 faults | `ProjectsSound` (health report clean, databases with their projects), `AccessFollowsProject` (no access but what was given, and what was given is kept), `AckedInProject` |
| `derived` | 3 files, one linking to another, 2 of: a move, the move back (with the index only), an edit, a deletion; 1 fault, kick buffer 1, queue 1 | `AnswersCurrent`, `LinksFollow`, `NeverClobbers`, `IndexHeals`, `VectorsSettle` |
| `project_grants` | as `project` | violation of `AccessFollowsRecovery`, see findings |

The type invariants bound what the code bounds: in `sessions` the log overruns its limit
by at most one entry per caller in flight, no event is sent on a closed
channel and no subscriber outlives its connection; in `derived` the two channels stay within
their buffers (`DerivedTypeOK`); in `oauth` the two index buckets name exactly the tokens of the series.

Why the bounds are enough. Order and exclusion are about pairs of entries of one
project and pairs of workers: two of each show a wrong pair, and the second project shows
that projects do not disturb each other. One crash is enough for each replay, since a
restart keeps nothing but the files. In FileLock, two stripes give both a
collision and an order; the theorems remove the bounds (and cover the move whose
two paths share a stripe). In FileStore the two paths
are what a move needs, and three calls let a write, an edit and a move follow one
another with one failing half way. The runs with background passes
have simpler calls, because each pass multiplies the states; a crash may cut any of them,
the rebuild of a catalog included. In the other modules every race is
between two actors and one event from outside, or between an actor and a restart: two
requests, two administrators or two connections, with one more event to set the stage.
`deleted` needs five commits for a file deleted, revived and deleted again with one commit
outside the window of three; `derived`
needs a move followed by the move back, an edit or a deletion. There the index and the vectors are
checked in deployments of their own, since neither reads the other; only the index has a file
that a restart finds damaged or gone, while that of the vectors comes from the crash itself. The
moves back are asked of the index only, because vectors know nothing of links.

Symmetry is used for actors that are not distinguished, in runs
without liveness only. `CHECK_DEADLOCK FALSE` is set where the bounds end all
activity: no calls left, or the pool shut down.

Every property has a mutant in `PROJECT.json`, a plausible mistake in one definition
(`…M` beside the original) under which TLC finds it violated.

### Fairness

- WalPool: weak fairness of the dispatcher's and workers' steps: goroutines run, and
  I/O and backoff end. Strong fairness of receiving a completion and of
  noticing the stop, because the select chooses at random among what is ready.
- FileLock: weak fairness of callers (the function under the lock terminates); strong
  fairness of getting a mutex, because Go's mutex goes to a waiter that has
  starved for a millisecond.
- FileStore: weak fairness of calls, scans and commits, and of beginning a drift scan,
  which has a ticker.
- Derived: weak fairness of writers, of commits and of the two goroutines; strong fairness
  of each branch of their selects (ticker, kick, item), because Go chooses at random
  among what is ready.

Failures, crashes, cancellations and outside changes are never fair.

## 4. Findings

`project_grants`: an interrupted move or rename is completed by `StartupInit`
(`src/cmd/shoka/main.go:204`), which is to rewrite the grants again
(`projectmove.go:138-143`). But main gives the storage its scope cleaner at line 668, after
the start; the recovery finds none, rewrites nothing and clears the journal. Users and tokens
keep grants on the old name, and lose access or get it to the next project of that name.

What follows has no run of its own; the first five come out of the runs' configurations
with the constant given.

- `ReadByID` (`wal/wal.go:287`) forgets an unreadable entry even if the rename into
  `wal-corrupted` fails. The file stays; a restart finds it, and if it can be read then, it is
  committed after entries acknowledged later (`wal_faults` with `QuarantineMayFail = TRUE`
  violates `CommitOrder`).
- `Log.quarantine` (`wal/wal.go:335-345`) names a file of `wal-corrupted` after its sequence
  number, which a restart gives out again: a second unreadable file may take the name of the
  first and replace it (`wal_faults` with `MaxBadReads = 2` violates `NoEntryLost`).
- `commitEntry` (`commit.go:63`) ignores the error of `r.Head()`. A HEAD that cannot be read
  for a moment is replaced by a root commit with one file (`wal_faults` with
  `HeadMayBeUnreadable = TRUE` violates `NoEntryLost`).
- `RepairTrackedChanges` (`recovery.go:178`) moves the ref without comparing it with the HEAD
  it built on; a worker's commit in between leaves the branch, and its log entry is already
  gone (`store_passes` with `Scans = {"repair"}` violates `AckedRecoverable`).
- `catalogDelete` (`catalog_store.go:143`) only logs a failure: the catalog then lists a file
  that is gone, against `fs_git.go:803` ("catalog membership must imply working-tree
  presence"), until a drift scan rebuilds it (`sessions` with `Failing = {"disown"}` violates `TreeAgrees`).
- `DetectDrift` (`drift.go:104`) compares the catalog it read with files written since. It takes
  the difference for a stale catalog and rebuilds it from HEAD, which lacks the files
  whose commit is pending. `store_passes` shows the extent of this one and the one before:
  the content is still in the working tree or in lost+found, unless an operator's restore
  discards it.
- An index sweep's `ReplaceAll` may overwrite a record that is newer than its walk while the marker
  equals HEAD, until the entry in the log is committed: "never false-healthy"
  (`index_store.go`) holds only for a drained log, as `AnswersCurrent` says. After
  a failed `indexPut`, or a failed append or a crash after the file was changed (`drifted`), it does
  not hold at all. In all these cases fix-links may miss a referrer, though `fixlinks.go:12-13` and
  `fixlinks.go:86-91` call a missed one safe, because an index that is behind is not asked: `LinksFollow`
  promises no repair of a referrer that a healthy index has wrong.
- A crash in `vectorindex.Create` between `bolt.Open` (`vectorindex.go:118`) and its first
  transaction leaves a file without buckets. `Open` refuses it from then on: `vectorForRead`
  (`vector_store.go:90-93`) takes any error for no store, `vectorFor` (`vector_store.go:109-126`) creates
  one only where there is none, and the sweep (`vector_worker.go:127-141`) removes a file only after
  opening it. The same holds for a file damaged otherwise or of another schema. The project has no
  vectors any more until somebody deletes the file, against `vectorindex.go:9-11` ("disposable and
  rebuilt when missing, corrupt, or when the model/dimensions change") and
  `vector_store.go:142-143` ("Used by the sweep to discard a stale/corrupt store"). `VectorsSettle`
  therefore has `vx.file # "bad"` among its conditions; without it TLC finds the property violated
  in `derived`.
- A dropped embedding is found by the sweep only if the file has no vector yet: of an overwritten
  file the old vector stays (`fs_git.go:760` says that the sweep catches it). The same holds for
  a queue lost in a crash and for writes while no model is configured; `vecResolvedDims` is never
  reset, so a model of another length never settles; and the worker started by a reload of the
  configuration runs under the request's context of 30 seconds and is not started again. These
  are the exceptions of `VectorsSettle`.
- The walk reads a move over an existing file as the deletion of its source
  (`deletedlog_repair.go:162`); the hook does not, against `deletedlog_repair.go:22-23` ("so the hook
  and the walk agree by construction"). What the hook records beside a rebuild is lost as well. Both
  are exceptions of `LogAgreesWithWalk`.
- An error of the registry's transaction after the pivot (`projectmove.go:157-159`) leaves a move half
  done until the next start. The journal that is to complete it then has one entry, which the next
  operation overwrites, and an error in writing it is only logged (`projectmove.go:200-216`). `raced`
  excludes both from the properties of Projects.
- Two publishers may fan out in either order, so a subscriber may get two events of
  one path out of the order of their numbers (`src/internal/notify/center.go:178` says that
  events arrive in publish order).
- A pattern added while the session's last one is removed is acknowledged on a
  subscription that is being torn down; a session that subscribes between the reaper's listing
  and its lock is taken for dead. These are the exceptions of `SubscriptionsHold`.
- A dropped file is checked for absence and then written without a condition
  (`src/internal/ui/manager.go:1407`), where copy_file asks the store; and the etag of an absent file
  is that of an empty one, so a copy may replace an empty file.
- A login that has passed the check for a disabled account creates its session after
  the account is disabled; `PutUser` from an account request undoes an administrator's change
  made since the record was read; an open connection keeps the principal it was opened with.
- `moveMu` serialises moves and renames once they have it, but `RenameNamespace`
  (`projectrename.go:187-210`) looks whether the new name is free before it takes the mutex. Two
  renames to one new name both pass. If the first renamed a namespace without projects, the
  second's `os.Rename` replaces the empty directory; the registry then refuses, as both names are
  managed, and the second namespace stays under its old name in the registry and under the new
  one on disk, against `fs_git.go:224` ("no move-vs-move interleaving can occur"). A
  proof attempt brought this out; TLC finds it with four namespaces, and `Clash`, which sets
  the ghost `raced`, excludes it from the three properties of Projects.
- A change of a domain's scope revokes first and stores the scope after: tokens issued in
  between keep the old scope. A code exchange uses the confidential entry it read before it
  took the code.

## 5. Proofs

Checked by TLAPS for all values of the constants that satisfy the assumptions of the modules
(`WalPoolAssumption`, `FileLockAssumption`, `FileStoreAssumption`, `SessionsAssumption`,
`HandlersAssumption`, `OAuthAssumption`, `AccountsAssumption`, `DerivedAssumption`,
`ProjectsAssumption`, `DeletedLogAssumption`): sets of projects, paths, callers, sessions,
requests, connections and stripes of any size, any bounds on calls, failures, crashes and the
clock. The assumptions give constants their types and say no more of the code than it does: a
move has two different paths, an etag names a content, a socket has no `append` message, a
handler makes the calls it can make, a written file has content.

| Theorem | Under | States |
|---|---|---|
| `WalPoolProofs!TypeCorrect` | | `[]TypeOK` |
| `WalPoolProofs!OneWorker` | | `[]OneWorkerPerProject` |
| `WalPoolProofs!CommitOrderHolds` | Q | `[]CommitOrder` |
| `WalPoolProofs!NothingDropped` | Q, C | `[]NoEntryLost` |
| `WalPoolProofs!CorruptedFilesKept` | `MaxBadReads <= 1` | C |
| `WalPoolProofs!PoolImplementsCommitLog` | Q, C | `ImplementsCommitLog` |
| `WalPoolProofs!HeadHoldsReplay` | Q | `[]HeadIsReplay` |
| `FileLockProofs!LockTypes` | | `[]TypeOK` |
| `FileLockProofs!LocksExclude` | | `[]Exclusion` |
| `FileLockProofs!NoWaitCycle` | | `[]WaitsUpward` |
| `FileLockProofs!LeasesAreHeld` | | `[]LeasesHeld` |
| `FileLockProofs!NothingLeaks` | | `[]NoLeak` |
| `StoreProofs!FileStoreTypeCorrect` | | `[]TypeOK` |
| `StoreProofs!AckedStaysRecorded` | no repair | `[]AckedRecoverable` |
| `StoreProofs!AcknowledgedNeverVanishes` | no repair, or nothing disposable and no commit from outside | `[]NothingVanishes` |
| `StoreProofs!TreeFollowsLog` | no sweep, no repair | `[]LogMatchesTree` |
| `StoreProofs!ClientsTypeCorrect` | | `[]ClientsTypeOK` |
| `StoreProofs!ClientsStayRecorded` | | `[]AckedRecoverable` |
| `StoreProofs!ClientsKeepTreeInStep` | removals from the catalog succeed | `[]TreeAgrees` |
| `StoreProofs!NoUpdateLost` | | `NoLostUpdate` |
| `StoreProofs!CopiesReplaceNothing` | | `CopyReplacesNothing` |
| `StoreProofs!ToldIsSubscribed` | | `[]SubscriptionsHold` |
| `StoreProofs!NobodyIsMissed` | | `[]NothingMissed` |
| `OAuthProofs!StoreTypeCorrect` | | `[]TypeOK` |
| `OAuthProofs!TokensResolveAlways` | | `[]TokensResolve` |
| `OAuthProofs!CodeRedeemedOnce` | | `[]CodeOnce` |
| `OAuthProofs!SeriesStayDead` | | `NoResurrection` |
| `OAuthProofs!EntriesStayDeleted` | | `DeletedStaysDeleted` |
| `AccountsProofs!AccountsTypeCorrect` | | `[]TypeOK` |
| `AccountsProofs!AdmittedOnce` | | `[]AdmitOnce` |
| `AccountsProofs!CutsFinal` | | `[]CutsAreFinal` |
| `DerivedProofs!DerivedTypes` | | `[]DerivedTypeOK` |
| `DerivedProofs!IndexAnswers` | | `[]AnswersCurrent` |
| `DerivedProofs!LinksRepaired` | | `[]LinksFollow` |
| `DerivedProofs!FixLinksBacksOff` | | `NeverClobbers` |
| `ProjectsProofs!SoundHolds` | | `[]ProjectsSound` |
| `ProjectsProofs!AccessHolds` | `FirstGrants` | `[]AccessFollowsProject` |
| `ProjectsProofs!AckedHolds` | | `[]AckedInProject` |
| `DeletedLogProofs!LogSoundHolds` | | `[]LogSound` |
| `DeletedLogProofs!LogAgreesHolds` | | `[]LogAgreesWithWalk` |

Q is `~QuarantineMayFail /\ ~HeadMayBeUnreadable`; C is `[][CorruptedKept]_vars`, no file of
`wal-corrupted` is replaced. `FirstGrants` says that the scopes make no super-user at first
and name only what there is; `MCProjects` has TLC check it of the runs' scopes. Without Q,
without C or with failing removals from the catalog TLC has a counterexample (section 4); the
FileStore hypotheses are discussed below. The runs' instances satisfy all of them.

**WalPool.** `TypeOK` is not inductive: that a worker's project has a type needs
`Referenced` (every file, head and busy worker carries an acknowledged entry; a
worker about to try has tries left), and that `wal.Open` finds a greatest
sequence number needs `Bounded`. Together they are `TInv`. `OneWorkerPerProject`
needs `Marked`: every busy worker's project is marked in flight, and a dispatcher
blocked on a send holds the mark of a project that no worker has (`MInv`).
The order of commits (`OInv`) needs the argument the code relies on without
writing it down:

- `LogOrdered`: sequence numbers on disk agree with the order of acknowledgement;
- `WorkerOldest`: a worker holds the oldest file of its project until it removed it;
- `HeadsCurrent`: the dispatcher's snapshot may be stale, but not for a project it
  may still assign, because the mark is released only between snapshots;
- `HistBelow`: nothing recorded is younger than a file still on disk;
- `LastIsNoop`: replaying the last recorded entry leaves HEAD as it is, which is why a
  crash between commit and `Remove` does not record an entry twice;
- `BaseCurrent`: nobody moves HEAD between a worker's reading and advancing it.

`NoEntryLost` then needs only `Settled`: a worker about to remove a file has recorded its
entry or set it aside. That `wal-corrupted` loses no file (C) follows from there being one
unreadable file at most, the instance of the runs; with more it is a real hypothesis, see
section 4. The refinement is proved step by step from the same invariants: every action
is `Acknowledge`, `Record`, `KeepAside` or a stutter of CommitLog, and a commit that is replayed
onto a HEAD that has it is a stutter by `LastIsNoop`.

`HeadIsReplay` and FileStore's drained tree are functions defined by recursion over the length
of a log. No induction theorem can be used, but two such functions that agree where
they start and unfold alike are equal: otherwise there would be a least number at which
they differ (`LeastNat`), and the one before it contradicts that. From this follow what
appending an entry, recording the oldest and draining a log do to HEAD.

**FileLock.** `LInv` adds to `TypeOK` and `LeasesHeld` the shape of a call at each
step (`Shape`: the stripes it holds are the lowest of its stripes, in order) and
what it owns (`Owns`: exactly these and the mutex it is at). The five theorems
follow from it.

**FileStore.** `ShapeInv` says what every variable may be: a task's remaining steps
are an end of its call's plan (`TasksInv`), two calls in their locks have no path in common
(`Exclusive`), and each pass keeps within what it read (`ScansInv`). Built on it:

- `RoomInv`: the log and the calls that `checkWritable` let in and that have not
  appended yet are together within the limit and one entry per caller. The length of the
  log alone is not inductive, since every caller may have read it before any appends;
- `RecInv`: what a call past its append will acknowledge is recorded already;
- `KeptInv`: what a call acknowledged, or has written and not acknowledged yet, is in the
  tree or in lost+found, for a path no call has touched since. This is the
  argument for sweeps, re-syncs and repairs, which take files away without a lock;
- `AgreeInv`: within a call, each path is as HEAD will have it once the log has drained,
  before the call's append or after it, depending on the steps done.

The hypotheses are the code's own limits. `RepairTrackedChanges` replaces HEAD by
what it read (section 4), so nothing that is said of HEAD alone survives it; content
does, because the tree has it, unless the sweep deletes what it takes for disposable or a
commit from outside replaces a tracked file. A sweep moves files that the log still has, so
the tree follows the log only without it.

**Sessions.** `StoreInv` carries the invariants above through the clients' steps, and adds
that a handler is where its task is (`HandlersInv`) and that what a call read under the lock is
still so when it writes (`FreshInv`), from which the two action properties follow.
`ClientsKeepTreeInStep` adds `OwnedInv`: an entry of the catalog without a file belongs to a
move that is about to remove it. Removal from the catalog is best effort (`catalogDelete`
only logs a failure): a failed one leaves an entry without a file, which `TreeAgrees` excludes
and a drift scan rebuilds from (section 4), hence the hypothesis `"disown" \notin Failing`.
What the notification center owes (`TellInv`) needs who owns a subscriber's slot
(`SlotsInv`: the session that is registered for it, a handler that tears it down, or the reaper, and
never two), that a request's number tells its event from all others on their way (`IdsInv`),
that a fan-out has only subscribers that are there (`FanInv`), and where an owed event is
(`DueInv`: to be published, to be delivered to the registered slot, or in its channel).

**OAuth.** A pair of tokens resolves because both buckets point at the series under
the key of the handle its client holds, hashed or not, as the marker says (`SeriesInv`);
between the migration's transaction and its marker nothing is served (`ProcessInv`). A code is
in the store, in one request's hands, or spent on one series (`CodeInv`, with `OriginInv`).
The two action properties hold of each action by what it checks in its own transaction.

**Accounts.** Numbers of sessions, invitations and ceremonies are given out once (`StoresInv`), so
that a ceremony in the hands of a request is in nobody else's (`UseInv`). A session that is
there was created after its user's last cut (`CutInv`), since `TouchSession` writes only what
it finds; and whoever is the first administrator stays the only one (`FirstInv`).

**Derived.** `ActInv` places every writer at a step of its request, no two at one file, with
the file it wrote as it wrote it; `SweepInv` says the same of the index goroutine: that the
pass in its locks rewrites what is in the tree gives `NeverClobbers`. `AnswersCurrent`
(in `IndexInv`) cannot say that every record is right: a writer changes its file first and the
record later. Under a marker that is HEAD, with the log drained, a record is right unless
its file's writer stands between its change and its entry in the log. From the entry on HEAD
will move past the marker, and the next look at the index rebuilds it. A walk that began
under this HEAD obeys the same for the files it has read; a file about to be deleted, or whose
deletion was given up, may have no record. `LinksFollow` (in `LinksInv`) follows each owed link
from the kick in the queue to the pass at work on it, where its file is among the referrers, still
to scan, read, or being written. `VectorInv` is the vectors' part of `AnswersCurrent`: those of
a store come from the model it was created for, and a store without a model has none.

**Projects.** Everything rests on two facts. Whoever holds `moveMu` has its fence up, and nobody
else is past `Lock` (`FenceInv`); and, unless `raced` is set, no two requests work on one name
(`ClashInv`). That a request's entry is in the journal cannot be said, since the journal is written
at best effort; a crash that finds it missing past the pivot sets `raced`.

- Acknowledged writes (`WriterInv`): a lease that is not late keeps its directory where it is,
  since no request that looked at the leases is going to take it (`Takes`).
- Grants (`GrantInv`): what a scope *reaches* on disk is what its grants name, with the
  rename under way applied to the names if this scope is still to be rewritten (`Seen`). Each name
  so reached stands for something the scope was entitled to at first, at that level (`Held`),
  and a request about to free the name has purged it from the scope (`Spares`). The pivot
  changes names and disk alike; rewriting a store changes the grants and leaves the reach. That
  purging and rewriting never leave the empty scope is `SuperInv`.
- Grants kept (`KeptInv`): the converse. What the first scope named, and no deletion took away, is
  reached by the name it has now (`Named`), in a store still to be rewritten by the name it had. A
  deletion purges only names whose projects it records in `revoked`; a rewriting drops nothing
  (`KeptRewrite`), and the pivot takes the name of grant and directory together (`KeptPivot`).
- Directories, databases, registry (`SoundInv`): the registry describes the disk with one
  operation undone, and so do the databases (`Sound`, `SwapKey`). While the server runs, that is
  the operation at `siblings` or `registry`, or none. After a crash it is the journalled one
  or none, and an operation that is behind has made its pivot (`Pivoted`), so recovery goes
  forward exactly when it must and completes exactly this operation; in all other cases it
  changes nothing. Nor does a repair of the health page, in a sound state (`NoRecover`).
  `FreshInv` is what a request still relies on of its checks.

**DeletedLog.** The walk is a fold over the window; its value is characterised once (`WalkIs`):
a path that the window decides is in it if the newest commit on it deletes it (`DeadIn`), and
the commit recorded is one that removed it. The rest is about that verdict:

- `HistInv`: each commit does to its parent's tree what its trailer says, no hash is given out
  twice, and the commit whose hook is to run is HEAD, for the first entry of the queue;
- `RecsInv`: each record, in a file or in a rebuild under way, names a commit that removed its
  path, no two records one commit, and every file respects the cap;
- `HandleInv`: an inode is open in one place, and nothing is open while the server is down;
- `AgreeInv`: a path the verdict calls deleted is not in HEAD's tree; the log in use gives the
  verdict for every path that is neither dirty nor waiting for the hook; and so does a rebuild
  at each of its steps, except on what hooks and revivals touched since its walk. Without a log
  in use every path is dirty: this is what makes a rebuild's registration sound, and what the
  ghost must say when a file is removed.

What the proofs taught about the models. The attempt to prove `ProjectsSound` failed at two
renames of namespaces to one name; the model's `Overlaps` had taken `moveMu` to exclude it (section
4). `AccessFollowsProject` is stated of levels and in both directions: a grant gives on the project it
followed the level it was given with, and no more than some grant of the scope gives. In an instance larger than the run's
`NothingVanishes` was not true: a call that had done its last step and crashed before
its answer had replaced the content that the ghost `acked` still took for the acknowledged one.
The ghost now counts such a call at the crash.

Only model-checked:

- liveness (`Drains`, `ShutdownCompletes`, `CallsReturn`, `SelfHeals`, `IndexHeals`,
  `VectorsSettle`), which needs fairness and ENABLED.

Every invariant and every action property that a run checks is stated by a theorem of the table.

## 6. Plan

Done, in this order: WalPool with CommitLog and its proofs, FileLock with its
proofs, FileStore, OAuth, Accounts, DeletedLog, Authz and Projects, Derived, Sessions; the
proofs for the rest of WalPool, OAuth, Accounts, FileStore, Sessions, Derived, Projects and
DeletedLog.

Next, by importance:

1. **Pure operators**: `applyToTree` on nested trees against its flat definition, snapshot
   pruning.
2. **Weaker exceptions**: `ProjectsSound` and `AccessFollowsProject` under the requests that
   `raced` excludes, where the code keeps part of what they say.
3. **Directories of files** in FileStore, and their reaping.

## 7. Not modelled

Snapshots copy files and prune by age. Webhooks make two attempts per event from goroutines
without order. History, diff and search results are go-git's and string work. The librarian's
behaviour is a language model's. Drafts and ingest are single file operations. Configuration,
logging, metrics and the command line keep no state that changes while the program runs, except
what Derived has of a reload. Formats, HTTP, cryptography and the browser front end are out of scope.
