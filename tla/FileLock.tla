------------------------------ MODULE FileLock ------------------------------
(***************************************************************************)
(* The lock manager of internal/storage/filelock: WithLock and WithLocks   *)
(* on the file stripes, WithDirLock on the directory stripes nested inside *)
(* them, cancellation of a waiting caller, and the lease records kept      *)
(* beside the mutexes.                                                     *)
(*                                                                         *)
(* A caller that finds a mutex taken starts a goroutine that blocks on it  *)
(* and waits for that goroutine or for the cancellation of its context; an *)
(* abandoned goroutine (an orphan) still gets the mutex one day and then   *)
(* releases it.                                                            *)
(*                                                                         *)
(* Mutexes are numbered: file stripe n is n, directory stripe n is         *)
(* NumStripes + n.  WithLock is WithLocks on one path.                     *)
(***************************************************************************)
EXTENDS Naturals, Sequences, FiniteSets

CONSTANTS
  Task,         \* goroutines of the storage layer
  Session,      \* MCP sessions
  SessionOf,    \* task -> its session
  Path, Dir,    \* file paths, directories
  NumStripes,   \* numStripes
  StripeOf,     \* path -> its stripe (fnv32a % numStripes)
  DirStripeOf,  \* directory -> its stripe
  Call,         \* what the storage layer locks: the paths of WithLock(s) and the
                \* directories fn passes to WithDirLock, one after the other
  Free, Orphan, \* a mutex nobody holds, and one an abandoned goroutine holds
  MaxOrphans    \* bound: abandoned goroutines blocked on one mutex

Stripe == 0..(NumStripes - 1)
Mutex == 0..(2 * NumStripes - 1)

ASSUME FileLockAssumption ==
  /\ NumStripes \in Nat \ {0}
  /\ SessionOf \in [Task -> Session]
  /\ StripeOf \in [Path -> Stripe] /\ DirStripeOf \in [Dir -> Stripe]
  /\ Call \subseteq [paths : SUBSET Path, dirs : Seq(Dir)]
  /\ \A c \in Call : IsFiniteSet(c.paths)
  /\ Free \notin Task /\ Orphan \notin Task /\ Free # Orphan
  /\ MaxOrphans \in Nat

VARIABLES
  owner,      \* mutex -> its holder
  orphans,    \* mutex -> abandoned goroutines still blocked on it
  leases,     \* Manager.leases: path -> task of the record, or Free
  pc,         \* task -> where it is
  paths,      \* task -> the paths of its call
  dirs,       \* task -> the directories fn has still to lock
  acquired,   \* task -> the stripes WithLocks holds
  cancelled   \* tasks whose context is done

vars == <<owner, orphans, leases, pc, paths, dirs, acquired, cancelled>>

\* The steps of a call.  "lock", "check", "wait": lockCtx on the next file stripe,
\* before TryLock, after it, and in the select.  "leases": all stripes held.
\* "fn" and the "dir..." steps: inside fn.  "drop", "unlock": the deferred
\* functions.
PC == {"idle", "lock", "check", "wait", "leases", "fn",
       "dirlock", "dircheck", "dirwait", "dirfn", "drop", "unlock"}
InDir == {"dirlock", "dircheck", "dirwait", "dirfn"}
InFn == {"fn"} \cup InDir

\* The distinct stripes of a call.
Stripes(P) == {StripeOf[p] : p \in P}
Lowest(S) == CHOOSE s \in S : \A r \in S : s <= r
Highest(S) == CHOOSE s \in S : \A r \in S : r <= s
\* Mutant of NextStripe: not sorted.
NextStripeM(t) == Highest(Stripes(paths[t]) \ acquired[t])
\* The stripe the loop of WithLocks takes next: ascending order.
NextStripe(t) == Lowest(Stripes(paths[t]) \ acquired[t])

\* The directory stripes are a separate array.
DirMutex(d) == NumStripes + DirStripeOf[d]

\* The mutex lockCtx is called for.
Target(t) == IF pc[t] \in InDir THEN DirMutex(Head(dirs[t])) ELSE NextStripe(t)

Goto(t, l) == pc' = [pc EXCEPT ![t] = l]
Release(m) == owner' = [owner EXCEPT ![m] = Free]

Init ==
  /\ owner = [m \in Mutex |-> Free]
  /\ orphans = [m \in Mutex |-> 0]
  /\ leases = [p \in Path |-> Free]
  /\ pc = [t \in Task |-> "idle"]
  /\ paths = [t \in Task |-> {}]
  /\ dirs = [t \in Task |-> <<>>]
  /\ acquired = [t \in Task |-> {}]
  /\ cancelled = {}

----------------------------------------------------------------------------
(* WithLocks *)

\* A call with no paths runs fn with no lock.
Begin(t, c) ==
  /\ pc[t] = "idle"
  /\ paths' = [paths EXCEPT ![t] = c.paths]
  /\ dirs' = [dirs EXCEPT ![t] = c.dirs]
  /\ Goto(t, IF c.paths = {} THEN "leases" ELSE "lock")
  /\ UNCHANGED <<owner, orphans, leases, acquired, cancelled>>

\* The caller's context ends.
Cancel(t) ==
  /\ pc[t] # "idle" /\ t \notin cancelled
  /\ cancelled' = cancelled \cup {t}
  /\ UNCHANGED <<owner, orphans, leases, pc, paths, dirs, acquired>>

\* lockCtx: TryLock succeeds ...
TryLock(t) ==
  /\ pc[t] \in {"lock", "dirlock"}
  /\ owner[Target(t)] = Free
  /\ owner' = [owner EXCEPT ![Target(t)] = t]
  /\ Goto(t, IF pc[t] = "lock" THEN "check" ELSE "dircheck")
  /\ UNCHANGED <<orphans, leases, paths, dirs, acquired, cancelled>>

\* ... or fails, and a goroutine blocks in mu.Lock.
Block(t) ==
  /\ pc[t] \in {"lock", "dirlock"}
  /\ owner[Target(t)] # Free
  /\ Goto(t, IF pc[t] = "lock" THEN "wait" ELSE "dirwait")
  /\ UNCHANGED <<owner, orphans, leases, paths, dirs, acquired, cancelled>>

\* That goroutine gets the mutex for its caller.
WaiterGets(t) ==
  /\ pc[t] \in {"wait", "dirwait"}
  /\ owner[Target(t)] = Free
  /\ owner' = [owner EXCEPT ![Target(t)] = t]
  /\ UNCHANGED <<orphans, leases, pc, paths, dirs, acquired, cancelled>>

\* lockCtx returns nil.
Acquired(t) ==
  /\ \/ pc[t] \in {"check", "dircheck"} /\ t \notin cancelled
     \/ pc[t] \in {"wait", "dirwait"} /\ owner[Target(t)] = t
  /\ IF pc[t] \in InDir
     THEN Goto(t, "dirfn") /\ UNCHANGED acquired
     ELSE /\ acquired' = [acquired EXCEPT ![t] = @ \cup {Target(t)}]
          /\ Goto(t, IF acquired'[t] = Stripes(paths[t]) THEN "leases" ELSE "lock")
  /\ UNCHANGED <<owner, orphans, leases, paths, dirs, cancelled>>

\* A failed WithLocks releases what it holds; a failed WithDirLock returns to fn.
Fail(t) ==
  IF pc[t] \in InDir
  THEN Goto(t, "fn") /\ dirs' = [dirs EXCEPT ![t] = Tail(@)]
  ELSE Goto(t, "unlock") /\ UNCHANGED dirs

\* lockCtx finds the context done right after TryLock and returns its error.
CancelledAtOnce(t) ==
  /\ pc[t] \in {"check", "dircheck"} /\ t \in cancelled
  /\ Release(Target(t))
  /\ Fail(t)
  /\ UNCHANGED <<orphans, leases, paths, acquired, cancelled>>

\* Mutant of Abandon: the mutex is unlocked at once, whoever holds it.
AbandonU(t) ==
  /\ pc[t] \in {"wait", "dirwait"} /\ t \in cancelled
  /\ Release(Target(t))
  /\ Fail(t)
  /\ UNCHANGED <<orphans, leases, paths, acquired, cancelled>>

\* lockCtx's select sees the context done: the blocked goroutine, which may
\* already have got the mutex, is left to release it.
Abandon(t) ==
  /\ pc[t] \in {"wait", "dirwait"} /\ t \in cancelled
  /\ IF owner[Target(t)] = t
     THEN owner' = [owner EXCEPT ![Target(t)] = Orphan] /\ UNCHANGED orphans
     ELSE /\ orphans[Target(t)] < MaxOrphans
          /\ orphans' = [orphans EXCEPT ![Target(t)] = @ + 1]
          /\ UNCHANGED owner
  /\ Fail(t)
  /\ UNCHANGED <<leases, paths, acquired, cancelled>>

OrphanGets(m) ==
  /\ owner[m] = Free /\ orphans[m] > 0
  /\ owner' = [owner EXCEPT ![m] = Orphan]
  /\ orphans' = [orphans EXCEPT ![m] = @ - 1]
  /\ UNCHANGED <<leases, pc, paths, dirs, acquired, cancelled>>

\* Mutant of OrphanReleases: no Unlock.
OrphanReleasesM(m) == owner[m] = Orphan /\ UNCHANGED vars

OrphanReleases(m) ==
  /\ owner[m] = Orphan
  /\ Release(m)
  /\ UNCHANGED <<orphans, leases, pc, paths, dirs, acquired, cancelled>>

\* All stripes are held: one lease per path, then fn.
RecordLeases(t) ==
  /\ pc[t] = "leases"
  /\ leases' = [p \in Path |-> IF p \in paths[t] THEN t ELSE leases[p]]
  /\ Goto(t, "fn")
  /\ UNCHANGED <<owner, orphans, paths, dirs, acquired, cancelled>>

\* fn returns, with or without an error, or panics.
FnReturns(t) ==
  /\ pc[t] = "fn"
  /\ Goto(t, "drop")
  /\ UNCHANGED <<owner, orphans, leases, paths, dirs, acquired, cancelled>>

\* Mutant of DropLeases: the records stay.
DropLeasesM(t) ==
  /\ pc[t] = "drop"
  /\ Goto(t, "unlock")
  /\ UNCHANGED <<owner, orphans, leases, paths, dirs, acquired, cancelled>>

\* The deferred functions: the lease records first, then the stripes, highest
\* first.
DropLeases(t) ==
  /\ pc[t] = "drop"
  /\ leases' = [p \in Path |-> IF p \in paths[t] THEN Free ELSE leases[p]]
  /\ Goto(t, "unlock")
  /\ UNCHANGED <<owner, orphans, paths, dirs, acquired, cancelled>>

Unlock(t) ==
  /\ pc[t] = "unlock" /\ acquired[t] # {}
  /\ Release(Highest(acquired[t]))
  /\ acquired' = [acquired EXCEPT ![t] = @ \ {Highest(@)}]
  /\ UNCHANGED <<orphans, leases, pc, paths, dirs, cancelled>>

Return(t) ==
  /\ pc[t] = "unlock" /\ acquired[t] = {}
  /\ Goto(t, "idle")
  /\ paths' = [paths EXCEPT ![t] = {}]
  /\ dirs' = [dirs EXCEPT ![t] = <<>>]
  /\ cancelled' = cancelled \ {t}
  /\ UNCHANGED <<owner, orphans, leases, acquired>>

----------------------------------------------------------------------------
(* WithDirLock, called by fn *)

EnterDir(t) ==
  /\ pc[t] = "fn" /\ dirs[t] # <<>>
  /\ Goto(t, "dirlock")
  /\ UNCHANGED <<owner, orphans, leases, paths, dirs, acquired, cancelled>>

LeaveDir(t) ==
  /\ pc[t] = "dirfn"
  /\ Release(Target(t))
  /\ Goto(t, "fn")
  /\ dirs' = [dirs EXCEPT ![t] = Tail(@)]
  /\ UNCHANGED <<orphans, leases, paths, acquired, cancelled>>

----------------------------------------------------------------------------
(* Lease records *)

\* reapOnce: the records in P are older than maxLeaseDuration.
ReapOnce(P) ==
  /\ P # {} /\ \A p \in P : leases[p] # Free
  /\ leases' = [p \in Path |-> IF p \in P THEN Free ELSE leases[p]]
  /\ UNCHANGED <<owner, orphans, pc, paths, dirs, acquired, cancelled>>

ReleaseAllForSession(s) ==
  /\ leases' = [p \in Path |-> IF leases[p] # Free /\ SessionOf[leases[p]] = s
                               THEN Free ELSE leases[p]]
  /\ leases' # leases
  /\ UNCHANGED <<owner, orphans, pc, paths, dirs, acquired, cancelled>>

Caller(t) ==
  \/ TryLock(t) \/ Block(t) \/ Acquired(t) \/ CancelledAtOnce(t) \/ Abandon(t)
  \/ RecordLeases(t) \/ FnReturns(t) \/ DropLeases(t) \/ Unlock(t) \/ Return(t)
  \/ EnterDir(t) \/ LeaveDir(t)

Next ==
  \/ \E t \in Task : \/ \E c \in Call : Begin(t, c)
                     \/ Cancel(t) \/ Caller(t) \/ WaiterGets(t)
  \/ \E m \in Mutex : OrphanGets(m) \/ OrphanReleases(m)
  \/ \E P \in SUBSET Path : ReapOnce(P)
  \/ \E s \in Session : ReleaseAllForSession(s)

Spec == Init /\ [][Next]_vars

\* Running goroutines proceed, fn terminates, and a goroutine blocked in
\* Mutex.Lock gets the mutex if it is released over and over: Go's mutexes hand
\* over to a waiter that has starved for a millisecond.
FairSpec ==
  /\ Spec
  /\ \A t \in Task : WF_vars(Caller(t)) /\ SF_vars(WaiterGets(t))
  /\ \A m \in Mutex : SF_vars(OrphanGets(m)) /\ WF_vars(OrphanReleases(m))

----------------------------------------------------------------------------
(* Properties *)

\* Types of the mutexes, the lease records and the callers.
TypeOK ==
  /\ owner \in [Mutex -> Task \cup {Free, Orphan}]
  /\ orphans \in [Mutex -> 0..MaxOrphans]
  /\ leases \in [Path -> Task \cup {Free}]
  /\ pc \in [Task -> PC]
  /\ paths \in [Task -> SUBSET Path]
  /\ dirs \in [Task -> Seq(Dir)]
  /\ acquired \in [Task -> SUBSET Stripe]
  /\ cancelled \subseteq Task

\* Two calls that share a path never run fn at the same time, and two that share
\* a directory never run their WithDirLock functions at the same time, however
\* callers are cancelled while they wait and whatever happens to their leases.
Exclusion ==
  \A t, u \in Task : t # u =>
    /\ pc[t] \in InFn /\ pc[u] \in InFn => paths[t] \cap paths[u] = {}
    /\ pc[t] = "dirfn" /\ pc[u] = "dirfn" => Head(dirs[t]) # Head(dirs[u])

\* "No wait cycle can form": a caller that waits for a mutex holds only mutexes
\* below it, and none of the directory mutexes if it waits for one.
WaitsUpward ==
  \A t \in Task : pc[t] \in {"wait", "dirwait"} /\ owner[Target(t)] # t =>
    \A m \in Mutex : owner[m] = t => m < Target(t) /\ m < NumStripes

\* A lease record belongs to a call that holds the path's stripe: none outlives
\* its lock and none is dropped by a later holder of the path.
LeasesHeld ==
  \A p \in Path : leases[p] # Free =>
    /\ pc[leases[p]] \in InFn \cup {"drop"}
    /\ p \in paths[leases[p]]
    /\ owner[StripeOf[p]] = leases[p]

\* "No lock is leaked": a task whose call has returned holds no mutex.
NoLeak == \A t \in Task : pc[t] = "idle" => \A m \in Mutex : owner[m] # t

\* Liveness: every call returns.
CallsReturn == \A t \in Task : pc[t] # "idle" ~> pc[t] = "idle"
=============================================================================
