--------------------------- MODULE WalPoolProofs ---------------------------
(***************************************************************************)
(* Proofs about WalPool, for every set of projects, paths, contents and    *)
(* workers, and every number of entries, faults and crashes: types, one    *)
(* worker per project, commits in order of acknowledgement, and what the   *)
(* pool promises the write path: no acknowledged entry is dropped, every   *)
(* step is a step of CommitLog or changes nothing CommitLog sees, and HEAD *)
(* is the effect of the entries its history records.                       *)
(***************************************************************************)
EXTENDS WalPool, FiniteSetTheorems, NaturalsInduction,
        SequenceTheorems, WellFoundedInduction, TLAPS

----------------------------------------------------------------------------
(* Natural numbers *)

\* A non-empty set of naturals has a least element.
LEMMA LeastNat ==
  ASSUME NEW S \in SUBSET Nat, S # {}
  PROVE  \E m \in S : \A n \in S : m <= n
<1>1. IsWellFoundedOn(OpToRel(<, Nat), Nat)
  BY NatLessThanWellFounded
<1>2. PICK m \in S : \A n \in S : ~(<<n, m>> \in OpToRel(<, Nat))
  BY <1>1, WFMin
<1>3. \A n \in S : ~(n < m)
  BY <1>2 DEF OpToRel
<1> QED BY <1>3


\* A non-empty set of naturals below a bound has a greatest element.
LEMMA GreatestNat ==
  ASSUME NEW S \in SUBSET Nat, S # {}, NEW b \in Nat, \A s \in S : s < b
  PROVE  \E m \in S : \A s \in S : s <= m
<1> DEFINE U == {n \in Nat : \A s \in S : s <= n}
<1>1. b \in U
  OBVIOUS
<1>2. PICK m \in U : \A n \in U : m <= n
  BY <1>1, LeastNat
<1>3. m \in S
  <2>1. SUFFICES ASSUME m \notin S PROVE FALSE
    OBVIOUS
  <2>2. \A s \in S : s <= m - 1
    BY <2>1
  <2>3. m - 1 \in Nat
    <3>1. PICK s \in S : TRUE
      OBVIOUS
    <3>2. s \in Nat /\ m \in Nat /\ s <= m - 1
      BY <2>2, <3>1
    <3> QED BY <3>2
  <2>4. m - 1 \in U
    BY <2>2, <2>3
  <2> QED BY <1>2, <2>4
<1> QED BY <1>3

----------------------------------------------------------------------------
(* Facts about the operators *)

LEMMA GreatestMember ==
  ASSUME NEW S \in SUBSET Nat, S # {}, NEW b \in Nat, \A s \in S : s < b
  PROVE  Greatest(S) \in S /\ \A s \in S : s <= Greatest(S)
BY GreatestNat DEF Greatest

\* The head dispatch looks at is a head of its snapshot, of the least seq.
LEMMA OldestMember ==
  ASSUME NEW F \in SUBSET File, F # {}
  PROVE  Oldest(F) \in F /\ \A g \in F : Oldest(F).seq <= g.seq
<1>1. Seqs(F) \in SUBSET Nat /\ Seqs(F) # {}
  BY DEF Seqs, File
<1>2. PICK m \in Seqs(F) : \A n \in Seqs(F) : m <= n
  BY <1>1, LeastNat
<1>3. \E f \in F : \A g \in F : f.seq <= g.seq
  BY <1>2 DEF Seqs
<1> QED BY <1>3 DEF Oldest

\* wal.Open numbers new entries above every file it keeps.
LEMMA NextSeqAbove ==
  ASSUME NEW F \in SUBSET File, NEW b \in Nat, \A f \in F : f.seq < b
  PROVE  NextSeq(F) \in Nat \ {0} /\ \A f \in F : f.seq < NextSeq(F)
<1>1. CASE F = {}
  BY <1>1 DEF NextSeq
<1>2. CASE F # {}
  <2>1. Seqs(F) \in SUBSET Nat /\ Seqs(F) # {} /\ \A s \in Seqs(F) : s < b
    BY <1>2 DEF Seqs, File
  <2>2. Greatest(Seqs(F)) \in Seqs(F) /\ \A s \in Seqs(F) : s <= Greatest(Seqs(F))
    BY <2>1, GreatestMember
  <2>3. Greatest(Seqs(F)) \in Nat
    BY <2>1, <2>2
  <2>4. \A f \in F : f.seq \in Nat /\ f.seq <= Greatest(Seqs(F))
    BY <2>2 DEF Seqs, File
  <2>5. NextSeq(F) = Greatest(Seqs(F)) + 1
    BY <1>2 DEF NextSeq
  <2> QED BY <2>3, <2>4, <2>5
<1> QED BY <1>1, <1>2

\* commitEntry maps trees to trees.
LEMMA ApplyType ==
  ASSUME NEW t \in Tree, NEW e \in Entry
  PROVE  Apply(t, e) \in Tree
<1> e.op \in {"write", "delete", "move"} /\ e.path \in Path /\ e.from \in Path /\ e.content \in Content
  BY DEF Entry, Op
<1> QED BY DEF Apply, Tree

\* Committing an entry again on top of its own commit changes nothing.
LEMMA ApplyIdempotent ==
  ASSUME NEW t \in Tree, NEW e \in Entry
  PROVE  Apply(Apply(t, e), e) = Apply(t, e)
<1> e.op \in {"write", "delete", "move"} /\ e.path \in Path /\ e.from \in Path /\ e.content \in Content
  BY DEF Entry, Op
<1> QED BY DEF Apply, Tree

----------------------------------------------------------------------------
(* Types *)

\* Every file, pending entry and head carries an acknowledged entry, and so does
\* every worker inside process.
Referenced ==
  /\ \A f \in disk \cup pending \cup corrupted \cup heads : f.idx \in DOMAIN acked
  /\ \A w \in Worker : wk[w].st \in Busy => wk[w].ent.idx \in DOMAIN acked
  /\ dpc = "handoff" => heads # {}
  /\ \A w \in Worker :
       wk[w].st \in {"read", "open", "commit"} => wk[w].tries < MaxCommitAttempts

\* The log directory is bounded, so that Open finds its greatest seq.
Bounded == \E n \in Nat : \A f \in disk : f.seq < n

TInv == TypeOK /\ Referenced /\ Bounded

LEMMA TInvInit == Init => TInv
<1> SUFFICES ASSUME Init PROVE TInv
  OBVIOUS
<1> USE WalPoolAssumption
<1>1. EmptyTree \in Tree
  BY DEF EmptyTree, Tree
<1>2. Off \in WorkerRecord
  BY <1>1 DEF Off, Fresh, NoEntry, File, WorkerState, WorkerRecord
<1>3. Starting \in WorkerRecord
  BY <1>1 DEF Starting, Fresh, NoEntry, File, WorkerState, WorkerRecord
<1>4. wk \in [Worker -> WorkerRecord]
  BY <1>2, <1>3 DEF Init
<1>5. \A w \in Worker : wk[w].st \notin Busy /\ wk[w].st \notin {"read", "open", "commit"}
  BY DEF Init, Starting, Off, Fresh, Busy
<1>6. TypeOK
  <2>1. LogType
    BY DEF Init, LogType
  <2>2. GitType
    BY <1>1 DEF Init, GitType
  <2>3. PoolType
    BY <1>4 DEF Init, PoolType
  <2>4. BoundType
    BY DEF Init, BoundType
  <2> QED BY <2>1, <2>2, <2>3, <2>4 DEF TypeOK
<1>7. Referenced /\ Bounded
  BY <1>5 DEF Init, Referenced, Bounded
<1> QED BY <1>6, <1>7 DEF TInv

\* A step inside the pool: the log, the repositories and lost+found stay as
\* they are, and the pool's own state keeps its type.
LEMMA TInvPool ==
  ASSUME TInv, PoolType', BoundType', Referenced',
         UNCHANGED <<acked, logVars, gitVars, lostfound>>
  PROVE  TInv'
BY DEF TInv, TypeOK, LogType, GitType, Bounded, logVars, gitVars

\* The types a worker step needs.
LEMMA WorkerTypes ==
  ASSUME TInv, NEW w \in Worker
  PROVE  /\ wk \in [Worker -> WorkerRecord] /\ wk[w] \in WorkerRecord
         /\ wk[w].ent \in File /\ wk[w].base \in Tree
         /\ wk[w].tries \in 0..MaxCommitAttempts /\ wk[w].perm \in BOOLEAN
         /\ wk[w].st \in Busy => /\ wk[w].ent.idx \in DOMAIN acked
                                  /\ acked[wk[w].ent.idx] \in Entry
                                  /\ KeyOf(w) \in Project
<1>1. wk \in [Worker -> WorkerRecord] /\ acked \in Seq(Entry)
  BY DEF TInv, TypeOK, PoolType, LogType
<1>2. wk[w] \in WorkerRecord
  BY <1>1
<1>3. ASSUME wk[w].st \in Busy
      PROVE  wk[w].ent.idx \in DOMAIN acked /\ acked[wk[w].ent.idx] \in Entry
  <2>1. wk[w].ent.idx \in DOMAIN acked
    BY <1>3 DEF TInv, Referenced
  <2> QED BY <1>1, <2>1, ElementOfSeq
<1> QED BY <1>1, <1>2, <1>3 DEF WorkerRecord, KeyOf, ProjOf, Entry

\* The types of the head dispatch looks at.
LEMMA HeadTypes ==
  ASSUME TInv, heads # {}
  PROVE  /\ Oldest(heads) \in heads /\ Oldest(heads) \in File
         /\ Oldest(heads).idx \in DOMAIN acked
         /\ ProjOf(Oldest(heads)) \in Project
<1>1. heads \in SUBSET File /\ acked \in Seq(Entry)
  BY DEF TInv, TypeOK, PoolType, LogType
<1>2. Oldest(heads) \in heads
  BY <1>1, OldestMember
<1>3. Oldest(heads).idx \in DOMAIN acked
  BY <1>2 DEF TInv, Referenced
<1>4. acked[Oldest(heads).idx] \in Entry
  BY <1>1, <1>3, ElementOfSeq
<1> QED BY <1>1, <1>2, <1>3, <1>4 DEF ProjOf, Entry

LEMMA FreshType ==
  /\ Off \in WorkerRecord /\ Starting \in WorkerRecord
  /\ \A f \in File : Fresh("read", f) \in WorkerRecord
  /\ EmptyTree \in Tree
<1>1. EmptyTree \in Tree
  BY DEF EmptyTree, Tree
<1> QED
  BY <1>1, WalPoolAssumption DEF Off, Starting, Fresh, NoEntry, File, WorkerState, WorkerRecord

LEMMA TInvNext == TInv /\ [Next]_vars => TInv'
<1> SUFFICES ASSUME TInv, [Next]_vars PROVE TInv'
  OBVIOUS
<1> USE DEF logVars, gitVars, dspVars, WorkerRecord, WorkerState, Busy, Goto
<1>1. CASE Wake
  <2>1. PoolType' /\ BoundType' /\ Referenced'
    BY <1>1, HeadTypes DEF TInv, TypeOK, LogType, PoolType, Referenced, BoundType, Wake, Snapshot
  <2> QED BY <1>1, <2>1, TInvPool DEF Wake
<1>2. CASE Skip
  <2>1. PoolType' /\ BoundType' /\ Referenced'
    BY <1>2, HeadTypes DEF TInv, TypeOK, LogType, PoolType, Referenced, BoundType, Skip
  <2> QED BY <1>2, <2>1, TInvPool DEF Skip
<1>3. CASE Saturated
  <2>1. PoolType' /\ BoundType' /\ Referenced'
    BY <1>3, HeadTypes
    DEF TInv, TypeOK, LogType, PoolType, Referenced, BoundType, Saturated, Eligible
  <2> QED BY <1>3, <2>1, TInvPool DEF Saturated
<1>4. CASE EndDispatch
  <2>1. PoolType' /\ BoundType' /\ Referenced'
    BY <1>4, HeadTypes DEF TInv, TypeOK, LogType, PoolType, Referenced, BoundType, EndDispatch
  <2> QED BY <1>4, <2>1, TInvPool DEF EndDispatch
<1>5. CASE DispatcherStops
  <2>1. PoolType' /\ BoundType' /\ Referenced'
    BY <1>5, HeadTypes DEF TInv, TypeOK, LogType, PoolType, Referenced, BoundType, DispatcherStops
  <2> QED BY <1>5, <2>1, TInvPool DEF DispatcherStops
<1>6. ASSUME NEW w \in Worker, Done(w) PROVE TInv'
  <2>1. PoolType' /\ BoundType' /\ Referenced'
    BY <1>6, WorkerTypes, FreshType
    DEF TInv, TypeOK, LogType, PoolType, Referenced, BoundType, Done, Snapshot, Unmark, Starting, Fresh
  <2> QED BY <1>6, <2>1, TInvPool DEF Done
<1>7. ASSUME NEW w \in Worker, HandOff(w) PROVE TInv'
  <2>1. PoolType' /\ BoundType' /\ Referenced'
    BY SMTT(60), <1>7, HeadTypes, WorkerTypes, FreshType, WalPoolAssumption
    DEF TInv, TypeOK, LogType, PoolType, Referenced, BoundType, HandOff, Eligible, Assign, Fresh
  <2> QED BY <1>7, <2>1, TInvPool DEF HandOff
<1>8. ASSUME NEW w \in Worker, Spawn(w) PROVE TInv'
  <2>1. PoolType' /\ BoundType' /\ Referenced'
    BY <1>8, HeadTypes, WorkerTypes, FreshType
    DEF TInv, TypeOK, LogType, PoolType, Referenced, BoundType, Spawn, Eligible, Starting, Fresh
  <2> QED BY <1>8, <2>1, TInvPool DEF Spawn
<1>9. ASSUME NEW w \in Worker, BlockedHandOff(w) PROVE TInv'
  <2>1. PoolType' /\ BoundType' /\ Referenced'
    BY SMTT(60), <1>9, HeadTypes, WorkerTypes, FreshType, WalPoolAssumption
    DEF TInv, TypeOK, LogType, PoolType, Referenced, BoundType, BlockedHandOff, Assign, Fresh
  <2> QED BY <1>9, <2>1, TInvPool DEF BlockedHandOff
<1>10. ASSUME NEW w \in Worker, WorkerReady(w) PROVE TInv'
  <2>1. PoolType' /\ BoundType' /\ Referenced'
    BY SMTT(60), <1>10, WorkerTypes
    DEF TInv, TypeOK, LogType, PoolType, Referenced, BoundType, WorkerReady
  <2> QED BY <1>10, <2>1, TInvPool DEF WorkerReady
<1>11. ASSUME NEW w \in Worker, Retire(w) PROVE TInv'
  <2>1. PoolType' /\ BoundType' /\ Referenced'
    BY <1>11, WorkerTypes, FreshType
    DEF TInv, TypeOK, LogType, PoolType, Referenced, BoundType, Retire, Off, Fresh
  <2> QED BY <1>11, <2>1, TInvPool DEF Retire
<1>12. ASSUME NEW w \in Worker, ReadEntry(w) PROVE TInv'
  <2>1. PoolType' /\ BoundType' /\ Referenced'
    BY SMTT(60), <1>12, WorkerTypes
    DEF TInv, TypeOK, LogType, PoolType, Referenced, BoundType, ReadEntry
  <2> QED BY <1>12, <2>1, TInvPool DEF ReadEntry
<1>13. ASSUME NEW w \in Worker, Backoff(w) PROVE TInv'
  <2>1. PoolType' /\ BoundType' /\ Referenced'
    BY SMTT(60), <1>13, WorkerTypes
    DEF TInv, TypeOK, LogType, PoolType, Referenced, BoundType, Backoff
  <2> QED BY <1>13, <2>1, TInvPool DEF Backoff
<1>14. ASSUME NEW w \in Worker, WorkerStops(w) PROVE TInv'
  <2>1. PoolType' /\ BoundType' /\ Referenced'
    BY <1>14, WorkerTypes, FreshType
    DEF TInv, TypeOK, LogType, PoolType, Referenced, BoundType, WorkerStops, Off, Fresh
  <2> QED BY <1>14, <2>1, TInvPool DEF WorkerStops
<1>15. ASSUME NEW w \in Worker, OpenRepo(w) PROVE TInv'
  <2>1. KeyOf(w) \in Project /\ head[KeyOf(w)] \in Tree
    BY <1>15, WorkerTypes DEF TInv, TypeOK, GitType, OpenRepo
  <2>2. PoolType'
    BY ZenonT(60), <1>15, <2>1 DEF TInv, TypeOK, PoolType, OpenRepo
  <2>3. Referenced' /\ BoundType'
    BY <1>15, WorkerTypes DEF TInv, TypeOK, PoolType, BoundType, Referenced, OpenRepo
  <2> QED BY <1>15, <2>2, <2>3, TInvPool DEF OpenRepo
<1>16. ASSUME NEW w \in Worker, Retry(w) PROVE TInv'
  <2>1. wk[w].tries < MaxCommitAttempts
    BY <1>16, WorkerTypes, WalPoolAssumption DEF Retry, GivesUp
  <2>2. PoolType'
    BY <1>16, WorkerTypes DEF TInv, TypeOK, PoolType, Retry
  <2>3. Referenced' /\ BoundType'
    BY <1>16, <2>1, WorkerTypes DEF TInv, TypeOK, PoolType, BoundType, Referenced, Retry
  <2> QED BY <1>16, <2>2, <2>3, TInvPool DEF Retry
<1>17. ASSUME NEW w \in Worker, ReadFails(w) PROVE TInv'
  <2>1. LogType'
    BY <1>17, WorkerTypes, FreshType, WalPoolAssumption
    DEF TInv, TypeOK, LogType, ReadFails, Quarantine
  <2>2. GitType'
    BY <1>17, WorkerTypes, FreshType, WalPoolAssumption
    DEF TInv, TypeOK, GitType, ReadFails, Quarantine
  <2>3. PoolType'
    BY <1>17, WorkerTypes, FreshType, WalPoolAssumption
    DEF TInv, TypeOK, PoolType, ReadFails, Quarantine
  <2>4. BoundType'
    BY <1>17, WorkerTypes, FreshType, WalPoolAssumption
    DEF TInv, TypeOK, BoundType, ReadFails, Quarantine
  <2>5. Referenced'
    BY ZenonT(60), <1>17, WorkerTypes, FreshType, WalPoolAssumption
    DEF TInv, TypeOK, Referenced, LogType, GitType, PoolType, ReadFails, Quarantine
  <2>6. Bounded'
    BY <1>17, WorkerTypes, FreshType, WalPoolAssumption
    DEF TInv, TypeOK, Bounded, LogType, ReadFails, Quarantine
  <2> QED BY <2>1, <2>2, <2>3, <2>4, <2>5, <2>6 DEF TInv, TypeOK
<1>18. ASSUME NEW w \in Worker, RepoAbsent(w) PROVE TInv'
  <2>1. LogType'
    BY <1>18, WorkerTypes, FreshType, WalPoolAssumption DEF TInv, TypeOK, LogType, RepoAbsent
  <2>2. GitType'
    <3>1. KeyOf(w) \in Project
      BY <1>18, WorkerTypes DEF RepoAbsent
    <3> QED BY <1>18, <3>1 DEF TInv, TypeOK, GitType, RepoAbsent
  <2>3. PoolType'
    BY <1>18, WorkerTypes, FreshType, WalPoolAssumption DEF TInv, TypeOK, PoolType, RepoAbsent
  <2>4. BoundType'
    BY SMTT(60), <1>18, WorkerTypes, FreshType, WalPoolAssumption DEF TInv, TypeOK, BoundType, RepoAbsent
  <2>5. Referenced'
    BY SMTT(60), <1>18, WorkerTypes, FreshType, WalPoolAssumption
    DEF TInv, TypeOK, Referenced, LogType, GitType, PoolType, RepoAbsent
  <2>6. Bounded'
    BY <1>18, WorkerTypes, FreshType, WalPoolAssumption
    DEF TInv, TypeOK, Bounded, LogType, RepoAbsent
  <2> QED BY <2>1, <2>2, <2>3, <2>4, <2>5, <2>6 DEF TInv, TypeOK
<1>19. ASSUME NEW w \in Worker, CommitFails(w) PROVE TInv'
  <2>1. LogType'
    BY <1>19, WorkerTypes, FreshType, WalPoolAssumption
    DEF TInv, TypeOK, LogType, CommitFails, Fault
  <2>2. GitType'
    BY <1>19, WorkerTypes, FreshType, WalPoolAssumption
    DEF TInv, TypeOK, GitType, CommitFails, Fault
  <2>3. PoolType'
    BY <1>19, WorkerTypes, FreshType, WalPoolAssumption
    DEF TInv, TypeOK, PoolType, CommitFails, Fault
  <2>4. BoundType'
    BY SMTT(60), <1>19, WorkerTypes, FreshType, WalPoolAssumption
    DEF TInv, TypeOK, BoundType, CommitFails, Fault
  <2>5. Referenced'
    BY ZenonT(60), <1>19, WorkerTypes, FreshType, WalPoolAssumption
    DEF TInv, TypeOK, Referenced, LogType, GitType, PoolType, CommitFails, Fault
  <2>6. Bounded'
    BY <1>19, WorkerTypes, FreshType, WalPoolAssumption
    DEF TInv, TypeOK, Bounded, LogType, CommitFails, Fault
  <2> QED BY <2>1, <2>2, <2>3, <2>4, <2>5, <2>6 DEF TInv, TypeOK
<1>20. ASSUME NEW w \in Worker, Commit(w) PROVE TInv'
  <2>1. LogType'
    BY <1>20, WorkerTypes, FreshType DEF TInv, TypeOK, LogType, Commit
  <2>2. GitType'
    <3> DEFINE p == KeyOf(w)
               i == wk[w].ent.idx
               new == Apply(wk[w].base, acked[i])
    <3>1. p \in Project /\ i \in Nat /\ new \in Tree
      BY <1>20, WorkerTypes, ApplyType DEF Commit, File
    <3>2. head \in [Project -> Tree] /\ hist \in [Project -> Seq(Nat)] /\ hist[p] \in Seq(Nat)
      BY <3>1 DEF TInv, TypeOK, GitType
    <3>3. Append(hist[p], i) \in Seq(Nat) /\ <<i>> \in Seq(Nat)
      BY <3>1, <3>2, AppendProperties
    <3> HIDE DEF p, i, new
    <3>4. /\ head' \in {head, [head EXCEPT ![p] = new]}
          /\ hist' \in {hist, [hist EXCEPT ![p] = Append(hist[p], i)], [hist EXCEPT ![p] = <<i>>]}
          /\ UNCHANGED <<repo, dangerous, lostfound>>
      BY <1>20 DEF Commit, p, i, new
    <3>5. head' \in [Project -> Tree] /\ hist' \in [Project -> Seq(Nat)]
      BY <3>1, <3>2, <3>3, <3>4
    <3> QED BY <3>4, <3>5 DEF TInv, TypeOK, GitType
  <2>3. PoolType'
    BY ZenonT(60), <1>20, WorkerTypes, FreshType DEF TInv, TypeOK, PoolType, Commit
  <2>4. BoundType'
    BY <1>20, WorkerTypes, FreshType DEF TInv, TypeOK, BoundType, Commit
  <2>5. Referenced'
    BY <1>20, WorkerTypes, FreshType
    DEF TInv, TypeOK, Referenced, LogType, GitType, PoolType, Commit
  <2>6. Bounded'
    BY <1>20, WorkerTypes, FreshType DEF TInv, TypeOK, Bounded, LogType, Commit
  <2> QED BY <2>1, <2>2, <2>3, <2>4, <2>5, <2>6 DEF TInv, TypeOK
<1>21. ASSUME NEW w \in Worker, RemoveEntry(w) PROVE TInv'
  <2>1. LogType'
    BY <1>21, WorkerTypes, FreshType, WalPoolAssumption
    DEF TInv, TypeOK, LogType, RemoveEntry, Remove, Fault
  <2>2. GitType'
    BY <1>21, WorkerTypes, FreshType, WalPoolAssumption
    DEF TInv, TypeOK, GitType, RemoveEntry, Remove, Fault
  <2>3. PoolType'
    BY <1>21, WorkerTypes, FreshType, WalPoolAssumption
    DEF TInv, TypeOK, PoolType, RemoveEntry, Remove, Fault
  <2>4. BoundType'
    BY <1>21, WorkerTypes, FreshType, WalPoolAssumption
    DEF TInv, TypeOK, BoundType, RemoveEntry, Remove, Fault
  <2>5. Referenced'
    BY ZenonT(60), <1>21, WorkerTypes, FreshType, WalPoolAssumption
    DEF TInv, TypeOK, Referenced, LogType, GitType, PoolType, RemoveEntry, Remove, Fault
  <2>6. Bounded'
    BY <1>21, WorkerTypes, FreshType, WalPoolAssumption
    DEF TInv, TypeOK, Bounded, LogType, RemoveEntry, Remove, Fault
  <2> QED BY <2>1, <2>2, <2>3, <2>4, <2>5, <2>6 DEF TInv, TypeOK
<1>22. ASSUME NEW w \in Worker, Deposit(w) PROVE TInv'
  <2>1. LogType'
    BY <1>22, WorkerTypes, FreshType, WalPoolAssumption DEF TInv, TypeOK, LogType, Deposit
  <2>2. GitType'
    <3>1. wk[w].ent.idx \in Nat
      BY WorkerTypes DEF File
    <3> QED BY <1>22, <3>1 DEF TInv, TypeOK, GitType, Deposit
  <2>3. PoolType'
    BY <1>22, WorkerTypes, FreshType, WalPoolAssumption DEF TInv, TypeOK, PoolType, Deposit
  <2>4. BoundType'
    BY <1>22, WorkerTypes, FreshType, WalPoolAssumption DEF TInv, TypeOK, BoundType, Deposit
  <2>5. Referenced'
    BY ZenonT(60), <1>22, WorkerTypes, FreshType, WalPoolAssumption
    DEF TInv, TypeOK, Referenced, LogType, GitType, PoolType, Deposit
  <2>6. Bounded'
    BY <1>22, WorkerTypes, FreshType, WalPoolAssumption DEF TInv, TypeOK, Bounded, LogType, Deposit
  <2> QED BY <2>1, <2>2, <2>3, <2>4, <2>5, <2>6 DEF TInv, TypeOK
<1>23. ASSUME NEW w \in Worker, DepositFails(w) PROVE TInv'
  <2>1. LogType'
    BY <1>23, WorkerTypes, FreshType, WalPoolAssumption
    DEF TInv, TypeOK, LogType, DepositFails, Fault
  <2>2. GitType'
    BY <1>23, WorkerTypes, FreshType, WalPoolAssumption
    DEF TInv, TypeOK, GitType, DepositFails, Fault
  <2>3. PoolType'
    BY <1>23, WorkerTypes, FreshType, WalPoolAssumption
    DEF TInv, TypeOK, PoolType, DepositFails, Fault
  <2>4. BoundType'
    BY <1>23, WorkerTypes, FreshType, WalPoolAssumption
    DEF TInv, TypeOK, BoundType, DepositFails, Fault
  <2>5. Referenced'
    BY ZenonT(60), <1>23, WorkerTypes, FreshType, WalPoolAssumption
    DEF TInv, TypeOK, Referenced, LogType, GitType, PoolType, DepositFails, Fault
  <2>6. Bounded'
    BY <1>23, WorkerTypes, FreshType, WalPoolAssumption
    DEF TInv, TypeOK, Bounded, LogType, DepositFails, Fault
  <2> QED BY <2>1, <2>2, <2>3, <2>4, <2>5, <2>6 DEF TInv, TypeOK
<1>24. ASSUME NEW e \in Request, Append_(e) PROVE TInv'
  <2>1. LogType'
    BY <1>24, WalPoolAssumption DEF TInv, TypeOK, LogType, Append_, WithoutSeq, File
  <2>2. GitType'
    BY <1>24, WalPoolAssumption DEF TInv, TypeOK, GitType, Append_, WithoutSeq, File
  <2>3. PoolType'
    BY <1>24, WalPoolAssumption DEF TInv, TypeOK, PoolType, Append_, WithoutSeq, File
  <2>4. BoundType'
    BY <1>24, WalPoolAssumption DEF TInv, TypeOK, BoundType, Append_, WithoutSeq, File
  <2>5. Referenced'
    BY SMTT(60), <1>24, WalPoolAssumption
    DEF TInv, TypeOK, Referenced, LogType, GitType, PoolType, Append_, WithoutSeq, File
  <2>6. Bounded'
    <3>1. PICK n \in Nat : \A f \in disk : f.seq < n
      BY DEF TInv, Bounded
    <3>2. nextSeq \in Nat /\ disk \subseteq File
      BY DEF TInv, TypeOK, LogType
    <3>3. \A f \in disk' : f.seq < n + nextSeq + 1
      BY <1>24, <3>1, <3>2 DEF Append_, WithoutSeq, File
    <3> QED BY <3>1, <3>2, <3>3 DEF Bounded
  <2> QED BY <2>1, <2>2, <2>3, <2>4, <2>5, <2>6 DEF TInv, TypeOK
<1>25. CASE Shutdown
  <2>1. LogType'
    BY <1>25, WalPoolAssumption DEF TInv, TypeOK, LogType, Shutdown
  <2>2. GitType'
    BY <1>25, WalPoolAssumption DEF TInv, TypeOK, GitType, Shutdown
  <2>3. PoolType'
    BY <1>25, WalPoolAssumption DEF TInv, TypeOK, PoolType, Shutdown
  <2>4. BoundType'
    BY <1>25, WalPoolAssumption DEF TInv, TypeOK, BoundType, Shutdown
  <2>5. Referenced'
    BY <1>25, WalPoolAssumption DEF TInv, TypeOK, Referenced, LogType, GitType, PoolType, Shutdown
  <2>6. Bounded'
    BY <1>25, WalPoolAssumption DEF TInv, TypeOK, Bounded, LogType, Shutdown
  <2> QED BY <2>1, <2>2, <2>3, <2>4, <2>5, <2>6 DEF TInv, TypeOK
<1>26. ASSUME NEW bad \in SUBSET disk, Restart(bad) PROVE TInv'
  <2>1. PICK n \in Nat : \A f \in disk : f.seq < n
    BY DEF TInv, Bounded
  <2>2. disk \subseteq File /\ corrupted \subseteq File /\ acked \in Seq(Entry)
    BY DEF TInv, TypeOK, LogType
  <2>3. disk' \subseteq disk /\ corrupted' \subseteq corrupted \cup disk
    BY <1>26 DEF Restart, Quarantine
  <2>4. pending' = disk \ bad /\ nextSeq' = NextSeq(pending')
    BY <1>26 DEF Restart
  <2>5. nextSeq' \in Nat \ {0}
    <3>1. pending' \in SUBSET File /\ \A f \in pending' : f.seq < n
      BY <2>1, <2>2, <2>4
    <3> HIDE DEF NextSeq
    <3> QED BY <2>1, <2>4, <3>1, NextSeqAbove
  <2>6. LogType'
    BY <1>26, <2>2, <2>3, <2>4, <2>5 DEF LogType, Restart
  <2>7. GitType'
    BY <1>26 DEF TInv, TypeOK, GitType, Restart
  <2>8. /\ wk' \in [Worker -> WorkerRecord]
        /\ \A w \in Worker : wk'[w] \in {Off, Starting}
    <3> HIDE DEF WorkerRecord
    <3> QED BY <1>26, FreshType DEF Restart
  <2>9. PoolType'
    BY <1>26, <2>8 DEF PoolType, Restart
  <2>10. BoundType'
    <3>1. bad \subseteq disk /\ badReads \in 0..MaxBadReads /\ crashes \in 0..MaxCrashes
      BY DEF TInv, TypeOK, BoundType
    <3>2. badReads' \in 0..MaxBadReads
      BY <1>26 DEF Restart
    <3> QED BY <1>26, <3>1, <3>2, WalPoolAssumption DEF TInv, TypeOK, BoundType, Restart
  <2>11. Referenced'
    <3>1. \A w \in Worker : wk'[w].st \in {"off", "starting"}
      BY <2>8 DEF Off, Starting, Fresh
    <3>2. \A f \in disk' \cup pending' \cup corrupted' \cup heads' : f.idx \in DOMAIN acked
      BY <1>26, <2>3, <2>4 DEF TInv, Referenced, Restart
    <3>3. acked' = acked /\ dpc' = "select"
      BY <1>26 DEF Restart
    <3> QED BY <3>1, <3>2, <3>3 DEF Referenced
  <2>12. Bounded'
    BY <2>1, <2>3 DEF Bounded
  <2> QED BY <2>6, <2>7, <2>9, <2>10, <2>11, <2>12 DEF TInv, TypeOK
<1>27. ASSUME NEW p \in Project, RepoGone(p) PROVE TInv'
  <2>1. LogType'
    BY <1>27, WalPoolAssumption DEF TInv, TypeOK, LogType, RepoGone, Fault
  <2>2. GitType'
    BY <1>27, WalPoolAssumption DEF TInv, TypeOK, GitType, RepoGone, Fault
  <2>3. PoolType'
    BY <1>27, WalPoolAssumption DEF TInv, TypeOK, PoolType, RepoGone, Fault
  <2>4. BoundType'
    BY <1>27, WalPoolAssumption DEF TInv, TypeOK, BoundType, RepoGone, Fault
  <2>5. Referenced'
    BY <1>27, WalPoolAssumption
    DEF TInv, TypeOK, Referenced, LogType, GitType, PoolType, RepoGone, Fault
  <2>6. Bounded'
    BY <1>27, WalPoolAssumption DEF TInv, TypeOK, Bounded, LogType, RepoGone, Fault
  <2> QED BY <2>1, <2>2, <2>3, <2>4, <2>5, <2>6 DEF TInv, TypeOK
<1>28. CASE UNCHANGED vars
  BY <1>28 DEF TInv, TypeOK, LogType, GitType, PoolType, BoundType, Referenced, Bounded, vars
<1>29. ASSUME NEW w \in Worker, NEW st \in {"commit", "orphan"}, HeadUnreadable(w, st) PROVE TInv'
  <2>1. PoolType'
    BY ZenonT(60), <1>29, WorkerTypes, FreshType DEF TInv, TypeOK, PoolType, HeadUnreadable
  <2>2. BoundType'
    BY <1>29, WalPoolAssumption DEF TInv, TypeOK, BoundType, HeadUnreadable, Fault
  <2>3. Referenced'
    BY <1>29, WorkerTypes DEF TInv, TypeOK, PoolType, Referenced, HeadUnreadable
  <2> QED BY <1>29, <2>1, <2>2, <2>3, TInvPool DEF HeadUnreadable
<1> QED
  BY <1>1, <1>2, <1>3, <1>4, <1>5, <1>6, <1>7, <1>8, <1>9, <1>10, <1>11, <1>12,
     <1>13, <1>14, <1>15, <1>16, <1>17, <1>18, <1>19, <1>20, <1>21, <1>22, <1>23, <1>24,
     <1>25, <1>26, <1>27, <1>28, <1>29
  DEF Next, Dispatcher, WorkerStep, Process

\* The write-ahead log, the repositories and the pool keep their types in every
\* behaviour; among them, no entry is tried more than MaxCommitAttempts times.
THEOREM TypeCorrect == Spec => []TypeOK
<1>1. Init => TInv
  BY TInvInit
<1>2. TInv /\ [Next]_vars => TInv'
  BY TInvNext
<1>3. TInv => TypeOK
  BY DEF TInv
<1> QED BY <1>1, <1>2, <1>3, PTL DEF Spec

----------------------------------------------------------------------------
(* One worker per project *)

\* Every worker inside process holds its project's mark; the dispatcher blocked
\* on a send holds the mark of a project that no worker processes.
Marked ==
  /\ \A w \in Worker : wk[w].st \in Busy => KeyOf(w) \in inFlight
  /\ dpc = "handoff" =>
       /\ ProjOf(Oldest(heads)) \in inFlight
       /\ \A w \in Worker : wk[w].st \in Busy => KeyOf(w) # ProjOf(Oldest(heads))

MInv == Marked /\ OneWorkerPerProject

LEMMA MInvInit == Init => MInv
BY DEF Init, MInv, Marked, OneWorkerPerProject, Starting, Off, Fresh, Busy

\* Entries never change once acknowledged.
KeepsEntries == \A i \in DOMAIN acked : acked'[i] = acked[i]

\* No worker starts on an entry, and none changes its entry.
StartsNothing ==
  \A w \in Worker : wk'[w].st \in Busy => wk[w].st \in Busy /\ wk'[w].ent = wk[w].ent

\* A step that starts nothing and leaves the dispatcher alone.
LEMMA MInvQuiet ==
  ASSUME TInv, MInv, KeepsEntries, StartsNothing,
         UNCHANGED <<dpc, heads, inFlight>>
  PROVE  MInv'
<1>1. \A w \in Worker : wk'[w].st \in Busy => KeyOf(w)' = KeyOf(w)
  BY DEF TInv, Referenced, KeepsEntries, StartsNothing, KeyOf, ProjOf
<1>2. dpc = "handoff" => ProjOf(Oldest(heads))' = ProjOf(Oldest(heads))
  <2> SUFFICES ASSUME dpc = "handoff" PROVE ProjOf(Oldest(heads))' = ProjOf(Oldest(heads))
    OBVIOUS
  <2>1. heads # {}
    BY DEF TInv, Referenced
  <2>2. Oldest(heads).idx \in DOMAIN acked
    BY <2>1, HeadTypes
  <2> QED BY <2>2 DEF KeepsEntries, ProjOf
<1> QED BY <1>1, <1>2 DEF MInv, Marked, OneWorkerPerProject, StartsNothing

\* A step of the dispatcher that leaves the workers alone.
LEMMA MInvDispatcher ==
  ASSUME MInv, UNCHANGED <<acked, wk>>, dpc' # "handoff",
         \A w \in Worker : wk[w].st \in Busy => KeyOf(w) \in inFlight'
  PROVE  MInv'
BY DEF MInv, Marked, OneWorkerPerProject, KeyOf, ProjOf

\* Worker w starts on f, whose project no other worker processes.
LEMMA MInvAssign ==
  ASSUME TInv, MInv, NEW w \in Worker, wk[w].st = "idle", NEW f \in File, Assign(w, f),
         acked' = acked, dpc' = "loop", ProjOf(f) \in inFlight', inFlight \subseteq inFlight',
         \A v \in Worker : wk[v].st \in Busy => KeyOf(v) # ProjOf(f)
  PROVE  MInv'
<1>1. /\ wk'[w].st \in Busy /\ KeyOf(w)' = ProjOf(f)
      /\ \A v \in Worker \ {w} : wk'[v] = wk[v] /\ KeyOf(v)' = KeyOf(v)
  BY DEF TInv, TypeOK, PoolType, Assign, Fresh, Busy, WorkerState, KeyOf, ProjOf
<1> QED BY <1>1 DEF MInv, Marked, OneWorkerPerProject

LEMMA MInvNext == TInv /\ MInv /\ [Next]_vars => MInv'
<1> SUFFICES ASSUME TInv, MInv, [Next]_vars PROVE MInv'
  OBVIOUS
<1> USE DEF logVars, gitVars, dspVars, Busy, WorkerState
<1>1. CASE Wake
  BY <1>1, MInvDispatcher DEF MInv, Marked, Wake, Snapshot
<1>2. CASE Skip
  BY <1>2, MInvDispatcher DEF MInv, Marked, Skip
<1>3. CASE Saturated
  BY <1>3, MInvDispatcher DEF MInv, Marked, Saturated, Eligible
<1>4. CASE EndDispatch
  BY <1>4, MInvDispatcher DEF MInv, Marked, EndDispatch
<1>5. CASE DispatcherStops
  <2>1. \A w \in Worker : wk[w].st \in Busy => KeyOf(w) \in inFlight'
    BY <1>5 DEF MInv, Marked, DispatcherStops
  <2> QED BY <1>5, <2>1, MInvDispatcher DEF DispatcherStops
<1>6. ASSUME NEW w \in Worker, Done(w) PROVE MInv'
  <2>1. \A v \in Worker : wk'[v].st \in Busy => v # w /\ wk'[v] = wk[v]
    BY <1>6 DEF TInv, TypeOK, PoolType, Done, Starting, Fresh
  <2>2. \A v \in Worker : wk'[v].st \in Busy => KeyOf(v)' = KeyOf(v) /\ KeyOf(v) # KeyOf(w)
    BY <1>6, <2>1 DEF MInv, OneWorkerPerProject, Done, KeyOf, ProjOf
  <2> QED BY <1>6, <2>1, <2>2 DEF MInv, Marked, OneWorkerPerProject, Done, Unmark, Snapshot
<1>7. ASSUME NEW w \in Worker, HandOff(w) PROVE MInv'
  <2>1. Oldest(heads) \in File
    BY <1>7, HeadTypes DEF HandOff, Eligible
  <2>2. \A v \in Worker : wk[v].st \in Busy => KeyOf(v) # ProjOf(Oldest(heads))
    BY <1>7 DEF MInv, Marked, HandOff, Eligible
  <2> QED BY <1>7, <2>1, <2>2, MInvAssign DEF HandOff, Eligible
<1>8. ASSUME NEW w \in Worker, Spawn(w) PROVE MInv'
  <2>1. \A v \in Worker : wk'[v].st \in Busy => wk'[v] = wk[v]
    BY <1>8 DEF TInv, TypeOK, PoolType, Spawn, Starting, Fresh
  <2>2. \A v \in Worker : wk'[v].st \in Busy =>
           KeyOf(v)' = KeyOf(v) /\ KeyOf(v) \in inFlight /\ KeyOf(v) # ProjOf(Oldest(heads))
    BY <1>8, <2>1 DEF MInv, Marked, Spawn, Eligible, KeyOf, ProjOf
  <2>3. ProjOf(Oldest(heads))' = ProjOf(Oldest(heads))
    BY <1>8 DEF Spawn, ProjOf
  <2> QED BY <1>8, <2>1, <2>2, <2>3 DEF MInv, Marked, OneWorkerPerProject, Spawn
<1>9. ASSUME NEW w \in Worker, BlockedHandOff(w) PROVE MInv'
  <2>1. Oldest(heads) \in File
    BY <1>9, HeadTypes DEF BlockedHandOff, TInv, Referenced
  <2> QED BY <1>9, <2>1, MInvAssign DEF BlockedHandOff, MInv, Marked
<1>10. ASSUME NEW w \in Worker, WorkerReady(w) PROVE MInv'
  <2>1. StartsNothing /\ KeepsEntries
    BY <1>10
    DEF TInv, TypeOK, PoolType, WorkerRecord, StartsNothing, KeepsEntries, WorkerReady, Goto
  <2> QED BY <1>10, <2>1, MInvQuiet DEF WorkerReady
<1>11. ASSUME NEW w \in Worker, Retire(w) PROVE MInv'
  <2>1. StartsNothing /\ KeepsEntries
    BY <1>11
    DEF TInv, TypeOK, PoolType, WorkerRecord, StartsNothing, KeepsEntries, Retire, Goto, Off, Fresh
  <2> QED BY <1>11, <2>1, MInvQuiet DEF Retire
<1>12. ASSUME NEW w \in Worker, ReadEntry(w) PROVE MInv'
  <2>1. StartsNothing /\ KeepsEntries
    BY <1>12 DEF TInv, TypeOK, PoolType, WorkerRecord, StartsNothing, KeepsEntries, ReadEntry, Goto
  <2> QED BY <1>12, <2>1, MInvQuiet DEF ReadEntry
<1>13. ASSUME NEW w \in Worker, ReadFails(w) PROVE MInv'
  <2>1. StartsNothing /\ KeepsEntries
    BY <1>13 DEF TInv, TypeOK, PoolType, WorkerRecord, StartsNothing, KeepsEntries, ReadFails, Goto
  <2> QED BY <1>13, <2>1, MInvQuiet DEF ReadFails
<1>14. ASSUME NEW w \in Worker, OpenRepo(w) PROVE MInv'
  <2>1. StartsNothing /\ KeepsEntries
    BY <1>14 DEF TInv, TypeOK, PoolType, WorkerRecord, StartsNothing, KeepsEntries, OpenRepo, Goto
  <2> QED BY <1>14, <2>1, MInvQuiet DEF OpenRepo
<1>15. ASSUME NEW w \in Worker, RepoAbsent(w) PROVE MInv'
  <2>1. StartsNothing /\ KeepsEntries
    BY <1>15 DEF TInv, TypeOK, PoolType, WorkerRecord, StartsNothing, KeepsEntries, RepoAbsent, Goto
  <2> QED BY <1>15, <2>1, MInvQuiet DEF RepoAbsent
<1>16. ASSUME NEW w \in Worker, CommitFails(w) PROVE MInv'
  <2>1. StartsNothing /\ KeepsEntries
    BY <1>16
    DEF TInv, TypeOK, PoolType, WorkerRecord, StartsNothing, KeepsEntries, CommitFails, Goto
  <2> QED BY <1>16, <2>1, MInvQuiet DEF CommitFails
<1>17. ASSUME NEW w \in Worker, Commit(w) PROVE MInv'
  <2>1. StartsNothing /\ KeepsEntries
    BY <1>17 DEF TInv, TypeOK, PoolType, WorkerRecord, StartsNothing, KeepsEntries, Commit, Goto
  <2> QED BY <1>17, <2>1, MInvQuiet DEF Commit
<1>18. ASSUME NEW w \in Worker, RemoveEntry(w) PROVE MInv'
  <2>1. StartsNothing /\ KeepsEntries
    BY <1>18
    DEF TInv, TypeOK, PoolType, WorkerRecord, StartsNothing, KeepsEntries, RemoveEntry, Goto
  <2> QED BY <1>18, <2>1, MInvQuiet DEF RemoveEntry
<1>19. ASSUME NEW w \in Worker, Deposit(w) PROVE MInv'
  <2>1. StartsNothing /\ KeepsEntries
    BY <1>19 DEF TInv, TypeOK, PoolType, WorkerRecord, StartsNothing, KeepsEntries, Deposit, Goto
  <2> QED BY <1>19, <2>1, MInvQuiet DEF Deposit
<1>20. ASSUME NEW w \in Worker, DepositFails(w) PROVE MInv'
  <2>1. StartsNothing /\ KeepsEntries
    BY <1>20
    DEF TInv, TypeOK, PoolType, WorkerRecord, StartsNothing, KeepsEntries, DepositFails, Goto
  <2> QED BY <1>20, <2>1, MInvQuiet DEF DepositFails
<1>21. ASSUME NEW w \in Worker, Backoff(w) PROVE MInv'
  <2>1. StartsNothing /\ KeepsEntries
    BY <1>21 DEF TInv, TypeOK, PoolType, WorkerRecord, StartsNothing, KeepsEntries, Backoff, Goto
  <2> QED BY <1>21, <2>1, MInvQuiet DEF Backoff
<1>22. ASSUME NEW w \in Worker, Retry(w) PROVE MInv'
  <2>1. StartsNothing /\ KeepsEntries
    BY <1>22 DEF TInv, TypeOK, PoolType, WorkerRecord, StartsNothing, KeepsEntries, Retry, Goto
  <2> QED BY <1>22, <2>1, MInvQuiet DEF Retry
<1>23. ASSUME NEW w \in Worker, WorkerStops(w) PROVE MInv'
  <2>1. StartsNothing /\ KeepsEntries
    BY <1>23
    DEF TInv, TypeOK, PoolType, WorkerRecord, StartsNothing, KeepsEntries, WorkerStops, Goto, Off, Fresh, StopPoint
  <2> QED BY <1>23, <2>1, MInvQuiet DEF WorkerStops
<1>24. ASSUME NEW e \in Request, Append_(e) PROVE MInv'
  <2>1. StartsNothing /\ KeepsEntries
    BY <1>24, AppendProperties, WalPoolAssumption
    DEF TInv, TypeOK, LogType, StartsNothing, KeepsEntries, Append_
  <2> QED BY <1>24, <2>1, MInvQuiet DEF Append_
<1>25. CASE Shutdown
  BY <1>25, MInvQuiet DEF StartsNothing, KeepsEntries, Shutdown
<1>26. ASSUME NEW bad \in SUBSET disk, Restart(bad) PROVE MInv'
  <2>1. \A w \in Worker : wk'[w].st \notin Busy
    BY <1>26 DEF Restart, Starting, Off, Fresh
  <2> QED BY <1>26, <2>1 DEF MInv, Marked, OneWorkerPerProject, Restart
<1>27. ASSUME NEW p \in Project, RepoGone(p) PROVE MInv'
  BY <1>27, MInvQuiet DEF StartsNothing, KeepsEntries, RepoGone
<1>28. CASE UNCHANGED vars
  BY <1>28, MInvQuiet DEF StartsNothing, KeepsEntries, vars
<1>29. ASSUME NEW w \in Worker, NEW st \in {"commit", "orphan"}, HeadUnreadable(w, st) PROVE MInv'
  <2>1. StartsNothing /\ KeepsEntries
    BY <1>29 DEF TInv, TypeOK, PoolType, WorkerRecord, StartsNothing, KeepsEntries, HeadUnreadable
  <2> QED BY <1>29, <2>1, MInvQuiet DEF HeadUnreadable
<1> QED
  BY <1>1, <1>2, <1>3, <1>4, <1>5, <1>6, <1>7, <1>8, <1>9, <1>10, <1>11, <1>12,
     <1>13, <1>14, <1>15, <1>16, <1>17, <1>18, <1>19, <1>20, <1>21, <1>22, <1>23, <1>24,
     <1>25, <1>26, <1>27, <1>28, <1>29
  DEF Next, Dispatcher, WorkerStep, Process

\* However the dispatcher's snapshots, spawns and hand-offs interleave with
\* completions, crashes and shutdown, no two workers process entries of one
\* project.
THEOREM OneWorker == Spec => []OneWorkerPerProject
<1>1. Init => TInv /\ MInv
  BY TInvInit, MInvInit
<1>2. TInv /\ MInv /\ [Next]_vars => (TInv /\ MInv)'
  BY TInvNext, MInvNext
<1>3. MInv => OneWorkerPerProject
  BY DEF MInv
<1> QED BY <1>1, <1>2, <1>3, PTL DEF Spec

----------------------------------------------------------------------------
(* The order of commits, when wal-corrupted accepts every unreadable file *)

\* The files on disk are the pending entries; seqs and indices agree.
LogOrdered ==
  /\ pending = disk
  /\ \A f \in disk : f.seq < nextSeq
  /\ \A f, g \in disk : /\ f.seq < g.seq => f.idx < g.idx
                        /\ f.seq = g.seq => f = g

\* A recorded entry belongs to its project, and none of the project's files is
\* older.
HistBelow ==
  \A p \in Project : \A n \in DOMAIN hist[p] :
    /\ hist[p][n] \in DOMAIN acked
    /\ acked[hist[p][n]].proj = p
    /\ \A f \in disk : ProjOf(f) = p => hist[p][n] <= f.idx

\* A worker holds the oldest file of its project until it has removed it.
WorkerOldest ==
  \A w \in Worker : wk[w].st \in Busy \ {"done"} =>
    /\ wk[w].ent \in disk
    /\ \A f \in disk : ProjOf(f) = KeyOf(w) => wk[w].ent.seq <= f.seq

\* The snapshot may be stale, but not for a project the dispatcher may still
\* assign: its heads are on disk, and so are in the snapshot all older files.
Assignable(h) ==
  \/ ProjOf(h) \notin inFlight
  \/ dpc = "handoff" /\ ProjOf(h) = ProjOf(Oldest(heads))
HeadsCurrent ==
  \A h \in heads : Assignable(h) =>
    /\ h \in disk
    /\ \A f \in disk : ProjOf(f) = ProjOf(h) /\ f.seq < h.seq => f \in heads

\* Committing a project's last recorded entry again would record nothing.
LastIsNoop ==
  \A p \in Project : hist[p] # <<>> =>
    Apply(head[p], acked[hist[p][Len(hist[p])]]) = head[p]

\* HEAD was read, and between reading and advancing it nobody else moves it.
BaseCurrent ==
  \A w \in Worker :
    /\ wk[w].st # "orphan"
    /\ wk[w].st = "commit" => wk[w].base = head[KeyOf(w)]

OInv == /\ LogOrdered /\ HistBelow /\ WorkerOldest /\ HeadsCurrent
        /\ LastIsNoop /\ BaseCurrent /\ CommitOrder

LEMMA OInvInit == Init => OInv
BY DEF Init, OInv, LogOrdered, HistBelow, WorkerOldest, HeadsCurrent, LastIsNoop,
       BaseCurrent, CommitOrder, Starting, Off, Fresh, Busy

Holding == Busy \ {"done"}

\* Workers keep the entry they hold; none newly enters the commit.
KeepsHolding ==
  \A w \in Worker :
    /\ wk'[w].st \in Holding => wk[w].st \in Holding /\ wk'[w].ent = wk[w].ent
    /\ wk'[w].st # "orphan"
    /\ wk'[w].st = "commit" => wk'[w].base = head[KeyOf(w)]'

\* A step that leaves the log and the repositories' histories alone.
LEMMA OInvQuiet ==
  ASSUME OInv, HeadsCurrent', KeepsHolding,
         UNCHANGED <<acked, disk, pending, nextSeq, head, hist>>
  PROVE  OInv'
<1>1. LogOrdered' /\ HistBelow' /\ LastIsNoop' /\ CommitOrder'
  BY DEF OInv, LogOrdered, HistBelow, LastIsNoop, CommitOrder, ProjOf, Apply
<1>2. WorkerOldest'
  BY DEF OInv, WorkerOldest, KeepsHolding, Holding, KeyOf, ProjOf
<1>3. BaseCurrent'
  BY DEF BaseCurrent, KeepsHolding
<1> QED BY SMTT(60), <1>1, <1>2, <1>3 DEF OInv

\* A step of a worker that touches neither log nor HEAD.
LEMMA OInvWorker ==
  ASSUME OInv, KeepsHolding, UNCHANGED <<dpc, heads, inFlight>>,
         UNCHANGED <<acked, disk, pending, nextSeq, head, hist>>
  PROVE  OInv'
<1>1. HeadsCurrent'
  BY DEF OInv, HeadsCurrent, Assignable, ProjOf
<1> QED BY <1>1, OInvQuiet

\* Worker w starts on the oldest head of an assignable project.
LEMMA OInvAssign ==
  ASSUME TInv, OInv, NEW w \in Worker, heads # {}, Assignable(Oldest(heads)),
         Assign(w, Oldest(heads)), heads' = heads \ {Oldest(heads)},
         dpc' = "loop", inFlight' = inFlight \cup {ProjOf(Oldest(heads))},
         UNCHANGED <<acked, disk, pending, nextSeq, head, hist>>
  PROVE  OInv'
<1> DEFINE o == Oldest(heads)
<1>1. heads \in SUBSET File /\ disk \subseteq File
  BY DEF TInv, TypeOK, PoolType, LogType
<1>2. o \in heads /\ \A g \in heads : o.seq <= g.seq
  BY <1>1, OldestMember
<1>3. o \in disk /\ \A f \in disk : ProjOf(f) = ProjOf(o) => o.seq <= f.seq
  BY SMTT(60), <1>1, <1>2 DEF OInv, HeadsCurrent, File
<1>4. LogOrdered' /\ HistBelow' /\ LastIsNoop' /\ CommitOrder'
  BY DEF OInv, LogOrdered, HistBelow, LastIsNoop, CommitOrder, ProjOf, Apply
<1>5. /\ wk'[w].ent = o /\ wk'[w].st = "read"
      /\ \A v \in Worker \ {w} : wk'[v] = wk[v]
  BY DEF TInv, TypeOK, PoolType, Assign, Fresh
<1>6. WorkerOldest'
  BY <1>3, <1>5 DEF OInv, WorkerOldest, KeyOf, ProjOf
<1>7. BaseCurrent'
  BY <1>5 DEF OInv, BaseCurrent, KeyOf, ProjOf
<1>8. HeadsCurrent'
  BY <1>2 DEF OInv, HeadsCurrent, Assignable, ProjOf
<1> QED BY <1>4, <1>6, <1>7, <1>8 DEF OInv

\* Worker w is done with its entry, and its file leaves the log.
LEMMA OInvDrop ==
  ASSUME TInv, MInv, OInv, NEW w \in Worker, wk[w].st \in Holding,
         wk' = [wk EXCEPT ![w].st = "done"],
         disk' = disk \ {wk[w].ent}, pending' = pending \ {wk[w].ent},
         UNCHANGED <<acked, nextSeq, head, hist, dpc, heads, inFlight>>
  PROVE  OInv'
<1> DEFINE e == wk[w].ent
<1>1. /\ wk'[w].st = "done" /\ \A v \in Worker \ {w} : wk'[v] = wk[v]
  BY DEF TInv, TypeOK, PoolType, WorkerRecord
<1>2. ProjOf(e) \in inFlight
  BY SMTT(60) DEF MInv, Marked, Holding, KeyOf
<1>3. LogOrdered' /\ LastIsNoop' /\ CommitOrder'
  BY DEF OInv, LogOrdered, LastIsNoop, CommitOrder, Apply
<1>4. HistBelow'
  BY DEF OInv, HistBelow, ProjOf
<1>5. \A v \in Worker \ {w} : wk[v].st \in Busy => KeyOf(v) # KeyOf(w)
  BY DEF MInv, OneWorkerPerProject, Holding
<1>6. WorkerOldest'
  BY <1>1, <1>5 DEF OInv, WorkerOldest, KeyOf, ProjOf
<1>7. BaseCurrent'
  BY <1>1 DEF OInv, BaseCurrent, KeyOf, ProjOf
<1>8. \A h \in heads : Assignable(h) => ProjOf(h) # ProjOf(e)
  BY <1>2 DEF MInv, Marked, Assignable, Holding, KeyOf
<1>9. HeadsCurrent'
  BY <1>8 DEF OInv, HeadsCurrent, Assignable, ProjOf
<1> QED BY <1>3, <1>4, <1>6, <1>7, <1>9 DEF OInv

\* What a commit does: it builds on HEAD, and records its entry after all others of
\* the project, unless HEAD has its effect already.
LEMMA CommitEffect ==
  ASSUME TInv, MInv, OInv, NEW w \in Worker, Commit(w),
         NEW p, p = KeyOf(w), NEW i, i = wk[w].ent.idx, NEW e, e = acked[i],
         NEW new, new = Apply(head[p], e)
  PROVE  /\ wk[w].st = "commit" /\ p \in Project /\ i \in DOMAIN acked /\ i \in Nat
         /\ e \in Entry /\ e.proj = p
         /\ head \in [Project -> Tree] /\ hist \in [Project -> Seq(Nat)]
         /\ \A f \in disk : ProjOf(f) = p => i <= f.idx
         /\ \A n \in DOMAIN hist[p] : hist[p][n] <= i
         /\ i \in Elements(hist[p]) => new = head[p]
         /\ hist' = IF i \in Elements(hist[p]) THEN hist
                    ELSE [hist EXCEPT ![p] = Append(@, i)]
         /\ head' = [head EXCEPT ![p] = new]
<1>1. /\ wk[w].st = "commit" /\ p \in Project /\ i \in DOMAIN acked /\ i \in Nat
      /\ e \in Entry /\ e.proj = p
  <2>1. wk[w].st = "commit"
    BY DEF Commit, OInv, BaseCurrent
  <2> QED BY <2>1, WorkerTypes DEF Busy, WorkerState, KeyOf, ProjOf, File
<1>2. /\ head \in [Project -> Tree] /\ hist \in [Project -> Seq(Nat)]
      /\ head[p] \in Tree /\ hist[p] \in Seq(Nat) /\ disk \subseteq File
  BY <1>1 DEF TInv, TypeOK, GitType, LogType
<1>3. wk[w].base = head[p]
  BY <1>1 DEF OInv, BaseCurrent
<1>4. wk[w].ent \in disk /\ \A f \in disk : ProjOf(f) = p => wk[w].ent.seq <= f.seq
  BY <1>1 DEF OInv, WorkerOldest, Busy, WorkerState
<1>5. \A f \in disk : ProjOf(f) = p => i <= f.idx
  <2> SUFFICES ASSUME NEW f \in disk, ProjOf(f) = p PROVE i <= f.idx
    OBVIOUS
  <2>1. f \in File /\ wk[w].ent \in File
    BY <1>2, <1>4
  <2>2. /\ wk[w].ent.seq < f.seq => i < f.idx
        /\ wk[w].ent.seq = f.seq => wk[w].ent = f
    BY <1>4 DEF OInv, LogOrdered
  <2>3. f.seq \in Nat /\ f.idx \in Nat /\ wk[w].ent.seq \in Nat /\ wk[w].ent.seq <= f.seq
    BY <1>4, <2>1 DEF File
  <2>4. CASE wk[w].ent.seq < f.seq
    BY <1>1, <2>2, <2>3, <2>4
  <2>5. CASE wk[w].ent.seq = f.seq
    BY <1>1, <2>2, <2>3, <2>5
  <2> QED BY <2>3, <2>4, <2>5
<1>6. \A n \in DOMAIN hist[p] : hist[p][n] <= i
  <2>1. ProjOf(wk[w].ent) = p
    BY DEF KeyOf
  <2> QED BY <1>1, <1>4, <2>1 DEF OInv, HistBelow
\* An entry that is already recorded is the last one, and changes nothing.
<1>7. i \in Elements(hist[p]) => new = head[p]
  <2> SUFFICES ASSUME i \in Elements(hist[p]) PROVE new = head[p]
    OBVIOUS
  <2>1. PICK n \in DOMAIN hist[p] : hist[p][n] = i
    BY DEF Elements
  <2>2. n \in 1..Len(hist[p]) /\ Len(hist[p]) \in DOMAIN hist[p] /\ hist[p] # <<>>
    BY <1>2, <2>1, LenProperties, EmptySeq
  <2>3. n = Len(hist[p])
    <3> DEFINE m == Len(hist[p])
    <3>1. hist[p][m] <= i /\ hist[p][m] \in Nat
      BY <1>2, <1>6, <2>2, ElementOfSeq
    <3>2. n < m => i < hist[p][m]
      <4>1. \A j, k \in DOMAIN hist[p] : j < k => hist[p][j] < hist[p][k]
        BY <1>1 DEF OInv, CommitOrder
      <4> QED BY <2>1, <2>2, <4>1
    <3>3. m \in Nat /\ n \in 1..m
      BY <1>2, <2>2, LenProperties
    <3> HIDE DEF m
    <3>4. n = m
      BY <1>1, <3>1, <3>2, <3>3
    <3> QED BY <3>4 DEF m
  <2> QED BY <1>1, <2>1, <2>2, <2>3 DEF OInv, LastIsNoop
<1>8. head' = [head EXCEPT ![p] = new]
  <2>1. CASE new = head[p]
    BY <1>1, <1>2, <1>3, <2>1 DEF Commit
  <2>2. CASE new # head[p]
    BY <1>3, <2>2 DEF Commit
  <2> QED BY <2>1, <2>2
<1>9. hist' = IF i \in Elements(hist[p]) THEN hist ELSE [hist EXCEPT ![p] = Append(@, i)]
  BY <1>1, <1>3, <1>7 DEF Commit
<1> QED BY SMTT(60), <1>1, <1>2, <1>5, <1>6, <1>7, <1>8, <1>9

\* Worker w commits its entry on top of HEAD.
LEMMA OInvCommit ==
  ASSUME TInv, MInv, OInv, NEW w \in Worker, Commit(w)
  PROVE  OInv'
<1> DEFINE p == KeyOf(w)
           i == wk[w].ent.idx
           e == acked[i]
           new == Apply(head[p], e)
<1>1. /\ wk[w].st = "commit" /\ p \in Project /\ i \in DOMAIN acked /\ i \in Nat
      /\ e \in Entry /\ e.proj = p
  BY CommitEffect
<1>2. /\ head \in [Project -> Tree] /\ hist \in [Project -> Seq(Nat)]
      /\ head[p] \in Tree /\ hist[p] \in Seq(Nat) /\ disk \subseteq File
  BY <1>1 DEF TInv, TypeOK, GitType, LogType
<1>3. \A f \in disk : ProjOf(f) = p => i <= f.idx
  BY CommitEffect
<1>4. \A n \in DOMAIN hist[p] : hist[p][n] <= i
  BY CommitEffect
<1>5. i \in Elements(hist[p]) => new = head[p]
  BY CommitEffect
<1>6. new \in Tree /\ Apply(new, e) = new
  BY <1>1, <1>2, ApplyType, ApplyIdempotent
<1>7. wk'[w].st = "remove" /\ wk'[w].ent = wk[w].ent /\ \A v \in Worker \ {w} : wk'[v] = wk[v]
  BY DEF TInv, TypeOK, PoolType, WorkerRecord, Commit
<1>8. UNCHANGED <<acked, disk, pending, nextSeq, dpc, heads, inFlight>>
  BY DEF Commit, logVars, dspVars
<1>9. LogOrdered' /\ HeadsCurrent'
  BY <1>8 DEF OInv, LogOrdered, HeadsCurrent, Assignable, ProjOf
<1>10. WorkerOldest'
  BY <1>1, <1>7, <1>8 DEF OInv, WorkerOldest, KeyOf, ProjOf, Busy, WorkerState
<1>11. /\ head' = [head EXCEPT ![p] = new]
       /\ hist' = IF i \in Elements(hist[p]) THEN hist ELSE [hist EXCEPT ![p] = Append(@, i)]
  BY CommitEffect
<1>12. BaseCurrent'
  <2>1. \A v \in Worker \ {w} : wk[v].st = "commit" => KeyOf(v) # p /\ KeyOf(v) \in Project
    BY <1>1, WorkerTypes DEF MInv, OneWorkerPerProject, Busy, WorkerState
  <2>2. \A v \in Worker \ {w} : KeyOf(v)' = KeyOf(v)
    BY <1>7, <1>8 DEF KeyOf, ProjOf
  <2>3. \A q \in Project \ {p} : head'[q] = head[q]
    BY <1>2, <1>11
  <2>4. ASSUME NEW v \in Worker \ {w}, wk'[v].st = "commit"
        PROVE  wk'[v].base = head'[KeyOf(v)']
    BY <1>7, <2>1, <2>2, <2>3, <2>4 DEF OInv, BaseCurrent
  <2>5. \A v \in Worker : wk'[v].st # "orphan"
    BY <1>7 DEF OInv, BaseCurrent
  <2> QED BY <1>7, <2>4, <2>5 DEF BaseCurrent
<1>13. CASE i \in Elements(hist[p])
  <2>1. new = head[p] /\ head' = [head EXCEPT ![p] = new] /\ hist' = hist
    BY <1>5, <1>11, <1>13
  <2> HIDE DEF new
  <2>2. head' = head
    BY SMTT(60), <1>1, <1>2, <2>1
  <2>3. HistBelow' /\ LastIsNoop' /\ CommitOrder'
    BY <1>8, <2>1, <2>2 DEF OInv, HistBelow, LastIsNoop, CommitOrder, ProjOf, Apply
  <2> QED BY <1>9, <1>10, <1>12, <2>3 DEF OInv
<1>14. CASE i \notin Elements(hist[p])
  <2> DEFINE h == Append(hist[p], i)
             m == Len(hist[p])
  <2>1. hist' = [hist EXCEPT ![p] = h]
    BY <1>11, <1>14
  <2>2. /\ m \in Nat /\ DOMAIN hist[p] = 1..m /\ DOMAIN h = 1..(m + 1) /\ Len(h) = m + 1
        /\ \A n \in 1..m : h[n] = hist[p][n] /\ h[n] \in Nat
        /\ h[m + 1] = i
    BY <1>1, <1>2, AppendProperties, LenProperties, ElementOfSeq
  <2>3. \A n \in 1..m : h[n] < i
    BY <1>1, <1>4, <1>14, <2>2 DEF Elements
  <2> HIDE DEF h, m
  <2>4. hist'[p] = h /\ \A q \in Project \ {p} : hist'[q] = hist[q]
    BY <1>1, <1>2, <2>1
  <2>5. CommitOrder'
    <3>1. \A j, k \in 1..m : acked[h[j]].proj = p /\ (j < k => h[j] < h[k])
      BY <1>1, <2>2 DEF OInv, CommitOrder
    <3>2. \A j \in 1..(m + 1) : acked[h[j]].proj = p
      <4>1. acked[i].proj = p
        BY <1>1
      <4>2. \A j \in 1..(m + 1) : j \in 1..m \/ j = m + 1
        BY <2>2
      <4> QED BY <2>2, <3>1, <4>1, <4>2
    <3>3. ASSUME NEW j \in 1..(m + 1), NEW k \in 1..(m + 1), j < k
          PROVE  h[j] < h[k]
      <4>1. j \in 1..m /\ (k \in 1..m \/ k = m + 1)
        BY <2>2, <3>3
      <4> QED BY <2>2, <2>3, <3>1, <3>3, <4>1
    <3> QED BY <1>1, <1>8, <2>2, <2>4, <3>2, <3>3 DEF OInv, CommitOrder
  <2>6. HistBelow'
    <3>1. \A n \in 1..(m + 1) :
            /\ h[n] \in DOMAIN acked /\ acked[h[n]].proj = p
            /\ \A f \in disk : ProjOf(f) = p => h[n] <= f.idx
      BY SMTT(60), <1>1, <1>3, <2>2 DEF OInv, HistBelow
    <3> QED BY SMTT(60), <1>1, <1>8, <2>2, <2>4, <3>1 DEF OInv, HistBelow, ProjOf
  <2>7. LastIsNoop'
    <3>1. head'[p] = new /\ \A q \in Project \ {p} : head'[q] = head[q]
      BY <1>1, <1>2, <1>11
    <3>2. Apply(new, acked[h[Len(h)]]) = new
      BY <1>6, <2>2
    <3>3. \A q \in Project \ {p} : hist[q] # <<>> =>
            Apply(head[q], acked[hist[q][Len(hist[q])]]) = head[q]
      BY DEF OInv, LastIsNoop
    <3> HIDE DEF new
    <3>4. ASSUME NEW q \in Project, hist'[q] # <<>>
          PROVE  Apply(head'[q], acked'[hist'[q][Len(hist'[q])]]) = head'[q]
      <4>1. CASE q = p
        BY <1>8, <2>4, <3>1, <3>2, <4>1
      <4>2. CASE q # p
        BY <1>8, <2>4, <3>1, <3>3, <3>4, <4>2
      <4> QED BY <4>1, <4>2
    <3> QED BY <3>4 DEF LastIsNoop, Apply
  <2> QED BY <1>9, <1>10, <1>12, <2>5, <2>6, <2>7 DEF OInv
<1> QED BY <1>13, <1>14

\* A new entry gets a seq above every file's and an index above every entry's.
LEMMA OInvAppend ==
  ASSUME TInv, MInv, OInv, NEW e \in Request, Append_(e)
  PROVE  OInv'
<1> DEFINE f == [seq |-> nextSeq, idx |-> Len(acked) + 1]
<1>1. /\ e \in Entry /\ acked \in Seq(Entry) /\ disk \subseteq File /\ nextSeq \in Nat
      /\ heads \subseteq File /\ hist \in [Project -> Seq(Nat)]
  BY WalPoolAssumption DEF TInv, TypeOK, LogType, PoolType, GitType
<1>2. \A g \in disk : /\ g.idx \in Nat /\ g.seq \in Nat /\ g.seq < nextSeq
                       /\ g.idx \in DOMAIN acked
  BY <1>1 DEF TInv, Referenced, OInv, LogOrdered, File
<1>3. /\ Len(acked) \in Nat /\ DOMAIN acked = 1..Len(acked)
      /\ acked' \in Seq(Entry) /\ \A k \in DOMAIN acked : acked'[k] = acked[k]
      /\ DOMAIN acked \subseteq DOMAIN acked'
  BY <1>1, AppendProperties, LenProperties DEF Append_
<1>4. disk' = disk \cup {f} /\ pending' = disk' /\ nextSeq' = nextSeq + 1
  <2>1. WithoutSeq(disk, nextSeq) = disk
    BY <1>1, <1>2 DEF WithoutSeq
  <2> QED BY <2>1 DEF Append_, OInv, LogOrdered
<1>5. f.seq = nextSeq /\ f.idx = Len(acked) + 1
  OBVIOUS
<1> HIDE DEF f
<1>6. \A g \in disk : ProjOf(g)' = ProjOf(g)
  BY <1>2, <1>3 DEF ProjOf
<1>7. \A g \in heads : ProjOf(g)' = ProjOf(g)
  BY <1>3 DEF ProjOf, TInv, Referenced
<1>8. \A w \in Worker : wk[w].st \in Busy => KeyOf(w)' = KeyOf(w)
  BY <1>3, WorkerTypes DEF KeyOf, ProjOf, Append_
<1>9. LogOrdered'
  BY <1>1, <1>2, <1>3, <1>4, <1>5 DEF OInv, LogOrdered
<1>10. HistBelow'
  <2>1. ASSUME NEW p \in Project, NEW n \in DOMAIN hist[p]
        PROVE  /\ hist[p][n] \in DOMAIN acked'
               /\ acked'[hist[p][n]].proj = p
               /\ \A g \in disk' : ProjOf(g)' = p => hist[p][n] <= g.idx
    BY <1>3, <1>4, <1>5, <1>6 DEF OInv, HistBelow
  <2> QED BY <2>1 DEF HistBelow, Append_, gitVars
<1>11. WorkerOldest'
  <2>1. ASSUME NEW w \in Worker, wk[w].st \in Busy \ {"done"}
        PROVE  /\ wk[w].ent \in disk'
               /\ \A g \in disk' : ProjOf(g)' = KeyOf(w)' => wk[w].ent.seq <= g.seq
    BY <1>1, <1>2, <1>4, <1>5, <1>6, <1>8, <2>1 DEF OInv, WorkerOldest
  <2> QED BY <2>1 DEF WorkerOldest, Append_
<1>12. HeadsCurrent'
  <2>1. ASSUME NEW h \in heads, Assignable(h)'
        PROVE  /\ h \in disk'
               /\ \A g \in disk' : ProjOf(g)' = ProjOf(h)' /\ g.seq < h.seq => g \in heads
    <3>1. Assignable(h)
      <4>1. dpc = "handoff" => Oldest(heads) \in heads
        BY SMTT(60), HeadTypes DEF MInv, Marked
      <4> QED BY <1>7, <2>1, <4>1 DEF Assignable, Append_
    <3> QED BY <1>1, <1>2, <1>4, <1>5, <1>6, <1>7, <3>1 DEF OInv, HeadsCurrent
  <2> QED BY <2>1 DEF HeadsCurrent, Append_
<1>13. LastIsNoop'
  <2>1. ASSUME NEW p \in Project, hist[p] # <<>>
        PROVE  Apply(head[p], acked'[hist[p][Len(hist[p])]]) = head[p]
    <3>1. Len(hist[p]) \in DOMAIN hist[p]
      BY <1>1, <2>1, LenProperties, EmptySeq
    <3>2. acked'[hist[p][Len(hist[p])]] = acked[hist[p][Len(hist[p])]]
      BY <1>3, <3>1 DEF OInv, HistBelow
    <3> QED BY <2>1, <3>2 DEF OInv, LastIsNoop
  <2> QED BY <2>1 DEF LastIsNoop, Apply, Append_, gitVars
<1>14. BaseCurrent'
  BY <1>8 DEF OInv, BaseCurrent, Append_, gitVars, Busy, WorkerState
<1>15. CommitOrder'
  BY <1>3 DEF OInv, CommitOrder, HistBelow, Append_, gitVars
<1> QED BY <1>9, <1>10, <1>11, <1>12, <1>13, <1>14, <1>15 DEF OInv

\* A restart starts from the files that are left on disk.
LEMMA OInvRestart ==
  ASSUME ~QuarantineMayFail, TInv, OInv, NEW bad \in SUBSET disk, Restart(bad)
  PROVE  OInv'
<1>1. disk' = disk \ bad /\ pending' = disk' /\ disk' \in SUBSET File /\ nextSeq \in Nat
  BY DEF Restart, Quarantine, TInv, TypeOK, LogType
<1>2. \A f \in disk' : f.seq < nextSeq
  BY <1>1 DEF OInv, LogOrdered
<1>3. nextSeq' \in Nat \ {0} /\ \A f \in disk' : f.seq < nextSeq'
  BY <1>1, <1>2, NextSeqAbove DEF Restart
<1>4. LogOrdered'
  BY SMTT(60), <1>1, <1>3 DEF OInv, LogOrdered
<1>5. HistBelow' /\ LastIsNoop' /\ CommitOrder'
  BY <1>1 DEF OInv, HistBelow, LastIsNoop, CommitOrder, ProjOf, Apply, Restart, gitVars
<1>6. \A w \in Worker : wk'[w].st \in {"starting", "off"}
  BY DEF Restart, Starting, Off, Fresh
<1>7. WorkerOldest' /\ BaseCurrent' /\ HeadsCurrent'
  BY <1>6 DEF WorkerOldest, BaseCurrent, HeadsCurrent, Busy, WorkerState, Restart
<1> QED BY <1>4, <1>5, <1>7 DEF OInv

LEMMA OInvNext ==
  ASSUME ~QuarantineMayFail, ~HeadMayBeUnreadable, TInv, MInv, OInv, [Next]_vars
  PROVE  OInv'
<1>1. CASE Wake
  <2>1. HeadsCurrent'
    BY <1>1 DEF OInv, LogOrdered, HeadsCurrent, Wake, Snapshot, logVars
  <2>2. KeepsHolding
    BY <1>1 DEF OInv, BaseCurrent, KeepsHolding, KeyOf, ProjOf, Wake, gitVars
  <2> QED BY <1>1, <2>1, <2>2, OInvQuiet DEF Wake, logVars, gitVars
<1>2. CASE Skip
  <2>1. \A h \in heads' : Assignable(h)' => Assignable(h) /\ ProjOf(h) # ProjOf(Oldest(heads))
    BY <1>2 DEF Skip, Assignable, ProjOf
  <2>2. HeadsCurrent'
    <3>1. ASSUME NEW h \in heads', Assignable(h)'
          PROVE  /\ h \in disk
                 /\ \A f \in disk : ProjOf(f) = ProjOf(h) /\ f.seq < h.seq => f \in heads'
      BY <1>2, <2>1, <3>1 DEF OInv, HeadsCurrent, Skip
    <3> QED BY <1>2, <3>1 DEF HeadsCurrent, Skip, ProjOf, logVars
  <2>3. KeepsHolding
    BY <1>2 DEF OInv, BaseCurrent, KeepsHolding, KeyOf, ProjOf, Skip, gitVars
  <2> QED BY <1>2, <2>2, <2>3, OInvQuiet DEF Skip, logVars, gitVars
<1>3. CASE Saturated
  <2>1. HeadsCurrent' /\ KeepsHolding
    BY <1>3 DEF OInv, HeadsCurrent, BaseCurrent, KeepsHolding, KeyOf, ProjOf, Saturated, gitVars
  <2> QED BY <1>3, <2>1, OInvQuiet DEF Saturated, logVars, gitVars
<1>4. CASE EndDispatch
  <2>1. HeadsCurrent' /\ KeepsHolding
    BY <1>4 DEF OInv, HeadsCurrent, BaseCurrent, KeepsHolding, KeyOf, ProjOf, EndDispatch, gitVars
  <2> QED BY <1>4, <2>1, OInvQuiet DEF EndDispatch, logVars, gitVars
<1>5. CASE DispatcherStops
  <2>1. HeadsCurrent' /\ KeepsHolding
    BY <1>5
    DEF OInv, HeadsCurrent, BaseCurrent, KeepsHolding, KeyOf, ProjOf, DispatcherStops, gitVars
  <2> QED BY <1>5, <2>1, OInvQuiet DEF DispatcherStops, logVars, gitVars
<1>6. ASSUME NEW w \in Worker, Done(w) PROVE OInv'
  <2>1. KeepsHolding
    BY <1>6 DEF TInv, TypeOK, PoolType, OInv, BaseCurrent, KeepsHolding, Holding, Busy, WorkerState,
                 KeyOf, ProjOf, Done, gitVars, Starting, Fresh
  <2>2. HeadsCurrent'
    BY <1>6 DEF OInv, LogOrdered, HeadsCurrent, Done, Snapshot, logVars
  <2> QED BY <1>6, <2>1, <2>2, OInvQuiet DEF Done, logVars, gitVars
<1>7. ASSUME NEW w \in Worker, HandOff(w) PROVE OInv'
  <2>1. heads # {} /\ Assignable(Oldest(heads)) /\ dpc' = "loop"
    BY <1>7 DEF HandOff, Eligible, Assignable
  <2> QED BY <1>7, <2>1, OInvAssign DEF HandOff, logVars, gitVars
<1>8. ASSUME NEW w \in Worker, Spawn(w) PROVE OInv'
  <2>1. KeepsHolding
    BY <1>8 DEF TInv, TypeOK, PoolType, OInv, BaseCurrent, KeepsHolding, Holding, Busy, WorkerState,
                 KeyOf, ProjOf, Spawn, gitVars, Starting, Fresh
  <2>2. \A h \in heads' : Assignable(h)' => Assignable(h)
    BY <1>8 DEF Spawn, Eligible, Assignable, ProjOf
  <2>3. HeadsCurrent'
    BY <1>8, <2>2 DEF OInv, HeadsCurrent, Spawn, ProjOf, logVars
  <2> QED BY <1>8, <2>1, <2>3, OInvQuiet DEF Spawn, logVars, gitVars
<1>9. ASSUME NEW w \in Worker, BlockedHandOff(w) PROVE OInv'
  <2>1. heads # {} /\ ProjOf(Oldest(heads)) \in inFlight
    BY <1>9 DEF BlockedHandOff, MInv, Marked, TInv, Referenced
  <2>2. Assignable(Oldest(heads)) /\ inFlight' = inFlight \cup {ProjOf(Oldest(heads))}
    BY <1>9, <2>1 DEF BlockedHandOff, Assignable
  <2> QED BY <1>9, <2>1, <2>2, OInvAssign DEF BlockedHandOff, logVars, gitVars
<1>10. ASSUME NEW w \in Worker, WorkerReady(w) PROVE OInv'
  <2>1. KeepsHolding
    BY <1>10
    DEF TInv, TypeOK, PoolType, WorkerRecord, KeepsHolding, Holding, Busy, WorkerState, OInv, BaseCurrent, KeyOf, ProjOf,
             WorkerReady, gitVars, Goto
  <2> QED BY <1>10, <2>1, OInvWorker DEF WorkerReady, logVars, gitVars, dspVars
<1>11. ASSUME NEW w \in Worker, Retire(w) PROVE OInv'
  <2>1. KeepsHolding
    BY <1>11
    DEF TInv, TypeOK, PoolType, WorkerRecord, KeepsHolding, Holding, Busy, WorkerState, OInv, BaseCurrent, KeyOf, ProjOf,
             Retire, gitVars, Off, Fresh
  <2> QED BY <1>11, <2>1, OInvWorker DEF Retire, logVars, gitVars, dspVars
<1>12. ASSUME NEW w \in Worker, ReadEntry(w) PROVE OInv'
  <2>1. KeepsHolding
    BY <1>12
    DEF TInv, TypeOK, PoolType, WorkerRecord, KeepsHolding, Holding, Busy, WorkerState, OInv, BaseCurrent, KeyOf, ProjOf,
             ReadEntry, gitVars, Goto
  <2> QED BY <1>12, <2>1, OInvWorker DEF ReadEntry, logVars, gitVars, dspVars
<1>13. ASSUME NEW w \in Worker, OpenRepo(w) PROVE OInv'
  <2>1. KeepsHolding
    BY <1>13
    DEF TInv, TypeOK, PoolType, WorkerRecord, KeepsHolding, Holding, Busy, WorkerState, OInv, BaseCurrent, KeyOf, ProjOf,
             OpenRepo, gitVars
  <2> QED BY SMTT(60), <1>13, <2>1, OInvWorker DEF OpenRepo, logVars, gitVars, dspVars
<1>14. ASSUME NEW w \in Worker, RepoAbsent(w) PROVE OInv'
  <2>1. KeepsHolding
    BY <1>14
    DEF TInv, TypeOK, PoolType, WorkerRecord, KeepsHolding, Holding, Busy, WorkerState, OInv, BaseCurrent, KeyOf, ProjOf,
             RepoAbsent, gitVars
  <2> QED BY SMTT(60), <1>14, <2>1, OInvWorker DEF RepoAbsent, logVars, gitVars, dspVars
<1>15. ASSUME NEW w \in Worker, CommitFails(w) PROVE OInv'
  <2>1. KeepsHolding
    BY <1>15
    DEF TInv, TypeOK, PoolType, WorkerRecord, KeepsHolding, Holding, Busy, WorkerState, OInv, BaseCurrent, KeyOf, ProjOf,
             CommitFails, gitVars
  <2> QED BY SMTT(60), <1>15, <2>1, OInvWorker DEF CommitFails, logVars, gitVars, dspVars
<1>16. ASSUME NEW w \in Worker, Deposit(w) PROVE OInv'
  <2>1. KeepsHolding
    BY <1>16
    DEF TInv, TypeOK, PoolType, WorkerRecord, KeepsHolding, Holding, Busy, WorkerState, OInv, BaseCurrent, KeyOf, ProjOf,
             Deposit, gitVars, Goto
  <2> QED BY <1>16, <2>1, OInvWorker DEF Deposit, logVars, gitVars, dspVars
<1>17. ASSUME NEW w \in Worker, DepositFails(w) PROVE OInv'
  <2>1. KeepsHolding
    BY <1>17
    DEF TInv, TypeOK, PoolType, WorkerRecord, KeepsHolding, Holding, Busy, WorkerState, OInv, BaseCurrent, KeyOf, ProjOf,
             DepositFails, gitVars, Goto
  <2> QED BY <1>17, <2>1, OInvWorker DEF DepositFails, logVars, gitVars, dspVars
<1>18. ASSUME NEW w \in Worker, Backoff(w) PROVE OInv'
  <2>1. KeepsHolding
    BY <1>18
    DEF TInv, TypeOK, PoolType, WorkerRecord, KeepsHolding, Holding, Busy, WorkerState, OInv, BaseCurrent, KeyOf, ProjOf,
             Backoff, gitVars, Goto
  <2> QED BY <1>18, <2>1, OInvWorker DEF Backoff, logVars, gitVars, dspVars
<1>19. ASSUME NEW w \in Worker, Retry(w) PROVE OInv'
  <2>1. KeepsHolding
    BY <1>19
    DEF TInv, TypeOK, PoolType, WorkerRecord, KeepsHolding, Holding, Busy, WorkerState, OInv, BaseCurrent, KeyOf, ProjOf,
             Retry, gitVars, Goto
  <2> QED BY <1>19, <2>1, OInvWorker DEF Retry, logVars, gitVars, dspVars
<1>20. ASSUME NEW w \in Worker, WorkerStops(w) PROVE OInv'
  <2>1. KeepsHolding
    BY <1>20
    DEF TInv, TypeOK, PoolType, WorkerRecord, KeepsHolding, Holding, Busy, WorkerState, OInv, BaseCurrent, KeyOf, ProjOf,
             WorkerStops, gitVars, Off, Fresh
  <2> QED BY <1>20, <2>1, OInvWorker DEF WorkerStops, logVars, gitVars, dspVars
<1>21. ASSUME NEW w \in Worker, ReadFails(w) PROVE OInv'
  <2>1. wk[w].st \in Holding /\ disk' = disk \ {wk[w].ent}
    BY <1>21 DEF ReadFails, Quarantine, Holding, Busy, WorkerState
  <2> QED BY <1>21, <2>1, OInvDrop DEF ReadFails, Goto, gitVars, dspVars
<1>22. ASSUME NEW w \in Worker, RemoveEntry(w) PROVE OInv'
  <2>1. wk[w].st \in Holding
    BY <1>22 DEF RemoveEntry, Holding, Busy, WorkerState
  <2>2. CASE disk' = disk \ {wk[w].ent} /\ pending' = pending \ {wk[w].ent}
    BY <1>22, <2>1, <2>2, OInvDrop DEF RemoveEntry, Goto, gitVars, dspVars
  <2>3. CASE UNCHANGED <<disk, pending>>
    <3>1. KeepsHolding
      BY <1>22
      DEF TInv, TypeOK, PoolType, WorkerRecord, KeepsHolding, Holding, Busy, WorkerState, OInv, BaseCurrent, KeyOf, ProjOf,
               RemoveEntry, gitVars, Goto
    <3> QED BY <1>22, <2>3, <3>1, OInvWorker DEF RemoveEntry, gitVars, dspVars
  <2> QED BY <1>22, <2>2, <2>3 DEF RemoveEntry, Remove
<1>23. ASSUME NEW w \in Worker, Commit(w) PROVE OInv'
  BY <1>23, OInvCommit
<1>24. ASSUME NEW e \in Request, Append_(e) PROVE OInv'
  BY <1>24, OInvAppend
<1>25. CASE Shutdown
  <2>1. KeepsHolding
    BY <1>25 DEF OInv, BaseCurrent, KeepsHolding, KeyOf, ProjOf, Shutdown, gitVars
  <2> QED BY <1>25, <2>1, OInvWorker DEF Shutdown, logVars, gitVars, dspVars
<1>26. ASSUME NEW bad \in SUBSET disk, Restart(bad) PROVE OInv'
  BY <1>26, OInvRestart
<1>27. ASSUME NEW p \in Project, RepoGone(p) PROVE OInv'
  <2>1. KeepsHolding
    BY <1>27 DEF OInv, BaseCurrent, KeepsHolding, KeyOf, ProjOf, RepoGone
  <2> QED BY <1>27, <2>1, OInvWorker DEF RepoGone, logVars, dspVars
<1>28. CASE UNCHANGED vars
  <2>1. KeepsHolding
    BY <1>28 DEF OInv, BaseCurrent, KeepsHolding, KeyOf, ProjOf, vars, gitVars
  <2> QED BY <1>28, <2>1, OInvWorker DEF vars, logVars, gitVars, dspVars
<1> QED
  BY <1>1, <1>2, <1>3, <1>4, <1>5, <1>6, <1>7, <1>8, <1>9, <1>10, <1>11, <1>12,
     <1>13, <1>14, <1>15, <1>16, <1>17, <1>18, <1>19, <1>20, <1>21, <1>22, <1>23,
     <1>24, <1>25, <1>26, <1>27, <1>28
  DEF Next, Dispatcher, WorkerStep, Process, HeadUnreadable

\* Unless an unreadable file stays in the log directory or HEAD cannot be read,
\* every project's history records the acknowledged entries in order and none
\* twice, whatever crashes between commit and Remove, retries and failed removals
\* make the pool replay.
THEOREM CommitOrderHolds ==
  ~QuarantineMayFail /\ ~HeadMayBeUnreadable /\ Spec => []CommitOrder
<1>1. Init => TInv /\ MInv /\ OInv
  BY TInvInit, MInvInit, OInvInit
<1>2. /\ ~QuarantineMayFail /\ ~HeadMayBeUnreadable
      /\ TInv /\ MInv /\ OInv /\ [Next]_vars
      => (TInv /\ MInv /\ OInv)'
  BY TInvNext, MInvNext, OInvNext
<1>3. OInv => CommitOrder
  BY DEF OInv
<1> SUFFICES ASSUME ~QuarantineMayFail, ~HeadMayBeUnreadable PROVE Spec => []CommitOrder
  OBVIOUS
<1> QED BY <1>1, <1>2, <1>3, PTL DEF Spec

----------------------------------------------------------------------------
(* No entry is dropped *)

\* A worker removes a file only after its entry was recorded or deposited.
Settled ==
  \A w \in Worker :
    /\ wk[w].st = "remove" => wk[w].ent.idx \in Elements(hist[KeyOf(w)])
    /\ wk[w].st = "deposited" => wk[w].ent.idx \in lostfound

NInv == NoEntryLost /\ Settled

\* No file of wal-corrupted is replaced.  Log.quarantine names the file after its
\* seq, and a restart takes nextSeq from the files that are left, so that a second
\* unreadable entry may get the name of the first.
CorruptedKept == corrupted \subseteq corrupted'

LEMMA NInvInit == Init => NInv
BY DEF Init, NInv, NoEntryLost, Settled, Starting, Off, Fresh

\* No worker newly is about to remove its file.
KeepsSettled ==
  \A w \in Worker : wk'[w].st \in {"remove", "deposited"} =>
    wk[w].st = wk'[w].st /\ wk'[w].ent = wk[w].ent

LEMMA EntryTypes ==
  ASSUME TInv
  PROVE  \A i \in DOMAIN acked : acked[i] \in Entry /\ i \in Nat
<1>1. acked \in Seq(Entry)
  BY DEF TInv, TypeOK, LogType
<1> QED BY <1>1, ElementOfSeq

\* A step that takes no entry from where it is kept.
LEMMA NInvQuiet ==
  ASSUME TInv, NInv, acked' = acked, KeepsSettled,
         disk \cup corrupted \subseteq disk' \cup corrupted',
         lostfound \subseteq lostfound',
         \A p \in Project : Elements(hist[p]) \subseteq Elements(hist'[p])
  PROVE  NInv'
<1>1. \A i \in DOMAIN acked : acked[i].proj \in Project
  BY EntryTypes DEF Entry
<1>2. NoEntryLost'
  BY <1>1 DEF NInv, NoEntryLost
<1>3. Settled'
  <2> SUFFICES ASSUME NEW w \in Worker
               PROVE  /\ wk'[w].st = "remove" => wk'[w].ent.idx \in Elements(hist'[KeyOf(w)'])
                      /\ wk'[w].st = "deposited" => wk'[w].ent.idx \in lostfound'
    BY DEF Settled
  <2>1. CASE wk'[w].st = "remove"
    <3>1. wk[w].st = "remove" /\ wk'[w].ent = wk[w].ent
      BY <2>1 DEF KeepsSettled
    <3>2. KeyOf(w)' = KeyOf(w) /\ KeyOf(w) \in Project
      BY <3>1, WorkerTypes DEF Busy, WorkerState, KeyOf, ProjOf
    <3> QED BY <2>1, <3>1, <3>2 DEF NInv, Settled
  <2>2. CASE wk'[w].st = "deposited"
    BY <2>2 DEF NInv, Settled, KeepsSettled
  <2> QED BY <2>1, <2>2
<1> QED BY <1>2, <1>3 DEF NInv

\* A new entry is a file of the log, and overwrites none.
LEMMA NInvAppend ==
  ASSUME TInv, OInv, NInv, NEW e \in Request, Append_(e)
  PROVE  NInv'
<1> DEFINE i == Len(acked) + 1
<1>1. /\ acked \in Seq(Entry) /\ e \in Entry
      /\ DOMAIN acked' = DOMAIN acked \cup {i}
      /\ \A j \in DOMAIN acked : acked'[j] = acked[j]
  <2>1. acked \in Seq(Entry) /\ e \in Entry /\ acked' = Append(acked, e)
    BY WalPoolAssumption DEF TInv, TypeOK, LogType, Append_
  <2> QED BY <2>1, AppendProperties, LenProperties
<1>2. disk' = disk \cup {[seq |-> nextSeq, idx |-> i]}
  BY DEF OInv, LogOrdered, Append_, WithoutSeq, TInv, TypeOK, LogType, File
<1>3. \E f \in disk' : f.idx = i
  <2>1. [seq |-> nextSeq, idx |-> i].idx = i
    OBVIOUS
  <2> QED BY <1>2, <2>1
<1>4. NoEntryLost'
  BY <1>1, <1>2, <1>3 DEF NInv, NoEntryLost, Append_, gitVars
<1>5. \A w \in Worker : wk[w].st \in {"remove", "deposited"} => KeyOf(w)' = KeyOf(w)
  BY <1>1, WorkerTypes DEF Append_, KeyOf, ProjOf, Busy, WorkerState
<1> QED BY <1>4, <1>5 DEF NInv, Settled, Append_, gitVars

\* Worker w is the only one the step changes.
LEMMA NInvWorker ==
  ASSUME TInv, NInv, NEW w \in Worker, \A v \in Worker \ {w} : wk'[v] = wk[v],
         acked' = acked, corrupted' = corrupted, NoEntryLost', lostfound \subseteq lostfound',
         \A p \in Project : Elements(hist[p]) \subseteq Elements(hist'[p]),
         wk'[w].st = "remove" => wk'[w].ent.idx \in Elements(hist'[KeyOf(w)']),
         wk'[w].st = "deposited" => wk'[w].ent.idx \in lostfound'
  PROVE  NInv'
<1> SUFFICES ASSUME NEW v \in Worker \ {w}
             PROVE  /\ wk[v].st = "remove" => wk[v].ent.idx \in Elements(hist'[KeyOf(v)'])
                    /\ wk[v].st = "deposited" => wk[v].ent.idx \in lostfound'
  BY DEF NInv, Settled
<1>1. wk[v].st = "remove" => KeyOf(v)' = KeyOf(v) /\ KeyOf(v) \in Project
  BY WorkerTypes DEF Busy, WorkerState, KeyOf, ProjOf
<1> QED BY <1>1 DEF NInv, Settled

\* Worker w commits: its entry is recorded, by this commit or an earlier one.
LEMMA NInvCommit ==
  ASSUME TInv, MInv, OInv, NInv, NEW w \in Worker, Commit(w)
  PROVE  NInv'
<1> DEFINE p == KeyOf(w)
           i == wk[w].ent.idx
<1>1. /\ p \in Project /\ hist[p] \in Seq(Nat) /\ i \in Nat
      /\ hist' = IF i \in Elements(hist[p]) THEN hist ELSE [hist EXCEPT ![p] = Append(@, i)]
      /\ hist \in [Project -> Seq(Nat)]
  BY CommitEffect
<1>2. /\ wk'[w].st = "remove" /\ wk'[w].ent = wk[w].ent
      /\ \A v \in Worker \ {w} : wk'[v] = wk[v]
  BY DEF TInv, TypeOK, PoolType, WorkerRecord, Commit
<1>3. UNCHANGED <<acked, disk, corrupted, lostfound>>
  BY DEF Commit, logVars
<1>4. Elements(Append(hist[p], i)) = Elements(hist[p]) \cup {i}
  <2> DEFINE h == hist[p]
             m == Len(h)
             g == Append(h, i)
  <2>1. /\ m \in Nat /\ DOMAIN h = 1..m /\ DOMAIN g = 1..(m + 1)
        /\ \A n \in 1..m : g[n] = h[n]
        /\ g[m + 1] = i
    BY <1>1, AppendProperties, LenProperties
  <2> HIDE DEF h, m, g
  <2>2. \A n \in 1..(m + 1) : n \in 1..m \/ n = m + 1
    BY <2>1
  <2>3. \A n \in 1..m : n \in 1..(m + 1)
    BY <2>1
  <2>4. m + 1 \in 1..(m + 1)
    BY <2>1
  <2>5. Elements(g) = Elements(h) \cup {i}
    BY <2>1, <2>2, <2>3, <2>4 DEF Elements
  <2> QED BY <2>5 DEF h, g
<1>5. \A q \in Project : Elements(hist[q]) \subseteq Elements(hist'[q])
  BY <1>1, <1>4
<1>6. i \in Elements(hist'[p])
  BY <1>1, <1>4
<1>7. \A j \in DOMAIN acked : acked[j].proj \in Project
  BY EntryTypes DEF Entry
<1>8. NoEntryLost'
  BY <1>3, <1>5, <1>7 DEF NInv, NoEntryLost
<1>9. KeyOf(w)' = p
  BY <1>2, <1>3 DEF KeyOf, ProjOf
<1> QED BY <1>2, <1>3, <1>5, <1>6, <1>8, <1>9, NInvWorker

\* The file of an entry goes once the entry is recorded or deposited.
LEMMA NInvRemove ==
  ASSUME TInv, NInv, NEW w \in Worker, RemoveEntry(w)
  PROVE  NInv'
<1> DEFINE p == KeyOf(w)
           i == wk[w].ent.idx
<1>1. /\ wk'[w].st = "done" /\ \A v \in Worker \ {w} : wk'[v] = wk[v]
      /\ UNCHANGED <<acked, corrupted, hist, lostfound>>
  BY DEF TInv, TypeOK, PoolType, WorkerRecord, RemoveEntry, Goto, gitVars
<1>2. disk \ {wk[w].ent} \subseteq disk'
  BY DEF RemoveEntry, Remove
<1>3. i \in lostfound \/ i \in Elements(hist[p])
  BY DEF NInv, Settled, RemoveEntry
<1>4. \A j \in DOMAIN acked : j # i => \A f \in disk : f.idx = j => f \in disk'
  BY <1>2
<1>5. NoEntryLost'
  <2> SUFFICES ASSUME NEW j \in DOMAIN acked
               PROVE  \/ \E f \in disk' \cup corrupted : f.idx = j
                      \/ j \in lostfound
                      \/ j \in Elements(hist[acked[j].proj])
    BY <1>1 DEF NoEntryLost
  <2>1. CASE j = i
    BY <1>3, <2>1 DEF KeyOf, ProjOf
  <2>2. CASE j # i
    BY <1>4, <2>2 DEF NInv, NoEntryLost
  <2> QED BY <2>1, <2>2
<1> QED BY <1>1, <1>5, NInvWorker

LEMMA NInvDeposit ==
  ASSUME TInv, NInv, NEW w \in Worker, Deposit(w)
  PROVE  NInv'
<1>1. /\ wk'[w].st = "deposited" /\ wk'[w].ent = wk[w].ent
      /\ \A v \in Worker \ {w} : wk'[v] = wk[v]
      /\ lostfound' = lostfound \cup {wk[w].ent.idx}
      /\ UNCHANGED <<acked, disk, corrupted, hist>>
  BY DEF TInv, TypeOK, PoolType, WorkerRecord, Deposit, Goto, gitVars, logVars
<1>2. NoEntryLost'
  BY <1>1 DEF NInv, NoEntryLost
<1> QED BY <1>1, <1>2, NInvWorker

LEMMA NInvNext ==
  ASSUME TInv, MInv, OInv, NInv, [Next]_vars, CorruptedKept
  PROVE  NInv'
<1> USE DEF logVars, gitVars, dspVars
<1>1. CASE Wake
  BY <1>1, NInvQuiet DEF KeepsSettled, Wake, Snapshot
<1>2. CASE Skip
  BY <1>2, NInvQuiet DEF KeepsSettled, Skip
<1>3. CASE Saturated
  BY <1>3, NInvQuiet DEF KeepsSettled, Saturated
<1>4. CASE EndDispatch
  BY <1>4, NInvQuiet DEF KeepsSettled, EndDispatch
<1>5. CASE DispatcherStops
  BY <1>5, NInvQuiet DEF KeepsSettled, DispatcherStops
<1>6. ASSUME NEW w \in Worker, Done(w) PROVE NInv'
  <2>1. KeepsSettled
    BY <1>6 DEF TInv, TypeOK, PoolType, WorkerRecord, KeepsSettled, Done, Starting, Fresh
  <2> QED BY <1>6, <2>1, NInvQuiet DEF Done
<1>7. ASSUME NEW w \in Worker, HandOff(w) PROVE NInv'
  <2>1. KeepsSettled
    BY <1>7 DEF TInv, TypeOK, PoolType, WorkerRecord, KeepsSettled, HandOff, Assign, Fresh
  <2> QED BY <1>7, <2>1, NInvQuiet DEF HandOff
<1>8. ASSUME NEW w \in Worker, Spawn(w) PROVE NInv'
  <2>1. KeepsSettled
    BY <1>8 DEF TInv, TypeOK, PoolType, WorkerRecord, KeepsSettled, Spawn, Starting, Fresh
  <2> QED BY <1>8, <2>1, NInvQuiet DEF Spawn
<1>9. ASSUME NEW w \in Worker, BlockedHandOff(w) PROVE NInv'
  <2>1. KeepsSettled
    BY <1>9 DEF TInv, TypeOK, PoolType, WorkerRecord, KeepsSettled, BlockedHandOff, Assign, Fresh
  <2> QED BY <1>9, <2>1, NInvQuiet DEF BlockedHandOff
<1>10. ASSUME NEW w \in Worker, WorkerReady(w) PROVE NInv'
  <2>1. KeepsSettled
    BY <1>10 DEF TInv, TypeOK, PoolType, WorkerRecord, KeepsSettled, WorkerReady, Goto
  <2> QED BY <1>10, <2>1, NInvQuiet DEF WorkerReady
<1>11. ASSUME NEW w \in Worker, Retire(w) PROVE NInv'
  <2>1. KeepsSettled
    BY <1>11 DEF TInv, TypeOK, PoolType, WorkerRecord, KeepsSettled, Retire, Off, Fresh
  <2> QED BY <1>11, <2>1, NInvQuiet DEF Retire
<1>12. ASSUME NEW w \in Worker, ReadEntry(w) PROVE NInv'
  <2>1. KeepsSettled
    BY <1>12 DEF TInv, TypeOK, PoolType, WorkerRecord, KeepsSettled, ReadEntry, Goto
  <2> QED BY <1>12, <2>1, NInvQuiet DEF ReadEntry
<1>13. ASSUME NEW w \in Worker, OpenRepo(w) PROVE NInv'
  <2>1. KeepsSettled
    BY <1>13 DEF TInv, TypeOK, PoolType, WorkerRecord, KeepsSettled, OpenRepo
  <2> QED BY <1>13, <2>1, NInvQuiet DEF OpenRepo
<1>14. ASSUME NEW w \in Worker, RepoAbsent(w) PROVE NInv'
  <2>1. KeepsSettled
    BY <1>14 DEF TInv, TypeOK, PoolType, WorkerRecord, KeepsSettled, RepoAbsent
  <2> QED BY <1>14, <2>1, NInvQuiet DEF RepoAbsent
<1>15. ASSUME NEW w \in Worker, CommitFails(w) PROVE NInv'
  <2>1. KeepsSettled
    BY <1>15 DEF TInv, TypeOK, PoolType, WorkerRecord, KeepsSettled, CommitFails
  <2> QED BY <1>15, <2>1, NInvQuiet DEF CommitFails
<1>16. ASSUME NEW w \in Worker, DepositFails(w) PROVE NInv'
  <2>1. KeepsSettled
    BY <1>16 DEF TInv, TypeOK, PoolType, WorkerRecord, KeepsSettled, DepositFails, Goto
  <2> QED BY <1>16, <2>1, NInvQuiet DEF DepositFails
<1>17. ASSUME NEW w \in Worker, Backoff(w) PROVE NInv'
  <2>1. KeepsSettled
    BY <1>17 DEF TInv, TypeOK, PoolType, WorkerRecord, KeepsSettled, Backoff, Goto
  <2> QED BY <1>17, <2>1, NInvQuiet DEF Backoff
<1>18. ASSUME NEW w \in Worker, Retry(w) PROVE NInv'
  <2>1. KeepsSettled
    BY <1>18 DEF TInv, TypeOK, PoolType, WorkerRecord, KeepsSettled, Retry, Goto
  <2> QED BY <1>18, <2>1, NInvQuiet DEF Retry
<1>19. ASSUME NEW w \in Worker, WorkerStops(w) PROVE NInv'
  <2>1. KeepsSettled
    BY <1>19 DEF TInv, TypeOK, PoolType, WorkerRecord, KeepsSettled, WorkerStops, Off, Fresh
  <2> QED BY <1>19, <2>1, NInvQuiet DEF WorkerStops
<1>20. ASSUME NEW w \in Worker, NEW st, HeadUnreadable(w, st) PROVE NInv'
  <2>1. KeepsSettled
    BY <1>20 DEF TInv, TypeOK, PoolType, WorkerRecord, KeepsSettled, HeadUnreadable
  <2> QED BY <1>20, <2>1, NInvQuiet DEF HeadUnreadable
<1>21. ASSUME NEW w \in Worker, ReadFails(w) PROVE NInv'
  <2>1. KeepsSettled
    BY <1>21 DEF TInv, TypeOK, PoolType, WorkerRecord, KeepsSettled, ReadFails, Goto
  <2>2. disk \cup corrupted \subseteq disk' \cup corrupted'
    BY <1>21 DEF ReadFails, Quarantine, CorruptedKept
  <2> QED BY <1>21, <2>1, <2>2, NInvQuiet DEF ReadFails
<1>22. ASSUME NEW bad \in SUBSET disk, Restart(bad) PROVE NInv'
  <2>1. KeepsSettled
    BY <1>22 DEF KeepsSettled, Restart, Starting, Off, Fresh
  <2>2. disk \cup corrupted \subseteq disk' \cup corrupted'
    BY <1>22 DEF Restart, Quarantine, CorruptedKept
  <2> QED BY <1>22, <2>1, <2>2, NInvQuiet DEF Restart
<1>23. ASSUME NEW e \in Request, Append_(e) PROVE NInv'
  BY <1>23, NInvAppend
<1>24. ASSUME NEW w \in Worker, Commit(w) PROVE NInv'
  BY <1>24, NInvCommit
<1>25. ASSUME NEW w \in Worker, RemoveEntry(w) PROVE NInv'
  BY <1>25, NInvRemove
<1>26. ASSUME NEW w \in Worker, Deposit(w) PROVE NInv'
  BY <1>26, NInvDeposit
<1>27. CASE Shutdown
  BY <1>27, NInvQuiet DEF KeepsSettled, Shutdown
<1>28. ASSUME NEW p \in Project, RepoGone(p) PROVE NInv'
  BY <1>28, NInvQuiet DEF KeepsSettled, RepoGone
<1>29. CASE UNCHANGED vars
  BY <1>29, NInvQuiet DEF KeepsSettled, vars
<1> QED
  BY <1>1, <1>2, <1>3, <1>4, <1>5, <1>6, <1>7, <1>8, <1>9, <1>10, <1>11, <1>12, <1>13,
     <1>14, <1>15, <1>16, <1>17, <1>18, <1>19, <1>20, <1>21, <1>22, <1>23, <1>24, <1>25,
     <1>26, <1>27, <1>28, <1>29
  DEF Next, Dispatcher, WorkerStep, Process

\* An acknowledged entry is in the log, in wal-corrupted, in lost+found or in its
\* project's history, whatever fails or is interrupted, as long as the rename of an
\* unreadable file succeeds and replaces no other, and HEAD can be read.
THEOREM NothingDropped ==
  ~QuarantineMayFail /\ ~HeadMayBeUnreadable /\ Spec /\ [][CorruptedKept]_vars
    => []NoEntryLost
<1>1. Init => TInv /\ MInv /\ OInv /\ NInv
  BY TInvInit, MInvInit, OInvInit, NInvInit
<1>2. /\ ~QuarantineMayFail /\ ~HeadMayBeUnreadable
      /\ TInv /\ MInv /\ OInv /\ NInv /\ [Next]_vars /\ [CorruptedKept]_vars
      => (TInv /\ MInv /\ OInv /\ NInv)'
  <2> SUFFICES ASSUME ~QuarantineMayFail, ~HeadMayBeUnreadable, TInv, MInv, OInv, NInv,
                      [Next]_vars, [CorruptedKept]_vars
               PROVE  (TInv /\ MInv /\ OInv /\ NInv)'
    OBVIOUS
  <2>1. CorruptedKept
    BY DEF CorruptedKept, vars, logVars
  <2> QED BY <2>1, TInvNext, MInvNext, OInvNext, NInvNext
<1>3. NInv => NoEntryLost
  BY DEF NInv
<1> SUFFICES ASSUME ~QuarantineMayFail, ~HeadMayBeUnreadable
             PROVE  Spec /\ [][CorruptedKept]_vars => []NoEntryLost
  OBVIOUS
<1> QED BY <1>1, <1>2, <1>3, PTL DEF Spec

\* As long as no second file is found unreadable, none can take the name of another.
BInv == IsFiniteSet(disk) /\ (badReads = 0 => corrupted = {})

LEMMA BInvNext ==
  ASSUME MaxBadReads <= 1, TInv, BInv, [Next]_vars
  PROVE  CorruptedKept /\ BInv'
<1> USE DEF logVars, gitVars, dspVars
<1>1. badReads \in Nat /\ MaxBadReads \in Nat
  BY WalPoolAssumption DEF TInv, TypeOK, BoundType
<1>2. ASSUME NEW e \in Request, Append_(e) PROVE CorruptedKept /\ BInv'
  <2>1. disk' \subseteq disk \cup {[seq |-> nextSeq, idx |-> Len(acked) + 1]}
    BY <1>2 DEF Append_, WithoutSeq
  <2>2. IsFiniteSet(disk')
    BY <2>1, FS_AddElement, FS_Subset DEF BInv
  <2> QED BY <1>2, <2>2 DEF Append_, BInv, CorruptedKept
<1>3. ASSUME NEW w \in Worker, ReadFails(w) PROVE CorruptedKept /\ BInv'
  <2>1. badReads = 0 /\ badReads' = 1 /\ corrupted = {} /\ disk' \subseteq disk
    BY <1>1, <1>3 DEF ReadFails, Quarantine, BInv
  <2> QED BY <2>1, FS_Subset DEF BInv, CorruptedKept
<1>4. ASSUME NEW bad \in SUBSET disk, Restart(bad) PROVE CorruptedKept /\ BInv'
  <2>1. IsFiniteSet(disk') /\ IsFiniteSet(bad) /\ Cardinality(bad) \in Nat
    BY <1>4, FS_Subset, FS_CardinalityType DEF Restart, Quarantine, BInv
  <2>2. CASE bad = {}
    <3>1. Cardinality(bad) = 0
      BY <2>2, FS_EmptySet
    <3> QED BY <1>1, <1>4, <2>1, <2>2, <3>1 DEF Restart, Quarantine, BInv, CorruptedKept, Seqs
  <2>3. CASE bad # {}
    <3>1. Cardinality(bad) # 0
      BY <2>1, <2>3, FS_EmptySet
    <3>2. badReads = 0 /\ badReads' # 0
      BY <1>1, <1>4, <2>1, <3>1 DEF Restart
    <3> QED BY <2>1, <3>2 DEF BInv, CorruptedKept
  <2> QED BY <2>2, <2>3
<1>5. ASSUME NEW w \in Worker, RemoveEntry(w) PROVE CorruptedKept /\ BInv'
  <2>1. disk' \subseteq disk
    BY <1>5 DEF RemoveEntry, Remove
  <2> QED BY <1>5, <2>1, FS_Subset DEF RemoveEntry, BInv, CorruptedKept
<1>6. ASSUME UNCHANGED <<disk, corrupted, badReads>> PROVE CorruptedKept /\ BInv'
  BY <1>6 DEF BInv, CorruptedKept
<1>7. CASE Dispatcher
  BY <1>6, <1>7 DEF Dispatcher, Wake, Skip, Saturated, EndDispatch, DispatcherStops,
                    Done, HandOff, Spawn, BlockedHandOff
<1>8. ASSUME NEW w \in Worker, WorkerReady(w) \/ Retire(w) \/ WorkerStops(w)
      PROVE  CorruptedKept /\ BInv'
  BY SMTT(60), <1>6, <1>8 DEF WorkerReady, Retire, WorkerStops
<1>9. ASSUME NEW w \in Worker, Process(w) PROVE CorruptedKept /\ BInv'
  BY <1>3, <1>5, <1>6, <1>9
  DEF Process, ReadEntry, OpenRepo, HeadUnreadable, RepoAbsent, CommitFails, Commit,
      Deposit, DepositFails, Backoff, Retry
<1>10. CASE Shutdown \/ (\E p \in Project : RepoGone(p)) \/ UNCHANGED vars
  BY <1>6, <1>10 DEF Shutdown, RepoGone, vars
<1> QED BY <1>2, <1>4, <1>7, <1>8, <1>9, <1>10 DEF Next, WorkerStep

\* With one unreadable file at most, no file of wal-corrupted is ever replaced.
THEOREM CorruptedFilesKept ==
  MaxBadReads <= 1 /\ Spec => [][CorruptedKept]_vars
<1>1. Init => TInv /\ BInv
  BY TInvInit, FS_EmptySet DEF Init, BInv
<1>2. MaxBadReads <= 1 /\ TInv /\ BInv /\ [Next]_vars => (TInv /\ BInv)' /\ [CorruptedKept]_vars
  BY TInvNext, BInvNext
<1> SUFFICES ASSUME MaxBadReads <= 1 PROVE Spec => [][CorruptedKept]_vars
  OBVIOUS
<1> QED BY <1>1, <1>2, PTL DEF Spec

----------------------------------------------------------------------------
(* Every step is a step of CommitLog *)

\* A commit of worker w records its entry, and every entry of the project before it
\* is settled.
LEMMA CommitRecords ==
  ASSUME TInv, MInv, OInv, NInv, NEW w \in Worker, Commit(w)
  PROVE  Promise!CLNext \/ UNCHANGED Promise!clVars
<1> DEFINE p == KeyOf(w)
           i == wk[w].ent.idx
<1>1. /\ p \in Project /\ i \in DOMAIN acked /\ i \in Nat /\ acked[i].proj = p
      /\ hist[p] \in Seq(Nat)
      /\ \A f \in disk : ProjOf(f) = p => i <= f.idx
      /\ \A n \in DOMAIN hist[p] : hist[p][n] <= i
      /\ hist' = IF i \in Elements(hist[p]) THEN hist ELSE [hist EXCEPT ![p] = Append(@, i)]
  BY CommitEffect
<1>2. UNCHANGED <<acked, lostfound, corrupted>>
  BY DEF Commit, logVars
<1>3. CASE i \in Elements(hist[p])
  BY <1>1, <1>2, <1>3 DEF Promise!clVars
<1>4. CASE i \notin Elements(hist[p])
  <2>1. Promise!Next_(i)
    <3> SUFFICES ASSUME NEW j \in DOMAIN acked, acked[j].proj = p, Promise!Queued(j)
                 PROVE  i <= j
      BY <1>1 DEF Promise!Next_
    <3>1. j \notin lostfound /\ j \notin Elements(hist[p]) /\ \A f \in corrupted : f.idx # j
      BY DEF Promise!Queued, Promise!Recorded, Elements
    <3>2. PICK f \in disk : f.idx = j
      BY <3>1 DEF NInv, NoEntryLost
    <3> QED BY <1>1, <3>2 DEF ProjOf
  <2>2. \A j \in Promise!Recorded(hist[p]) : j < i
    <3> SUFFICES ASSUME NEW n \in DOMAIN hist[p] PROVE hist[p][n] < i
      BY DEF Promise!Recorded
    <3>1. hist[p][n] <= i /\ hist[p][n] # i /\ hist[p][n] \in Nat
      BY <1>1, <1>4, ElementOfSeq DEF Elements
    <3> QED BY <1>1, <3>1
  <2>3. Promise!Record(i)
    BY <1>1, <1>2, <1>4, <2>1, <2>2 DEF Promise!Record
  <2> QED BY <1>1, <2>3 DEF Promise!CLNext
<1> QED BY <1>3, <1>4

\* A step that moves the files F to wal-corrupted, or fails to.
LEMMA QuarantineKeepsAside ==
  ASSUME TInv, NEW F \in SUBSET disk, Quarantine(F), CorruptedKept,
         UNCHANGED <<acked, hist, lostfound>>
  PROVE  Promise!CLNext \/ UNCHANGED Promise!clVars
<1> DEFINE S == {f.idx : f \in F}
           kept == lostfound \cup {f.idx : f \in corrupted}
<1>1. CASE corrupted' = corrupted
  BY <1>1 DEF Promise!clVars
<1>2. CASE corrupted' = {c \in corrupted : c.seq \notin Seqs(F)} \cup F
  <2>1. corrupted' = corrupted \cup F
    BY <1>2 DEF CorruptedKept
  <2>2. kept' = kept \cup S
    BY <2>1
  <2>3. S \in SUBSET DOMAIN acked
    BY DEF TInv, Referenced
  <2>4. Promise!KeepAside(S)
    BY <2>2 DEF Promise!KeepAside
  <2> QED BY <2>3, <2>4 DEF Promise!CLNext
<1> QED BY <1>1, <1>2 DEF Quarantine

LEMMA StepImplements ==
  ASSUME TInv, MInv, OInv, NInv, [Next]_vars, CorruptedKept
  PROVE  [Promise!CLNext]_(Promise!clVars)
<1> USE DEF logVars, gitVars, dspVars
<1>1. ASSUME NEW e \in Request, Append_(e) PROVE Promise!CLNext
  <2>1. Promise!Acknowledge(e)
    BY <1>1 DEF Append_, Promise!Acknowledge
  <2> QED BY <2>1 DEF Promise!CLNext
<1>2. ASSUME NEW w \in Worker, Deposit(w) PROVE Promise!CLNext
  <2>1. wk[w].ent.idx \in DOMAIN acked
    BY <1>2, WorkerTypes DEF Deposit, Busy, WorkerState
  <2>2. Promise!KeepAside({wk[w].ent.idx})
    BY <1>2 DEF Deposit, Promise!KeepAside
  <2>3. {wk[w].ent.idx} \in SUBSET DOMAIN acked
    BY <2>1
  <2> QED BY <2>2, <2>3 DEF Promise!CLNext, Promise!KeepAside
<1>3. ASSUME NEW w \in Worker, ReadFails(w)
      PROVE  Promise!CLNext \/ UNCHANGED Promise!clVars
  <2>1. wk[w].ent \in disk
    BY <1>3 DEF ReadFails, OInv, WorkerOldest, Busy, WorkerState
  <2> QED BY <1>3, <2>1, QuarantineKeepsAside DEF ReadFails
<1>4. ASSUME NEW bad \in SUBSET disk, Restart(bad)
      PROVE  Promise!CLNext \/ UNCHANGED Promise!clVars
  BY <1>4, QuarantineKeepsAside DEF Restart
<1>5. ASSUME UNCHANGED <<acked, hist, lostfound, corrupted>> PROVE UNCHANGED Promise!clVars
  BY <1>5 DEF Promise!clVars
<1>6. CASE Dispatcher
  BY <1>5, <1>6 DEF Dispatcher, Wake, Skip, Saturated, EndDispatch, DispatcherStops,
                    Done, HandOff, Spawn, BlockedHandOff
<1>7. ASSUME NEW w \in Worker, WorkerReady(w) \/ Retire(w) \/ WorkerStops(w)
      PROVE  UNCHANGED Promise!clVars
  BY <1>5, <1>7 DEF WorkerReady, Retire, WorkerStops
<1>8. ASSUME NEW w \in Worker, Process(w)
      PROVE  Promise!CLNext \/ UNCHANGED Promise!clVars
  BY <1>2, <1>3, <1>5, <1>8, CommitRecords
  DEF Process, ReadEntry, OpenRepo, HeadUnreadable, RepoAbsent, CommitFails, RemoveEntry,
      DepositFails, Backoff, Retry
<1>9. CASE Shutdown \/ (\E p \in Project : RepoGone(p)) \/ UNCHANGED vars
  BY <1>5, <1>9 DEF Shutdown, RepoGone, vars
<1> QED BY <1>1, <1>4, <1>6, <1>7, <1>8, <1>9 DEF Next, WorkerStep

\* The log and its pool implement CommitLog: every acknowledged entry is recorded once
\* and in order, or kept aside, whatever crashes, retries and failed removals do, under
\* the conditions of NothingDropped.
THEOREM PoolImplementsCommitLog ==
  ~QuarantineMayFail /\ ~HeadMayBeUnreadable /\ Spec /\ [][CorruptedKept]_vars
    => ImplementsCommitLog
<1>1. Init => TInv /\ MInv /\ OInv /\ NInv
  BY TInvInit, MInvInit, OInvInit, NInvInit
<1>2. Init => Promise!CLInit
  BY DEF Init, Promise!CLInit
<1>3. /\ ~QuarantineMayFail /\ ~HeadMayBeUnreadable
      /\ TInv /\ MInv /\ OInv /\ NInv /\ [Next]_vars /\ [CorruptedKept]_vars
      => (TInv /\ MInv /\ OInv /\ NInv)' /\ [Promise!CLNext]_(Promise!clVars)
  <2> SUFFICES ASSUME ~QuarantineMayFail, ~HeadMayBeUnreadable, TInv, MInv, OInv, NInv,
                      [Next]_vars, [CorruptedKept]_vars
               PROVE  (TInv /\ MInv /\ OInv /\ NInv)' /\ [Promise!CLNext]_(Promise!clVars)
    OBVIOUS
  <2>1. CorruptedKept
    BY DEF CorruptedKept, vars, logVars
  <2> QED BY <2>1, TInvNext, MInvNext, OInvNext, NInvNext, StepImplements
<1> SUFFICES ASSUME ~QuarantineMayFail, ~HeadMayBeUnreadable
             PROVE  Spec /\ [][CorruptedKept]_vars => ImplementsCommitLog
  OBVIOUS
<1> QED BY <1>1, <1>2, <1>3, PTL DEF Spec, ImplementsCommitLog, Promise!CLSpec

----------------------------------------------------------------------------
(* HEAD is the effect of the recorded entries *)

\* f lists the trees that the first n entries of h build one after the other.
Unfolds(f, h, n, log) ==
  f = [k \in 0..n |-> IF k = 0 THEN EmptyTree ELSE Apply(f[k - 1], log[h[k]])]

\* The recursion of Replay has a solution: take the least n for which it has none.
LEMMA UnfoldingExists ==
  ASSUME NEW h, NEW log, NEW n \in Nat
  PROVE  \E f : Unfolds(f, h, n, log)
<1> DEFINE S == {m \in Nat : ~ \E f : Unfolds(f, h, m, log)}
<1> SUFFICES ASSUME S # {} PROVE FALSE
  OBVIOUS
<1>1. PICK m \in S : \A k \in S : m <= k
  BY LeastNat
<1>2. m \in Nat /\ ~ \E f : Unfolds(f, h, m, log)
  OBVIOUS
<1>3. CASE m = 0
  <2> DEFINE f == [k \in 0..0 |-> EmptyTree]
  <2>1. Unfolds(f, h, 0, log)
    BY DEF Unfolds
  <2> QED BY <1>2, <1>3, <2>1
<1>4. CASE m # 0
  <2>1. m - 1 \in Nat /\ m - 1 \notin S
    BY <1>1, <1>2, <1>4
  <2>2. PICK g : Unfolds(g, h, m - 1, log)
    BY <2>1
  <2> DEFINE f == [k \in 0..m |-> IF k = m THEN Apply(g[m - 1], log[h[m]]) ELSE g[k]]
  <2>3. \A k \in 0..(m - 1) : f[k] = g[k] /\ k # m /\ k \in 0..m
    BY <1>2
  <2>4. f[m] = Apply(f[m - 1], log[h[m]])
    BY <1>2, <2>1, <2>3
  <2>5. \A k \in 0..(m - 1) :
           g[k] = IF k = 0 THEN EmptyTree ELSE Apply(g[k - 1], log[h[k]])
    BY <2>2 DEF Unfolds
  <2>6. ASSUME NEW k \in 0..m
        PROVE  f[k] = IF k = 0 THEN EmptyTree ELSE Apply(f[k - 1], log[h[k]])
    <3>1. CASE k = m
      BY <1>4, <2>4, <3>1
    <3>2. CASE k # m
      <4>1. k \in 0..(m - 1) /\ (k # 0 => k - 1 \in 0..(m - 1))
        BY <1>2, <3>2
      <4> HIDE DEF f
      <4> QED BY <2>3, <2>5, <4>1
    <3> QED BY <3>1, <3>2
  <2>7. f = [k \in 0..m |-> f[k]]
    OBVIOUS
  <2> HIDE DEF f
  <2>8. Unfolds(f, h, m, log)
    BY <2>6, <2>7 DEF Unfolds
  <2> QED BY <1>2, <2>8
<1> QED BY <1>3, <1>4

\* Two solutions agree as far as the entries do.
LEMMA UnfoldingUnique ==
  ASSUME NEW n \in Nat, NEW a \in Nat, NEW b \in Nat, n <= a, n <= b,
         NEW f, NEW h, NEW log, Unfolds(f, h, a, log),
         NEW f2, NEW h2, NEW log2, Unfolds(f2, h2, b, log2),
         \A k \in 1..n : log[h[k]] = log2[h2[k]]
  PROVE  f[n] = f2[n]
<1> DEFINE S == {m \in Nat : m <= n /\ f[m] # f2[m]}
<1> SUFFICES ASSUME S # {} PROVE FALSE
  OBVIOUS
<1>1. PICK m \in S : \A k \in S : m <= k
  BY LeastNat
<1>2. m \in 0..a /\ m \in 0..b /\ m \in Nat /\ m <= n
  OBVIOUS
<1>3. /\ f[m] = IF m = 0 THEN EmptyTree ELSE Apply(f[m - 1], log[h[m]])
      /\ f2[m] = IF m = 0 THEN EmptyTree ELSE Apply(f2[m - 1], log2[h2[m]])
  BY <1>2 DEF Unfolds
<1>4. m # 0
  BY <1>3
<1>5. m - 1 \notin S /\ m - 1 \in Nat /\ m - 1 <= n /\ m \in 1..n
  BY <1>1, <1>2, <1>4
<1>6. f[m - 1] = f2[m - 1] /\ log[h[m]] = log2[h2[m]]
  BY <1>5
<1> QED BY <1>3, <1>4, <1>6

\* Replay, of any log.
ReplayOf(h, log) == (CHOOSE f : Unfolds(f, h, Len(h), log))[Len(h)]

LEMMA ReplayUnfolds ==
  ASSUME NEW h, NEW log, Len(h) \in Nat
  PROVE  \E f : Unfolds(f, h, Len(h), log) /\ ReplayOf(h, log) = f[Len(h)]
<1>1. \E f : Unfolds(f, h, Len(h), log)
  BY UnfoldingExists
<1> DEFINE t == CHOOSE f : Unfolds(f, h, Len(h), log)
<1>2. Unfolds(t, h, Len(h), log)
  BY <1>1
<1>3. ReplayOf(h, log) = t[Len(h)]
  BY DEF ReplayOf
<1> QED BY <1>2, <1>3

\* Nothing recorded leaves the empty tree.
LEMMA ReplayEmpty ==
  ASSUME NEW log PROVE ReplayOf(<<>>, log) = EmptyTree
<1>1. Len(<<>>) = 0
  OBVIOUS
<1>2. PICK f : Unfolds(f, <<>>, 0, log) /\ ReplayOf(<<>>, log) = f[0]
  BY <1>1, ReplayUnfolds
<1> QED BY <1>2 DEF Unfolds

\* Recording one more entry applies it.
LEMMA ReplayAppend ==
  ASSUME NEW h \in Seq(Nat), NEW i \in Nat, NEW log
  PROVE  ReplayOf(Append(h, i), log) = Apply(ReplayOf(h, log), log[i])
<1> DEFINE m == Len(h)
           g == Append(h, i)
<1>1. m \in Nat /\ Len(g) = m + 1 /\ g[m + 1] = i /\ \A k \in 1..m : g[k] = h[k]
  BY AppendProperties, LenProperties
<1>2. PICK f : Unfolds(f, h, m, log) /\ ReplayOf(h, log) = f[m]
  BY <1>1, ReplayUnfolds
<1> HIDE DEF m, g
<1>3. PICK f2 : Unfolds(f2, g, m + 1, log) /\ ReplayOf(g, log) = f2[m + 1]
  <2>1. Len(g) = m + 1 /\ Len(g) \in Nat
    BY <1>1
  <2>2. \E f2 : Unfolds(f2, g, Len(g), log) /\ ReplayOf(g, log) = f2[Len(g)]
    BY <2>1, ReplayUnfolds
  <2> QED BY <2>1, <2>2
<1>4. m + 1 \in Nat /\ m <= m + 1 /\ m <= m /\ m + 1 # 0 /\ (m + 1) - 1 = m /\ m + 1 \in 0..(m + 1)
  BY <1>1
<1>5. \A k \in 1..m : log[h[k]] = log[g[k]]
  BY <1>1
<1>6. f[m] = f2[m]
  BY <1>1, <1>2, <1>3, <1>4, <1>5, UnfoldingUnique
<1>7. f2[m + 1] = Apply(f2[m], log[g[m + 1]])
  BY <1>3, <1>4 DEF Unfolds
<1>8. ReplayOf(g, log) = Apply(ReplayOf(h, log), log[i])
  BY <1>1, <1>2, <1>3, <1>6, <1>7
<1> QED BY <1>8 DEF g

\* The replay depends on nothing but the recorded entries.
LEMMA ReplaySame ==
  ASSUME NEW h \in Seq(Nat), NEW log, NEW log2, \A k \in DOMAIN h : log[h[k]] = log2[h[k]]
  PROVE  ReplayOf(h, log) = ReplayOf(h, log2)
<1> DEFINE m == Len(h)
<1>1. m \in Nat /\ DOMAIN h = 1..m
  BY LenProperties
<1>2. PICK f : Unfolds(f, h, m, log) /\ ReplayOf(h, log) = f[m]
  BY <1>1, ReplayUnfolds
<1>3. PICK f2 : Unfolds(f2, h, m, log2) /\ ReplayOf(h, log2) = f2[m]
  BY <1>1, ReplayUnfolds
<1> HIDE DEF m
<1>4. m <= m /\ \A k \in 1..m : log[h[k]] = log2[h[k]]
  BY <1>1
<1>5. f[m] = f2[m]
  BY <1>1, <1>2, <1>3, <1>4, UnfoldingUnique
<1> QED BY <1>2, <1>3, <1>5

\* HeadIsReplay, with the replay as an operator of the log it reads.
HInv == \A p \in Project : head[p] = ReplayOf(hist[p], acked)

LEMMA HInvIsHeadIsReplay == HInv <=> HeadIsReplay
BY DEF HInv, HeadIsReplay, Replay, ReplayOf, Unfolds

LEMMA HInvInit == Init => HInv
BY ReplayEmpty DEF Init, HInv

\* A commit that records its entry has built its effect on HEAD.
LEMMA HInvCommit ==
  ASSUME TInv, MInv, OInv, HInv, NEW w \in Worker, Commit(w)
  PROVE  HInv'
<1> DEFINE p == KeyOf(w)
           i == wk[w].ent.idx
           new == Apply(head[p], acked[i])
<1>1. /\ p \in Project /\ hist[p] \in Seq(Nat) /\ i \in Nat
      /\ head \in [Project -> Tree] /\ hist \in [Project -> Seq(Nat)]
      /\ i \in Elements(hist[p]) => new = head[p]
      /\ hist' = IF i \in Elements(hist[p]) THEN hist ELSE [hist EXCEPT ![p] = Append(@, i)]
      /\ head' = [head EXCEPT ![p] = new]
  BY CommitEffect
<1>2. acked' = acked
  BY DEF Commit
<1>3. head[p] = ReplayOf(hist[p], acked)
  BY <1>1 DEF HInv
<1>4. ReplayOf(Append(hist[p], i), acked) = new
  BY <1>1, <1>3, ReplayAppend
<1> HIDE DEF p, i, new
<1>5. \A q \in Project : head'[q] = ReplayOf(hist'[q], acked)
  <2>1. CASE i \in Elements(hist[p])
    BY <1>1, <2>1 DEF HInv
  <2>2. CASE i \notin Elements(hist[p])
    BY <1>1, <1>4, <2>2 DEF HInv
  <2> QED BY <2>1, <2>2
<1> QED BY <1>2, <1>5 DEF HInv

\* An entry acknowledged later changes no replay.
LEMMA HInvAppend ==
  ASSUME TInv, OInv, HInv, NEW e \in Request, Append_(e)
  PROVE  HInv'
<1>1. \A j \in DOMAIN acked : acked'[j] = acked[j]
  <2>1. acked \in Seq(Entry) /\ e \in Entry /\ acked' = Append(acked, e)
    BY WalPoolAssumption DEF TInv, TypeOK, LogType, Append_
  <2> QED BY <2>1, AppendProperties, LenProperties
<1>2. UNCHANGED <<head, hist>>
  BY DEF Append_, gitVars
<1>3. ASSUME NEW p \in Project
      PROVE  ReplayOf(hist[p], acked) = ReplayOf(hist[p], acked')
  <2>1. hist[p] \in Seq(Nat)
    BY DEF TInv, TypeOK, GitType
  <2>2. \A k \in DOMAIN hist[p] : acked[hist[p][k]] = acked'[hist[p][k]]
    BY <1>1 DEF OInv, HistBelow
  <2> QED BY <2>1, <2>2, ReplaySame
<1> QED BY <1>2, <1>3 DEF HInv

LEMMA HInvNext ==
  ASSUME TInv, MInv, OInv, HInv, [Next]_vars
  PROVE  HInv'
<1>1. ASSUME NEW w \in Worker, Commit(w) PROVE HInv'
  BY <1>1, HInvCommit
<1>2. ASSUME NEW e \in Request, Append_(e) PROVE HInv'
  BY <1>2, HInvAppend
<1>3. CASE UNCHANGED <<acked, head, hist>>
  BY <1>3 DEF HInv
<1>4. CASE Dispatcher
  <2>1. UNCHANGED <<acked, head, hist>>
    BY <1>4 DEF Dispatcher, gitVars, Wake, Skip, Saturated, EndDispatch, DispatcherStops, Done,
                HandOff, Spawn, BlockedHandOff
  <2> QED BY <1>3, <2>1
<1>5. ASSUME NEW w \in Worker, WorkerStep(w), ~Commit(w) PROVE HInv'
  <2>1. UNCHANGED <<acked, head, hist>>
    BY <1>5 DEF WorkerStep, Process, gitVars, WorkerReady, Retire, ReadEntry, ReadFails, OpenRepo,
                HeadUnreadable, RepoAbsent, CommitFails, RemoveEntry, Deposit, DepositFails,
                Backoff, Retry, WorkerStops
  <2> QED BY <1>3, <2>1
<1>6. CASE Shutdown \/ \E bad \in SUBSET disk : Restart(bad)
  BY <1>3, <1>6 DEF Shutdown, Restart, gitVars
<1>7. CASE \E p \in Project : RepoGone(p)
  BY <1>3, <1>7 DEF RepoGone
<1>8. CASE UNCHANGED vars
  BY <1>3, <1>8 DEF vars, gitVars
<1> QED BY <1>1, <1>2, <1>4, <1>5, <1>6, <1>7, <1>8 DEF Next

\* HEAD is the recorded entries applied one after the other: whatever two workers,
\* retries and replays after a crash do between commitEntry's read of HEAD and its
\* update of the ref, no commit is built on a stale tree.
THEOREM HeadHoldsReplay ==
  ~QuarantineMayFail /\ ~HeadMayBeUnreadable /\ Spec => []HeadIsReplay
<1> SUFFICES ASSUME ~QuarantineMayFail, ~HeadMayBeUnreadable PROVE Spec => []HeadIsReplay
  OBVIOUS
<1>1. Init => TInv /\ MInv /\ OInv /\ HInv
  BY TInvInit, MInvInit, OInvInit, HInvInit
<1>2. TInv /\ MInv /\ OInv /\ HInv /\ [Next]_vars => (TInv /\ MInv /\ OInv /\ HInv)'
  BY TInvNext, MInvNext, OInvNext, HInvNext
<1>3. HInv => HeadIsReplay
  BY HInvIsHeadIsReplay
<1> QED BY <1>1, <1>2, <1>3, PTL DEF Spec
=============================================================================
