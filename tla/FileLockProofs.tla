--------------------------- MODULE FileLockProofs ---------------------------
(***************************************************************************)
(* Mutual exclusion, the absence of wait cycles and of leaked mutexes, for *)
(* any number of tasks, paths and stripes.                                 *)
(***************************************************************************)
EXTENDS FileLock, NaturalsInduction, SequenceTheorems, WellFoundedInduction, TLAPS

----------------------------------------------------------------------------
(* Natural numbers *)

\* A non-empty set of naturals has a least element.
LEMMA LeastNat ==
  ASSUME NEW S \in SUBSET Nat, S # {}
  PROVE  \E m \in S : \A n \in S : m <= n
<1>1. IsWellFoundedOn(OpToRel(<, Nat), Nat)
  BY NatLessThanWellFounded
<1>2. PICK m \in S : \A n \in S : ~(<<n, m>> \in OpToRel(<, Nat))
  BY <1>1, WFMin
<1>3. \A n \in S : ~(n < m)
  BY <1>2 DEF OpToRel
<1> QED BY <1>3


\* A non-empty set of naturals below a bound has a greatest element.
LEMMA GreatestNat ==
  ASSUME NEW S \in SUBSET Nat, S # {}, NEW b \in Nat, \A s \in S : s < b
  PROVE  \E m \in S : \A s \in S : s <= m
<1> DEFINE U == {n \in Nat : \A s \in S : s <= n}
<1>1. b \in U
  OBVIOUS
<1>2. PICK m \in U : \A n \in U : m <= n
  BY <1>1, LeastNat
<1>3. m \in S
  <2>1. SUFFICES ASSUME m \notin S PROVE FALSE
    OBVIOUS
  <2>2. \A s \in S : s <= m - 1
    BY <2>1
  <2>3. m - 1 \in Nat
    <3>1. PICK s \in S : TRUE
      OBVIOUS
    <3>2. s \in Nat /\ m \in Nat /\ s <= m - 1
      BY <2>2, <3>1
    <3> QED BY <3>2
  <2>4. m - 1 \in U
    BY <2>2, <2>3
  <2> QED BY <1>2, <2>4
<1> QED BY <1>3

----------------------------------------------------------------------------
(* The least and the greatest stripe of a set *)

LEMMA LowestStripe ==
  ASSUME NEW S \in SUBSET Stripe, S # {}
  PROVE  Lowest(S) \in S /\ \A r \in S : Lowest(S) <= r
<1>1. S \in SUBSET Nat
  BY FileLockAssumption DEF Stripe
<1> QED BY <1>1, LeastNat DEF Lowest

LEMMA HighestStripe ==
  ASSUME NEW S \in SUBSET Stripe, S # {}
  PROVE  Highest(S) \in S
<1>1. NumStripes \in Nat /\ S \in SUBSET Nat /\ \A s \in S : s < NumStripes
  BY FileLockAssumption DEF Stripe
<1> QED BY <1>1, GreatestNat DEF Highest

----------------------------------------------------------------------------
(* The inductive invariant *)

Locking == {"lock", "check", "wait"}
HoldsAll == {"leases", "drop"} \cup InFn
HasTarget == {"check", "wait", "dircheck", "dirwait", "dirfn"}

\* What a task has locked, by where it is.
Shape(t) ==
  /\ pc[t] = "idle" => acquired[t] = {}
  /\ pc[t] \in Locking => /\ acquired[t] \subseteq Stripes(paths[t])
                          /\ Stripes(paths[t]) \ acquired[t] # {}
                          /\ \A s \in acquired[t], r \in Stripes(paths[t]) \ acquired[t] : s < r
  /\ pc[t] \in HoldsAll => acquired[t] = Stripes(paths[t])
  /\ pc[t] \in InDir => dirs[t] # <<>>

\* The mutexes a task owns are the stripes it acquired and the one lockCtx just
\* got for it.
Owns(t) ==
  /\ \A s \in acquired[t] : owner[s] = t
  /\ pc[t] \in {"check", "dircheck", "dirfn"} => owner[Target(t)] = t
  /\ \A m \in Mutex : owner[m] = t =>
       m \in acquired[t] \/ (pc[t] \in HasTarget /\ m = Target(t))

LInv == TypeOK /\ LeasesHeld /\ \A t \in Task : Shape(t) /\ Owns(t)

LEMMA StripesType ==
  ASSUME NEW P \in SUBSET Path PROVE Stripes(P) \in SUBSET Stripe
BY FileLockAssumption DEF Stripes

\* Where the mutex of a lockCtx call lies.
LEMMA TargetType ==
  ASSUME TypeOK, NEW t \in Task, Shape(t)
  PROVE  /\ pc[t] \in Locking => /\ Target(t) \in Stripes(paths[t]) \ acquired[t]
                                 /\ Target(t) \in Stripe
                                 /\ \A r \in Stripes(paths[t]) \ acquired[t] : Target(t) <= r
         /\ pc[t] \in InDir => Target(t) \in Mutex \ Stripe
         /\ pc[t] \in Locking \cup InDir => Target(t) \in Mutex \ acquired[t]
<1>1. paths[t] \in SUBSET Path /\ acquired[t] \in SUBSET Stripe /\ dirs[t] \in Seq(Dir)
  BY DEF TypeOK
<1>2. Stripes(paths[t]) \ acquired[t] \in SUBSET Stripe
  BY <1>1, StripesType
<1>3. Stripe \subseteq Mutex
  BY FileLockAssumption DEF Stripe, Mutex
<1>4. CASE pc[t] \in Locking
  <2>1. Target(t) = Lowest(Stripes(paths[t]) \ acquired[t])
    BY <1>4 DEF Target, NextStripe, Locking, InDir
  <2>2. /\ Target(t) \in Stripes(paths[t]) \ acquired[t]
        /\ \A r \in Stripes(paths[t]) \ acquired[t] : Target(t) <= r
    BY <1>2, <1>4, <2>1, LowestStripe DEF Shape
  <2> QED BY <1>2, <1>3, <1>4, <2>2 DEF Locking, InDir
<1>5. CASE pc[t] \in InDir
  <2>1. Head(dirs[t]) \in Dir
    BY <1>1, <1>5, HeadTailProperties DEF Shape
  <2>2. Target(t) \in Mutex \ Stripe
    BY <1>5, <2>1, FileLockAssumption DEF Target, DirMutex, Stripe, Mutex
  <2> QED BY <1>1, <1>5, <2>2 DEF Locking, InDir
<1> QED BY <1>4, <1>5

LEMMA LInvInit == Init => LInv
BY FileLockAssumption
   DEF Init, LInv, TypeOK, LeasesHeld, Shape, Owns, PC, Locking, HoldsAll, InFn, InDir, HasTarget

\* A task whose own state and whose mutexes a step leaves alone.
LEMMA Bystander ==
  ASSUME NEW u \in Task, Shape(u), Owns(u),
         pc'[u] = pc[u], paths'[u] = paths[u], dirs'[u] = dirs[u], acquired'[u] = acquired[u],
         acquired[u] \subseteq Mutex, pc[u] \in HasTarget => Target(u) \in Mutex,
         \A m \in Mutex : owner'[m] = u <=> owner[m] = u
  PROVE  Shape(u)' /\ Owns(u)'
<1>1. Shape(u)'
  BY DEF Shape
<1>2. Target(u)' = Target(u)
  BY DEF Target, NextStripe
<1>3. Owns(u)'
  BY <1>2 DEF Owns, HasTarget
<1> QED BY <1>1, <1>3

\* A step of task t changes nothing of the others and takes nothing from them.
Frame(t) ==
  \A u \in Task \ {t} :
    /\ pc'[u] = pc[u] /\ paths'[u] = paths[u]
    /\ dirs'[u] = dirs[u] /\ acquired'[u] = acquired[u]
    /\ \A m \in Mutex : owner'[m] = u <=> owner[m] = u

LEMMA Others ==
  ASSUME LInv, NEW t \in Task, Frame(t), NEW u \in Task \ {t}
  PROVE  Shape(u)' /\ Owns(u)'
<1>1. acquired[u] \subseteq Mutex
  BY FileLockAssumption DEF LInv, TypeOK, Stripe, Mutex
<1>2. pc[u] \in HasTarget => Target(u) \in Mutex
  BY TargetType DEF LInv, HasTarget, Locking, InDir
<1> QED BY <1>1, <1>2, Bystander DEF LInv, Frame

\* The leases of the others stay held.
LEMMA OthersLeases ==
  ASSUME LInv, NEW t \in Task, Frame(t), NEW p \in Path, leases[p] \in Task \ {t}
  PROVE  /\ pc'[leases[p]] \in InFn \cup {"drop"} /\ p \in paths'[leases[p]]
         /\ owner'[StripeOf[p]] = leases[p]
<1>1. leases[p] # Free /\ StripeOf[p] \in Mutex
  BY FileLockAssumption DEF Stripe, Mutex
<1> QED BY <1>1 DEF LInv, LeasesHeld, Frame

Leased == InFn \cup {"drop"}

\* A step of t that leaves the lease records alone.
LEMMA TaskStep ==
  ASSUME LInv, NEW t \in Task, Frame(t), TypeOK', Shape(t)', Owns(t)', leases' = leases,
         pc[t] \in Leased => pc'[t] \in Leased /\ paths'[t] = paths[t]
  PROVE  LInv'
<1>1. \A u \in Task : Shape(u)' /\ Owns(u)'
  BY Others
<1>2. ASSUME NEW p \in Path, leases[p] # Free
      PROVE  /\ pc'[leases[p]] \in Leased /\ p \in paths'[leases[p]]
             /\ owner'[StripeOf[p]] = leases[p]
  <2>1. leases[p] \in Task
    BY <1>2 DEF LInv, TypeOK
  <2>2. CASE leases[p] # t
    BY <2>1, <2>2, OthersLeases DEF Leased
  <2>3. CASE leases[p] = t
    <3>1. pc'[t] \in Leased /\ p \in paths'[t]
      BY <1>2, <2>3 DEF LInv, LeasesHeld, Leased
    <3>2. acquired'[t] = Stripes(paths'[t])
      BY <3>1 DEF Shape, HoldsAll, Leased
    <3>3. StripeOf[p] \in acquired'[t]
      BY <3>1, <3>2 DEF Stripes
    <3> QED BY <2>3, <3>1, <3>3 DEF Owns
  <2> QED BY <2>2, <2>3
<1>3. LeasesHeld'
  BY <1>2 DEF LeasesHeld, Leased
<1> QED BY <1>1, <1>3 DEF LInv

LEMMA BeginStep ==
  ASSUME LInv, NEW t \in Task, NEW c \in Call, Begin(t, c)
  PROVE  LInv'
<1> USE DEF PC, Locking, HoldsAll, HasTarget, InFn, InDir, Leased
<1>0. /\ TypeOK /\ Shape(t) /\ Owns(t) /\ pc \in [Task -> PC] /\ owner \in [Mutex -> Task \cup {Free, Orphan}]
      /\ Free \notin Task /\ Orphan \notin Task /\ Free # Orphan
  BY FileLockAssumption DEF LInv, TypeOK
<1>1. Frame(t)
  BY <1>0 DEF Begin, Goto, Frame, TypeOK
<1>2. c.paths \in SUBSET Path /\ c.dirs \in Seq(Dir)
  BY FileLockAssumption
<1>3. TypeOK'
  BY <1>0, <1>2 DEF Begin, Goto, TypeOK
<1>4. /\ pc[t] = "idle" /\ acquired'[t] = {} /\ paths'[t] = c.paths /\ owner' = owner
      /\ pc'[t] = IF c.paths = {} THEN "leases" ELSE "lock"
  BY <1>0 DEF Begin, Goto, TypeOK, Shape
<1>5. Shape(t)'
  BY <1>4 DEF Shape, Stripes
<1>6. \A m \in Mutex : owner[m] # t
  BY <1>0, <1>4 DEF Owns, Begin
<1>7. Owns(t)'
  BY <1>4, <1>6 DEF Owns
<1> QED BY <1>0, <1>1, <1>3, <1>4, <1>5, <1>7, TaskStep DEF Begin

LEMMA CancelStep ==
  ASSUME LInv, NEW t \in Task, Cancel(t)
  PROVE  LInv'
<1> USE DEF PC, Locking, HoldsAll, HasTarget, InFn, InDir, Leased
<1>0. /\ TypeOK /\ Shape(t) /\ Owns(t) /\ pc \in [Task -> PC] /\ owner \in [Mutex -> Task \cup {Free, Orphan}]
      /\ Free \notin Task /\ Orphan \notin Task /\ Free # Orphan
  BY FileLockAssumption DEF LInv, TypeOK
<1>1. Frame(t)
  BY <1>0 DEF Cancel, Goto, Frame
<1>2. TypeOK'
  BY <1>0 DEF Cancel, Goto, TypeOK
<1>3. Target(t)' = Target(t)
  BY DEF Cancel, Target, NextStripe
<1>4. Shape(t)' /\ Owns(t)'
  BY <1>0, <1>3 DEF Cancel, Shape, Owns
<1> QED BY <1>1, <1>2, <1>4, TaskStep DEF Cancel

LEMMA TryLockStep ==
  ASSUME LInv, NEW t \in Task, TryLock(t)
  PROVE  LInv'
<1> USE DEF PC, Locking, HoldsAll, HasTarget, InFn, InDir, Leased
<1>0. /\ TypeOK /\ Shape(t) /\ Owns(t) /\ pc \in [Task -> PC] /\ owner \in [Mutex -> Task \cup {Free, Orphan}]
      /\ Free \notin Task /\ Orphan \notin Task /\ Free # Orphan
  BY FileLockAssumption DEF LInv, TypeOK
<1>1. Target(t) \in Mutex \ acquired[t]
  BY <1>0, TargetType DEF TryLock
<1>2. Frame(t)
  BY <1>0, <1>1 DEF TryLock, Goto, Frame
<1>3. TypeOK'
  BY <1>0, <1>1 DEF TryLock, Goto, TypeOK
<1>4. /\ pc[t] = "lock" => pc'[t] = "check"
      /\ pc[t] = "dirlock" => pc'[t] = "dircheck"
      /\ pc[t] \in {"lock", "dirlock"}
  BY <1>0 DEF TryLock, Goto
<1>5. Target(t)' = Target(t)
  BY <1>4 DEF TryLock, Target, NextStripe
<1>6. Shape(t)'
  BY <1>0, <1>4 DEF TryLock, Shape
<1>7. owner'[Target(t)] = t /\ \A m \in Mutex \ {Target(t)} : owner'[m] = owner[m]
  BY <1>0, <1>1 DEF TryLock
<1>8. acquired[t] \subseteq Mutex
  BY <1>0, FileLockAssumption DEF TypeOK, Stripe, Mutex
<1>9. Owns(t)'
  BY <1>0, <1>1, <1>4, <1>5, <1>7, <1>8 DEF TryLock, Owns
<1> QED BY <1>0, <1>2, <1>3, <1>4, <1>6, <1>9, TaskStep DEF TryLock

LEMMA BlockStep ==
  ASSUME LInv, NEW t \in Task, Block(t)
  PROVE  LInv'
<1> USE DEF PC, Locking, HoldsAll, HasTarget, InFn, InDir, Leased
<1>0. /\ TypeOK /\ Shape(t) /\ Owns(t) /\ pc \in [Task -> PC] /\ owner \in [Mutex -> Task \cup {Free, Orphan}]
      /\ Free \notin Task /\ Orphan \notin Task /\ Free # Orphan
  BY FileLockAssumption DEF LInv, TypeOK
<1>1. Frame(t)
  BY <1>0 DEF Block, Goto, Frame
<1>2. TypeOK'
  BY <1>0 DEF Block, Goto, TypeOK
<1>3. /\ pc[t] = "lock" => pc'[t] = "wait"
      /\ pc[t] = "dirlock" => pc'[t] = "dirwait"
      /\ pc[t] \in {"lock", "dirlock"}
  BY <1>0 DEF Block, Goto
<1>4. Shape(t)'
  BY <1>0, <1>3 DEF Block, Shape
<1>5. Owns(t)'
  BY <1>0, <1>3 DEF Block, Owns
<1> QED BY <1>0, <1>1, <1>2, <1>3, <1>4, <1>5, TaskStep DEF Block

LEMMA WaiterGetsStep ==
  ASSUME LInv, NEW t \in Task, WaiterGets(t)
  PROVE  LInv'
<1> USE DEF PC, Locking, HoldsAll, HasTarget, InFn, InDir, Leased
<1>0. /\ TypeOK /\ Shape(t) /\ Owns(t) /\ pc \in [Task -> PC] /\ owner \in [Mutex -> Task \cup {Free, Orphan}]
      /\ Free \notin Task /\ Orphan \notin Task /\ Free # Orphan
  BY FileLockAssumption DEF LInv, TypeOK
<1>1. Target(t) \in Mutex \ acquired[t]
  BY <1>0, TargetType DEF WaiterGets
<1>2. Frame(t)
  BY <1>0, <1>1 DEF WaiterGets, Frame
<1>3. TypeOK'
  BY <1>0, <1>1 DEF WaiterGets, TypeOK
<1>4. Target(t)' = Target(t) /\ pc' = pc
  BY DEF WaiterGets, Target, NextStripe
<1>5. Shape(t)'
  BY <1>0 DEF WaiterGets, Shape
<1>6. owner'[Target(t)] = t /\ \A m \in Mutex \ {Target(t)} : owner'[m] = owner[m]
  BY <1>0, <1>1 DEF WaiterGets
<1>7. acquired[t] \subseteq Mutex
  BY <1>0, FileLockAssumption DEF TypeOK, Stripe, Mutex
<1>8. Owns(t)'
  BY <1>0, <1>1, <1>4, <1>6, <1>7 DEF WaiterGets, Owns
<1> QED BY <1>2, <1>3, <1>4, <1>5, <1>8, TaskStep DEF WaiterGets

LEMMA AcquiredStep ==
  ASSUME LInv, NEW t \in Task, Acquired(t)
  PROVE  LInv'
<1> USE DEF PC, Locking, HoldsAll, HasTarget, InFn, InDir, Leased
<1>0. /\ TypeOK /\ Shape(t) /\ Owns(t) /\ pc \in [Task -> PC] /\ owner \in [Mutex -> Task \cup {Free, Orphan}]
      /\ Free \notin Task /\ Orphan \notin Task /\ Free # Orphan
  BY FileLockAssumption DEF LInv, TypeOK
<1>1. owner[Target(t)] = t
  BY <1>0 DEF Acquired, Owns
<1>2. CASE pc[t] \in InDir
  <2>1. pc'[t] = "dirfn" /\ UNCHANGED <<owner, orphans, leases, paths, dirs, acquired, cancelled>>
    BY <1>0, <1>2 DEF Acquired, Goto
  <2>2. Frame(t) /\ TypeOK'
    BY <1>0, <1>2 DEF Acquired, Goto, Frame, TypeOK
  <2>3. Target(t)' = Target(t)
    BY <1>2, <2>1 DEF Target, NextStripe
  <2>4. Shape(t)' /\ Owns(t)'
    BY <1>0, <1>1, <1>2, <2>1, <2>3 DEF Shape, Owns
  <2> QED BY <2>1, <2>2, <2>4, TaskStep
<1>3. CASE pc[t] \notin InDir
  <2>1. pc[t] \in {"check", "wait"}
    BY <1>3 DEF Acquired
  <2>2. /\ Target(t) \in Stripes(paths[t]) \ acquired[t] /\ Target(t) \in Stripe
        /\ \A r \in Stripes(paths[t]) \ acquired[t] : Target(t) <= r
    BY <1>0, <2>1, TargetType
  <2>3. /\ acquired' = [acquired EXCEPT ![t] = acquired[t] \cup {Target(t)}]
        /\ acquired'[t] = acquired[t] \cup {Target(t)}
        /\ UNCHANGED <<owner, orphans, leases, paths, dirs, cancelled>>
        /\ pc' = [pc EXCEPT ![t] = IF acquired'[t] = Stripes(paths[t]) THEN "leases" ELSE "lock"]
    BY <1>0, <1>3 DEF Acquired, Goto, TypeOK
  <2>4. Frame(t)
    BY <1>0, <2>3 DEF Frame, TypeOK
  <2>5. TypeOK'
    BY <1>0, <2>2, <2>3 DEF TypeOK
  <2>6. \A s \in acquired[t], r \in Stripes(paths[t]) \ acquired[t] : s < r
    BY <1>0, <2>1 DEF Shape
  <2>7. Stripes(paths[t]) \subseteq Nat /\ acquired[t] \subseteq Stripes(paths[t])
    <3>1. paths[t] \in SUBSET Path /\ Stripe \subseteq Nat
      BY <1>0, FileLockAssumption DEF TypeOK, Stripe
    <3> QED BY <1>0, <2>1, <3>1, StripesType DEF Shape
  <2>8. CASE acquired'[t] = Stripes(paths[t])
    <3>1. pc'[t] = "leases"
      BY <1>0, <2>3, <2>8
    <3>2. Shape(t)' /\ Owns(t)'
      BY <1>0, <1>1, <2>3, <2>8, <3>1 DEF Shape, Owns
    <3> QED BY <2>1, <2>3, <2>4, <2>5, <3>2, TaskStep
  <2>9. CASE acquired'[t] # Stripes(paths[t])
    <3>1. pc'[t] = "lock"
      BY <1>0, <2>3, <2>9
    <3>2. \A s \in acquired'[t], r \in Stripes(paths[t]) \ acquired'[t] : s < r
      BY <2>2, <2>3, <2>6, <2>7
    <3>3. acquired'[t] \subseteq Stripes(paths[t]) /\ Stripes(paths[t]) \ acquired'[t] # {}
      BY <2>2, <2>3, <2>7, <2>9
    <3>4. Shape(t)'
      BY <2>3, <3>1, <3>2, <3>3 DEF Shape
    <3>5. Owns(t)'
      BY <1>0, <1>1, <2>3, <3>1 DEF Owns
    <3> QED BY <2>1, <2>3, <2>4, <2>5, <3>4, <3>5, TaskStep
  <2> QED BY <2>8, <2>9
<1> QED BY <1>2, <1>3

\* The failure of lockCtx: t gives the mutex up, or never had it.
LEMMA FailStep ==
  ASSUME LInv, NEW t \in Task, pc[t] \in {"check", "wait", "dircheck", "dirwait"}, Fail(t),
         owner' \in [Mutex -> Task \cup {Free, Orphan}], owner'[Target(t)] # t,
         \A m \in Mutex \ {Target(t)} : owner'[m] = owner[m],
         \A u \in Task \ {t} : owner'[Target(t)] = u <=> owner[Target(t)] = u,
         orphans' \in [Mutex -> 0..MaxOrphans],
         UNCHANGED <<leases, paths, acquired, cancelled>>
  PROVE  LInv'
<1> USE DEF PC, Locking, HoldsAll, HasTarget, InFn, InDir, Leased
<1>0. /\ TypeOK /\ Shape(t) /\ Owns(t) /\ pc \in [Task -> PC] /\ owner \in [Mutex -> Task \cup {Free, Orphan}]
      /\ dirs \in [Task -> Seq(Dir)]
  BY DEF LInv, TypeOK
<1>1. Target(t) \in Mutex \ acquired[t]
  BY <1>0, TargetType
<1>2. /\ owner' \in [Mutex -> Task \cup {Free, Orphan}] /\ owner'[Target(t)] # t
      /\ \A m \in Mutex \ {Target(t)} : owner'[m] = owner[m]
  BY <1>0, <1>1
<1>3. /\ pc[t] \in InDir => pc'[t] = "fn"
      /\ pc[t] \notin InDir => pc'[t] = "unlock"
      /\ pc' \in [Task -> PC] /\ \A u \in Task \ {t} : pc'[u] = pc[u]
  BY <1>0 DEF Fail, Goto
<1>4. pc[t] \in InDir => dirs[t] # <<>> /\ Tail(dirs[t]) \in Seq(Dir)
  BY <1>0, HeadTailProperties DEF Shape
<1>5. dirs' \in [Task -> Seq(Dir)] /\ \A u \in Task \ {t} : dirs'[u] = dirs[u]
  BY <1>0, <1>4 DEF Fail
<1>6. Frame(t)
  BY <1>1, <1>2, <1>3, <1>5 DEF Frame
<1>7. TypeOK'
  BY <1>0, <1>2, <1>3, <1>5 DEF TypeOK
<1>8. Shape(t)'
  BY <1>0, <1>3 DEF Shape
<1>9. acquired[t] \subseteq Mutex
  BY <1>0, FileLockAssumption DEF TypeOK, Stripe, Mutex
<1>10. Owns(t)'
  BY <1>0, <1>1, <1>2, <1>3, <1>9 DEF Owns
<1> QED BY <1>3, <1>6, <1>7, <1>8, <1>10, TaskStep

LEMMA CancelledAtOnceStep ==
  ASSUME LInv, NEW t \in Task, CancelledAtOnce(t)
  PROVE  LInv'
<1> USE DEF PC, Locking, HoldsAll, HasTarget, InFn, InDir, Leased
<1>0. /\ TypeOK /\ Shape(t) /\ Owns(t) /\ pc \in [Task -> PC] /\ owner \in [Mutex -> Task \cup {Free, Orphan}]
      /\ Free \notin Task /\ Orphan \notin Task /\ Free # Orphan
  BY FileLockAssumption DEF LInv, TypeOK
<1>1. owner[Target(t)] = t
  BY <1>0 DEF CancelledAtOnce, Owns
<1>2. orphans' \in [Mutex -> 0..MaxOrphans]
  BY <1>0 DEF CancelledAtOnce, TypeOK
<1>3. owner' = [owner EXCEPT ![Target(t)] = Free] /\ Target(t) \in Mutex
  BY <1>0, TargetType DEF CancelledAtOnce, Release
<1>4. /\ owner' \in [Mutex -> Task \cup {Free, Orphan}] /\ owner'[Target(t)] = Free
      /\ \A m \in Mutex \ {Target(t)} : owner'[m] = owner[m]
  BY <1>0, <1>3
<1>5. pc[t] \in {"check", "wait", "dircheck", "dirwait"} /\ Fail(t)
  BY DEF CancelledAtOnce
<1> HIDE DEF PC, Locking, HoldsAll, HasTarget, InFn, InDir, Leased
<1> QED BY <1>0, <1>1, <1>2, <1>5, <1>4, FailStep DEF CancelledAtOnce

LEMMA AbandonStep ==
  ASSUME LInv, NEW t \in Task, Abandon(t)
  PROVE  LInv'
<1> USE DEF PC, Locking, HoldsAll, HasTarget, InFn, InDir, Leased
<1>0. /\ TypeOK /\ Shape(t) /\ Owns(t) /\ pc \in [Task -> PC] /\ owner \in [Mutex -> Task \cup {Free, Orphan}]
      /\ Free \notin Task /\ Orphan \notin Task /\ Free # Orphan
  BY FileLockAssumption DEF LInv, TypeOK
<1>1. Target(t) \in Mutex
  BY <1>0, TargetType DEF Abandon
<1>2. /\ pc[t] \in {"wait", "dirwait"} /\ Fail(t)
      /\ UNCHANGED <<leases, paths, acquired, cancelled>>
  BY DEF Abandon
<1>3. orphans' \in [Mutex -> 0..MaxOrphans]
  <2>1. CASE owner[Target(t)] = t
    BY <1>0, <2>1 DEF Abandon, TypeOK
  <2>2. CASE owner[Target(t)] # t
    BY SMTT(60), <1>0, <1>1, <2>2, FileLockAssumption DEF Abandon, TypeOK
  <2> QED BY <2>1, <2>2
<1>4. /\ owner' \in [Mutex -> Task \cup {Free, Orphan}] /\ owner'[Target(t)] # t
      /\ \A m \in Mutex \ {Target(t)} : owner'[m] = owner[m]
      /\ \A u \in Task \ {t} : owner'[Target(t)] = u <=> owner[Target(t)] = u
  BY <1>0, <1>1 DEF Abandon
<1> HIDE DEF PC, Locking, HoldsAll, HasTarget, InFn, InDir, Leased
<1> QED BY <1>2, <1>3, <1>4, FailStep

LEMMA RecordLeasesStep ==
  ASSUME LInv, NEW t \in Task, RecordLeases(t)
  PROVE  LInv'
<1> USE DEF PC, Locking, HoldsAll, HasTarget, InFn, InDir, Leased
<1>0. /\ TypeOK /\ Shape(t) /\ Owns(t) /\ pc \in [Task -> PC] /\ owner \in [Mutex -> Task \cup {Free, Orphan}]
      /\ Free \notin Task /\ Orphan \notin Task /\ Free # Orphan
  BY FileLockAssumption DEF LInv, TypeOK
<1>1. Frame(t)
  BY <1>0 DEF RecordLeases, Goto, Frame
<1>2. TypeOK'
  BY <1>0 DEF RecordLeases, Goto, TypeOK
<1>3. pc[t] = "leases" /\ pc'[t] = "fn" /\ acquired[t] = Stripes(paths[t])
  BY <1>0 DEF RecordLeases, Goto, Shape
<1>4. Shape(t)' /\ Owns(t)'
  BY <1>0, <1>3 DEF RecordLeases, Shape, Owns
<1>5. ASSUME NEW p \in Path, leases'[p] # Free
      PROVE  /\ pc'[leases'[p]] \in Leased /\ p \in paths'[leases'[p]]
             /\ owner'[StripeOf[p]] = leases'[p]
  <2>1. CASE p \in paths[t]
    <3>1. leases'[p] = t /\ StripeOf[p] \in acquired[t]
      BY <1>3, <2>1 DEF RecordLeases, Stripes
    <3> QED BY <1>0, <1>3, <2>1, <3>1 DEF RecordLeases, Owns
  <2>2. CASE p \notin paths[t]
    <3>1. leases'[p] = leases[p] /\ leases[p] \in Task
      BY <1>0, <1>5, <2>2 DEF RecordLeases, TypeOK
    <3>2. leases[p] # t
      BY <1>0, <1>3, <3>1 DEF LInv, LeasesHeld
    <3> QED BY <1>1, <3>1, <3>2, OthersLeases
  <2> QED BY <2>1, <2>2
<1>6. LeasesHeld'
  BY <1>5 DEF LeasesHeld
<1> QED BY <1>1, <1>2, <1>4, <1>6, Others DEF LInv

LEMMA DropLeasesStep ==
  ASSUME LInv, NEW t \in Task, DropLeases(t)
  PROVE  LInv'
<1> USE DEF PC, Locking, HoldsAll, HasTarget, InFn, InDir, Leased
<1>0. /\ TypeOK /\ Shape(t) /\ Owns(t) /\ pc \in [Task -> PC] /\ owner \in [Mutex -> Task \cup {Free, Orphan}]
      /\ Free \notin Task /\ Orphan \notin Task /\ Free # Orphan
  BY FileLockAssumption DEF LInv, TypeOK
<1>1. Frame(t)
  BY <1>0 DEF DropLeases, Goto, Frame
<1>2. TypeOK'
  BY <1>0 DEF DropLeases, Goto, TypeOK
<1>3. pc[t] = "drop" /\ pc'[t] = "unlock"
  BY <1>0 DEF DropLeases, Goto
<1>4. Shape(t)' /\ Owns(t)'
  BY <1>0, <1>3 DEF DropLeases, Shape, Owns
<1>5. ASSUME NEW p \in Path, leases'[p] # Free
      PROVE  /\ pc'[leases'[p]] \in Leased /\ p \in paths'[leases'[p]]
             /\ owner'[StripeOf[p]] = leases'[p]
  <2>1. leases'[p] = leases[p] /\ leases[p] \in Task /\ p \notin paths[t]
    BY <1>0, <1>5 DEF DropLeases, TypeOK
  <2>2. leases[p] # t
    BY <1>0, <2>1 DEF LInv, LeasesHeld
  <2> QED BY <1>1, <2>1, <2>2, OthersLeases
<1>6. LeasesHeld'
  BY <1>5 DEF LeasesHeld
<1> QED BY <1>1, <1>2, <1>4, <1>6, Others DEF LInv

LEMMA FnReturnsStep ==
  ASSUME LInv, NEW t \in Task, FnReturns(t)
  PROVE  LInv'
<1> USE DEF PC, Locking, HoldsAll, HasTarget, InFn, InDir, Leased
<1>0. /\ TypeOK /\ Shape(t) /\ Owns(t) /\ pc \in [Task -> PC] /\ owner \in [Mutex -> Task \cup {Free, Orphan}]
      /\ Free \notin Task /\ Orphan \notin Task /\ Free # Orphan
  BY FileLockAssumption DEF LInv, TypeOK
<1>1. Frame(t)
  BY <1>0 DEF FnReturns, Goto, Frame
<1>2. TypeOK'
  BY <1>0 DEF FnReturns, Goto, TypeOK
<1>3. pc[t] = "fn" /\ pc'[t] = "drop"
  BY <1>0 DEF FnReturns, Goto
<1>4. Shape(t)' /\ Owns(t)'
  BY <1>0, <1>3 DEF FnReturns, Shape, Owns
<1> QED BY <1>1, <1>2, <1>3, <1>4, TaskStep DEF FnReturns

LEMMA EnterDirStep ==
  ASSUME LInv, NEW t \in Task, EnterDir(t)
  PROVE  LInv'
<1> USE DEF PC, Locking, HoldsAll, HasTarget, InFn, InDir, Leased
<1>0. /\ TypeOK /\ Shape(t) /\ Owns(t) /\ pc \in [Task -> PC] /\ owner \in [Mutex -> Task \cup {Free, Orphan}]
      /\ Free \notin Task /\ Orphan \notin Task /\ Free # Orphan
  BY FileLockAssumption DEF LInv, TypeOK
<1>1. Frame(t)
  BY <1>0 DEF EnterDir, Goto, Frame
<1>2. TypeOK'
  BY <1>0 DEF EnterDir, Goto, TypeOK
<1>3. pc[t] = "fn" /\ pc'[t] = "dirlock"
  BY <1>0 DEF EnterDir, Goto
<1>4. Shape(t)' /\ Owns(t)'
  BY <1>0, <1>3 DEF EnterDir, Shape, Owns
<1> QED BY <1>1, <1>2, <1>3, <1>4, TaskStep DEF EnterDir

LEMMA LeaveDirStep ==
  ASSUME LInv, NEW t \in Task, LeaveDir(t)
  PROVE  LInv'
<1> USE DEF PC, Locking, HoldsAll, HasTarget, InFn, InDir, Leased
<1>0. /\ TypeOK /\ Shape(t) /\ Owns(t) /\ pc \in [Task -> PC] /\ owner \in [Mutex -> Task \cup {Free, Orphan}]
      /\ Free \notin Task /\ Orphan \notin Task /\ Free # Orphan
  BY FileLockAssumption DEF LInv, TypeOK
<1>1. Target(t) \in Mutex \ acquired[t] /\ owner[Target(t)] = t
  BY <1>0, TargetType DEF LeaveDir, Owns
<1>2. /\ owner' \in [Mutex -> Task \cup {Free, Orphan}] /\ owner'[Target(t)] = Free
      /\ \A m \in Mutex \ {Target(t)} : owner'[m] = owner[m]
  BY <1>0, <1>1 DEF LeaveDir, Release
<1>3. pc[t] = "dirfn" /\ pc'[t] = "fn" /\ pc' \in [Task -> PC] /\ \A u \in Task \ {t} : pc'[u] = pc[u]
  BY <1>0 DEF LeaveDir, Goto
<1>4. dirs[t] # <<>> /\ Tail(dirs[t]) \in Seq(Dir)
  BY <1>0, <1>3, HeadTailProperties DEF Shape, TypeOK
<1>5. dirs' \in [Task -> Seq(Dir)] /\ \A u \in Task \ {t} : dirs'[u] = dirs[u]
  BY <1>0, <1>4 DEF LeaveDir, TypeOK
<1>6. Frame(t)
  BY <1>0, <1>1, <1>2, <1>3, <1>5 DEF Frame, LeaveDir
<1>7. TypeOK'
  BY <1>0, <1>2, <1>3, <1>5 DEF TypeOK, LeaveDir
<1>8. Shape(t)'
  BY <1>0, <1>3 DEF Shape, LeaveDir
<1>9. acquired[t] \subseteq Mutex
  BY <1>0, FileLockAssumption DEF TypeOK, Stripe, Mutex
<1>10. Owns(t)'
  BY <1>0, <1>1, <1>2, <1>3, <1>9 DEF Owns, LeaveDir
<1> QED BY <1>3, <1>6, <1>7, <1>8, <1>10, TaskStep DEF LeaveDir

LEMMA UnlockStep ==
  ASSUME LInv, NEW t \in Task, Unlock(t)
  PROVE  LInv'
<1> USE DEF PC, Locking, HoldsAll, HasTarget, InFn, InDir, Leased
<1>0. /\ TypeOK /\ Shape(t) /\ Owns(t) /\ pc \in [Task -> PC] /\ owner \in [Mutex -> Task \cup {Free, Orphan}]
      /\ Free \notin Task /\ Orphan \notin Task /\ Free # Orphan
  BY FileLockAssumption DEF LInv, TypeOK
<1> DEFINE h == Highest(acquired[t])
<1>1. h \in acquired[t] /\ h \in Mutex /\ owner[h] = t
  <2>1. acquired[t] \in SUBSET Stripe /\ acquired[t] # {}
    BY <1>0 DEF Unlock, TypeOK
  <2>2. h \in acquired[t]
    BY <2>1, HighestStripe
  <2>3. Stripe \subseteq Mutex
    BY FileLockAssumption DEF Stripe, Mutex
  <2> QED BY <1>0, <2>1, <2>2, <2>3 DEF Owns
<1>2. /\ owner' = [owner EXCEPT ![h] = Free]
      /\ acquired' = [acquired EXCEPT ![t] = acquired[t] \ {h}]
      /\ pc' = pc /\ pc[t] = "unlock" /\ UNCHANGED <<orphans, leases, paths, dirs, cancelled>>
  BY DEF Unlock, Release
<1> HIDE DEF h
<1>3. acquired'[t] = acquired[t] \ {h} /\ owner'[h] = Free /\ \A m \in Mutex \ {h} : owner'[m] = owner[m]
  BY <1>0, <1>1, <1>2 DEF TypeOK
<1>4. TypeOK'
  BY <1>0, <1>1, <1>2 DEF TypeOK
<1>5. Frame(t)
  BY <1>0, <1>1, <1>2, <1>3 DEF Frame, TypeOK
<1>6. acquired[t] \subseteq Mutex
  BY <1>0, FileLockAssumption DEF TypeOK, Stripe, Mutex
<1>7. Shape(t)' /\ Owns(t)'
  BY <1>0, <1>2, <1>3, <1>6 DEF Shape, Owns
<1> QED BY <1>2, <1>4, <1>5, <1>7, TaskStep

LEMMA ReturnStep ==
  ASSUME LInv, NEW t \in Task, Return(t)
  PROVE  LInv'
<1> USE DEF PC, Locking, HoldsAll, HasTarget, InFn, InDir, Leased
<1>0. /\ TypeOK /\ Shape(t) /\ Owns(t) /\ pc \in [Task -> PC] /\ owner \in [Mutex -> Task \cup {Free, Orphan}]
      /\ Free \notin Task /\ Orphan \notin Task /\ Free # Orphan
  BY FileLockAssumption DEF LInv, TypeOK
<1>1. Frame(t)
  BY <1>0 DEF Return, Goto, Frame, TypeOK
<1>2. TypeOK'
  BY <1>0, EmptySeq DEF Return, Goto, TypeOK
<1>3. pc[t] = "unlock" /\ pc'[t] = "idle" /\ acquired'[t] = {} /\ acquired[t] = {} /\ owner' = owner
  BY <1>0 DEF Return, Goto
<1>4. Shape(t)' /\ Owns(t)'
  BY <1>0, <1>3 DEF Shape, Owns
<1> QED BY <1>1, <1>2, <1>3, <1>4, TaskStep DEF Return

\* Steps of no task: a mutex no task owns changes hands, or lease records go.
LEMMA ManagerStep ==
  ASSUME LInv, UNCHANGED <<pc, paths, dirs, acquired, cancelled>>, TypeOK',
         \A m \in Mutex : owner'[m] = owner[m] \/ (owner[m] \notin Task /\ owner'[m] \notin Task),
         \A p \in Path : leases'[p] \in {leases[p], Free}
  PROVE  LInv'
<1>1. ASSUME NEW u \in Task PROVE Shape(u)' /\ Owns(u)'
  <2>1. acquired[u] \subseteq Mutex
    BY FileLockAssumption DEF LInv, TypeOK, Stripe, Mutex
  <2>2. pc[u] \in HasTarget => Target(u) \in Mutex
    BY TargetType DEF LInv, HasTarget, Locking, InDir
  <2>3. \A m \in Mutex : owner'[m] = u <=> owner[m] = u
    OBVIOUS
  <2> QED BY <2>1, <2>2, <2>3, Bystander DEF LInv
<1>2. LeasesHeld'
  <2>1. ASSUME NEW p \in Path, leases'[p] # Free
        PROVE  /\ pc[leases[p]] \in InFn \cup {"drop"} /\ p \in paths[leases[p]]
               /\ owner'[StripeOf[p]] = leases[p] /\ leases'[p] = leases[p]
    <3>1. StripeOf[p] \in Mutex /\ leases[p] \in Task
      BY <2>1, FileLockAssumption DEF LInv, TypeOK, Stripe, Mutex
    <3> QED BY <2>1, <3>1 DEF LInv, LeasesHeld
  <2> QED BY <2>1 DEF LeasesHeld
<1> QED BY <1>1, <1>2 DEF LInv

LEMMA LInvNext == LInv /\ [Next]_vars => LInv'
<1> SUFFICES ASSUME LInv, [Next]_vars PROVE LInv'
  OBVIOUS
<1>1. ASSUME NEW t \in Task, NEW c \in Call, Begin(t, c) PROVE LInv'
  BY <1>1, BeginStep
<1>2. ASSUME NEW t \in Task, Cancel(t) \/ WaiterGets(t) PROVE LInv'
  BY <1>2, CancelStep, WaiterGetsStep
<1>3. ASSUME NEW t \in Task, Caller(t) PROVE LInv'
  BY <1>3, TryLockStep, BlockStep, AcquiredStep, CancelledAtOnceStep, AbandonStep,
     RecordLeasesStep, FnReturnsStep, DropLeasesStep, UnlockStep, ReturnStep,
     EnterDirStep, LeaveDirStep
  DEF Caller
<1>4. ASSUME NEW m \in Mutex, OrphanGets(m) PROVE LInv'
  <2>1. TypeOK'
    BY <1>4, FileLockAssumption DEF LInv, TypeOK, OrphanGets
  <2>2. \A n \in Mutex : owner'[n] = owner[n] \/ (owner[n] \notin Task /\ owner'[n] \notin Task)
    BY <1>4, FileLockAssumption DEF LInv, TypeOK, OrphanGets
  <2> QED BY <1>4, <2>1, <2>2, ManagerStep DEF OrphanGets
<1>5. ASSUME NEW m \in Mutex, OrphanReleases(m) PROVE LInv'
  <2>1. TypeOK'
    BY <1>5 DEF LInv, TypeOK, OrphanReleases, Release
  <2>2. \A n \in Mutex : owner'[n] = owner[n] \/ (owner[n] \notin Task /\ owner'[n] \notin Task)
    BY <1>5, FileLockAssumption DEF LInv, TypeOK, OrphanReleases, Release
  <2> QED BY <1>5, <2>1, <2>2, ManagerStep DEF OrphanReleases
<1>6. ASSUME NEW P \in SUBSET Path, ReapOnce(P) PROVE LInv'
  <2>1. TypeOK' /\ \A p \in Path : leases'[p] \in {leases[p], Free}
    BY <1>6 DEF LInv, TypeOK, ReapOnce
  <2> QED BY <1>6, <2>1, ManagerStep DEF ReapOnce
<1>7. ASSUME NEW s \in Session, ReleaseAllForSession(s) PROVE LInv'
  <2>1. TypeOK' /\ \A p \in Path : leases'[p] \in {leases[p], Free}
    BY <1>7 DEF LInv, TypeOK, ReleaseAllForSession
  <2> QED BY <1>7, <2>1, ManagerStep DEF ReleaseAllForSession
<1>8. CASE UNCHANGED vars
  <2>1. TypeOK'
    BY <1>8 DEF LInv, TypeOK, vars
  <2> QED BY <1>8, <2>1, ManagerStep DEF vars
<1> QED BY <1>1, <1>2, <1>3, <1>4, <1>5, <1>6, <1>7, <1>8 DEF Next

----------------------------------------------------------------------------
(* What it implies *)

LEMMA LInvExclusion == LInv => Exclusion
<1> SUFFICES ASSUME LInv, NEW t \in Task, NEW u \in Task, t # u
    PROVE  /\ pc[t] \in InFn /\ pc[u] \in InFn => paths[t] \cap paths[u] = {}
           /\ pc[t] = "dirfn" /\ pc[u] = "dirfn" => Head(dirs[t]) # Head(dirs[u])
  BY DEF Exclusion
<1>1. ASSUME pc[t] \in InFn, pc[u] \in InFn, NEW p \in paths[t] \cap paths[u] PROVE FALSE
  <2>1. StripeOf[p] \in acquired[t] /\ StripeOf[p] \in acquired[u]
    BY <1>1 DEF LInv, Shape, HoldsAll, Stripes
  <2> QED BY <2>1 DEF LInv, Owns
<1>2. ASSUME pc[t] = "dirfn", pc[u] = "dirfn", Head(dirs[t]) = Head(dirs[u]) PROVE FALSE
  <2>1. Target(t) = Target(u)
    BY <1>2 DEF Target, InDir
  <2> QED BY <1>2, <2>1 DEF LInv, Owns
<1> QED BY <1>1, <1>2

LEMMA LInvUpward == LInv => WaitsUpward
<1> SUFFICES ASSUME LInv, NEW t \in Task, pc[t] \in {"wait", "dirwait"}, owner[Target(t)] # t,
                    NEW m \in Mutex, owner[m] = t
             PROVE  m < Target(t) /\ m < NumStripes
  BY DEF WaitsUpward
<1>1. m \in acquired[t] /\ m \in Stripe
  BY DEF LInv, Owns, TypeOK
<1>2. CASE pc[t] = "wait"
  <2>1. Target(t) \in Stripes(paths[t]) \ acquired[t]
    BY <1>2, TargetType DEF LInv, Locking
  <2> QED BY <1>1, <1>2, <2>1, FileLockAssumption DEF LInv, Shape, Locking, Stripe
<1>3. CASE pc[t] = "dirwait"
  <2>1. Target(t) \in Mutex \ Stripe
    BY <1>3, TargetType DEF LInv, InDir
  <2> QED BY <1>1, <2>1, FileLockAssumption DEF Stripe, Mutex
<1> QED BY <1>2, <1>3

LEMMA LInvNoLeak == LInv => NoLeak
BY DEF LInv, NoLeak, Shape, Owns, HasTarget

\* Tasks, mutexes, lists and lease records keep their types (WithLocks, WithDirLock).
THEOREM LockTypes == Spec => []TypeOK
<1>1. LInv => TypeOK
  BY DEF LInv
<1> QED BY <1>1, LInvInit, LInvNext, PTL DEF Spec

\* The lock manager is correct for any number of callers, paths and stripes:
\* calls that share a path or a directory exclude each other, whatever
\* cancellations, panics, lease expiry and session releases do.
THEOREM LocksExclude == Spec => []Exclusion
BY LInvInit, LInvNext, LInvExclusion, PTL DEF Spec

\* "No wait cycle can form": every wait goes from lower to higher mutexes, and
\* from file stripes to directory stripes.
THEOREM NoWaitCycle == Spec => []WaitsUpward
BY LInvInit, LInvNext, LInvUpward, PTL DEF Spec

\* A lease record is always that of the call that holds the path's stripe.
THEOREM LeasesAreHeld == Spec => []LeasesHeld
<1>1. LInv => LeasesHeld
  BY DEF LInv
<1> QED BY <1>1, LInvInit, LInvNext, PTL DEF Spec

\* A call that returned, cancelled or not, holds no mutex.
THEOREM NothingLeaks == Spec => []NoLeak
BY LInvInit, LInvNext, LInvNoLeak, PTL DEF Spec
=============================================================================
