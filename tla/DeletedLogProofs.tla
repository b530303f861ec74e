-------------------------- MODULE DeletedLogProofs --------------------------
(***************************************************************************)
(* Proofs about DeletedLog, for every set of paths, contents and requests, *)
(* every cap and window, and every number of commits, crashes and          *)
(* rewrites: every record can be revived, and the log that the hooks keep  *)
(* is the log that the walk would build.                                   *)
(*                                                                         *)
(* A commit does to the tree what its trailer says, so the newest commit   *)
(* on a path tells whether the path is deleted (Dead), for the hook as for *)
(* the walk.  The log in use says so of every path that is not dirty, and  *)
(* so does the walk of a rebuild under way, of every path that no hook and *)
(* no revival has touched since.                                           *)
(***************************************************************************)
EXTENDS DeletedLog, FiniteSetTheorems, NaturalsInduction, SequenceTheorems,
        WellFoundedInduction, TLAPS

----------------------------------------------------------------------------
(* The inductive invariant *)

Positive == Nat \ {0}
Commit == [meta : Meta, hash : Positive, tree : Tree]
Entry == [meta : Meta, content : Content]
Map(K, V) == UNION {[S -> V] : S \in SUBSET K}
Recs == Map(Path, Positive)
LogFile == [recs : Recs, marked : BOOLEAN, ok : BOOLEAN]
Building == {"remove", "create", "replace", "register"}
CallType ==
  [pc : Building \cup {"idle", "walk", "write", "drop"}, path : Path \cup {None},
   content : Content \cup {None}, recs : Recs, st : Nat, raced : SUBSET Path]

\* A handler is at a point of its program, with a log file of its own from Create on.
HandlerOK(r, F) ==
  /\ r \in CallType /\ r.st \in {None} \cup F
  /\ r.pc \in {"replace", "register"} <=> r.st # None
  /\ r.pc \in {"write", "drop"} => r.path \in Path /\ r.content \in Content
TypeInv ==
  /\ hist \in Seq(Commit) /\ queue \in Seq(Entry) /\ Len(queue) <= MaxQueue
  /\ landed \in Nat /\ nextId \in Positive
  /\ files \in Seq(LogFile) /\ {file, reg} \subseteq {None} \cup DOMAIN files
  /\ call \in [Caller -> CallType] /\ \A c \in Caller : HandlerOK(call[c], DOMAIN files)
  /\ {up, cleaned} \subseteq BOOLEAN /\ faults \in 0..MaxFaults /\ dirty \subseteq Path

\* A history h: the tree before commit i, and the paths that it adds, removes, changes,
\* decides and leaves deleted for the walk.
Parent(h, i) == IF i = 1 THEN EmptyMap ELSE h[i - 1].tree
Adds(h, i) == DOMAIN h[i].tree \ DOMAIN Parent(h, i)
Rems(h, i) == DOMAIN Parent(h, i) \ DOMAIN h[i].tree
Mods(h, i) == {p \in DOMAIN h[i].tree \cap DOMAIN Parent(h, i) : h[i].tree[p] # Parent(h, i)[p]}
Decs(h, i) == Adds(h, i) \cup Rems(h, i) \cup Mods(h, i)
Dels(h, i) ==
  IF h[i].meta.op = "move" /\ h[i].meta.from \in Rems(h, i) /\ h[i].meta.path \in Adds(h, i)
  THEN Rems(h, i) \ {h[i].meta.from} ELSE Rems(h, i)
Top(h) == IF h = <<>> THEN EmptyMap ELSE h[Len(h)].tree
\* Commit i does to its parent's tree what its trailer says.
Lands(h, i) ==
  /\ h[i].tree # Parent(h, i)
  /\ \E x \in Content : h[i].tree = applyToTree(Parent(h, i), [meta |-> h[i].meta, content |-> x])
\* Hashes are given out once; the commit whose hook has still to run is HEAD, for the oldest
\* entry of the queue.
HistInv ==
  /\ \A i \in DOMAIN hist : hist[i].hash < nextId /\ Lands(hist, i)
  /\ \A i, j \in DOMAIN hist : hist[i].hash = hist[j].hash => i = j
  /\ landed # None => /\ hist # <<>> /\ queue # <<>> /\ nextId = landed + 1
                      /\ hist[Len(hist)].hash = landed /\ hist[Len(hist)].meta = queue[1].meta

\* A record names the commit that removed its path, and no other record does.
RecsGood(h, n, r) ==
  /\ \A p \in DOMAIN r : r[p] < n /\ \A i \in DOMAIN h : h[i].hash = r[p] => p \in Rems(h, i)
  /\ \A p, q \in DOMAIN r : r[p] = r[q] => p = q
Capped(r) == MaxEntries = 0 \/ Cardinality(DOMAIN r) <= MaxEntries
RecsInv ==
  /\ \A n \in DOMAIN files : RecsGood(hist, nextId, files[n].recs) /\ Capped(files[n].recs)
  /\ \A c \in Caller : RecsGood(hist, nextId, call[c].recs)

\* A file is open in one place; until a rebuild registers its log nothing is said of the one
\* that the path names.
HandleInv ==
  /\ \A c \in Caller : call[c].st # None =>
       call[c].st # reg /\ \A d \in Caller \ {c} : call[c].st # call[d].st
  /\ (\E c \in Caller : call[c].pc \in Building \ {"remove"}) /\ reg = None => dirty = Path
  /\ ~up => reg = None /\ landed = None /\ \A c \in Caller : call[c] = Idle

\* The newest commit on p deletes it; some commit in the window decides it; the newest on it
\* is a move away, over another file.
DeadIn(h, p) == \E i \in DOMAIN h : /\ p \in Dels(h, i)
                                    /\ \A j \in DOMAIN h : j > i => p \notin Decs(h, j)
DecidedIn(h, p) == \E i \in DOMAIN h : i > Len(h) - RepairDepth /\ p \in Decs(h, i)
OverIn(h, p) ==
  \E i \in DOMAIN h : /\ i > Len(h) - RepairDepth /\ h[i].meta.op = "move" /\ h[i].meta.from = p
                      /\ h[i].meta.path \notin Adds(h, i)
                      /\ \A j \in DOMAIN h : j > i => p \notin Decs(h, j)
\* The paths of the operation whose hook has still to run, and those on which the log is to
\* agree with the walk.
Pending(q, l) == IF l = None THEN {} ELSE {q[1].meta.path, q[1].meta.from} \ {None}
Agrees(h, w, r, S) ==
  \A p \in Path \ (S \cup w) : DecidedIn(h, p) /\ ~OverIn(h, p) => (p \in DOMAIN r <=> DeadIn(h, p))
LogOK(h, w, f, n, S) == IF n = None THEN S = Path ELSE Agrees(h, w, f[n].recs, S)
RebuildOK(h, w, f, k) ==
  /\ k.pc \in Building => Agrees(h, w, k.recs, k.raced)
  /\ k.pc = "register" => f[k.st].recs = capNewest(k.recs)
AgreeInv ==
  /\ \A p \in Path : DeadIn(hist, p) => p \notin DOMAIN Top(hist)
  /\ LogOK(hist, Pending(queue, landed), files, Cur, dirty)
  /\ \A c \in Caller : RebuildOK(hist, Pending(queue, landed), files, call[c])

Inv == TypeInv /\ HistInv /\ RecsInv /\ HandleInv /\ AgreeInv

----------------------------------------------------------------------------
(* Natural numbers and maps *)

\* A non-empty set of naturals has a least element.
LEMMA LeastNat ==
  ASSUME NEW S \in SUBSET Nat, S # {}
  PROVE  \E m \in S : \A n \in S : m <= n
<1>1. IsWellFoundedOn(OpToRel(<, Nat), Nat)
  BY NatLessThanWellFounded
<1>2. PICK m \in S : \A n \in S : ~(<<n, m>> \in OpToRel(<, Nat))
  BY <1>1, WFMin
<1>3. \A n \in S : ~(n < m)
  BY <1>2 DEF OpToRel
<1> QED BY <1>3

\* A non-empty set of naturals up to a bound has a greatest element.
LEMMA MaxMember ==
  ASSUME NEW S \in SUBSET Nat, S # {}, NEW b \in Nat, \A s \in S : s <= b
  PROVE  Max(S) \in S /\ \A s \in S : s <= Max(S)
<1> DEFINE U == {n \in Nat : \A s \in S : s <= n}
<1>1. b \in U
  OBVIOUS
<1>2. PICK m \in U : \A n \in U : m <= n
  BY <1>1, LeastNat
<1>3. m \in S
  <2>1. SUFFICES ASSUME m \notin S PROVE FALSE
    OBVIOUS
  <2>2. \A s \in S : s <= m - 1
    BY <2>1
  <2>3. m - 1 \in Nat
    <3>1. PICK s \in S : TRUE
      OBVIOUS
    <3>2. s \in Nat /\ m \in Nat /\ s <= m - 1
      BY <2>2, <3>1
    <3> QED BY <3>2
  <2>4. m - 1 \in U
    BY <2>2, <2>3
  <2> QED BY <1>2, <2>4
<1>4. \E x \in S : \A y \in S : x >= y
  BY <1>3
<1>5. Max(S) \in S /\ \A y \in S : Max(S) >= y
  BY <1>4 DEF Max
<1> QED BY <1>5

LEMMA MapIn ==
  ASSUME NEW K, NEW V, NEW S \in SUBSET K, NEW f \in [S -> V]
  PROVE  f \in Map(K, V)
BY DEF Map

LEMMA MapParts ==
  ASSUME NEW K, NEW V, NEW f \in Map(K, V)
  PROVE  DOMAIN f \subseteq K /\ f \in [DOMAIN f -> V] /\ \A k \in DOMAIN f : f[k] \in V
BY DEF Map

LEMMA PutMap ==
  ASSUME NEW K, NEW V, NEW f \in Map(K, V), NEW k \in K, NEW v \in V
  PROVE  Put(f, k, v) \in Map(K, V)
<1>1. DOMAIN f \cup {k} \in SUBSET K /\ \A x \in DOMAIN f : f[x] \in V
  BY MapParts
<1>2. Put(f, k, v) \in [DOMAIN f \cup {k} -> V]
  BY <1>1 DEF Put
<1> QED BY <1>1, <1>2, MapIn

LEMMA DropMap ==
  ASSUME NEW K, NEW V, NEW f \in Map(K, V), NEW S
  PROVE  Drop(f, S) \in Map(K, V)
<1>1. DOMAIN f \ S \in SUBSET K /\ \A x \in DOMAIN f : f[x] \in V
  BY MapParts
<1>2. Drop(f, S) \in [DOMAIN f \ S -> V]
  BY <1>1 DEF Drop
<1> QED BY <1>1, <1>2, MapIn

LEMMA EmptyIn ==
  ASSUME NEW K, NEW V
  PROVE  EmptyMap \in Map(K, V) /\ DOMAIN EmptyMap = {}
<1>1. EmptyMap \in [{} -> V] /\ DOMAIN EmptyMap = {}
  BY DEF EmptyMap
<1> QED BY <1>1, MapIn

LEMMA PutVal ==
  ASSUME NEW f, NEW k, NEW v
  PROVE  /\ DOMAIN Put(f, k, v) = DOMAIN f \cup {k} /\ Put(f, k, v)[k] = v
         /\ \A j \in DOMAIN f \ {k} : Put(f, k, v)[j] = f[j]
BY DEF Put

LEMMA DropVal ==
  ASSUME NEW f, NEW S
  PROVE  DOMAIN Drop(f, S) = DOMAIN f \ S /\ \A j \in DOMAIN f \ S : Drop(f, S)[j] = f[j]
BY DEF Drop

LEMMA Consts ==
  /\ {MaxEntries, MaxCommits, MaxFiles, MaxQueue, MaxFaults} \subseteq Nat
  /\ MaxEntries \in Nat /\ RepairDepth \in Nat /\ RepairDepth > 0 /\ None = 0
  /\ None \notin Path /\ None \notin Content
BY DeletedLogAssumption DEF None

LEMMA TreeIs == Tree = Map(Path, Content)
BY DEF Tree, Map

LEMMA MetaParts ==
  ASSUME NEW m \in Meta
  PROVE  /\ m.op \in {"write", "delete", "move"} /\ m.path \in Path
         /\ m.op = "move" => m.from \in Path /\ m.path # m.from
         /\ m.op # "move" => m.from = None
BY DEF Meta

\* An operation leaves a tree.
LEMMA ApplyTree ==
  ASSUME NEW t \in Tree, NEW e \in Entry
  PROVE  applyToTree(t, e) \in Tree
<1>1. e.meta \in Meta /\ e.content \in Content
  BY DEF Entry
<1>2. e.meta.path \in Path /\ e.meta.op \in {"write", "delete", "move"}
  BY <1>1, MetaParts
<1>3. CASE e.meta.op = "write"
  BY <1>1, <1>2, <1>3, PutMap, TreeIs DEF applyToTree
<1>4. CASE e.meta.op = "delete"
  BY <1>4, DropMap, TreeIs DEF applyToTree
<1>5. CASE e.meta.op = "move"
  <2>1. CASE e.meta.from \in DOMAIN t
    <3>1. t[e.meta.from] \in Content /\ Drop(t, {e.meta.from}) \in Tree
      BY <2>1, MapParts, DropMap, TreeIs
    <3>2. Put(Drop(t, {e.meta.from}), e.meta.path, t[e.meta.from]) \in Tree
      BY <1>2, <3>1, PutMap, TreeIs
    <3> QED BY <1>5, <2>1, <3>2 DEF applyToTree
  <2>2. CASE e.meta.from \notin DOMAIN t
    BY <1>5, <2>2 DEF applyToTree
  <2> QED BY <2>1, <2>2
<1> QED BY <1>2, <1>3, <1>4, <1>5

\* What a commit that lands decides, and what it leaves deleted.
LEMMA LandsKinds ==
  ASSUME NEW h, NEW i, h[i].tree \in Tree, Parent(h, i) \in Tree, h[i].meta \in Meta, Lands(h, i)
  PROVE  LET m == h[i].meta
         IN  /\ m.op = "write" => /\ Decs(h, i) = {m.path} /\ Rems(h, i) = {}
                                  /\ m.path \in DOMAIN h[i].tree
             /\ m.op = "delete" => Decs(h, i) = {m.path} /\ Rems(h, i) = {m.path}
             /\ m.op = "move" => /\ Rems(h, i) = {m.from} /\ m.from \in Decs(h, i)
                                 /\ Decs(h, i) \subseteq {m.path, m.from}
                                 /\ m.path \in DOMAIN h[i].tree
<1> DEFINE m == h[i].meta
           t == Parent(h, i)
           u == h[i].tree
<1>1. PICK x \in Content : u = applyToTree(t, [meta |-> m, content |-> x])
  BY DEF Lands
<1>2. /\ m.op \in {"write", "delete", "move"} /\ m.path \in Path
      /\ m.op = "move" => m.from \in Path /\ m.path # m.from
  BY MetaParts
<1>3. t \in [DOMAIN t -> Content] /\ u \in [DOMAIN u -> Content] /\ u # t
  BY MapParts, TreeIs DEF Lands
<1>4. (DOMAIN u = DOMAIN t) => \E p \in DOMAIN t : u[p] # t[p]
  BY <1>3
<1>5. /\ m.op = "write" => u = Put(t, m.path, x)
      /\ m.op = "delete" => u = Drop(t, {m.path})
      /\ m.op = "move" => IF m.from \in DOMAIN t
                          THEN u = Put(Drop(t, {m.from}), m.path, t[m.from]) ELSE u = t
  BY <1>1 DEF applyToTree
<1>6. /\ Adds(h, i) = DOMAIN u \ DOMAIN t /\ Rems(h, i) = DOMAIN t \ DOMAIN u
      /\ Mods(h, i) = {p \in DOMAIN u \cap DOMAIN t : u[p] # t[p]}
      /\ Decs(h, i) = Adds(h, i) \cup Rems(h, i) \cup Mods(h, i)
  BY DEF Adds, Rems, Mods, Decs
<1> HIDE DEF m, t, u
<1>7. ASSUME m.op = "write" PROVE Decs(h, i) = {m.path} /\ Rems(h, i) = {} /\ m.path \in DOMAIN u
  <2>1. DOMAIN u = DOMAIN t \cup {m.path} /\ u[m.path] = x /\ \A j \in DOMAIN t \ {m.path} : u[j] = t[j]
    BY <1>5, <1>7 DEF Put
  <2> QED BY <1>4, <1>6, <2>1
<1>8. ASSUME m.op = "delete" PROVE Decs(h, i) = {m.path} /\ Rems(h, i) = {m.path}
  <2>1. DOMAIN u = DOMAIN t \ {m.path} /\ \A j \in DOMAIN t \ {m.path} : u[j] = t[j]
    BY <1>5, <1>8 DEF Drop
  <2> QED BY <1>4, <1>6, <2>1
<1>9. ASSUME m.op = "move"
      PROVE  /\ Rems(h, i) = {m.from} /\ m.from \in Decs(h, i)
             /\ Decs(h, i) \subseteq {m.path, m.from} /\ m.path \in DOMAIN u
  <2>1. m.from \in DOMAIN t /\ u = Put(Drop(t, {m.from}), m.path, t[m.from]) /\ m.path # m.from
    BY <1>2, <1>3, <1>5, <1>9
  <2> DEFINE d == Drop(t, {m.from})
  <2>2. DOMAIN d = DOMAIN t \ {m.from} /\ \A j \in DOMAIN t \ {m.from} : d[j] = t[j]
    BY DropVal
  <2>3. DOMAIN u = DOMAIN d \cup {m.path} /\ \A j \in DOMAIN d \ {m.path} : u[j] = d[j]
    BY <2>1 DEF Put
  <2> HIDE DEF d
  <2> QED BY <1>6, <2>1, <2>2, <2>3
<1> QED BY <1>7, <1>8, <1>9 DEF m, u

----------------------------------------------------------------------------
(* Histories *)

LEMMA HistParts ==
  ASSUME NEW h \in Seq(Commit)
  PROVE  /\ DOMAIN h = 1..Len(h) /\ Len(h) \in Nat
         /\ \A i \in DOMAIN h : /\ h[i] \in Commit /\ h[i].meta \in Meta
                                /\ h[i].hash \in Positive /\ h[i].tree \in Tree
                                /\ Parent(h, i) \in Tree
         /\ Top(h) \in Tree
<1>1. DOMAIN h = 1..Len(h) /\ Len(h) \in Nat /\ \A i \in DOMAIN h : h[i] \in Commit
  OBVIOUS
<1>2. \A i \in DOMAIN h : h[i].meta \in Meta /\ h[i].hash \in Positive /\ h[i].tree \in Tree
  BY <1>1 DEF Commit
<1>3. EmptyMap \in Tree
  BY EmptyIn, TreeIs
<1>4. \A i \in DOMAIN h : i # 1 => i - 1 \in DOMAIN h
  BY <1>1
<1>5. \A i \in DOMAIN h : Parent(h, i) \in Tree
  BY <1>2, <1>3, <1>4 DEF Parent
<1>6. h # <<>> => Len(h) \in DOMAIN h
  BY <1>1
<1>7. Top(h) \in Tree
  BY <1>2, <1>3, <1>6 DEF Top
<1> QED BY <1>1, <1>2, <1>5, <1>7

LEMMA Kinds ==
  ASSUME NEW h \in Seq(Commit), NEW i \in DOMAIN h, Lands(h, i)
  PROVE  LET m == h[i].meta
         IN  /\ m \in Meta
             /\ m.op = "write" => /\ Decs(h, i) = {m.path} /\ Rems(h, i) = {}
                                  /\ m.path \in DOMAIN h[i].tree
             /\ m.op = "delete" => Decs(h, i) = {m.path} /\ Rems(h, i) = {m.path}
             /\ m.op = "move" => /\ Rems(h, i) = {m.from} /\ m.from \in Decs(h, i)
                                 /\ Decs(h, i) \subseteq {m.path, m.from}
                                 /\ m.path \in DOMAIN h[i].tree
BY HistParts, LandsKinds

\* A commit that lands removes one path at most.
LEMMA OneRemoved ==
  ASSUME NEW h \in Seq(Commit), NEW i \in DOMAIN h, Lands(h, i), NEW p \in Rems(h, i), NEW q \in Rems(h, i)
  PROVE  p = q
<1> DEFINE m == h[i].meta
<1>1. m.op \in {"write", "delete", "move"}
  BY HistParts, MetaParts
<1>2. /\ m.op = "write" => Rems(h, i) = {}
      /\ m.op = "delete" => Rems(h, i) = {m.path}
      /\ m.op = "move" => Rems(h, i) = {m.from}
  BY Kinds
<1> HIDE DEF m
<1> QED BY <1>1, <1>2

LEMMA DecsIn ==
  ASSUME NEW h \in Seq(Commit), NEW i \in DOMAIN h
  PROVE  Decs(h, i) \subseteq Path /\ Rems(h, i) \subseteq Decs(h, i) /\ Dels(h, i) \subseteq Rems(h, i)
<1>1. DOMAIN h[i].tree \subseteq Path /\ DOMAIN Parent(h, i) \subseteq Path
  BY HistParts, MapParts, TreeIs
<1> QED BY <1>1 DEF Decs, Adds, Rems, Mods, Dels

\* Appending a commit leaves the others.
LEMMA Grow ==
  ASSUME NEW h \in Seq(Commit), NEW c \in Commit
  PROVE  LET g == Append(h, c)
         IN  /\ g \in Seq(Commit) /\ Len(g) = Len(h) + 1 /\ DOMAIN g = DOMAIN h \cup {Len(h) + 1}
             /\ g[Len(h) + 1] = c /\ Top(g) = c.tree /\ Parent(g, Len(h) + 1) = Top(h)
             /\ \A i \in DOMAIN h :
                  /\ i <= Len(h) /\ g[i] = h[i] /\ Parent(g, i) = Parent(h, i)
                  /\ Adds(g, i) = Adds(h, i) /\ Rems(g, i) = Rems(h, i) /\ Decs(g, i) = Decs(h, i)
                  /\ Dels(g, i) = Dels(h, i) /\ (Lands(h, i) => Lands(g, i))
<1> DEFINE g == Append(h, c)
<1>1. /\ g \in Seq(Commit) /\ Len(g) = Len(h) + 1 /\ DOMAIN h = 1..Len(h) /\ Len(h) \in Nat
      /\ DOMAIN g = 1..(Len(h) + 1) /\ g[Len(h) + 1] = c /\ \A i \in DOMAIN h : g[i] = h[i]
  OBVIOUS
<1> HIDE DEF g
<1>2. g # <<>>
  BY <1>1
<1>3. Top(g) = c.tree
  BY <1>1, <1>2 DEF Top
<1>4. Parent(g, Len(h) + 1) = Top(h)
  <2>1. CASE h = <<>>
    BY <2>1 DEF Parent, Top
  <2>2. CASE h # <<>>
    <3>1. Len(h) # 0 /\ Len(h) \in DOMAIN h
      BY <1>1, <2>2
    <3>2. Len(h) + 1 # 1 /\ (Len(h) + 1) - 1 = Len(h)
      BY <1>1, <3>1
    <3>3. g[Len(h)] = h[Len(h)]
      BY <1>1, <3>1
    <3> QED BY <2>2, <3>2, <3>3 DEF Parent, Top
  <2> QED BY <2>1, <2>2
<1>5. ASSUME NEW i \in DOMAIN h
      PROVE  /\ i <= Len(h) /\ g[i] = h[i] /\ Parent(g, i) = Parent(h, i)
             /\ Adds(g, i) = Adds(h, i) /\ Rems(g, i) = Rems(h, i) /\ Decs(g, i) = Decs(h, i)
             /\ Dels(g, i) = Dels(h, i) /\ (Lands(h, i) => Lands(g, i))
  <2>1. i <= Len(h) /\ g[i] = h[i] /\ (i # 1 => i - 1 \in DOMAIN h)
    BY <1>1
  <2>2. Parent(g, i) = Parent(h, i)
    BY <1>1, <2>1 DEF Parent
  <2>3. Adds(g, i) = Adds(h, i) /\ Rems(g, i) = Rems(h, i) /\ Mods(g, i) = Mods(h, i)
    BY <2>1, <2>2 DEF Adds, Rems, Mods
  <2>4. Decs(g, i) = Decs(h, i) /\ Dels(g, i) = Dels(h, i)
    BY <2>1, <2>3 DEF Decs, Dels
  <2>5. Lands(h, i) => Lands(g, i)
    BY <2>1, <2>2 DEF Lands
  <2> QED BY <2>1, <2>2, <2>3, <2>4, <2>5
<1>6. DOMAIN g = DOMAIN h \cup {Len(h) + 1}
  BY <1>1
<1> QED BY <1>1, <1>3, <1>4, <1>5, <1>6 DEF g

\* Giving the commits other hashes leaves what they do.
Rehashed(h, n) == [i \in DOMAIN h |-> [h[i] EXCEPT !.hash = n + i]]
LEMMA Rehash ==
  ASSUME NEW h \in Seq(Commit), NEW n \in Nat
  PROVE  LET g == Rehashed(h, n)
         IN  /\ g \in Seq(Commit) /\ Len(g) = Len(h) /\ DOMAIN g = DOMAIN h /\ Top(g) = Top(h)
             /\ \A i \in DOMAIN h :
                  /\ g[i].hash = n + i /\ g[i].meta = h[i].meta /\ i <= Len(h) /\ i > 0
                  /\ Adds(g, i) = Adds(h, i) /\ Rems(g, i) = Rems(h, i) /\ Decs(g, i) = Decs(h, i)
                  /\ Dels(g, i) = Dels(h, i) /\ (Lands(h, i) => Lands(g, i))
<1> DEFINE g == [i \in DOMAIN h |-> [h[i] EXCEPT !.hash = n + i]]
<1>1. DOMAIN h = 1..Len(h) /\ Len(h) \in Nat /\ \A i \in DOMAIN h : h[i] \in Commit
  OBVIOUS
<1>2. \A i \in DOMAIN h : n + i \in Positive
  BY <1>1 DEF Positive
<1>3. \A i \in DOMAIN h : /\ g[i] \in Commit /\ g[i].hash = n + i
                          /\ g[i].meta = h[i].meta /\ g[i].tree = h[i].tree
  BY <1>1, <1>2 DEF Commit
<1>4. g \in [1..Len(h) -> Commit] /\ DOMAIN g = DOMAIN h
  BY <1>1, <1>3
<1>5. g \in Seq(Commit) /\ Len(g) = Len(h)
  BY <1>1, <1>4
<1> HIDE DEF g
<1>6. Top(g) = Top(h)
  <2>1. g = <<>> <=> h = <<>>
    BY <1>1, <1>5
  <2>2. h # <<>> => Len(h) \in DOMAIN h
    BY <1>1
  <2> QED BY <1>3, <1>5, <2>1, <2>2 DEF Top
<1>7. ASSUME NEW i \in DOMAIN h
      PROVE  /\ Adds(g, i) = Adds(h, i) /\ Rems(g, i) = Rems(h, i) /\ Decs(g, i) = Decs(h, i)
             /\ Dels(g, i) = Dels(h, i) /\ (Lands(h, i) => Lands(g, i))
  <2>1. i # 1 => i - 1 \in DOMAIN h
    BY <1>1
  <2>2. Parent(g, i) = Parent(h, i) /\ g[i].tree = h[i].tree /\ g[i].meta = h[i].meta
    BY <1>3, <2>1 DEF Parent
  <2>3. Adds(g, i) = Adds(h, i) /\ Rems(g, i) = Rems(h, i) /\ Mods(g, i) = Mods(h, i)
    BY <2>2 DEF Adds, Rems, Mods
  <2>4. Decs(g, i) = Decs(h, i) /\ Dels(g, i) = Dels(h, i)
    BY <2>2, <2>3 DEF Decs, Dels
  <2>5. Lands(h, i) => Lands(g, i)
    BY <2>2 DEF Lands
  <2> QED BY <2>3, <2>4, <2>5
<1>8. \A i \in DOMAIN h : i <= Len(h) /\ i > 0
  BY <1>1
<1>9. g = Rehashed(h, n)
  BY DEF g, Rehashed
<1> QED BY <1>3, <1>4, <1>5, <1>6, <1>7, <1>8, <1>9

----------------------------------------------------------------------------
(* The walk *)

\* The model's operators on the current history.
LEMMA Operators ==
  ASSUME TypeInv
  PROVE  /\ HeadTree = Top(hist)
         /\ \A i \in DOMAIN hist :
              /\ ParentTree(i) = Parent(hist, i) /\ added(i) = Adds(hist, i)
              /\ removed(i) = Rems(hist, i) /\ Decides(i) = Decs(hist, i) /\ Deletes(i) = Dels(hist, i)
<1>1. HeadTree = Top(hist)
  BY DEF HeadTree, Top
<1>2. ASSUME NEW i \in DOMAIN hist
      PROVE  /\ ParentTree(i) = Parent(hist, i) /\ added(i) = Adds(hist, i)
             /\ removed(i) = Rems(hist, i) /\ Decides(i) = Decs(hist, i) /\ Deletes(i) = Dels(hist, i)
  <2>1. ParentTree(i) = Parent(hist, i)
    BY DEF ParentTree, Parent
  <2>2. added(i) = Adds(hist, i) /\ removed(i) = Rems(hist, i) /\ modified(i) = Mods(hist, i)
    BY <2>1 DEF added, removed, modified, Adds, Rems, Mods
  <2>3. Decides(i) = Decs(hist, i)
    BY <2>2 DEF Decides, Decs
  <2>4. Deletes(i) = Dels(hist, i)
    <3> DEFINE m == hist[i].meta
    <3>1. m.op = "move" => (metaMatchesDiff(m, i) <=> m.from \in Rems(hist, i) /\ m.path \in Adds(hist, i))
      BY <2>2 DEF metaMatchesDiff
    <3> QED BY <2>2, <3>1 DEF Deletes, Dels
  <2> QED BY <2>1, <2>2, <2>3, <2>4
<1> QED BY <1>1, <1>2

\* The walk finds what the newest commit on each path of the window deletes, and names it.
LEMMA WalkIs ==
  ASSUME TypeInv
  PROVE  LET w == walkDeletedNetState
         IN  /\ w \in Recs
             /\ \A p \in DOMAIN w : \E i \in DOMAIN hist : w[p] = hist[i].hash /\ p \in Rems(hist, i)
             /\ \A p : DecidedIn(hist, p) => (p \in DOMAIN w <=> DeadIn(hist, p))
<1> DEFINE S(p) == {i \in Window : p \in Decides(i)}
           newest(p) == Max(S(p))
           D == {p \in UNION {Decides(i) : i \in Window} : p \in Deletes(newest(p))}
           w == [p \in D |-> hist[newest(p)].hash]
<1>1. walkDeletedNetState = w
  BY DEF walkDeletedNetState
<1>2. hist \in Seq(Commit) /\ DOMAIN hist = 1..Len(hist) /\ Len(hist) \in Nat
  BY HistParts DEF TypeInv
<1>3. Window = {i \in DOMAIN hist : i > Len(hist) - RepairDepth}
  BY DEF Window
<1>4. ASSUME NEW p, DecidedIn(hist, p)
      PROVE  /\ newest(p) \in Window /\ p \in Decides(newest(p))
             /\ \A j \in DOMAIN hist : j > newest(p) => p \notin Decs(hist, j)
  <2>1. S(p) # {} /\ S(p) \in SUBSET Nat /\ \A i \in S(p) : i <= Len(hist)
    <3>1. \A i \in DOMAIN hist : Decides(i) = Decs(hist, i)
      BY Operators
    <3> QED BY <1>2, <1>3, <1>4, <3>1 DEF DecidedIn
  <2>2. newest(p) \in S(p) /\ \A i \in S(p) : i <= newest(p)
    <3> HIDE DEF S
    <3> QED BY <1>2, <2>1, MaxMember
  <2>3. ASSUME NEW j \in DOMAIN hist, j > newest(p) PROVE p \notin Decs(hist, j)
    <3>1. newest(p) \in DOMAIN hist /\ newest(p) > Len(hist) - RepairDepth
      BY <1>3, <2>2
    <3>2. j \in Window
      BY <1>2, <1>3, <2>3, <3>1, Consts
    <3>3. Decides(j) = Decs(hist, j)
      BY Operators
    <3>4. j \notin S(p)
      <4>1. newest(p) \in Nat /\ j \in Nat /\ ~(j <= newest(p))
        BY <1>2, <2>3, <3>1
      <4> HIDE DEF S, newest
      <4> QED BY <2>2, <4>1
    <3> QED BY <3>2, <3>3, <3>4
  <2> QED BY <2>2, <2>3
<1>5. ASSUME NEW p \in D PROVE DecidedIn(hist, p)
  <2>1. PICK i \in Window : p \in Decides(i)
    OBVIOUS
  <2>2. i \in DOMAIN hist /\ Decides(i) = Decs(hist, i)
    BY <1>3, Operators
  <2> QED BY <1>3, <2>1, <2>2 DEF DecidedIn
<1>6. ASSUME NEW p \in D
      PROVE  /\ p \in Path /\ w[p] \in Positive
             /\ \E i \in DOMAIN hist : w[p] = hist[i].hash /\ p \in Rems(hist, i)
  <2> DEFINE n == newest(p)
  <2>1. n \in DOMAIN hist /\ p \in Deletes(n) /\ w[p] = hist[n].hash
    BY <1>3, <1>4, <1>5
  <2>2. p \in Dels(hist, n)
    BY <2>1, Operators
  <2>3. p \in Rems(hist, n) /\ p \in Path
    BY <1>2, <2>1, <2>2, DecsIn
  <2>4. hist[n].hash \in Positive
    BY <1>2, <2>1, HistParts
  <2> HIDE DEF n, w
  <2> QED BY <2>1, <2>3, <2>4
<1>7. w \in Recs
  <2>1. D \in SUBSET Path
    BY <1>6
  <2>2. w \in [D -> Positive]
    BY <1>6
  <2> HIDE DEF D, w
  <2> QED BY <2>1, <2>2, MapIn DEF Recs
<1>8. ASSUME NEW p, DecidedIn(hist, p) PROVE p \in D <=> DeadIn(hist, p)
  <2> DEFINE n == newest(p)
  <2>1. /\ n \in Window /\ n \in DOMAIN hist /\ p \in Decides(n)
        /\ \A j \in DOMAIN hist : j > n => p \notin Decs(hist, j)
    BY <1>3, <1>4, <1>8
  <2>2. Decides(n) = Decs(hist, n) /\ Deletes(n) = Dels(hist, n)
    BY <2>1, Operators
  <2>3. p \in D <=> p \in Dels(hist, n)
    BY <2>1, <2>2
  <2> HIDE DEF n, D
  <2>4. DeadIn(hist, p) => p \in Dels(hist, n)
    <3> SUFFICES ASSUME NEW i \in DOMAIN hist, p \in Dels(hist, i),
                        \A j \in DOMAIN hist : j > i => p \notin Decs(hist, j)
                 PROVE  p \in Dels(hist, n)
      BY DEF DeadIn
    <3>1. p \in Decs(hist, i)
      BY <1>2, DecsIn
    <3>2. ~(i > n) /\ ~(n > i)
      BY <2>1, <2>2, <3>1
    <3>3. i = n
      BY <1>2, <2>1, <3>2
    <3> QED BY <3>3
  <2>5. p \in Dels(hist, n) => DeadIn(hist, p)
    BY <2>1 DEF DeadIn
  <2> QED BY <2>3, <2>4, <2>5
<1>9. DOMAIN w = D
  OBVIOUS
<1> QED BY <1>1, <1>6, <1>7, <1>8, <1>9

----------------------------------------------------------------------------
(* Records *)

Sub(s, r) == DOMAIN s \subseteq DOMAIN r /\ \A p \in DOMAIN s : s[p] = r[p]

LEMMA SubGood ==
  ASSUME NEW h, NEW n, NEW r, NEW s, RecsGood(h, n, r), Sub(s, r)
  PROVE  RecsGood(h, n, s)
BY DEF RecsGood, Sub

LEMMA DropSub ==
  ASSUME NEW r, NEW S
  PROVE  Sub(Drop(r, S), r)
BY DEF Sub, Drop

\* No two records name one commit, so there are no more than commits.
LEMMA RecsFinite ==
  ASSUME NEW h, NEW n \in Nat, NEW r \in Recs, RecsGood(h, n, r)
  PROVE  IsFiniteSet(DOMAIN r)
<1>1. r \in [DOMAIN r -> Positive]
  BY MapParts DEF Recs
<1>2. \A p \in DOMAIN r : r[p] \in 0..n
  BY <1>1 DEF RecsGood, Positive
<1>3. r \in [DOMAIN r -> 0..n]
  BY <1>1, <1>2
<1>4. r \in Injection(DOMAIN r, 0..n)
  BY <1>3 DEF RecsGood, Injection, IsInjective
<1>5. IsFiniteSet(0..n)
  BY FS_Interval
<1> QED BY <1>4, <1>5, FS_Injection

LEMMA SubCapped ==
  ASSUME NEW r, NEW s, IsFiniteSet(DOMAIN r), Sub(s, r), Capped(r)
  PROVE  Capped(s)
<1>1. DOMAIN s \in SUBSET DOMAIN r
  BY DEF Sub
<1>2. IsFiniteSet(DOMAIN s) /\ Cardinality(DOMAIN s) <= Cardinality(DOMAIN r)
  BY <1>1, FS_Subset
<1>3. Cardinality(DOMAIN s) \in Nat /\ Cardinality(DOMAIN r) \in Nat
  BY <1>2, FS_CardinalityType
<1> QED BY <1>2, <1>3, Consts DEF Capped

\* The cap keeps records, at most MaxEntries of them, the newest one included.
LEMMA CapIs ==
  ASSUME NEW h, NEW n \in Nat, NEW r \in Recs, RecsGood(h, n, r)
  PROVE  /\ capNewest(r) \in Recs /\ Sub(capNewest(r), r) /\ Capped(capNewest(r))
         /\ \A p \in DOMAIN r : (\A q \in DOMAIN r : r[q] <= r[p]) => p \in DOMAIN capNewest(r)
<1>0. DOMAIN r \subseteq Path /\ \A p \in DOMAIN r : r[p] \in Positive /\ r[p] \in Nat
  BY MapParts DEF Recs, Positive
<1>1. CASE MaxEntries = 0
  BY <1>1 DEF capNewest, Capped, Sub
<1>2. CASE MaxEntries # 0
  <2> DEFINE Above(q) == {s \in DOMAIN r : r[s] > r[q]}
             K == {q \in DOMAIN r : Cardinality(Above(q)) < MaxEntries}
             c == [p \in K |-> r[p]]
  <2>1. capNewest(r) = c
    BY <1>2 DEF capNewest
  <2>2. c \in [K -> Positive] /\ K \in SUBSET Path /\ Sub(c, r) /\ DOMAIN c = K
    BY <1>0 DEF Sub
  <2>3. c \in Recs
    <3> HIDE DEF c, K
    <3> QED BY <2>2, MapIn DEF Recs
  <2>4. IsFiniteSet(DOMAIN r)
    BY RecsFinite
  <2>5. \A q : Above(q) \in SUBSET DOMAIN r /\ K \in SUBSET DOMAIN r
    OBVIOUS
  <2>6. IsFiniteSet(K) /\ Cardinality(K) \in Nat
    <3> HIDE DEF K
    <3> QED BY <2>4, <2>5, FS_Subset, FS_CardinalityType
  <2>7. ASSUME K # {} PROVE Cardinality(K) <= MaxEntries
    <3> DEFINE V == {r[q] : q \in K}
    <3>1. V \in SUBSET Nat /\ V # {}
      BY <1>0, <2>7
    <3>2. PICK m \in V : \A v \in V : m <= v
      <4> HIDE DEF V
      <4> QED BY <3>1, LeastNat
    <3>3. PICK q \in K : r[q] = m
      OBVIOUS
    <3>4. K \ {q} \in SUBSET Above(q)
      <4>1. ASSUME NEW s \in K, s # q PROVE r[s] > r[q]
        <5>1. s \in DOMAIN r /\ q \in DOMAIN r /\ r[s] # r[q]
          BY <4>1 DEF RecsGood
        <5>2. r[q] <= r[s]
          BY <3>2, <3>3
        <5>3. r[s] \in Nat /\ r[q] \in Nat
          BY <1>0, <5>1
        <5> QED BY <5>1, <5>2, <5>3
      <4> QED BY <4>1
    <3>5. IsFiniteSet(Above(q)) /\ Cardinality(Above(q)) \in Nat
      <4> HIDE DEF Above
      <4> QED BY <2>4, <2>5, FS_Subset, FS_CardinalityType
    <3>6. Cardinality(Above(q)) < MaxEntries
      BY <3>3
    <3> HIDE DEF Above, K
    <3>7. Cardinality(K \ {q}) <= Cardinality(Above(q))
      BY <3>4, <3>5, FS_Subset
    <3>8. Cardinality(K \ {q}) = Cardinality(K) - 1
      BY <2>6, <3>3, FS_RemoveElement
    <3> QED BY <2>6, <3>5, <3>6, <3>7, <3>8, Consts
  <2>8. K = {} => Cardinality(K) = 0
    BY FS_EmptySet
  <2>9. Capped(c)
    <3> HIDE DEF K, c
    <3> QED BY <2>2, <2>7, <2>8, Consts DEF Capped
  <2>10. ASSUME NEW p \in DOMAIN r, \A q \in DOMAIN r : r[q] <= r[p] PROVE p \in K
    <3>1. \A q \in DOMAIN r : ~(r[q] > r[p])
      BY <1>0, <2>10
    <3>2. Above(p) = {}
      BY <3>1
    <3>3. Cardinality(Above(p)) = 0
      BY <3>2, FS_EmptySet
    <3> QED BY <1>2, <3>3, Consts
  <2> HIDE DEF K, c
  <2> QED BY <2>1, <2>2, <2>3, <2>9, <2>10
<1> QED BY <1>1, <1>2

LEMMA TouchedIs ==
  ASSUME TypeInv, queue # <<>>
  PROVE  /\ queue[1] \in Entry /\ queue[1].meta \in Meta /\ Touched \subseteq Path
         /\ landed # None => Touched = Pending(queue, landed)
         /\ queue[1].meta.op \in {"write", "delete"} => Touched = {queue[1].meta.path}
         /\ queue[1].meta.op = "move" => Touched = {queue[1].meta.path, queue[1].meta.from}
<1>1. queue[1] \in Entry /\ queue[1].meta \in Meta
  <2>1. queue \in Seq(Entry)
    BY DEF TypeInv
  <2>2. queue[1] \in Entry
    BY <2>1
  <2> QED BY <2>2 DEF Entry
<1> DEFINE m == queue[1].meta
<1>2. /\ m.op \in {"write", "delete", "move"} /\ m.path \in Path
      /\ m.op = "move" => m.from \in Path /\ m.path # m.from
      /\ m.op # "move" => m.from = None
  BY <1>1, MetaParts
<1>3. Touched = {m.path, m.from} \ {None}
  BY DEF Touched
<1>4. landed # None => Touched = Pending(queue, landed)
  BY DEF Touched, Pending
<1> HIDE DEF m
<1>5. /\ Touched \subseteq Path /\ (m.op \in {"write", "delete"} => Touched = {m.path})
      /\ m.op = "move" => Touched = {m.path, m.from}
  BY <1>2, <1>3, Consts
<1> QED BY <1>1, <1>4, <1>5 DEF m

\* The commit whose hook has still to run.
LEMMA LandedIs ==
  ASSUME TypeInv, HistInv, landed # None
  PROVE  /\ queue # <<>> /\ Len(hist) \in DOMAIN hist /\ hist[Len(hist)].meta = queue[1].meta
         /\ Lands(hist, Len(hist)) /\ landed \in Positive /\ nextId = landed + 1
         /\ \A i \in DOMAIN hist : hist[i].hash = landed <=> i = Len(hist)
<1>1. hist \in Seq(Commit) /\ DOMAIN hist = 1..Len(hist) /\ Len(hist) \in Nat
  BY HistParts DEF TypeInv
<1>2. hist # <<>> /\ Len(hist) \in DOMAIN hist
  BY <1>1 DEF HistInv
<1>3. landed \in Positive
  BY <1>1, <1>2, HistParts DEF HistInv
<1> QED BY <1>2, <1>3 DEF HistInv

\* The hook leaves good records; the paths it touches are in or out as the newest commit says.
LEMMA AppliedIs ==
  ASSUME TypeInv, HistInv, landed # None, NEW r \in Recs, RecsGood(hist, nextId, r)
  PROVE  /\ Applied(r) \in Recs /\ RecsGood(hist, nextId, Applied(r))
         /\ Capped(r) => Capped(Applied(r))
         /\ DOMAIN Applied(r) \ Touched \subseteq DOMAIN r
         /\ \A p \in Touched : p \in DOMAIN Applied(r) <=> queue[1].meta.op = "delete"
<1> DEFINE m == queue[1].meta
           l == Len(hist)
<1>0. queue # <<>> /\ nextId \in Nat /\ hist \in Seq(Commit)
  BY LandedIs DEF TypeInv, Positive
<1>1. /\ m \in Meta /\ m.op \in {"write", "delete", "move"} /\ m.path \in Path
      /\ m.op \in {"write", "delete"} => Touched = {m.path}
      /\ m.op = "move" => Touched = {m.path, m.from}
  BY <1>0, TouchedIs, MetaParts
<1>2. /\ m.op = "delete" => Applied(r) = capNewest(Put(r, m.path, landed))
      /\ m.op = "move" => Applied(r) = Drop(r, {m.from, m.path})
      /\ m.op = "write" => Applied(r) = Drop(r, {m.path})
  BY DEF Applied, Upsert
<1>3. CASE m.op # "delete"
  <2>1. Applied(r) = Drop(r, Touched)
    <3>1. m.op = "move" => Touched = {m.from, m.path}
      BY <1>1
    <3> HIDE DEF m
    <3> QED BY <1>1, <1>2, <1>3, <3>1
  <2>2. Applied(r) \in Recs /\ Sub(Applied(r), r) /\ DOMAIN Applied(r) = DOMAIN r \ Touched
    <3>1. Drop(r, Touched) \in Recs
      BY DropMap DEF Recs
    <3>2. Sub(Drop(r, Touched), r) /\ DOMAIN Drop(r, Touched) = DOMAIN r \ Touched
      BY DEF Sub, Drop
    <3> QED BY <2>1, <3>1, <3>2
  <2>3. RecsGood(hist, nextId, Applied(r)) /\ (Capped(r) => Capped(Applied(r)))
    BY <1>0, <2>2, SubGood, SubCapped, RecsFinite
  <2> QED BY <1>3, <2>2, <2>3
<1>4. CASE m.op = "delete"
  <2> DEFINE u == Put(r, m.path, landed)
  <2>1. /\ l \in DOMAIN hist /\ hist[l].meta = m /\ Lands(hist, l) /\ landed \in Positive
        /\ nextId = landed + 1 /\ \A i \in DOMAIN hist : hist[i].hash = landed <=> i = l
    BY LandedIs
  <2>2. Rems(hist, l) = {m.path}
    BY <1>0, <1>4, <2>1, Kinds
  <2>3. u \in Recs /\ DOMAIN u = DOMAIN r \cup {m.path} /\ u[m.path] = landed
        /\ \A j \in DOMAIN r \ {m.path} : u[j] = r[j]
    <3>1. u \in Recs
      BY <1>1, <2>1, PutMap DEF Recs
    <3> QED BY <3>1 DEF Put
  <2>4. \A p \in DOMAIN r : r[p] \in Nat /\ r[p] < nextId /\ r[p] <= landed
    <3>1. \A p \in DOMAIN r : r[p] \in Nat
      BY MapParts DEF Recs, Positive
    <3>2. landed \in Nat
      BY <2>1 DEF Positive
    <3> HIDE DEF l
    <3> QED BY <2>1, <3>1, <3>2 DEF RecsGood
  <2>5. \A p \in DOMAIN r \ {m.path} : r[p] # landed
    BY <2>1, <2>2 DEF RecsGood
  <2>6. RecsGood(hist, nextId, u)
    <3>1. landed < nextId
      BY <2>1 DEF Positive
    <3>2. \A p \in DOMAIN u : u[p] < nextId /\ \A i \in DOMAIN hist : hist[i].hash = u[p] => p \in Rems(hist, i)
      <4>1. \A i \in DOMAIN hist : hist[i].hash = landed => m.path \in Rems(hist, i)
        BY <2>1, <2>2
      <4> HIDE DEF u, m, l
      <4> QED BY <2>3, <2>4, <3>1, <4>1 DEF RecsGood
    <3>3. \A p, q \in DOMAIN u : u[p] = u[q] => p = q
      <4> HIDE DEF u, m, l
      <4> QED BY <2>3, <2>5 DEF RecsGood
    <3> QED BY <3>2, <3>3 DEF RecsGood
  <2>7. \A q \in DOMAIN u : u[q] <= landed
    <3>1. landed \in Nat
      BY <2>1 DEF Positive
    <3> HIDE DEF u, m, l
    <3> QED BY <2>3, <2>4, <3>1
  <2> HIDE DEF u, l
  <2>8. /\ capNewest(u) \in Recs /\ Sub(capNewest(u), u) /\ Capped(capNewest(u))
        /\ m.path \in DOMAIN capNewest(u)
    BY <1>0, <2>3, <2>6, <2>7, CapIs
  <2>9. RecsGood(hist, nextId, capNewest(u))
    BY <2>6, <2>8, SubGood
  <2>10. Applied(r) = capNewest(u) /\ Touched = {m.path}
    BY <1>1, <1>2, <1>4 DEF u
  <2>11. DOMAIN Applied(r) \ Touched \subseteq DOMAIN r
    BY <2>3, <2>8, <2>10 DEF Sub
  <2> QED BY <1>4, <2>8, <2>9, <2>10, <2>11
<1> QED BY <1>3, <1>4

----------------------------------------------------------------------------
(* Types *)

LEMMA IdleOK ==
  ASSUME NEW F
  PROVE  HandlerOK(Idle, F) /\ Idle.pc = "idle" /\ Idle.st = None
<1>1. EmptyMap \in Recs
  BY EmptyIn DEF Recs
<1>2. Idle \in CallType
  BY <1>1, Consts DEF Idle, CallType, None
<1> QED BY <1>2 DEF HandlerOK, Idle, None

\* A step of the handler of one call.
LEMMA HandlersStep ==
  ASSUME TypeInv, NEW c \in Caller, NEW r, NEW F, DOMAIN files \subseteq F, HandlerOK(r, F)
  PROVE  LET f == [call EXCEPT ![c] = r]
         IN  f \in [Caller -> CallType] /\ \A d \in Caller : HandlerOK(f[d], F)
BY DEF TypeInv, HandlerOK

\* Noting what a hook or a revival overtakes.
LEMMA RaceIs ==
  ASSUME TypeInv, NEW S \in SUBSET Path
  PROVE  /\ Race(S) \in [Caller -> CallType]
         /\ \A c \in Caller :
              /\ HandlerOK(Race(S)[c], DOMAIN files)
              /\ Race(S)[c].pc = call[c].pc /\ Race(S)[c].st = call[c].st
              /\ Race(S)[c].recs = call[c].recs
              /\ call[c].pc \in Building => Race(S)[c].raced = call[c].raced \cup S
<1>1. ASSUME NEW c \in Caller
      PROVE  /\ Race(S)[c] \in CallType /\ HandlerOK(Race(S)[c], DOMAIN files)
             /\ Race(S)[c].pc = call[c].pc /\ Race(S)[c].st = call[c].st
             /\ Race(S)[c].recs = call[c].recs
             /\ call[c].pc \in Building => Race(S)[c].raced = call[c].raced \cup S
  <2>1. call[c] \in CallType /\ HandlerOK(call[c], DOMAIN files)
    BY DEF TypeInv
  <2>2. c \in Rebuilding <=> call[c].pc \in Building
    BY DEF Rebuilding, Building
  <2>3. CASE call[c].pc \in Building
    <3>1. Race(S)[c] = [call[c] EXCEPT !.raced = @ \cup S]
      BY <2>2, <2>3 DEF Race
    <3>2. call[c].raced \cup S \in SUBSET Path
      BY <2>1 DEF CallType
    <3>3. /\ Race(S)[c] \in CallType /\ Race(S)[c].pc = call[c].pc /\ Race(S)[c].st = call[c].st
          /\ Race(S)[c].recs = call[c].recs /\ Race(S)[c].raced = call[c].raced \cup S
          /\ Race(S)[c].path = call[c].path /\ Race(S)[c].content = call[c].content
      BY <2>1, <3>1, <3>2 DEF CallType
    <3> QED BY <2>1, <3>3 DEF HandlerOK
  <2>4. CASE call[c].pc \notin Building
    BY <2>1, <2>2, <2>4 DEF Race
  <2> QED BY <2>3, <2>4
<1>2. Race(S) = [c \in Caller |-> Race(S)[c]]
  BY DEF Race
<1> QED BY <1>1, <1>2

LEMMA ReadHandleIs ==
  ASSUME TypeInv
  PROVE  /\ ReadHandle \in {None, reg, file} /\ ReadHandle \in {None} \cup DOMAIN files
         /\ reg # None => ReadHandle = reg
         /\ ReadHandle # None => ReadHandle = Cur /\ Cur # None
         /\ ReadHandle # None /\ reg = None => file \notin Held
<1>1. file \in {None} \cup DOMAIN files /\ reg \in {None} \cup DOMAIN files
  BY DEF TypeInv
<1> QED BY <1>1 DEF ReadHandle, Cur

LEMMA FilesParts ==
  ASSUME TypeInv
  PROVE  /\ files \in [DOMAIN files -> LogFile] /\ DOMAIN files = 1..Len(files) /\ Len(files) \in Nat
         /\ None \notin DOMAIN files
         /\ \A n \in DOMAIN files : files[n] \in LogFile /\ files[n].recs \in Recs
<1>1. /\ files \in [DOMAIN files -> LogFile] /\ DOMAIN files = 1..Len(files) /\ Len(files) \in Nat
      /\ \A n \in DOMAIN files : files[n] \in LogFile
  BY DEF TypeInv
<1> QED BY <1>1 DEF LogFile, None

\* Changing the records of a log file, and making a new one.
LEMMA FileSet ==
  ASSUME TypeInv, NEW n \in DOMAIN files, NEW r \in Recs
  PROVE  LET f == [files EXCEPT ![n].recs = r]
         IN  /\ f \in Seq(LogFile) /\ DOMAIN f = DOMAIN files /\ f[n].recs = r
             /\ \A k \in DOMAIN files \ {n} : f[k] = files[k]
<1> DEFINE f == [files EXCEPT ![n].recs = r]
<1>1. files[n] \in LogFile /\ [files[n] EXCEPT !.recs = r] \in LogFile
  BY FilesParts DEF LogFile
<1>2. /\ f \in [1..Len(files) -> LogFile] /\ DOMAIN f = DOMAIN files
      /\ f[n] = [files[n] EXCEPT !.recs = r] /\ \A k \in DOMAIN files \ {n} : f[k] = files[k]
  BY <1>1, FilesParts
<1>3. f[n].recs = r
  BY <1>1, <1>2 DEF LogFile
<1>4. f \in Seq(LogFile)
  BY <1>2, FilesParts
<1> HIDE DEF f
<1> QED BY <1>2, <1>3, <1>4 DEF f

LEMMA FileNew ==
  ASSUME TypeInv, NEW r \in Recs
  PROVE  LET f == Append(files, NewLog(r))
         IN  /\ f \in Seq(LogFile) /\ DOMAIN f = DOMAIN files \cup {Len(files) + 1}
             /\ Len(f) = Len(files) + 1 /\ f[Len(files) + 1].recs = r
             /\ Len(files) + 1 \notin DOMAIN files /\ Len(files) + 1 # None
             /\ \A k \in DOMAIN files : f[k] = files[k]
<1> DEFINE f == Append(files, NewLog(r))
<1>1. NewLog(r) \in LogFile /\ NewLog(r).recs = r
  BY DEF NewLog, LogFile
<1>2. files \in Seq(LogFile) /\ DOMAIN files = 1..Len(files) /\ Len(files) \in Nat
  BY FilesParts DEF TypeInv
<1> HIDE DEF f
<1>3. /\ f \in Seq(LogFile) /\ DOMAIN f = 1..(Len(files) + 1) /\ Len(f) = Len(files) + 1
      /\ f[Len(files) + 1] = NewLog(r) /\ \A k \in DOMAIN files : f[k] = files[k]
  BY <1>1, <1>2 DEF f
<1>4. /\ DOMAIN f = DOMAIN files \cup {Len(files) + 1} /\ Len(files) + 1 \notin DOMAIN files
      /\ Len(files) + 1 # None
  BY <1>2, <1>3 DEF None
<1> QED BY <1>1, <1>3, <1>4 DEF f

LEMMA QueueAppend ==
  ASSUME TypeInv, Len(queue) < MaxQueue, NEW e \in Entry
  PROVE  Append(queue, e) \in Seq(Entry) /\ Len(Append(queue, e)) <= MaxQueue
<1>1. queue \in Seq(Entry) /\ Len(queue) \in Nat
  BY DEF TypeInv
<1>2. Append(queue, e) \in Seq(Entry) /\ Len(Append(queue, e)) = Len(queue) + 1
  BY <1>1
<1> QED BY <1>1, <1>2, Consts

LEMMA QueueTail ==
  ASSUME TypeInv, queue # <<>>
  PROVE  Tail(queue) \in Seq(Entry) /\ Len(Tail(queue)) <= MaxQueue
<1>1. queue \in Seq(Entry) /\ Len(queue) \in Nat /\ Len(queue) <= MaxQueue
  BY DEF TypeInv
<1>2. Tail(queue) \in Seq(Entry) /\ Len(Tail(queue)) = Len(queue) - 1
  BY <1>1
<1> QED BY <1>1, <1>2, Consts

\* A step that leaves the handlers and the log files.
LEMMA TypeRepo ==
  ASSUME TypeInv, UNCHANGED <<logs, call, up, cleaned, faults, dirty>>,
         hist' \in Seq(Commit), queue' \in Seq(Entry), Len(queue') <= MaxQueue,
         landed' \in Nat, nextId' \in Positive
  PROVE  TypeInv'
BY DEF TypeInv, logs

LEMMA TypeAccept == TypeInv /\ Accept => TypeInv'
<1> SUFFICES ASSUME TypeInv, Accept PROVE TypeInv'
  OBVIOUS
<1>1. PICK m \in Meta, x \in Content : queue' = Append(queue, [meta |-> m, content |-> x])
  BY DEF Accept
<1>2. [meta |-> m, content |-> x] \in Entry
  BY DEF Entry
<1>3. queue' \in Seq(Entry) /\ Len(queue') <= MaxQueue
  BY <1>1, <1>2, QueueAppend DEF Accept
<1>4. /\ UNCHANGED <<logs, call, up, cleaned, faults, dirty>> /\ hist' \in Seq(Commit)
      /\ landed' \in Nat /\ nextId' \in Positive
  BY DEF Accept, TypeInv
<1> QED BY <1>3, <1>4, TypeRepo

\* The commit that commitEntry makes.
NewCommit ==
  [meta |-> queue[1].meta, hash |-> nextId, tree |-> applyToTree(HeadTree, queue[1])]
LEMMA CommitIs ==
  ASSUME TypeInv, commitEntry
  PROVE  /\ landed = None /\ up /\ queue # <<>> /\ NewCommit \in Commit
         /\ UNCHANGED <<logs, call, up, cleaned, faults, dirty>>
         /\ \/ queue' = Tail(queue) /\ UNCHANGED <<hist, landed, nextId>>
            \/ /\ hist' = Append(hist, NewCommit) /\ landed' = nextId /\ nextId' = nextId + 1
               /\ queue' = queue /\ NewCommit.tree # Top(hist)
               /\ \E x \in Content : NewCommit.tree
                    = applyToTree(Top(hist), [meta |-> NewCommit.meta, content |-> x])
<1>1. queue # <<>> /\ queue[1] \in Entry /\ queue[1].meta \in Meta /\ queue[1].content \in Content
  <2>1. queue # <<>>
    BY DEF commitEntry
  <2> QED BY <2>1, TouchedIs DEF Entry
<1>2. Head(queue) = queue[1]
  BY <1>1 DEF TypeInv
<1>3. HeadTree = Top(hist) /\ Top(hist) \in Tree
  BY Operators, HistParts DEF TypeInv
<1>4. NewCommit \in Commit
  <2>1. applyToTree(HeadTree, queue[1]) \in Tree
    BY <1>1, <1>3, ApplyTree
  <2>2. nextId \in Positive
    BY DEF TypeInv
  <2> QED BY <1>1, <2>1, <2>2 DEF NewCommit, Commit
<1>5. queue[1] = [meta |-> NewCommit.meta, content |-> queue[1].content]
  BY <1>1 DEF NewCommit, Entry
<1>6. NewCommit.tree = applyToTree(Top(hist), queue[1])
  BY <1>3 DEF NewCommit
<1>7. \/ queue' = Tail(queue) /\ UNCHANGED <<hist, landed, nextId>>
      \/ /\ hist' = Append(hist, NewCommit) /\ landed' = nextId /\ nextId' = nextId + 1
         /\ queue' = queue /\ applyToTree(HeadTree, queue[1]) # HeadTree
  BY <1>2 DEF commitEntry, NewCommit
<1>8. landed = None /\ up /\ UNCHANGED <<logs, call, up, cleaned, faults, dirty>>
  BY DEF commitEntry
<1> QED BY <1>1, <1>3, <1>4, <1>5, <1>6, <1>7, <1>8

LEMMA TypeCommit == TypeInv /\ commitEntry => TypeInv'
<1> SUFFICES ASSUME TypeInv, commitEntry PROVE TypeInv'
  OBVIOUS
<1>1. CASE queue' = Tail(queue) /\ UNCHANGED <<hist, landed, nextId>>
  <2>1. queue' \in Seq(Entry) /\ Len(queue') <= MaxQueue
    BY <1>1, CommitIs, QueueTail
  <2>2. hist' \in Seq(Commit) /\ landed' \in Nat /\ nextId' \in Positive
    BY <1>1 DEF TypeInv
  <2> QED BY <2>1, <2>2, CommitIs, TypeRepo
<1>2. CASE hist' = Append(hist, NewCommit) /\ landed' = nextId /\ nextId' = nextId + 1 /\ queue' = queue
  <2>1. hist' \in Seq(Commit)
    BY <1>2, CommitIs, Grow DEF TypeInv
  <2>2. landed' \in Nat /\ nextId' \in Positive /\ queue' \in Seq(Entry) /\ Len(queue') <= MaxQueue
    BY <1>2 DEF TypeInv, Positive
  <2> QED BY <2>1, <2>2, CommitIs, TypeRepo
<1> QED BY <1>1, <1>2, CommitIs

\* The cases of the hook.
HookUpdates ==
  LET n == ReadHandle
  IN /\ n # None
     /\ files' = [files EXCEPT ![n].recs = Applied(@)]
     /\ reg' = n
     /\ dirty' = (dirty \ Touched)
                   \cup (DOMAIN files[n].recs \ (DOMAIN files'[n].recs \cup Touched))
     /\ UNCHANGED <<file, faults>>
HookCreates ==
  /\ file = None /\ reg = None /\ queue[1].meta.op = "delete"
  /\ files' = Append(files, NewLog(Applied(EmptyMap)))
  /\ file' = Len(files) + 1 /\ reg' = file'
  /\ dirty' = dirty \ Touched
  /\ UNCHANGED faults
HookSkips ==
  /\ dirty' = dirty \cup Touched /\ faults' \in 0..MaxFaults
  /\ UNCHANGED logs

LEMMA HookIs ==
  ASSUME TypeInv, deletedLogApply
  PROVE  /\ landed # None /\ landed' = None /\ queue' = Tail(queue) /\ call' = Race(Touched) /\ up
         /\ UNCHANGED <<hist, nextId, up, cleaned>>
         /\ HookUpdates \/ HookCreates \/ HookSkips
<1>1. faults \in 0..MaxFaults
  BY DEF TypeInv
<1>2. /\ landed # None /\ landed' = None /\ queue' = Tail(queue) /\ call' = Race(Touched) /\ up
      /\ UNCHANGED <<hist, nextId, up, cleaned>>
  BY DEF deletedLogApply
<1>3. CASE HookUpdates
  BY <1>2, <1>3
<1>4. CASE HookCreates
  BY <1>2, <1>4
<1>5. CASE dirty' = dirty \cup Touched /\ UNCHANGED <<logs, faults>>
  BY <1>1, <1>2, <1>5 DEF HookSkips
<1>6. CASE faults < MaxFaults /\ faults' = faults + 1 /\ dirty' = dirty \cup Touched /\ UNCHANGED logs
  BY <1>1, <1>2, <1>6, Consts DEF HookSkips
<1>7. \/ HookUpdates
      \/ HookCreates
      \/ dirty' = dirty \cup Touched /\ UNCHANGED <<logs, faults>>
      \/ faults < MaxFaults /\ faults' = faults + 1 /\ dirty' = dirty \cup Touched /\ UNCHANGED logs
  <2>1. \/ HookUpdates
        \/ /\ file = None /\ reg = None /\ queue[1].meta.op = "delete"
           /\ Len(files) < MaxFiles
           /\ files' = Append(files, NewLog(Applied(EmptyMap)))
           /\ file' = Len(files) + 1 /\ reg' = file'
           /\ dirty' = dirty \ Touched
           /\ UNCHANGED faults
        \/ /\ ReadHandle = None
           /\ file = None => queue[1].meta.op # "delete"
           /\ dirty' = dirty \cup Touched
           /\ UNCHANGED <<logs, faults>>
        \/ /\ faults < MaxFaults
           /\ faults' = faults + 1
           /\ dirty' = dirty \cup Touched
           /\ UNCHANGED logs
    BY Zenon DEF deletedLogApply, HookUpdates
  <2> QED BY <2>1 DEF HookCreates
<1> QED BY <1>3, <1>4, <1>5, <1>6, <1>7

\* The log the hook has updated or made.
LEMMA HookRecs ==
  ASSUME TypeInv, HistInv, RecsInv, deletedLogApply
  PROVE  /\ HookUpdates => LET r == Applied(files[ReadHandle].recs)
                           IN  /\ r \in Recs /\ files' = [files EXCEPT ![ReadHandle].recs = r]
                               /\ RecsGood(hist, nextId, r) /\ Capped(r)
                               /\ ReadHandle \in DOMAIN files
         /\ HookCreates => LET r == Applied(EmptyMap)
                           IN r \in Recs /\ RecsGood(hist, nextId, r) /\ Capped(r)
<1>1. landed # None
  BY HookIs
<1>2. ASSUME HookUpdates
      PROVE  LET r == Applied(files[ReadHandle].recs)
             IN  /\ r \in Recs /\ files' = [files EXCEPT ![ReadHandle].recs = r]
                 /\ RecsGood(hist, nextId, r) /\ Capped(r) /\ ReadHandle \in DOMAIN files
  <2> DEFINE n == ReadHandle
  <2>1. n \in DOMAIN files
    BY <1>2, ReadHandleIs DEF HookUpdates
  <2>2. files[n].recs \in Recs /\ RecsGood(hist, nextId, files[n].recs) /\ Capped(files[n].recs)
    BY <2>1, FilesParts DEF RecsInv
  <2>3. files' = [files EXCEPT ![n].recs = Applied(files[n].recs)]
    BY <1>2 DEF HookUpdates
  <2> HIDE DEF n
  <2>4. /\ Applied(files[n].recs) \in Recs /\ RecsGood(hist, nextId, Applied(files[n].recs))
        /\ Capped(Applied(files[n].recs))
    BY <1>1, <2>2, AppliedIs
  <2> QED BY <2>1, <2>3, <2>4 DEF n
<1>3. EmptyMap \in Recs /\ RecsGood(hist, nextId, EmptyMap) /\ Capped(EmptyMap)
  <2>1. EmptyMap \in Recs /\ DOMAIN EmptyMap = {}
    BY EmptyIn DEF Recs
  <2>2. Cardinality({}) = 0
    BY FS_EmptySet
  <2> QED BY <2>1, <2>2, Consts DEF RecsGood, Capped
<1>4. LET r == Applied(EmptyMap) IN r \in Recs /\ RecsGood(hist, nextId, r) /\ Capped(r)
  BY <1>1, <1>3, AppliedIs
<1> QED BY <1>2, <1>4

LEMMA TypeHook == TypeInv /\ HistInv /\ RecsInv /\ deletedLogApply => TypeInv'
<1> SUFFICES ASSUME TypeInv, HistInv, RecsInv, deletedLogApply PROVE TypeInv'
  OBVIOUS
<1>1. /\ landed # None /\ landed' = None /\ queue' = Tail(queue) /\ call' = Race(Touched)
      /\ UNCHANGED <<hist, nextId, up, cleaned>> /\ (HookUpdates \/ HookCreates \/ HookSkips)
  BY HookIs
<1>2. queue # <<>> /\ Touched \subseteq Path
  BY <1>1, LandedIs, TouchedIs
<1>3. queue' \in Seq(Entry) /\ Len(queue') <= MaxQueue
  BY <1>1, <1>2, QueueTail
<1>4. call' \in [Caller -> CallType] /\ \A c \in Caller : HandlerOK(call'[c], DOMAIN files)
  BY <1>1, <1>2, RaceIs
<1>5. /\ hist' \in Seq(Commit) /\ landed' \in Nat /\ nextId' \in Positive
      /\ {up', cleaned'} \subseteq BOOLEAN
  BY <1>1 DEF TypeInv, None
<1>6. DOMAIN files \subseteq DOMAIN files' =>
        \A c \in Caller : HandlerOK(call'[c], DOMAIN files')
  BY <1>4 DEF HandlerOK
<1>7. /\ files' \in Seq(LogFile) /\ {file', reg'} \subseteq {None} \cup DOMAIN files'
      /\ DOMAIN files \subseteq DOMAIN files' /\ faults' \in 0..MaxFaults /\ dirty' \subseteq Path
  <2>1. CASE HookUpdates
    <3> DEFINE n == ReadHandle
               r == Applied(files[n].recs)
    <3>1. n \in DOMAIN files /\ r \in Recs /\ files' = [files EXCEPT ![n].recs = r]
      BY <2>1, HookRecs
    <3> HIDE DEF r
    <3>2. files' \in Seq(LogFile) /\ DOMAIN files' = DOMAIN files
      BY <3>1, FileSet
    <3>3. DOMAIN files[n].recs \subseteq Path
      BY <3>1, FilesParts, MapParts DEF Recs
    <3>4. dirty' \subseteq Path
      BY <2>1, <3>3 DEF HookUpdates, TypeInv
    <3> QED BY <2>1, <3>1, <3>2, <3>4 DEF HookUpdates, TypeInv
  <2>2. CASE HookCreates
    <3>1. files' \in Seq(LogFile) /\ DOMAIN files' = DOMAIN files \cup {Len(files) + 1}
      BY <2>2, HookRecs, FileNew DEF HookCreates
    <3> QED BY <2>2, <3>1 DEF HookCreates, TypeInv
  <2>3. CASE HookSkips
    BY <1>2, <2>3 DEF HookSkips, TypeInv, logs
  <2> QED BY <1>1, <2>1, <2>2, <2>3
<1> QED BY <1>3, <1>4, <1>5, <1>6, <1>7 DEF TypeInv

\* A step of one handler that leaves the repository.
LEMMA TypeHandler ==
  ASSUME TypeInv, NEW c \in Caller, NEW r, call' = [call EXCEPT ![c] = r],
         UNCHANGED <<repo, up, cleaned, faults>>,
         files' \in Seq(LogFile), DOMAIN files \subseteq DOMAIN files',
         {file', reg'} \subseteq {None} \cup DOMAIN files', HandlerOK(r, DOMAIN files'), dirty' \subseteq Path
  PROVE  TypeInv'
<1>1. call' \in [Caller -> CallType] /\ \A d \in Caller : HandlerOK(call'[d], DOMAIN files')
  BY HandlersStep
<1> QED BY <1>1 DEF TypeInv, repo

LEMMA CallParts ==
  ASSUME TypeInv, NEW c \in Caller
  PROVE  /\ call[c] \in CallType /\ HandlerOK(call[c], DOMAIN files) /\ call[c].recs \in Recs
         /\ call[c].raced \in SUBSET Path /\ call[c].st \in {None} \cup DOMAIN files
BY DEF TypeInv, CallType, HandlerOK

\* What a handler holds at the points of its program.
WalkCall == [Idle EXCEPT !.pc = "walk"]
LEMMA WalkOK ==
  ASSUME NEW F
  PROVE  HandlerOK(WalkCall, F) /\ WalkCall.pc = "walk" /\ WalkCall.st = None /\ WalkCall.recs = EmptyMap
<1>1. EmptyMap \in Recs
  BY EmptyIn DEF Recs
<1>2. WalkCall \in CallType /\ WalkCall.pc = "walk" /\ WalkCall.st = None /\ WalkCall.recs = EmptyMap
  BY <1>1, Consts DEF WalkCall, Idle, CallType, None
<1> QED BY <1>2 DEF HandlerOK

LEMMA TypeListDeleted == ASSUME TypeInv, NEW c \in Caller, ListDeleted(c) PROVE TypeInv'
<1>1. UNCHANGED <<repo, up, cleaned, faults>>
  BY DEF ListDeleted
<1>2. CASE Goto(c, WalkCall) /\ UNCHANGED <<logs, dirty>>
  BY <1>1, <1>2, WalkOK, TypeHandler DEF TypeInv, Goto, logs
<1>3. CASE reg' = ReadHandle /\ UNCHANGED <<call, files, file, dirty>>
  BY <1>1, <1>3, ReadHandleIs DEF TypeInv, repo
<1>4. CASE file' = None /\ dirty' = Path /\ Goto(c, WalkCall) /\ UNCHANGED <<files, reg>>
  BY <1>1, <1>4, WalkOK, TypeHandler DEF TypeInv, Goto
<1> QED BY <1>2, <1>3, <1>4 DEF ListDeleted, WalkCall

\* What the walk gives its handler.
WalkedCall(c) ==
  [call[c] EXCEPT !.pc = "remove", !.recs = walkDeletedNetState,
                  !.raced = IF landed # None THEN Touched ELSE {}]
LEMMA WalkedIs ==
  ASSUME TypeInv, HistInv, NEW c \in Caller, walk(c), NEW F, DOMAIN files \subseteq F
  PROVE  /\ HandlerOK(WalkedCall(c), F) /\ WalkedCall(c).pc = "remove" /\ WalkedCall(c).st = None
         /\ WalkedCall(c).recs = walkDeletedNetState /\ WalkedCall(c).raced = Pending(queue, landed)
<1>1. walkDeletedNetState \in Recs
  BY WalkIs
<1>2. call[c].pc = "walk" /\ call[c].st = None
  BY CallParts DEF walk, At, HandlerOK
<1>3. (IF landed # None THEN Touched ELSE {}) = Pending(queue, landed) /\ Pending(queue, landed) \subseteq Path
  <2>1. CASE landed # None
    BY <2>1, LandedIs, TouchedIs
  <2>2. CASE landed = None
    BY <2>2 DEF Pending
  <2> QED BY <2>1, <2>2
<1> DEFINE w == walkDeletedNetState
<1> HIDE DEF w
<1>4. WalkedCall(c) = [call[c] EXCEPT !.pc = "remove", !.recs = w, !.raced = Pending(queue, landed)]
  BY <1>3 DEF WalkedCall, w
<1>5. w \in Recs
  BY <1>1 DEF w
<1>6. /\ WalkedCall(c) \in CallType /\ WalkedCall(c).pc = "remove" /\ WalkedCall(c).st = None
      /\ WalkedCall(c).recs = w /\ WalkedCall(c).raced = Pending(queue, landed)
  BY <1>2, <1>3, <1>4, <1>5, CallParts DEF CallType, Building
<1> QED BY <1>6 DEF HandlerOK, w

LEMMA TypeWalk == ASSUME TypeInv, HistInv, NEW c \in Caller, walk(c) PROVE TypeInv'
<1>1. UNCHANGED <<repo, logs, up, cleaned, faults, dirty>> /\ call' = [call EXCEPT ![c] = WalkedCall(c)]
  BY DEF walk, Goto, WalkedCall
<1>2. HandlerOK(WalkedCall(c), DOMAIN files')
  BY <1>1, WalkedIs DEF logs
<1> QED BY <1>1, <1>2, TypeHandler DEF TypeInv, logs

\* A handler goes on to another point of the rebuild.
StepTo(c, q, n) == [call[c] EXCEPT !.pc = q, !.st = n]
LEMMA MovedOn ==
  ASSUME TypeInv, NEW c \in Caller, NEW q \in Building, NEW n, NEW F, DOMAIN files \subseteq F,
         q \in {"replace", "register"} <=> n # None, n \in {None} \cup F, n \in Nat
  PROVE  /\ HandlerOK(StepTo(c, q, n), F) /\ StepTo(c, q, n).pc = q /\ StepTo(c, q, n).st = n
         /\ StepTo(c, q, n).recs = call[c].recs /\ StepTo(c, q, n).raced = call[c].raced
<1> DEFINE r == StepTo(c, q, n)
<1>1. /\ r \in CallType /\ r.pc = q /\ r.st = n /\ r.recs = call[c].recs
      /\ r.raced = call[c].raced
  BY CallParts DEF CallType, Building, StepTo
<1>2. q \notin {"write", "drop"}
  BY DEF Building
<1> HIDE DEF r
<1> QED BY <1>1, <1>2 DEF HandlerOK, r

\* The three steps that keep the handler's log file.
LEMMA StepPc ==
  ASSUME TypeInv, NEW c \in Caller, NEW q
  PROVE  [call[c] EXCEPT !.pc = q] = StepTo(c, q, call[c].st)
<1>1. call[c] \in CallType
  BY CallParts
<1> QED BY <1>1 DEF CallType, StepTo

LEMMA RemoveIs ==
  ASSUME TypeInv, NEW c \in Caller, removeDeletedLogFile(c)
  PROVE  LET r == [call[c] EXCEPT !.pc = "create"]
         IN  /\ UNCHANGED <<repo, up, cleaned, faults>> /\ call' = [call EXCEPT ![c] = r]
             /\ HandlerOK(r, DOMAIN files) /\ r.pc = "create" /\ r.st = None /\ r.recs = call[c].recs
             /\ r.raced = call[c].raced
             /\ call[c].pc = "remove" /\ call[c].st = None
             /\ file' = None /\ reg' = None /\ dirty' = Path
             /\ files' \in Seq(LogFile) /\ DOMAIN files' = DOMAIN files
             /\ \A n \in DOMAIN files : \/ files'[n] = files[n]
                                        \/ /\ files'[n].recs = EmptyMap
                                           /\ \A d \in Caller : call[d].st # n
<1>1. call[c].pc = "remove" /\ call[c].st = None
  BY CallParts DEF removeDeletedLogFile, At, HandlerOK
<1> DEFINE r == [call[c] EXCEPT !.pc = "create"]
<1>2. /\ HandlerOK(r, DOMAIN files) /\ r.pc = "create" /\ r.st = None /\ r.recs = call[c].recs
      /\ r.raced = call[c].raced
  <2>1. "create" \in Building /\ None \in Nat
    BY DEF Building, None
  <2>2. r = StepTo(c, "create", None)
    BY <1>1, StepPc
  <2> HIDE DEF r
  <2> QED BY <2>1, <2>2, MovedOn
<1>3. NewLog(EmptyMap) \in LogFile /\ NewLog(EmptyMap).recs = EmptyMap
  BY EmptyIn DEF NewLog, LogFile, Recs
<1>4. files' = [n \in DOMAIN files |-> IF n \in {call[d].st : d \in Caller}
                                       THEN files[n] ELSE NewLog(EmptyMap)]
  BY DEF removeDeletedLogFile
<1>5. files' \in [1..Len(files) -> LogFile] /\ DOMAIN files' = DOMAIN files
  BY <1>3, <1>4, FilesParts
<1>6. files' \in Seq(LogFile)
  BY <1>5, FilesParts
<1>7. \A n \in DOMAIN files : \/ files'[n] = files[n]
                              \/ files'[n].recs = EmptyMap /\ \A d \in Caller : call[d].st # n
  BY <1>3, <1>4
<1>8. /\ UNCHANGED <<repo, up, cleaned, faults>> /\ call' = [call EXCEPT ![c] = r]
      /\ file' = None /\ reg' = None /\ dirty' = Path
  BY DEF removeDeletedLogFile, Goto
<1> HIDE DEF r
<1>9. /\ UNCHANGED <<repo, up, cleaned, faults>> /\ call' = [call EXCEPT ![c] = r]
      /\ HandlerOK(r, DOMAIN files) /\ r.pc = "create" /\ r.st = None /\ r.recs = call[c].recs
      /\ r.raced = call[c].raced
  BY <1>2, <1>8
<1> QED BY <1>1, <1>5, <1>6, <1>7, <1>8, <1>9 DEF r

LEMMA TypeRemove == ASSUME TypeInv, NEW c \in Caller, removeDeletedLogFile(c) PROVE TypeInv'
<1> DEFINE r == [call[c] EXCEPT !.pc = "create"]
<1> HIDE DEF r
<1>1. /\ UNCHANGED <<repo, up, cleaned, faults>> /\ call' = [call EXCEPT ![c] = r]
      /\ HandlerOK(r, DOMAIN files) /\ file' = None /\ reg' = None /\ dirty' = Path
      /\ files' \in Seq(LogFile) /\ DOMAIN files' = DOMAIN files
  BY RemoveIs DEF r
<1> QED BY <1>1, TypeHandler

\* The cases of Create: a new file, none, the file that is there.
CreateIs(c, n) ==
  LET r == StepTo(c, "replace", n)
  IN  /\ HandlerOK(r, DOMAIN files') /\ r.pc = "replace" /\ r.st = n /\ r.recs = call[c].recs
      /\ r.raced = call[c].raced /\ call' = [call EXCEPT ![c] = r]
      /\ n \in DOMAIN files' /\ n # None
LEMMA CreateCases ==
  ASSUME TypeInv, NEW c \in Caller, Create(c)
  PROVE  /\ UNCHANGED <<repo, reg, up, cleaned, faults, dirty>>
         /\ call[c].pc = "create" /\ call[c].st = None
         /\ \/ /\ files' = Append(files, NewLog(EmptyMap)) /\ file = None /\ file' = Len(files) + 1
               /\ CreateIs(c, Len(files) + 1)
            \/ call' = [call EXCEPT ![c] = Idle] /\ UNCHANGED <<files, file>>
            \/ /\ file # None /\ file \notin Held /\ UNCHANGED <<files, file>>
               /\ CreateIs(c, file)
<1>1. call[c].pc = "create" /\ call[c].st = None
  BY CallParts DEF Create, At, HandlerOK
<1>2. UNCHANGED <<repo, reg, up, cleaned, faults, dirty>>
  BY DEF Create
<1>3. "replace" \in Building /\ EmptyMap \in Recs
  BY EmptyIn DEF Building, Recs
<1>4. CASE /\ file = None /\ files' = Append(files, NewLog(EmptyMap)) /\ file' = Len(files')
           /\ Goto(c, [call[c] EXCEPT !.pc = "replace", !.st = file'])
  <2> DEFINE n == Len(files) + 1
  <2>1. DOMAIN files' = DOMAIN files \cup {n} /\ file' = n /\ n # None /\ n \in Nat
    BY <1>3, <1>4, FileNew, FilesParts
  <2>2. call' = [call EXCEPT ![c] = StepTo(c, "replace", n)]
    BY <1>4, <2>1 DEF Goto, StepTo
  <2> HIDE DEF n
  <2>3. CreateIs(c, n)
    BY <1>3, <2>1, <2>2, MovedOn DEF CreateIs
  <2> QED BY <1>1, <1>2, <1>4, <2>1, <2>3 DEF n
<1>5. CASE Goto(c, Idle) /\ UNCHANGED <<files, file>>
  BY <1>1, <1>2, <1>5 DEF Goto
<1>6. CASE /\ file # None /\ file \notin Held
           /\ Goto(c, [call[c] EXCEPT !.pc = "replace", !.st = file]) /\ UNCHANGED <<files, file>>
  <2>1. file \in DOMAIN files' /\ file \in Nat
    BY <1>6, FilesParts DEF TypeInv
  <2>2. CreateIs(c, file)
    <3>1. call' = [call EXCEPT ![c] = StepTo(c, "replace", file)]
      BY <1>6 DEF Goto, StepTo
    <3>2. DOMAIN files' = DOMAIN files
      BY <1>6
    <3> QED BY <1>3, <1>6, <2>1, <3>1, <3>2, MovedOn DEF CreateIs
  <2> QED BY <1>1, <1>2, <1>6, <2>2
<1> QED BY <1>4, <1>5, <1>6 DEF Create

LEMMA TypeCreate == ASSUME TypeInv, NEW c \in Caller, Create(c) PROVE TypeInv'
<1>1. UNCHANGED <<repo, reg, up, cleaned, faults, dirty>>
  BY CreateCases
<1>2. ASSUME NEW n, CreateIs(c, n), files' \in Seq(LogFile), DOMAIN files \subseteq DOMAIN files',
             file' \in {None} \cup DOMAIN files'
      PROVE  TypeInv'
  <2> DEFINE r == StepTo(c, "replace", n)
  <2> HIDE DEF r
  <2>1. HandlerOK(r, DOMAIN files') /\ call' = [call EXCEPT ![c] = r]
    BY <1>2 DEF CreateIs, r
  <2>2. {file', reg'} \subseteq {None} \cup DOMAIN files' /\ dirty' \subseteq Path
    BY <1>1, <1>2 DEF TypeInv
  <2> QED BY <1>1, <1>2, <2>1, <2>2, TypeHandler
<1>3. CASE /\ files' = Append(files, NewLog(EmptyMap)) /\ file = None /\ file' = Len(files) + 1
           /\ CreateIs(c, Len(files) + 1)
  <2>1. EmptyMap \in Recs
    BY EmptyIn DEF Recs
  <2>2. files' \in Seq(LogFile) /\ DOMAIN files' = DOMAIN files \cup {Len(files) + 1}
    BY <1>3, <2>1, FileNew
  <2> QED BY <1>2, <1>3, <2>2
<1>4. CASE call' = [call EXCEPT ![c] = Idle] /\ UNCHANGED <<files, file>>
  <2>1. HandlerOK(Idle, DOMAIN files')
    BY IdleOK
  <2> QED BY <1>1, <1>4, <2>1, TypeHandler DEF TypeInv
<1>5. CASE file # None /\ file \notin Held /\ UNCHANGED <<files, file>> /\ CreateIs(c, file)
  BY <1>2, <1>5 DEF TypeInv
<1> QED BY <1>3, <1>4, <1>5, CreateCases

LEMMA ReplaceIs ==
  ASSUME TypeInv, RecsInv, NEW c \in Caller, ReplaceAll(c)
  PROVE  LET n == call[c].st
             r == capNewest(call[c].recs)
             k == StepTo(c, "register", n)
         IN  /\ call[c].pc = "replace" /\ n \in DOMAIN files /\ n # None
             /\ r \in Recs /\ RecsGood(hist, nextId, r) /\ Capped(r)
             /\ files' = [files EXCEPT ![n].recs = r]
             /\ UNCHANGED <<repo, file, reg, up, cleaned, faults, dirty>>
             /\ call' = [call EXCEPT ![c] = k]
             /\ HandlerOK(k, DOMAIN files) /\ k.pc = "register" /\ k.st = n
             /\ k.recs = call[c].recs /\ k.raced = call[c].raced
<1> DEFINE n == call[c].st
           r == capNewest(call[c].recs)
           k == StepTo(c, "register", n)
<1>1. call[c].pc = "replace" /\ n \in DOMAIN files /\ n # None /\ n \in Nat
  <2>1. call[c].pc = "replace"
    BY DEF ReplaceAll, At
  <2> QED BY <2>1, CallParts, FilesParts DEF HandlerOK
<1>2. r \in Recs /\ RecsGood(hist, nextId, r) /\ Capped(r)
  <2>1. call[c].recs \in Recs /\ RecsGood(hist, nextId, call[c].recs) /\ nextId \in Nat
    BY CallParts DEF RecsInv, TypeInv, Positive
  <2> QED BY <2>1, CapIs, SubGood
<1>3. call' = [call EXCEPT ![c] = k]
  BY StepPc DEF ReplaceAll, Goto
<1>4. "register" \in Building
  BY DEF Building
<1>5. /\ HandlerOK(k, DOMAIN files) /\ k.pc = "register" /\ k.st = n
      /\ k.recs = call[c].recs /\ k.raced = call[c].raced
  <2> HIDE DEF n
  <2> QED BY <1>1, <1>4, MovedOn
<1>6. /\ files' = [files EXCEPT ![n].recs = r]
      /\ UNCHANGED <<repo, file, reg, up, cleaned, faults, dirty>>
  BY DEF ReplaceAll
<1> HIDE DEF n, r, k
<1> QED BY <1>1, <1>2, <1>3, <1>5, <1>6 DEF n, r, k

LEMMA TypeReplace == ASSUME TypeInv, RecsInv, NEW c \in Caller, ReplaceAll(c) PROVE TypeInv'
<1> DEFINE n == call[c].st
           r == capNewest(call[c].recs)
           k == StepTo(c, "register", n)
<1>1. /\ n \in DOMAIN files /\ r \in Recs /\ files' = [files EXCEPT ![n].recs = r]
      /\ UNCHANGED <<repo, file, reg, up, cleaned, faults, dirty>>
      /\ call' = [call EXCEPT ![c] = k] /\ HandlerOK(k, DOMAIN files)
  BY ReplaceIs
<1> HIDE DEF n, r, k
<1>2. files' \in Seq(LogFile) /\ DOMAIN files' = DOMAIN files
  BY <1>1, FileSet
<1> QED BY <1>1, <1>2, TypeHandler DEF TypeInv

LEMMA TypeRegister == ASSUME TypeInv, RecsInv, NEW c \in Caller, registerDeletedLog(c) PROVE TypeInv'
<1>1. /\ reg' = call[c].st /\ call' = [call EXCEPT ![c] = Idle]
      /\ UNCHANGED <<repo, files, file, up, cleaned, faults>>
      /\ dirty' \in {call[c].raced \cup (DOMAIN call[c].recs \ DOMAIN capNewest(call[c].recs)), Path}
  BY DEF registerDeletedLog, Goto
<1>2. /\ call[c].raced \subseteq Path /\ DOMAIN call[c].recs \subseteq Path
      /\ call[c].st \in {None} \cup DOMAIN files
  BY CallParts, MapParts DEF Recs
<1>3. dirty' \subseteq Path /\ HandlerOK(Idle, DOMAIN files')
  BY <1>1, <1>2, IdleOK
<1> QED BY <1>1, <1>2, <1>3, TypeHandler DEF TypeInv

\* What revive_file holds between its steps.
WriteCall(p, x) == [Idle EXCEPT !.pc = "write", !.path = p, !.content = x]
LEMMA ReviveIs ==
  ASSUME TypeInv, NEW c \in Caller, ReviveFile(c)
  PROVE  /\ reg' = ReadHandle /\ UNCHANGED <<repo, files, file, up, cleaned, faults, dirty>>
         /\ call[c].pc = "idle"
         /\ \/ call' = [call EXCEPT ![c] = WalkCall]
            \/ \E p \in Path, x \in Content : call' = [call EXCEPT ![c] = WriteCall(p, x)]
<1>1. PICK p \in Path, from \in {None} \cup Hashes :
        LET h == deletionHash(p, from)
        IN IF Readable(h, p)
           THEN Goto(c, WriteCall(p, readContentAtDeletionParent(h, p)))
           ELSE Goto(c, WalkCall)
  BY DEF ReviveFile, WriteCall, WalkCall
<1> DEFINE h == deletionHash(p, from)
<1>2. ASSUME Readable(h, p) PROVE readContentAtDeletionParent(h, p) \in Content
  <2>1. h \in Hashes /\ p \in DOMAIN ParentTree(IndexOf(h))
    BY <1>2 DEF Readable
  <2>2. IndexOf(h) \in DOMAIN hist
    BY <2>1 DEF Hashes, IndexOf
  <2>3. ParentTree(IndexOf(h)) \in Tree
    BY <2>2, Operators, HistParts DEF TypeInv
  <2>4. ParentTree(IndexOf(h))[p] \in Content
    BY <2>1, <2>3, MapParts, TreeIs
  <2> QED BY <2>4 DEF readContentAtDeletionParent
<1>3. /\ reg' = ReadHandle /\ UNCHANGED <<repo, files, file, up, cleaned, faults, dirty>>
      /\ call[c].pc = "idle"
  BY DEF ReviveFile, At
<1> QED BY <1>1, <1>2, <1>3 DEF Goto

LEMMA WriteOK ==
  ASSUME NEW p \in Path, NEW x \in Content, NEW F
  PROVE  /\ HandlerOK(WriteCall(p, x), F) /\ WriteCall(p, x).pc = "write" /\ WriteCall(p, x).st = None
         /\ WriteCall(p, x).recs = EmptyMap
<1>1. EmptyMap \in Recs
  BY EmptyIn DEF Recs
<1>2. /\ WriteCall(p, x) \in CallType /\ WriteCall(p, x).pc = "write" /\ WriteCall(p, x).st = None
      /\ WriteCall(p, x).path = p /\ WriteCall(p, x).content = x /\ WriteCall(p, x).recs = EmptyMap
  BY <1>1, Consts DEF WriteCall, Idle, CallType, None
<1> QED BY <1>2 DEF HandlerOK

LEMMA TypeRevive == ASSUME TypeInv, NEW c \in Caller, ReviveFile(c) PROVE TypeInv'
<1>1. /\ UNCHANGED <<repo, files, file, up, cleaned, faults, dirty>>
      /\ {file', reg'} \subseteq {None} \cup DOMAIN files'
  BY ReviveIs, ReadHandleIs DEF TypeInv
<1>2. ASSUME NEW r, call' = [call EXCEPT ![c] = r], HandlerOK(r, DOMAIN files') PROVE TypeInv'
  BY <1>1, <1>2, TypeHandler DEF TypeInv
<1> QED BY <1>2, ReviveIs, WalkOK, WriteOK

LEMMA DropCall ==
  ASSUME TypeInv, NEW c \in Caller, call[c].pc = "write"
  PROVE  LET r == [call[c] EXCEPT !.pc = "drop"]
         IN  /\ HandlerOK(r, DOMAIN files) /\ r.pc = "drop" /\ r.st = None /\ r.recs = call[c].recs
             /\ call[c].st = None
<1> DEFINE r == [call[c] EXCEPT !.pc = "drop"]
<1>1. call[c] \in CallType /\ HandlerOK(call[c], DOMAIN files)
  BY CallParts
<1>2. call[c].st = None /\ call[c].path \in Path /\ call[c].content \in Content
  BY <1>1 DEF HandlerOK
<1>3. /\ r \in CallType /\ r.pc = "drop" /\ r.st = None /\ r.recs = call[c].recs
      /\ r.path \in Path /\ r.content \in Content
  BY <1>1, <1>2 DEF CallType
<1> HIDE DEF r
<1> QED BY <1>2, <1>3 DEF HandlerOK, r

LEMMA TypeReviveWrite == ASSUME TypeInv, NEW c \in Caller, ReviveWrite(c) PROVE TypeInv'
<1> DEFINE r == [call[c] EXCEPT !.pc = "drop"]
           e == [meta |-> [op |-> "write", path |-> call[c].path, from |-> None],
                 content |-> call[c].content]
<1>1. /\ call[c].pc = "write" /\ Len(queue) < MaxQueue /\ queue' = Append(queue, e)
      /\ call' = [call EXCEPT ![c] = r]
      /\ UNCHANGED <<hist, landed, nextId, logs, up, cleaned, faults, dirty>>
  BY DEF ReviveWrite, At, Goto
<1>2. call[c].path \in Path /\ call[c].content \in Content
  BY <1>1, CallParts DEF HandlerOK
<1>3. e \in Entry
  BY <1>2 DEF Entry, Meta
<1>4. HandlerOK(r, DOMAIN files)
  BY <1>1, DropCall
<1> HIDE DEF r, e
<1>5. queue' \in Seq(Entry) /\ Len(queue') <= MaxQueue
  BY <1>1, <1>3, QueueAppend
<1>6. call' \in [Caller -> CallType] /\ \A d \in Caller : HandlerOK(call'[d], DOMAIN files)
  BY <1>1, <1>4, HandlersStep
<1> QED BY <1>1, <1>5, <1>6 DEF TypeInv, logs

\* What a revival does to the log.
LEMMA ReviveDropIs ==
  ASSUME TypeInv, NEW c \in Caller, ReviveDrop(c)
  PROVE  LET p == call[c].path
             n == ReadHandle
         IN  /\ call[c].pc = "drop" /\ call[c].st = None /\ p \in Path
             /\ \/ n = None /\ files' = files
                \/ /\ n # None /\ n \in DOMAIN files
                   /\ files' = [files EXCEPT ![n].recs = Drop(files[n].recs, {p})]
                   /\ Drop(files[n].recs, {p}) \in Recs
             /\ reg' = n /\ dirty' = dirty \cup {p} /\ call' = [Race({p}) EXCEPT ![c] = Idle]
             /\ UNCHANGED <<repo, file, up, cleaned, faults>>
<1> DEFINE p == call[c].path
           n == ReadHandle
<1>1. call[c].pc = "drop" /\ call[c].st = None /\ p \in Path
  <2>1. call[c].pc = "drop"
    BY DEF ReviveDrop, At
  <2> QED BY <2>1, CallParts DEF HandlerOK
<1>2. /\ IF n = None THEN UNCHANGED files
         ELSE files' = [files EXCEPT ![n].recs = Drop(@, {p})]
      /\ reg' = n /\ dirty' = dirty \cup {p} /\ call' = [Race({p}) EXCEPT ![c] = Idle]
      /\ UNCHANGED <<repo, file, up, cleaned, faults>>
  BY DEF ReviveDrop
<1>3. n # None => n \in DOMAIN files
  BY ReadHandleIs
<1>4. n # None => Drop(files[n].recs, {p}) \in Recs
  <2> HIDE DEF n, p
  <2> QED BY <1>3, FilesParts, DropMap DEF Recs
<1>5. n # None => files' = [files EXCEPT ![n].recs = Drop(files[n].recs, {p})]
  BY <1>2
<1> HIDE DEF n, p
<1> QED BY <1>1, <1>2, <1>3, <1>4, <1>5 DEF n, p

LEMMA TypeReviveDrop == ASSUME TypeInv, NEW c \in Caller, ReviveDrop(c) PROVE TypeInv'
<1> DEFINE p == call[c].path
           n == ReadHandle
           r == Drop(files[n].recs, {p})
<1>1. /\ p \in Path /\ reg' = n /\ dirty' = dirty \cup {p} /\ call' = [Race({p}) EXCEPT ![c] = Idle]
      /\ UNCHANGED <<repo, file, up, cleaned, faults>>
      /\ \/ files' = files
         \/ n \in DOMAIN files /\ r \in Recs /\ files' = [files EXCEPT ![n].recs = r]
  BY ReviveDropIs
<1> HIDE DEF p, n, r
<1>2. files' \in Seq(LogFile) /\ DOMAIN files' = DOMAIN files
  BY <1>1, FileSet DEF TypeInv
<1>3. reg' \in {None} \cup DOMAIN files
  BY <1>1, ReadHandleIs DEF n
<1>4. call' \in [Caller -> CallType] /\ \A d \in Caller : HandlerOK(call'[d], DOMAIN files)
  <2>1. {p} \in SUBSET Path
    BY <1>1
  <2>2. Race({p}) \in [Caller -> CallType] /\ \A d \in Caller : HandlerOK(Race({p})[d], DOMAIN files)
    BY <2>1, RaceIs
  <2>3. HandlerOK(Idle, DOMAIN files)
    BY IdleOK
  <2> QED BY <1>1, <2>2, <2>3 DEF HandlerOK
<1>5. UNCHANGED <<hist, queue, landed, nextId>>
  BY <1>1 DEF repo
<1> QED BY <1>1, <1>2, <1>3, <1>4, <1>5 DEF TypeInv

LEMMA StartIs ==
  ASSUME TypeInv, Start
  PROVE  /\ ~up /\ UNCHANGED <<repo, files, reg, call, faults>> /\ {up', cleaned'} \subseteq BOOLEAN
         /\ UNCHANGED <<file, dirty>> \/ (file' = None /\ dirty' = Path)
BY DEF Start, TypeInv

LEMMA TypeStart == TypeInv /\ Start => TypeInv'
<1> SUFFICES ASSUME TypeInv, Start PROVE TypeInv'
  OBVIOUS
<1>1. /\ UNCHANGED <<repo, files, reg, call, faults>> /\ {up', cleaned'} \subseteq BOOLEAN
      /\ UNCHANGED <<file, dirty>> \/ (file' = None /\ dirty' = Path)
  BY StartIs
<1> QED BY <1>1 DEF TypeInv, repo

LEMMA TypeCrash == TypeInv /\ HistInv /\ Crash => TypeInv'
<1> SUFFICES ASSUME TypeInv, HistInv, Crash PROVE TypeInv'
  OBVIOUS
<1>1. /\ faults < MaxFaults /\ faults' = faults + 1 /\ up' = FALSE /\ landed' = None /\ reg' = None
      /\ call' = [c \in Caller |-> Idle]
      /\ dirty' \in {Path, dirty} \/ (landed # None /\ dirty' = dirty \cup Touched)
      /\ UNCHANGED <<hist, queue, nextId, files, file, cleaned>>
  BY DEF Crash
<1>2. landed # None => Touched \subseteq Path
  BY LandedIs, TouchedIs
<1>3. dirty' \subseteq Path /\ faults' \in 0..MaxFaults /\ landed' \in Nat
  BY <1>1, <1>2, Consts DEF TypeInv, None
<1>4. call' \in [Caller -> CallType] /\ \A d \in Caller : HandlerOK(call'[d], DOMAIN files)
  BY <1>1, IdleOK DEF HandlerOK
<1> QED BY <1>1, <1>3, <1>4 DEF TypeInv

LEMMA TypeRewrite == TypeInv /\ Rewrite => TypeInv'
<1> SUFFICES ASSUME TypeInv, Rewrite PROVE TypeInv'
  OBVIOUS
<1>1. /\ faults < MaxFaults /\ faults' = faults + 1
      /\ hist' = Rehashed(hist, nextId) /\ nextId' = nextId + Len(hist) + 1
      /\ UNCHANGED <<queue, landed, logs, call, up, cleaned, dirty>>
  BY DEF Rewrite, Rehashed
<1>2. hist \in Seq(Commit) /\ nextId \in Nat /\ Len(hist) \in Nat /\ nextId > 0
  BY HistParts DEF TypeInv, Positive
<1>3. hist' \in Seq(Commit)
  BY <1>1, <1>2, Rehash
<1>4. nextId' \in Positive /\ faults' \in 0..MaxFaults
  BY <1>1, <1>2, Consts DEF TypeInv, Positive
<1> QED BY <1>1, <1>3, <1>4 DEF TypeInv, logs


LEMMA TypeStep == TypeInv /\ HistInv /\ RecsInv /\ [Next]_vars => TypeInv'
<1> SUFFICES ASSUME TypeInv, HistInv, RecsInv, [Next]_vars PROVE TypeInv'
  OBVIOUS
<1>1. CASE Accept
  BY <1>1, TypeAccept
<1>2. CASE commitEntry
  BY <1>2, TypeCommit
<1>3. CASE deletedLogApply
  BY <1>3, TypeHook
<1>4. ASSUME NEW c \in Caller,
             \/ ListDeleted(c) \/ walk(c) \/ removeDeletedLogFile(c)
             \/ Create(c) \/ ReplaceAll(c) \/ registerDeletedLog(c)
             \/ ReviveFile(c) \/ ReviveWrite(c) \/ ReviveDrop(c)
      PROVE  TypeInv'
  BY <1>4, TypeListDeleted, TypeWalk, TypeRemove, TypeCreate, TypeReplace, TypeRegister,
     TypeRevive, TypeReviveWrite, TypeReviveDrop
<1>5. CASE Start
  BY <1>5, TypeStart
<1>6. CASE Crash
  BY <1>6, TypeCrash
<1>7. CASE Rewrite
  BY <1>7, TypeRewrite
<1>8. CASE UNCHANGED vars
  BY <1>8 DEF vars, TypeInv
<1> QED BY <1>1, <1>2, <1>3, <1>4, <1>5, <1>6, <1>7, <1>8 DEF Next

----------------------------------------------------------------------------
(* The history *)

\* The steps that leave the history: the oldest entry stays while its hook has to run.
LEMMA HistSame ==
  ASSUME HistInv, hist' = hist, nextId' = nextId,
         \/ landed' = None
         \/ landed' = landed /\ (landed # None => queue' # <<>> /\ queue'[1] = queue[1])
  PROVE  HistInv'
BY DEF HistInv

LEMMA QueueGrows ==
  ASSUME TypeInv, queue # <<>>, NEW e, e \in Entry
  PROVE  Append(queue, e) # <<>> /\ Append(queue, e)[1] = queue[1]
<1>1. queue \in Seq(Entry)
  BY DEF TypeInv
<1> QED BY <1>1

LEMMA HistAccept == ASSUME TypeInv, HistInv, Accept PROVE HistInv'
<1>1. PICK m \in Meta, x \in Content : queue' = Append(queue, [meta |-> m, content |-> x])
  BY DEF Accept
<1>2. [meta |-> m, content |-> x] \in Entry
  BY DEF Entry
<1>3. hist' = hist /\ landed' = landed /\ nextId' = nextId
  BY DEF Accept
<1>4. landed # None => queue' # <<>> /\ queue'[1] = queue[1]
  BY <1>1, <1>2, LandedIs, QueueGrows
<1> QED BY <1>3, <1>4, HistSame

LEMMA HistReviveWrite == ASSUME TypeInv, HistInv, NEW c \in Caller, ReviveWrite(c) PROVE HistInv'
<1> DEFINE e == [meta |-> [op |-> "write", path |-> call[c].path, from |-> None],
                 content |-> call[c].content]
<1>1. /\ call[c].pc = "write" /\ queue' = Append(queue, e)
      /\ hist' = hist /\ landed' = landed /\ nextId' = nextId
  BY DEF ReviveWrite, At
<1>2. call[c].path \in Path /\ call[c].content \in Content
  BY <1>1, CallParts DEF HandlerOK
<1>3. e \in Entry
  BY <1>2 DEF Entry, Meta
<1> HIDE DEF e
<1>4. landed # None => queue' # <<>> /\ queue'[1] = queue[1]
  BY <1>1, <1>3, LandedIs, QueueGrows
<1> QED BY <1>1, <1>4, HistSame

LEMMA HistCommit == ASSUME TypeInv, HistInv, commitEntry PROVE HistInv'
<1>1. CASE UNCHANGED <<hist, landed, nextId>>
  BY <1>1, CommitIs, HistSame
<1>2. CASE /\ hist' = Append(hist, NewCommit) /\ landed' = nextId /\ nextId' = nextId + 1
           /\ queue' = queue /\ NewCommit.tree # Top(hist)
           /\ \E x \in Content : NewCommit.tree
                = applyToTree(Top(hist), [meta |-> NewCommit.meta, content |-> x])
  <2> DEFINE l == Len(hist) + 1
  <2>1. queue # <<>> /\ NewCommit \in Commit /\ hist \in Seq(Commit) /\ nextId \in Positive
    BY CommitIs DEF TypeInv
  <2>2. /\ hist' \in Seq(Commit) /\ Len(hist') = l /\ DOMAIN hist' = DOMAIN hist \cup {l}
        /\ hist'[l] = NewCommit /\ Parent(hist', l) = Top(hist)
        /\ \A i \in DOMAIN hist : hist'[i] = hist[i] /\ (Lands(hist, i) => Lands(hist', i))
    BY <1>2, <2>1, Grow
  <2>3. /\ NewCommit.hash = nextId /\ NewCommit.meta = queue[1].meta
        /\ \A i \in DOMAIN hist : hist[i].hash \in Nat /\ hist[i].hash < nextId
    BY <2>1, HistParts DEF NewCommit, HistInv, Positive
  <2> HIDE DEF l
  <2>4. Lands(hist', l)
    BY <1>2, <2>2 DEF Lands
  <2>5. \A i \in DOMAIN hist' : hist'[i].hash < nextId' /\ Lands(hist', i)
    BY <1>2, <2>1, <2>2, <2>3, <2>4 DEF HistInv, Positive
  <2>6. \A i, j \in DOMAIN hist' : hist'[i].hash = hist'[j].hash => i = j
    BY <2>1, <2>2, <2>3 DEF HistInv, Positive
  <2>7. hist' # <<>>
    BY <2>2 DEF l
  <2> QED BY <1>2, <2>1, <2>2, <2>3, <2>5, <2>6, <2>7 DEF HistInv
<1> QED BY <1>1, <1>2, CommitIs

LEMMA HistRewrite == ASSUME TypeInv, HistInv, Rewrite PROVE HistInv'
<1>1. hist' = Rehashed(hist, nextId) /\ nextId' = nextId + Len(hist) + 1 /\ landed' = None
  BY DEF Rewrite, Rehashed
<1>2. hist \in Seq(Commit) /\ nextId \in Nat /\ Len(hist) \in Nat /\ DOMAIN hist = 1..Len(hist)
  BY HistParts DEF TypeInv, Positive
<1>3. /\ DOMAIN hist' = DOMAIN hist
      /\ \A i \in DOMAIN hist : hist'[i].hash = nextId + i /\ (Lands(hist, i) => Lands(hist', i))
  BY <1>1, <1>2, Rehash
<1>4. \A i \in DOMAIN hist' : hist'[i].hash < nextId'
  <2>1. \A i \in DOMAIN hist : nextId + i < nextId'
    BY <1>1, <1>2
  <2> QED BY <1>3, <2>1
<1>5. \A i, j \in DOMAIN hist' : hist'[i].hash = hist'[j].hash => i = j
  BY <1>2, <1>3
<1> QED BY <1>1, <1>3, <1>4, <1>5 DEF HistInv

LEMMA HistStep == TypeInv /\ HistInv /\ [Next]_vars => HistInv'
<1> SUFFICES ASSUME TypeInv, HistInv, [Next]_vars PROVE HistInv'
  OBVIOUS
<1>1. CASE Accept
  BY <1>1, HistAccept
<1>2. CASE commitEntry
  BY <1>2, HistCommit
<1>3. CASE deletedLogApply \/ Crash
  BY <1>3, HistSame DEF deletedLogApply, Crash
<1>4. ASSUME NEW c \in Caller, ReviveWrite(c) PROVE HistInv'
  BY <1>4, HistReviveWrite
<1>5. CASE Start \/ \E c \in Caller :
             \/ ListDeleted(c) \/ walk(c) \/ removeDeletedLogFile(c)
             \/ Create(c) \/ ReplaceAll(c) \/ registerDeletedLog(c)
             \/ ReviveFile(c) \/ ReviveDrop(c)
  <2>1. UNCHANGED repo
    BY <1>5 DEF Start, ListDeleted, walk, removeDeletedLogFile, Create, ReplaceAll,
                registerDeletedLog, ReviveFile, ReviveDrop
  <2> QED BY <2>1, LandedIs, HistSame DEF repo
<1>6. CASE Rewrite
  BY <1>6, HistRewrite
<1>7. CASE UNCHANGED vars
  BY <1>7, LandedIs, HistSame DEF vars
<1> QED BY <1>1, <1>2, <1>3, <1>4, <1>5, <1>6, <1>7 DEF Next

----------------------------------------------------------------------------
(* The records *)

LEMMA EmptyGood ==
  ASSUME NEW h, NEW n
  PROVE  RecsGood(h, n, EmptyMap) /\ Capped(EmptyMap) /\ EmptyMap \in Recs /\ DOMAIN EmptyMap = {}
<1>1. EmptyMap \in Recs /\ DOMAIN EmptyMap = {}
  BY EmptyIn DEF Recs
<1>2. Cardinality({}) = 0
  BY FS_EmptySet
<1> QED BY <1>1, <1>2, Consts DEF RecsGood, Capped

\* The walk names the commit that removed each path, and a commit removes one.
LEMMA WalkGood ==
  ASSUME TypeInv, HistInv
  PROVE  RecsGood(hist, nextId, walkDeletedNetState)
<1> DEFINE w == walkDeletedNetState
<1>1. \A p \in DOMAIN w : \E i \in DOMAIN hist : w[p] = hist[i].hash /\ p \in Rems(hist, i)
  BY WalkIs
<1> HIDE DEF w
<1>2. ASSUME NEW p \in DOMAIN w
      PROVE  w[p] < nextId /\ \A i \in DOMAIN hist : hist[i].hash = w[p] => p \in Rems(hist, i)
  BY <1>1 DEF HistInv
<1>3. ASSUME NEW p \in DOMAIN w, NEW q \in DOMAIN w, w[p] = w[q] PROVE p = q
  <2>1. PICK i \in DOMAIN hist : w[p] = hist[i].hash /\ p \in Rems(hist, i)
    BY <1>1
  <2>2. PICK j \in DOMAIN hist : w[q] = hist[j].hash /\ q \in Rems(hist, j)
    BY <1>1
  <2>3. i = j /\ Lands(hist, i) /\ hist \in Seq(Commit)
    BY <1>3, <2>1, <2>2 DEF HistInv, TypeInv
  <2> QED BY <2>1, <2>2, <2>3, OneRemoved
<1> QED BY <1>2, <1>3 DEF RecsGood, w

\* A step that leaves the history.
LEMMA RecsKept ==
  ASSUME RecsInv, hist' = hist, nextId' = nextId,
         \A n \in DOMAIN files' : \/ n \in DOMAIN files /\ files'[n].recs = files[n].recs
                                  \/ RecsGood(hist, nextId, files'[n].recs) /\ Capped(files'[n].recs),
         \A c \in Caller : \/ call'[c].recs = call[c].recs
                           \/ RecsGood(hist, nextId, call'[c].recs)
  PROVE  RecsInv'
<1>1. \A n \in DOMAIN files' : RecsGood(hist, nextId, files'[n].recs) /\ Capped(files'[n].recs)
  BY DEF RecsInv
<1>2. \A c \in Caller : RecsGood(hist, nextId, call'[c].recs)
  BY DEF RecsInv
<1> QED BY <1>1, <1>2 DEF RecsInv

\* A step of one handler.
LEMMA CallSet ==
  ASSUME TypeInv, NEW c \in Caller, NEW r, call' = [call EXCEPT ![c] = r]
  PROVE  call'[c] = r /\ \A d \in Caller \ {c} : call'[d] = call[d]
BY DEF TypeInv

LEMMA RecsHandler ==
  ASSUME TypeInv, RecsInv, NEW c \in Caller, NEW r, call' = [call EXCEPT ![c] = r],
         hist' = hist, nextId' = nextId,
         \A n \in DOMAIN files' : \/ n \in DOMAIN files /\ files'[n].recs = files[n].recs
                                  \/ RecsGood(hist, nextId, files'[n].recs) /\ Capped(files'[n].recs),
         RecsGood(hist, nextId, r.recs) \/ r.recs = call[c].recs
  PROVE  RecsInv'
<1>1. \A d \in Caller : call'[d].recs = call[d].recs \/ RecsGood(hist, nextId, call'[d].recs)
  BY CallSet
<1> QED BY <1>1, RecsKept

\* A commit is given a hash that no record names, and so are the commits of a rewrite.
LEMMA RecsCommit == ASSUME TypeInv, RecsInv, commitEntry PROVE RecsInv'
<1>1. files' = files /\ call' = call
  BY CommitIs DEF logs
<1>2. CASE UNCHANGED <<hist, landed, nextId>>
  BY <1>1, <1>2, RecsKept
<1>3. CASE hist' = Append(hist, NewCommit) /\ nextId' = nextId + 1
  <2> DEFINE l == Len(hist) + 1
  <2>1. NewCommit \in Commit /\ hist \in Seq(Commit) /\ nextId \in Nat
    BY CommitIs DEF TypeInv, Positive
  <2>2. /\ DOMAIN hist' = DOMAIN hist \cup {l} /\ hist'[l] = NewCommit /\ NewCommit.hash = nextId
        /\ \A i \in DOMAIN hist : hist'[i] = hist[i] /\ Rems(hist', i) = Rems(hist, i)
    BY <1>3, <2>1, Grow DEF NewCommit
  <2> HIDE DEF l
  <2>3. ASSUME NEW r \in Recs, RecsGood(hist, nextId, r) PROVE RecsGood(hist', nextId', r)
    <3>1. \A p \in DOMAIN r : r[p] \in Nat
      BY MapParts DEF Recs, Positive
    <3>2. \A p \in DOMAIN r : r[p] < nextId' /\ r[p] # nextId
      BY <1>3, <2>1, <2>3, <3>1 DEF RecsGood
    <3>3. \A p \in DOMAIN r : \A i \in DOMAIN hist' : hist'[i].hash = r[p] => p \in Rems(hist', i)
      BY <2>2, <2>3, <3>2 DEF RecsGood
    <3> QED BY <2>3, <3>2, <3>3 DEF RecsGood
  <2>4. (\A n \in DOMAIN files : files[n].recs \in Recs) /\ \A c \in Caller : call[c].recs \in Recs
    BY FilesParts, CallParts
  <2> QED BY <1>1, <2>3, <2>4 DEF RecsInv
<1> QED BY <1>2, <1>3, CommitIs

LEMMA RecsRewrite == ASSUME TypeInv, RecsInv, Rewrite PROVE RecsInv'
<1>1. /\ hist' = Rehashed(hist, nextId) /\ nextId' = nextId + Len(hist) + 1
      /\ files' = files /\ call' = call
  BY DEF Rewrite, Rehashed, logs
<1>2. hist \in Seq(Commit) /\ nextId \in Nat /\ Len(hist) \in Nat /\ DOMAIN hist = 1..Len(hist)
  BY HistParts DEF TypeInv, Positive
<1>3. DOMAIN hist' = DOMAIN hist /\ \A i \in DOMAIN hist : hist'[i].hash = nextId + i
  BY <1>1, <1>2, Rehash
<1>4. ASSUME NEW r \in Recs, RecsGood(hist, nextId, r) PROVE RecsGood(hist', nextId', r)
  <2>1. \A p \in DOMAIN r : r[p] \in Nat
    BY MapParts DEF Recs, Positive
  <2>2. \A p \in DOMAIN r : r[p] < nextId
    BY <1>4 DEF RecsGood
  <2>3. \A p \in DOMAIN r : r[p] < nextId' /\ \A i \in DOMAIN hist' : hist'[i].hash # r[p]
    BY <1>1, <1>2, <1>3, <2>1, <2>2
  <2> QED BY <1>4, <2>3 DEF RecsGood
<1>5. (\A n \in DOMAIN files : files[n].recs \in Recs) /\ \A c \in Caller : call[c].recs \in Recs
  BY FilesParts, CallParts
<1> QED BY <1>1, <1>4, <1>5 DEF RecsInv

LEMMA RecsHook == ASSUME TypeInv, HistInv, RecsInv, deletedLogApply PROVE RecsInv'
<1>1. /\ landed # None /\ call' = Race(Touched) /\ UNCHANGED <<hist, nextId>>
      /\ (HookUpdates \/ HookCreates \/ HookSkips)
  BY HookIs
<1>2. Touched \in SUBSET Path
  BY <1>1, LandedIs, TouchedIs
<1>3. \A c \in Caller : call'[c].recs = call[c].recs
  BY <1>1, <1>2, RaceIs
<1>4. CASE HookUpdates
  <2> DEFINE n == ReadHandle
             r == Applied(files[n].recs)
  <2>1. /\ n \in DOMAIN files /\ r \in Recs /\ files' = [files EXCEPT ![n].recs = r]
        /\ RecsGood(hist, nextId, r) /\ Capped(r)
    BY <1>4, HookRecs
  <2> HIDE DEF n, r
  <2>2. DOMAIN files' = DOMAIN files /\ files'[n].recs = r /\ \A k \in DOMAIN files \ {n} : files'[k] = files[k]
    BY <2>1, FileSet
  <2> QED BY <1>1, <1>3, <2>1, <2>2, RecsKept
<1>5. CASE HookCreates
  <2> DEFINE r == Applied(EmptyMap)
  <2>1. r \in Recs /\ RecsGood(hist, nextId, r) /\ Capped(r) /\ files' = Append(files, NewLog(r))
    BY <1>5, HookRecs DEF HookCreates
  <2> HIDE DEF r
  <2>2. /\ DOMAIN files' = DOMAIN files \cup {Len(files) + 1} /\ files'[Len(files) + 1].recs = r
        /\ \A k \in DOMAIN files : files'[k] = files[k]
    BY <2>1, FileNew
  <2> QED BY <1>1, <1>3, <2>1, <2>2, RecsKept
<1>6. CASE HookSkips
  BY <1>1, <1>3, <1>6, RecsKept DEF HookSkips, logs
<1> QED BY <1>1, <1>4, <1>5, <1>6

LEMMA RecsListDeleted == ASSUME TypeInv, RecsInv, NEW c \in Caller, ListDeleted(c) PROVE RecsInv'
<1>1. files' = files /\ hist' = hist /\ nextId' = nextId
  BY DEF ListDeleted, logs, repo
<1>2. call' = call \/ call' = [call EXCEPT ![c] = WalkCall]
  BY DEF ListDeleted, Goto, WalkCall
<1>3. RecsGood(hist, nextId, WalkCall.recs)
  BY WalkOK, EmptyGood
<1> QED BY <1>1, <1>2, <1>3, RecsKept, RecsHandler

LEMMA RecsWalk == ASSUME TypeInv, HistInv, RecsInv, NEW c \in Caller, walk(c) PROVE RecsInv'
<1>1. files' = files /\ hist' = hist /\ nextId' = nextId /\ call' = [call EXCEPT ![c] = WalkedCall(c)]
  BY DEF walk, Goto, WalkedCall, logs, repo
<1>2. RecsGood(hist, nextId, WalkedCall(c).recs)
  BY WalkedIs, WalkGood
<1> QED BY <1>1, <1>2, RecsHandler

LEMMA RecsRemove == ASSUME TypeInv, RecsInv, NEW c \in Caller, removeDeletedLogFile(c) PROVE RecsInv'
<1> DEFINE r == [call[c] EXCEPT !.pc = "create"]
<1> HIDE DEF r
<1>1. /\ UNCHANGED <<repo, up, cleaned, faults>> /\ call' = [call EXCEPT ![c] = r]
      /\ r.recs = call[c].recs /\ DOMAIN files' = DOMAIN files
      /\ \A n \in DOMAIN files : files'[n] = files[n] \/ files'[n].recs = EmptyMap
  BY RemoveIs DEF r
<1>2. \A n \in DOMAIN files' : \/ n \in DOMAIN files /\ files'[n].recs = files[n].recs
                               \/ RecsGood(hist, nextId, files'[n].recs) /\ Capped(files'[n].recs)
  BY <1>1, EmptyGood
<1>3. hist' = hist /\ nextId' = nextId
  BY <1>1 DEF repo
<1> QED BY <1>1, <1>2, <1>3, RecsHandler

LEMMA RecsCreate == ASSUME TypeInv, RecsInv, NEW c \in Caller, Create(c) PROVE RecsInv'
<1>1. hist' = hist /\ nextId' = nextId
  BY CreateCases DEF repo
<1>2. \/ files' = files
      \/ /\ DOMAIN files' = DOMAIN files \cup {Len(files) + 1}
         /\ files'[Len(files) + 1].recs = EmptyMap /\ \A k \in DOMAIN files : files'[k] = files[k]
  <2>1. files' = files \/ files' = Append(files, NewLog(EmptyMap))
    BY CreateCases
  <2>2. EmptyMap \in Recs
    BY EmptyGood
  <2>3. CASE files' = Append(files, NewLog(EmptyMap))
    BY <2>2, <2>3, FileNew
  <2> QED BY <2>1, <2>3
<1>3. \A n \in DOMAIN files' : \/ n \in DOMAIN files /\ files'[n].recs = files[n].recs
                               \/ RecsGood(hist, nextId, files'[n].recs) /\ Capped(files'[n].recs)
  BY <1>2, EmptyGood
<1>4. \E r : /\ call' = [call EXCEPT ![c] = r]
             /\ r.recs = call[c].recs \/ RecsGood(hist, nextId, r.recs)
  <2>1. Idle.recs = EmptyMap
    BY DEF Idle
  <2>2. ASSUME NEW n, CreateIs(c, n)
        PROVE  \E r : call' = [call EXCEPT ![c] = r] /\ r.recs = call[c].recs
    BY <2>2 DEF CreateIs
  <2>3. call' = [call EXCEPT ![c] = Idle] \/ \E n : CreateIs(c, n)
    BY CreateCases
  <2> QED BY <2>1, <2>2, <2>3, EmptyGood
<1> QED BY <1>1, <1>3, <1>4, RecsHandler

LEMMA RecsReplace == ASSUME TypeInv, RecsInv, NEW c \in Caller, ReplaceAll(c) PROVE RecsInv'
<1> DEFINE n == call[c].st
           r == capNewest(call[c].recs)
           k == StepTo(c, "register", n)
<1>1. /\ n \in DOMAIN files /\ r \in Recs /\ files' = [files EXCEPT ![n].recs = r]
      /\ RecsGood(hist, nextId, r) /\ Capped(r) /\ UNCHANGED repo
      /\ call' = [call EXCEPT ![c] = k] /\ k.recs = call[c].recs
  BY ReplaceIs
<1> HIDE DEF n, r, k
<1>2. DOMAIN files' = DOMAIN files /\ files'[n].recs = r /\ \A i \in DOMAIN files \ {n} : files'[i] = files[i]
  BY <1>1, FileSet
<1>3. hist' = hist /\ nextId' = nextId
  BY <1>1 DEF repo
<1> QED BY <1>1, <1>2, <1>3, RecsHandler

LEMMA RecsRegister == ASSUME TypeInv, RecsInv, NEW c \in Caller, registerDeletedLog(c) PROVE RecsInv'
<1>1. files' = files /\ hist' = hist /\ nextId' = nextId /\ call' = [call EXCEPT ![c] = Idle]
  BY DEF registerDeletedLog, Goto, repo
<1>2. RecsGood(hist, nextId, Idle.recs)
  BY EmptyGood DEF Idle
<1> QED BY <1>1, <1>2, RecsHandler

LEMMA RecsRevive == ASSUME TypeInv, RecsInv, NEW c \in Caller, ReviveFile(c) PROVE RecsInv'
<1>1. files' = files /\ hist' = hist /\ nextId' = nextId
  BY ReviveIs DEF repo
<1>2. ASSUME NEW r, call' = [call EXCEPT ![c] = r], r.recs = EmptyMap PROVE RecsInv'
  BY <1>1, <1>2, EmptyGood, RecsHandler
<1>3. CASE call' = [call EXCEPT ![c] = WalkCall]
  BY <1>2, <1>3, WalkOK
<1>4. CASE \E p \in Path, x \in Content : call' = [call EXCEPT ![c] = WriteCall(p, x)]
  <2>1. PICK p \in Path, x \in Content : call' = [call EXCEPT ![c] = WriteCall(p, x)]
    BY <1>4
  <2> DEFINE r == WriteCall(p, x)
  <2>2. call' = [call EXCEPT ![c] = r] /\ r.recs = EmptyMap
    BY <2>1, WriteOK
  <2> HIDE DEF r
  <2> QED BY <1>2, <2>2
<1> QED BY <1>3, <1>4, ReviveIs

LEMMA RecsReviveWrite == ASSUME TypeInv, RecsInv, NEW c \in Caller, ReviveWrite(c) PROVE RecsInv'
<1> DEFINE r == [call[c] EXCEPT !.pc = "drop"]
<1>1. /\ call[c].pc = "write" /\ files' = files /\ hist' = hist /\ nextId' = nextId
      /\ call' = [call EXCEPT ![c] = r]
  BY DEF ReviveWrite, At, Goto, logs
<1>2. r.recs = call[c].recs
  BY <1>1, DropCall
<1> HIDE DEF r
<1> QED BY <1>1, <1>2, RecsHandler

LEMMA RecsReviveDrop == ASSUME TypeInv, RecsInv, NEW c \in Caller, ReviveDrop(c) PROVE RecsInv'
<1> DEFINE p == call[c].path
           n == ReadHandle
           r == Drop(files[n].recs, {p})
<1>1. /\ p \in Path /\ call' = [Race({p}) EXCEPT ![c] = Idle] /\ UNCHANGED repo
      /\ \/ files' = files
         \/ n \in DOMAIN files /\ r \in Recs /\ files' = [files EXCEPT ![n].recs = r]
  BY ReviveDropIs
<1>2. n \in DOMAIN files => RecsGood(hist, nextId, r) /\ Capped(r)
  <2>1. SUFFICES ASSUME n \in DOMAIN files PROVE RecsGood(hist, nextId, r) /\ Capped(r)
    OBVIOUS
  <2>2. /\ files[n].recs \in Recs /\ RecsGood(hist, nextId, files[n].recs)
        /\ Capped(files[n].recs) /\ nextId \in Nat
    BY <2>1, FilesParts DEF RecsInv, TypeInv, Positive
  <2> HIDE DEF n, p
  <2>3. Sub(r, files[n].recs)
    BY DropSub
  <2> HIDE DEF r
  <2>4. IsFiniteSet(DOMAIN files[n].recs)
    BY <2>2, RecsFinite
  <2> QED BY <2>2, <2>3, <2>4, SubGood, SubCapped
<1> HIDE DEF p, n, r
<1>3. \A i \in DOMAIN files' : \/ i \in DOMAIN files /\ files'[i].recs = files[i].recs
                               \/ RecsGood(hist, nextId, files'[i].recs) /\ Capped(files'[i].recs)
  BY <1>1, <1>2, FileSet
<1>4. \A d \in Caller : call'[d].recs = call[d].recs \/ RecsGood(hist, nextId, call'[d].recs)
  <2>1. {p} \in SUBSET Path
    BY <1>1
  <2>2. Race({p}) \in [Caller -> CallType] /\ \A d \in Caller : Race({p})[d].recs = call[d].recs
    BY <2>1, RaceIs
  <2>3. Idle.recs = EmptyMap
    BY DEF Idle
  <2>4. call'[c] = Idle /\ \A d \in Caller \ {c} : call'[d] = Race({p})[d]
    BY <1>1, <2>2
  <2> QED BY <2>2, <2>3, <2>4, EmptyGood
<1> QED BY <1>1, <1>3, <1>4, RecsKept DEF repo

LEMMA RecsStep == TypeInv /\ HistInv /\ RecsInv /\ [Next]_vars => RecsInv'
<1> SUFFICES ASSUME TypeInv, HistInv, RecsInv, [Next]_vars PROVE RecsInv'
  OBVIOUS
<1>1. CASE Accept \/ Start \/ UNCHANGED vars
  <2>1. files' = files /\ call' = call /\ hist' = hist /\ nextId' = nextId
    BY <1>1 DEF Accept, Start, vars, logs, repo
  <2> QED BY <2>1, RecsKept
<1>2. CASE commitEntry
  BY <1>2, RecsCommit
<1>3. CASE deletedLogApply
  BY <1>3, RecsHook
<1>4. ASSUME NEW c \in Caller,
             \/ ListDeleted(c) \/ walk(c) \/ removeDeletedLogFile(c)
             \/ Create(c) \/ ReplaceAll(c) \/ registerDeletedLog(c)
             \/ ReviveFile(c) \/ ReviveWrite(c) \/ ReviveDrop(c)
      PROVE  RecsInv'
  BY <1>4, RecsListDeleted, RecsWalk, RecsRemove, RecsCreate, RecsReplace, RecsRegister,
     RecsRevive, RecsReviveWrite, RecsReviveDrop
<1>5. CASE Crash
  <2>1. /\ files' = files /\ hist' = hist /\ nextId' = nextId
        /\ \A c \in Caller : call'[c].recs = EmptyMap
    BY <1>5 DEF Crash, Idle
  <2> QED BY <2>1, EmptyGood, RecsKept
<1>6. CASE Rewrite
  BY <1>6, RecsRewrite
<1> QED BY <1>1, <1>2, <1>3, <1>4, <1>5, <1>6 DEF Next

----------------------------------------------------------------------------
(* The handles *)

Ahead == Building \ {"remove"}

LEMMA HandleRead ==
  ASSUME TypeInv, HandleInv, ReadHandle # None, NEW c \in Caller
  PROVE  call[c].st # ReadHandle
<1>1. CASE reg # None
  BY <1>1, ReadHandleIs DEF HandleInv
<1>2. CASE reg = None
  <2>1. ReadHandle = file /\ file \notin Held
    BY <1>2, ReadHandleIs
  <2> QED BY <2>1 DEF Held
<1> QED BY <1>1, <1>2

LEMMA ReadKeeps ==
  ASSUME TypeInv
  PROVE  ReadHandle = None => reg = None
BY ReadHandleIs

\* A step that gives no handler another file.
LEMMA HandleKept ==
  ASSUME HandleInv, TypeInv', up', \A c \in Caller : call'[c].st \in {None, call[c].st},
         \A c \in Caller : call'[c].st # None => call'[c].st # reg',
         \/ reg' # None
         \/ dirty' = Path
         \/ /\ reg = None /\ dirty \subseteq dirty'
            /\ \A c \in Caller : call'[c].pc \in Ahead => call[c].pc \in Ahead
  PROVE  HandleInv'
<1>1. dirty' \subseteq Path
  BY DEF TypeInv
<1>2. \A c \in Caller : call'[c].st # None =>
        call'[c].st # reg' /\ \A d \in Caller \ {c} : call'[c].st # call'[d].st
  BY DEF HandleInv
<1>3. (\E c \in Caller : call'[c].pc \in Ahead) /\ reg' = None => dirty' = Path
  BY <1>1 DEF HandleInv, Ahead
<1> QED BY <1>2, <1>3 DEF HandleInv, Ahead

LEMMA HandleHandler ==
  ASSUME TypeInv, HandleInv, TypeInv', up', NEW c \in Caller, NEW r, call' = [call EXCEPT ![c] = r],
         r.st \in {None, call[c].st},
         \A d \in Caller : call'[d].st # None => call'[d].st # reg',
         \/ reg' # None
         \/ dirty' = Path
         \/ reg = None /\ dirty \subseteq dirty' /\ (r.pc \in Ahead => call[c].pc \in Ahead)
  PROVE  HandleInv'
<1>1. \A d \in Caller : call'[d].st \in {None, call[d].st}
  BY CallSet
<1>2. \/ reg' # None
      \/ dirty' = Path
      \/ /\ reg = None /\ dirty \subseteq dirty'
         /\ \A d \in Caller : call'[d].pc \in Ahead => call[d].pc \in Ahead
  BY CallSet
<1> QED BY <1>1, <1>2, HandleKept

LEMMA HandleSame ==
  ASSUME HandleInv, UNCHANGED <<call, reg, dirty>>, up'
  PROVE  HandleInv'
BY DEF HandleInv

LEMMA HandleHook == ASSUME TypeInv, HistInv, HandleInv, TypeInv', deletedLogApply PROVE HandleInv'
<1>1. /\ landed # None /\ call' = Race(Touched) /\ up' /\ (HookUpdates \/ HookCreates \/ HookSkips)
  BY HookIs
<1>2. Touched \in SUBSET Path
  BY <1>1, LandedIs, TouchedIs
<1>3. \A c \in Caller : call'[c].st = call[c].st /\ call'[c].pc = call[c].pc
  BY <1>1, <1>2, RaceIs
<1>4. CASE HookUpdates
  <2>1. reg' = ReadHandle /\ ReadHandle # None
    BY <1>4 DEF HookUpdates
  <2> QED BY <1>1, <1>3, <2>1, HandleRead, HandleKept
<1>5. CASE HookCreates
  <2>1. reg' = Len(files) + 1
    BY <1>5 DEF HookCreates
  <2>2. reg' \notin DOMAIN files /\ reg' # None
    BY <2>1, FilesParts DEF None
  <2>3. \A c \in Caller : call[c].st \in {None} \cup DOMAIN files
    BY CallParts
  <2> QED BY <1>1, <1>3, <2>2, <2>3, HandleKept
<1>6. CASE HookSkips
  <2>1. reg' = reg /\ dirty \subseteq dirty'
    BY <1>6 DEF HookSkips, logs
  <2> QED BY <1>1, <1>3, <2>1, HandleKept DEF HandleInv
<1> QED BY <1>1, <1>4, <1>5, <1>6

LEMMA HandleListDeleted ==
  ASSUME TypeInv, HandleInv, TypeInv', NEW c \in Caller, ListDeleted(c) PROVE HandleInv'
<1>1. up' /\ WalkCall.pc \notin Ahead /\ WalkCall.st = None
  BY WalkOK DEF ListDeleted, At, Ahead, Building
<1>2. CASE Goto(c, WalkCall) /\ UNCHANGED reg /\ dirty' \in {dirty, Path}
  <2>1. call' = [call EXCEPT ![c] = WalkCall]
    BY <1>2 DEF Goto
  <2>2. \A d \in Caller : call'[d].st # None => call'[d].st # reg'
    BY <1>1, <1>2, <2>1, CallSet DEF HandleInv
  <2> QED BY <1>1, <1>2, <2>1, <2>2, HandleHandler
<1>3. CASE ReadHandle # None /\ reg' = ReadHandle /\ UNCHANGED call
  BY <1>1, <1>3, HandleRead, HandleKept
<1> QED BY <1>2, <1>3 DEF ListDeleted, WalkCall, logs

LEMMA HandleWalk ==
  ASSUME TypeInv, HistInv, HandleInv, TypeInv', NEW c \in Caller, walk(c) PROVE HandleInv'
<1>1. /\ up' /\ reg' = reg /\ dirty' = dirty /\ call' = [call EXCEPT ![c] = WalkedCall(c)]
  BY DEF walk, At, Goto, WalkedCall, logs
<1>2. WalkedCall(c).pc \notin Ahead /\ WalkedCall(c).st = None
  BY WalkedIs DEF Ahead
<1>3. \A d \in Caller : call'[d].st # None => call'[d].st # reg'
  BY <1>1, <1>2, CallSet DEF HandleInv
<1> QED BY <1>1, <1>2, <1>3, HandleHandler

LEMMA HandleRemove ==
  ASSUME TypeInv, HandleInv, TypeInv', NEW c \in Caller, removeDeletedLogFile(c) PROVE HandleInv'
<1> DEFINE r == [call[c] EXCEPT !.pc = "create"]
<1> HIDE DEF r
<1>1. /\ call' = [call EXCEPT ![c] = r] /\ r.st = None /\ reg' = None /\ dirty' = Path
  BY RemoveIs DEF r
<1>2. up'
  BY DEF removeDeletedLogFile, At
<1>3. \A d \in Caller : call'[d].st # None => call'[d].st # reg'
  BY <1>1
<1> QED BY <1>1, <1>2, <1>3, HandleHandler

\* A new file, or one that no handle holds.
LEMMA HandleCreate ==
  ASSUME TypeInv, HandleInv, TypeInv', NEW c \in Caller, Create(c) PROVE HandleInv'
<1>1. up' /\ reg' = reg /\ dirty' = dirty /\ call[c].pc \in Ahead
  BY CreateCases DEF Create, At, Ahead, Building
<1>2. CASE call' = [call EXCEPT ![c] = Idle]
  <2>1. Idle.pc \notin Ahead /\ Idle.st = None
    BY IdleOK DEF Ahead, Building
  <2>2. \A d \in Caller : call'[d].st # None => call'[d].st # reg'
    BY <1>1, <1>2, <2>1, CallSet DEF HandleInv
  <2> QED BY <1>1, <1>2, <2>1, <2>2, HandleHandler DEF HandleInv
<1>3. ASSUME NEW n, CreateIs(c, n), n # reg, \A d \in Caller : call[d].st # n
      PROVE  HandleInv'
  <2> DEFINE r == StepTo(c, "replace", n)
  <2>1. call' = [call EXCEPT ![c] = r] /\ r.st = n /\ r.pc = "replace"
    BY <1>3 DEF CreateIs
  <2> HIDE DEF r
  <2>2. call'[c].st = n /\ \A d \in Caller \ {c} : call'[d] = call[d]
    BY <2>1, CallSet
  <2>3. \A a \in Caller : call'[a].st # None =>
          call'[a].st # reg' /\ \A d \in Caller \ {a} : call'[a].st # call'[d].st
    BY <1>1, <1>3, <2>2 DEF HandleInv
  <2>4. reg' = None => dirty' = Path
    BY <1>1 DEF HandleInv, Ahead
  <2> QED BY <1>1, <2>3, <2>4 DEF HandleInv
<1>4. CASE CreateIs(c, Len(files) + 1)
  <2>1. Len(files) + 1 # reg /\ \A d \in Caller : call[d].st # Len(files) + 1
    <3>1. Len(files) + 1 \notin DOMAIN files /\ Len(files) + 1 # None
      BY FilesParts DEF None
    <3>2. reg \in {None} \cup DOMAIN files
      BY DEF TypeInv
    <3> QED BY <3>1, <3>2, CallParts
  <2> QED BY <1>3, <1>4, <2>1
<1>5. CASE file # None /\ file \notin Held /\ CreateIs(c, file)
  <2>1. file # reg /\ \A d \in Caller : call[d].st # file
    BY <1>5 DEF Held
  <2> QED BY <1>3, <1>5, <2>1
<1> QED BY <1>2, <1>4, <1>5, CreateCases

LEMMA HandleReplace ==
  ASSUME TypeInv, RecsInv, HandleInv, TypeInv', NEW c \in Caller, ReplaceAll(c) PROVE HandleInv'
<1> DEFINE k == StepTo(c, "register", call[c].st)
<1>1. /\ call[c].pc = "replace" /\ call' = [call EXCEPT ![c] = k] /\ k.st = call[c].st
      /\ UNCHANGED <<reg, dirty>>
  BY ReplaceIs
<1> HIDE DEF k
<1>2. up' /\ call[c].pc \in Ahead
  BY <1>1 DEF ReplaceAll, At, Ahead, Building
<1>3. \A d \in Caller : call'[d].st # None => call'[d].st # reg'
  BY <1>1, CallSet DEF HandleInv
<1>4. reg' # None \/ dirty' = Path
  BY <1>1, <1>2 DEF HandleInv, Ahead
<1> QED BY <1>1, <1>2, <1>3, <1>4, HandleHandler

LEMMA HandleRegister ==
  ASSUME TypeInv, HandleInv, TypeInv', NEW c \in Caller, registerDeletedLog(c) PROVE HandleInv'
<1>1. up' /\ call[c].pc = "register" /\ reg' = call[c].st /\ call' = [call EXCEPT ![c] = Idle]
  BY DEF registerDeletedLog, At, Goto
<1>2. call[c].st # None /\ Idle.st = None
  BY <1>1, CallParts, IdleOK DEF HandlerOK
<1>3. \A d \in Caller : call'[d].st # None => call'[d].st # reg'
  <2>1. call'[c].st = None /\ \A d \in Caller \ {c} : call'[d].st = call[d].st
    BY <1>1, <1>2, CallSet
  <2>2. \A d \in Caller \ {c} : call[d].st # call[c].st
    BY <1>2 DEF HandleInv
  <2> QED BY <1>1, <2>1, <2>2
<1> QED BY <1>1, <1>2, <1>3, HandleHandler

LEMMA HandleRevive ==
  ASSUME TypeInv, HandleInv, TypeInv', NEW c \in Caller, ReviveFile(c) PROVE HandleInv'
<1>1. up' /\ reg' = ReadHandle /\ dirty' = dirty
  BY ReviveIs DEF ReviveFile, At
<1>2. ASSUME NEW r, call' = [call EXCEPT ![c] = r], r.st = None, r.pc \notin Ahead PROVE HandleInv'
  <2>1. \A d \in Caller : call'[d].st # None => call'[d].st # reg'
    BY <1>1, <1>2, CallSet, HandleRead
  <2> QED BY <1>1, <1>2, <2>1, ReadKeeps, HandleHandler
<1>3. CASE call' = [call EXCEPT ![c] = WalkCall]
  <2>1. WalkCall.st = None /\ WalkCall.pc \notin Ahead
    BY WalkOK DEF Ahead, Building
  <2> QED BY <1>2, <1>3, <2>1
<1>4. CASE \E p \in Path, x \in Content : call' = [call EXCEPT ![c] = WriteCall(p, x)]
  <2>1. PICK p \in Path, x \in Content : call' = [call EXCEPT ![c] = WriteCall(p, x)]
    BY <1>4
  <2> DEFINE r == WriteCall(p, x)
  <2>2. call' = [call EXCEPT ![c] = r] /\ r.st = None /\ r.pc \notin Ahead
    BY <2>1, WriteOK DEF Ahead, Building
  <2> HIDE DEF r
  <2> QED BY <1>2, <2>2
<1> QED BY <1>3, <1>4, ReviveIs

LEMMA HandleReviveWrite ==
  ASSUME TypeInv, HandleInv, TypeInv', NEW c \in Caller, ReviveWrite(c) PROVE HandleInv'
<1> DEFINE r == [call[c] EXCEPT !.pc = "drop"]
<1>1. /\ up' /\ call[c].pc = "write" /\ reg' = reg /\ dirty' = dirty /\ call' = [call EXCEPT ![c] = r]
  BY DEF ReviveWrite, At, Goto, logs
<1>2. r.st = None /\ r.pc \notin Ahead
  <2>1. r.st = None /\ r.pc = "drop"
    BY <1>1, DropCall
  <2> HIDE DEF r
  <2> QED BY <2>1 DEF Ahead, Building
<1> HIDE DEF r
<1>3. \A d \in Caller : call'[d].st # None => call'[d].st # reg'
  BY <1>1, <1>2, CallSet DEF HandleInv
<1> QED BY <1>1, <1>2, <1>3, HandleHandler

LEMMA HandleReviveDrop ==
  ASSUME TypeInv, HandleInv, TypeInv', NEW c \in Caller, ReviveDrop(c) PROVE HandleInv'
<1> DEFINE p == call[c].path
<1>1. /\ p \in Path /\ reg' = ReadHandle /\ dirty \subseteq dirty' /\ call' = [Race({p}) EXCEPT ![c] = Idle]
  BY ReviveDropIs
<1>2. up'
  BY DEF ReviveDrop, At
<1> HIDE DEF p
<1>3. \A d \in Caller : /\ call'[d].st \in {None, call[d].st}
                        /\ call'[d].pc \in Ahead => call[d].pc \in Ahead
  <2>1. {p} \in SUBSET Path
    BY <1>1
  <2>2. /\ Race({p}) \in [Caller -> CallType]
        /\ \A d \in Caller : Race({p})[d].st = call[d].st /\ Race({p})[d].pc = call[d].pc
    BY <2>1, RaceIs
  <2>3. Idle.st = None /\ Idle.pc \notin Ahead
    BY IdleOK DEF Ahead, Building
  <2>4. call'[c] = Idle /\ \A d \in Caller \ {c} : call'[d] = Race({p})[d]
    BY <1>1, <2>2
  <2> QED BY <2>2, <2>3, <2>4
<1>4. \A d \in Caller : call'[d].st # None => call'[d].st # reg'
  BY <1>1, <1>3, HandleRead
<1> QED BY <1>1, <1>2, <1>3, <1>4, ReadKeeps, HandleKept

\* While the server is down nothing is open.
LEMMA HandleStart == ASSUME TypeInv, HandleInv, Start PROVE HandleInv'
<1>1. ~up /\ UNCHANGED <<repo, reg, call>>
  BY StartIs
<1>2. reg' = None /\ landed' = None /\ \A c \in Caller : call'[c] = Idle
  BY <1>1 DEF HandleInv, repo
<1>3. Idle.st = None /\ Idle.pc \notin Ahead
  BY IdleOK DEF Ahead, Building
<1> QED BY <1>2, <1>3 DEF HandleInv, Ahead

LEMMA HandleStep == TypeInv /\ HistInv /\ RecsInv /\ HandleInv /\ TypeInv' /\ [Next]_vars => HandleInv'
<1> SUFFICES ASSUME TypeInv, HistInv, RecsInv, HandleInv, TypeInv', [Next]_vars PROVE HandleInv'
  OBVIOUS
<1>1. CASE Accept \/ commitEntry \/ Rewrite
  <2>1. UNCHANGED <<call, reg, dirty>> /\ up'
    BY <1>1 DEF Accept, commitEntry, Rewrite, logs
  <2> QED BY <2>1, HandleSame
<1>2. CASE deletedLogApply
  BY <1>2, HandleHook
<1>3. ASSUME NEW c \in Caller,
             \/ ListDeleted(c) \/ walk(c) \/ removeDeletedLogFile(c)
             \/ Create(c) \/ ReplaceAll(c) \/ registerDeletedLog(c)
             \/ ReviveFile(c) \/ ReviveWrite(c) \/ ReviveDrop(c)
      PROVE  HandleInv'
  BY <1>3, HandleListDeleted, HandleWalk, HandleRemove, HandleCreate, HandleReplace, HandleRegister,
     HandleRevive, HandleReviveWrite, HandleReviveDrop
<1>4. CASE Start
  BY <1>4, HandleStart
<1>5. CASE Crash
  <2>1. reg' = None /\ landed' = None /\ \A c \in Caller : call'[c] = Idle
    BY <1>5 DEF Crash
  <2>2. Idle.st = None /\ Idle.pc \notin Ahead
    BY IdleOK DEF Ahead, Building
  <2> QED BY <2>1, <2>2 DEF HandleInv, Ahead
<1>6. CASE UNCHANGED vars
  BY <1>6 DEF vars, HandleInv
<1> QED BY <1>1, <1>2, <1>3, <1>4, <1>5, <1>6 DEF Next

----------------------------------------------------------------------------
(* Agreement with the walk *)

\* The same of fewer paths.
LEMMA AgreesMore ==
  ASSUME NEW h, NEW w, NEW r, NEW S, NEW v, NEW T, Agrees(h, w, r, S),
         \A p \in Path : p \in S \cup w => p \in T \cup v
  PROVE  Agrees(h, v, r, T)
BY DEF Agrees

\* A commit decides the paths of its trailer, and nothing about the others.
LEMMA GrowAgrees ==
  ASSUME NEW h \in Seq(Commit), NEW c \in Commit, Lands(Append(h, c), Len(h) + 1)
  PROVE  LET g == Append(h, c)
         IN  /\ (\A p \in Path : DeadIn(h, p) => p \notin DOMAIN Top(h)) =>
                  \A p \in Path : DeadIn(g, p) => p \notin DOMAIN Top(g)
             /\ \A r, S : Agrees(h, {}, r, S) => Agrees(g, {c.meta.path, c.meta.from} \ {None}, r, S)
<1> DEFINE g == Append(h, c)
           l == Len(h) + 1
<1>1. /\ g \in Seq(Commit) /\ Len(g) = Len(h) + 1 /\ DOMAIN g = DOMAIN h \cup {l}
      /\ g[l] = c /\ Top(g) = c.tree /\ Parent(g, l) = Top(h)
      /\ \A i \in DOMAIN h :
           /\ i <= Len(h) /\ g[i] = h[i] /\ Adds(g, i) = Adds(h, i)
           /\ Decs(g, i) = Decs(h, i) /\ Dels(g, i) = Dels(h, i)
  BY Grow
<1>2. Lands(g, l)
  OBVIOUS
<1>3. DOMAIN h = 1..Len(h) /\ Len(h) \in Nat /\ l = Len(h) + 1
  BY HistParts
<1> HIDE DEF g, l
<1>4. Decs(g, l) \subseteq {c.meta.path, c.meta.from} \ {None}
  <2>1. l \in DOMAIN g
    BY <1>1
  <2>2. /\ c.meta.op \in {"write", "delete", "move"} /\ c.meta.path # None
        /\ c.meta.op = "move" => c.meta.from # None
    BY MetaParts, Consts DEF Commit
  <2>3. Decs(g, l) \subseteq {c.meta.path, c.meta.from} /\ Decs(g, l) \subseteq Path
    <3>1. /\ c.meta.op = "write" => Decs(g, l) = {c.meta.path}
          /\ c.meta.op = "delete" => Decs(g, l) = {c.meta.path}
          /\ c.meta.op = "move" => Decs(g, l) \subseteq {c.meta.path, c.meta.from}
      BY <1>1, <1>2, <2>1, Kinds
    <3>2. Decs(g, l) \subseteq Path
      BY <1>1, <2>1, DecsIn
    <3> QED BY <2>2, <3>1, <3>2
  <2> QED BY <2>3, Consts
<1>5. ASSUME NEW p, p \notin Decs(g, l)
      PROVE  /\ DeadIn(g, p) <=> DeadIn(h, p)
             /\ DecidedIn(g, p) => DecidedIn(h, p)
             /\ DecidedIn(g, p) /\ OverIn(h, p) => OverIn(g, p)
  <2>1. p \notin Dels(g, l)
    BY <1>1, <1>5, DecsIn
  <2>2. DeadIn(g, p) => DeadIn(h, p)
    <3>1. ASSUME DeadIn(g, p) PROVE DeadIn(h, p)
      <4>1. PICK i \in DOMAIN g : p \in Dels(g, i) /\ \A j \in DOMAIN g : j > i => p \notin Decs(g, j)
        BY <3>1 DEF DeadIn
      <4>2. i \in DOMAIN h /\ p \in Dels(h, i)
        BY <1>1, <2>1, <4>1
      <4>3. \A j \in DOMAIN h : j > i => p \notin Decs(h, j)
        BY <1>1, <4>1
      <4> QED BY <4>2, <4>3 DEF DeadIn
    <3> QED BY <3>1
  <2>3. DeadIn(h, p) => DeadIn(g, p)
    <3>1. ASSUME DeadIn(h, p) PROVE DeadIn(g, p)
      <4>1. PICK i \in DOMAIN h : p \in Dels(h, i) /\ \A j \in DOMAIN h : j > i => p \notin Decs(h, j)
        BY <3>1 DEF DeadIn
      <4>2. i \in DOMAIN g /\ p \in Dels(g, i)
        BY <1>1, <4>1
      <4>3. \A j \in DOMAIN g : j > i => p \notin Decs(g, j)
        BY <1>1, <1>5, <4>1
      <4> QED BY <4>2, <4>3 DEF DeadIn
    <3> QED BY <3>1
  <2>4. ASSUME DecidedIn(g, p)
        PROVE  DecidedIn(h, p) /\ (OverIn(h, p) => OverIn(g, p))
    <3>1. PICK j \in DOMAIN g : j > Len(g) - RepairDepth /\ p \in Decs(g, j)
      BY <2>4 DEF DecidedIn
    <3>2. j \in DOMAIN h /\ p \in Decs(h, j)
      BY <1>1, <1>5, <3>1
    <3>3. j > Len(h) - RepairDepth
      BY <1>1, <1>3, <3>1, <3>2, Consts
    <3>4. ASSUME OverIn(h, p) PROVE OverIn(g, p)
      <4>1. PICK i \in DOMAIN h :
              /\ i > Len(h) - RepairDepth /\ h[i].meta.op = "move" /\ h[i].meta.from = p
              /\ h[i].meta.path \notin Adds(h, i)
              /\ \A k \in DOMAIN h : k > i => p \notin Decs(h, k)
        BY <3>4 DEF OverIn
      <4>2. i >= j
        BY <1>3, <3>2, <4>1
      <4>3. i > Len(g) - RepairDepth
        BY <1>1, <1>3, <3>1, <3>2, <4>2, Consts
      <4>4. /\ i \in DOMAIN g /\ g[i].meta.op = "move" /\ g[i].meta.from = p
            /\ g[i].meta.path \notin Adds(g, i)
        BY <1>1, <4>1
      <4>5. \A k \in DOMAIN g : k > i => p \notin Decs(g, k)
        BY <1>1, <1>5, <4>1
      <4> QED BY <4>3, <4>4, <4>5 DEF OverIn
    <3> QED BY <3>2, <3>3, <3>4 DEF DecidedIn
  <2> QED BY <2>2, <2>3, <2>4
<1>6. ASSUME \A p \in Path : DeadIn(h, p) => p \notin DOMAIN Top(h)
      PROVE  \A p \in Path : DeadIn(g, p) => p \notin DOMAIN Top(g)
  <2> SUFFICES ASSUME NEW p \in Path, DeadIn(g, p) PROVE p \notin DOMAIN c.tree
    BY <1>1
  <2>1. CASE p \in Decs(g, l)
    <3>1. PICK i \in DOMAIN g : p \in Dels(g, i) /\ \A j \in DOMAIN g : j > i => p \notin Decs(g, j)
      BY DEF DeadIn
    <3>2. i = l
      BY <1>1, <1>3, <2>1, <3>1
    <3>3. p \in Rems(g, l)
      BY <1>1, <3>1, <3>2, DecsIn
    <3> QED BY <1>1, <3>3 DEF Rems
  <2>2. CASE p \notin Decs(g, l)
    <3>1. p \notin DOMAIN Parent(g, l)
      BY <1>1, <1>5, <1>6, <2>2
    <3>2. p \notin Adds(g, l)
      BY <2>2 DEF Decs
    <3> QED BY <1>1, <3>1, <3>2 DEF Adds
  <2> QED BY <2>1, <2>2
<1>7. ASSUME NEW r, NEW S, Agrees(h, {}, r, S)
      PROVE  Agrees(g, {c.meta.path, c.meta.from} \ {None}, r, S)
  <2> DEFINE W == {c.meta.path, c.meta.from} \ {None}
  <2> HIDE DEF W
  <2> SUFFICES ASSUME NEW p \in Path \ (S \cup W), DecidedIn(g, p), ~OverIn(g, p)
               PROVE  p \in DOMAIN r <=> DeadIn(g, p)
    BY DEF Agrees, W
  <2>1. p \notin Decs(g, l)
    BY <1>4 DEF W
  <2>2. DecidedIn(h, p) /\ ~OverIn(h, p) /\ (DeadIn(g, p) <=> DeadIn(h, p))
    BY <1>5, <2>1
  <2> QED BY <1>7, <2>2 DEF Agrees
<1> QED BY <1>6, <1>7 DEF g

\* The hashes do not matter.
LEMMA RehashAgrees ==
  ASSUME NEW h \in Seq(Commit), NEW n \in Nat
  PROVE  LET g == Rehashed(h, n)
         IN  \A p : /\ DeadIn(g, p) <=> DeadIn(h, p)
                    /\ DecidedIn(g, p) <=> DecidedIn(h, p)
                    /\ OverIn(g, p) <=> OverIn(h, p)
<1> DEFINE g == Rehashed(h, n)
<1>1. /\ Len(g) = Len(h) /\ DOMAIN g = DOMAIN h
      /\ \A i \in DOMAIN h : /\ g[i].meta = h[i].meta /\ Adds(g, i) = Adds(h, i)
                             /\ Decs(g, i) = Decs(h, i) /\ Dels(g, i) = Dels(h, i)
  BY Rehash
<1> HIDE DEF g
<1>2. ASSUME NEW p
      PROVE  /\ DeadIn(g, p) <=> DeadIn(h, p)
             /\ DecidedIn(g, p) <=> DecidedIn(h, p)
             /\ OverIn(g, p) <=> OverIn(h, p)
  <2>1. DeadIn(g, p) <=> DeadIn(h, p)
    BY <1>1 DEF DeadIn
  <2>2. DecidedIn(g, p) <=> DecidedIn(h, p)
    BY <1>1 DEF DecidedIn
  <2>3. OverIn(g, p) <=> OverIn(h, p)
    BY <1>1 DEF OverIn
  <2> QED BY <2>1, <2>2, <2>3
<1> QED BY <1>2 DEF g

\* Of the paths of the newest commit, the path of a deletion is dead, unless the
\* commit is a move over another file.
LEMMA TouchedDead ==
  ASSUME TypeInv, HistInv, landed # None, \A p \in Path : DeadIn(hist, p) => p \notin DOMAIN Top(hist),
         NEW p \in Touched, ~OverIn(hist, p)
  PROVE  DeadIn(hist, p) <=> queue[1].meta.op = "delete"
<1> DEFINE l == Len(hist)
           m == queue[1].meta
<1>1. /\ hist \in Seq(Commit) /\ l \in DOMAIN hist /\ hist[l].meta = m /\ Lands(hist, l) /\ hist # <<>>
      /\ DOMAIN hist = 1..l /\ l \in Nat /\ Top(hist) = hist[l].tree /\ queue # <<>>
  BY LandedIs, HistParts DEF TypeInv, HistInv, Top
<1>2. /\ m.op \in {"write", "delete", "move"} /\ m.path \in Path /\ p \in Path
      /\ m.op = "move" => m.from \in Path /\ m.path # m.from
      /\ m.op \in {"write", "delete"} => p = m.path
      /\ m.op = "move" => p = m.path \/ p = m.from
  BY <1>1, TouchedIs, MetaParts
<1>3. /\ m.op = "write" => Decs(hist, l) = {m.path} /\ Rems(hist, l) = {}
      /\ m.op = "delete" => Decs(hist, l) = {m.path} /\ Rems(hist, l) = {m.path}
      /\ m.op = "move" => /\ Rems(hist, l) = {m.from} /\ m.from \in Decs(hist, l)
                          /\ m.path \in DOMAIN hist[l].tree
  BY <1>1, Kinds
<1>4. Dels(hist, l) \subseteq Rems(hist, l) /\ (m.op # "move" => Dels(hist, l) = Rems(hist, l))
  BY <1>1 DEF Dels
<1> HIDE DEF l, m
<1>5. p \in Decs(hist, l) /\ p \notin Dels(hist, l) => ~DeadIn(hist, p)
  <2>1. SUFFICES ASSUME p \in Decs(hist, l), NEW i \in DOMAIN hist, p \in Dels(hist, i),
                        \A j \in DOMAIN hist : j > i => p \notin Decs(hist, j)
                 PROVE  p \in Dels(hist, l)
    BY DEF DeadIn
  <2>2. i = l
    BY <1>1, <2>1
  <2> QED BY <2>1, <2>2
<1>6. CASE m.op = "write"
  BY <1>2, <1>3, <1>4, <1>5, <1>6 DEF m
<1>7. CASE m.op = "delete"
  <2>1. p \in Dels(hist, l) /\ \A j \in DOMAIN hist : ~(j > l)
    BY <1>1, <1>2, <1>3, <1>4, <1>7
  <2> QED BY <1>1, <1>7, <2>1 DEF DeadIn, m
<1>8. CASE m.op = "move"
  <2>1. CASE p = m.path
    BY <1>1, <1>2, <1>3, <1>8, <2>1 DEF m
  <2>2. CASE p = m.from
    <3>1. m.path \in Adds(hist, l)
      <4>1. l > l - RepairDepth /\ \A j \in DOMAIN hist : ~(j > l)
        BY <1>1, Consts
      <4>2. m.path \notin Adds(hist, l) => OverIn(hist, p)
        BY <1>1, <1>8, <2>2, <4>1 DEF OverIn, l
      <4> QED BY <4>2
    <3>2. p \notin Dels(hist, l)
      BY <1>1, <1>3, <1>8, <2>2, <3>1 DEF Dels
    <3> QED BY <1>3, <1>5, <1>8, <2>2, <3>2 DEF m
  <2> QED BY <1>2, <1>8, <2>1, <2>2
<1> QED BY <1>2, <1>6, <1>7, <1>8

\* A step that leaves the history and the pending paths.
LEMMA AgreeKept ==
  ASSUME AgreeInv, hist' = hist, Pending(queue, landed)' = Pending(queue, landed),
         LogOK(hist, Pending(queue, landed), files', Cur', dirty'),
         \A c \in Caller : RebuildOK(hist, Pending(queue, landed), files', call'[c])
  PROVE  AgreeInv'
BY DEF AgreeInv

LEMMA AgreeHandler ==
  ASSUME TypeInv, AgreeInv, UNCHANGED repo, NEW c \in Caller, NEW r, call' = [call EXCEPT ![c] = r],
         LogOK(hist, Pending(queue, landed), files', Cur', dirty'),
         RebuildOK(hist, Pending(queue, landed), files', r),
         \A d \in Caller \ {c} : call[d].pc = "register" => files'[call[d].st].recs = files[call[d].st].recs
  PROVE  AgreeInv'
<1>1. hist' = hist /\ Pending(queue, landed)' = Pending(queue, landed)
  BY DEF repo, Pending
<1>2. ASSUME NEW d \in Caller \ {c} PROVE RebuildOK(hist, Pending(queue, landed), files', call'[d])
  <2>1. RebuildOK(hist, Pending(queue, landed), files, call[d]) /\ call'[d] = call[d]
    BY CallSet DEF AgreeInv
  <2> QED BY <1>2, <2>1 DEF RebuildOK
<1>3. \A d \in Caller : RebuildOK(hist, Pending(queue, landed), files', call'[d])
  BY <1>2, CallSet
<1> QED BY <1>1, <1>3, AgreeKept

LEMMA LogAll ==
  ASSUME NEW h, NEW w, NEW f, NEW n
  PROVE  LogOK(h, w, f, n, Path)
BY DEF LogOK, Agrees

\* The log has fewer records, of which the lost ones are dirty, or none was in use.
LEMMA LogSub ==
  ASSUME NEW h, NEW w, NEW f, NEW n, NEW g, NEW m, NEW S, NEW T,
         LogOK(h, w, f, n, S), T \subseteq Path, S \subseteq T,
         m = n, n # None => /\ DOMAIN g[m].recs \subseteq DOMAIN f[n].recs
                            /\ DOMAIN f[n].recs \ DOMAIN g[m].recs \subseteq T
  PROVE  LogOK(h, w, g, m, T)
<1>1. CASE n = None
  BY <1>1 DEF LogOK
<1>2. CASE n # None
  BY <1>2 DEF LogOK, Agrees
<1> QED BY <1>1, <1>2

\* Opening the log to read leaves it the one in use.
LEMMA CurRead ==
  ASSUME TypeInv, reg' = ReadHandle, file' = file
  PROVE  Cur' = Cur
BY ReadHandleIs DEF Cur

LEMMA OtherCall ==
  ASSUME NEW h, NEW w, NEW f, NEW r, r.pc \notin Building
  PROVE  RebuildOK(h, w, f, r)
BY DEF RebuildOK, Building

LEMMA AgreeAccept == ASSUME TypeInv, HistInv, AgreeInv, Accept PROVE AgreeInv'
<1>1. PICK m \in Meta, x \in Content : queue' = Append(queue, [meta |-> m, content |-> x])
  BY DEF Accept
<1>2. [meta |-> m, content |-> x] \in Entry
  BY DEF Entry
<1>3. hist' = hist /\ landed' = landed /\ files' = files /\ Cur' = Cur /\ dirty' = dirty /\ call' = call
  BY DEF Accept, logs, Cur
<1>4. landed # None => queue'[1] = queue[1]
  BY <1>1, <1>2, LandedIs, QueueGrows
<1>5. Pending(queue, landed)' = Pending(queue, landed)
  BY <1>3, <1>4 DEF Pending
<1> QED BY <1>3, <1>5, AgreeKept DEF AgreeInv

LEMMA AgreeCommit == ASSUME TypeInv, HistInv, HistInv', AgreeInv, commitEntry PROVE AgreeInv'
<1>1. /\ landed = None /\ files' = files /\ Cur' = Cur /\ dirty' = dirty /\ call' = call
  BY CommitIs DEF logs, Cur
<1>2. Pending(queue, landed) = {}
  BY <1>1 DEF Pending
<1>3. CASE queue' = Tail(queue) /\ UNCHANGED <<hist, landed, nextId>>
  <2>1. Pending(queue, landed)' = Pending(queue, landed)
    BY <1>1, <1>3 DEF Pending
  <2> QED BY <1>1, <1>3, <2>1, AgreeKept DEF AgreeInv
<1>4. CASE hist' = Append(hist, NewCommit) /\ landed' = nextId /\ queue' = queue
  <2>1. /\ NewCommit \in Commit /\ hist \in Seq(Commit) /\ nextId # None
        /\ NewCommit.meta = queue[1].meta
    BY CommitIs DEF TypeInv, Positive, None, NewCommit
  <2>2. Lands(hist', Len(hist) + 1)
    <3>1. Len(hist) + 1 \in DOMAIN hist'
      BY <1>4, <2>1, Grow
    <3> QED BY <3>1 DEF HistInv
  <2>3. Pending(queue, landed)' = {NewCommit.meta.path, NewCommit.meta.from} \ {None}
    BY <1>4, <2>1 DEF Pending
  <2> DEFINE e == NewCommit
  <2> HIDE DEF e
  <2>4. /\ (\A p \in Path : DeadIn(hist, p) => p \notin DOMAIN Top(hist)) =>
             \A p \in Path : DeadIn(Append(hist, e), p) => p \notin DOMAIN Top(Append(hist, e))
        /\ \A r, S : Agrees(hist, {}, r, S)
                       => Agrees(Append(hist, e), {e.meta.path, e.meta.from} \ {None}, r, S)
    <3>1. e \in Commit /\ Lands(Append(hist, e), Len(hist) + 1)
      BY <1>4, <2>1, <2>2 DEF e
    <3> QED BY <2>1, <3>1, GrowAgrees
  <2>5. /\ (\A p \in Path : DeadIn(hist, p) => p \notin DOMAIN Top(hist)) =>
             \A p \in Path : DeadIn(hist', p) => p \notin DOMAIN Top(hist')
        /\ \A r, S : Agrees(hist, Pending(queue, landed), r, S)
                       => Agrees(hist', Pending(queue, landed)', r, S)
    <3>1. hist' = Append(hist, e) /\ Pending(queue, landed)' = {e.meta.path, e.meta.from} \ {None}
      BY <1>4, <2>3 DEF e
    <3> QED BY <1>2, <2>4, <3>1
  <2>6. \A p \in Path : DeadIn(hist', p) => p \notin DOMAIN Top(hist')
    BY <2>5 DEF AgreeInv
  <2>7. LogOK(hist', Pending(queue, landed)', files', Cur', dirty')
    BY <1>1, <2>5 DEF AgreeInv, LogOK
  <2>8. \A c \in Caller : RebuildOK(hist', Pending(queue, landed)', files', call'[c])
    BY <1>1, <2>5 DEF AgreeInv, RebuildOK
  <2> QED BY <2>6, <2>7, <2>8 DEF AgreeInv
<1> QED BY <1>3, <1>4, CommitIs

LEMMA AgreeRewrite == ASSUME TypeInv, AgreeInv, Rewrite PROVE AgreeInv'
<1>1. /\ hist' = Rehashed(hist, nextId) /\ queue' = queue /\ landed' = landed
      /\ files' = files /\ Cur' = Cur /\ dirty' = dirty /\ call' = call
  BY DEF Rewrite, Rehashed, logs, Cur
<1>2. hist \in Seq(Commit) /\ nextId \in Nat
  BY DEF TypeInv, Positive
<1>3. /\ Top(hist') = Top(hist)
      /\ \A p : /\ DeadIn(hist', p) <=> DeadIn(hist, p)
                /\ DecidedIn(hist', p) <=> DecidedIn(hist, p)
                /\ OverIn(hist', p) <=> OverIn(hist, p)
  BY <1>1, <1>2, Rehash, RehashAgrees
<1>4. \A w, r, S : Agrees(hist', w, r, S) <=> Agrees(hist, w, r, S)
  BY <1>3 DEF Agrees
<1>5. Pending(queue, landed)' = Pending(queue, landed)
  BY <1>1 DEF Pending
<1>6. \A p \in Path : DeadIn(hist', p) => p \notin DOMAIN Top(hist')
  BY <1>3 DEF AgreeInv
<1>7. LogOK(hist', Pending(queue, landed)', files', Cur', dirty')
  BY <1>1, <1>4, <1>5 DEF AgreeInv, LogOK
<1>8. \A c \in Caller : RebuildOK(hist', Pending(queue, landed)', files', call'[c])
  BY <1>1, <1>4, <1>5 DEF AgreeInv, RebuildOK
<1> QED BY <1>6, <1>7, <1>8 DEF AgreeInv

\* The hook brings the paths of its commit to what the walk would say.
LEMMA AgreeHook ==
  ASSUME TypeInv, HistInv, RecsInv, HandleInv, AgreeInv, TypeInv', deletedLogApply PROVE AgreeInv'
<1>1. /\ landed # None /\ landed' = None /\ call' = Race(Touched) /\ hist' = hist
      /\ (HookUpdates \/ HookCreates \/ HookSkips)
  BY HookIs
<1>2. Touched \in SUBSET Path /\ Pending(queue, landed) = Touched /\ Pending(queue, landed)' = {}
  <2>1. Pending(queue, landed)' = {}
    BY <1>1 DEF Pending
  <2> QED BY <1>1, <2>1, LandedIs, TouchedIs
<1>3. dirty' \subseteq Path
  BY DEF TypeInv
<1>4. ASSUME NEW p \in Touched, ~OverIn(hist, p)
      PROVE  DeadIn(hist, p) <=> queue[1].meta.op = "delete"
  BY <1>1, <1>4, TouchedDead DEF AgreeInv
\* of a log that the hook leaves with the records t, which were r
<1>5. ASSUME NEW r, NEW t, NEW S, NEW T,
             Agrees(hist, Touched, r, S) \/ S = Path,
             \A p \in Touched : p \in DOMAIN t <=> queue[1].meta.op = "delete",
             DOMAIN t \ Touched \subseteq DOMAIN r,
             (S \ Touched) \cup (DOMAIN r \ (DOMAIN t \cup Touched)) \subseteq T
      PROVE  Agrees(hist, {}, t, T)
  <2> SUFFICES ASSUME NEW p \in Path \ T, DecidedIn(hist, p), ~OverIn(hist, p)
               PROVE  p \in DOMAIN t <=> DeadIn(hist, p)
    BY DEF Agrees
  <2>1. CASE p \in Touched
    BY <1>4, <1>5, <2>1
  <2>2. CASE p \notin Touched
    <3>1. p \notin S /\ (p \in DOMAIN r <=> p \in DOMAIN t)
      BY <1>5, <2>2
    <3> QED BY <1>5, <2>2, <3>1 DEF Agrees
  <2> QED BY <2>1, <2>2
<1>6. LogOK(hist, {}, files', Cur', dirty')
  <2>1. CASE HookUpdates
    <3> DEFINE n == ReadHandle
               r == files[n].recs
               t == Applied(r)
    <3>1. n \in DOMAIN files /\ t \in Recs /\ files' = [files EXCEPT ![n].recs = t]
      BY <2>1, HookRecs
    <3>2. n = Cur /\ n # None /\ reg' = n
      BY <2>1, ReadHandleIs DEF HookUpdates
    <3>3. r \in Recs /\ RecsGood(hist, nextId, r)
      BY <3>1, FilesParts DEF RecsInv
    <3> HIDE DEF n, r
    <3>4. DOMAIN t \ Touched \subseteq DOMAIN r /\ \A p \in Touched : p \in DOMAIN t <=> queue[1].meta.op = "delete"
      BY <1>1, <3>3, AppliedIs
    <3> HIDE DEF t
    <3>5. files'[n].recs = t
      BY <3>1, FileSet
    <3>6. dirty' = (dirty \ Touched) \cup (DOMAIN r \ (DOMAIN t \cup Touched))
      BY <2>1, <3>5 DEF HookUpdates, n, r
    <3>7. Agrees(hist, Touched, r, dirty)
      BY <1>2, <3>2 DEF AgreeInv, LogOK, r
    <3>8. Agrees(hist, {}, t, dirty')
      BY <1>5, <3>4, <3>6, <3>7
    <3>9. Cur' = n
      BY <3>2 DEF Cur
    <3> QED BY <3>2, <3>5, <3>8, <3>9 DEF LogOK
  <2>2. CASE HookCreates
    <3> DEFINE t == Applied(EmptyMap)
               n == Len(files) + 1
    <3>1. t \in Recs /\ files' = Append(files, NewLog(t)) /\ dirty' = dirty \ Touched /\ reg' = n
      BY <2>2, HookRecs DEF HookCreates
    <3>2. /\ DOMAIN t \ Touched \subseteq DOMAIN EmptyMap
          /\ \A p \in Touched : p \in DOMAIN t <=> queue[1].meta.op = "delete"
      BY <1>1, EmptyGood, AppliedIs
    <3> HIDE DEF t
    <3>3. files'[n].recs = t /\ n # None
      BY <3>1, FileNew
    <3>4. dirty = Path
      BY <2>2 DEF HookCreates, AgreeInv, LogOK, Cur
    <3>5. Agrees(hist, {}, t, dirty')
      <4>1. (dirty \ Touched) \cup (DOMAIN EmptyMap \ (DOMAIN t \cup Touched)) \subseteq dirty'
        BY <3>1, EmptyGood
      <4> QED BY <1>5, <3>2, <3>4, <4>1
    <3> HIDE DEF n
    <3>6. Cur' = n
      BY <3>1, <3>3 DEF Cur
    <3> QED BY <3>3, <3>5, <3>6 DEF LogOK
  <2>3. CASE HookSkips
    <3>1. files' = files /\ Cur' = Cur /\ dirty' = dirty \cup Touched
      BY <2>3 DEF HookSkips, logs, Cur
    <3>2. LogOK(hist, Touched, files, Cur, dirty)
      BY <1>2 DEF AgreeInv
    <3>3. CASE Cur = None
      BY <1>3, <3>1, <3>2, <3>3 DEF LogOK
    <3>4. CASE Cur # None
      BY <3>1, <3>2, <3>4, AgreesMore DEF LogOK
    <3> QED BY <3>3, <3>4
  <2> QED BY <1>1, <2>1, <2>2, <2>3
<1>7. ASSUME NEW c \in Caller PROVE RebuildOK(hist, {}, files', call'[c])
  <2>1. /\ call'[c].pc = call[c].pc /\ call'[c].st = call[c].st /\ call'[c].recs = call[c].recs
        /\ call[c].pc \in Building => call'[c].raced = call[c].raced \cup Touched
    BY <1>1, <1>2, RaceIs
  <2>2. RebuildOK(hist, Touched, files, call[c])
    BY <1>2 DEF AgreeInv
  <2>3. call[c].pc \in Building => Agrees(hist, {}, call'[c].recs, call'[c].raced)
    <3>1. SUFFICES ASSUME call[c].pc \in Building PROVE Agrees(hist, {}, call'[c].recs, call'[c].raced)
      OBVIOUS
    <3>2. Agrees(hist, Touched, call[c].recs, call[c].raced)
      BY <2>2, <3>1 DEF RebuildOK
    <3>3. Agrees(hist, {}, call[c].recs, call[c].raced \cup Touched)
      BY <3>2, AgreesMore
    <3> QED BY <2>1, <3>1, <3>3
  <2>4. call[c].pc = "register" => files'[call[c].st] = files[call[c].st]
    <3>1. SUFFICES ASSUME call[c].pc = "register" PROVE files'[call[c].st] = files[call[c].st]
      OBVIOUS
    <3>2. call[c].st \in DOMAIN files
      BY <3>1, CallParts DEF HandlerOK
    <3>3. CASE HookUpdates
      <4> DEFINE n == ReadHandle
                 t == Applied(files[n].recs)
      <4>1. n # None /\ call[c].st # n /\ n \in DOMAIN files /\ t \in Recs /\ files' = [files EXCEPT ![n].recs = t]
        BY <3>3, HookRecs, HandleRead DEF HookUpdates
      <4> HIDE DEF n, t
      <4> QED BY <3>2, <4>1, FileSet
    <3>4. CASE HookCreates
      <4> DEFINE t == Applied(EmptyMap)
      <4>1. t \in Recs /\ files' = Append(files, NewLog(t))
        BY <3>4, HookRecs DEF HookCreates
      <4> HIDE DEF t
      <4> QED BY <3>2, <4>1, FileNew
    <3>5. CASE HookSkips
      BY <3>5 DEF HookSkips, logs
    <3> QED BY <1>1, <3>3, <3>4, <3>5
  <2> QED BY <2>1, <2>2, <2>3, <2>4 DEF RebuildOK
<1> QED BY <1>1, <1>2, <1>6, <1>7 DEF AgreeInv

LEMMA AgreeListDeleted ==
  ASSUME TypeInv, HandleInv, AgreeInv, NEW c \in Caller, ListDeleted(c) PROVE AgreeInv'
<1>1. UNCHANGED repo /\ files' = files
  BY DEF ListDeleted, logs
<1>2. RebuildOK(hist, Pending(queue, landed), files', WalkCall)
  BY WalkOK, OtherCall DEF Building
<1>3. CASE Goto(c, WalkCall) /\ UNCHANGED <<logs, dirty>>
  <2>1. call' = [call EXCEPT ![c] = WalkCall] /\ Cur' = Cur /\ dirty' = dirty
    BY <1>3 DEF Goto, logs, Cur
  <2>2. LogOK(hist, Pending(queue, landed), files', Cur', dirty')
    BY <1>1, <2>1 DEF AgreeInv
  <2> QED BY <1>1, <1>2, <2>1, <2>2, AgreeHandler
<1>4. CASE reg' = ReadHandle /\ UNCHANGED <<call, file, dirty>>
  <2>1. Cur' = Cur /\ dirty' = dirty /\ call' = call
    BY <1>4, CurRead
  <2>2. Pending(queue, landed)' = Pending(queue, landed) /\ hist' = hist
    BY <1>1 DEF repo, Pending
  <2> QED BY <1>1, <2>1, <2>2, AgreeKept DEF AgreeInv
<1>5. CASE dirty' = Path /\ Goto(c, WalkCall)
  <2>1. call' = [call EXCEPT ![c] = WalkCall]
    BY <1>5 DEF Goto
  <2>2. LogOK(hist, Pending(queue, landed), files', Cur', dirty')
    BY <1>5, LogAll
  <2> QED BY <1>1, <1>2, <2>1, <2>2, AgreeHandler
<1> QED BY <1>3, <1>4, <1>5 DEF ListDeleted, WalkCall

LEMMA AgreeWalk ==
  ASSUME TypeInv, HistInv, AgreeInv, NEW c \in Caller, walk(c) PROVE AgreeInv'
<1>1. /\ UNCHANGED repo /\ call' = [call EXCEPT ![c] = WalkedCall(c)]
      /\ files' = files /\ Cur' = Cur /\ dirty' = dirty
  BY DEF walk, Goto, WalkedCall, logs, Cur
<1> DEFINE w == walkDeletedNetState
<1>2. /\ WalkedCall(c).pc = "remove" /\ WalkedCall(c).recs = w
      /\ WalkedCall(c).raced = Pending(queue, landed)
  BY WalkedIs
<1>3. \A p : DecidedIn(hist, p) => (p \in DOMAIN w <=> DeadIn(hist, p))
  BY WalkIs
<1> HIDE DEF w
<1>4. Agrees(hist, Pending(queue, landed), w, Pending(queue, landed))
  BY <1>3 DEF Agrees
<1>5. RebuildOK(hist, Pending(queue, landed), files', WalkedCall(c))
  BY <1>2, <1>4 DEF RebuildOK
<1>6. LogOK(hist, Pending(queue, landed), files', Cur', dirty')
  BY <1>1 DEF AgreeInv
<1> QED BY <1>1, <1>5, <1>6, AgreeHandler

\* A handler that goes on with what the walk gave it.
LEMMA GoesOn ==
  ASSUME AgreeInv, NEW c \in Caller, call[c].pc \in Building, NEW r, NEW f,
         r.recs = call[c].recs, r.raced = call[c].raced,
         r.pc = "register" => f[r.st].recs = capNewest(r.recs)
  PROVE  RebuildOK(hist, Pending(queue, landed), f, r)
<1>1. Agrees(hist, Pending(queue, landed), call[c].recs, call[c].raced)
  BY DEF AgreeInv, RebuildOK
<1> QED BY <1>1 DEF RebuildOK

LEMMA AgreeRemove ==
  ASSUME TypeInv, AgreeInv, NEW c \in Caller, removeDeletedLogFile(c) PROVE AgreeInv'
<1> DEFINE r == [call[c] EXCEPT !.pc = "create"]
<1> HIDE DEF r
<1>1. /\ UNCHANGED repo /\ call' = [call EXCEPT ![c] = r] /\ call[c].pc = "remove"
      /\ r.pc = "create" /\ r.recs = call[c].recs /\ r.raced = call[c].raced /\ dirty' = Path
      /\ \A n \in DOMAIN files : files'[n] = files[n] \/ \A d \in Caller : call[d].st # n
  BY RemoveIs DEF r
<1>2. RebuildOK(hist, Pending(queue, landed), files', r)
  BY <1>1, GoesOn DEF Building
<1>3. LogOK(hist, Pending(queue, landed), files', Cur', dirty')
  BY <1>1, LogAll
<1>4. \A d \in Caller \ {c} : call[d].pc = "register" => files'[call[d].st].recs = files[call[d].st].recs
  BY <1>1, CallParts DEF HandlerOK
<1> QED BY <1>1, <1>2, <1>3, <1>4, AgreeHandler

\* Until a rebuild registers its log either a handle is registered or every path is dirty.
LEMMA AheadLog ==
  ASSUME HandleInv, AgreeInv, NEW c \in Caller, call[c].pc \in Ahead, reg' = reg, dirty' = dirty,
         NEW f, reg # None => f[reg].recs = files[reg].recs
  PROVE  LogOK(hist, Pending(queue, landed), f, Cur', dirty')
<1>1. CASE reg = None
  <2>1. dirty' = Path
    BY <1>1 DEF HandleInv, Ahead
  <2> QED BY <2>1, LogAll
<1>2. CASE reg # None
  <2>1. Cur' = reg /\ Cur = reg
    BY <1>2 DEF Cur
  <2>2. LogOK(hist, Pending(queue, landed), files, reg, dirty)
    BY <2>1 DEF AgreeInv
  <2> QED BY <1>2, <2>1, <2>2 DEF LogOK
<1> QED BY <1>1, <1>2

LEMMA AgreeCreate ==
  ASSUME TypeInv, HandleInv, AgreeInv, NEW c \in Caller, Create(c) PROVE AgreeInv'
<1>1. UNCHANGED <<repo, reg, dirty>> /\ call[c].pc \in Ahead /\ call[c].pc \in Building
  BY CreateCases DEF Ahead, Building
<1>2. \A k \in DOMAIN files : files'[k] = files[k]
  <2>1. files' = files \/ files' = Append(files, NewLog(EmptyMap))
    BY CreateCases
  <2>2. EmptyMap \in Recs
    BY EmptyGood
  <2>3. CASE files' = Append(files, NewLog(EmptyMap))
    BY <2>2, <2>3, FileNew
  <2> QED BY <2>1, <2>3
<1>3. reg # None => files'[reg].recs = files[reg].recs
  BY <1>2 DEF TypeInv
<1>4. LogOK(hist, Pending(queue, landed), files', Cur', dirty')
  BY <1>1, <1>3, AheadLog
<1>5. \A d \in Caller \ {c} : call[d].pc = "register" => files'[call[d].st].recs = files[call[d].st].recs
  <2>1. \A d \in Caller : call[d].pc = "register" => call[d].st \in DOMAIN files
    BY CallParts DEF HandlerOK
  <2> QED BY <1>2, <2>1
<1>6. CASE call' = [call EXCEPT ![c] = Idle]
  <2>1. RebuildOK(hist, Pending(queue, landed), files', Idle)
    BY IdleOK, OtherCall DEF Building
  <2> QED BY <1>1, <1>4, <1>5, <1>6, <2>1, AgreeHandler
<1>7. ASSUME NEW n, CreateIs(c, n) PROVE AgreeInv'
  <2> DEFINE r == StepTo(c, "replace", n)
  <2>1. /\ call' = [call EXCEPT ![c] = r] /\ r.pc = "replace"
        /\ r.recs = call[c].recs /\ r.raced = call[c].raced
    BY <1>7 DEF CreateIs
  <2> HIDE DEF r
  <2>2. RebuildOK(hist, Pending(queue, landed), files', r)
    BY <1>1, <2>1, GoesOn
  <2> QED BY <1>1, <1>4, <1>5, <2>1, <2>2, AgreeHandler
<1> QED BY <1>6, <1>7, CreateCases

LEMMA AgreeReplace ==
  ASSUME TypeInv, RecsInv, HandleInv, AgreeInv, NEW c \in Caller, ReplaceAll(c) PROVE AgreeInv'
<1> DEFINE n == call[c].st
           t == capNewest(call[c].recs)
           k == StepTo(c, "register", n)
<1>1. /\ call[c].pc = "replace" /\ n \in DOMAIN files /\ n # None
      /\ t \in Recs /\ files' = [files EXCEPT ![n].recs = t] /\ UNCHANGED <<repo, reg, dirty>>
      /\ call' = [call EXCEPT ![c] = k] /\ k.pc = "register" /\ k.st = n
      /\ k.recs = call[c].recs /\ k.raced = call[c].raced
  BY ReplaceIs
<1>2. n # reg /\ \A d \in Caller \ {c} : call[d].st # n
  BY <1>1 DEF HandleInv
<1> HIDE DEF n, k
<1>3. t = capNewest(k.recs)
  BY <1>1
<1> HIDE DEF t
<1>4. files'[n].recs = t /\ \A i \in DOMAIN files \ {n} : files'[i] = files[i]
  BY <1>1, FileSet
<1>5. RebuildOK(hist, Pending(queue, landed), files', k)
  BY <1>1, <1>3, <1>4, GoesOn DEF Building
<1>6. LogOK(hist, Pending(queue, landed), files', Cur', dirty')
  <2>1. reg # None => files'[reg].recs = files[reg].recs
    BY <1>2, <1>4 DEF TypeInv
  <2> QED BY <1>1, <2>1, AheadLog DEF Ahead, Building
<1>7. \A d \in Caller \ {c} : call[d].pc = "register" => files'[call[d].st].recs = files[call[d].st].recs
  <2>1. \A d \in Caller : call[d].pc = "register" => call[d].st \in DOMAIN files
    BY CallParts DEF HandlerOK
  <2> QED BY <1>2, <1>4, <2>1
<1> QED BY <1>1, <1>5, <1>6, <1>7, AgreeHandler

\* The rebuilt log is the walk's, less what its cap evicts and what overtook it.
LEMMA AgreeRegister ==
  ASSUME TypeInv, RecsInv, AgreeInv, NEW c \in Caller, registerDeletedLog(c) PROVE AgreeInv'
<1> DEFINE n == call[c].st
           r == call[c].recs
           t == capNewest(r)
<1>1. /\ call[c].pc = "register" /\ UNCHANGED repo /\ files' = files /\ reg' = n /\ file' = file
      /\ call' = [call EXCEPT ![c] = Idle]
      /\ dirty' = IF reg' = file THEN call[c].raced \cup (DOMAIN r \ DOMAIN t) ELSE Path
  BY DEF registerDeletedLog, At, Goto
<1>2. n # None /\ r \in Recs /\ RecsGood(hist, nextId, r) /\ nextId \in Nat
  BY <1>1, CallParts DEF HandlerOK, RecsInv, TypeInv, Positive
<1>3. /\ Agrees(hist, Pending(queue, landed), r, call[c].raced)
      /\ files[n].recs = t
  BY <1>1 DEF AgreeInv, RebuildOK, Building
<1> HIDE DEF n, r
<1>4. DOMAIN t \subseteq DOMAIN r
  BY <1>2, CapIs DEF Sub
<1> HIDE DEF t
<1>5. LogOK(hist, Pending(queue, landed), files', Cur', dirty')
  <2>1. CASE dirty' = Path
    BY <2>1, LogAll
  <2>2. CASE dirty' = call[c].raced \cup (DOMAIN r \ DOMAIN t)
    <3>1. Cur' = n
      BY <1>1, <1>2 DEF Cur
    <3>2. Agrees(hist, Pending(queue, landed), t, dirty')
      BY <1>3, <1>4, <2>2 DEF Agrees
    <3> QED BY <1>1, <1>2, <1>3, <3>1, <3>2 DEF LogOK
  <2> QED BY <1>1, <2>1, <2>2
<1>6. RebuildOK(hist, Pending(queue, landed), files', Idle)
  BY IdleOK, OtherCall DEF Building
<1> QED BY <1>1, <1>5, <1>6, AgreeHandler

LEMMA AgreeRevive ==
  ASSUME TypeInv, AgreeInv, NEW c \in Caller, ReviveFile(c) PROVE AgreeInv'
<1>1. UNCHANGED repo /\ files' = files /\ dirty' = dirty /\ Cur' = Cur
  BY ReviveIs, CurRead
<1>2. LogOK(hist, Pending(queue, landed), files', Cur', dirty')
  BY <1>1 DEF AgreeInv
<1>3. ASSUME NEW r, call' = [call EXCEPT ![c] = r], r.pc \notin Building PROVE AgreeInv'
  BY <1>1, <1>2, <1>3, OtherCall, AgreeHandler
<1>4. CASE call' = [call EXCEPT ![c] = WalkCall]
  BY <1>3, <1>4, WalkOK DEF Building
<1>5. CASE \E p \in Path, x \in Content : call' = [call EXCEPT ![c] = WriteCall(p, x)]
  <2>1. PICK p \in Path, x \in Content : call' = [call EXCEPT ![c] = WriteCall(p, x)]
    BY <1>5
  <2> DEFINE r == WriteCall(p, x)
  <2>2. call' = [call EXCEPT ![c] = r] /\ r.pc \notin Building
    BY <2>1, WriteOK DEF Building
  <2> HIDE DEF r
  <2> QED BY <1>3, <2>2
<1> QED BY <1>4, <1>5, ReviveIs

LEMMA AgreeReviveWrite ==
  ASSUME TypeInv, HistInv, AgreeInv, NEW c \in Caller, ReviveWrite(c) PROVE AgreeInv'
<1> DEFINE e == [meta |-> [op |-> "write", path |-> call[c].path, from |-> None],
                 content |-> call[c].content]
           r == [call[c] EXCEPT !.pc = "drop"]
<1>1. /\ call[c].pc = "write" /\ queue' = Append(queue, e) /\ hist' = hist /\ landed' = landed
      /\ files' = files /\ Cur' = Cur /\ dirty' = dirty /\ call' = [call EXCEPT ![c] = r]
  BY DEF ReviveWrite, At, Goto, logs, Cur
<1>2. call[c].path \in Path /\ call[c].content \in Content
  BY <1>1, CallParts DEF HandlerOK
<1>3. e \in Entry
  BY <1>2 DEF Entry, Meta
<1>4. r.pc = "drop"
  BY <1>1, DropCall
<1> HIDE DEF e, r
<1>5. landed # None => queue'[1] = queue[1]
  BY <1>1, <1>3, LandedIs, QueueGrows
<1>6. Pending(queue, landed)' = Pending(queue, landed)
  BY <1>1, <1>5 DEF Pending
<1>7. RebuildOK(hist, Pending(queue, landed), files', r)
  BY <1>4, OtherCall DEF Building
<1>8. \A d \in Caller : RebuildOK(hist, Pending(queue, landed), files', call'[d])
  BY <1>1, <1>7, CallSet DEF AgreeInv
<1>9. LogOK(hist, Pending(queue, landed), files', Cur', dirty')
  BY <1>1 DEF AgreeInv
<1> QED BY <1>1, <1>6, <1>8, <1>9, AgreeKept

LEMMA AgreeReviveDrop ==
  ASSUME TypeInv, HandleInv, AgreeInv, TypeInv', NEW c \in Caller, ReviveDrop(c) PROVE AgreeInv'
<1> DEFINE p == call[c].path
           n == ReadHandle
           t == Drop(files[n].recs, {p})
<1>1. /\ p \in Path /\ reg' = n /\ file' = file /\ dirty' = dirty \cup {p} /\ UNCHANGED repo
      /\ call' = [Race({p}) EXCEPT ![c] = Idle]
      /\ \/ n = None /\ files' = files
         \/ n # None /\ n \in DOMAIN files /\ t \in Recs /\ files' = [files EXCEPT ![n].recs = t]
  BY ReviveDropIs
<1>2. Cur' = Cur /\ (n # None => n = Cur)
  BY <1>1, CurRead, ReadHandleIs
<1>3. n # None => \A d \in Caller : call[d].st # n
  BY HandleRead
<1> HIDE DEF p, n
<1>4. DOMAIN t = DOMAIN files[n].recs \ {p}
  BY DEF Drop
<1> HIDE DEF t
<1>5. \/ files' = files
      \/ /\ n # None /\ n \in DOMAIN files /\ files'[n].recs = t
         /\ \A i \in DOMAIN files \ {n} : files'[i] = files[i]
  BY <1>1, FileSet
<1>6. Pending(queue, landed)' = Pending(queue, landed) /\ hist' = hist
  BY <1>1 DEF repo, Pending
<1>7. LogOK(hist, Pending(queue, landed), files', Cur', dirty')
  <2>1. LogOK(hist, Pending(queue, landed), files, Cur, dirty) /\ dirty' \subseteq Path
    BY DEF AgreeInv, TypeInv
  <2>2. dirty \subseteq dirty' /\ p \in dirty'
    BY <1>1
  <2>3. Cur # None => /\ DOMAIN files'[Cur].recs \subseteq DOMAIN files[Cur].recs
                      /\ DOMAIN files[Cur].recs \ DOMAIN files'[Cur].recs \subseteq dirty'
    <3>1. CASE files' = files
      BY <3>1
    <3>2. CASE n # None /\ files'[n].recs = t
      BY <1>2, <1>4, <2>2, <3>2
    <3> QED BY <1>5, <3>1, <3>2
  <2> QED BY <1>2, <2>1, <2>2, <2>3, LogSub
<1>8. ASSUME NEW d \in Caller PROVE RebuildOK(hist, Pending(queue, landed), files', call'[d])
  <2>1. {p} \in SUBSET Path
    BY <1>1
  <2>2. /\ Race({p}) \in [Caller -> CallType]
        /\ Race({p})[d].pc = call[d].pc /\ Race({p})[d].st = call[d].st /\ Race({p})[d].recs = call[d].recs
        /\ call[d].pc \in Building => Race({p})[d].raced = call[d].raced \cup {p}
    BY <2>1, RaceIs
  <2>3. RebuildOK(hist, Pending(queue, landed), files', Idle)
    BY IdleOK, OtherCall DEF Building
  <2>4. call'[d] = Idle \/ call'[d] = Race({p})[d]
    BY <1>1, <2>2
  <2>5. RebuildOK(hist, Pending(queue, landed), files', Race({p})[d])
    <3>1. RebuildOK(hist, Pending(queue, landed), files, call[d])
      BY DEF AgreeInv
    <3>2. call[d].pc \in Building =>
            Agrees(hist, Pending(queue, landed), Race({p})[d].recs, Race({p})[d].raced)
      <4>1. SUFFICES ASSUME call[d].pc \in Building
                     PROVE  Agrees(hist, Pending(queue, landed), Race({p})[d].recs, Race({p})[d].raced)
        OBVIOUS
      <4>2. Agrees(hist, Pending(queue, landed), call[d].recs, call[d].raced)
        BY <3>1, <4>1 DEF RebuildOK
      <4>3. Agrees(hist, Pending(queue, landed), call[d].recs, call[d].raced \cup {p})
        BY <4>2, AgreesMore
      <4> QED BY <2>2, <4>1, <4>3
    <3>3. call[d].pc = "register" => files'[call[d].st].recs = capNewest(call[d].recs)
      <4>1. SUFFICES ASSUME call[d].pc = "register"
                     PROVE  files'[call[d].st].recs = capNewest(call[d].recs)
        OBVIOUS
      <4>2. call[d].st \in DOMAIN files
        BY <4>1, CallParts DEF HandlerOK
      <4>3. files'[call[d].st] = files[call[d].st]
        BY <1>3, <1>5, <4>2
      <4> QED BY <3>1, <4>1, <4>3 DEF RebuildOK
    <3> QED BY <2>2, <3>2, <3>3 DEF RebuildOK
  <2> QED BY <2>3, <2>4, <2>5
<1> QED BY <1>6, <1>7, <1>8, AgreeKept

LEMMA AgreeStart == ASSUME TypeInv, AgreeInv, Start PROVE AgreeInv'
<1>1. /\ UNCHANGED <<repo, files, reg, call>>
      /\ UNCHANGED <<file, dirty>> \/ dirty' = Path
  BY StartIs
<1>2. Pending(queue, landed)' = Pending(queue, landed) /\ hist' = hist /\ files' = files /\ call' = call
  BY <1>1 DEF repo, Pending
<1>3. LogOK(hist, Pending(queue, landed), files', Cur', dirty')
  <2>1. CASE UNCHANGED <<file, dirty>>
    BY <1>1, <2>1 DEF Cur, AgreeInv
  <2>2. CASE dirty' = Path
    BY <2>2, LogAll
  <2> QED BY <1>1, <2>1, <2>2
<1> QED BY <1>2, <1>3, AgreeKept DEF AgreeInv

\* A crash loses the hook that had to run, and the log if its name led elsewhere.
LEMMA AgreeCrash == ASSUME TypeInv, HistInv, AgreeInv, TypeInv', Crash PROVE AgreeInv'
<1>1. /\ landed' = None /\ reg' = None /\ file' = file /\ files' = files /\ hist' = hist
      /\ \A c \in Caller : call'[c] = Idle
      /\ dirty' = IF reg # None /\ reg # file THEN Path
                  ELSE IF landed # None THEN dirty \cup Touched ELSE dirty
  BY DEF Crash
<1>2. Pending(queue, landed)' = {} /\ Cur' = file /\ dirty' \subseteq Path
  BY <1>1 DEF Pending, Cur, TypeInv
<1>3. \A c \in Caller : RebuildOK(hist, {}, files', call'[c])
  BY <1>1, IdleOK, OtherCall DEF Building
<1>4. LogOK(hist, {}, files', Cur', dirty')
  <2>1. CASE dirty' = Path
    BY <2>1, LogAll
  <2>2. CASE dirty' # Path
    <3>1. Cur = file
      BY <1>1, <2>2 DEF Cur
    <3>2. dirty' = dirty \cup Pending(queue, landed)
      <4>1. landed # None => Touched = Pending(queue, landed)
        BY LandedIs, TouchedIs
      <4>2. landed = None => Pending(queue, landed) = {}
        BY DEF Pending
      <4> QED BY <1>1, <2>2, <4>1, <4>2
    <3>3. LogOK(hist, Pending(queue, landed), files, file, dirty)
      BY <3>1 DEF AgreeInv
    <3>4. file # None
      BY <1>2, <2>2, <3>2, <3>3 DEF LogOK
    <3>5. Agrees(hist, {}, files[file].recs, dirty')
      BY <3>2, <3>3, <3>4, AgreesMore DEF LogOK
    <3> QED BY <1>1, <1>2, <3>4, <3>5 DEF LogOK
  <2> QED BY <2>1, <2>2
<1> QED BY <1>1, <1>2, <1>3, <1>4 DEF AgreeInv

LEMMA AgreeStep == Inv /\ TypeInv' /\ HistInv' /\ [Next]_vars => AgreeInv'
<1> SUFFICES ASSUME TypeInv, HistInv, RecsInv, HandleInv, AgreeInv, TypeInv', HistInv', [Next]_vars
             PROVE  AgreeInv'
  BY DEF Inv
<1>1. CASE Accept
  BY <1>1, AgreeAccept
<1>2. CASE commitEntry
  BY <1>2, AgreeCommit
<1>3. CASE deletedLogApply
  BY <1>3, AgreeHook
<1>4. ASSUME NEW c \in Caller,
             \/ ListDeleted(c) \/ walk(c) \/ removeDeletedLogFile(c)
             \/ Create(c) \/ ReplaceAll(c) \/ registerDeletedLog(c)
             \/ ReviveFile(c) \/ ReviveWrite(c) \/ ReviveDrop(c)
      PROVE  AgreeInv'
  BY <1>4, AgreeListDeleted, AgreeWalk, AgreeRemove, AgreeCreate, AgreeReplace, AgreeRegister,
     AgreeRevive, AgreeReviveWrite, AgreeReviveDrop
<1>5. CASE Start
  BY <1>5, AgreeStart
<1>6. CASE Crash
  BY <1>6, AgreeCrash
<1>7. CASE Rewrite
  BY <1>7, AgreeRewrite
<1>8. CASE UNCHANGED vars
  <2>1. /\ hist' = hist /\ Pending(queue, landed)' = Pending(queue, landed) /\ files' = files
        /\ Cur' = Cur /\ dirty' = dirty /\ call' = call
    BY <1>8 DEF vars, Pending, Cur
  <2> QED BY <2>1, AgreeKept DEF AgreeInv
<1> QED BY <1>1, <1>2, <1>3, <1>4, <1>5, <1>6, <1>7, <1>8 DEF Next

----------------------------------------------------------------------------
(* The initial states *)

\* The commits of the history that a run starts with.
WriteOf(f) == [op |-> "write", path |-> f, from |-> None]
FirstHist(p, q, x) ==
  << [meta |-> WriteOf(q), hash |-> 1, tree |-> Put(EmptyMap, q, x)],
     [meta |-> WriteOf(p), hash |-> 2, tree |-> Put(Put(EmptyMap, q, x), p, x)],
     [meta |-> [WriteOf(p) EXCEPT !.op = "delete"], hash |-> 3, tree |-> Put(EmptyMap, q, x)] >>
LEMMA FirstIs ==
  ASSUME NEW p \in Path, NEW q \in Path, NEW x \in Content, p # q
  PROVE  LET h == FirstHist(p, q, x)
         IN  /\ h \in Seq(Commit) /\ Len(h) = 3 /\ DOMAIN h = {1, 2, 3} /\ h # <<>>
             /\ \A i \in {1, 2, 3} : h[i].hash = i /\ Lands(h, i)
             /\ p \notin DOMAIN Top(h) /\ p \in Rems(h, 3)
             /\ \A r \in Path : DeadIn(h, r) <=> r = p
<1> DEFINE h == FirstHist(p, q, x)
           t == Put(EmptyMap, q, x)
           u == Put(t, p, x)
<1>1. /\ EmptyMap \in Tree /\ DOMAIN EmptyMap = {} /\ t \in Tree /\ u \in Tree
  BY EmptyIn, PutMap, TreeIs
<1>2. DOMAIN t = {q} /\ DOMAIN u = {q, p}
  BY <1>1 DEF Put
<1>3. Drop(u, {p}) = t /\ t # EmptyMap /\ u # t
  <2>1. DOMAIN Drop(u, {p}) = DOMAIN t /\ \A k \in DOMAIN t : Drop(u, {p})[k] = t[k]
    BY <1>2 DEF Drop, Put
  <2>2. Drop(u, {p}) = t
    BY <2>1 DEF Drop, Put
  <2> QED BY <1>1, <1>2, <2>2
<1>4. WriteOf(q) \in Meta /\ WriteOf(p) \in Meta /\ [WriteOf(p) EXCEPT !.op = "delete"] \in Meta
  BY DEF Meta, WriteOf
<1>5. /\ h[1] = [meta |-> WriteOf(q), hash |-> 1, tree |-> t]
      /\ h[2] = [meta |-> WriteOf(p), hash |-> 2, tree |-> u]
      /\ h[3] = [meta |-> [WriteOf(p) EXCEPT !.op = "delete"], hash |-> 3, tree |-> t]
      /\ Len(h) = 3 /\ DOMAIN h = {1, 2, 3} /\ h # <<>>
  BY DEF FirstHist
<1> HIDE DEF t, u
<1>6. h[1] \in Commit /\ h[2] \in Commit /\ h[3] \in Commit
  BY <1>1, <1>4, <1>5 DEF Commit, Positive
<1>7. h \in Seq(Commit)
  <2>1. \A m \in DOMAIN h : h[m] \in Commit
    BY <1>5, <1>6
  <2> QED BY <1>6 DEF FirstHist
<1>8. /\ h[1].tree = t /\ h[2].tree = u /\ h[3].tree = t
      /\ h[1].hash = 1 /\ h[2].hash = 2 /\ h[3].hash = 3
      /\ h[1].meta.op = "write" /\ h[1].meta.path = q
      /\ h[2].meta.op = "write" /\ h[2].meta.path = p
      /\ h[3].meta.op = "delete" /\ h[3].meta.path = p
      /\ Len(h) = 3 /\ DOMAIN h = {1, 2, 3} /\ h # <<>>
  BY <1>5 DEF WriteOf
<1> HIDE DEF h
<1>9. Parent(h, 1) = EmptyMap /\ Parent(h, 2) = t /\ Parent(h, 3) = u /\ Top(h) = t
  BY <1>8 DEF Parent, Top
<1>10. Lands(h, 1)
  BY <1>3, <1>8, <1>9 DEF Lands, applyToTree, t
<1>11. Lands(h, 2)
  BY <1>3, <1>8, <1>9 DEF Lands, applyToTree, u
<1>12. Lands(h, 3)
  BY <1>3, <1>8, <1>9 DEF Lands, applyToTree
<1>13. Rems(h, 1) = {} /\ Rems(h, 2) = {} /\ Rems(h, 3) = {p}
  BY <1>1, <1>2, <1>8, <1>9 DEF Rems
<1>14. \A r : DeadIn(h, r) <=> r = p
  <2>1. Dels(h, 1) = {} /\ Dels(h, 2) = {} /\ Dels(h, 3) = {p}
    BY <1>8, <1>13 DEF Dels
  <2>2. ASSUME NEW r, DeadIn(h, r) PROVE r = p
    <3>1. PICK i \in DOMAIN h : r \in Dels(h, i)
      BY <2>2 DEF DeadIn
    <3> QED BY <1>8, <2>1, <3>1
  <2>3. DeadIn(h, p)
    <3>1. 3 \in DOMAIN h /\ p \in Dels(h, 3) /\ \A j \in DOMAIN h : ~(j > 3)
      BY <1>8, <2>1
    <3> QED BY <3>1 DEF DeadIn
  <2> QED BY <2>2, <2>3
<1>15. p \notin DOMAIN Top(h) /\ p \in Rems(h, 3)
  BY <1>2, <1>9, <1>13
<1>16. \A i \in {1, 2, 3} : h[i].hash = i /\ Lands(h, i)
  BY <1>8, <1>10, <1>11, <1>12
<1> QED BY <1>7, <1>8, <1>14, <1>15, <1>16 DEF h

\* The log file that an earlier build left.
LEMMA OldLog ==
  ASSUME NEW p \in Path, NEW r \in {EmptyMap, Put(EmptyMap, p, 3)}
  PROVE  /\ r \in Recs /\ Capped(r)
         /\ r = EmptyMap \/ (DOMAIN r = {p} /\ r[p] = 3)
<1>1. EmptyMap \in Recs /\ DOMAIN EmptyMap = {}
  BY EmptyGood
<1>2. CASE r = EmptyMap
  BY <1>2, EmptyGood
<1>3. CASE r = Put(EmptyMap, p, 3)
  <2>1. r \in Recs
    <3>1. 3 \in Positive
      BY DEF Positive
    <3> QED BY <1>1, <1>3, <3>1, PutMap DEF Recs
  <2>2. DOMAIN r = {p} /\ r[p] = 3
    BY <1>1, <1>3 DEF Put
  <2>3. Capped(r)
    <3>1. Cardinality({p}) = 1
      BY FS_Singleton
    <3> QED BY <2>2, <3>1, Consts DEF Capped
  <2> QED BY <2>1, <2>2, <2>3
<1> QED BY <1>2, <1>3

LEMMA InitInv == Init => Inv
<1> SUFFICES ASSUME Init PROVE Inv
  OBVIOUS
<1>1. PICK p \in Path, q \in Path, x \in Content :
        /\ p # q /\ hist = FirstHist(p, q, x)
        /\ \/ files = <<>> /\ file = None /\ dirty = Path
           \/ /\ \E r \in {EmptyMap, Put(EmptyMap, p, 3)}, ok \in BOOLEAN :
                   /\ files = <<[recs |-> r, marked |-> FALSE, ok |-> ok]>>
                   /\ dirty = IF r = EmptyMap THEN Path ELSE {}
              /\ file = 1
  BY DEF Init, FirstHist, WriteOf
<1>2. /\ queue = <<>> /\ landed = None /\ reg = None /\ call = [c \in Caller |-> Idle]
      /\ up = FALSE /\ cleaned = FALSE /\ nextId = 4 /\ faults = 0
  BY DEF Init
<1>3. /\ hist \in Seq(Commit) /\ DOMAIN hist = {1, 2, 3}
      /\ \A i \in {1, 2, 3} : hist[i].hash = i /\ Lands(hist, i)
      /\ p \notin DOMAIN Top(hist) /\ p \in Rems(hist, 3)
      /\ \A r \in Path : DeadIn(hist, r) <=> r = p
  BY <1>1, FirstIs
<1>4. \A c \in Caller : /\ call[c] = Idle /\ HandlerOK(call[c], DOMAIN files) /\ call[c].st = None
                        /\ call[c].recs = EmptyMap /\ call[c].pc = "idle"
  <2>1. Idle.recs = EmptyMap
    BY DEF Idle
  <2> QED BY <1>2, <2>1, IdleOK
<1>5. \/ files = <<>> /\ file = None /\ dirty = Path
      \/ \E r \in {EmptyMap, Put(EmptyMap, p, 3)} :
           /\ files \in Seq(LogFile) /\ DOMAIN files = {1} /\ files[1].recs = r /\ file = 1
           /\ dirty = IF r = EmptyMap THEN Path ELSE {}
  <2>1. ASSUME NEW r \in {EmptyMap, Put(EmptyMap, p, 3)}, NEW ok \in BOOLEAN,
               files = <<[recs |-> r, marked |-> FALSE, ok |-> ok]>>
        PROVE  files \in Seq(LogFile) /\ DOMAIN files = {1} /\ files[1].recs = r
    <3>1. r \in Recs
      BY <1>1, OldLog
    <3>2. [recs |-> r, marked |-> FALSE, ok |-> ok] \in LogFile
      BY <3>1 DEF LogFile
    <3> QED BY <2>1, <3>2
  <2> QED BY <1>1, <2>1
<1>6. TypeInv
  <2>1. /\ queue \in Seq(Entry) /\ Len(queue) <= MaxQueue /\ landed \in Nat /\ nextId \in Positive
        /\ {up, cleaned} \subseteq BOOLEAN /\ faults \in 0..MaxFaults
    <3>1. queue \in Seq(Entry) /\ Len(queue) = 0 /\ landed \in Nat /\ nextId \in Positive
      BY <1>2 DEF None, Positive
    <3>2. 0 <= MaxQueue /\ 0 \in 0..MaxFaults
      BY Consts
    <3> QED BY <1>2, <3>1, <3>2
  <2>2. files \in Seq(LogFile) /\ {file, reg} \subseteq {None} \cup DOMAIN files /\ dirty \subseteq Path
    <3>1. CASE files = <<>> /\ file = None /\ dirty = Path
      BY <1>2, <3>1
    <3>2. CASE files \in Seq(LogFile) /\ DOMAIN files = {1} /\ file = 1 /\ dirty \in {Path, {}}
      BY <1>2, <3>2
    <3> QED BY <1>5, <3>1, <3>2
  <2>3. call \in [Caller -> CallType] /\ \A c \in Caller : HandlerOK(call[c], DOMAIN files)
    BY <1>2, <1>4, IdleOK DEF HandlerOK
  <2> QED BY <1>3, <2>1, <2>2, <2>3 DEF TypeInv
<1>7. HistInv
  BY <1>2, <1>3 DEF HistInv
<1>8. RecsInv
  <2>1. \A n \in DOMAIN files : RecsGood(hist, nextId, files[n].recs) /\ Capped(files[n].recs)
    <3>1. CASE files = <<>>
      BY <3>1
    <3>2. ASSUME NEW r \in {EmptyMap, Put(EmptyMap, p, 3)}, DOMAIN files = {1}, files[1].recs = r
          PROVE  \A n \in DOMAIN files : RecsGood(hist, nextId, files[n].recs) /\ Capped(files[n].recs)
      <4>1. RecsGood(hist, nextId, r) /\ Capped(r)
        <5>1. r \in {EmptyMap, Put(EmptyMap, p, 3)} /\ p \in Path
          BY <1>1, <3>2
        <5>2. Capped(r) /\ (r = EmptyMap \/ (DOMAIN r = {p} /\ r[p] = 3))
          BY <5>1, OldLog
        <5>3. RecsGood(hist, nextId, r)
          <6>1. CASE r = EmptyMap
            BY <6>1, EmptyGood
          <6>2. CASE DOMAIN r = {p} /\ r[p] = 3
            BY <1>2, <1>3, <6>2 DEF RecsGood
          <6> QED BY <5>2, <6>1, <6>2
        <5> QED BY <5>2, <5>3
      <4> QED BY <3>2, <4>1
    <3> QED BY <1>5, <3>1, <3>2
  <2>2. \A c \in Caller : RecsGood(hist, nextId, call[c].recs)
    BY <1>4, EmptyGood
  <2> QED BY <2>1, <2>2 DEF RecsInv
<1>9. HandleInv
  BY <1>2, <1>4 DEF HandleInv, Building
<1>10. AgreeInv
  <2>1. \A r \in Path : DeadIn(hist, r) => r \notin DOMAIN Top(hist)
    BY <1>3
  <2>2. LogOK(hist, Pending(queue, landed), files, Cur, dirty)
    <3>1. Cur = file
      BY <1>2 DEF Cur
    <3>2. CASE dirty = Path
      BY <3>2, LogAll
    <3>3. CASE dirty # Path
      <4>1. file = 1 /\ file # None /\ DOMAIN files[1].recs = {p}
        <5>1. PICK r \in {EmptyMap, Put(EmptyMap, p, 3)} :
                files[1].recs = r /\ file = 1 /\ dirty = IF r = EmptyMap THEN Path ELSE {}
          BY <1>5, <3>3
        <5>2. DOMAIN r = {p}
          BY <1>1, <3>3, <5>1, OldLog
        <5> QED BY <5>1, <5>2 DEF None
      <4> QED BY <1>3, <3>1, <4>1 DEF LogOK, Agrees
    <3> QED BY <3>2, <3>3
  <2>3. \A c \in Caller : RebuildOK(hist, Pending(queue, landed), files, call[c])
    BY <1>4, OtherCall DEF Building
  <2> QED BY <2>1, <2>2, <2>3 DEF AgreeInv
<1> QED BY <1>6, <1>7, <1>8, <1>9, <1>10 DEF Inv

----------------------------------------------------------------------------
(* What the invariant gives *)

LEMMA InvTypes == Inv => TypeOK
<1> SUFFICES ASSUME Inv PROVE TypeOK
  OBVIOUS
<1>1. TypeInv /\ HistInv /\ RecsInv
  BY DEF Inv
<1>2. \A r \in Recs : IsRecs(r)
  <2>1. \A r \in Recs : DOMAIN r \subseteq Path /\ \A p \in DOMAIN r : r[p] \in Positive
    BY MapParts DEF Recs
  <2> QED BY <2>1 DEF IsRecs, Positive
<1>3. hist \in Seq([meta : Meta, hash : Nat \ {0}, tree : Tree])
  BY <1>1 DEF TypeInv, Commit, Positive
<1>4. queue \in Seq([meta : Meta, content : Content]) /\ Len(queue) <= MaxQueue
  BY <1>1 DEF TypeInv, Entry
<1>5. landed \in Hashes \cup {None} /\ (landed # None => queue # <<>>)
  <2>1. landed # None => queue # <<>> /\ \E i \in DOMAIN hist : hist[i].hash = landed
    BY <1>1, LandedIs
  <2> QED BY <2>1 DEF Hashes
<1>6. /\ DOMAIN files = 1..Len(files)
      /\ \A n \in DOMAIN files :
           /\ IsRecs(files[n].recs) /\ {files[n].marked, files[n].ok} \subseteq BOOLEAN
           /\ MaxEntries = 0 \/ Cardinality(DOMAIN files[n].recs) <= MaxEntries
  <2>1. DOMAIN files = 1..Len(files) /\ \A n \in DOMAIN files : files[n] \in LogFile
    BY <1>1, FilesParts
  <2>2. \A n \in DOMAIN files : Capped(files[n].recs)
    BY <1>1 DEF RecsInv
  <2> QED BY <1>2, <2>1, <2>2 DEF LogFile, Capped
<1>7. ASSUME NEW c \in Caller
      PROVE  /\ call[c].pc \in {"idle", "walk", "remove", "create", "replace", "register",
                                "write", "drop"}
             /\ call[c].path \in Path \cup {None} /\ call[c].content \in Content \cup {None}
             /\ IsRecs(call[c].recs) /\ call[c].raced \subseteq Path
             /\ call[c].st \in {None} \cup DOMAIN files
  <2>1. call[c] \in CallType /\ call[c].st \in {None} \cup DOMAIN files
    BY <1>1, CallParts
  <2> QED BY <1>2, <2>1 DEF CallType, Building
<1>8. /\ {file, reg} \subseteq {None} \cup DOMAIN files /\ {up, cleaned} \subseteq BOOLEAN
      /\ nextId \in Nat /\ faults \in 0..MaxFaults /\ dirty \subseteq Path
  BY <1>1 DEF TypeInv, Positive
<1> QED BY <1>3, <1>4, <1>5, <1>6, <1>7, <1>8 DEF TypeOK

LEMMA CurIs == ASSUME TypeInv, Cur # None PROVE Cur \in DOMAIN files
BY DEF TypeInv, Cur

LEMMA InvResolves == Inv => RecordsResolve
<1> SUFFICES ASSUME Inv, Cur # None, NEW p \in DOMAIN files[Cur].recs, files[Cur].recs[p] \in Hashes
             PROVE  p \in removed(IndexOf(files[Cur].recs[p]))
  BY DEF RecordsResolve
<1>1. TypeInv /\ RecsGood(hist, nextId, files[Cur].recs)
  BY CurIs DEF Inv, RecsInv
<1> DEFINE k == files[Cur].recs[p]
<1>2. IndexOf(k) \in DOMAIN hist /\ hist[IndexOf(k)].hash = k
  BY DEF Hashes, IndexOf
<1>3. p \in Rems(hist, IndexOf(k))
  BY <1>1, <1>2 DEF RecsGood
<1> QED BY <1>1, <1>2, <1>3, Operators

LEMMA InvAgrees == Inv => LogAgreesWithWalk
<1> SUFFICES ASSUME Inv, up, landed = None, Cur # None, NEW p \in Path \ dirty,
                    \E i \in Window : p \in Decides(i), ~MovedOver(p)
             PROVE  p \in DOMAIN files[Cur].recs <=> p \in DOMAIN walkDeletedNetState
  BY DEF LogAgreesWithWalk
<1>1. TypeInv /\ hist \in Seq(Commit) /\ DOMAIN hist = 1..Len(hist) /\ Len(hist) \in Nat
  BY HistParts DEF Inv, TypeInv
<1>2. /\ \A i : i \in Window <=> i \in DOMAIN hist /\ i > Len(hist) - RepairDepth
      /\ \A i \in Window : i \in DOMAIN hist /\ Decides(i) = Decs(hist, i) /\ added(i) = Adds(hist, i)
  BY <1>1, Operators DEF Window
<1>3. DecidedIn(hist, p)
  BY <1>2 DEF DecidedIn
<1>4. ~OverIn(hist, p)
  <2>1. SUFFICES ASSUME OverIn(hist, p) PROVE MovedOver(p)
    OBVIOUS
  <2>2. PICK i \in DOMAIN hist :
          /\ i > Len(hist) - RepairDepth /\ hist[i].meta.op = "move" /\ hist[i].meta.from = p
          /\ hist[i].meta.path \notin Adds(hist, i)
          /\ \A j \in DOMAIN hist : j > i => p \notin Decs(hist, j)
    BY <2>1 DEF OverIn
  <2>3. i \in Window /\ hist[i].meta.path \notin added(i)
    BY <1>2, <2>2
  <2>4. \A j \in Window : j > i => p \notin Decides(j)
    BY <1>2, <2>2
  <2> QED BY <2>2, <2>3, <2>4 DEF MovedOver
<1>5. Agrees(hist, {}, files[Cur].recs, dirty)
  <2>1. Pending(queue, landed) = {}
    BY DEF Pending
  <2> QED BY <2>1 DEF Inv, AgreeInv, LogOK
<1>6. p \in DOMAIN files[Cur].recs <=> DeadIn(hist, p)
  BY <1>3, <1>4, <1>5 DEF Agrees
<1>7. p \in DOMAIN walkDeletedNetState <=> DeadIn(hist, p)
  BY <1>1, <1>3, WalkIs
<1> QED BY <1>6, <1>7

LEMMA InvStep == Inv /\ [Next]_vars => Inv'
<1> SUFFICES ASSUME Inv, [Next]_vars PROVE Inv'
  OBVIOUS
<1>1. TypeInv' /\ HistInv' /\ RecsInv'
  BY TypeStep, HistStep, RecsStep DEF Inv
<1>2. HandleInv'
  BY <1>1, HandleStep DEF Inv
<1>3. AgreeInv'
  BY <1>1, AgreeStep
<1> QED BY <1>1, <1>2, <1>3 DEF Inv

LEMMA InvHolds == Spec => []Inv
BY InitInv, InvStep, PTL DEF Spec

\* The log never exceeds its cap, and every record in it can be revived: the commit
\* it names removed the path (deletedLogApply, walkDeletedNetState, revive_file).
THEOREM LogSoundHolds == Spec => []LogSound
<1>1. Inv => LogSound
  BY InvTypes, InvResolves DEF LogSound
<1> QED BY <1>1, InvHolds, PTL

\* The log that the hooks keep and the log that the walk would build name the same
\* deleted paths (rebuildDeletedLog).
THEOREM LogAgreesHolds == Spec => []LogAgreesWithWalk
BY InvHolds, InvAgrees, PTL
=============================================================================
