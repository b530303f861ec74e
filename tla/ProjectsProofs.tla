--------------------------- MODULE ProjectsProofs ---------------------------
(***************************************************************************)
(* Proofs about Projects, for every set of namespaces, projects, requests  *)
(* and writers, and every number of crashes: an acknowledged write is in   *)
(* the project it was made for, a grant follows its project, and the       *)
(* directories, databases and registry describe the same projects.         *)
(*                                                                         *)
(* Whoever holds moveMu has its fence up.  Two requests at work on one     *)
(* name, and a crash of an operation that the journal does not have, set   *)
(* the ghost raced.  Hence a lease keeps its directory in place; a scope   *)
(* reaches on disk what it first held, once the rename under way is        *)
(* applied to its grants, and all of that but for what a deletion took     *)
(* away; and the registry is the disk with the operation in the journal    *)
(* undone, or not: recovery completes exactly that operation.              *)
(***************************************************************************)
EXTENDS Projects, TLAPS

----------------------------------------------------------------------------
(* The inductive invariants *)

HeldPC == {"mark", "rename", "siblings", "registry", "users", "tokens", "clear"}
Store == {"users", "tokens"}

\* The names a request may have, and its stages.
Names(q) ==
  \/ q.op = "move_project" /\ q.old[2] = q.new[2] /\ q.old[1] # q.new[1]
  \/ q.op = "rename_project" /\ q.old[1] = q.new[1] /\ q.old[2] # q.new[2]
  \/ /\ q.op = "rename_namespace"
     /\ q.old[1] # q.new[1] /\ q.old[2] = q.new[2] /\ Default \notin {q.old[1], q.new[1]}
Shape(q) ==
  \/ /\ q.op \in Special /\ Names(q) /\ q.pc \in HeldPC \cup {"lock"}
     /\ q.op = "rename_namespace" => q.pc # "siblings"
  \/ /\ q.op \in {"delete_project", "delete_namespace"} /\ q.old = q.new
     /\ q.pc \in {"purge_users", "purge_tokens", "remove", "deregister"}
     /\ q.op = "delete_namespace" => q.old[1] # Default
  \/ q.op = "create_project" /\ q.old = q.new /\ q.pc \in {"init", "catalog", "register"}
Op == Special \cup {"delete_project", "delete_namespace", "create_project"}
PC == HeldPC \cup {"lock", "purge_users", "purge_tokens", "remove", "deregister", "init",
                   "catalog", "register"}
RqType == {Idle} \cup {q \in [pc : PC, op : Op, old : Key, new : Key] : Shape(q)}
WrType ==
  [pc : {"idle", "failed"}, key : Key \cup {None}, id : Nat \cup {None}, late : BOOLEAN]
  \cup [pc : {"checked", "leased", "acked"}, key : Key, id : Nat, late : BOOLEAN]
LocType == ({"left"} \X Key) \cup ({"project"} \X Nat) \cup ({"none", "deleted", "lostfound"} \X {None})

\* Identities of projects and namespaces.
Ids == Nat
IsMap(f, K, V) == f \in [DOMAIN f -> V] /\ DOMAIN f \subseteq K

TypeInv ==
  /\ IsMap(dirs, Key, Ids) /\ IsMap(nsdirs, Ns, Ids) /\ IsMap(sibs, Key, Ids)
  /\ IsMap(reg, Ns, SUBSET Proj)
  /\ left \subseteq Key \ DOMAIN dirs /\ \A k \in DOMAIN dirs : k[1] \in DOMAIN nsdirs
  /\ journal \in {j \in Entry : Names(j)} \cup {None} /\ scopes \in [Store -> SUBSET Token]
  /\ rq \in [Req -> RqType] /\ wr \in [Writer -> WrType] /\ loc \in [Writer -> LocType]
  /\ quar \subseteq Key /\ {up, raced, unfinished} \subseteq BOOLEAN
  /\ nextId \in Nat /\ ops \in 0..MaxOps /\ faults \in 0..MaxFaults
  /\ revoked \subseteq Store \X Ids

FenceInv ==
  /\ mu \in Req \cup {None}
  /\ \A r \in Req : rq[r].pc \in HeldPC => mu = r
  /\ mu # None => rq[mu].pc \in HeldPC
  /\ moving \subseteq (IF mu = None THEN {} ELSE {rq[mu].old, rq[mu].new})
  /\ movingNs \subseteq (IF mu = None THEN {} ELSE {rq[mu].old[1]})
  /\ ~up => quar = {} /\ \A r \in Req : rq[r] = Idle

ClashInv ==
  ~raced => /\ \A r, u \in Req : r # u => ~Clash(rq[r], rq[u])
            /\ \A r \in Req : Touches(rq[r]) \cap quar = {}
            /\ quar \cap DOMAIN dirs = {}

\* The directories that request q is going to take away.
Takes(q) ==
  CASE q.op \in {"move_project", "rename_project"} /\ q.pc \in {"mark", "rename"} -> {q.old}
    [] q.op = "rename_namespace" /\ q.pc \in {"mark", "rename"} -> {k \in Key : k[1] = q.old[1]}
    [] q.op = "delete_project" /\ q.pc \in {"purge_users", "purge_tokens", "remove"} -> {q.old}
    [] q.op = "delete_namespace" /\ q.pc \in {"purge_users", "purge_tokens", "remove"} ->
         {k \in Key : k[1] = q.old[1]}
    [] OTHER -> {}
WriterInv ==
  \A w \in Writer : ~wr[w].late /\ ~raced =>
    /\ wr[w].pc = "leased" => /\ wr[w].key \in DOMAIN dirs /\ dirs[wr[w].key] = wr[w].id
                              /\ \A r \in Req : wr[w].key \notin Takes(rq[r])
    /\ wr[w].pc = "acked" => loc[w] \in {<<"project", wr[w].id>>, <<"deleted", None>>}

\* What a token grants: at which level, and which namespace or project.
Live(t) == LET g == parseGrant(t) IN g.zone = "" /\ g.level > LevelNone
Wild(t) == parseGrant(t).wildcard
NameOf(t) == <<parseGrant(t).ns, parseGrant(t).proj>>

\* The operation that holds moveMu has moved the directory, and has yet to rewrite scope s.
Moves(s) == mu # None /\ ( \/ rq[mu].pc \in {"siblings", "registry", "users"}
                           \/ rq[mu].pc = "tokens" /\ s = "tokens" )
\* What request q makes of the name y.
Turned(q, y) ==
  IF q.op = "rename_namespace" THEN IF y[1] = q.old[1] THEN <<q.new[1], y[2]>> ELSE y
  ELSE IF y = q.old THEN q.new ELSE y
Seen(s, t) == IF Moves(s) THEN Turned(rq[mu], NameOf(t)) ELSE NameOf(t)
\* The names that scope s gives access to, as they are on disk, with the level.
Reach(s) == {<<Seen(s, t), parseGrant(t).level>> : t \in {u \in scopes[s] : Live(u) /\ ~Wild(u)}}

\* Something that the scope was entitled to at first has the name x[1].
Held(s, d, nd, x) ==
  \/ x[1][1] = NoName
  \/ x[1][2] = NoName /\ x[1][1] \in DOMAIN nd /\ Entitled(s, nd[x[1][1]], x[2])
  \/ x[1] \in DOMAIN d /\ Entitled(s, d[x[1]], x[2])
\* Request q, if it will rename a namespace or has purged the scope, leaves x alone.
Spares(q, s, x) ==
  /\ q.op = "rename_namespace" /\ q.pc \in {"lock", "mark", "rename"} =>
       ~(x[1][2] = NoName /\ x[1][1] = q.new[1])
  /\ (q.pc = "remove" \/ (q.pc = "purge_tokens" /\ s = "users")) =>
       /\ q.op = "delete_project" => x[1] # q.old
       /\ q.op = "delete_namespace" => x[1][1] # q.old[1]
SuperInv == \A s \in Store : scopes[s] # {} /\ ~IsSuperUser(scopes[s])
GrantInv ==
  ~raced /\ ~unfinished => \A s \in Store :
    /\ \A t \in scopes[s] : Live(t) /\ Wild(t) =>
         \E u \in FirstScope(s) : Live(u) /\ Wild(u) /\ parseGrant(u).level = parseGrant(t).level
    /\ \A x \in Reach(s) : Held(s, dirs, nsdirs, x) /\ \A r \in Req : Spares(rq[r], s, x)

\* The first scope names project or namespace i at level l.
Named(s, i, l) ==
  \E u \in FirstScope(s) :
    /\ Live(u) /\ ~Wild(u) /\ parseGrant(u).level = l
    /\ \/ i = 1 /\ NameOf(u) = <<FirstNs, FirstProj>>
       \/ \E n \in {Default, FirstNs} : NameOf(u) = <<n, NoName>> /\ i = FirstId(n)
\* What the first scope named, and no deletion took away, the scope reaches by its name.
KeptOK(s) ==
  /\ \A u \in FirstScope(s) : Live(u) /\ Wild(u) =>
       \E t \in scopes[s] : Live(t) /\ Wild(t) /\ parseGrant(t).level = parseGrant(u).level
  /\ \A l \in Levels, k \in DOMAIN dirs :
       Named(s, dirs[k], l) /\ <<s, dirs[k]>> \notin revoked => <<k, l>> \in Reach(s)
  /\ \A l \in Levels, n \in DOMAIN nsdirs :
       Named(s, nsdirs[n], l) /\ <<s, nsdirs[n]>> \notin revoked => <<<<n, NoName>>, l>> \in Reach(s)
KeptInv == /\ nextId >= 4
           /\ ~raced /\ ~unfinished => \A s \in Store : KeptOK(s)

\* The names that operation a exchanges.
SwapKey(a, k) ==
  IF a = None THEN k
  ELSE IF a.op = "rename_namespace"
  THEN IF k[1] = a.old[1] THEN <<a.new[1], k[2]>> ELSE IF k[1] = a.new[1] THEN <<a.old[1], k[2]>> ELSE k
  ELSE IF k = a.old THEN a.new ELSE IF k = a.new THEN a.old ELSE k
SwapNs(a, n) ==
  IF a = None THEN n
  ELSE IF a.op # "rename_namespace" THEN n
  ELSE IF n = a.old[1] THEN a.new[1] ELSE IF n = a.new[1] THEN a.old[1] ELSE n
\* What requests are creating or have removed, and not (de)registered yet.
Creating == {k \in Key : \E r \in Req :
               rq[r].op = "create_project" /\ rq[r].pc \in {"catalog", "register"} /\ rq[r].old = k}
DeletingNs == {n \in Ns : \E r \in Req :
                 rq[r].op = "delete_namespace" /\ rq[r].pc = "deregister" /\ rq[r].old[1] = n}
Deleting == {k \in Key : k[1] \in DeletingNs \/ \E r \in Req :
               rq[r].op = "delete_project" /\ rq[r].pc = "deregister" /\ rq[r].old = k}

\* The registry is that of the disk with a undone.
KeySound(a, k) ==
  /\ HasProject(k) => SwapKey(a, k) \in DOMAIN dirs \/ k \in Deleting
  /\ SwapKey(a, k) \in DOMAIN dirs => HasProject(k) \/ k \in Creating
NsSound(a, n) ==
  /\ n \in DOMAIN reg => SwapNs(a, n) \in DOMAIN nsdirs \/ n \in DeletingNs
  /\ SwapNs(a, n) \in DOMAIN nsdirs => n \in DOMAIN reg \/ \E k \in Creating : k[1] = n
\* The registry matches the disk with a undone, the databases lie where b left them, and the
\* operation they wait for has moved the directory.
RegSound(a) == (\A k \in Key : KeySound(a, k)) /\ (\A n \in Ns : NsSound(a, n))
SibSound(b) ==
  \A k \in DOMAIN sibs : SwapKey(b, k) \in DOMAIN dirs /\ sibs[k] = dirs[SwapKey(b, k)]
Pivoted(a) ==
  IF a.op = "rename_namespace" THEN a.new[1] \in DOMAIN nsdirs /\ a.old[1] \notin DOMAIN nsdirs
  ELSE a.new \in DOMAIN dirs /\ a.old \notin DOMAIN dirs
Sound(a, b) ==
  /\ RegSound(a) /\ SibSound(b)
  /\ a # None => Pivoted(a)
  /\ b # None => b = a /\ b.op # "rename_namespace"

\* The operation that the registry, or the databases, are still to follow.
RegBehind ==
  IF mu # None THEN IF rq[mu].pc \in {"siblings", "registry"} THEN EntryOf(rq[mu]) ELSE None ELSE None
SibBehind == IF mu # None THEN IF rq[mu].pc = "siblings" THEN EntryOf(rq[mu]) ELSE None ELSE None

\* What a request relies on since its check, or since its last change.
Fresh(q) ==
  /\ q.op = "rename_namespace" /\ q.pc \in {"lock", "mark", "rename"} => q.new[1] \notin DOMAIN nsdirs
  /\ q.op = "create_project" /\ q.pc \in {"catalog", "register"} => q.old \in DOMAIN dirs
  /\ q.op = "delete_project" /\ q.pc = "deregister" => q.old \notin DOMAIN dirs
  /\ q.op = "delete_namespace" /\ q.pc = "deregister" => q.old[1] \notin DOMAIN nsdirs
FreshInv == ~raced /\ ~Leftover => \A r \in Req : Fresh(rq[r])
LateInv == \A w \in Writer : wr[w].pc \in {"idle", "checked"} => ~wr[w].late
SoundInv ==
  ~raced /\ ~Leftover =>
    /\ left = {} /\ quar = {}
    /\ Default \in DOMAIN reg /\ Default \in DOMAIN nsdirs
    /\ \E a, b : Sound(a, b) /\ (IF up THEN a = RegBehind /\ b = SibBehind
                                  ELSE a \in {None, journal} /\ b \in {None, journal})
----------------------------------------------------------------------------
(* Maps *)

LEMMA PutMap ==
  ASSUME NEW f, NEW K, NEW V, IsMap(f, K, V), NEW k \in K, NEW v \in V
  PROVE  IsMap(Put(f, k, v), K, V)
BY DEF IsMap, Put

LEMMA PutDom ==
  ASSUME NEW f, NEW k, NEW v
  PROVE  DOMAIN Put(f, k, v) = DOMAIN f \cup {k}
BY DEF Put

LEMMA PutVal ==
  ASSUME NEW f, NEW k, NEW v
  PROVE  Put(f, k, v)[k] = v /\ \A j \in DOMAIN f \ {k} : Put(f, k, v)[j] = f[j]
BY DEF Put

LEMMA DropMap ==
  ASSUME NEW f, NEW K, NEW V, IsMap(f, K, V), NEW S
  PROVE  IsMap(Drop(f, S), K, V)
BY DEF IsMap, Drop

LEMMA DropDom ==
  ASSUME NEW f, NEW S
  PROVE  DOMAIN Drop(f, S) = DOMAIN f \ S
BY DEF Drop

LEMMA DropVal ==
  ASSUME NEW f, NEW S
  PROVE  \A j \in DOMAIN f \ S : Drop(f, S)[j] = f[j]
BY DEF Drop

LEMMA DropNone ==
  ASSUME NEW f, NEW K, NEW V, IsMap(f, K, V), NEW S, S \cap DOMAIN f = {}
  PROVE  Drop(f, S) = f
BY DEF IsMap, Drop

LEMMA RekeyMap ==
  ASSUME NEW f, NEW K, NEW V, IsMap(f, K, V), NEW a \in K, NEW b \in K, a # b
  PROVE  /\ IsMap(Rekey(f, a, b), K, V)
         /\ a \in DOMAIN f => DOMAIN Rekey(f, a, b) = (DOMAIN f \ {a}) \cup {b}
<1>1. CASE a \notin DOMAIN f
  BY <1>1 DEF Rekey
<1>2. CASE a \in DOMAIN f
  <2>1. f[a] \in V
    BY <1>2 DEF IsMap
  <2> DEFINE g == Drop(f, {a})
  <2>2. IsMap(g, K, V) /\ DOMAIN g = DOMAIN f \ {a}
    BY DropMap, DropDom
  <2>3. Rekey(f, a, b) = Put(g, b, f[a])
    BY <1>2 DEF Rekey
  <2> HIDE DEF g
  <2>4. IsMap(Put(g, b, f[a]), K, V) /\ DOMAIN Put(g, b, f[a]) = DOMAIN g \cup {b}
    BY <2>1, <2>2, PutMap, PutDom
  <2> QED BY <1>2, <2>2, <2>3, <2>4
<1> QED BY <1>1, <1>2

LEMMA RekeyDom ==
  ASSUME NEW f, NEW a, NEW b, a \in DOMAIN f, a # b
  PROVE  DOMAIN Rekey(f, a, b) = (DOMAIN f \ {a}) \cup {b}
BY DEF Rekey, Put, Drop

LEMMA RekeyVal ==
  ASSUME NEW f, NEW a \in DOMAIN f, NEW b, a # b
  PROVE  Rekey(f, a, b)[b] = f[a] /\ \A j \in DOMAIN f \ {a, b} : Rekey(f, a, b)[j] = f[j]
BY DEF Rekey, Put, Drop

LEMMA RekeyNone ==
  ASSUME NEW f, NEW a, NEW b, a \notin DOMAIN f
  PROVE  Rekey(f, a, b) = f
BY DEF Rekey

\* Renaming a namespace takes its keys along, if there is none at the new name.
LEMMA RehomeMap ==
  ASSUME NEW f, NEW V, IsMap(f, Key, V), NEW n \in Ns, NEW m \in Ns, n # m, Under(f, m) = {}
  PROVE  /\ IsMap(Rehome(f, n, m), Key, V)
         /\ \A k \in Key : k \in DOMAIN Rehome(f, n, m) <=>
              \/ k[1] \notin {n, m} /\ k \in DOMAIN f
              \/ k[1] = m /\ <<n, k[2]>> \in DOMAIN f
         /\ \A k \in DOMAIN Rehome(f, n, m) :
              Rehome(f, n, m)[k] = f[IF k[1] = m THEN <<n, k[2]>> ELSE k]
<1> DEFINE name(k) == IF k[1] = n THEN <<m, k[2]>> ELSE k
           D == {name(j) : j \in DOMAIN f}
           back(k) == IF k[1] = m THEN <<n, k[2]>> ELSE k
           G == Rehome(f, n, m)
<1>1. \A k \in DOMAIN f : k \in Key /\ k[1] # m /\ k = <<k[1], k[2]>> /\ k[1] \in Ns /\ k[2] \in Proj
  BY DEF IsMap, Under, Key
<1>2. \A k \in Key : k = <<k[1], k[2]>> /\ k[1] \in Ns /\ k[2] \in Proj
  BY DEF Key
<1>3. \A j \in DOMAIN f : name(j) \in Key /\ back(name(j)) = j
  BY <1>1 DEF Key
<1>4. D \subseteq Key
  BY <1>3
<1>5. \A k \in D : back(k) \in DOMAIN f /\ name(back(k)) = k
  BY <1>3
<1>6. \A k \in D : (CHOOSE j \in DOMAIN f : name(j) = k) = back(k)
  <2> SUFFICES ASSUME NEW k \in D PROVE (CHOOSE j \in DOMAIN f : name(j) = k) = back(k)
    OBVIOUS
  <2> HIDE DEF D, name, back
  <2>1. \A j \in DOMAIN f : name(j) = k => j = back(k)
    BY <1>3
  <2>2. back(k) \in DOMAIN f /\ name(back(k)) = k
    BY <1>5
  <2> QED BY <2>1, <2>2
<1>7. G = [k \in D |-> f[CHOOSE j \in DOMAIN f : name(j) = k]]
  BY DEF Rehome
<1> HIDE DEF name, D, G
<1>8. DOMAIN G = D /\ \A k \in D : G[k] = f[back(k)]
  BY <1>6, <1>7
<1>9. IsMap(G, Key, V)
  <2>1. \A k \in D : G[k] \in V
    BY <1>5, <1>8 DEF IsMap
  <2>2. G = [k \in DOMAIN G |-> G[k]]
    BY <1>7, <1>8
  <2> QED BY <1>4, <1>8, <2>1, <2>2 DEF IsMap
<1>10. \A k \in Key : k \in D <=> (k[1] \notin {n, m} /\ k \in DOMAIN f) \/ (k[1] = m /\ <<n, k[2]>> \in DOMAIN f)
  <2>1. ASSUME NEW k \in D PROVE (k[1] \notin {n, m} /\ k \in DOMAIN f) \/ (k[1] = m /\ <<n, k[2]>> \in DOMAIN f)
    <3>1. k \in Key /\ back(k) \in DOMAIN f /\ name(back(k)) = k
      BY <1>4, <1>5
    <3> QED BY <1>1, <1>2, <3>1 DEF name
  <2>2. ASSUME NEW k \in Key, k[1] \notin {n, m} /\ k \in DOMAIN f PROVE k \in D
    BY <2>2 DEF D, name
  <2>3. ASSUME NEW k \in Key, k[1] = m /\ <<n, k[2]>> \in DOMAIN f PROVE k \in D
    <3>1. name(<<n, k[2]>>) = k
      BY <1>2, <2>3 DEF name
    <3> QED BY <2>3, <3>1 DEF D
  <2> QED BY <2>1, <2>2, <2>3
<1> QED BY <1>8, <1>9, <1>10 DEF G

LEMMA RehomeDom ==
  ASSUME NEW f, NEW V, IsMap(f, Key, V), NEW n \in Ns, NEW m \in Ns, n # m, Under(f, m) = {}, NEW k \in Key
  PROVE  k \in DOMAIN Rehome(f, n, m) <=>
              \/ k[1] \notin {n, m} /\ k \in DOMAIN f
              \/ k[1] = m /\ <<n, k[2]>> \in DOMAIN f
<1>1. \A j \in Key : j \in DOMAIN Rehome(f, n, m) <=>
              \/ j[1] \notin {n, m} /\ j \in DOMAIN f
              \/ j[1] = m /\ <<n, j[2]>> \in DOMAIN f
  BY RehomeMap
<1> QED BY <1>1

----------------------------------------------------------------------------
(* Requests and scopes *)

LEMMA KeyParts ==
  ASSUME NEW k \in Key
  PROVE  k = <<k[1], k[2]>> /\ k[1] \in Ns /\ k[2] \in Proj
BY DEF Key

LEMMA RqParts ==
  ASSUME TypeInv, NEW r \in Req
  PROVE  /\ rq[r] \in RqType
         /\ rq[r].pc = "idle" <=> rq[r] = Idle
         /\ rq[r].pc # "idle" => /\ rq[r].pc \in PC /\ rq[r].op \in Op
                                 /\ rq[r].old \in Key /\ rq[r].new \in Key /\ Shape(rq[r])
BY DEF TypeInv, RqType, PC, HeldPC, Idle

LEMMA GotoRq ==
  ASSUME TypeInv, NEW r \in Req, rq[r].pc # "idle", NEW p \in PC, Goto(r, p),
         Shape([rq[r] EXCEPT !.pc = p])
  PROVE  /\ rq' \in [Req -> RqType]
         /\ rq'[r].pc = p /\ rq'[r].op = rq[r].op /\ rq'[r].old = rq[r].old /\ rq'[r].new = rq[r].new
         /\ \A u \in Req \ {r} : rq'[u] = rq[u]
<1> DEFINE q == [rq[r] EXCEPT !.pc = p]
<1>1. rq[r] \in [pc : PC, op : Op, old : Key, new : Key]
  BY RqParts DEF RqType, TypeInv
<1>2. q \in [pc : PC, op : Op, old : Key, new : Key]
  BY <1>1
<1>3. q \in RqType
  BY <1>2 DEF RqType
<1>4. rq' = [rq EXCEPT ![r] = q]
  BY DEF Goto
<1>5. q.pc = p /\ q.op = rq[r].op /\ q.old = rq[r].old /\ q.new = rq[r].new
  BY <1>1
<1> HIDE DEF q
<1> QED BY <1>3, <1>4, <1>5 DEF TypeInv

LEMMA EndRq ==
  ASSUME TypeInv, NEW r \in Req, End(r)
  PROVE  /\ rq' \in [Req -> RqType] /\ rq'[r] = Idle
         /\ \A u \in Req \ {r} : rq'[u] = rq[u]
BY DEF TypeInv, End, RqType

\* Grants are pruned and rewritten to grants.
LEMMA PurgedType ==
  ASSUME NEW s, s \subseteq Token, NEW q
  PROVE  Purged(s, q) \subseteq Token
<1>1. NoneToken \in Token
  BY DEF NoneToken, Token, Name, Suffix
<1> QED BY <1>1 DEF Purged, PruneNamespaceGrants, PruneProjectGrants, pruneScope, NoAccessScope

LEMMA RewrittenType ==
  ASSUME NEW s, s \subseteq Token, NEW q, q.new \in Key
  PROVE  Rewritten(s, q) \subseteq Token
<1>1. q.new[1] \in Ns /\ q.new[2] \in Proj
  BY KeyParts
<1>2. \A t \in Token : /\ [t EXCEPT !.form = "namespace", !.ns = q.new[1]] \in Token
                       /\ [t EXCEPT !.form = "namespace", !.ns = q.new[1], !.proj = q.new[2]] \in Token
  BY <1>1 DEF Token, Name
<1>3. \A n, p : OfNamespace(s, n) \subseteq s /\ OfProject(s, n, p) \subseteq s
  BY DEF OfNamespace, OfProject
<1> QED BY <1>2, <1>3 DEF Rewritten, RewriteNamespaceGrants, RewriteProjectGrants

----------------------------------------------------------------------------
(* Types *)

\* The conjuncts of the type invariant that a step leaves alone stay true.
TypeA == /\ IsMap(dirs, Key, Ids) /\ IsMap(nsdirs, Ns, Ids)
         /\ left \subseteq Key \ DOMAIN dirs /\ \A k \in DOMAIN dirs : k[1] \in DOMAIN nsdirs
TypeB == IsMap(sibs, Key, Ids)
TypeC == IsMap(reg, Ns, SUBSET Proj)
TypeD == journal \in {j \in Entry : Names(j)} \cup {None}
TypeE == scopes \in [Store -> SUBSET Token]
TypeF == rq \in [Req -> RqType]
TypeG == wr \in [Writer -> WrType]
TypeH == loc \in [Writer -> LocType]
TypeI == quar \subseteq Key
TypeJ == /\ up \in BOOLEAN /\ raced \in BOOLEAN /\ unfinished \in BOOLEAN
         /\ revoked \subseteq Store \X Ids
TypeK == nextId \in Nat /\ ops \in 0..MaxOps /\ faults \in 0..MaxFaults

LEMMA TypeParts ==
  /\ TypeInv <=> TypeA /\ TypeB /\ TypeC /\ TypeD /\ TypeE /\ TypeF /\ TypeG /\ TypeH /\ TypeI
                 /\ TypeJ /\ TypeK
  /\ TypeInv' <=> (TypeA /\ TypeB /\ TypeC /\ TypeD /\ TypeE /\ TypeF /\ TypeG /\ TypeH /\ TypeI
                  /\ TypeJ /\ TypeK)'
BY DEF TypeInv, TypeA, TypeB, TypeC, TypeD, TypeE, TypeF, TypeG, TypeH, TypeI, TypeJ, TypeK

\* The registry's changes.
LEMMA EnsureDom ==
  ASSUME NEW f, NEW n
  PROVE  DOMAIN EnsureNamespace(f, n) = DOMAIN f \cup {n}
<1>1. CASE n \in DOMAIN f
  BY <1>1 DEF EnsureNamespace
<1>2. CASE n \notin DOMAIN f
  BY <1>2, PutDom DEF EnsureNamespace
<1> QED BY <1>1, <1>2

LEMMA EnsureMap ==
  ASSUME NEW f, IsMap(f, Ns, SUBSET Proj), NEW n \in Ns
  PROVE  /\ IsMap(EnsureNamespace(f, n), Ns, SUBSET Proj)
         /\ \A m \in DOMAIN f : EnsureNamespace(f, n)[m] = f[m]
         /\ n \notin DOMAIN f => EnsureNamespace(f, n)[n] = {}
<1>1. CASE n \in DOMAIN f
  BY <1>1 DEF EnsureNamespace
<1>2. CASE n \notin DOMAIN f
  <2>1. EnsureNamespace(f, n) = Put(f, n, {})
    BY <1>2 DEF EnsureNamespace
  <2>2. IsMap(Put(f, n, {}), Ns, SUBSET Proj)
    BY PutMap
  <2>4. Put(f, n, {})[n] = {} /\ \A m \in DOMAIN f \ {n} : Put(f, n, {})[m] = f[m]
    BY PutVal
  <2> QED BY <1>2, <2>1, <2>2, <2>4
<1> QED BY <1>1, <1>2

LEMMA AddProjectMap ==
  ASSUME NEW f, IsMap(f, Ns, SUBSET Proj), NEW k \in Key
  PROVE  /\ IsMap(AddProject(f, k), Ns, SUBSET Proj)
         /\ DOMAIN AddProject(f, k) = DOMAIN f \cup {k[1]}
         /\ \A n \in DOMAIN f \ {k[1]} : AddProject(f, k)[n] = f[n]
         /\ AddProject(f, k)[k[1]] = (IF k[1] \in DOMAIN f THEN f[k[1]] ELSE {}) \cup {k[2]}
<1>1. k[1] \in Ns /\ k[2] \in Proj
  BY KeyParts
<1> DEFINE e == EnsureNamespace(f, k[1])
<1>2. /\ IsMap(e, Ns, SUBSET Proj) /\ DOMAIN e = DOMAIN f \cup {k[1]}
      /\ \A n \in DOMAIN f : e[n] = f[n]
      /\ e[k[1]] = IF k[1] \in DOMAIN f THEN f[k[1]] ELSE {}
  <2>1. IsMap(e, Ns, SUBSET Proj)
    BY <1>1, EnsureMap
  <2>2. DOMAIN e = DOMAIN f \cup {k[1]}
    BY EnsureDom
  <2>3. \A n \in DOMAIN f : e[n] = f[n]
    BY <1>1, EnsureMap
  <2>4. k[1] \notin DOMAIN f => e[k[1]] = {}
    BY <1>1, EnsureMap
  <2> QED BY <2>1, <2>2, <2>3, <2>4
<1>3. AddProject(f, k) = [e EXCEPT ![k[1]] = @ \cup {k[2]}]
  BY DEF AddProject
<1> HIDE DEF e
<1> QED BY <1>1, <1>2, <1>3 DEF IsMap

LEMMA RemoveProjectMap ==
  ASSUME NEW f, IsMap(f, Ns, SUBSET Proj), NEW k \in Key
  PROVE  /\ IsMap(RemoveProject(f, k), Ns, SUBSET Proj)
         /\ DOMAIN RemoveProject(f, k) = DOMAIN f
         /\ \A n \in DOMAIN f \ {k[1]} : RemoveProject(f, k)[n] = f[n]
         /\ k[1] \in DOMAIN f => RemoveProject(f, k)[k[1]] = f[k[1]] \ {k[2]}
BY KeyParts DEF RemoveProject, IsMap

\* What the registry's transactions make of it, going forward and back.
LEMMA MovedMap ==
  ASSUME TypeC, NEW j, j.op \in Special, j.old \in Key, j.new \in Key,
         j.op = "rename_namespace" => j.old[1] # j.new[1]
  PROVE  IsMap(RegistryMoved(j), Ns, SUBSET Proj)
<1>1. j.old[1] \in Ns /\ j.new[1] \in Ns
  BY KeyParts
<1>2. CASE j.op = "rename_namespace"
  BY <1>1, <1>2, RekeyMap DEF RegistryMoved, nsregRenameNamespace, TypeC
<1>3. CASE j.op # "rename_namespace"
  BY <1>3, AddProjectMap, RemoveProjectMap DEF RegistryMoved, nsregMoveProject, TypeC
<1> QED BY <1>2, <1>3

LEMMA BackMap ==
  ASSUME TypeC, NEW j, j.op \in Special, j.old \in Key, j.new \in Key,
         j.op = "rename_namespace" => j.old[1] # j.new[1]
  PROVE  IsMap(BackReg(j), Ns, SUBSET Proj)
<1>1. j.old[1] \in Ns /\ j.new[1] \in Ns
  BY KeyParts
<1>2. /\ IsMap(AddProject(RemoveProject(reg, j.new), j.old), Ns, SUBSET Proj)
      /\ IsMap(AddProject(reg, j.old), Ns, SUBSET Proj)
  BY AddProjectMap, RemoveProjectMap DEF TypeC
<1>3. j.op = "rename_namespace" => IsMap(Rekey(reg, j.new[1], j.old[1]), Ns, SUBSET Proj)
  BY <1>1, RekeyMap DEF TypeC
<1> QED BY <1>2, <1>3 DEF BackReg, TypeC

LEMMA TypeInit == Init => TypeInv
<1> SUFFICES ASSUME Init PROVE TypeInv
  OBVIOUS
<1>1. <<FirstNs, FirstProj>> \in Key /\ FirstNs \in Ns /\ Default \in Ns /\ FirstProj \in Proj
  BY ProjectsAssumption DEF Key
<1>2. TypeA /\ TypeB
  BY <1>1 DEF Init, TypeA, TypeB, IsMap, Ids
<1>3. TypeC
  BY <1>1 DEF Init, TypeC, IsMap
<1>4. TypeD /\ TypeI /\ TypeJ
  BY DEF Init, TypeD, TypeI, TypeJ
<1>5. TypeE
  BY ProjectsAssumption DEF Init, TypeE, Store
<1>6. TypeF
  BY DEF Init, TypeF, RqType
<1>7. TypeG
  BY DEF Init, TypeG, WrType
<1>8. TypeH
  BY DEF Init, TypeH, LocType
<1>9. TypeK
  BY ProjectsAssumption DEF Init, TypeK
<1> QED BY <1>2, <1>3, <1>4, <1>5, <1>6, <1>7, <1>8, <1>9, TypeParts

\* A step of a request in flight leaves the request well formed.
LEMMA TypeRqStep ==
  ASSUME TypeInv, NEW r \in Req, Lock(r) \/ Mark(r) \/ Rename(r) \/ Siblings(r) \/ Registry(r)
       \/ RewriteScopes(r, "users", "tokens") \/ RewriteScopes(r, "tokens", "clear")
       \/ Clear(r) \/ Purge(r, "users", "purge_tokens") \/ Purge(r, "tokens", "remove")
       \/ Remove(r) \/ Deregister(r) \/ InitProject(r) \/ Catalog(r)
       \/ registerManagedProject(r)
  PROVE  /\ rq' \in [Req -> RqType]
         /\ rq[r] # Idle
         /\ \A u \in Req \ {r} : rq'[u] = rq[u]
         /\ rq'[r] # Idle => /\ rq'[r].op = rq[r].op /\ rq'[r].old = rq[r].old
                             /\ rq'[r].new = rq[r].new /\ rq'[r].pc \in PC
<1>1. rq[r].pc # "idle"
  BY DEF Lock, Mark, Rename, Siblings, Registry, RewriteScopes, Clear, Purge, Remove, Deregister,
         InitProject, Catalog, registerManagedProject, At
<1>2. /\ rq[r].pc \in PC /\ rq[r].op \in Op /\ rq[r].old \in Key /\ rq[r].new \in Key /\ Shape(rq[r])
      /\ rq[r] # Idle
  BY <1>1, RqParts
<1>3. rq[r] \in [pc : PC, op : Op, old : Key, new : Key]
  BY <1>1, <1>2 DEF TypeInv, RqType, Idle
<1> DEFINE Step(p) ==
     \/ rq[r].pc = "lock" /\ p = "mark"
     \/ rq[r].pc = "mark" /\ p = "rename"
     \/ rq[r].pc = "rename" /\ rq[r].op # "rename_namespace" /\ p = "siblings"
     \/ rq[r].pc = "rename" /\ rq[r].op = "rename_namespace" /\ p = "registry"
     \/ rq[r].pc = "siblings" /\ p = "registry"
     \/ rq[r].pc = "registry" /\ p = "users"
     \/ rq[r].pc = "users" /\ p = "tokens"
     \/ rq[r].pc = "tokens" /\ p = "clear"
     \/ rq[r].pc = "purge_users" /\ p = "purge_tokens"
     \/ rq[r].pc = "purge_tokens" /\ p = "remove"
     \/ rq[r].pc = "remove" /\ p = "deregister"
     \/ rq[r].pc = "init" /\ p \in {"catalog", "register"}
     \/ rq[r].pc = "catalog" /\ p = "register"
<1>4. \A p : Step(p) => p \in PC /\ Shape([rq[r] EXCEPT !.pc = p])
  <2> TAKE p
  <2> HAVE Step(p)
  <2>1. p \in PC
    BY DEF PC, HeldPC
  <2> DEFINE q == [rq[r] EXCEPT !.pc = p]
  <2>2. q.pc = p /\ q.op = rq[r].op /\ q.old = rq[r].old /\ q.new = rq[r].new
    BY <1>3
  <2> HIDE DEF q
  <2>3. Names(q) <=> Names(rq[r])
    BY <2>2 DEF Names
  <2>4. Shape(q)
    BY <1>2, <2>2, <2>3 DEF Shape, HeldPC, Special
  <2> QED BY <2>1, <2>4 DEF q
<1>5. (\E p : Step(p) /\ Goto(r, p)) \/ End(r)
  <2>1. CASE Lock(r)
    <3>1. (Step("mark") /\ Goto(r, "mark")) \/ End(r)
      BY <2>1 DEF Lock, At
    <3> QED BY <3>1
  <2>2. CASE Mark(r)
    <3>1. (Step("rename") /\ Goto(r, "rename")) \/ End(r)
      BY <2>2 DEF Mark, At
    <3> QED BY <3>1
  <2>3. CASE Rename(r)
    <3>1. (Step("siblings") /\ Goto(r, "siblings")) \/ (Step("registry") /\ Goto(r, "registry")) \/ End(r)
      BY <2>3 DEF Rename, At
    <3> QED BY <3>1
  <2>4. CASE Siblings(r)
    <3>1. (Step("registry") /\ Goto(r, "registry")) \/ End(r)
      BY <2>4 DEF Siblings, At
    <3> QED BY <3>1
  <2>5. CASE Registry(r)
    <3>1. (Step("users") /\ Goto(r, "users")) \/ End(r)
      BY <2>5 DEF Registry, Fail, At
    <3> QED BY <3>1
  <2>6. CASE RewriteScopes(r, "users", "tokens")
    <3>1. (Step("tokens") /\ Goto(r, "tokens")) \/ End(r)
      BY <2>6 DEF RewriteScopes, Fail, At
    <3> QED BY <3>1
  <2>7. CASE RewriteScopes(r, "tokens", "clear")
    <3>1. (Step("clear") /\ Goto(r, "clear")) \/ End(r)
      BY <2>7 DEF RewriteScopes, Fail, At
    <3> QED BY <3>1
  <2>8. CASE Clear(r)
    BY <2>8 DEF Clear
  <2>9. CASE Purge(r, "users", "purge_tokens")
    <3>1. (Step("purge_tokens") /\ Goto(r, "purge_tokens")) \/ End(r)
      BY <2>9 DEF Purge, At
    <3> QED BY <3>1
  <2>10. CASE Purge(r, "tokens", "remove")
    <3>1. (Step("remove") /\ Goto(r, "remove")) \/ End(r)
      BY <2>10 DEF Purge, At
    <3> QED BY <3>1
  <2>11. CASE Remove(r)
    <3>1. (Step("deregister") /\ Goto(r, "deregister")) \/ End(r)
      BY <2>11 DEF Remove, At
    <3> QED BY <3>1
  <2>12. CASE Deregister(r)
    BY <2>12 DEF Deregister
  <2>13. CASE InitProject(r)
    <3>1. (Step("catalog") /\ Goto(r, "catalog")) \/ (Step("register") /\ Goto(r, "register")) \/ End(r)
      BY <2>13 DEF InitProject, At
    <3> QED BY <3>1
  <2>14. CASE Catalog(r)
    <3>1. (Step("register") /\ Goto(r, "register")) \/ End(r)
      BY <2>14 DEF Catalog, At
    <3> QED BY <3>1
  <2>15. CASE registerManagedProject(r)
    BY <2>15 DEF registerManagedProject
  <2> QED BY <2>1, <2>2, <2>3, <2>4, <2>5, <2>6, <2>7, <2>8, <2>9, <2>10, <2>11, <2>12, <2>13, <2>14, <2>15
<1> HIDE DEF Step
<1>6. ASSUME NEW p, Step(p), Goto(r, p)
      PROVE /\ rq' \in [Req -> RqType] /\ \A u \in Req \ {r} : rq'[u] = rq[u]
            /\ rq'[r].op = rq[r].op /\ rq'[r].old = rq[r].old
            /\ rq'[r].new = rq[r].new /\ rq'[r].pc = p /\ p \in PC
  BY <1>1, <1>4, <1>6, GotoRq
<1>7. CASE End(r)
  BY <1>7, EndRq, <1>2
<1> QED BY <1>2, <1>5, <1>6, <1>7

\* The steps of the requests in flight.
RqNext(r) ==
  \/ Lock(r) \/ Mark(r) \/ Rename(r) \/ Siblings(r) \/ Registry(r)
  \/ RewriteScopes(r, "users", "tokens") \/ RewriteScopes(r, "tokens", "clear")
  \/ Clear(r) \/ Purge(r, "users", "purge_tokens") \/ Purge(r, "tokens", "remove")
  \/ Remove(r) \/ Deregister(r) \/ InitProject(r) \/ Catalog(r) \/ registerManagedProject(r)

LEMMA JournalType ==
  ASSUME NEW j, Journal(j), faults \in 0..MaxFaults
  PROVE  faults' \in 0..MaxFaults
BY ProjectsAssumption DEF Journal

LEMMA TypeRequests ==
  ASSUME TypeInv, NEW r \in Req, RqNext(r)
  PROVE  TypeInv'
<1> USE ProjectsAssumption
<1>f. rq' \in [Req -> RqType] /\ rq[r] # Idle
  BY TypeRqStep DEF RqNext
<1>q. /\ rq[r].pc # "idle" /\ rq[r].pc \in PC /\ rq[r].op \in Op /\ rq[r].old \in Key
      /\ rq[r].new \in Key /\ Shape(rq[r])
  BY <1>f, RqParts
<1>k. rq[r].old[1] \in Ns /\ rq[r].new[1] \in Ns
  BY <1>q, KeyParts
<1>s. rq[r].pc \in HeldPC \cup {"lock"} => rq[r].op \in Special /\ Names(rq[r])
  BY <1>q DEF Shape, HeldPC
<1>t. TypeA /\ TypeB /\ TypeC /\ TypeD /\ TypeE /\ TypeG /\ TypeH /\ TypeI /\ TypeJ /\ TypeK
  BY TypeParts
<1>e. rq[r].pc \in HeldPC \cup {"lock"} => EntryOf(rq[r]) \in {j \in Entry : Names(j)}
  BY <1>q, <1>s DEF EntryOf, Entry, Names
<1>F. TypeF'
  BY <1>f DEF TypeF
<1>1. CASE Lock(r)
  <2>1. (TypeA /\ TypeB /\ TypeC /\ TypeD /\ TypeE /\ TypeG /\ TypeH /\ TypeI /\ TypeJ /\ TypeK)'
    BY <1>t, <1>1 DEF Lock, disk, ghosts, TypeA, TypeB, TypeC, TypeD, TypeE, TypeG, TypeH, TypeI, TypeJ, TypeK
  <2> QED BY <1>F, <2>1, TypeParts
<1>2. CASE Mark(r)
  <2>1. TypeD'
    BY <1>2, <1>e, <1>t DEF Mark, TypeD, At, HeldPC, Journal
  <2>2. (TypeA /\ TypeB /\ TypeC /\ TypeE /\ TypeG /\ TypeH /\ TypeI /\ TypeJ)'
    BY <1>t, <1>2 DEF Mark, disk, ghosts, TypeA, TypeB, TypeC, TypeE, TypeG, TypeH, TypeI, TypeJ
  <2>3. TypeK'
    BY <1>t, <1>2, JournalType DEF Mark, TypeK
  <2> QED BY <1>F, <2>1, <2>2, <2>3, TypeParts
<1>3. CASE Rename(r)
  <2>0. rq[r].pc = "rename" /\ rq[r].op \in Special /\ Names(rq[r])
    BY <1>3, <1>s DEF Rename, At, HeldPC
  <2>1. TypeA' /\ TypeB'
    <3>1. CASE CanRename(rq[r]) /\ rq[r].op # "rename_namespace" /\ dirs' = Rekey(dirs, rq[r].old, rq[r].new)
            /\ left' = (IF rq[r].old \in left THEN (left \ {rq[r].old}) \cup {rq[r].new} ELSE left)
            /\ UNCHANGED <<nsdirs, sibs>>
      <4>1. rq[r].old # rq[r].new
        BY <2>0, <3>1 DEF Names
      <4>2. /\ IsMap(dirs', Key, Ids)
            /\ rq[r].old \notin DOMAIN dirs => dirs' = dirs
            /\ rq[r].old \in DOMAIN dirs => DOMAIN dirs' = (DOMAIN dirs \ {rq[r].old}) \cup {rq[r].new}
        BY <1>t, <1>q, <3>1, <4>1, RekeyMap, RekeyNone DEF TypeA
      <4> QED BY <1>t, <1>q, <3>1, <4>1, <4>2 DEF TypeA, TypeB, CanRename
    <3>2. CASE CanRename(rq[r]) /\ rq[r].op = "rename_namespace"
            /\ dirs' = Rehome(dirs, rq[r].old[1], rq[r].new[1])
            /\ sibs' = Rehome(sibs, rq[r].old[1], rq[r].new[1])
            /\ left' = {IF k[1] = rq[r].old[1] THEN <<rq[r].new[1], k[2]>> ELSE k : k \in left}
            /\ nsdirs' = Rekey(nsdirs, rq[r].old[1], rq[r].new[1])
      <4> DEFINE n == rq[r].old[1]
                 m == rq[r].new[1]
      <4>1. n # m /\ n \in Ns /\ m \in Ns
        BY <2>0, <3>2, <1>k DEF Names
      <4>2. /\ Under(dirs, m) = {} /\ Under(sibs, m) = {} /\ n \in DOMAIN nsdirs
            /\ \A k \in left : k[1] # m
        BY <3>2 DEF CanRename
      <4> HIDE DEF n, m
      <4>3. dirs' = Rehome(dirs, n, m) /\ sibs' = Rehome(sibs, n, m) /\ nsdirs' = Rekey(nsdirs, n, m)
            /\ left' = {IF k[1] = n THEN <<m, k[2]>> ELSE k : k \in left}
        BY <3>2 DEF n, m
      <4>4. IsMap(dirs', Key, Ids) /\ IsMap(sibs', Key, Ids)
            /\ \A k \in Key : k \in DOMAIN dirs' <=>
                 \/ k[1] \notin {n, m} /\ k \in DOMAIN dirs
                 \/ k[1] = m /\ <<n, k[2]>> \in DOMAIN dirs
        BY <1>t, <4>1, <4>2, <4>3, RehomeMap DEF TypeA, TypeB
      <4>5. IsMap(nsdirs', Ns, Ids) /\ DOMAIN nsdirs' = (DOMAIN nsdirs \ {n}) \cup {m}
        <5>1. IsMap(nsdirs, Ns, Ids)
          BY <1>t DEF TypeA
        <5> HIDE DEF Ids
        <5>2. IsMap(Rekey(nsdirs, n, m), Ns, Ids) /\ DOMAIN Rekey(nsdirs, n, m) = (DOMAIN nsdirs \ {n}) \cup {m}
          BY <4>1, <4>2, <5>1, RekeyMap
        <5> QED BY <5>2, <4>3
      <4>6. left' \subseteq Key \ DOMAIN dirs'
        <5> SUFFICES ASSUME NEW k \in left PROVE (IF k[1] = n THEN <<m, k[2]>> ELSE k) \in Key \ DOMAIN dirs'
          BY <4>3
        <5>1. k \in Key /\ k \notin DOMAIN dirs /\ k[1] # m /\ k = <<k[1], k[2]>> /\ k[2] \in Proj
          BY <1>t, <4>2, KeyParts DEF TypeA
        <5>2. CASE k[1] = n
          <6>1. <<m, k[2]>> \in Key
            BY <5>1, <4>1 DEF Key
          <6> QED BY <4>4, <4>1, <5>1, <5>2, <6>1
        <5>3. CASE k[1] # n
          BY <4>4, <5>1, <5>3
        <5> QED BY <5>2, <5>3
      <4>7. \A k \in DOMAIN dirs' : k[1] \in DOMAIN nsdirs'
        <5> SUFFICES ASSUME NEW k \in DOMAIN dirs' PROVE k[1] \in DOMAIN nsdirs'
          OBVIOUS
        <5>1. k \in Key
          BY <4>4 DEF IsMap
        <5> QED BY <1>t, <4>4, <4>5, <5>1 DEF TypeA
      <4> QED BY <4>4, <4>5, <4>6, <4>7 DEF TypeA, TypeB
    <3>3. CASE UNCHANGED disk
      BY <1>t, <3>3 DEF TypeA, TypeB, disk
    <3> QED BY <1>3, <3>1, <3>2, <3>3 DEF Rename
  <2>2. TypeD'
    BY <1>3, <1>e, <1>t, <2>0 DEF Rename, TypeD, HeldPC, Journal
  <2>5. TypeK'
    BY <1>3, <1>t, JournalType DEF Rename, TypeK
  <2>3. TypeH'
    BY <1>3, <1>t, <1>q DEF Rename, TypeH, LocType
  <2>4. (TypeC /\ TypeE /\ TypeG /\ TypeI /\ TypeJ)'
    BY <1>t, <1>3 DEF Rename, ghosts, TypeC, TypeE, TypeG, TypeI, TypeJ
  <2> QED BY <1>F, <2>1, <2>2, <2>3, <2>4, <2>5, TypeParts
<1>4. CASE Siblings(r)
  <2>1. TypeB'
    <3>1. rq[r].old # rq[r].new
      BY <1>4, <1>s DEF Siblings, At, HeldPC, Names
    <3> QED BY <1>4, <1>t, <1>q, <3>1, RekeyMap DEF Siblings, TypeB, relocateSiblingDB
  <2>2. (TypeA /\ TypeC /\ TypeD /\ TypeE /\ TypeG /\ TypeH /\ TypeI /\ TypeJ /\ TypeK)'
    BY <1>t, <1>4 DEF Siblings, ghosts, TypeA, TypeC, TypeD, TypeE, TypeG, TypeH, TypeI, TypeJ, TypeK
  <2> QED BY <1>F, <2>1, <2>2, TypeParts
<1>5. CASE Registry(r)
  <2>1. TypeC'
    <3>1. rq[r].op \in Special /\ (rq[r].op = "rename_namespace" => rq[r].old[1] # rq[r].new[1])
      BY <1>5, <1>s DEF Registry, At, HeldPC, Names
    <3>2. IsMap(RegistryMoved(rq[r]), Ns, SUBSET Proj)
      BY <3>1, <1>q, <1>t, MovedMap
    <3> QED BY <1>5, <1>t, <3>2 DEF Registry, TypeC
  <2>2. (TypeA /\ TypeB /\ TypeD /\ TypeE /\ TypeG /\ TypeH /\ TypeI)'
    BY <1>t, <1>5 DEF Registry, disk, TypeA, TypeB, TypeD, TypeE, TypeG, TypeH, TypeI
  <2>3. TypeJ'
    BY <1>t, <1>5 DEF Registry, Fail, TypeJ
  <2>4. TypeK'
    BY <1>t, <1>5 DEF Registry, TypeK
  <2> QED BY <1>F, <2>1, <2>2, <2>3, <2>4, TypeParts
<1>6. CASE RewriteScopes(r, "users", "tokens") \/ RewriteScopes(r, "tokens", "clear")
  <2>1. TypeE'
    <3>1. ASSUME NEW s \in Store, scopes' = [scopes EXCEPT ![s] = Rewritten(@, rq[r])]
          PROVE scopes' \in [Store -> SUBSET Token]
      <4>1. scopes[s] \subseteq Token
        BY <1>t DEF TypeE
      <4>2. Rewritten(scopes[s], rq[r]) \subseteq Token
        BY <1>q, <4>1, RewrittenType
      <4> QED BY <3>1, <4>2, <1>t DEF TypeE
    <3>2. "users" \in Store /\ "tokens" \in Store
      BY DEF Store
    <3> QED BY <1>6, <1>t, <3>1, <3>2 DEF RewriteScopes, TypeE
  <2>2. TypeK'
    BY <1>6, <1>t DEF RewriteScopes, TypeK
  <2>4. TypeJ'
    BY <1>6, <1>t DEF RewriteScopes, TypeJ, Fail
  <2>3. (TypeA /\ TypeB /\ TypeC /\ TypeD /\ TypeG /\ TypeH /\ TypeI)'
    BY <1>t, <1>6 DEF RewriteScopes, disk, TypeA, TypeB, TypeC, TypeD, TypeG, TypeH, TypeI
  <2> QED BY <1>F, <2>1, <2>2, <2>3, <2>4, TypeParts
<1>7. CASE Clear(r)
  <2>1. (TypeA /\ TypeB /\ TypeC /\ TypeD /\ TypeE /\ TypeG /\ TypeH /\ TypeI /\ TypeJ)'
    BY <1>t, <1>7 DEF Clear, Journal, disk, ghosts, TypeA, TypeB, TypeC, TypeD, TypeE, TypeG, TypeH, TypeI, TypeJ
  <2>2. TypeK'
    BY <1>t, <1>7, JournalType DEF Clear, TypeK
  <2> QED BY <1>F, <2>1, <2>2, TypeParts
<1>8. CASE Purge(r, "users", "purge_tokens") \/ Purge(r, "tokens", "remove")
  <2>1. TypeE'
    <3>1. ASSUME NEW s \in Store, scopes' = [scopes EXCEPT ![s] = Purged(@, rq[r])]
          PROVE scopes' \in [Store -> SUBSET Token]
      <4>1. scopes[s] \subseteq Token
        BY <1>t DEF TypeE
      <4>2. Purged(scopes[s], rq[r]) \subseteq Token
        BY <4>1, PurgedType
      <4> QED BY <3>1, <4>2, <1>t DEF TypeE
    <3>2. "users" \in Store /\ "tokens" \in Store
      BY DEF Store
    <3> QED BY <1>8, <1>t, <3>1, <3>2 DEF Purge, TypeE
  <2>2. TypeK'
    BY <1>8, <1>t DEF Purge, TypeK
  <2>3. (TypeA /\ TypeB /\ TypeC /\ TypeD /\ TypeG /\ TypeH /\ TypeI)'
    BY <1>t, <1>8 DEF Purge, disk, TypeA, TypeB, TypeC, TypeD, TypeG, TypeH, TypeI
  <2>4. TypeJ'
    <3>1. Doomed(rq[r]) \subseteq Ids
      BY <1>t DEF Doomed, TypeA, IsMap, Under
    <3>2. "users" \in Store /\ "tokens" \in Store
      BY DEF Store
    <3>3. UNCHANGED <<up, raced, unfinished>>
      BY <1>8 DEF Purge
    <3>4. revoked' \in {revoked, revoked \cup ({"users"} \X Doomed(rq[r])),
                        revoked \cup ({"tokens"} \X Doomed(rq[r]))}
      BY <1>8 DEF Purge
    <3>5. revoked' \subseteq Store \X Ids
      BY <1>t, <3>1, <3>2, <3>4 DEF TypeJ
    <3> QED BY <1>t, <3>3, <3>5 DEF TypeJ
  <2> QED BY <1>F, <2>1, <2>2, <2>3, <2>4, TypeParts
<1>9. CASE Remove(r)
  <2> DEFINE gone == IF rq[r].op = "delete_namespace" THEN {k \in Key : k[1] = rq[r].old[1]} ELSE {rq[r].old}
  <2>1. /\ dirs' = Drop(dirs, gone) /\ left' = left \ gone
        /\ nsdirs' = (IF rq[r].op = "delete_namespace" THEN Drop(nsdirs, {rq[r].old[1]}) ELSE nsdirs)
        /\ sibs' = Drop(sibs, gone) \/ sibs' = sibs
    BY <1>9 DEF Remove
  <2>2. TypeA'
    <3>1. IsMap(dirs', Key, Ids) /\ DOMAIN dirs' = DOMAIN dirs \ gone
      BY <2>1, <1>t, DropMap, DropDom DEF TypeA
    <3>2. IsMap(nsdirs', Ns, Ids)
      BY <2>1, <1>t, DropMap, DropDom DEF TypeA
    <3>3. \A k \in DOMAIN dirs' : k[1] \in DOMAIN nsdirs'
      <4> TAKE k \in DOMAIN dirs'
      <4>1. k \in DOMAIN dirs /\ k \in Key /\ k \notin gone
        BY <3>1, <1>t DEF TypeA, IsMap
      <4>2. CASE rq[r].op = "delete_namespace"
        <5>1. DOMAIN nsdirs' = DOMAIN nsdirs \ {rq[r].old[1]}
          BY <2>1, <4>2, <1>t, DropMap, DropDom DEF TypeA
        <5> QED BY <4>1, <4>2, <5>1, <1>t DEF TypeA
      <4>3. CASE rq[r].op # "delete_namespace"
        BY <2>1, <4>1, <4>3, <1>t DEF TypeA
      <4> QED BY <4>2, <4>3
    <3> QED BY <2>1, <3>1, <3>2, <3>3, <1>t DEF TypeA
  <2>3. TypeB'
    BY <2>1, <1>t, DropMap, DropDom DEF TypeB
  <2>4. TypeH'
    BY <1>9, <1>t DEF Remove, TypeH, LocType
  <2>5. TypeK'
    BY <1>9, <1>t DEF Remove, TypeK
  <2>7. TypeJ'
    BY <1>9, <1>t DEF Remove, TypeJ
  <2>6. (TypeC /\ TypeD /\ TypeE /\ TypeG /\ TypeI)'
    BY <1>t, <1>9 DEF Remove, TypeC, TypeD, TypeE, TypeG, TypeI
  <2> QED BY <1>F, <2>2, <2>3, <2>4, <2>5, <2>6, <2>7, TypeParts
<1>10. CASE Deregister(r)
  <2>1. TypeC'
    BY <1>10, <1>q, <1>t, DropMap, DropDom, RemoveProjectMap DEF Deregister, TypeC
  <2>2. (TypeA /\ TypeB /\ TypeD /\ TypeE /\ TypeG /\ TypeH /\ TypeI /\ TypeJ /\ TypeK)'
    BY <1>t, <1>10 DEF Deregister, disk, ghosts, TypeA, TypeB, TypeD, TypeE, TypeG, TypeH, TypeI, TypeJ, TypeK
  <2> QED BY <1>F, <2>1, <2>2, TypeParts
<1>11. CASE InitProject(r)
  <2> DEFINE k == rq[r].old
  <2>0. k[1] \in Ns /\ k \in Key /\ nextId \in Nat /\ nextId \in Ids /\ nextId + 1 \in Ids
    BY <1>k, <1>q, <1>t DEF TypeK, Ids
  <2>1. IsMap(nsdirs', Ns, Ids) /\ DOMAIN nsdirs' = DOMAIN nsdirs \cup {k[1]}
    <3>1. nsdirs' = IF k[1] \in DOMAIN nsdirs THEN nsdirs ELSE Put(nsdirs, k[1], nextId)
      BY <1>11 DEF InitProject
    <3>2. IsMap(nsdirs, Ns, Ids)
      BY <1>t DEF TypeA
    <3> QED BY <3>1, <3>2, <2>0, PutMap, PutDom
  <2>2. TypeA'
    <3>1. CASE k \in DOMAIN dirs
      <4>1. UNCHANGED <<dirs, left>>
        BY <1>11, <3>1 DEF InitProject
      <4> QED BY <2>1, <4>1, <1>t DEF TypeA
    <3>2. CASE k \notin DOMAIN dirs
      <4>1. dirs' = Put(dirs, k, nextId + 1) /\ left' = left \ {k}
        BY <1>11, <3>2 DEF InitProject
      <4>2. IsMap(dirs', Key, Ids) /\ DOMAIN dirs' = DOMAIN dirs \cup {k}
        <5>1. nextId + 1 \in Ids /\ IsMap(dirs, Key, Ids)
          BY <2>0, <1>t DEF TypeA
        <5> QED BY <2>0, <4>1, <5>1, PutMap, PutDom
      <4> QED BY <2>1, <4>1, <4>2, <1>t DEF TypeA
    <3> QED BY <3>1, <3>2
  <2>4. TypeH'
    BY <1>11, <1>t DEF InitProject, TypeH, LocType, TypeK
  <2>5. TypeK'
    BY <1>11, <1>t DEF InitProject, TypeK
  <2>6. (TypeB /\ TypeC /\ TypeD /\ TypeE /\ TypeG /\ TypeI /\ TypeJ)'
    BY <1>t, <1>11 DEF InitProject, ghosts, TypeB, TypeC, TypeD, TypeE, TypeG, TypeI, TypeJ
  <2> QED BY <1>F, <2>2, <2>4, <2>5, <2>6, TypeParts
<1>12. CASE Catalog(r)
  <2>1. TypeB'
    <3> DEFINE k == rq[r].old
    <3>1. sibs' = IF k \in DOMAIN sibs \/ k \notin DOMAIN dirs THEN sibs ELSE Put(sibs, k, dirs[k])
      BY <1>12 DEF Catalog
    <3>2. k \in Key /\ (k \in DOMAIN dirs => dirs[k] \in Ids) /\ IsMap(sibs, Key, Ids)
      BY <1>q, <1>t DEF TypeA, TypeB, IsMap
    <3> HIDE DEF k
    <3> QED BY <3>1, <3>2, PutMap, PutDom DEF TypeB
  <2>2. (TypeA /\ TypeC /\ TypeD /\ TypeE /\ TypeG /\ TypeH /\ TypeI /\ TypeJ /\ TypeK)'
    BY <1>t, <1>12 DEF Catalog, ghosts, TypeA, TypeC, TypeD, TypeE, TypeG, TypeH, TypeI, TypeJ, TypeK
  <2> QED BY <1>F, <2>1, <2>2, TypeParts
<1>13. CASE registerManagedProject(r)
  <2>1. TypeC'
    BY <1>13, <1>q, <1>t, AddProjectMap DEF registerManagedProject, TypeC
  <2>2. (TypeA /\ TypeB /\ TypeD /\ TypeE /\ TypeG /\ TypeH /\ TypeI /\ TypeJ /\ TypeK)'
    BY <1>t, <1>13 DEF registerManagedProject, disk, ghosts, TypeA, TypeB, TypeD, TypeE, TypeG, TypeH, TypeI, TypeJ, TypeK
  <2> QED BY <1>F, <2>1, <2>2, TypeParts
<1> QED BY <1>1, <1>2, <1>3, <1>4, <1>5, <1>6, <1>7, <1>8, <1>9, <1>10, <1>11, <1>12, <1>13 DEF RqNext

LEMMA TypeWriters ==
  ASSUME TypeInv, NEW w \in Writer, Check(w) \/ Lease(w) \/ Write(w)
  PROVE  TypeInv'
<1>t. /\ TypeA /\ TypeB /\ TypeC /\ TypeD /\ TypeE /\ TypeF /\ TypeG /\ TypeH /\ TypeI /\ TypeJ
      /\ TypeK
  BY TypeParts
<1>1. CASE Check(w)
  <2>1. TypeG'
    <3>1. PICK k \in Key : /\ checkWritable(k)
                           /\ wr' = [wr EXCEPT ![w] = [pc |-> "checked", key |-> k, id |-> dirs[k],
                                                       late |-> FALSE]]
      BY <1>1 DEF Check
    <3>2. dirs[k] \in Nat
      BY <1>t, <3>1 DEF TypeA, IsMap, checkWritable, Ids
    <3>3. [pc |-> "checked", key |-> k, id |-> dirs[k], late |-> FALSE] \in WrType
      BY <3>2 DEF WrType
    <3> QED BY <3>1, <3>3, <1>t DEF TypeG
  <2>2. (TypeA /\ TypeB /\ TypeC /\ TypeD /\ TypeE /\ TypeF /\ TypeH /\ TypeI /\ TypeJ /\ TypeK)'
    BY <1>t, <1>1 DEF Check, disk, ghosts, TypeA, TypeB, TypeC, TypeD, TypeE, TypeF, TypeH, TypeI, TypeJ, TypeK
  <2> QED BY <2>1, <2>2, TypeParts
<1>2. CASE Lease(w)
  <2>1. TypeG'
    <3>0. wr[w] \in WrType /\ wr[w].pc = "checked"
      BY <1>t, <1>2 DEF TypeG, Lease
    <3>1. wr[w] \in [pc : {"checked", "leased", "acked"}, key : Key, id : Nat, late : BOOLEAN]
      BY <3>0 DEF WrType
    <3> DEFINE l == Late(wr[w].key) \/ dirs[wr[w].key] # wr[w].id
    <3>2. l \in BOOLEAN
      BY DEF Late
    <3> HIDE DEF l
    <3>3. [wr[w] EXCEPT !.pc = "leased", !.late = l] \in WrType
      BY <3>1, <3>2 DEF WrType
    <3>4. wr' = [wr EXCEPT ![w] = [wr[w] EXCEPT !.pc = "leased", !.late = l]]
      BY <1>2, <1>t DEF Lease, l, TypeG
    <3> QED BY <3>3, <3>4, <1>t DEF TypeG
  <2>2. (TypeA /\ TypeB /\ TypeC /\ TypeD /\ TypeE /\ TypeF /\ TypeH /\ TypeI /\ TypeJ /\ TypeK)'
    BY <1>t, <1>2 DEF Lease, disk, ghosts, TypeA, TypeB, TypeC, TypeD, TypeE, TypeF, TypeH, TypeI, TypeJ, TypeK
  <2> QED BY <2>1, <2>2, TypeParts
<1>3. CASE Write(w)
  <2> DEFINE k == wr[w].key
  <2>0. wr[w] \in WrType /\ wr[w].pc = "leased" /\ nextId \in Nat /\ nextId \in Ids
    BY <1>t, <1>3 DEF TypeG, Write, TypeK, Ids
  <2>1. wr[w] \in [pc : {"checked", "leased", "acked"}, key : Key, id : Nat, late : BOOLEAN]
    BY <2>0 DEF WrType
  <2>2. TypeG'
    <3>1. [wr[w] EXCEPT !.pc = "acked"] \in WrType
      BY <2>1 DEF WrType
    <3>2. wr' = [wr EXCEPT ![w] = [wr[w] EXCEPT !.pc = "acked"]]
      BY <1>3 DEF Write
    <3> QED BY <3>1, <3>2, <1>t DEF TypeG
  <2>3. k \in Key /\ k[1] \in Ns
    BY <2>1, KeyParts
  <2>4. CASE k \in DOMAIN dirs
    <3>1. loc' = [loc EXCEPT ![w] = <<"project", dirs[k]>>] /\ UNCHANGED <<left, nsdirs, nextId>>
      BY <1>3, <2>4 DEF Write
    <3>2. dirs[k] \in Nat
      BY <2>4, <1>t DEF TypeA, IsMap, Ids
    <3>3. TypeH'
      BY <3>1, <3>2, <1>t DEF TypeH, LocType
    <3>4. (TypeA /\ TypeB /\ TypeC /\ TypeD /\ TypeE /\ TypeF /\ TypeI /\ TypeJ /\ TypeK)'
      BY <1>t, <1>3, <3>1 DEF Write, ghosts, TypeA, TypeB, TypeC, TypeD, TypeE, TypeF, TypeI, TypeJ, TypeK
    <3> QED BY <2>2, <3>3, <3>4, TypeParts
  <2>5. CASE k \notin DOMAIN dirs
    <3>1. /\ left' = left \cup {k} /\ loc' = [loc EXCEPT ![w] = <<"left", k>>]
          /\ nsdirs' = (IF k[1] \in DOMAIN nsdirs THEN nsdirs ELSE Put(nsdirs, k[1], nextId))
          /\ nextId' = nextId + 1 /\ dirs' = dirs
      BY <1>3, <2>5 DEF Write
    <3>2. TypeH'
      BY <2>3, <3>1, <1>t DEF TypeH, LocType
    <3>3. TypeK'
      BY <1>3, <3>1, <1>t DEF Write, TypeK
    <3> HIDE DEF k
    <3>4. IsMap(nsdirs', Ns, Ids) /\ DOMAIN nsdirs' = DOMAIN nsdirs \cup {k[1]}
      <4>1. IsMap(nsdirs, Ns, Ids)
        BY <1>t DEF TypeA
      <4> QED BY <4>1, <3>1, <2>3, <2>0, PutMap, PutDom
    <3>5. TypeA'
      BY <3>1, <3>4, <2>3, <2>5, <1>t DEF TypeA
    <3>6. (TypeB /\ TypeC /\ TypeD /\ TypeE /\ TypeF /\ TypeI /\ TypeJ)'
      BY <1>t, <1>3 DEF Write, ghosts, TypeB, TypeC, TypeD, TypeE, TypeF, TypeI, TypeJ
    <3> QED BY <2>2, <3>2, <3>3, <3>5, <3>6, TypeParts
  <2> QED BY <2>4, <2>5
<1> QED BY <1>1, <1>2, <1>3

\* What the recovery at start leaves.
LEMMA RecoveredMap ==
  ASSUME TypeInv, NEW stay \in BOOLEAN
  PROVE  /\ IsMap(recoverInterruptedOp(stay).reg, Ns, SUBSET Proj)
         /\ IsMap(recoverInterruptedOp(stay).sibs, Key, Ids)
         /\ recoverInterruptedOp(stay).journal \in {journal, None}
<1>t. TypeB /\ TypeC /\ TypeD
  BY TypeParts
<1>1. CASE journal = None
  BY <1>1, <1>t DEF recoverInterruptedOp, TypeB, TypeC
<1>2. CASE journal # None
  <2>0. /\ journal.op \in Special /\ journal.old \in Key /\ journal.new \in Key /\ Names(journal)
        /\ journal.op = "rename_namespace" => journal.old[1] # journal.new[1]
    BY <1>2, <1>t DEF TypeD, Entry, Names
  <2>1. journal.op # "rename_namespace" => journal.old # journal.new
    BY <2>0 DEF Names, Special
  <2>2. IsMap(ForwardReg(journal), Ns, SUBSET Proj) /\ IsMap(BackReg(journal), Ns, SUBSET Proj)
    BY <1>t, <2>0, MovedMap, BackMap DEF ForwardReg, TypeC
  <2>3. IsMap(ForwardSibs(journal), Key, Ids)
    BY <1>t, <2>0, <2>1, RekeyMap DEF ForwardSibs, relocateSiblingDB, TypeB
  <2>4. IsMap(BackSibs(journal, stay), Key, Ids)
    BY <1>t, <2>0, DropMap DEF BackSibs, TypeB
  <2>5. CASE NewThere(journal) /\ ~OldThere(journal)
    <3>1. recoverInterruptedOp(stay) = [reg |-> ForwardReg(journal), sibs |-> ForwardSibs(journal),
            journal |-> IF RegistryRefuses(journal) THEN journal ELSE None]
      BY <1>2, <2>5 DEF recoverInterruptedOp
    <3> QED BY <3>1, <2>2, <2>3
  <2>6. CASE OldThere(journal) /\ ~NewThere(journal)
    <3>1. recoverInterruptedOp(stay) = [reg |-> BackReg(journal), sibs |-> BackSibs(journal, stay), journal |-> None]
      BY <1>2, <2>6 DEF recoverInterruptedOp
    <3> QED BY <3>1, <2>2, <2>4
  <2>7. CASE NewThere(journal) <=> OldThere(journal)
    <3>1. recoverInterruptedOp(stay) = [reg |-> reg, sibs |-> sibs, journal |-> None]
      BY <1>2, <2>7 DEF recoverInterruptedOp
    <3> QED BY <3>1, <1>t DEF TypeB, TypeC
  <2> QED BY <2>5, <2>6, <2>7
<1> QED BY <1>1, <1>2

LEMMA ReconcileMap ==
  ASSUME TypeInv, NEW f, IsMap(f, Ns, SUBSET Proj)
  PROVE  IsMap(reconcileManagedRegistry(f), Ns, SUBSET Proj)
<1> DEFINE adopted == IF DOMAIN f # {} THEN f
                      ELSE [n \in {k[1] : k \in DOMAIN dirs} |-> {k[2] : k \in Under(dirs, n)}]
<1>1. DOMAIN dirs \subseteq Key
  BY DEF TypeInv, IsMap
<1>2. IsMap(adopted, Ns, SUBSET Proj)
  <2>1. CASE DOMAIN f # {}
    BY <2>1
  <2>2. CASE DOMAIN f = {}
    <3>1. \A k \in DOMAIN dirs : k[1] \in Ns /\ k[2] \in Proj
      BY <1>1, KeyParts
    <3>2. \A n : {k[2] : k \in Under(dirs, n)} \in SUBSET Proj
      BY <3>1 DEF Under
    <3> QED BY <2>2, <3>1, <3>2 DEF IsMap
  <2> QED BY <2>1, <2>2
<1>3. reconcileManagedRegistry(f) = EnsureNamespace(adopted, Default)
  BY DEF reconcileManagedRegistry
<1> HIDE DEF adopted
<1>4. Default \in Ns
  BY ProjectsAssumption
<1>5. IsMap(EnsureNamespace(adopted, Default), Ns, SUBSET Proj)
  BY <1>2, <1>4, EnsureMap
<1> QED BY <1>3, <1>5

LEMMA TypeSystem ==
  ASSUME TypeInv, CreateNamespace \/ Recover \/ Crash \/ StartupInit \/ relocateLeftovers
  PROVE  TypeInv'
<1> USE ProjectsAssumption
<1>t. /\ TypeA /\ TypeB /\ TypeC /\ TypeD /\ TypeE /\ TypeF /\ TypeG /\ TypeH /\ TypeI /\ TypeJ
      /\ TypeK
  BY TypeParts
<1>1. CASE CreateNamespace
  <2>1. PICK n \in Ns :
          /\ nsdirs' = (IF n \in DOMAIN nsdirs THEN nsdirs ELSE Put(nsdirs, n, nextId))
          /\ reg' = EnsureNamespace(reg, n)
          /\ raced' = (raced \/ \E r \in Req : \E k \in Touches(rq[r]) : k[1] = n)
    BY <1>1 DEF CreateNamespace
  <2>2. TypeC'
    BY <2>1, <1>t, EnsureMap DEF TypeC
  <2>3. TypeJ'
    BY <1>1, <2>1, <1>t DEF CreateNamespace, TypeJ
  <2>4. TypeK'
    BY <1>1, <1>t DEF CreateNamespace, TypeK
  <2>5. IsMap(nsdirs', Ns, Ids) /\ DOMAIN nsdirs \subseteq DOMAIN nsdirs'
    <3>1. IsMap(nsdirs, Ns, Ids) /\ nextId \in Ids
      BY <1>t DEF TypeA, TypeK, Ids
    <3>2. CASE n \in DOMAIN nsdirs
      BY <2>1, <3>1, <3>2
    <3>3. CASE n \notin DOMAIN nsdirs
      <4>1. IsMap(Put(nsdirs, n, nextId), Ns, Ids)
        BY <3>1, PutMap
      <4>2. DOMAIN Put(nsdirs, n, nextId) = DOMAIN nsdirs \cup {n}
        BY PutDom
      <4> QED BY <2>1, <3>3, <4>1, <4>2
    <3> QED BY <3>2, <3>3
  <2>6. TypeA'
    BY <1>1, <2>5, <1>t DEF CreateNamespace, TypeA
  <2>7. (TypeB /\ TypeD /\ TypeE /\ TypeF /\ TypeG /\ TypeH /\ TypeI)'
    BY <1>t, <1>1 DEF CreateNamespace, TypeB, TypeD, TypeE, TypeF, TypeG, TypeH, TypeI
  <2> QED BY <2>2, <2>3, <2>4, <2>6, <2>7, TypeParts
<1>2. CASE Recover
  <2>1. PICK k \in Key :
          /\ \/ DropMissingProject(k) \/ AdoptForeign(k) \/ CleanOrphanedSibling(k)
             \/ DropMissingNamespace(k[1]) \/ AdoptNamespace(k[1])
          /\ raced' = (raced \/ \E r \in Req : \E j \in Touches(rq[r]) : j[1] = k[1])
    BY <1>2 DEF Recover
  <2>2. k[1] \in Ns
    BY KeyParts
  <2>3. TypeC'
    <3>1. CASE DropMissingProject(k)
      BY <3>1, <1>t, RemoveProjectMap DEF DropMissingProject, TypeC
    <3>2. CASE AdoptForeign(k)
      BY <3>2, <1>t, AddProjectMap DEF AdoptForeign, TypeC
    <3>3. CASE CleanOrphanedSibling(k)
      BY <3>3, <1>t DEF CleanOrphanedSibling, TypeC
    <3>4. CASE DropMissingNamespace(k[1])
      BY <3>4, <1>t, DropMap DEF DropMissingNamespace, TypeC
    <3>5. CASE AdoptNamespace(k[1])
      <4> DEFINE f == EnsureNamespace(reg, k[1])
                 P == {j[2] : j \in Under(dirs, k[1])}
      <4>1. P \subseteq Proj
        BY <1>t, KeyParts DEF TypeA, IsMap, Under
      <4>2. IsMap(f, Ns, SUBSET Proj)
        BY <1>t, <2>2, EnsureMap DEF TypeC
      <4>3. reg' = [f EXCEPT ![k[1]] = @ \cup P]
        BY <3>5 DEF AdoptNamespace
      <4> HIDE DEF f, P
      <4> QED BY <4>1, <4>2, <4>3 DEF TypeC, IsMap
    <3> QED BY <2>1, <3>1, <3>2, <3>3, <3>4, <3>5
  <2>4. TypeB'
    <3>1. sibs' = sibs \/ sibs' = Drop(sibs, {k})
      BY <2>1 DEF DropMissingProject, AdoptForeign, CleanOrphanedSibling, DropMissingNamespace, AdoptNamespace
    <3> QED BY <3>1, <1>t, DropMap DEF TypeB
  <2>5. TypeJ'
    BY <1>2, <2>1, <1>t DEF Recover, TypeJ
  <2>6. TypeK'
    BY <1>2, <1>t DEF Recover, TypeK
  <2>7. (TypeA /\ TypeD /\ TypeE /\ TypeF /\ TypeG /\ TypeH /\ TypeI)'
    BY <1>t, <1>2 DEF Recover, TypeA, TypeD, TypeE, TypeF, TypeG, TypeH, TypeI
  <2> QED BY <2>3, <2>4, <2>5, <2>6, <2>7, TypeParts
<1>3. CASE Crash
  <2>1. TypeF'
    BY <1>3 DEF Crash, TypeF, RqType
  <2>2. TypeG'
    <3>1. \A w \in Writer : wr[w].pc # "acked" => [wr[w] EXCEPT !.pc = "failed"] \in WrType
      <4> TAKE w \in Writer
      <4>1. wr[w] \in WrType
        BY <1>t DEF TypeG
      <4> QED BY <4>1 DEF WrType
    <3> QED BY <1>3, <3>1, <1>t DEF Crash, TypeG
  <2>3. TypeI' /\ TypeK'
    BY <1>3, <1>t DEF Crash, TypeI, TypeK
  <2>4. TypeJ'
    BY <1>3, <1>t DEF Crash, TypeJ
  <2>5. (TypeA /\ TypeB /\ TypeC /\ TypeD /\ TypeE /\ TypeH)'
    BY <1>t, <1>3 DEF Crash, disk, TypeA, TypeB, TypeC, TypeD, TypeE, TypeH
  <2> QED BY <2>1, <2>2, <2>3, <2>4, <2>5, TypeParts
<1>4. CASE StartupInit
  <2>0. PICK stay \in BOOLEAN :
          /\ sibs' = recoverInterruptedOp(stay).sibs
          /\ \/ /\ reg' = reconcileManagedRegistry(recoverInterruptedOp(stay).reg)
                /\ Journal(recoverInterruptedOp(stay).journal)
             \/ /\ faults < MaxFaults /\ faults' = faults + 1
                /\ reg' = recoverInterruptedOp(stay).reg
                /\ UNCHANGED journal
    BY <1>4 DEF StartupInit
  <2> DEFINE rec == recoverInterruptedOp(stay)
  <2>a. IsMap(rec.reg, Ns, SUBSET Proj) /\ IsMap(rec.sibs, Key, Ids) /\ rec.journal \in {journal, None}
    BY RecoveredMap
  <2>b. IsMap(reconcileManagedRegistry(rec.reg), Ns, SUBSET Proj)
    BY <2>a, ReconcileMap
  <2>c. /\ sibs' = rec.sibs
        /\ \/ reg' = reconcileManagedRegistry(rec.reg) /\ Journal(rec.journal)
           \/ faults < MaxFaults /\ faults' = faults + 1 /\ reg' = rec.reg /\ UNCHANGED journal
    BY <2>0
  <2> HIDE DEF rec
  <2>1. TypeB'
    BY <2>a, <2>c DEF TypeB
  <2>2. TypeC'
    BY <2>a, <2>b, <2>c DEF TypeC
  <2>3. TypeD'
    BY <2>a, <2>c, <1>t DEF TypeD, Journal
  <2>4. TypeI'
    BY <1>4, <1>t DEF StartupInit, TypeI, TypeA
  <2>5. TypeK'
    <3>1. faults' \in 0..MaxFaults
      BY <2>c, <1>t, JournalType DEF TypeK
    <3> QED BY <1>4, <1>t, <3>1 DEF StartupInit, TypeK
  <2>6. TypeJ'
    BY <1>4, <1>t DEF StartupInit, TypeJ, ghosts
  <2>7. (TypeA /\ TypeE /\ TypeF /\ TypeG /\ TypeH)'
    BY <1>t, <1>4 DEF StartupInit, TypeA, TypeE, TypeF, TypeG, TypeH
  <2> QED BY <2>1, <2>2, <2>3, <2>4, <2>5, <2>6, <2>7, TypeParts
<1>5. CASE relocateLeftovers
  <2>1. PICK k \in quar :
       /\ quar' = quar \ {k}
       /\ left' = left \ {k} /\ dirs' = Drop(dirs, {k}) /\ sibs' = Drop(sibs, {k})
       /\ loc' = [w \in Writer |->
                    IF loc[w] = <<"left", k>> \/ (k \in DOMAIN dirs /\ loc[w] = <<"project", dirs[k]>>)
                    THEN <<"lostfound", None>> ELSE loc[w]]
    BY <1>5 DEF relocateLeftovers
  <2>2. TypeA'
    <3>1. IsMap(dirs', Key, Ids) /\ DOMAIN dirs' = DOMAIN dirs \ {k}
      BY <2>1, <1>t, DropMap, DropDom DEF TypeA
    <3> QED BY <1>5, <2>1, <3>1, <1>t DEF relocateLeftovers, TypeA
  <2>3. TypeB'
    BY <2>1, <1>t, DropMap DEF TypeB
  <2>4. TypeH'
    BY <2>1, <1>t DEF TypeH, LocType
  <2>5. TypeI'
    BY <2>1, <1>t DEF TypeI
  <2>6. (TypeC /\ TypeD /\ TypeE /\ TypeF /\ TypeG /\ TypeJ /\ TypeK)'
    BY <1>t, <1>5 DEF relocateLeftovers, ghosts, TypeC, TypeD, TypeE, TypeF, TypeG, TypeJ, TypeK
  <2> QED BY <2>2, <2>3, <2>4, <2>5, <2>6, TypeParts
<1> QED BY <1>1, <1>2, <1>3, <1>4, <1>5

LEMMA TypeStep == TypeInv /\ [Next]_vars => TypeInv'
<1> SUFFICES ASSUME TypeInv, [Next]_vars PROVE TypeInv'
  OBVIOUS
<1>1. ASSUME NEW r \in Req, Request(r) PROVE TypeInv'
  <2>1. PICK op \in Special \cup {"delete_project", "delete_namespace", "create_project"},
             old \in Key, new \in Key :
          LET q == [pc |-> FirstStep(op), op |-> op, old |-> old, new |-> new]
          IN /\ op \in {"rename_namespace", "delete_namespace"} => old[2] = FirstProj /\ new[2] = FirstProj
             /\ Checked(q) /\ rq' = [rq EXCEPT ![r] = q]
             /\ raced' = (raced \/ Overlaps(q) \/ Touches(q) \cap quar # {})
    BY <1>1 DEF Request
  <2> DEFINE q == [pc |-> FirstStep(op), op |-> op, old |-> old, new |-> new]
  <2>2. q \in RqType
    <3>1. q.pc = FirstStep(op) /\ q.op = op /\ q.old = old /\ q.new = new /\ Checked(q)
      BY <2>1
    <3>2. q \in [pc : PC, op : Op, old : Key, new : Key]
      BY DEF PC, HeldPC, Op, FirstStep, Special
    <3>3. old = <<old[1], old[2]>> /\ new = <<new[1], new[2]>>
      BY KeyParts
    <3> HIDE DEF q
    <3>4. op \in Special => Names(q) \/ (op = "rename_namespace" /\ old[1] # new[1] /\ Default \notin {old[1], new[1]})
      BY <3>1 DEF Names, Special, Checked, MoveProject, RenameProject, RenameNamespace
    <3>5. op \in {"rename_namespace", "delete_namespace"} => old[2] = new[2]
      BY <2>1
    <3>6. Shape(q)
      BY <3>1, <3>3, <3>4, <3>5 DEF Names, Special, Checked, DeleteProject, DeleteNamespace, CreateProject, FirstStep, Shape
    <3> QED BY <3>2, <3>6 DEF RqType
  <2>3. TypeF'
    BY <2>1, <2>2, TypeParts DEF TypeF
  <2>4. TypeJ'
    BY <1>1, <2>1, TypeParts DEF TypeJ, Request
  <2>5. TypeK'
    BY <1>1, ProjectsAssumption, TypeParts DEF TypeK, Request
  <2>6. (TypeA /\ TypeB /\ TypeC /\ TypeD /\ TypeE /\ TypeG /\ TypeH /\ TypeI)'
    BY <1>1, TypeParts DEF Request, disk, TypeA, TypeB, TypeC, TypeD, TypeE, TypeG, TypeH, TypeI
  <2> QED BY <2>3, <2>4, <2>5, <2>6, TypeParts
<1>2. CASE UNCHANGED vars
  <2>1. (TypeA /\ TypeB /\ TypeC /\ TypeD /\ TypeE /\ TypeF /\ TypeG /\ TypeH /\ TypeI /\ TypeJ
         /\ TypeK)'
    BY <1>2, TypeParts DEF vars, disk, ghosts, TypeA, TypeB, TypeC, TypeD, TypeE, TypeF, TypeG, TypeH, TypeI,
       TypeJ, TypeK
  <2> QED BY <2>1, TypeParts
<1> QED BY <1>1, <1>2, TypeRequests, TypeWriters, TypeSystem DEF Next, RqNext

----------------------------------------------------------------------------
(* The fence *)

LEMMA FenceRequests ==
  ASSUME TypeInv, FenceInv, NEW r \in Req, RqNext(r)
  PROVE  FenceInv'
<1> USE ProjectsAssumption
<1>f. /\ rq' \in [Req -> RqType] /\ rq[r] # Idle
      /\ \A u \in Req \ {r} : rq'[u] = rq[u]
      /\ rq'[r] # Idle => /\ rq'[r].op = rq[r].op /\ rq'[r].old = rq[r].old
                          /\ rq'[r].new = rq[r].new /\ rq'[r].pc \in PC
  BY TypeRqStep DEF RqNext
<1>i. Idle.pc = "idle" /\ "idle" \notin HeldPC
  BY DEF Idle, HeldPC
<1>u. up
  BY DEF RqNext, Lock, Mark, Rename, Siblings, Registry, RewriteScopes, Clear, Purge, Remove, Deregister,
         InitProject, Catalog, registerManagedProject, At
<1>n. None \notin Req
  OBVIOUS
<1>1. CASE Lock(r)
  <2>1. /\ mu = None /\ moving = {} /\ movingNs = {} /\ up' = up
        /\ moving' = moving /\ movingNs' = movingNs
    BY <1>1 DEF Lock, FenceInv
  <2>2. \A u \in Req : rq[u].pc \notin HeldPC
    BY <2>1, <1>n DEF FenceInv
  <2>3. CASE rq'[r] = Idle /\ mu' = None
    BY <1>f, <1>i, <1>u, <2>1, <2>2, <2>3 DEF FenceInv
  <2>4. CASE rq'[r].pc = "mark" /\ mu' = r
    BY <1>f, <1>i, <1>u, <2>1, <2>2, <2>4, <1>n DEF FenceInv, HeldPC
  <2>5. (rq'[r] = Idle /\ mu' = None) \/ (rq'[r].pc = "mark" /\ mu' = r)
    <3>1. rq[r].pc # "idle"
      BY <1>1 DEF Lock, At
    <3> QED BY <1>1, <2>1, EndRq, <3>1, <1>f DEF Lock, Goto, TypeInv, RqType
  <2> QED BY <2>3, <2>4, <2>5
<1> DEFINE Done == /\ rq'[r] = Idle /\ moving' = moving \ {rq[r].old, rq[r].new}
                   /\ movingNs' = movingNs \ {rq[r].old[1]} /\ mu' = None /\ up'
<1>d. ASSUME Done, mu = r PROVE FenceInv'
  <2>1. moving' = {} /\ movingNs' = {}
    BY <1>d, <1>n DEF FenceInv
  <2>2. \A u \in Req : rq'[u].pc \notin HeldPC
    BY <1>d, <1>f, <1>i, <1>n DEF FenceInv
  <2> QED BY <1>d, <2>1, <2>2 DEF FenceInv
<1> DEFINE Stay == /\ rq'[r].pc \in HeldPC \ {"mark"} /\ rq[r].pc \in HeldPC \ {"mark"}
                   /\ UNCHANGED <<moving, movingNs, mu, up, quar>>
<1>e. ASSUME Stay PROVE FenceInv'
  <2>1. mu = r
    BY <1>e DEF FenceInv
  <2> QED BY <1>e, <1>f, <1>i, <1>u, <1>n, <2>1 DEF FenceInv
<1> DEFINE Other == /\ rq[r].pc \notin HeldPC /\ rq'[r].pc \notin HeldPC
                    /\ UNCHANGED <<moving, movingNs, mu, up>>
<1>o. ASSUME Other PROVE FenceInv'
  <2>1. mu # r
    BY <1>o, <1>n DEF FenceInv
  <2> QED BY <1>o, <1>f, <1>u, <2>1 DEF FenceInv
<1>g. ASSUME NEW p, Goto(r, p) PROVE rq'[r].pc = p
  BY <1>g, <1>f DEF Goto, TypeInv, RqType
<1>h. ASSUME End(r) PROVE rq'[r] = Idle
  BY <1>h, EndRq
<1> HIDE DEF Done, Stay, Other
<1>2. CASE Mark(r)
  <2>1. rq[r].pc = "mark" /\ mu = r /\ rq'[r].pc = "rename" /\ mu' = mu /\ up' = up
    BY <1>2, <1>g DEF Mark, At, FenceInv, HeldPC
  <2>2. rq'[r] # Idle
    BY <2>1, <1>i
  <2>4. moving' \subseteq moving \cup {rq[r].old, rq[r].new} /\ movingNs' \subseteq movingNs \cup {rq[r].old[1]}
    BY <1>2 DEF Mark
  <2>5. moving' \subseteq {rq'[r].old, rq'[r].new} /\ movingNs' \subseteq {rq'[r].old[1]}
    BY <1>f, <2>1, <2>2, <2>4, <1>n DEF FenceInv
  <2>6. \A u \in Req \ {r} : rq'[u].pc \notin HeldPC
    BY <1>f, <2>1 DEF FenceInv
  <2> QED BY <1>u, <1>n, <2>1, <2>5, <2>6 DEF FenceInv, HeldPC
<1>3. CASE Rename(r)
  <2>1. rq[r].pc = "rename" /\ mu = r
    BY <1>3 DEF Rename, At, FenceInv, HeldPC
  <2>2. CASE Unfence(rq[r]) /\ End(r)
    BY <1>3, <1>u, <1>d, <1>h, <2>1, <2>2 DEF Rename, Unfence, Done
  <2>3. CASE (Goto(r, "siblings") \/ Goto(r, "registry")) /\ UNCHANGED fence
    <3>1. Stay
      BY <1>3, <1>g, <2>1, <2>3 DEF Rename, Stay, HeldPC, fence
    <3> QED BY <3>1, <1>e
  <2> QED BY <1>3, <2>2, <2>3 DEF Rename
<1>4. CASE Siblings(r)
  <2>1. Stay
    BY <1>4, <1>g DEF Siblings, Stay, HeldPC, fence, At
  <2> QED BY <2>1, <1>e
<1>5. CASE Registry(r) \/ RewriteScopes(r, "users", "tokens") \/ RewriteScopes(r, "tokens", "clear")
  <2>1. rq[r].pc \in HeldPC \ {"mark"} /\ mu = r /\ UNCHANGED <<up, quar>>
    BY <1>5 DEF Registry, RewriteScopes, At, FenceInv, HeldPC
  <2>2. CASE Fail(r)
    BY <1>u, <1>d, <1>h, <2>1, <2>2 DEF Fail, Unfence, Done
  <2>3. CASE (Goto(r, "users") \/ Goto(r, "tokens") \/ Goto(r, "clear")) /\ UNCHANGED fence
    <3>1. Stay
      BY <1>g, <2>1, <2>3 DEF Stay, HeldPC, fence
    <3> QED BY <3>1, <1>e
  <2> QED BY <1>5, <2>2, <2>3 DEF Registry, RewriteScopes
<1>6. CASE Clear(r)
  <2>1. rq[r].pc = "clear" /\ mu = r /\ Done
    BY <1>6, <1>u, <1>h DEF Clear, At, FenceInv, HeldPC, Unfence, Done
  <2> QED BY <2>1, <1>d
<1>7. CASE \/ Purge(r, "users", "purge_tokens") \/ Purge(r, "tokens", "remove") \/ Remove(r)
           \/ Deregister(r) \/ InitProject(r) \/ Catalog(r) \/ registerManagedProject(r)
  <2>1. UNCHANGED <<moving, movingNs, mu, up>>
    BY <1>7 DEF Purge, Remove, Deregister, InitProject, Catalog, registerManagedProject, fence
  <2>2. rq[r].pc \notin HeldPC
    BY <1>7 DEF Purge, Remove, Deregister, InitProject, Catalog, registerManagedProject, At, HeldPC
  <2>3. rq'[r].pc \notin HeldPC
    <3>1. \/ End(r) \/ Goto(r, "purge_tokens") \/ Goto(r, "remove") \/ Goto(r, "deregister")
          \/ Goto(r, "register") \/ Goto(r, "catalog")
      BY <1>7 DEF Purge, Remove, Deregister, InitProject, Catalog, registerManagedProject
    <3> QED BY <3>1, <1>g, <1>h, <1>i DEF HeldPC
  <2>4. Other
    BY <2>1, <2>2, <2>3 DEF Other
  <2> QED BY <2>4, <1>o
<1> QED BY <1>1, <1>2, <1>3, <1>4, <1>5, <1>6, <1>7 DEF RqNext

LEMMA FenceStep == TypeInv /\ FenceInv /\ [Next]_vars => FenceInv'
<1> SUFFICES ASSUME TypeInv, FenceInv, [Next]_vars PROVE FenceInv'
  OBVIOUS
<1> USE ProjectsAssumption
<1>i. Idle.pc = "idle" /\ "idle" \notin HeldPC
  BY DEF Idle, HeldPC
<1>1. ASSUME NEW r \in Req, Request(r) PROVE FenceInv'
  <2>1. /\ rq[r] = Idle /\ up /\ up' /\ UNCHANGED <<moving, movingNs, mu>>
        /\ rq'[r].pc \in {"lock", "purge_users", "init"}
        /\ \A u \in Req \ {r} : rq'[u] = rq[u]
    <3>1. \E op \in Special \cup {"delete_project", "delete_namespace", "create_project"},
             old \in Key, new \in Key :
               rq' = [rq EXCEPT ![r] = [pc |-> FirstStep(op), op |-> op, old |-> old, new |-> new]]
      BY <1>1 DEF Request
    <3> QED BY <1>1, <3>1 DEF Request, fence, FirstStep, TypeInv
  <2>2. mu # r
    BY <1>i, <2>1 DEF FenceInv
  <2> QED BY <2>1, <2>2, <1>i DEF FenceInv, HeldPC
<1>2. CASE UNCHANGED <<rq, moving, movingNs, mu, up, quar>>
  BY <1>2 DEF FenceInv
<1>3. ASSUME NEW w \in Writer, Check(w) \/ Lease(w) \/ Write(w) PROVE FenceInv'
  BY <1>2, <1>3 DEF Check, Lease, Write, fence
<1>4. CASE CreateNamespace \/ Recover
  BY <1>2, <1>4 DEF CreateNamespace, Recover, fence
<1>5. CASE Crash
  BY <1>5, <1>i DEF Crash, FenceInv
<1>6. CASE StartupInit
  <2>1. \A r \in Req : rq[r] = Idle
    BY <1>6 DEF FenceInv, StartupInit
  <2>2. UNCHANGED <<rq, fence>> /\ (up' \/ UNCHANGED <<up, quar>>)
    BY <1>6 DEF StartupInit
  <2> QED BY <1>i, <2>1, <2>2 DEF FenceInv, fence
<1>7. CASE relocateLeftovers
  BY <1>7 DEF relocateLeftovers, FenceInv, fence
<1>8. CASE UNCHANGED vars
  BY <1>2, <1>8 DEF vars, fence
<1> QED BY <1>1, <1>3, <1>4, <1>5, <1>6, <1>7, <1>8, FenceRequests DEF Next, RqNext

----------------------------------------------------------------------------
(* Requests that overlap *)

Same(v, q) == v = Idle \/ (v.pc # "idle" /\ v.op = q.op /\ v.old = q.old /\ v.new = q.new)

LEMMA TouchesSame ==
  ASSUME NEW q, q.pc # "idle", NEW v, Same(v, q)
  PROVE  Touches(v) \subseteq Touches(q)
BY DEF Same, Touches, Idle

LEMMA ClashSame ==
  ASSUME NEW q, q.pc # "idle", NEW v, Same(v, q), NEW u, ~Clash(q, u)
  PROVE  ~Clash(v, u)
<1>1. CASE v = Idle
  BY <1>1 DEF Clash, Touches, Idle
<1>2. CASE v # Idle
  BY <1>2 DEF Same, Clash, Touches
<1> QED BY <1>1, <1>2

LEMMA ClashSym ==
  ASSUME NEW q, NEW v, Clash(q, v)
  PROVE  Clash(v, q)
BY DEF Clash

LEMMA RqSame ==
  ASSUME TypeInv, NEW r \in Req, RqNext(r)
  PROVE  /\ rq[r].pc # "idle"
         /\ Same(rq'[r], rq[r]) /\ \A u \in Req \ {r} : rq'[u] = rq[u]
<1>1. rq[r] # Idle /\ rq' \in [Req -> RqType]
  BY TypeRqStep DEF RqNext
<1>2. rq[r].pc # "idle"
  BY <1>1, RqParts
<1>3. "idle" \notin PC
  BY DEF PC, HeldPC
<1> QED BY <1>2, <1>3, TypeRqStep DEF RqNext, Same

\* A step of a request makes directories only at names the request works on.
LEMMA NewDirs ==
  ASSUME TypeInv, NEW r \in Req, RqNext(r)
  PROVE  DOMAIN dirs' \subseteq DOMAIN dirs \cup Touches(rq[r])
<1>q. rq[r].pc # "idle" /\ rq[r].old \in Key /\ rq[r].new \in Key
  BY RqSame, RqParts
<1>k. rq[r].old[1] \in Ns /\ rq[r].new[1] \in Ns
  BY <1>q, KeyParts
<1>d. IsMap(dirs, Key, Ids) /\ IsMap(dirs', Key, Ids)
  BY TypeRequests DEF TypeInv
<1>1. CASE UNCHANGED dirs
  BY <1>1
<1>2. CASE Rename(r) /\ ~UNCHANGED dirs
  <2>0. CanRename(rq[r])
    BY <1>2 DEF Rename, disk
  <2>s. rq[r].op \in Special /\ Names(rq[r])
    BY <1>2, RqParts DEF Rename, At, Shape
  <2>1. CASE rq[r].op # "rename_namespace"
    <3>1. dirs' = Rekey(dirs, rq[r].old, rq[r].new)
      BY <1>2, <2>0, <2>1 DEF Rename
    <3>2. rq[r].old \in DOMAIN dirs /\ rq[r].old # rq[r].new
      BY <1>2, <2>s, <3>1, RekeyNone DEF Names
    <3>3. DOMAIN Rekey(dirs, rq[r].old, rq[r].new) = (DOMAIN dirs \ {rq[r].old}) \cup {rq[r].new}
      BY <3>2 DEF Rekey, Put, Drop
    <3>4. rq[r].op # "delete_namespace"
      BY <2>s DEF Special
    <3> QED BY <1>q, <2>1, <3>1, <3>3, <3>4 DEF Touches
  <2>2. CASE rq[r].op = "rename_namespace"
    <3> DEFINE n == rq[r].old[1]
               m == rq[r].new[1]
    <3>1. dirs' = Rehome(dirs, n, m) /\ n # m /\ n \in Ns /\ m \in Ns /\ Under(dirs, m) = {}
      BY <1>2, <1>k, <2>0, <2>2, <2>s DEF Rename, Names, CanRename
    <3>2. Touches(rq[r]) = {k \in Key : k[1] \in {n, m}}
      BY <1>q, <2>2 DEF Touches
    <3> HIDE DEF n, m
    <3>3. \A k \in Key : k \in DOMAIN Rehome(dirs, n, m) => k \in DOMAIN dirs \/ k[1] = m
      BY <1>d, <3>1, RehomeDom
    <3> QED BY <1>d, <3>1, <3>2, <3>3 DEF IsMap
  <2> QED BY <2>1, <2>2
<1>3. CASE Remove(r)
  <2>1. PICK gone : dirs' = Drop(dirs, gone)
    BY <1>3 DEF Remove
  <2>2. DOMAIN Drop(dirs, gone) = DOMAIN dirs \ gone
    BY DropDom
  <2> QED BY <2>1, <2>2
<1>4. CASE InitProject(r)
  <2>1. rq[r].op = "create_project"
    BY <1>4, RqParts DEF InitProject, At, Shape, HeldPC, Special
  <2>2. rq[r].old \in Touches(rq[r])
    BY <1>q, <2>1 DEF Touches
  <2>3. dirs' = dirs \/ dirs' = Put(dirs, rq[r].old, nextId + 1)
    BY <1>4 DEF InitProject
  <2>4. DOMAIN Put(dirs, rq[r].old, nextId + 1) = DOMAIN dirs \cup {rq[r].old}
    BY PutDom
  <2> QED BY <2>2, <2>3, <2>4
<1> QED BY <1>1, <1>2, <1>3, <1>4 DEF RqNext, Lock, Mark, Siblings, Registry, RewriteScopes, Clear, Purge,
      Deregister, Catalog, registerManagedProject, disk

LEMMA ClashStep == TypeInv /\ FenceInv /\ ClashInv /\ [Next]_vars => ClashInv'
<1> SUFFICES ASSUME TypeInv, FenceInv, ClashInv, [Next]_vars, ~raced' PROVE
       /\ \A r, u \in Req : r # u => ~Clash(rq'[r], rq'[u])
       /\ \A r \in Req : Touches(rq'[r]) \cap quar' = {}
       /\ quar' \cap DOMAIN dirs' = {}
  BY DEF ClashInv, Clash, Touches
<1> DEFINE Goal == /\ \A r, u \in Req : r # u => ~Clash(rq'[r], rq'[u])
                   /\ \A r \in Req : Touches(rq'[r]) \cap quar' = {}
                   /\ quar' \cap DOMAIN dirs' = {}
<1>i. Touches(Idle) = {}
  BY DEF Touches, Idle
<1>0. CASE UNCHANGED <<rq, quar, dirs>> /\ ~raced
  BY <1>0 DEF ClashInv
<1>1. ASSUME NEW r \in Req, RqNext(r) PROVE Goal
  <2>1. ~raced /\ quar' = quar
    <3>1. raced' = raced \/ raced'
      BY <1>1 DEF RqNext, Lock, Mark, Rename, Siblings, Registry, RewriteScopes, Clear, Purge, Remove, Deregister,
         InitProject, Catalog, registerManagedProject, ghosts
    <3>2. quar' = quar
      BY <1>1 DEF RqNext, Lock, Mark, Rename, Siblings, Registry, RewriteScopes, Clear, Purge, Remove, Deregister,
         InitProject, Catalog, registerManagedProject
    <3> QED BY <3>1, <3>2
  <2>2. rq[r].pc # "idle" /\ Same(rq'[r], rq[r]) /\ \A u \in Req \ {r} : rq'[u] = rq[u]
    BY <1>1, RqSame
  <2>3. Touches(rq'[r]) \subseteq Touches(rq[r])
    BY <2>2, TouchesSame
  <2>4. \A u \in Req \ {r} : ~Clash(rq'[r], rq'[u]) /\ ~Clash(rq'[u], rq'[r])
    <3> TAKE u \in Req \ {r}
    <3>1. ~Clash(rq[r], rq[u])
      BY <2>1 DEF ClashInv
    <3> QED BY <2>2, <3>1, ClashSame, ClashSym
  <2>5. \A v, u \in Req \ {r} : v # u => ~Clash(rq'[v], rq'[u])
    BY <2>1, <2>2 DEF ClashInv
  <2>6. \A v \in Req : Touches(rq'[v]) \cap quar' = {}
    BY <2>1, <2>2, <2>3 DEF ClashInv
  <2>7. quar' \cap DOMAIN dirs' = {}
    BY <1>1, <2>1, NewDirs DEF ClashInv
  <2> QED BY <2>4, <2>5, <2>6, <2>7
<1>2. ASSUME NEW r \in Req, Request(r) PROVE Goal
  <2>1. PICK q : rq' = [rq EXCEPT ![r] = q] /\ raced' = (raced \/ Overlaps(q) \/ Touches(q) \cap quar # {})
    BY <1>2 DEF Request
  <2>2. ~raced /\ quar' = quar /\ dirs' = dirs
    BY <1>2, <2>1 DEF Request, disk
  <2>3. rq'[r] = q /\ (\A u \in Req \ {r} : rq'[u] = rq[u]) /\ (\A u \in Req : ~Clash(rq[u], q))
    BY <2>1 DEF TypeInv, Overlaps
  <2>4. \A u \in Req : ~Clash(q, rq[u])
    BY <2>3, ClashSym
  <2> QED BY <2>1, <2>2, <2>3, <2>4 DEF ClashInv
<1>3. ASSUME NEW w \in Writer, Check(w) \/ Lease(w) \/ Write(w) PROVE Goal
  BY <1>0, <1>3 DEF Check, Lease, Write, ghosts, disk
<1>4. CASE CreateNamespace \/ Recover
  BY <1>0, <1>4 DEF CreateNamespace, Recover
<1>5. CASE Crash
  <2>1. quar' = {} /\ \A r \in Req : rq'[r] = Idle
    BY <1>5 DEF Crash
  <2> QED BY <1>i, <2>1 DEF Clash
<1>6. CASE StartupInit
  <2>1. (\A r \in Req : rq'[r] = Idle) /\ dirs' = dirs /\ quar' \in {left, quar} /\ quar = {}
    BY <1>6 DEF StartupInit, FenceInv
  <2>2. left \cap DOMAIN dirs = {}
    BY DEF TypeInv
  <2> QED BY <1>i, <2>1, <2>2 DEF Clash
<1>7. CASE relocateLeftovers
  <2>1. \E k : quar' = quar \ {k} /\ dirs' = Drop(dirs, {k})
    BY <1>7 DEF relocateLeftovers
  <2>2. ~raced /\ rq' = rq
    BY <1>7 DEF relocateLeftovers, ghosts
  <2> QED BY <2>1, <2>2, DropDom DEF ClashInv
<1>8. CASE UNCHANGED vars
  BY <1>0, <1>8 DEF vars, ghosts, disk
<1> QED BY <1>1, <1>2, <1>3, <1>4, <1>5, <1>6, <1>7, <1>8 DEF Next, RqNext

----------------------------------------------------------------------------
(* Writers *)

\* A request takes away no directory but those it is going to.
LEMMA KeptDirs ==
  ASSUME TypeInv, NEW r \in Req, RqNext(r), NEW k \in DOMAIN dirs, k \notin Takes(rq[r])
  PROVE  k \in DOMAIN dirs' /\ dirs'[k] = dirs[k]
<1>q. rq[r].pc # "idle" /\ rq[r].old \in Key /\ rq[r].new \in Key /\ Shape(rq[r])
  BY RqSame, RqParts
<1>k. rq[r].old[1] \in Ns /\ rq[r].new[1] \in Ns
  BY <1>q, KeyParts
<1>d. IsMap(dirs, Key, Ids)
  BY DEF TypeInv
<1>e. k \in Key
  BY <1>d DEF IsMap
<1>1. CASE UNCHANGED dirs
  BY <1>1
<1>2. CASE Rename(r) /\ ~UNCHANGED dirs
  <2>0. CanRename(rq[r])
    BY <1>2 DEF Rename, disk
  <2>s. rq[r].op \in Special /\ Names(rq[r]) /\ rq[r].pc = "rename"
    BY <1>2, <1>q DEF Rename, At, Shape
  <2>1. CASE rq[r].op # "rename_namespace"
    <3>1. dirs' = Rekey(dirs, rq[r].old, rq[r].new)
      BY <1>2, <2>0, <2>1 DEF Rename
    <3>2. rq[r].old \in DOMAIN dirs /\ rq[r].old # rq[r].new
      BY <1>2, <2>s, <3>1, RekeyNone DEF Names
    <3>3. k # rq[r].old
      BY <2>s, <2>1 DEF Takes, Special
    <3>4. k # rq[r].new
      BY <2>0, <2>1 DEF CanRename
    <3>5. DOMAIN Rekey(dirs, rq[r].old, rq[r].new) = (DOMAIN dirs \ {rq[r].old}) \cup {rq[r].new}
      BY <3>2 DEF Rekey, Put, Drop
    <3>6. Rekey(dirs, rq[r].old, rq[r].new)[k] = dirs[k]
      BY <3>2, <3>3, <3>4, RekeyVal
    <3> QED BY <3>1, <3>3, <3>5, <3>6
  <2>2. CASE rq[r].op = "rename_namespace"
    <3> DEFINE n == rq[r].old[1]
               m == rq[r].new[1]
    <3>1. dirs' = Rehome(dirs, n, m) /\ n # m /\ n \in Ns /\ m \in Ns /\ Under(dirs, m) = {}
      BY <1>2, <1>k, <2>0, <2>2, <2>s DEF Rename, Names, CanRename
    <3>2. k[1] # n /\ k[1] # m
      BY <1>e, <2>s, <2>2, <3>1 DEF Takes, Under
    <3> HIDE DEF n, m
    <3>3. k \in DOMAIN Rehome(dirs, n, m)
      BY <1>d, <1>e, <3>1, <3>2, RehomeDom
    <3>4. \A j \in DOMAIN Rehome(dirs, n, m) :
              Rehome(dirs, n, m)[j] = dirs[IF j[1] = m THEN <<n, j[2]>> ELSE j]
      BY <1>d, <3>1, RehomeMap
    <3> QED BY <3>1, <3>2, <3>3, <3>4
  <2> QED BY <2>1, <2>2
<1>3. CASE Remove(r)
  <2> DEFINE gone == IF rq[r].op = "delete_namespace" THEN {j \in Key : j[1] = rq[r].old[1]} ELSE {rq[r].old}
  <2>1. dirs' = Drop(dirs, gone) /\ rq[r].pc = "remove"
    BY <1>3 DEF Remove, At
  <2>2. k \notin gone
    <3>1. rq[r].op \in {"delete_project", "delete_namespace"}
      BY <2>1, <1>q DEF Shape, HeldPC
    <3> QED BY <2>1, <3>1 DEF Takes
  <2> HIDE DEF gone
  <2>3. DOMAIN Drop(dirs, gone) = DOMAIN dirs \ gone
    BY DropDom
  <2>4. Drop(dirs, gone)[k] = dirs[k]
    BY <2>2, DropVal
  <2> QED BY <2>1, <2>2, <2>3, <2>4
<1>4. CASE InitProject(r) /\ ~UNCHANGED dirs
  <2>1. dirs' = Put(dirs, rq[r].old, nextId + 1) /\ rq[r].old \notin DOMAIN dirs
    BY <1>4 DEF InitProject
  <2>2. DOMAIN Put(dirs, rq[r].old, nextId + 1) = DOMAIN dirs \cup {rq[r].old}
    BY PutDom
  <2>3. Put(dirs, rq[r].old, nextId + 1)[k] = dirs[k]
    BY <2>1, PutVal
  <2> QED BY <2>1, <2>2, <2>3
<1> QED BY <1>1, <1>2, <1>3, <1>4 DEF RqNext, Lock, Mark, Siblings, Registry, RewriteScopes, Clear, Purge,
      Deregister, Catalog, registerManagedProject, disk

\* A request that is going to take directories away holds no leased one of them.
LEMMA TakesStep ==
  ASSUME TypeInv, NEW r \in Req, RqNext(r), NEW k \in DOMAIN dirs, Leased(k), k \notin Takes(rq[r])
  PROVE  k \notin Takes(rq'[r])
<1>q. /\ rq[r].pc # "idle" /\ Shape(rq[r])
      /\ rq[r].op = "delete_namespace" \/ rq[r].op = "delete_project" \/ rq[r].op = "create_project"
         \/ rq[r].op \in Special
  BY RqSame, RqParts DEF Op
<1>s. Same(rq'[r], rq[r])
  BY RqSame
<1>i. Takes(Idle) = {}
  BY DEF Takes, Idle
<1>k. k \in Key
  BY DEF TypeInv, IsMap
<1>g. ASSUME NEW p, Goto(r, p) PROVE rq'[r].pc = p
  <2>1. rq[r] \in [pc : PC, op : Op, old : Key, new : Key]
    BY <1>q DEF TypeInv, RqType, Idle
  <2> QED BY <1>g, <2>1 DEF Goto, TypeInv
<1>1. CASE rq'[r] = Idle
  BY <1>1, <1>i
<1>2. CASE rq'[r] # Idle
  <2>0. rq'[r].op = rq[r].op /\ rq'[r].old = rq[r].old /\ ~End(r)
    BY <1>2, <1>s, EndRq DEF Same
  <2>1. CASE Lock(r)
    <3>1. rq[r].pc = "lock" /\ rq[r].op \in Special /\ ~ActiveLease(rq[r]) /\ rq'[r].pc = "mark"
      BY <2>0, <2>1, <1>q, <1>g DEF Lock, At, Shape
    <3>2. CASE rq[r].op = "rename_namespace"
      <4>1. k \notin Under(dirs, rq[r].old[1])
        BY <3>1, <3>2 DEF ActiveLease, Watched
      <4> QED BY <2>0, <3>1, <3>2, <4>1 DEF Takes, Under
    <3>3. CASE rq[r].op # "rename_namespace"
      <4>1. k # rq[r].old
        BY <3>1, <3>3 DEF ActiveLease, Watched
      <4>2. rq'[r].op \in {"move_project", "rename_project"}
        BY <2>0, <3>1, <3>3 DEF Special
      <4>3. Takes(rq'[r]) = {rq[r].old}
        BY <2>0, <4>2, <3>1 DEF Takes
      <4> QED BY <4>1, <4>3
    <3> QED BY <3>2, <3>3
  <2>2. CASE Mark(r)
    <3>1. rq[r].pc = "mark" /\ rq'[r].pc = "rename" /\ rq[r].op \in Special
      BY <2>2, <1>g, <1>q DEF Mark, At, Shape
    <3>2. Takes(rq'[r]) = Takes(rq[r])
      BY <2>0, <3>1 DEF Takes, Special
    <3> QED BY <3>2
  <2>3. CASE Purge(r, "users", "purge_tokens") \/ Purge(r, "tokens", "remove")
    <3>1. rq[r].pc \in {"purge_users", "purge_tokens"} /\ rq'[r].pc \in {"purge_tokens", "remove"}
      BY <2>0, <2>3, <1>g DEF Purge, At
    <3>2. rq[r].op \in {"delete_project", "delete_namespace"}
      BY <3>1, <1>q DEF Shape, HeldPC
    <3>3. Takes(rq'[r]) = Takes(rq[r])
      BY <2>0, <3>1, <3>2 DEF Takes
    <3> QED BY <3>3
  <2>4. CASE ~(Lock(r) \/ Mark(r) \/ Purge(r, "users", "purge_tokens") \/ Purge(r, "tokens", "remove"))
    <3>1. rq'[r].pc \notin {"mark", "rename", "purge_users", "purge_tokens", "remove"}
      <4>1. \/ Goto(r, "siblings") \/ Goto(r, "registry") \/ Goto(r, "users") \/ Goto(r, "tokens")
            \/ Goto(r, "clear") \/ Goto(r, "deregister") \/ Goto(r, "catalog") \/ Goto(r, "register")
        BY <2>0, <2>4 DEF RqNext, Rename, Siblings, Registry, RewriteScopes, Clear, Remove, Deregister,
           InitProject, Catalog, registerManagedProject, Fail
      <4> QED BY <4>1, <1>g
    <3>2. Takes(rq'[r]) = {}
      BY <3>1 DEF Takes
    <3> QED BY <3>2
  <2> QED BY <2>1, <2>2, <2>3, <2>4
<1> QED BY <1>1, <1>2

WriterOK(w) ==
  ~wr[w].late /\ ~raced =>
    /\ wr[w].pc = "leased" => /\ wr[w].key \in DOMAIN dirs /\ dirs[wr[w].key] = wr[w].id
                              /\ \A r \in Req : wr[w].key \notin Takes(rq[r])
    /\ wr[w].pc = "acked" => loc[w] \in {<<"project", wr[w].id>>, <<"deleted", None>>}

\* The names a request takes directories from are among those it works on.
LEMMA TakesTouches ==
  ASSUME TypeInv, NEW r \in Req, NEW k \in Takes(rq[r])
  PROVE  k \in Touches(rq[r]) /\ rq[r].pc \notin {"idle", "lock"}
<1>1. rq[r].pc \notin {"idle", "lock"} /\ rq[r].op # "create_project"
  BY DEF Takes
<1>2. rq[r].op \in Op
  BY <1>1, RqParts
<1> QED BY <1>1, <1>2 DEF Takes, Touches, Op, Special

LEMMA WriterRequests ==
  ASSUME TypeInv, NEW r \in Req, RqNext(r), NEW w \in Writer, WriterOK(w)
  PROVE  WriterOK(w)'
<1> SUFFICES ASSUME ~wr[w].late, ~raced'
             PROVE  /\ wr[w].pc = "leased" => /\ wr[w].key \in DOMAIN dirs' /\ dirs'[wr[w].key] = wr[w].id
                                              /\ \A u \in Req : wr[w].key \notin Takes(rq'[u])
                    /\ wr[w].pc = "acked" => loc'[w] \in {<<"project", wr[w].id>>, <<"deleted", None>>}
  <2>1. wr' = wr
    BY DEF RqNext, Lock, Mark, Rename, Siblings, Registry, RewriteScopes, Clear, Purge, Remove, Deregister,
         InitProject, Catalog, registerManagedProject
  <2> QED BY <2>1 DEF WriterOK, Takes
<1>0. ~raced
  BY DEF RqNext, Lock, Mark, Rename, Siblings, Registry, RewriteScopes, Clear, Purge, Remove, Deregister,
         InitProject, Catalog, registerManagedProject, ghosts
<1>1. ASSUME wr[w].pc = "leased"
      PROVE  /\ wr[w].key \in DOMAIN dirs' /\ dirs'[wr[w].key] = wr[w].id
             /\ \A u \in Req : wr[w].key \notin Takes(rq'[u])
  <2>1. /\ wr[w].key \in DOMAIN dirs /\ dirs[wr[w].key] = wr[w].id
        /\ \A u \in Req : wr[w].key \notin Takes(rq[u])
    BY <1>0, <1>1 DEF WriterOK
  <2>2. Leased(wr[w].key)
    BY <1>1 DEF Leased
  <2>3. wr[w].key \notin Takes(rq'[r])
    BY <2>1, <2>2, TakesStep
  <2> QED BY <2>1, <2>3, KeptDirs, RqSame
<1>2. ASSUME wr[w].pc = "acked"
      PROVE  loc'[w] \in {<<"project", wr[w].id>>, <<"deleted", None>>}
  <2>1. loc[w] \in {<<"project", wr[w].id>>, <<"deleted", None>>}
    BY <1>0, <1>2 DEF WriterOK
  <2>2. loc[w][1] # "left"
    BY <2>1
  <2>3. CASE loc' = loc
    BY <2>1, <2>3
  <2>4. CASE Rename(r) \/ InitProject(r)
    BY <2>1, <2>2, <2>4 DEF Rename, InitProject
  <2>5. CASE Remove(r)
    BY <2>1, <2>5 DEF Remove
  <2> QED BY <2>3, <2>4, <2>5 DEF RqNext, Lock, Mark, Siblings, Registry, RewriteScopes, Clear, Purge,
            Deregister, Catalog, registerManagedProject
<1> QED BY <1>1, <1>2

LEMMA WriterStep == TypeInv /\ FenceInv /\ ClashInv /\ WriterInv /\ [Next]_vars => WriterInv'
<1> SUFFICES ASSUME TypeInv, FenceInv, ClashInv, WriterInv, [Next]_vars, NEW w \in Writer PROVE WriterOK(w)'
  BY DEF WriterInv, WriterOK, Takes
<1>w. WriterOK(w)
  BY DEF WriterInv, WriterOK
<1>t. wr \in [Writer -> WrType] /\ loc \in [Writer -> LocType] /\ wr[w] \in WrType /\ wr' \in [Writer -> WrType]
  BY TypeStep DEF TypeInv
<1>0. CASE UNCHANGED <<wr, rq, dirs, loc>> /\ (~raced' => ~raced)
  BY <1>0, <1>w DEF WriterOK, Takes
<1>1. ASSUME NEW r \in Req, RqNext(r) PROVE WriterOK(w)'
  BY <1>1, <1>w, WriterRequests
<1>2. ASSUME NEW r \in Req, Request(r) PROVE WriterOK(w)'
  <2>1. PICK q : /\ rq' = [rq EXCEPT ![r] = q] /\ Checked(q)
                 /\ \E op \in Special \cup {"delete_project", "delete_namespace", "create_project"} :
                      q.pc = FirstStep(op) /\ q.op = op
                 /\ (~raced' => ~raced)
    BY <1>2 DEF Request
  <2>2. rq'[r] = q /\ \A u \in Req \ {r} : rq'[u] = rq[u]
    BY <2>1 DEF TypeInv
  <2>3. UNCHANGED <<wr, dirs, loc>>
    BY <1>2 DEF Request, disk
  <2>4. ASSUME wr[w].pc = "leased", wr[w].key \in DOMAIN dirs PROVE wr[w].key \notin Takes(q)
    <3>1. wr[w].key \in Key
      BY <2>4 DEF TypeInv, IsMap
    <3>2. Leased(wr[w].key)
      BY <2>4 DEF Leased
    <3>3. CASE q.op \in Special
      BY <2>1, <3>3 DEF Takes, Special, FirstStep
    <3>4. CASE q.op = "create_project"
      BY <3>4 DEF Takes
    <3>5. CASE q.op = "delete_project"
      BY <2>1, <3>2, <3>5 DEF Takes, Checked, DeleteProject
    <3>6. CASE q.op = "delete_namespace"
      BY <2>1, <2>4, <3>6 DEF Takes, Checked, DeleteNamespace, Under
    <3> QED BY <2>1, <3>3, <3>4, <3>5, <3>6
  <2>5. WriterOK(w)' <=>
          (~wr[w].late /\ ~raced' =>
             /\ wr[w].pc = "leased" => /\ wr[w].key \in DOMAIN dirs /\ dirs[wr[w].key] = wr[w].id
                                       /\ \A u \in Req : wr[w].key \notin Takes(rq'[u])
             /\ wr[w].pc = "acked" => loc[w] \in {<<"project", wr[w].id>>, <<"deleted", None>>})
    BY <2>3 DEF WriterOK, Takes
  <2> QED BY <1>w, <2>1, <2>2, <2>4, <2>5 DEF WriterOK
<1>3. ASSUME NEW v \in Writer, Check(v) PROVE WriterOK(w)'
  <2>1. v # w => wr'[w] = wr[w]
    BY <1>3 DEF Check, TypeInv
  <2>2. v = w => wr'[w].pc = "checked"
    BY <1>3, <1>t DEF Check
  <2>3. UNCHANGED <<dirs, loc, rq, raced>>
    BY <1>3 DEF Check, disk, ghosts
  <2> QED BY <1>w, <2>1, <2>2, <2>3 DEF WriterOK, Takes
<1>4. ASSUME NEW v \in Writer, Lease(v) PROVE WriterOK(w)'
  <2>3. UNCHANGED <<dirs, loc, rq, raced>>
    BY <1>4 DEF Lease, disk, ghosts
  <2>1. CASE v # w
    <3>1. wr'[w] = wr[w]
      BY <1>4, <2>1, <1>t DEF Lease
    <3> QED BY <1>w, <3>1, <2>3 DEF WriterOK, Takes
  <2>2. CASE v = w
    <3>1. wr[w] \in [pc : {"checked", "leased", "acked"}, key : Key, id : Nat, late : BOOLEAN]
      BY <1>4, <2>2, <1>t DEF Lease, WrType
    <3>2. /\ wr'[w].pc = "leased" /\ wr'[w].key = wr[w].key /\ wr'[w].id = wr[w].id
          /\ wr'[w].late = (Late(wr[w].key) \/ dirs[wr[w].key] # wr[w].id)
      BY <1>4, <1>t, <2>2, <3>1 DEF Lease
    <3>3. ASSUME ~Late(wr[w].key) PROVE \A r \in Req : wr[w].key \notin Takes(rq[r])
      BY <3>3, TakesTouches DEF Late
    <3>4. ~Late(wr[w].key) => wr[w].key \in DOMAIN dirs
      BY DEF Late
    <3> QED BY <2>3, <3>2, <3>3, <3>4 DEF WriterOK, Takes
  <2> QED BY <2>1, <2>2
<1>5. ASSUME NEW v \in Writer, Write(v) PROVE WriterOK(w)'
  <2>3. UNCHANGED <<dirs, rq, raced>>
    BY <1>5 DEF Write, ghosts
  <2>1. CASE v # w
    <3>1. wr'[w] = wr[w] /\ loc'[w] = loc[w]
      BY <1>5, <2>1, <1>t DEF Write
    <3> QED BY <1>w, <3>1, <2>3 DEF WriterOK, Takes
  <2>2. CASE v = w
    <3>0. wr[w].pc = "leased"
      BY <1>5, <2>2 DEF Write
    <3>1. wr[w] \in [pc : {"checked", "leased", "acked"}, key : Key, id : Nat, late : BOOLEAN]
      BY <3>0, <1>t DEF WrType
    <3>2. wr'[w].pc = "acked" /\ wr'[w].key = wr[w].key /\ wr'[w].id = wr[w].id /\ wr'[w].late = wr[w].late
      BY <1>5, <1>t, <2>2, <3>1 DEF Write
    <3>3. wr[w].key \in DOMAIN dirs => loc'[w] = <<"project", dirs[wr[w].key]>>
      BY <1>5, <1>t, <2>2 DEF Write
    <3> QED BY <1>w, <2>3, <3>0, <3>2, <3>3 DEF WriterOK
  <2> QED BY <2>1, <2>2
<1>6. CASE CreateNamespace \/ Recover
  <2>1. UNCHANGED <<wr, rq, dirs, loc>> /\ (~raced' => ~raced)
    BY <1>6 DEF CreateNamespace, Recover
  <2> QED BY <1>0, <2>1
<1>7. CASE Crash
  <2>1. loc' = loc /\ (~raced' => ~raced)
    BY <1>7 DEF Crash
  <2>2. wr'[w] = wr[w] \/ wr'[w].pc = "failed"
    <3>1. wr[w].pc = "acked" => wr'[w] = wr[w]
      BY <1>7 DEF Crash
    <3>2. wr[w].pc # "acked" => wr'[w] = [wr[w] EXCEPT !.pc = "failed"]
      BY <1>7 DEF Crash
    <3>3. [wr[w] EXCEPT !.pc = "failed"].pc = "failed"
      BY <1>t DEF WrType
    <3> QED BY <3>1, <3>2, <3>3
  <2>3. wr'[w].pc # "leased"
    <3>1. wr[w].pc = "acked" => wr'[w] = wr[w]
      BY <1>7 DEF Crash
    <3>2. wr[w].pc # "acked" => wr'[w] = [wr[w] EXCEPT !.pc = "failed"]
      BY <1>7 DEF Crash
    <3>3. [wr[w] EXCEPT !.pc = "failed"].pc = "failed"
      BY <1>t DEF WrType
    <3> QED BY <3>1, <3>2, <3>3
  <2> QED BY <1>w, <2>1, <2>2, <2>3 DEF WriterOK
<1>8. CASE StartupInit
  BY <1>0, <1>8 DEF StartupInit, ghosts
<1>9. CASE relocateLeftovers
  <2>1. PICK k \in quar :
       /\ dirs' = Drop(dirs, {k})
       /\ loc' = [v \in Writer |->
                    IF loc[v] = <<"left", k>> \/ (k \in DOMAIN dirs /\ loc[v] = <<"project", dirs[k]>>)
                    THEN <<"lostfound", None>> ELSE loc[v]]
    BY <1>9 DEF relocateLeftovers
  <2>2. UNCHANGED <<wr, rq, raced>>
    BY <1>9 DEF relocateLeftovers, ghosts
  <2>3. CASE raced
    BY <2>2, <2>3 DEF WriterOK
  <2>4. CASE ~raced
    <3>1. k \notin DOMAIN dirs
      BY <2>4 DEF ClashInv
    <3>2. dirs' = dirs
      <4>1. IsMap(dirs, Key, Ids) /\ {k} \cap DOMAIN dirs = {}
        BY <3>1 DEF TypeInv
      <4> QED BY <2>1, <4>1, DropNone
    <3>3. loc[w][1] # "left" => loc'[w] = loc[w]
      BY <2>1, <3>1
    <3>4. loc[w] \in {<<"project", wr[w].id>>, <<"deleted", None>>} => loc'[w] = loc[w]
      BY <3>3
    <3> QED BY <1>w, <2>2, <2>4, <3>2, <3>4 DEF WriterOK, Takes
  <2> QED BY <2>3, <2>4
<1>10. CASE UNCHANGED vars
  BY <1>0, <1>10 DEF vars, ghosts, disk
<1> QED BY <1>1, <1>2, <1>3, <1>4, <1>5, <1>6, <1>7, <1>8, <1>9, <1>10 DEF Next, RqNext

----------------------------------------------------------------------------
(* Grants *)

LEMMA ParseType ==
  ASSUME NEW t \in Token
  PROVE  /\ parseGrant(t).level \in 0..3 /\ parseGrant(t).wildcard \in BOOLEAN
         /\ parseGrant(t).ns \in Ns \cup {NoName} /\ parseGrant(t).proj \in Proj \cup {NoName}
<1>1. \A p : splitPerm(p) \in 0..3
  BY DEF splitPerm, LevelNone, LevelRead, LevelWrite, LevelAdmin
<1>2. t.ns \in Ns \cup {NoName} /\ t.proj \in Proj \cup {NoName}
  BY DEF Token, Name
<1>3. t.form \in {"star", "none", "namespace", "bare"}
  BY DEF Token
<1>w. LevelAdmin \in 0..3 /\ LevelWrite \in 0..3 /\ LevelNone \in 0..3
  BY DEF LevelAdmin, LevelWrite, LevelNone
<1>4. CASE t.form = "star"
  <2>1. /\ parseGrant(t).level = (IF t.perm = "" THEN LevelAdmin ELSE splitPerm(t.perm))
        /\ parseGrant(t).wildcard = TRUE /\ parseGrant(t).ns = NoName /\ parseGrant(t).proj = NoName
    BY <1>4 DEF parseGrant
  <2> QED BY <1>1, <1>w, <2>1
<1>5. CASE t.form = "namespace"
  <2>1. /\ parseGrant(t).level = (IF t.perm = "" THEN LevelWrite ELSE splitPerm(t.perm))
        /\ parseGrant(t).wildcard = FALSE /\ parseGrant(t).ns = t.ns /\ parseGrant(t).proj = t.proj
    BY <1>5 DEF parseGrant
  <2> QED BY <1>1, <1>2, <1>w, <2>1
<1> DEFINE Nothing == /\ parseGrant(t).level = LevelNone /\ parseGrant(t).wildcard = FALSE
                      /\ parseGrant(t).ns = NoName /\ parseGrant(t).proj = NoName
<1>6. CASE t.form = "none"
  <2>1. Nothing
    BY <1>6 DEF parseGrant
  <2> QED BY <1>w, <2>1
<1>7. CASE t.form = "bare" /\ t.perm # "" /\ t.ns # NoName
  <2>1. /\ parseGrant(t).level = splitPerm(t.perm)
        /\ parseGrant(t).wildcard = FALSE /\ parseGrant(t).ns = t.ns /\ parseGrant(t).proj = t.proj
    BY <1>7 DEF parseGrant
  <2> QED BY <1>1, <1>2, <1>w, <2>1
<1>8. CASE t.form = "bare" /\ ~(t.perm # "" /\ t.ns # NoName)
  <2>1. Nothing
    BY <1>8 DEF parseGrant
  <2> QED BY <1>w, <2>1
<1> QED BY <1>3, <1>4, <1>5, <1>6, <1>7, <1>8

\* A renamed token grants the same at the new name.
LEMMA ParseRenamed ==
  ASSUME NEW t \in Token, ~Wild(t), parseGrant(t).ns # NoName, NEW n \in Ns, NEW u,
         u.zone = t.zone, u.perm = t.perm, u.form = "namespace", u.ns = n
  PROVE  /\ parseGrant(u).zone = parseGrant(t).zone /\ parseGrant(u).level = parseGrant(t).level
         /\ ~Wild(u) /\ parseGrant(u).ns = n
         /\ parseGrant(u).proj = u.proj /\ parseGrant(t).proj = t.proj
<1>0. t.form # "star" /\ t.form \in {"star", "none", "namespace", "bare"}
  BY DEF Wild, parseGrant, Token
<1>2. /\ parseGrant(u).zone = t.zone /\ ~parseGrant(u).wildcard /\ parseGrant(u).ns = n
      /\ parseGrant(u).proj = u.proj
      /\ parseGrant(u).level = IF t.perm = "" THEN LevelWrite ELSE splitPerm(t.perm)
  BY DEF parseGrant
<1>3. /\ parseGrant(t).zone = t.zone /\ parseGrant(t).proj = t.proj
      /\ parseGrant(t).level = IF t.perm = "" THEN LevelWrite ELSE splitPerm(t.perm)
  <2>1. CASE t.form = "namespace"
    BY <2>1 DEF parseGrant
  <2>2. CASE t.form = "bare" /\ t.perm # "" /\ t.ns # NoName
    BY <2>2 DEF parseGrant
  <2>3. CASE t.form # "namespace" /\ ~(t.form = "bare" /\ t.perm # "" /\ t.ns # NoName)
    BY <1>0, <2>3 DEF parseGrant
  <2> QED BY <2>1, <2>2, <2>3
<1> QED BY <1>2, <1>3 DEF Wild

LEMMA NoneGrant == ~Live(NoneToken) /\ ~Wild(NoneToken)
<1>1. NoneToken.form = "none"
  BY DEF NoneToken
<1>2. parseGrant(NoneToken).level = 0 /\ parseGrant(NoneToken).wildcard = FALSE
  BY <1>1 DEF parseGrant, LevelNone
<1> QED BY <1>2 DEF Live, Wild, LevelNone

\* Purging keeps tokens, and drops those that name what is deleted.
LEMMA PurgedTokens ==
  ASSUME NEW s, s # {}, NEW q
  PROVE  /\ Purged(s, q) # {}
         /\ \A t \in Purged(s, q) : t \in s \/ t = NoneToken
         /\ \A t \in Purged(s, q) : t # NoneToken /\ ~Wild(t) =>
              IF q.op = "delete_namespace" THEN parseGrant(t).ns # q.old[1]
              ELSE ~(parseGrant(t).ns = q.old[1] /\ parseGrant(t).proj = q.old[2])
         /\ \A t \in s \ Purged(s, q) : /\ ~Wild(t)
              /\ IF q.op = "delete_namespace" THEN parseGrant(t).ns = q.old[1]
                 ELSE parseGrant(t).ns = q.old[1] /\ parseGrant(t).proj = q.old[2]
<1> DEFINE d == IF q.op = "delete_namespace" THEN OfNamespace(s, q.old[1]) ELSE OfProject(s, q.old[1], q.old[2])
<1>1. Purged(s, q) = pruneScope(s, d)
  BY DEF Purged, PruneNamespaceGrants, PruneProjectGrants
<1>2. d \subseteq s
  BY DEF OfNamespace, OfProject
<1>3. \A t \in s \ d : ~Wild(t) =>
              IF q.op = "delete_namespace" THEN parseGrant(t).ns # q.old[1]
              ELSE ~(parseGrant(t).ns = q.old[1] /\ parseGrant(t).proj = q.old[2])
  BY DEF OfNamespace, OfProject, Wild
<1>5. \A t \in d : /\ ~Wild(t)
              /\ IF q.op = "delete_namespace" THEN parseGrant(t).ns = q.old[1]
                 ELSE parseGrant(t).ns = q.old[1] /\ parseGrant(t).proj = q.old[2]
  BY DEF OfNamespace, OfProject, Wild
<1> HIDE DEF d
<1>4. (pruneScope(s, d) = {NoneToken} /\ s \subseteq d) \/ (pruneScope(s, d) = s \ d /\ s \ d # {})
  BY <1>2 DEF pruneScope, NoAccessScope
<1>6. s \ pruneScope(s, d) \subseteq d
  BY <1>4
<1> QED BY <1>1, <1>3, <1>4, <1>5, <1>6

\* Rewriting keeps the tokens that do not name what is renamed, and renames the others.
LEMMA RewrittenTokens ==
  ASSUME NEW s, s \subseteq Token, s # {}, NEW q, q.op \in Special, q.old \in Key, q.new \in Key
  PROVE  /\ Rewritten(s, q) # {}
         /\ \A u \in Rewritten(s, q) :
              \/ u \in s /\ (~Wild(u) => Turned(q, NameOf(u)) = NameOf(u))
              \/ \E t \in s : /\ ~Wild(t) /\ ~Wild(u) /\ NameOf(u) = Turned(q, NameOf(t))
                              /\ parseGrant(u).zone = parseGrant(t).zone
                              /\ parseGrant(u).level = parseGrant(t).level
         /\ \A t \in s : \E u \in Rewritten(s, q) :
              \/ u = t /\ (~Wild(t) => Turned(q, NameOf(t)) = NameOf(t))
              \/ /\ ~Wild(t) /\ ~Wild(u) /\ NameOf(u) = Turned(q, NameOf(t))
                 /\ parseGrant(u).zone = parseGrant(t).zone
                 /\ parseGrant(u).level = parseGrant(t).level
<1>k. /\ q.old = <<q.old[1], q.old[2]>> /\ q.new = <<q.new[1], q.new[2]>>
      /\ q.new[1] \in Ns /\ q.new[2] \in Proj /\ q.old[1] \in Ns
  BY KeyParts
<1>n. NoName \notin Ns
  BY ProjectsAssumption DEF None
<1>1. CASE q.op = "rename_namespace"
  <2> DEFINE d == OfNamespace(s, q.old[1])
             f(t) == [t EXCEPT !.form = "namespace", !.ns = q.new[1]]
  <2>1. Rewritten(s, q) = (s \ d) \cup {f(t) : t \in d}
    BY <1>1 DEF Rewritten, RewriteNamespaceGrants
  <2>2. \A t \in s : t \in d <=> ~Wild(t) /\ parseGrant(t).ns = q.old[1]
    BY DEF OfNamespace, Wild
  <2>3. d \subseteq s
    BY DEF OfNamespace
  <2>4. Rewritten(s, q) # {}
    <3>1. PICK t : t \in s
      OBVIOUS
    <3>2. t \in d => f(t) \in Rewritten(s, q)
      BY <2>1
    <3>3. t \notin d => t \in Rewritten(s, q)
      BY <2>1, <3>1
    <3> QED BY <3>2, <3>3
  <2>5. ASSUME NEW u \in s \ d PROVE ~Wild(u) => Turned(q, NameOf(u)) = NameOf(u)
    BY <1>1, <2>2 DEF Turned, NameOf
  <2>6. ASSUME NEW t \in d
        PROVE  /\ ~Wild(t) /\ ~Wild(f(t)) /\ NameOf(f(t)) = Turned(q, NameOf(t))
               /\ parseGrant(f(t)).zone = parseGrant(t).zone
               /\ parseGrant(f(t)).level = parseGrant(t).level
    <3>1. t \in Token /\ ~Wild(t) /\ parseGrant(t).ns = q.old[1] /\ parseGrant(t).ns # NoName
      BY <1>k, <1>n, <2>2, <2>3
    <3>2. f(t).proj = t.proj /\ f(t).zone = t.zone /\ f(t).perm = t.perm /\ f(t).form = "namespace"
          /\ f(t).ns = q.new[1]
      BY <3>1 DEF Token
    <3>3. /\ parseGrant(f(t)).zone = parseGrant(t).zone /\ parseGrant(f(t)).level = parseGrant(t).level
          /\ ~Wild(f(t)) /\ parseGrant(f(t)).ns = q.new[1]
          /\ parseGrant(f(t)).proj = f(t).proj /\ parseGrant(t).proj = t.proj
      <4> HIDE DEF f
      <4> QED BY <1>k, <3>1, <3>2, ParseRenamed
    <3> QED BY <1>1, <3>1, <3>2, <3>3 DEF NameOf, Turned
  <2> HIDE DEF d, f
  <2>7. ASSUME NEW u \in Rewritten(s, q)
        PROVE  \/ u \in s /\ (~Wild(u) => Turned(q, NameOf(u)) = NameOf(u))
               \/ \E t \in s : /\ ~Wild(t) /\ ~Wild(u) /\ NameOf(u) = Turned(q, NameOf(t))
                               /\ parseGrant(u).zone = parseGrant(t).zone
                               /\ parseGrant(u).level = parseGrant(t).level
    BY <2>1, <2>3, <2>5, <2>6, <2>7
  <2>8. ASSUME NEW t \in s
        PROVE  \E u \in Rewritten(s, q) :
                 \/ u = t /\ (~Wild(t) => Turned(q, NameOf(t)) = NameOf(t))
                 \/ /\ ~Wild(t) /\ ~Wild(u) /\ NameOf(u) = Turned(q, NameOf(t))
                    /\ parseGrant(u).zone = parseGrant(t).zone
                    /\ parseGrant(u).level = parseGrant(t).level
    <3>1. CASE t \in d
      <4>1. f(t) \in Rewritten(s, q)
        BY <2>1, <3>1
      <4> QED BY <2>6, <3>1, <4>1
    <3>2. CASE t \notin d
      <4>1. t \in Rewritten(s, q)
        BY <2>1, <2>8, <3>2
      <4> QED BY <2>5, <2>8, <3>2, <4>1
    <3> QED BY <3>1, <3>2
  <2> QED BY <2>4, <2>7, <2>8
<1>2. CASE q.op # "rename_namespace"
  <2> DEFINE d == OfProject(s, q.old[1], q.old[2])
             f(t) == [t EXCEPT !.form = "namespace", !.ns = q.new[1], !.proj = q.new[2]]
  <2>1. Rewritten(s, q) = (s \ d) \cup {f(t) : t \in d}
    BY <1>2 DEF Rewritten, RewriteProjectGrants
  <2>2. \A t \in s : t \in d <=> ~Wild(t) /\ NameOf(t) = q.old
    BY <1>k DEF OfNamespace, OfProject, Wild, NameOf
  <2>3. d \subseteq s
    BY DEF OfNamespace, OfProject
  <2>4. Rewritten(s, q) # {}
    <3>1. PICK t : t \in s
      OBVIOUS
    <3>2. t \in d => f(t) \in Rewritten(s, q)
      BY <2>1
    <3>3. t \notin d => t \in Rewritten(s, q)
      BY <2>1, <3>1
    <3> QED BY <3>2, <3>3
  <2>5. ASSUME NEW u \in s \ d PROVE ~Wild(u) => Turned(q, NameOf(u)) = NameOf(u)
    BY <1>2, <2>2 DEF Turned
  <2>6. ASSUME NEW t \in d
        PROVE  /\ ~Wild(t) /\ ~Wild(f(t)) /\ NameOf(f(t)) = Turned(q, NameOf(t))
               /\ parseGrant(f(t)).zone = parseGrant(t).zone
               /\ parseGrant(f(t)).level = parseGrant(t).level
    <3>1. t \in Token /\ ~Wild(t) /\ NameOf(t) = q.old
      BY <2>2, <2>3
    <3>4. parseGrant(t).ns # NoName
      BY <1>k, <1>n, <3>1 DEF NameOf
    <3>2. f(t).proj = q.new[2] /\ f(t).zone = t.zone /\ f(t).perm = t.perm /\ f(t).form = "namespace"
          /\ f(t).ns = q.new[1]
      BY <3>1 DEF Token
    <3>3. /\ parseGrant(f(t)).zone = parseGrant(t).zone /\ parseGrant(f(t)).level = parseGrant(t).level
          /\ ~Wild(f(t)) /\ parseGrant(f(t)).ns = q.new[1]
          /\ parseGrant(f(t)).proj = f(t).proj
      <4> HIDE DEF f
      <4> QED BY <1>k, <3>1, <3>2, <3>4, ParseRenamed
    <3> QED BY <1>2, <1>k, <3>1, <3>2, <3>3 DEF NameOf, Turned
  <2> HIDE DEF d, f
  <2>7. ASSUME NEW u \in Rewritten(s, q)
        PROVE  \/ u \in s /\ (~Wild(u) => Turned(q, NameOf(u)) = NameOf(u))
               \/ \E t \in s : /\ ~Wild(t) /\ ~Wild(u) /\ NameOf(u) = Turned(q, NameOf(t))
                               /\ parseGrant(u).zone = parseGrant(t).zone
                               /\ parseGrant(u).level = parseGrant(t).level
    BY <2>1, <2>3, <2>5, <2>6, <2>7
  <2>8. ASSUME NEW t \in s
        PROVE  \E u \in Rewritten(s, q) :
                 \/ u = t /\ (~Wild(t) => Turned(q, NameOf(t)) = NameOf(t))
                 \/ /\ ~Wild(t) /\ ~Wild(u) /\ NameOf(u) = Turned(q, NameOf(t))
                    /\ parseGrant(u).zone = parseGrant(t).zone
                    /\ parseGrant(u).level = parseGrant(t).level
    <3>1. CASE t \in d
      <4>1. f(t) \in Rewritten(s, q)
        BY <2>1, <3>1
      <4> QED BY <2>6, <3>1, <4>1
    <3>2. CASE t \notin d
      <4>1. t \in Rewritten(s, q)
        BY <2>1, <2>8, <3>2
      <4> QED BY <2>5, <2>8, <3>2, <4>1
    <3> QED BY <3>1, <3>2
  <2> QED BY <2>4, <2>7, <2>8
<1> QED BY <1>1, <1>2

LEMMA SuperTokens ==
  ASSUME NEW s, s # {}
  PROVE  IsSuperUser(s) <=> \E t \in s : parseGrant(t).zone = "" /\ Wild(t) /\ parseGrant(t).level >= LevelAdmin
BY DEF IsSuperUser, ParseScope, Wild

\* No step makes a scope empty, or a super-user's.
LEMMA SuperStep == TypeInv /\ SuperInv /\ [Next]_vars => SuperInv'
<1> SUFFICES ASSUME TypeInv, SuperInv, [Next]_vars, NEW s \in Store
             PROVE  scopes'[s] # {} /\ ~IsSuperUser(scopes'[s])
  BY DEF SuperInv
<1>0. scopes[s] # {} /\ ~IsSuperUser(scopes[s]) /\ scopes[s] \subseteq Token
  BY DEF SuperInv, TypeInv
<1>1. CASE scopes' = scopes
  BY <1>0, <1>1
<1>2. ASSUME NEW r \in Req, NEW st, RewriteScopes(r, st, "tokens") \/ RewriteScopes(r, st, "clear"),
             st \in Store, scopes' # scopes
      PROVE  scopes'[s] # {} /\ ~IsSuperUser(scopes'[s])
  <2>1. scopes' = [scopes EXCEPT ![st] = Rewritten(@, rq[r])] /\ rq[r].pc = st
    BY <1>2 DEF RewriteScopes, At
  <2>2. rq[r].op \in Special /\ rq[r].old \in Key /\ rq[r].new \in Key
    BY <1>2, <2>1, RqParts DEF Shape, Store
  <2>3. CASE s # st
    BY <1>0, <2>1, <2>3 DEF TypeInv
  <2>4. CASE s = st
    <3>1. scopes'[s] = Rewritten(scopes[s], rq[r])
      BY <2>1, <2>4 DEF TypeInv
    <3> DEFINE z == Rewritten(scopes[s], rq[r])
    <3>2. /\ z # {}
          /\ \A u \in z : u \in scopes[s] \/ ~Wild(u)
      BY <1>0, <2>2, RewrittenTokens
    <3> HIDE DEF z
    <3> QED BY <1>0, <3>1, <3>2, SuperTokens DEF z
  <2> QED BY <2>3, <2>4
<1>3. ASSUME NEW r \in Req, NEW st, Purge(r, st, "purge_tokens") \/ Purge(r, st, "remove"),
             st \in Store, scopes' # scopes
      PROVE  scopes'[s] # {} /\ ~IsSuperUser(scopes'[s])
  <2>1. scopes' = [scopes EXCEPT ![st] = Purged(@, rq[r])]
    BY <1>3 DEF Purge
  <2>3. CASE s # st
    BY <1>0, <2>1, <2>3 DEF TypeInv
  <2>4. CASE s = st
    <3>1. scopes'[s] = Purged(scopes[s], rq[r])
      BY <2>1, <2>4 DEF TypeInv
    <3> DEFINE z == Purged(scopes[s], rq[r])
    <3>2. /\ z # {}
          /\ \A u \in z : u \in scopes[s] \/ ~Wild(u)
      BY <1>0, PurgedTokens, NoneGrant
    <3> HIDE DEF z
    <3> QED BY <1>0, <3>1, <3>2, SuperTokens DEF z
  <2> QED BY <2>3, <2>4
<1>4. "users" \in Store /\ "tokens" \in Store
  BY DEF Store
<1> QED BY <1>1, <1>2, <1>3, <1>4 DEF Next, vars, Request, Lock, Mark, Rename, Siblings, Registry, Clear, Remove,
      Deregister, InitProject, Catalog, registerManagedProject, Check, Lease, Write, CreateNamespace, Recover,
      Crash, StartupInit, relocateLeftovers

GrantOK(s) ==
  /\ \A t \in scopes[s] : Live(t) /\ Wild(t) =>
       \E u \in FirstScope(s) : Live(u) /\ Wild(u) /\ parseGrant(u).level = parseGrant(t).level
  /\ \A x \in Reach(s) : Held(s, dirs, nsdirs, x) /\ \A r \in Req : Spares(rq[r], s, x)

LEMMA HeldKept ==
  ASSUME NEW s, NEW d, NEW nd, NEW e, NEW ne, NEW x, Held(s, d, nd, x),
         x[1][1] \in DOMAIN nd /\ x[1][2] = NoName => x[1][1] \in DOMAIN ne /\ ne[x[1][1]] = nd[x[1][1]],
         x[1] \in DOMAIN d => x[1] \in DOMAIN e /\ e[x[1]] = d[x[1]]
  PROVE  Held(s, e, ne, x)
BY DEF Held

LEMMA ReachSame ==
  ASSUME NEW s, scopes'[s] = scopes[s], Moves(s)' <=> Moves(s),
         Moves(s) => mu' = mu /\ rq'[mu].op = rq[mu].op /\ rq'[mu].old = rq[mu].old /\ rq'[mu].new = rq[mu].new
  PROVE  Reach(s)' = Reach(s)
<1>1. \A t : (Seen(s, t))' = Seen(s, t)
  BY DEF Seen, Turned
<1> QED BY <1>1 DEF Reach

LEMMA ReachParts ==
  ASSUME TypeInv, NEW s \in Store, NEW x \in Reach(s)
  PROVE  \E t \in scopes[s] : /\ t \in Token /\ Live(t) /\ ~Wild(t) /\ x = <<Seen(s, t), parseGrant(t).level>>
BY DEF Reach, TypeInv

\* Two requests that do not clash: what the one renames is not what the other deletes.
LEMMA TurnedApart ==
  ASSUME TypeInv, ClashInv, ~raced, NEW r \in Req, NEW u \in Req, r # u,
         rq[r].pc # "idle", rq[r].op \in Special, rq[u].pc # "idle", NEW y, Turned(rq[r], y) # y
  PROVE  /\ rq[u].op = "delete_project" => Turned(rq[r], y) # rq[u].old
         /\ rq[u].op = "delete_namespace" => Turned(rq[r], y)[1] # rq[u].old[1]
         /\ rq[u].op = "rename_namespace" =>
              ~(Turned(rq[r], y)[2] = NoName /\ Turned(rq[r], y)[1] = rq[u].new[1])
<1>1. ~Clash(rq[r], rq[u])
  BY DEF ClashInv
<1>2. rq[r].old \in Key /\ rq[r].new \in Key /\ rq[u].old \in Key /\ rq[u].new \in Key
  BY RqParts
<1>3. NoName \notin Proj
  BY ProjectsAssumption DEF None
<1>4. rq[u].new[1] \in Ns /\ rq[r].new[1] \in Ns /\ rq[r].new[2] \in Proj
  BY <1>2, KeyParts
<1>5. rq[u].op \in {"delete_project", "delete_namespace"} => Touches(rq[r]) \cap Touches(rq[u]) = {}
  BY <1>1 DEF Clash, Special
<1>6. CASE rq[r].op = "rename_namespace"
  <2>1. Turned(rq[r], y)[1] = rq[r].new[1]
    BY <1>6 DEF Turned
  <2>2. Touches(rq[r]) = {k \in Key : k[1] \in {rq[r].old[1], rq[r].new[1]}}
    BY <1>6 DEF Touches
  <2>3. rq[u].op = "rename_namespace" =>
          Touches(rq[u]) = {k \in Key : k[1] \in {rq[u].old[1], rq[u].new[1]}}
    BY DEF Touches
  <2>4. rq[u].op = "delete_namespace" =>
          Touches(rq[u]) = {k \in Key : k[1] \in {rq[u].old[1], rq[u].new[1]}}
    BY DEF Touches
  <2>5. rq[u].op = "delete_project" => rq[u].old \in Touches(rq[u])
    BY DEF Touches
  <2>6. ASSUME rq[u].op = "rename_namespace" PROVE Turned(rq[r], y)[1] # rq[u].new[1]
    <3>1. SUFFICES ASSUME rq[r].new[1] = rq[u].new[1] PROVE FALSE
      BY <2>1
    <3>2. rq[r].new \in Touches(rq[r]) /\ rq[r].new \in Touches(rq[u])
      BY <1>2, <2>2, <2>3, <2>6, <3>1
    <3> QED BY <1>1, <1>6, <2>6, <3>1, <3>2 DEF Clash
  <2> QED BY <1>2, <1>5, <2>1, <2>2, <2>4, <2>5, <2>6
<1>7. CASE rq[r].op # "rename_namespace"
  <2>1. Turned(rq[r], y) = rq[r].new
    BY <1>7 DEF Turned
  <2>2. rq[r].new \in Touches(rq[r])
    BY <1>7 DEF Touches, Special
  <2>4. rq[u].op = "delete_namespace" =>
          Touches(rq[u]) = {k \in Key : k[1] \in {rq[u].old[1], rq[u].new[1]}}
    BY DEF Touches
  <2>5. rq[u].op = "delete_project" => rq[u].old \in Touches(rq[u])
    BY DEF Touches
  <2> QED BY <1>2, <1>3, <1>4, <1>5, <2>1, <2>2, <2>4, <2>5
<1> QED BY <1>6, <1>7

LEMMA MovesOther ==
  ASSUME TypeInv, FenceInv, NEW r \in Req, NEW s, mu # r, UNCHANGED mu, \A u \in Req \ {r} : rq'[u] = rq[u]
  PROVE  /\ Moves(s)' <=> Moves(s)
         /\ Moves(s) => mu' = mu /\ rq'[mu].op = rq[mu].op /\ rq'[mu].old = rq[mu].old /\ rq'[mu].new = rq[mu].new
BY DEF Moves, FenceInv

LEMMA RqGoto ==
  ASSUME TypeInv, NEW r \in Req, RqNext(r), NEW p, Goto(r, p)
  PROVE  rq'[r].pc = p /\ rq'[r].op = rq[r].op /\ rq'[r].old = rq[r].old /\ rq'[r].new = rq[r].new
<1>1. rq[r] \in [pc : PC, op : Op, old : Key, new : Key]
  BY RqSame, RqParts DEF TypeInv, RqType, Idle
<1> QED BY <1>1 DEF Goto, TypeInv

\* The steps of requests that neither move a directory nor change a scope.
LEMMA ReachQuiet ==
  ASSUME TypeInv, FenceInv, NEW r \in Req, RqNext(r), NEW s \in Store, scopes' = scopes, ~unfinished',
         ~(Rename(r) /\ CanRename(rq[r])),
         ~(RewriteScopes(r, "users", "tokens") \/ RewriteScopes(r, "tokens", "clear"))
  PROVE  Reach(s)' = Reach(s)
<1>n. None \notin Req
  BY ProjectsAssumption
<1>o. \A u \in Req \ {r} : rq'[u] = rq[u]
  BY RqSame
<1>1. CASE Lock(r)
  <2>1. ~Moves(s)
    BY <1>1 DEF Lock, Moves
  <2>2. ~Moves(s)'
    <3>1. mu' = None \/ (mu' = r /\ Goto(r, "mark"))
      BY <1>1 DEF Lock
    <3>2. mu' = r => rq'[r].pc = "mark"
      BY <1>n, <3>1, RqGoto
    <3> QED BY <3>1, <3>2 DEF Moves
  <2> QED BY <2>1, <2>2, ReachSame
<1>2. CASE Mark(r)
  <2>1. mu = r /\ rq[r].pc = "mark" /\ rq'[r].pc = "rename" /\ mu' = mu
    BY <1>2, RqGoto DEF Mark, At, FenceInv, HeldPC
  <2>2. ~Moves(s) /\ ~Moves(s)'
    BY <2>1 DEF Moves
  <2> QED BY <2>2, ReachSame
<1>3. CASE Rename(r)
  <2>1. mu = r /\ rq[r].pc = "rename" /\ mu' = None
    BY <1>3 DEF Rename, At, FenceInv, HeldPC, Unfence
  <2>2. ~Moves(s) /\ ~Moves(s)'
    BY <2>1 DEF Moves
  <2> QED BY <2>2, ReachSame
<1>4. CASE Siblings(r) \/ Registry(r)
  <2>1. mu = r /\ rq[r].pc \in {"siblings", "registry"}
    BY <1>4 DEF Siblings, Registry, At, FenceInv, HeldPC
  <2>2. mu' = mu /\ \E p \in {"registry", "users"} : Goto(r, p)
    BY <1>4 DEF Siblings, Registry, Fail, fence
  <2>3. /\ rq'[r].pc \in {"registry", "users"} /\ rq'[r].op = rq[r].op /\ rq'[r].old = rq[r].old
        /\ rq'[r].new = rq[r].new
    BY <2>2, RqGoto
  <2>4. Moves(s) /\ Moves(s)'
    BY <2>1, <2>2, <2>3, <1>n DEF Moves
  <2> QED BY <2>1, <2>2, <2>3, <2>4, ReachSame
<1>5. CASE Clear(r)
  <2>1. mu = r /\ rq[r].pc = "clear" /\ mu' = None
    BY <1>5 DEF Clear, At, FenceInv, HeldPC, Unfence
  <2>2. ~Moves(s) /\ ~Moves(s)'
    BY <2>1 DEF Moves
  <2> QED BY <2>2, ReachSame
<1>6. CASE \/ Purge(r, "users", "purge_tokens") \/ Purge(r, "tokens", "remove") \/ Remove(r)
           \/ Deregister(r) \/ InitProject(r) \/ Catalog(r) \/ registerManagedProject(r)
  <2>1. UNCHANGED mu /\ rq[r].pc \notin HeldPC
    BY <1>6 DEF Purge, Remove, Deregister, InitProject, Catalog, registerManagedProject, fence, At, HeldPC
  <2>2. mu # r
    BY <2>1, <1>n DEF FenceInv
  <2> QED BY <1>o, <2>1, <2>2, MovesOther, ReachSame
<1> QED BY <1>1, <1>2, <1>3, <1>4, <1>5, <1>6 DEF RqNext

\* A request takes away, or replaces, only the namespace directories it names.
LEMMA KeptNs ==
  ASSUME TypeInv, NEW r \in Req, RqNext(r), NEW n \in DOMAIN nsdirs,
         Rename(r) /\ rq[r].op = "rename_namespace" => n \notin {rq[r].old[1], rq[r].new[1]},
         Remove(r) /\ rq[r].op = "delete_namespace" => n # rq[r].old[1]
  PROVE  n \in DOMAIN nsdirs' /\ nsdirs'[n] = nsdirs[n]
<1>1. CASE UNCHANGED nsdirs
  BY <1>1
<1>2. CASE Rename(r) /\ ~UNCHANGED nsdirs
  <2>1. CanRename(rq[r]) /\ rq[r].op = "rename_namespace"
    BY <1>2 DEF Rename, disk
  <2> DEFINE a == rq[r].old[1]
             b == rq[r].new[1]
  <2>2. nsdirs' = Rekey(nsdirs, a, b) /\ a \in DOMAIN nsdirs /\ n # a /\ n # b
    BY <1>2, <2>1 DEF Rename, CanRename
  <2>3. a # b
    BY <1>2, <2>1, RqParts DEF Rename, At, Shape, Names, HeldPC, Special
  <2> HIDE DEF a, b
  <2> QED BY <2>2, <2>3 DEF Rekey, Put, Drop
<1>3. CASE Remove(r) /\ ~UNCHANGED nsdirs
  <2>1. nsdirs' = Drop(nsdirs, {rq[r].old[1]}) /\ n # rq[r].old[1]
    BY <1>3 DEF Remove
  <2> QED BY <2>1 DEF Drop
<1>4. CASE InitProject(r) /\ ~UNCHANGED nsdirs
  <2>1. nsdirs' = Put(nsdirs, rq[r].old[1], nextId) /\ rq[r].old[1] \notin DOMAIN nsdirs
    BY <1>4 DEF InitProject
  <2> QED BY <2>1 DEF Put
<1> QED BY <1>1, <1>2, <1>3, <1>4 DEF RqNext, Lock, Mark, Siblings, Registry, RewriteScopes, Clear, Purge,
      Deregister, Catalog, registerManagedProject, disk

\* What a scope reaches stays on disk, but for a rename.
LEMMA HeldStep ==
  ASSUME TypeInv, NEW r \in Req, RqNext(r), ~(Rename(r) /\ CanRename(rq[r])), NEW s, NEW x,
         Held(s, dirs, nsdirs, x), Spares(rq[r], s, x)
  PROVE  Held(s, dirs', nsdirs', x)
<1>q. /\ rq[r].pc # "idle" /\ Shape(rq[r]) /\ rq[r].op \in Op
  BY RqSame, RqParts
<1>1. ASSUME x[1] \in DOMAIN dirs PROVE x[1] \in DOMAIN dirs' /\ dirs'[x[1]] = dirs[x[1]]
  <2>1. CASE UNCHANGED dirs
    BY <1>1, <2>1
  <2>2. CASE ~UNCHANGED dirs
    <3>1. Remove(r) \/ InitProject(r)
      BY <2>2 DEF RqNext, Lock, Mark, Rename, Siblings, Registry, RewriteScopes, Clear, Purge,
      Deregister, Catalog, registerManagedProject, disk
    <3>2. x[1] \notin Takes(rq[r])
      <4>1. CASE Remove(r)
        <5>1. rq[r].pc = "remove" /\ rq[r].op \in {"delete_project", "delete_namespace"}
          BY <4>1, <1>q DEF Remove, At, Shape, HeldPC
        <5> QED BY <5>1 DEF Spares, Takes
      <4>2. CASE InitProject(r)
        <5>1. rq[r].pc = "init"
          BY <4>2 DEF InitProject, At
        <5> QED BY <5>1 DEF Takes
      <4> QED BY <3>1, <4>1, <4>2
    <3> QED BY <1>1, <3>2, KeptDirs
  <2> QED BY <2>1, <2>2
<1>2. ASSUME x[1][1] \in DOMAIN nsdirs, x[1][2] = NoName
      PROVE  x[1][1] \in DOMAIN nsdirs' /\ nsdirs'[x[1][1]] = nsdirs[x[1][1]]
  <2>1. CASE UNCHANGED nsdirs
    BY <1>2, <2>1
  <2>2. CASE ~UNCHANGED nsdirs
    <3>1. ~Rename(r)
      BY <2>2 DEF Rename, disk
    <3>2. Remove(r) => rq[r].pc = "remove"
      BY DEF Remove, At
    <3> QED BY <1>2, <3>1, <3>2, KeptNs DEF Spares
  <2> QED BY <2>1, <2>2
<1> QED BY <1>1, <1>2, HeldKept

\* A request spares what it spared, unless it purges.
LEMMA SparesStep ==
  ASSUME TypeInv, NEW r \in Req, RqNext(r), NEW s, NEW x, Spares(rq[r], s, x),
         ~(Purge(r, "users", "purge_tokens") \/ Purge(r, "tokens", "remove"))
  PROVE  Spares(rq'[r], s, x)
<1>1. CASE rq'[r] = Idle
  BY <1>1 DEF Spares, Idle
<1>2. CASE rq'[r] # Idle
  <2>1. ~End(r)
    BY <1>2, EndRq
  <2>2. \/ /\ Lock(r) \/ Mark(r)
           /\ rq[r].pc \in {"lock", "mark"} /\ rq'[r].pc \in {"mark", "rename"}
        \/ rq'[r].pc \in {"siblings", "registry", "users", "tokens", "clear", "deregister", "catalog", "register"}
    <3>1. CASE Lock(r) \/ Mark(r)
      BY <2>1, <3>1, RqGoto DEF Lock, Mark, At
    <3>2. CASE ~(Lock(r) \/ Mark(r))
      <4>1. \E p \in {"siblings", "registry", "users", "tokens", "clear", "deregister", "catalog", "register"} :
              Goto(r, p)
        BY <2>1, <3>2 DEF RqNext, Rename, Siblings, Registry, RewriteScopes, Clear, Remove, Deregister,
           InitProject, Catalog, registerManagedProject, Fail
      <4> QED BY <4>1, RqGoto
    <3> QED BY <3>1, <3>2
  <2>3. rq'[r].op = rq[r].op /\ rq'[r].new = rq[r].new
    BY <1>2, RqSame DEF Same
  <2> QED BY <2>2, <2>3 DEF Spares
<1> QED BY <1>1, <1>2

LEMMA GrantQuiet ==
  ASSUME TypeInv, FenceInv, NEW r \in Req, RqNext(r), NEW s \in Store, scopes' = scopes, ~unfinished',
         ~(Rename(r) /\ CanRename(rq[r])),
         ~(RewriteScopes(r, "users", "tokens") \/ RewriteScopes(r, "tokens", "clear")),
         ~(Purge(r, "users", "purge_tokens") \/ Purge(r, "tokens", "remove")),
         GrantOK(s)
  PROVE  GrantOK(s)'
<1>1. Reach(s)' = Reach(s)
  BY ReachQuiet
<1>2. ASSUME NEW x \in Reach(s)
      PROVE  Held(s, dirs', nsdirs', x) /\ \A u \in Req : Spares(rq'[u], s, x)
  <2>1. Held(s, dirs, nsdirs, x) /\ \A u \in Req : Spares(rq[u], s, x)
    BY <1>2 DEF GrantOK
  <2>2. Spares(rq'[r], s, x)
    BY <2>1, SparesStep
  <2>3. Held(s, dirs', nsdirs', x)
    BY <2>1, HeldStep
  <2> QED BY <2>1, <2>2, <2>3, RqSame
<1> QED BY <1>1, <1>2 DEF GrantOK

LEMMA GrantPurge ==
  ASSUME TypeInv, FenceInv, ClashInv, SuperInv, ~raced, NEW r \in Req, NEW st \in Store, NEW next,
         RqNext(r), st = "users" => next = "purge_tokens", st = "tokens" => next = "remove",
         Purge(r, st, next), NEW s \in Store, GrantOK(s)
  PROVE  GrantOK(s)'
<1>n. None \notin Req /\ NoName \notin Proj
  BY ProjectsAssumption DEF None
<1>q. /\ rq[r].pc # "idle" /\ rq[r].pc = (IF st = "users" THEN "purge_users" ELSE "purge_tokens")
      /\ rq[r].op \in {"delete_project", "delete_namespace"} /\ rq[r].old \in Key
  BY RqSame, RqParts DEF Purge, At, Shape, HeldPC
<1>o. rq[r].old = <<rq[r].old[1], rq[r].old[2]>> /\ rq[r].old[2] \in Proj
  BY <1>q, KeyParts
<1>u. \A u \in Req \ {r} : rq'[u] = rq[u]
  BY RqSame
<1>m. UNCHANGED <<mu, dirs, nsdirs>> /\ mu # r
  BY <1>q, <1>n DEF Purge, fence, disk, FenceInv, HeldPC
<1>v. Moves(s)' <=> Moves(s)
  BY <1>m, <1>u, MovesOther
<1>w. Moves(s) => mu' = mu /\ rq'[mu].op = rq[mu].op /\ rq'[mu].old = rq[mu].old /\ rq'[mu].new = rq[mu].new
  BY <1>m, <1>u, MovesOther
<1>p. rq'[r] = Idle \/ (rq'[r].pc = next /\ rq'[r].op = rq[r].op /\ rq'[r].old = rq[r].old)
  <2>1. End(r) \/ Goto(r, next)
    BY DEF Purge
  <2> QED BY <2>1, RqGoto, EndRq
<1>1. CASE scopes'[s] = scopes[s] /\ (s = st => rq'[r] = Idle)
  <2>1. Reach(s)' = Reach(s)
    BY <1>1, <1>v, <1>w, ReachSame
  <2>2. ASSUME NEW x \in Reach(s) PROVE Spares(rq'[r], s, x)
    <3>1. Spares(rq[r], s, x)
      BY <2>2 DEF GrantOK
    <3>2. CASE rq'[r] = Idle
      BY <3>2 DEF Spares, Idle
    <3>3. CASE rq'[r] # Idle
      <4>1. s # st
        BY <1>1, <3>3
      <4> QED BY <1>p, <1>q, <3>1, <3>3, <4>1 DEF Spares, Store
    <3> QED BY <3>2, <3>3
  <2> QED BY <1>1, <1>m, <1>u, <2>1, <2>2 DEF GrantOK
<1>2. CASE s = st /\ scopes'[s] = Purged(scopes[s], rq[r])
  <2> DEFINE z == Purged(scopes[s], rq[r])
  <2>1. /\ \A t \in z : t \in scopes[s] \/ t = NoneToken
        /\ \A t \in z : t # NoneToken /\ ~Wild(t) =>
              IF rq[r].op = "delete_namespace" THEN parseGrant(t).ns # rq[r].old[1]
              ELSE ~(parseGrant(t).ns = rq[r].old[1] /\ parseGrant(t).proj = rq[r].old[2])
    BY PurgedTokens DEF SuperInv
  <2> HIDE DEF z
  <2>2. scopes'[s] = z
    BY <1>2 DEF z
  <2>3. \A t : (Seen(s, t))' = Seen(s, t)
    BY <1>v, <1>w DEF Seen, Turned
  <2>4. ASSUME NEW x \in Reach(s)'
        PROVE  /\ x \in Reach(s)
               /\ rq[r].op = "delete_project" => x[1] # rq[r].old
               /\ rq[r].op = "delete_namespace" => x[1][1] # rq[r].old[1]
    <3>1. PICK t \in z : Live(t) /\ ~Wild(t) /\ x = <<Seen(s, t), parseGrant(t).level>>
      BY <2>2, <2>3, <2>4 DEF Reach
    <3>2. t # NoneToken /\ t \in scopes[s]
      BY <2>1, <3>1, NoneGrant
    <3>3. x \in Reach(s)
      BY <3>1, <3>2 DEF Reach
    <3>4. /\ rq[r].op = "delete_project" => NameOf(t) # rq[r].old
          /\ rq[r].op = "delete_namespace" => NameOf(t)[1] # rq[r].old[1]
      BY <1>o, <2>1, <3>1, <3>2 DEF NameOf
    <3>5. CASE Seen(s, t) = NameOf(t)
      BY <3>1, <3>3, <3>4, <3>5
    <3>6. CASE Seen(s, t) # NameOf(t)
      <4>1. mu \in Req /\ Moves(s) /\ Seen(s, t) = Turned(rq[mu], NameOf(t)) /\ Turned(rq[mu], NameOf(t)) # NameOf(t)
        BY <3>6 DEF Seen, Moves, FenceInv
      <4>2. rq[mu].pc \in HeldPC
        BY <4>1 DEF Moves, HeldPC
      <4>3. rq[mu].pc # "idle" /\ rq[mu].op \in Special
        BY <4>1, <4>2, RqParts DEF Shape, HeldPC
      <4>4. /\ rq[r].op = "delete_project" => Turned(rq[mu], NameOf(t)) # rq[r].old
            /\ rq[r].op = "delete_namespace" => Turned(rq[mu], NameOf(t))[1] # rq[r].old[1]
        BY <1>m, <1>q, <4>1, <4>3, TurnedApart
      <4> QED BY <3>1, <3>3, <4>1, <4>4
    <3> QED BY <3>5, <3>6
  <2>5. ASSUME NEW x \in Reach(s)' PROVE Spares(rq'[r], s, x)
    <3>1. CASE rq'[r] = Idle
      BY <3>1 DEF Spares, Idle
    <3>2. CASE rq'[r] # Idle
      BY <1>p, <1>q, <2>4, <2>5, <3>2 DEF Spares, Store
    <3> QED BY <3>1, <3>2
  <2>6. ASSUME NEW x \in Reach(s)'
        PROVE  Held(s, dirs', nsdirs', x) /\ \A u \in Req : Spares(rq'[u], s, x)
    <3>1. x \in Reach(s)
      BY <2>4, <2>6
    <3>2. Held(s, dirs, nsdirs, x) /\ \A u \in Req : Spares(rq[u], s, x)
      BY <3>1 DEF GrantOK
    <3> QED BY <1>m, <1>u, <2>5, <2>6, <3>2
  <2>7. \A t \in scopes'[s] : Live(t) => t \in scopes[s]
    BY <2>1, <2>2, NoneGrant
  <2> QED BY <2>6, <2>7 DEF GrantOK
<1>3. \/ scopes' = [scopes EXCEPT ![st] = Purged(@, rq[r])]
      \/ scopes' = scopes /\ End(r)
  BY DEF Purge
<1>4. scopes' = scopes /\ End(r) => rq'[r] = Idle
  BY EndRq
<1> QED BY <1>1, <1>2, <1>3, <1>4 DEF TypeInv

LEMMA GrantRewrite ==
  ASSUME TypeInv, FenceInv, SuperInv, NEW r \in Req, NEW st \in Store, NEW next,
         RqNext(r), st = "users" => next = "tokens", st = "tokens" => next = "clear",
         RewriteScopes(r, st, next), ~unfinished', NEW s \in Store, GrantOK(s)
  PROVE  GrantOK(s)'
<1>n. None \notin Req
  BY ProjectsAssumption
<1>0. /\ scopes' = [scopes EXCEPT ![st] = Rewritten(@, rq[r])] /\ Goto(r, next) /\ UNCHANGED <<mu, dirs, nsdirs>>
      /\ rq[r].pc = st
  BY DEF RewriteScopes, fence, disk, Fail, At
<1>q. rq[r].op \in Special /\ rq[r].old \in Key /\ rq[r].new \in Key /\ rq[r].pc # "idle"
  BY <1>0, RqSame, RqParts DEF Shape, Store
<1>m. mu = r
  BY <1>0 DEF FenceInv, Store, HeldPC
<1>p. rq'[r].pc = next /\ rq'[r].op = rq[r].op /\ rq'[r].old = rq[r].old /\ rq'[r].new = rq[r].new
  BY <1>0, RqGoto
<1>u. \A u \in Req \ {r} : rq'[u] = rq[u]
  BY RqSame
<1>1. CASE s # st
  <2>1. scopes'[s] = scopes[s]
    BY <1>0, <1>1 DEF TypeInv
  <2>2. Moves(s)' <=> Moves(s)
    BY <1>0, <1>1, <1>m, <1>n, <1>p DEF Moves, Store
  <2>3. Reach(s)' = Reach(s)
    BY <1>0, <1>m, <1>p, <2>1, <2>2, ReachSame
  <2>4. \A x : Spares(rq'[r], s, x)
    BY <1>p DEF Spares, Store
  <2> QED BY <1>0, <1>u, <2>1, <2>3, <2>4 DEF GrantOK
<1>2. CASE s = st
  <2> DEFINE z == Rewritten(scopes[s], rq[r])
  <2>1. \A u \in z :
              \/ u \in scopes[s] /\ (~Wild(u) => Turned(rq[r], NameOf(u)) = NameOf(u))
              \/ \E t \in scopes[s] : /\ ~Wild(t) /\ ~Wild(u) /\ NameOf(u) = Turned(rq[r], NameOf(t))
                                      /\ parseGrant(u).zone = parseGrant(t).zone
                                      /\ parseGrant(u).level = parseGrant(t).level
    BY <1>q, RewrittenTokens DEF SuperInv, TypeInv
  <2> HIDE DEF z
  <2>2. scopes'[s] = z
    BY <1>0, <1>2 DEF z, TypeInv
  <2>3. Moves(s) /\ ~Moves(s)'
    BY <1>0, <1>2, <1>m, <1>n, <1>p DEF Moves, Store
  <2>4. ASSUME NEW x \in Reach(s)' PROVE x \in Reach(s)
    <3>1. PICK u \in z : Live(u) /\ ~Wild(u) /\ x = <<NameOf(u), parseGrant(u).level>>
      BY <2>2, <2>3, <2>4 DEF Reach, Seen
    <3>2. CASE u \in scopes[s] /\ Turned(rq[r], NameOf(u)) = NameOf(u)
      <4>1. Seen(s, u) = NameOf(u)
        BY <1>m, <2>3, <3>2 DEF Seen
      <4> QED BY <3>1, <3>2, <4>1 DEF Reach
    <3>3. ASSUME NEW t \in scopes[s], ~Wild(t), NameOf(u) = Turned(rq[r], NameOf(t)),
                 parseGrant(u).zone = parseGrant(t).zone, parseGrant(u).level = parseGrant(t).level
          PROVE x \in Reach(s)
      <4>1. Seen(s, t) = NameOf(u) /\ Live(t)
        BY <1>m, <2>3, <3>1, <3>3 DEF Seen, Live
      <4> QED BY <3>1, <3>3, <4>1 DEF Reach
    <3> QED BY <2>1, <3>1, <3>2, <3>3
  <2>5. \A x : Spares(rq'[r], s, x)
    BY <1>p DEF Spares, Store
  <2>6. \A u \in z : Wild(u) => u \in scopes[s]
    BY <2>1
  <2> QED BY <1>0, <1>u, <2>2, <2>4, <2>5, <2>6 DEF GrantOK
<1> QED BY <1>1, <1>2

LEMMA GrantPivot ==
  ASSUME TypeInv, FenceInv, ClashInv, ~raced, NEW r \in Req, RqNext(r), Rename(r), CanRename(rq[r]),
         NEW s \in Store, GrantOK(s)
  PROVE  GrantOK(s)'
<1>n. None \notin Req /\ NoName \notin Proj /\ NoName \notin Ns
  BY ProjectsAssumption DEF None
<1>q. /\ rq[r].pc = "rename" /\ rq[r].op \in Special /\ Names(rq[r]) /\ rq[r].old \in Key /\ rq[r].new \in Key
  BY RqSame, RqParts DEF Rename, At, Shape
<1>k. /\ rq[r].old = <<rq[r].old[1], rq[r].old[2]>> /\ rq[r].new = <<rq[r].new[1], rq[r].new[2]>>
      /\ rq[r].old[1] \in Ns /\ rq[r].new[1] \in Ns /\ rq[r].old[2] \in Proj
  BY <1>q, KeyParts
<1>d. IsMap(dirs, Key, Ids)
  BY DEF TypeInv
<1>m. mu = r /\ scopes' = scopes
  BY <1>q DEF FenceInv, HeldPC, Rename
<1>u. \A u \in Req \ {r} : rq'[u] = rq[u]
  BY RqSame
<1>p. /\ mu' = r /\ rq'[r].pc \in {"siblings", "registry"} /\ rq'[r].op = rq[r].op
      /\ rq'[r].old = rq[r].old /\ rq'[r].new = rq[r].new
  <2>1. mu' = r /\ (Goto(r, "siblings") \/ Goto(r, "registry"))
    BY <1>m DEF Rename, fence
  <2> QED BY <2>1, RqGoto
<1>v. ~Moves(s) /\ Moves(s)'
  BY <1>m, <1>n, <1>p, <1>q DEF Moves
<1>1. \A t : Seen(s, t) = NameOf(t) /\ (Seen(s, t))' = Turned(rq[r], NameOf(t))
  BY <1>v, <1>p DEF Seen, Turned
<1>2. ASSUME NEW x \in Reach(s)' PROVE Held(s, dirs', nsdirs', x) /\ \A u \in Req : Spares(rq'[u], s, x)
  <2>1. PICK t \in scopes[s] : Live(t) /\ ~Wild(t) /\ x = <<Turned(rq[r], NameOf(t)), parseGrant(t).level>>
    BY <1>1, <1>2, <1>m DEF Reach
  <2> DEFINE y == NameOf(t)
             l == parseGrant(t).level
  <2>2. <<y, l>> \in Reach(s)
    BY <1>1, <2>1 DEF Reach
  <2>3. Held(s, dirs, nsdirs, <<y, l>>) /\ \A u \in Req : Spares(rq[u], s, <<y, l>>)
    BY <2>2 DEF GrantOK
  <2>4. y = <<y[1], y[2]>>
    BY DEF NameOf
  <2>5. x = <<Turned(rq[r], y), l>> /\ x[1] = Turned(rq[r], y) /\ x[2] = l
    BY <2>1
  <2> HIDE DEF y, l
  <2>6. Held(s, dirs', nsdirs', x)
    <3>1. CASE y[1] = NoName
      <4>1. Turned(rq[r], y) = y
        BY <1>k, <1>n, <3>1 DEF Turned
      <4> QED BY <2>5, <3>1, <4>1 DEF Held
    <3>2. CASE y[2] = NoName /\ y[1] \in DOMAIN nsdirs /\ Entitled(s, nsdirs[y[1]], l)
      <4>1. CASE rq[r].op = "rename_namespace"
        <5> DEFINE a == rq[r].old[1]
                   b == rq[r].new[1]
        <5>1. nsdirs' = Rekey(nsdirs, a, b) /\ a # b /\ a \in DOMAIN nsdirs
          BY <4>1, <1>q DEF Rename, CanRename, Names
        <5>2. y[1] # b
          BY <2>3, <3>2, <4>1, <1>q DEF Spares
        <5>3. CASE y[1] = a
          <6>1. Turned(rq[r], y) = <<b, y[2]>>
            BY <4>1, <5>3 DEF Turned
          <6>2. b \in DOMAIN nsdirs' /\ nsdirs'[b] = nsdirs[a]
            <7> HIDE DEF a, b
            <7> QED BY <5>1 DEF Rekey, Put, Drop
          <6> QED BY <2>5, <3>2, <5>3, <6>1, <6>2 DEF Held
        <5>4. CASE y[1] # a
          <6>1. Turned(rq[r], y) = y
            BY <4>1, <5>4 DEF Turned
          <6>2. y[1] \in DOMAIN nsdirs' /\ nsdirs'[y[1]] = nsdirs[y[1]]
            <7> HIDE DEF a, b
            <7> QED BY <3>2, <5>1, <5>2, <5>4 DEF Rekey, Put, Drop
          <6> QED BY <2>5, <3>2, <6>1, <6>2 DEF Held
        <5> QED BY <5>3, <5>4
      <4>2. CASE rq[r].op # "rename_namespace"
        <5>1. Turned(rq[r], y) = y
          BY <1>k, <1>n, <3>2, <4>2 DEF Turned
        <5>2. nsdirs' = nsdirs
          BY <4>2 DEF Rename
        <5> QED BY <2>5, <3>2, <5>1, <5>2 DEF Held
      <4> QED BY <4>1, <4>2
    <3>3. CASE y \in DOMAIN dirs /\ Entitled(s, dirs[y], l)
      <4>0. y \in Key
        BY <1>d, <3>3 DEF IsMap
      <4>1. CASE y \notin Takes(rq[r])
        <5>1. y \in DOMAIN dirs' /\ dirs'[y] = dirs[y]
          BY <3>3, <4>1, KeptDirs
        <5>2. Turned(rq[r], y) = y
          BY <1>q, <4>0, <4>1 DEF Turned, Takes, Special
        <5> QED BY <2>5, <3>3, <5>1, <5>2 DEF Held
      <4>2. CASE y \in Takes(rq[r]) /\ rq[r].op = "rename_namespace"
        <5> DEFINE a == rq[r].old[1]
                   b == rq[r].new[1]
        <5>1. dirs' = Rehome(dirs, a, b) /\ a # b /\ a \in Ns /\ b \in Ns /\ Under(dirs, b) = {}
          BY <1>k, <1>q, <4>2 DEF Rename, CanRename, Names
        <5>2. y[1] = a
          BY <1>q, <4>2 DEF Takes
        <5>3. Turned(rq[r], y) = <<b, y[2]>>
          BY <4>2, <5>2 DEF Turned
        <5> HIDE DEF a, b
        <5> DEFINE z == <<b, y[2]>>
        <5>4. z \in Key /\ z[1] = b /\ <<a, z[2]>> = y
          BY <2>4, <4>0, <5>1, <5>2, KeyParts DEF Key
        <5> HIDE DEF z
        <5>5. z \in DOMAIN Rehome(dirs, a, b)
          BY <1>d, <3>3, <5>1, <5>4, RehomeDom
        <5>6. \A j \in DOMAIN Rehome(dirs, a, b) :
              Rehome(dirs, a, b)[j] = dirs[IF j[1] = b THEN <<a, j[2]>> ELSE j]
          BY <1>d, <5>1, RehomeMap
        <5>7. Rehome(dirs, a, b)[z] = dirs[y]
          BY <5>4, <5>5, <5>6
        <5> QED BY <2>5, <3>3, <5>1, <5>3, <5>5, <5>7 DEF Held, z
      <4>3. CASE y \in Takes(rq[r]) /\ rq[r].op # "rename_namespace"
        <5>1. dirs' = Rekey(dirs, rq[r].old, rq[r].new) /\ y = rq[r].old
          BY <1>q, <4>3 DEF Rename, Takes, Special
        <5>2. Turned(rq[r], y) = rq[r].new
          BY <4>3, <5>1 DEF Turned
        <5>3. rq[r].new \in DOMAIN dirs' /\ dirs'[rq[r].new] = dirs[y]
          BY <3>3, <5>1 DEF Rekey, Put, Drop
        <5> QED BY <2>5, <3>3, <5>2, <5>3 DEF Held
      <4> QED BY <4>1, <4>2, <4>3
    <3> QED BY <2>3, <3>1, <3>2, <3>3 DEF Held
  <2>7. Spares(rq'[r], s, x)
    BY <1>p DEF Spares
  <2>8. ASSUME NEW u \in Req \ {r} PROVE Spares(rq'[u], s, x)
    <3>0. rq'[u] = rq[u] /\ Spares(rq[u], s, <<y, l>>)
      BY <1>u, <2>3
    <3>1. CASE Turned(rq[r], y) = y
      BY <2>5, <3>0, <3>1
    <3>2. CASE Turned(rq[r], y) # y
      <4>1. CASE rq[u].pc = "idle"
        <5>1. rq[u] = Idle
          BY <4>1, RqParts
        <5> QED BY <3>0, <5>1 DEF Spares, Idle
      <4>2. CASE rq[u].pc # "idle"
        <5>1. /\ rq[u].op = "delete_project" => Turned(rq[r], y) # rq[u].old
              /\ rq[u].op = "delete_namespace" => Turned(rq[r], y)[1] # rq[u].old[1]
              /\ rq[u].op = "rename_namespace" =>
                   ~(Turned(rq[r], y)[2] = NoName /\ Turned(rq[r], y)[1] = rq[u].new[1])
          BY <1>q, <3>2, <4>2, TurnedApart
        <5> QED BY <2>5, <3>0, <5>1 DEF Spares
      <4> QED BY <4>1, <4>2
    <3> QED BY <3>1, <3>2
  <2> QED BY <2>6, <2>7, <2>8
<1> QED BY <1>2, <1>m DEF GrantOK

\* The ghosts stay set.
LEMMA GhostStep ==
  ASSUME TypeInv, [Next]_vars
  PROVE  (~raced' => ~raced) /\ (~unfinished' => ~unfinished)
<1> DEFINE Goal == (~raced' => ~raced) /\ (~unfinished' => ~unfinished)
<1>1. ASSUME NEW r \in Req, Lock(r) \/ Mark(r) \/ Rename(r) \/ Siblings(r) \/ Clear(r) \/ Deregister(r)
                            \/ InitProject(r) \/ Catalog(r) \/ registerManagedProject(r)
      PROVE  Goal
  BY <1>1 DEF Lock, Mark, Rename, Siblings, Clear, Deregister, InitProject, Catalog, registerManagedProject, ghosts
<1>2. ASSUME NEW r \in Req, Registry(r) PROVE Goal
  BY <1>2 DEF Registry, Fail
<1>3. ASSUME NEW r \in Req, RewriteScopes(r, "users", "tokens") \/ RewriteScopes(r, "tokens", "clear") PROVE Goal
  BY <1>3 DEF RewriteScopes, Fail
<1>4. ASSUME NEW r \in Req, Purge(r, "users", "purge_tokens") \/ Purge(r, "tokens", "remove") PROVE Goal
  BY <1>4 DEF Purge, ghosts
<1>5. ASSUME NEW r \in Req, Remove(r) PROVE Goal
  BY <1>5 DEF Remove
<1>6. ASSUME NEW r \in Req, Request(r) PROVE Goal
  BY <1>6 DEF Request
<1>7. ASSUME NEW w \in Writer, Check(w) \/ Lease(w) \/ Write(w) PROVE Goal
  BY <1>7 DEF Check, Lease, Write, ghosts
<1>8. CASE CreateNamespace
  <2>1. PICK n : raced' = (raced \/ \E r \in Req : \E k \in Touches(rq[r]) : k[1] = n)
    BY <1>8 DEF CreateNamespace
  <2>2. unfinished' = unfinished
    BY <1>8 DEF CreateNamespace
  <2> QED BY <2>1, <2>2
<1>12. CASE Recover
  <2>1. PICK k : raced' = (raced \/ \E r \in Req : \E j \in Touches(rq[r]) : j[1] = k[1])
    BY <1>12 DEF Recover
  <2>2. unfinished' = unfinished
    BY <1>12 DEF Recover
  <2> QED BY <2>1, <2>2
<1>9. CASE Crash
  BY <1>9 DEF Crash
<1>10. CASE StartupInit \/ relocateLeftovers
  BY <1>10 DEF StartupInit, relocateLeftovers, ghosts
<1>11. CASE UNCHANGED vars
  BY <1>11 DEF vars, ghosts
<1> QED BY <1>1, <1>2, <1>3, <1>4, <1>5, <1>6, <1>7, <1>8, <1>9, <1>10, <1>11, <1>12 DEF Next

LEMMA GrantStep ==
  TypeInv /\ FenceInv /\ ClashInv /\ SuperInv /\ GrantInv /\ [Next]_vars => GrantInv'
<1> SUFFICES ASSUME TypeInv, FenceInv, ClashInv, SuperInv, GrantInv, [Next]_vars, ~raced', ~unfinished',
                    NEW s \in Store
             PROVE  GrantOK(s)'
  BY DEF GrantInv, GrantOK
<1>n. None \notin Req /\ NoName \notin Ns /\ NoName \notin Proj
  BY ProjectsAssumption DEF None
<1>st. "users" \in Store /\ "tokens" \in Store
  BY DEF Store
<1>0. ~raced /\ ~unfinished
  BY GhostStep
<1>g. GrantOK(s)
  BY <1>0 DEF GrantInv, GrantOK
\* A step that only adds directories.
<1> DEFINE Grows == /\ scopes' = scopes
                    /\ \A k \in DOMAIN dirs : k \in DOMAIN dirs' /\ dirs'[k] = dirs[k]
                    /\ \A n \in DOMAIN nsdirs : n \in DOMAIN nsdirs' /\ nsdirs'[n] = nsdirs[n]
<1>h. ASSUME Grows, UNCHANGED <<rq, mu>> PROVE GrantOK(s)'
  <2>1. Reach(s)' = Reach(s)
    <3>1. Moves(s)' <=> Moves(s)
      BY <1>h DEF Moves
    <3> QED BY <1>h, <3>1, ReachSame
  <2>2. ASSUME NEW x \in Reach(s) PROVE Held(s, dirs', nsdirs', x) /\ \A r \in Req : Spares(rq'[r], s, x)
    <3>1. Held(s, dirs, nsdirs, x) /\ \A r \in Req : Spares(rq[r], s, x)
      BY <1>g, <2>2 DEF GrantOK
    <3> QED BY <1>h, <3>1, HeldKept
  <2> QED BY <1>g, <1>h, <2>1, <2>2 DEF GrantOK
<1> HIDE DEF Grows
<1>1. ASSUME NEW r \in Req, RqNext(r) PROVE GrantOK(s)'
  <2>1. CASE Rename(r) /\ CanRename(rq[r])
    BY <1>0, <1>1, <1>g, <2>1, GrantPivot
  <2>2. CASE RewriteScopes(r, "users", "tokens") \/ RewriteScopes(r, "tokens", "clear")
    BY <1>1, <1>g, <1>st, <2>2, GrantRewrite
  <2>3. CASE Purge(r, "users", "purge_tokens") \/ Purge(r, "tokens", "remove")
    BY <1>0, <1>1, <1>g, <1>st, <2>3, GrantPurge
  <2>4. CASE ~(Rename(r) /\ CanRename(rq[r]))
             /\ ~(RewriteScopes(r, "users", "tokens") \/ RewriteScopes(r, "tokens", "clear"))
             /\ ~(Purge(r, "users", "purge_tokens") \/ Purge(r, "tokens", "remove"))
    <3>1. scopes' = scopes
      BY <1>1, <2>4 DEF RqNext, Lock, Mark, Rename, Siblings, Registry, Clear, Remove, Deregister,
         InitProject, Catalog, registerManagedProject
    <3> QED BY <1>1, <1>g, <2>4, <3>1, GrantQuiet
  <2> QED BY <2>1, <2>2, <2>3, <2>4
<1>2. ASSUME NEW r \in Req, Request(r) PROVE GrantOK(s)'
  <2>1. PICK op \in Special \cup {"delete_project", "delete_namespace", "create_project"},
             old \in Key, new \in Key :
          LET q == [pc |-> FirstStep(op), op |-> op, old |-> old, new |-> new]
          IN Checked(q) /\ rq' = [rq EXCEPT ![r] = q]
    BY <1>2 DEF Request
  <2> DEFINE q == [pc |-> FirstStep(op), op |-> op, old |-> old, new |-> new]
  <2>2. rq'[r] = q /\ q.pc = FirstStep(op) /\ q.op = op /\ q.new = new /\ Checked(q)
        /\ \A u \in Req \ {r} : rq'[u] = rq[u]
    BY <2>1 DEF TypeInv
  <2> HIDE DEF q
  <2>3. UNCHANGED <<scopes, mu, dirs, nsdirs>> /\ rq[r] = Idle
    BY <1>2 DEF Request, fence, disk
  <2>4. mu # r
    BY <2>3, <1>n DEF FenceInv, Idle, HeldPC
  <2>5. Reach(s)' = Reach(s)
    BY <2>2, <2>3, <2>4, MovesOther, ReachSame
  <2>6. ASSUME NEW x \in Reach(s) PROVE Spares(q, s, x)
    <3>1. Held(s, dirs, nsdirs, x)
      BY <1>g, <2>6 DEF GrantOK
    <3>2. CASE op = "rename_namespace"
      <4>1. new[1] \notin DOMAIN nsdirs /\ new[1] \in Ns
        BY <2>2, <3>2, KeyParts DEF Checked, RenameNamespace
      <4>2. x[1] \in DOMAIN dirs => x[1][2] \in Proj
        BY KeyParts DEF TypeInv, IsMap
      <4>3. ~(x[1][2] = NoName /\ x[1][1] = new[1])
        BY <1>n, <3>1, <4>1, <4>2 DEF Held
      <4> QED BY <2>2, <3>2, <4>3 DEF Spares, FirstStep, Special
    <3>3. CASE op # "rename_namespace"
      BY <2>2, <3>3 DEF Spares, FirstStep, Special
    <3> QED BY <3>2, <3>3
  <2> QED BY <1>g, <2>2, <2>3, <2>5, <2>6 DEF GrantOK
<1>3. ASSUME NEW w \in Writer, Check(w) \/ Lease(w) \/ Write(w) PROVE GrantOK(s)'
  <2>1. Grows
    <3>1. UNCHANGED <<scopes, dirs>>
      BY <1>3 DEF Check, Lease, Write, disk
    <3>2. nsdirs' = nsdirs \/ (wr[w].key[1] \notin DOMAIN nsdirs /\ nsdirs' = Put(nsdirs, wr[w].key[1], nextId))
      BY <1>3 DEF Check, Lease, Write, disk
    <3> QED BY <3>1, <3>2 DEF Grows, Put
  <2> QED BY <1>3, <1>h, <2>1 DEF Check, Lease, Write, fence
<1>4. CASE CreateNamespace
  <2>1. Grows
    <3>1. UNCHANGED <<scopes, dirs>>
      BY <1>4 DEF CreateNamespace
    <3>2. nsdirs' = nsdirs \/ \E n : n \notin DOMAIN nsdirs /\ nsdirs' = Put(nsdirs, n, nextId)
      BY <1>4 DEF CreateNamespace
    <3> QED BY <3>1, <3>2 DEF Grows, Put
  <2> QED BY <1>4, <1>h, <2>1 DEF CreateNamespace, fence
<1>5. CASE Recover \/ StartupInit \/ UNCHANGED vars
  <2>1. Grows
    BY <1>5 DEF Recover, StartupInit, vars, disk, Grows
  <2> QED BY <1>5, <1>h, <2>1 DEF Recover, StartupInit, vars, fence
<1>6. CASE Crash
  <2>1. mu' = None /\ UNCHANGED <<scopes, dirs, nsdirs>> /\ \A r \in Req : rq'[r] = Idle /\ ~PastPivot(rq[r])
    BY <1>6 DEF Crash, disk
  <2>2. ~Moves(s) /\ ~Moves(s)'
    BY <2>1 DEF Moves, FenceInv, PastPivot
  <2>3. Reach(s)' = Reach(s)
    BY <2>1, <2>2, ReachSame
  <2>4. \A x : Spares(Idle, s, x)
    BY DEF Spares, Idle
  <2> QED BY <1>g, <2>1, <2>3, <2>4 DEF GrantOK
<1>7. CASE relocateLeftovers
  <2>1. PICK k \in quar : dirs' = Drop(dirs, {k})
    BY <1>7 DEF relocateLeftovers
  <2>2. k \notin DOMAIN dirs
    BY <1>0 DEF ClashInv
  <2>3. Grows
    BY <1>7, <2>1, <2>2 DEF relocateLeftovers, Grows, Drop
  <2> QED BY <1>7, <1>h, <2>3 DEF relocateLeftovers, fence
<1> QED BY <1>1, <1>2, <1>3, <1>4, <1>5, <1>6, <1>7 DEF Next, RqNext

LEMMA InvInit == Init => FenceInv /\ ClashInv /\ WriterInv
<1> SUFFICES ASSUME Init PROVE FenceInv /\ ClashInv /\ WriterInv
  OBVIOUS
<1>1. FenceInv
  BY DEF Init, FenceInv, Idle, HeldPC
<1>2. ClashInv
  BY DEF Init, ClashInv, Clash, Touches, Idle
<1>3. WriterInv
  BY DEF Init, WriterInv
<1> QED BY <1>1, <1>2, <1>3

\* An acknowledged write is in the project it was made for (checkWritable, projectHasActiveLease).
THEOREM AckedHolds == Spec => []AckedInProject
<1>1. TypeInv /\ FenceInv /\ ClashInv /\ WriterInv /\ [Next]_vars
        => (TypeInv /\ FenceInv /\ ClashInv /\ WriterInv)'
  BY TypeStep, FenceStep, ClashStep, WriterStep
<1>2. WriterInv => AckedInProject
  BY DEF WriterInv, AckedInProject
<1> QED BY TypeInit, InvInit, <1>1, <1>2, PTL DEF Spec

LEMMA GrantInit == FirstGrants /\ Init => SuperInv /\ GrantInv
<1> SUFFICES ASSUME FirstGrants, Init PROVE SuperInv /\ GrantInv
  OBVIOUS
<1>0. \A s \in Store : scopes[s] = FirstScope(s) /\ FirstScope(s) # {}
  BY ProjectsAssumption DEF Init, Store, FirstScope
<1>1. SuperInv
  BY <1>0 DEF SuperInv, FirstGrants, Store
<1>2. ASSUME NEW s \in Store PROVE GrantOK(s)
  <2>1. ~Moves(s)
    BY DEF Init, Moves
  <2>2. ASSUME NEW x \in Reach(s) PROVE Held(s, dirs, nsdirs, x)
    <3>1. PICK t \in FirstScope(s) : Live(t) /\ ~Wild(t) /\ x = <<NameOf(t), parseGrant(t).level>>
      BY <1>0, <2>1, <2>2 DEF Reach, Seen
    <3> DEFINE g == parseGrant(t)
    <3>2. g \in ParseScope(FirstScope(s)) /\ g.zone = ""
      BY <3>1, <1>0 DEF ParseScope, Live
    <3>3. x[1][1] = g.ns /\ x[1][2] = g.proj /\ x[2] = g.level /\ x[1] = NameOf(t)
      BY <3>1 DEF NameOf
    <3>4. CASE g.ns = NoName
      BY <3>3, <3>4 DEF Held
    <3>5. CASE g.ns = FirstNs /\ g.proj = FirstProj
      <4>1. x[1] \in DOMAIN dirs /\ dirs[x[1]] = 1
        BY <3>3, <3>5 DEF Init, NameOf
      <4>2. Entitled(s, 1, x[2])
        BY <3>2, <3>3, <3>5 DEF Entitled
      <4> QED BY <4>1, <4>2 DEF Held
    <3>6. CASE g.proj = NoName /\ g.ns \in {Default, FirstNs}
      <4>1. x[1][1] \in DOMAIN nsdirs /\ nsdirs[x[1][1]] = FirstId(g.ns)
        BY <3>3, <3>6 DEF Init, FirstId
      <4>2. Entitled(s, FirstId(g.ns), x[2])
        BY <3>2, <3>3, <3>6 DEF Entitled
      <4> QED BY <3>3, <3>6, <4>1, <4>2 DEF Held
    <3>7. g.level > LevelNone /\ ~g.wildcard
      BY <3>1 DEF Live, Wild
    <3> QED BY <3>2, <3>4, <3>5, <3>6, <3>7 DEF FirstGrants, Store
  <2>3. \A x : \A r \in Req : Spares(rq[r], s, x)
    BY DEF Init, Spares, Idle
  <2>4. \A t \in scopes[s] : Live(t) /\ Wild(t) =>
       \E u \in FirstScope(s) : Live(u) /\ Wild(u) /\ parseGrant(u).level = parseGrant(t).level
    BY <1>0
  <2> QED BY <2>2, <2>3, <2>4 DEF GrantOK
<1> QED BY <1>1, <1>2 DEF GrantInv, GrantOK

\* The first scopes name no project or namespace that is made later.
LEMMA NamedFirst ==
  ASSUME NEW s, NEW i \in Nat, i >= 4, NEW l
  PROVE  ~Named(s, i, l)
BY DEF Named, FirstId

\* A step that takes directories away, or makes new ones, and does not change a scope.
LEMMA KeptQuiet ==
  ASSUME NEW s \in Store, KeptOK(s), scopes'[s] = scopes[s], Reach(s)' = Reach(s), revoked' = revoked,
         \A k \in DOMAIN dirs' : (k \in DOMAIN dirs /\ dirs'[k] = dirs[k]) \/ \A l : ~Named(s, dirs'[k], l),
         \A n \in DOMAIN nsdirs' : \/ n \in DOMAIN nsdirs /\ nsdirs'[n] = nsdirs[n]
                                   \/ \A l : ~Named(s, nsdirs'[n], l)
  PROVE  KeptOK(s)'
<1>1. ASSUME NEW l \in Levels, NEW k \in DOMAIN dirs', Named(s, dirs'[k], l), <<s, dirs'[k]>> \notin revoked
      PROVE  <<k, l>> \in Reach(s)
  BY <1>1 DEF KeptOK
<1>2. ASSUME NEW l \in Levels, NEW n \in DOMAIN nsdirs', Named(s, nsdirs'[n], l), <<s, nsdirs'[n]>> \notin revoked
      PROVE  <<<<n, NoName>>, l>> \in Reach(s)
  BY <1>2 DEF KeptOK
<1>3. \A i, l : Named(s, i, l)' <=> Named(s, i, l)
  BY DEF Named
<1> QED BY <1>1, <1>2, <1>3 DEF KeptOK

\* What request r does to the directories, unless it moves one.
LEMMA DirsStep ==
  ASSUME TypeInv, nextId >= 4, NEW r \in Req, RqNext(r), ~(Rename(r) /\ CanRename(rq[r]))
  PROVE  /\ \A k \in DOMAIN dirs' : (k \in DOMAIN dirs /\ dirs'[k] = dirs[k]) \/ (dirs'[k] \in Nat /\ dirs'[k] >= 4)
         /\ \A n \in DOMAIN nsdirs' :
              (n \in DOMAIN nsdirs /\ nsdirs'[n] = nsdirs[n]) \/ (nsdirs'[n] \in Nat /\ nsdirs'[n] >= 4)
<1>0. nextId \in Nat
  BY DEF TypeInv
<1>1. CASE Remove(r)
  <2>1. /\ \E gone : dirs' = Drop(dirs, gone)
        /\ nsdirs' = nsdirs \/ \E gone : nsdirs' = Drop(nsdirs, gone)
    BY <1>1 DEF Remove
  <2> QED BY <2>1 DEF Drop
<1>2. CASE InitProject(r)
  <2>1. /\ dirs' = dirs \/ dirs' = Put(dirs, rq[r].old, nextId + 1)
        /\ nsdirs' = nsdirs \/ nsdirs' = Put(nsdirs, rq[r].old[1], nextId)
    BY <1>2 DEF InitProject
  <2> QED BY <1>0, <2>1 DEF Put
<1>3. CASE ~Remove(r) /\ ~InitProject(r)
  BY <1>3 DEF RqNext, Lock, Mark, Rename, Siblings, Registry, RewriteScopes, Clear, Purge, Deregister,
     Catalog, registerManagedProject, disk
<1> QED BY <1>1, <1>2, <1>3

\* What another request deletes is not what the one renames.
LEMMA TurnedFrom ==
  ASSUME TypeInv, ClashInv, ~raced, NEW r \in Req, NEW u \in Req, r # u,
         rq[r].pc # "idle", rq[r].op \in Special, rq[u].pc # "idle", NEW y, Turned(rq[r], y) # y
  PROVE  /\ rq[u].op = "delete_project" => y # rq[u].old
         /\ rq[u].op = "delete_namespace" => y[1] # rq[u].old[1]
<1>1. ~Clash(rq[r], rq[u])
  BY DEF ClashInv
<1>2. rq[r].old \in Key /\ rq[u].old \in Key
  BY RqParts
<1>3. rq[u].op \in {"delete_project", "delete_namespace"} => Touches(rq[r]) \cap Touches(rq[u]) = {}
  BY <1>1 DEF Clash, Special
<1>4. rq[u].op = "delete_project" => rq[u].old \in Touches(rq[u])
  BY DEF Touches
<1>5. rq[u].op = "delete_namespace" =>
        Touches(rq[u]) = {k \in Key : k[1] \in {rq[u].old[1], rq[u].new[1]}}
  BY DEF Touches
<1>6. CASE rq[r].op = "rename_namespace"
  <2>1. y[1] = rq[r].old[1]
    BY <1>6 DEF Turned
  <2>2. Touches(rq[r]) = {k \in Key : k[1] \in {rq[r].old[1], rq[r].new[1]}}
    BY <1>6 DEF Touches
  <2> QED BY <1>2, <1>3, <1>4, <1>5, <2>1, <2>2
<1>7. CASE rq[r].op # "rename_namespace"
  <2>1. y = rq[r].old
    BY <1>7 DEF Turned
  <2>2. rq[r].old \in Touches(rq[r])
    BY <1>7 DEF Touches, Special
  <2> QED BY <1>2, <1>3, <1>4, <1>5, <2>1, <2>2
<1> QED BY <1>6, <1>7

\* A deletion takes the grants on what it deletes, and no other.
LEMMA KeptPurge ==
  ASSUME TypeInv, FenceInv, ClashInv, SuperInv, ~raced, NEW r \in Req, NEW st \in Store, NEW next,
         RqNext(r), Purge(r, st, next), NEW s \in Store, KeptOK(s)
  PROVE  KeptOK(s)'
<1>n. None \notin Req /\ NoName \notin Proj
  BY ProjectsAssumption DEF None
<1>q. /\ rq[r].pc # "idle" /\ rq[r].pc \notin HeldPC
      /\ rq[r].op \in {"delete_project", "delete_namespace"} /\ rq[r].old \in Key
  BY RqSame, RqParts DEF Purge, At, Shape, HeldPC
<1>o. rq[r].old = <<rq[r].old[1], rq[r].old[2]>> /\ rq[r].old[2] \in Proj
  BY <1>q, KeyParts
<1>m. UNCHANGED <<mu, dirs, nsdirs>> /\ mu # r
  BY <1>q, <1>n DEF Purge, fence, disk, FenceInv
<1>v. /\ Moves(s)' <=> Moves(s)
      /\ Moves(s) => mu' = mu /\ rq'[mu].op = rq[mu].op /\ rq'[mu].old = rq[mu].old /\ rq'[mu].new = rq[mu].new
  BY <1>m, RqSame, MovesOther
<1>i. \A i, l : Named(s, i, l)' <=> Named(s, i, l)
  BY DEF Named
<1>1. CASE scopes'[s] = scopes[s]
  <2>1. Reach(s)' = Reach(s)
    BY <1>1, <1>v, ReachSame
  <2>2. revoked \subseteq revoked'
    BY DEF Purge
  <2> QED BY <1>1, <1>i, <1>m, <2>1, <2>2 DEF KeptOK
<1>2. CASE s = st /\ scopes'[s] = Purged(scopes[s], rq[r]) /\ revoked' = revoked \cup ({st} \X Doomed(rq[r]))
  <2> DEFINE z == Purged(scopes[s], rq[r])
  <2>1. \A t \in scopes[s] \ z :
          /\ ~Wild(t)
          /\ IF rq[r].op = "delete_namespace" THEN parseGrant(t).ns = rq[r].old[1]
             ELSE parseGrant(t).ns = rq[r].old[1] /\ parseGrant(t).proj = rq[r].old[2]
    BY PurgedTokens DEF SuperInv
  <2> HIDE DEF z
  <2>2. scopes'[s] = z
    BY <1>2 DEF z
  <2>3. \A t : (Seen(s, t))' = Seen(s, t)
    BY <1>v DEF Seen, Turned
  <2>4. ASSUME NEW x \in Reach(s), rq[r].op = "delete_project" => x[1] # rq[r].old,
               rq[r].op = "delete_namespace" => x[1][1] # rq[r].old[1]
        PROVE  x \in Reach(s)'
    <3>1. PICK t \in scopes[s] : Live(t) /\ ~Wild(t) /\ x = <<Seen(s, t), parseGrant(t).level>>
      BY DEF Reach
    <3>2. CASE t \in z
      BY <2>2, <2>3, <3>1, <3>2 DEF Reach
    <3>3. CASE t \notin z
      <4>1. IF rq[r].op = "delete_namespace" THEN NameOf(t)[1] = rq[r].old[1] ELSE NameOf(t) = rq[r].old
        BY <1>o, <2>1, <3>3 DEF NameOf
      <4>2. Seen(s, t) # NameOf(t)
        BY <1>q, <2>4, <3>1, <4>1
      <4>3. mu \in Req /\ Moves(s) /\ Turned(rq[mu], NameOf(t)) # NameOf(t)
        BY <4>2 DEF Seen, Moves, FenceInv
      <4>4. rq[mu].pc # "idle" /\ rq[mu].op \in Special
        BY <4>3, RqParts DEF Moves, Shape, HeldPC
      <4> QED BY <1>m, <1>q, <4>1, <4>3, <4>4, TurnedFrom
    <3> QED BY <3>2, <3>3
  <2>5. ASSUME NEW l \in Levels, NEW k \in DOMAIN dirs', Named(s, dirs'[k], l), <<s, dirs'[k]>> \notin revoked'
        PROVE  <<k, l>> \in Reach(s)'
    <3>1. k \in DOMAIN dirs /\ dirs'[k] = dirs[k] /\ dirs[k] \notin Doomed(rq[r]) /\ <<s, dirs[k]>> \notin revoked
      BY <1>2, <1>m, <2>5
    <3>2. /\ rq[r].op = "delete_project" => k # rq[r].old
          /\ rq[r].op = "delete_namespace" => k[1] # rq[r].old[1]
      BY <3>1 DEF Doomed, Under
    <3>3. <<k, l>> \in Reach(s)
      BY <2>5, <3>1 DEF KeptOK
    <3> QED BY <2>4, <3>2, <3>3
  <2>6. ASSUME NEW l \in Levels, NEW n \in DOMAIN nsdirs', Named(s, nsdirs'[n], l), <<s, nsdirs'[n]>> \notin revoked'
        PROVE  <<<<n, NoName>>, l>> \in Reach(s)'
    <3>1. /\ n \in DOMAIN nsdirs /\ nsdirs'[n] = nsdirs[n] /\ nsdirs[n] \notin Doomed(rq[r])
          /\ <<s, nsdirs[n]>> \notin revoked
      BY <1>2, <1>m, <2>6
    <3>2. /\ rq[r].op = "delete_project" => <<n, NoName>> # rq[r].old
          /\ rq[r].op = "delete_namespace" => n # rq[r].old[1]
      BY <1>n, <1>o, <3>1 DEF Doomed
    <3>3. <<<<n, NoName>>, l>> \in Reach(s)
      BY <2>6, <3>1 DEF KeptOK
    <3> QED BY <2>4, <3>2, <3>3
  <2>7. \A t \in scopes[s] : Wild(t) => t \in scopes'[s]
    BY <2>1, <2>2
  <2>8. \A u \in FirstScope(s) : Live(u) /\ Wild(u) =>
          \E t \in scopes'[s] : Live(t) /\ Wild(t) /\ parseGrant(t).level = parseGrant(u).level
    BY <2>7 DEF KeptOK
  <2> QED BY <1>i, <2>5, <2>6, <2>8 DEF KeptOK
<1>3. \/ scopes' = [scopes EXCEPT ![st] = Purged(@, rq[r])] /\ revoked' = revoked \cup ({st} \X Doomed(rq[r]))
      \/ scopes' = scopes
  BY DEF Purge
<1> QED BY <1>1, <1>2, <1>3 DEF TypeInv

\* Rewriting a scope gives its grants the names that the directory has since the pivot.
LEMMA KeptRewrite ==
  ASSUME TypeInv, FenceInv, SuperInv, NEW r \in Req, NEW st \in Store, NEW next,
         RqNext(r), st = "users" => next = "tokens", st = "tokens" => next = "clear",
         RewriteScopes(r, st, next), ~unfinished', NEW s \in Store, KeptOK(s)
  PROVE  KeptOK(s)'
<1>n. None \notin Req
  BY ProjectsAssumption
<1>0. /\ scopes' = [scopes EXCEPT ![st] = Rewritten(@, rq[r])] /\ Goto(r, next)
      /\ UNCHANGED <<mu, dirs, nsdirs, revoked>> /\ rq[r].pc = st
  BY DEF RewriteScopes, fence, disk, Fail, At
<1>q. rq[r].op \in Special /\ rq[r].old \in Key /\ rq[r].new \in Key /\ rq[r].pc # "idle"
  BY <1>0, RqSame, RqParts DEF Shape, Store
<1>m. mu = r
  BY <1>0 DEF FenceInv, Store, HeldPC
<1>p. rq'[r].pc = next /\ rq'[r].op = rq[r].op /\ rq'[r].old = rq[r].old /\ rq'[r].new = rq[r].new
  BY <1>0, RqGoto
<1>i. \A i, l : Named(s, i, l)' <=> Named(s, i, l)
  BY DEF Named
<1>1. CASE s # st
  <2>1. scopes'[s] = scopes[s]
    BY <1>0, <1>1 DEF TypeInv
  <2>2. Moves(s)' <=> Moves(s)
    BY <1>0, <1>1, <1>m, <1>n, <1>p DEF Moves, Store
  <2>3. Reach(s)' = Reach(s)
    BY <1>0, <1>m, <1>p, <2>1, <2>2, ReachSame
  <2> QED BY <1>0, <1>i, <2>1, <2>3 DEF KeptOK
<1>2. CASE s = st
  <2> DEFINE z == Rewritten(scopes[s], rq[r])
  <2>1. \A t \in scopes[s] : \E u \in z :
          \/ u = t /\ (~Wild(t) => Turned(rq[r], NameOf(t)) = NameOf(t))
          \/ /\ ~Wild(t) /\ ~Wild(u) /\ NameOf(u) = Turned(rq[r], NameOf(t))
             /\ parseGrant(u).zone = parseGrant(t).zone /\ parseGrant(u).level = parseGrant(t).level
    BY <1>q, RewrittenTokens DEF SuperInv, TypeInv
  <2> HIDE DEF z
  <2>2. scopes'[s] = z
    BY <1>0, <1>2 DEF z, TypeInv
  <2>3. Moves(s) /\ ~Moves(s)'
    BY <1>0, <1>2, <1>m, <1>n, <1>p DEF Moves, Store
  <2>4. ASSUME NEW x \in Reach(s) PROVE x \in Reach(s)'
    <3>1. PICK t \in scopes[s] : Live(t) /\ ~Wild(t) /\ x = <<Turned(rq[r], NameOf(t)), parseGrant(t).level>>
      BY <1>m, <2>3 DEF Reach, Seen
    <3>2. PICK u \in z : \/ u = t /\ (~Wild(t) => Turned(rq[r], NameOf(t)) = NameOf(t))
                         \/ /\ ~Wild(t) /\ ~Wild(u) /\ NameOf(u) = Turned(rq[r], NameOf(t))
                            /\ parseGrant(u).zone = parseGrant(t).zone
                            /\ parseGrant(u).level = parseGrant(t).level
      BY <2>1
    <3>3. Live(u) /\ ~Wild(u) /\ x = <<NameOf(u), parseGrant(u).level>>
      BY <3>1, <3>2 DEF Live
    <3>4. Seen(s, u)' = NameOf(u)
      BY <2>3 DEF Seen
    <3> QED BY <2>2, <3>3, <3>4 DEF Reach
  <2>5. \A t \in scopes[s] : Wild(t) => t \in scopes'[s]
    BY <2>1, <2>2
  <2>6. \A u \in FirstScope(s) : Live(u) /\ Wild(u) =>
          \E t \in scopes'[s] : Live(t) /\ Wild(t) /\ parseGrant(t).level = parseGrant(u).level
    BY <2>5 DEF KeptOK
  <2> QED BY <1>0, <1>i, <2>4, <2>6 DEF KeptOK
<1> QED BY <1>1, <1>2

\* The pivot renames the directories and, in the same step, what the scopes reach.
LEMMA KeptPivot ==
  ASSUME TypeInv, FenceInv, NEW r \in Req, RqNext(r), Rename(r), CanRename(rq[r]),
         NEW s \in Store, KeptOK(s)
  PROVE  KeptOK(s)'
<1>n. None \notin Req /\ NoName \notin Proj
  BY ProjectsAssumption DEF None
<1>q. /\ rq[r].pc = "rename" /\ rq[r].op \in Special /\ Names(rq[r]) /\ rq[r].old \in Key /\ rq[r].new \in Key
  BY RqSame, RqParts DEF Rename, At, Shape
<1>k. /\ rq[r].old = <<rq[r].old[1], rq[r].old[2]>> /\ rq[r].new = <<rq[r].new[1], rq[r].new[2]>>
      /\ rq[r].old[1] \in Ns /\ rq[r].new[1] \in Ns /\ rq[r].old[2] \in Proj
  BY <1>q, KeyParts
<1>d. IsMap(dirs, Key, Ids)
  BY DEF TypeInv
<1>m. mu = r /\ scopes' = scopes /\ revoked' = revoked
  BY <1>q DEF FenceInv, HeldPC, Rename, ghosts
<1>p. /\ mu' = r /\ rq'[r].pc \in {"siblings", "registry"} /\ rq'[r].op = rq[r].op
      /\ rq'[r].old = rq[r].old /\ rq'[r].new = rq[r].new
  <2>1. mu' = r /\ (Goto(r, "siblings") \/ Goto(r, "registry"))
    BY <1>m DEF Rename, fence
  <2> QED BY <2>1, RqGoto
<1>v. ~Moves(s) /\ Moves(s)'
  BY <1>m, <1>n, <1>p, <1>q DEF Moves
<1>i. \A i, l : Named(s, i, l)' <=> Named(s, i, l)
  BY DEF Named
<1>1. \A t : Seen(s, t) = NameOf(t) /\ (Seen(s, t))' = Turned(rq[r], NameOf(t))
  BY <1>v, <1>p DEF Seen, Turned
<1>2. ASSUME NEW y, NEW l, <<y, l>> \in Reach(s) PROVE <<Turned(rq[r], y), l>> \in Reach(s)'
  <2>1. PICK t \in scopes[s] : Live(t) /\ ~Wild(t) /\ y = NameOf(t) /\ l = parseGrant(t).level
    BY <1>1, <1>2 DEF Reach
  <2> QED BY <1>1, <1>m, <2>1 DEF Reach
<1>3. ASSUME NEW k \in DOMAIN dirs'
      PROVE  \E j \in DOMAIN dirs : dirs'[k] = dirs[j] /\ Turned(rq[r], j) = k
  <2>1. CASE rq[r].op = "rename_namespace"
    <3> DEFINE a == rq[r].old[1]
               b == rq[r].new[1]
    <3>1. dirs' = Rehome(dirs, a, b) /\ a # b /\ a \in Ns /\ b \in Ns /\ Under(dirs, b) = {}
      BY <1>k, <1>q, <2>1 DEF Rename, CanRename, Names
    <3>2. \A x : Turned(rq[r], x) = IF x[1] = a THEN <<b, x[2]>> ELSE x
      BY <2>1 DEF Turned
    <3> HIDE DEF a, b
    <3>3. IsMap(Rehome(dirs, a, b), Key, Ids) /\ Rehome(dirs, a, b)[k] = dirs[IF k[1] = b THEN <<a, k[2]>> ELSE k]
      BY <1>3, <1>d, <3>1, RehomeMap
    <3>4. k \in Key
      BY <1>3, <3>1, <3>3 DEF IsMap
    <3>5. k = <<k[1], k[2]>>
      BY <3>4, KeyParts
    <3>6. \/ k[1] \notin {a, b} /\ k \in DOMAIN dirs
          \/ k[1] = b /\ <<a, k[2]>> \in DOMAIN dirs
      BY <1>3, <1>d, <3>1, <3>4, RehomeDom
    <3>7. CASE k[1] = b /\ <<a, k[2]>> \in DOMAIN dirs
      <4> DEFINE z == <<a, k[2]>>
      <4>1. z \in DOMAIN dirs /\ dirs'[k] = dirs[z]
        BY <3>1, <3>3, <3>7
      <4>2. Turned(rq[r], z) = k
        BY <3>2, <3>5, <3>7
      <4> HIDE DEF z
      <4> QED BY <4>1, <4>2
    <3>8. CASE k[1] \notin {a, b} /\ k \in DOMAIN dirs
      <4>1. dirs'[k] = dirs[k]
        BY <3>1, <3>3, <3>8
      <4>2. Turned(rq[r], k) = k
        BY <3>2, <3>8
      <4> QED BY <3>8, <4>1, <4>2
    <3> QED BY <3>6, <3>7, <3>8
  <2>2. CASE rq[r].op # "rename_namespace"
    <3> DEFINE a == rq[r].old
               b == rq[r].new
    <3>1. dirs' = Rekey(dirs, a, b) /\ a # b
      BY <1>q, <2>2 DEF Rename, Names
    <3>2. \A x : Turned(rq[r], x) = IF x = a THEN b ELSE x
      BY <2>2 DEF Turned
    <3> HIDE DEF a, b
    <3>3. CASE a \in DOMAIN dirs /\ k = b
      <4>1. dirs'[k] = dirs[a]
        BY <3>1, <3>3 DEF Rekey, Put, Drop
      <4> QED BY <3>2, <3>3, <4>1
    <3>4. CASE ~(a \in DOMAIN dirs /\ k = b)
      <4>1. k \in DOMAIN dirs /\ dirs'[k] = dirs[k] /\ k # a
        BY <1>3, <3>1, <3>4 DEF Rekey, Put, Drop
      <4> QED BY <3>2, <4>1
    <3> QED BY <3>3, <3>4
  <2> QED BY <2>1, <2>2
<1>4. ASSUME NEW n \in DOMAIN nsdirs'
      PROVE  \E m \in DOMAIN nsdirs : nsdirs'[n] = nsdirs[m] /\ Turned(rq[r], <<m, NoName>>) = <<n, NoName>>
  <2>1. CASE rq[r].op = "rename_namespace"
    <3> DEFINE a == rq[r].old[1]
               b == rq[r].new[1]
    <3>1. nsdirs' = Rekey(nsdirs, a, b) /\ a # b /\ a \in DOMAIN nsdirs
      BY <2>1, <1>q DEF Rename, CanRename, Names
    <3>2. \A m : Turned(rq[r], <<m, NoName>>) = IF m = a THEN <<b, NoName>> ELSE <<m, NoName>>
      BY <2>1 DEF Turned
    <3> HIDE DEF a, b
    <3>3. CASE n = b
      <4>1. nsdirs'[n] = nsdirs[a]
        BY <3>1, <3>3 DEF Rekey, Put, Drop
      <4> QED BY <3>1, <3>2, <3>3, <4>1
    <3>4. CASE n # b
      <4>1. n \in DOMAIN nsdirs /\ nsdirs'[n] = nsdirs[n] /\ n # a
        BY <1>4, <3>1, <3>4 DEF Rekey, Put, Drop
      <4> QED BY <3>2, <4>1
    <3> QED BY <3>3, <3>4
  <2>2. CASE rq[r].op # "rename_namespace"
    <3>1. nsdirs' = nsdirs
      BY <2>2 DEF Rename
    <3>2. Turned(rq[r], <<n, NoName>>) = <<n, NoName>>
      BY <1>k, <1>n, <2>2 DEF Turned
    <3> QED BY <1>4, <3>1, <3>2
  <2> QED BY <2>1, <2>2
<1>5. ASSUME NEW l \in Levels, NEW k \in DOMAIN dirs', Named(s, dirs'[k], l), <<s, dirs'[k]>> \notin revoked
      PROVE  <<k, l>> \in Reach(s)'
  <2>1. PICK j \in DOMAIN dirs : dirs'[k] = dirs[j] /\ Turned(rq[r], j) = k
    BY <1>3
  <2>2. <<j, l>> \in Reach(s)
    BY <1>5, <2>1 DEF KeptOK
  <2> QED BY <1>2, <2>1, <2>2
<1>6. ASSUME NEW l \in Levels, NEW n \in DOMAIN nsdirs', Named(s, nsdirs'[n], l), <<s, nsdirs'[n]>> \notin revoked
      PROVE  <<<<n, NoName>>, l>> \in Reach(s)'
  <2>1. PICK m \in DOMAIN nsdirs : nsdirs'[n] = nsdirs[m] /\ Turned(rq[r], <<m, NoName>>) = <<n, NoName>>
    BY <1>4
  <2>2. <<<<m, NoName>>, l>> \in Reach(s)
    BY <1>6, <2>1 DEF KeptOK
  <2> QED BY <1>2, <2>1, <2>2
<1> QED BY <1>i, <1>m, <1>5, <1>6 DEF KeptOK

LEMMA KeptStep ==
  TypeInv /\ FenceInv /\ ClashInv /\ SuperInv /\ KeptInv /\ [Next]_vars => KeptInv'
<1> SUFFICES ASSUME TypeInv, FenceInv, ClashInv, SuperInv, KeptInv, [Next]_vars PROVE KeptInv'
  OBVIOUS
<1>n. None \notin Req
  BY ProjectsAssumption
<1>st. "users" \in Store /\ "tokens" \in Store
  BY DEF Store
<1>0. nextId \in Nat /\ nextId >= 4
  BY DEF TypeInv, KeptInv
<1>1. nextId' >= 4
  <2>1. nextId' \in {nextId, nextId + 1, nextId + 2}
    <3>1. ASSUME NEW r \in Req, RqNext(r) PROVE nextId' \in {nextId, nextId + 2}
      BY <3>1 DEF RqNext, Lock, Mark, Rename, Siblings, Registry, RewriteScopes, Clear, Purge, Remove,
         Deregister, InitProject, Catalog, registerManagedProject
    <3>2. ASSUME NEW r \in Req, Request(r) PROVE nextId' = nextId
      BY <3>2 DEF Request
    <3>3. ASSUME NEW w \in Writer, Check(w) \/ Lease(w) \/ Write(w) PROVE nextId' \in {nextId, nextId + 1}
      BY <3>3 DEF Check, Lease, Write
    <3>4. CASE CreateNamespace \/ Recover \/ Crash \/ StartupInit \/ relocateLeftovers \/ UNCHANGED vars
      BY <3>4 DEF CreateNamespace, Recover, Crash, StartupInit, relocateLeftovers, vars
    <3> QED BY <3>1, <3>2, <3>3, <3>4 DEF Next, RqNext
  <2> QED BY <1>0, <2>1
<1> SUFFICES ASSUME ~raced', ~unfinished', NEW s \in Store PROVE KeptOK(s)'
  BY <1>1 DEF KeptInv
<1>r. ~raced /\ ~unfinished
  BY GhostStep
<1>g. KeptOK(s)
  BY <1>r DEF KeptInv
<1>f. \A i \in Nat : i >= 4 => \A l : ~Named(s, i, l)
  BY NamedFirst
\* A step that only makes new directories.
<1> DEFINE Grows ==
      /\ UNCHANGED <<scopes, revoked>>
      /\ \A k \in DOMAIN dirs' : k \in DOMAIN dirs /\ dirs'[k] = dirs[k]
      /\ \A n \in DOMAIN nsdirs' : (n \in DOMAIN nsdirs /\ nsdirs'[n] = nsdirs[n]) \/ nsdirs'[n] = nextId
<1>h. ASSUME Grows, UNCHANGED mu, mu # None => UNCHANGED rq PROVE KeptOK(s)'
  <2>1. Reach(s)' = Reach(s)
    <3>1. Moves(s)' <=> Moves(s)
      BY <1>h DEF Moves
    <3>2. Moves(s) => mu # None
      BY DEF Moves
    <3> QED BY <1>h, <3>1, <3>2, ReachSame
  <2>2. \A l : ~Named(s, nextId, l)
    BY <1>0, <1>f
  <2> QED BY <1>g, <1>h, <2>1, <2>2, KeptQuiet
<1> HIDE DEF Grows
<1>2. ASSUME NEW r \in Req, RqNext(r) PROVE KeptOK(s)'
  <2>1. CASE Rename(r) /\ CanRename(rq[r])
    BY <1>2, <1>g, <2>1, KeptPivot
  <2>2. CASE RewriteScopes(r, "users", "tokens") \/ RewriteScopes(r, "tokens", "clear")
    BY <1>2, <1>g, <1>st, <2>2, KeptRewrite
  <2>3. CASE Purge(r, "users", "purge_tokens") \/ Purge(r, "tokens", "remove")
    BY <1>r, <1>2, <1>g, <1>st, <2>3, KeptPurge
  <2>4. CASE ~(Rename(r) /\ CanRename(rq[r]))
             /\ ~(RewriteScopes(r, "users", "tokens") \/ RewriteScopes(r, "tokens", "clear"))
             /\ ~(Purge(r, "users", "purge_tokens") \/ Purge(r, "tokens", "remove"))
    <3>1. scopes' = scopes /\ revoked' = revoked
      BY <1>2, <2>4 DEF RqNext, Lock, Mark, Rename, Siblings, Registry, Clear, Remove, Deregister,
         InitProject, Catalog, registerManagedProject, ghosts
    <3>2. Reach(s)' = Reach(s)
      BY <1>2, <2>4, <3>1, ReachQuiet
    <3>3. /\ \A k \in DOMAIN dirs' : (k \in DOMAIN dirs /\ dirs'[k] = dirs[k]) \/ \A l : ~Named(s, dirs'[k], l)
          /\ \A n \in DOMAIN nsdirs' : \/ n \in DOMAIN nsdirs /\ nsdirs'[n] = nsdirs[n]
                                       \/ \A l : ~Named(s, nsdirs'[n], l)
      <4>1. /\ \A k \in DOMAIN dirs' : \/ k \in DOMAIN dirs /\ dirs'[k] = dirs[k]
                                       \/ dirs'[k] \in Nat /\ dirs'[k] >= 4
            /\ \A n \in DOMAIN nsdirs' : \/ n \in DOMAIN nsdirs /\ nsdirs'[n] = nsdirs[n]
                                         \/ nsdirs'[n] \in Nat /\ nsdirs'[n] >= 4
        BY <1>0, <1>2, <2>4, DirsStep
      <4> QED BY <1>f, <4>1
    <3> QED BY <1>g, <3>1, <3>2, <3>3, KeptQuiet
  <2> QED BY <2>1, <2>2, <2>3, <2>4
<1>3. ASSUME NEW r \in Req, Request(r) PROVE KeptOK(s)'
  <2>1. UNCHANGED <<scopes, mu, dirs, nsdirs, revoked>> /\ rq[r] = Idle
    BY <1>3 DEF Request, fence, disk
  <2>2. mu # r
    BY <2>1, <1>n DEF FenceInv, Idle, HeldPC
  <2>3. \A u \in Req \ {r} : rq'[u] = rq[u]
    <3>1. \E q : rq' = [rq EXCEPT ![r] = q]
      BY <1>3 DEF Request
    <3> QED BY <3>1 DEF TypeInv
  <2>4. Reach(s)' = Reach(s)
    BY <2>1, <2>2, <2>3, MovesOther, ReachSame
  <2> QED BY <1>g, <2>1, <2>4, KeptQuiet
<1>4. ASSUME NEW w \in Writer, Check(w) \/ Lease(w) \/ Write(w) PROVE KeptOK(s)'
  <2>1. Grows
    <3>1. UNCHANGED <<scopes, dirs, revoked>>
      BY <1>4 DEF Check, Lease, Write, disk, ghosts
    <3>2. nsdirs' = nsdirs \/ nsdirs' = Put(nsdirs, wr[w].key[1], nextId)
      BY <1>4 DEF Check, Lease, Write, disk
    <3> QED BY <3>1, <3>2 DEF Grows, Put
  <2> QED BY <1>4, <1>h, <2>1 DEF Check, Lease, Write, fence
<1>5. CASE CreateNamespace
  <2>1. Grows
    <3>1. UNCHANGED <<scopes, dirs, revoked>>
      BY <1>5 DEF CreateNamespace
    <3>2. nsdirs' = nsdirs \/ \E n : nsdirs' = Put(nsdirs, n, nextId)
      BY <1>5 DEF CreateNamespace
    <3> QED BY <3>1, <3>2 DEF Grows, Put
  <2> QED BY <1>5, <1>h, <2>1 DEF CreateNamespace, fence
<1>6. CASE Recover \/ StartupInit \/ UNCHANGED vars
  <2>1. Grows
    BY <1>6 DEF Recover, StartupInit, vars, disk, ghosts, Grows
  <2> QED BY <1>6, <1>h, <2>1 DEF Recover, StartupInit, vars, fence
<1>7. CASE Crash
  <2>1. mu' = None /\ UNCHANGED <<scopes, dirs, nsdirs, revoked>> /\ \A r \in Req : ~PastPivot(rq[r])
    BY <1>7 DEF Crash, disk
  <2>2. ~Moves(s) /\ ~Moves(s)'
    BY <2>1 DEF Moves, FenceInv, PastPivot
  <2>3. Reach(s)' = Reach(s)
    BY <2>1, <2>2, ReachSame
  <2> QED BY <1>g, <2>1, <2>3, KeptQuiet
<1>8. CASE relocateLeftovers
  <2>1. Grows
    BY <1>8 DEF relocateLeftovers, Grows, Drop, ghosts
  <2> QED BY <1>8, <1>h, <2>1 DEF relocateLeftovers, fence
<1> QED BY <1>2, <1>3, <1>4, <1>5, <1>6, <1>7, <1>8 DEF Next, RqNext

LEMMA KeptInit == Init => KeptInv
<1> SUFFICES ASSUME Init PROVE KeptInv
  OBVIOUS
<1>1. \A s \in Store : scopes[s] = FirstScope(s)
  BY DEF Init, Store, FirstScope
<1>2. ASSUME NEW s \in Store PROVE KeptOK(s)
  <2>1. ~Moves(s)
    BY DEF Init, Moves
  <2>2. \A u \in FirstScope(s) : Live(u) /\ ~Wild(u) => <<NameOf(u), parseGrant(u).level>> \in Reach(s)
    BY <1>1, <2>1 DEF Reach, Seen
  <2>3. ASSUME NEW l, NEW k \in DOMAIN dirs, Named(s, dirs[k], l) PROVE <<k, l>> \in Reach(s)
    <3>1. k = <<FirstNs, FirstProj>> /\ dirs[k] = 1
      BY DEF Init
    <3>2. \A n \in {Default, FirstNs} : FirstId(n) # 1
      BY DEF FirstId
    <3> QED BY <2>2, <2>3, <3>1, <3>2 DEF Named
  <2>4. ASSUME NEW l, NEW n \in DOMAIN nsdirs, Named(s, nsdirs[n], l) PROVE <<<<n, NoName>>, l>> \in Reach(s)
    <3>1. n \in {Default, FirstNs} /\ nsdirs[n] = FirstId(n)
      BY DEF Init, FirstId
    <3>2. \A m \in {Default, FirstNs} : FirstId(m) # 1 /\ (FirstId(m) = FirstId(n) => m = n)
      BY <3>1 DEF FirstId
    <3> QED BY <2>2, <2>4, <3>1, <3>2 DEF Named
  <2> QED BY <1>1, <2>3, <2>4 DEF KeptOK
<1> QED BY <1>2 DEF KeptInv, Init

LEMMA LevelMax ==
  ASSUME NEW S \in SUBSET (0..3), S # {}
  PROVE  Max(S) \in S /\ \A y \in S : Max(S) >= y
<1>1. \E x \in S : \A y \in S : x >= y
  <2>1. CASE 3 \in S
    BY <2>1
  <2>2. CASE 3 \notin S /\ 2 \in S
    BY <2>2
  <2>3. CASE 3 \notin S /\ 2 \notin S /\ 1 \in S
    BY <2>3
  <2>4. CASE 3 \notin S /\ 2 \notin S /\ 1 \notin S
    <3>1. PICK x \in S : TRUE
      OBVIOUS
    <3>2. \A y \in S : y = 0
      BY <2>4
    <3> QED BY <3>1, <3>2
  <2> QED BY <2>1, <2>2, <2>3, <2>4
<1> QED BY <1>1 DEF Max

\* The level of a scope is that of one of its tokens.
LEMMA EffectiveToken ==
  ASSUME NEW sc \in SUBSET Token, sc # {}, NEW n, NEW p, EffectiveLevel(ParseScope(sc), n, p) > LevelNone
  PROVE  \E t \in sc : /\ matches(parseGrant(t), n, p)
                       /\ parseGrant(t).level = EffectiveLevel(ParseScope(sc), n, p)
<1> DEFINE L == {g.level : g \in {h \in ParseScope(sc) : matches(h, n, p)}}
<1>1. ParseScope(sc) = {parseGrant(t) : t \in sc}
  BY DEF ParseScope
<1>2. L \subseteq 0..3
  BY <1>1, ParseType
<1>3. EffectiveLevel(ParseScope(sc), n, p) = Max({LevelNone} \cup L)
  BY DEF EffectiveLevel
<1>4. Max({LevelNone} \cup L) \in {LevelNone} \cup L
  <2>1. {LevelNone} \cup L \in SUBSET (0..3)
    BY <1>2 DEF LevelNone
  <2> HIDE DEF L
  <2> QED BY <2>1, LevelMax
<1>5. Max({LevelNone} \cup L) \in L
  BY <1>3, <1>4 DEF LevelNone
<1> QED BY <1>1, <1>3, <1>5

\* The level of a scope is no less than that of a token that matches.
LEMMA EffectiveBound ==
  ASSUME NEW sc \in SUBSET Token, sc # {}, NEW n, NEW p
  PROVE  /\ EffectiveLevel(ParseScope(sc), n, p) \in 0..3
         /\ \A t \in sc : matches(parseGrant(t), n, p) => EffectiveLevel(ParseScope(sc), n, p) >= parseGrant(t).level
<1> DEFINE L == {g.level : g \in {h \in ParseScope(sc) : matches(h, n, p)}}
<1>1. ParseScope(sc) = {parseGrant(t) : t \in sc}
  BY DEF ParseScope
<1>2. L \subseteq 0..3 /\ \A t \in sc : matches(parseGrant(t), n, p) => parseGrant(t).level \in L
  BY <1>1, ParseType
<1>3. EffectiveLevel(ParseScope(sc), n, p) = Max({LevelNone} \cup L)
  BY DEF EffectiveLevel
<1> HIDE DEF L
<1>4. {LevelNone} \cup L \in SUBSET (0..3)
  BY <1>2 DEF LevelNone
<1>5. Max({LevelNone} \cup L) \in {LevelNone} \cup L /\ \A y \in {LevelNone} \cup L : Max({LevelNone} \cup L) >= y
  BY <1>4, LevelMax
<1> QED BY <1>2, <1>3, <1>4, <1>5

LEMMA AccessFromGrants ==
  ASSUME TypeInv, FenceInv, SuperInv, GrantInv, KeptInv
  PROVE  AccessFollowsProject
<1>n. NoName \notin Ns /\ NoName \notin Proj
  BY ProjectsAssumption DEF None
<1>0. DOMAIN scopes = Store
  BY DEF TypeInv
<1>1. ASSUME ~raced, ~unfinished, Quiet, NEW s \in Store, NEW k \in DOMAIN dirs,
             EffectiveLevel(ParseScope(scopes[s]), k[1], k[2]) > LevelNone
      PROVE  LET l == EffectiveLevel(ParseScope(scopes[s]), k[1], k[2])
             IN Entitled(s, dirs[k], l) \/ Entitled(s, nsdirs[k[1]], l)
  <2> DEFINE l == EffectiveLevel(ParseScope(scopes[s]), k[1], k[2])
  <2>0. k \in Key /\ k = <<k[1], k[2]>> /\ k[1] \in Ns /\ k[2] \in Proj
    <3>1. k \in Key
      BY DEF TypeInv, IsMap
    <3> QED BY <3>1, KeyParts
  <2>1. scopes[s] \in SUBSET Token /\ scopes[s] # {}
    BY DEF TypeInv, SuperInv
  <2>2. PICK t \in scopes[s] : matches(parseGrant(t), k[1], k[2]) /\ parseGrant(t).level = l
    BY <1>1, <2>1, EffectiveToken
  <2> HIDE DEF l
  <2>3. Live(t)
    BY <1>1, <2>2 DEF Live, matches, l
  <2>4. CASE Wild(t)
    <3>1. PICK u \in FirstScope(s) : Live(u) /\ Wild(u) /\ parseGrant(u).level = l
      BY <1>1, <2>2, <2>3, <2>4 DEF GrantInv
    <3>2. parseGrant(u) \in ParseScope(FirstScope(s))
      BY <3>1 DEF ParseScope
    <3>3. Entitled(s, dirs[k], l)
      BY <3>1, <3>2 DEF Entitled, Live, Wild
    <3> QED BY <3>3 DEF l
  <2>5. CASE ~Wild(t)
    <3>1. mu = None
      BY <1>1 DEF FenceInv, Quiet, HeldPC
    <3>2. Seen(s, t) = NameOf(t)
      BY <3>1 DEF Seen, Moves
    <3> DEFINE x == <<NameOf(t), l>>
    <3>3. x \in Reach(s)
      BY <2>2, <2>3, <2>5, <3>2 DEF Reach
    <3>4. Held(s, dirs, nsdirs, x)
      BY <1>1, <3>3 DEF GrantInv
    <3>5. parseGrant(t).ns = k[1] /\ parseGrant(t).proj \in {NoName, k[2]}
      BY <1>n, <2>0, <2>2, <2>5 DEF matches, Wild
    <3>6. x[1][1] = k[1] /\ x[1][2] = parseGrant(t).proj /\ x[2] = l /\ x[1] = <<k[1], parseGrant(t).proj>>
      BY <3>5 DEF NameOf
    <3> HIDE DEF x
    <3>7. CASE parseGrant(t).proj = NoName
      <4>1. x[1] \notin DOMAIN dirs
        BY <1>n, <3>6, <3>7, KeyParts DEF TypeInv, IsMap
      <4> QED BY <1>n, <2>0, <3>4, <3>6, <4>1 DEF Held, l
    <3>8. CASE parseGrant(t).proj = k[2]
      BY <1>n, <2>0, <3>4, <3>6, <3>8 DEF Held, l
    <3> QED BY <3>5, <3>7, <3>8
  <2> QED BY <2>4, <2>5
<1>2. ASSUME ~raced, ~unfinished, Quiet, NEW s \in Store, NEW k \in DOMAIN dirs, NEW l \in Levels,
             NEW i \in {dirs[k], nsdirs[k[1]]}, Entitled(s, i, l), <<s, i>> \notin revoked
      PROVE  EffectiveLevel(ParseScope(scopes[s]), k[1], k[2]) >= l
  <2>0. k \in Key /\ k = <<k[1], k[2]>> /\ k[1] \in Ns /\ k[2] \in Proj /\ k[1] \in DOMAIN nsdirs
    <3>1. k \in Key /\ k[1] \in DOMAIN nsdirs
      BY DEF TypeInv, IsMap
    <3> QED BY <3>1, KeyParts
  <2>1. scopes[s] \in SUBSET Token /\ scopes[s] # {}
    BY DEF TypeInv, SuperInv
  <2>2. KeptOK(s)
    BY <1>2 DEF KeptInv
  <2>3. FirstScope(s) \subseteq Token /\ FirstScope(s) # {}
    BY ProjectsAssumption DEF FirstScope
  <2>4. SUFFICES ASSUME l > LevelNone
                 PROVE  \E t \in scopes[s] : matches(parseGrant(t), k[1], k[2]) /\ parseGrant(t).level = l
    BY <2>1, EffectiveBound DEF Levels, LevelNone
  <2>5. PICK u \in FirstScope(s) :
          /\ parseGrant(u).zone = "" /\ parseGrant(u).level = l
          /\ \/ parseGrant(u).wildcard
             \/ i = 1 /\ parseGrant(u).ns = FirstNs /\ parseGrant(u).proj = FirstProj
             \/ /\ parseGrant(u).proj = NoName
                /\ \E n \in {Default, FirstNs} : parseGrant(u).ns = n /\ i = FirstId(n)
    BY <1>2, <2>3 DEF Entitled, ParseScope
  <2>6. Live(u)
    BY <2>4, <2>5 DEF Live
  <2>7. CASE Wild(u)
    <3>1. PICK t \in scopes[s] : Live(t) /\ Wild(t) /\ parseGrant(t).level = l
      BY <2>2, <2>5, <2>6, <2>7 DEF KeptOK
    <3> QED BY <3>1 DEF matches, Live, Wild
  <2>8. CASE ~Wild(u)
    <3>1. Named(s, i, l)
      BY <2>5, <2>6, <2>8 DEF Named, NameOf, Wild
    <3>2. <<k, l>> \in Reach(s) \/ <<<<k[1], NoName>>, l>> \in Reach(s)
      BY <1>2, <2>0, <2>2, <3>1 DEF KeptOK
    <3>3. ~Moves(s)
      BY <1>2 DEF FenceInv, Quiet, HeldPC, Moves
    <3>4. PICK t \in scopes[s] : /\ Live(t) /\ NameOf(t) \in {k, <<k[1], NoName>>}
                                 /\ parseGrant(t).level = l
      BY <3>2, <3>3 DEF Reach, Seen
    <3>5. parseGrant(t).ns = k[1] /\ parseGrant(t).proj \in {NoName, k[2]}
      BY <2>0, <3>4 DEF NameOf
    <3>6. matches(parseGrant(t), k[1], k[2])
      BY <3>4, <3>5 DEF Live, matches
    <3> QED BY <3>4, <3>6
  <2> QED BY <2>7, <2>8
<1>3. (AccessFollows /\ AccessKept) \/ raced \/ unfinished
  <2> SUFFICES ASSUME ~raced, ~unfinished PROVE AccessFollows /\ AccessKept
    OBVIOUS
  <2>1. AccessFollows
    BY <1>0, <1>1 DEF AccessFollows
  <2>2. AccessKept
    BY <1>0, <1>2 DEF AccessKept
  <2> QED BY <2>1, <2>2
<1> QED BY <1>0, <1>3 DEF AccessFollowsProject, SuperInv

\* A grant follows what it was given for, to it and to nothing else (RewriteScopes, Purge), if
\* at first the scopes name what there is and none makes a super-user.
THEOREM AccessHolds == ASSUME FirstGrants PROVE Spec => []AccessFollowsProject
<1>1. TypeInv /\ FenceInv /\ ClashInv /\ SuperInv /\ GrantInv /\ KeptInv /\ [Next]_vars
        => (TypeInv /\ FenceInv /\ ClashInv /\ SuperInv /\ GrantInv /\ KeptInv)'
  BY TypeStep, FenceStep, ClashStep, SuperStep, GrantStep, KeptStep
<1>2. Init => SuperInv /\ GrantInv /\ KeptInv
  BY FirstGrants, GrantInit, KeptInit
<1>3. TypeInv /\ FenceInv /\ SuperInv /\ GrantInv /\ KeptInv => AccessFollowsProject
  BY AccessFromGrants
<1> QED BY TypeInit, InvInit, <1>1, <1>2, <1>3, PTL DEF Spec

----------------------------------------------------------------------------
(* The names that an operation swaps, and what requests have begun *)

Avoids(a, k) ==
  a # None => IF a.op = "rename_namespace" THEN k[1] \notin {a.old[1], a.new[1]}
              ELSE k \notin {a.old, a.new}
AvoidsNs(a, n) == a # None /\ a.op = "rename_namespace" => n \notin {a.old[1], a.new[1]}

LEMMA SwapOut ==
  ASSUME NEW a, NEW k \in Key, Avoids(a, k)
  PROVE  SwapKey(a, k) = k /\ \A j \in Key : SwapKey(a, j) = k => j = k
<1>1. CASE a = None
  BY <1>1 DEF SwapKey
<1>2. CASE a # None /\ a.op = "rename_namespace"
  <2>1. k[1] \notin {a.old[1], a.new[1]}
    BY <1>2 DEF Avoids
  <2>2. SwapKey(a, k) = k
    BY <1>2, <2>1 DEF SwapKey
  <2>3. ASSUME NEW j \in Key, SwapKey(a, j) = k PROVE j = k
    <3>1. SwapKey(a, j) \in {j, <<a.new[1], j[2]>>, <<a.old[1], j[2]>>}
      BY <1>2 DEF SwapKey
    <3> QED BY <2>1, <2>3, <3>1
  <2> QED BY <2>2, <2>3
<1>3. CASE a # None /\ a.op # "rename_namespace"
  BY <1>3 DEF SwapKey, Avoids
<1> QED BY <1>1, <1>2, <1>3

LEMMA SwapNsOut ==
  ASSUME NEW a, NEW n, AvoidsNs(a, n)
  PROVE  SwapNs(a, n) = n /\ \A m : SwapNs(a, m) = n => m = n
BY DEF SwapNs, AvoidsNs

LEMMA SwapBack ==
  ASSUME NEW a \in Entry, Names(a), NEW k \in Key
  PROVE  SwapKey(a, k) \in Key /\ SwapKey(a, SwapKey(a, k)) = k
<1>1. a # None
  BY ProjectsAssumption
<1>2. a.old \in Key /\ a.new \in Key /\ a.old # a.new
  BY DEF Entry, Names
<1>3. /\ a.old[1] \in Ns /\ a.new[1] \in Ns
      /\ k = <<k[1], k[2]>> /\ k[1] \in Ns /\ k[2] \in Proj
  BY <1>2, KeyParts
<1>4. CASE a.op = "rename_namespace"
  <2>0. a.old[1] # a.new[1]
    BY <1>4 DEF Names
  <2>1. CASE k[1] = a.old[1]
    <3>1. SwapKey(a, k) = <<a.new[1], k[2]>>
      BY <1>1, <1>4, <2>1 DEF SwapKey
    <3>2. SwapKey(a, <<a.new[1], k[2]>>) = <<a.old[1], k[2]>>
      BY <1>1, <1>4, <2>0 DEF SwapKey
    <3> QED BY <1>3, <2>1, <3>1, <3>2 DEF Key
  <2>2. CASE k[1] = a.new[1]
    <3>1. SwapKey(a, k) = <<a.old[1], k[2]>>
      BY <1>1, <1>4, <2>0, <2>2 DEF SwapKey
    <3>2. SwapKey(a, <<a.old[1], k[2]>>) = <<a.new[1], k[2]>>
      BY <1>1, <1>4, <2>0 DEF SwapKey
    <3> QED BY <1>3, <2>2, <3>1, <3>2 DEF Key
  <2>3. CASE k[1] \notin {a.old[1], a.new[1]}
    BY <1>1, <1>4, <2>3 DEF SwapKey
  <2> QED BY <2>1, <2>2, <2>3
<1>5. CASE a.op # "rename_namespace"
  BY <1>1, <1>2, <1>5 DEF SwapKey
<1> QED BY <1>4, <1>5

LEMMA SwapNsBack ==
  ASSUME NEW a \in Entry, Names(a), NEW n \in Ns
  PROVE  SwapNs(a, n) \in Ns /\ SwapNs(a, SwapNs(a, n)) = n
<1>1. a.old[1] \in Ns /\ a.new[1] \in Ns
  BY KeyParts DEF Entry
<1> QED BY <1>1, ProjectsAssumption DEF SwapNs, Names

\* The entry of a request that moves a directory.
LEMMA EntryParts ==
  ASSUME TypeInv, NEW r \in Req, rq[r].pc # "idle", rq[r].op \in Special, NEW j, j = EntryOf(rq[r])
  PROVE  /\ j \in Entry /\ Names(j) /\ j # None
         /\ j.op = rq[r].op /\ j.old = rq[r].old /\ j.new = rq[r].new
         /\ j.old \in Key /\ j.new \in Key /\ j.old # j.new
         /\ j.old[1] \in Ns /\ j.new[1] \in Ns
<1>1. rq[r].old \in Key /\ rq[r].new \in Key /\ Names(rq[r])
  BY RqParts DEF Shape, Special
<1>2. j.op = rq[r].op /\ j.old = rq[r].old /\ j.new = rq[r].new /\ j \in Entry
  BY <1>1 DEF EntryOf, Entry
<1>3. j # None
  BY <1>2, ProjectsAssumption
<1>4. Names(j) /\ j.old # j.new
  BY <1>1, <1>2 DEF Names
<1>5. j.old[1] \in Ns /\ j.new[1] \in Ns
  BY <1>1, <1>2, KeyParts
<1> QED BY <1>1, <1>2, <1>3, <1>4, <1>5

\* The operation under way, and its names.
LEMMA BehindParts ==
  ASSUME TypeInv, FenceInv
  PROVE  /\ SibBehind \in {None, RegBehind}
         /\ RegBehind # None => /\ mu \in Req /\ rq[mu].pc \in {"siblings", "registry"}
                                /\ RegBehind = EntryOf(rq[mu]) /\ RegBehind \in Entry
                                /\ Names(RegBehind)
<1>1. ASSUME RegBehind # None
      PROVE  /\ mu \in Req /\ rq[mu].pc \in {"siblings", "registry"}
             /\ RegBehind = EntryOf(rq[mu])
  BY <1>1 DEF RegBehind, FenceInv, HeldPC
<1>2. ASSUME RegBehind # None PROVE RegBehind \in Entry /\ Names(RegBehind)
  <2>1. rq[mu].pc # "idle" /\ mu \in Req
    BY <1>1, <1>2
  <2>2. rq[mu].op \in Special
    BY <1>1, <1>2, <2>1, RqParts DEF Shape
  <2> QED BY <1>1, <1>2, <2>1, <2>2, EntryParts
<1>3. SibBehind \in {None, RegBehind}
  BY DEF RegBehind, SibBehind
<1> QED BY <1>1, <1>2, <1>3

\* Nothing under way touches what creates or deletes.
LEMMA Apart ==
  ASSUME TypeInv, FenceInv, ClashInv, ~raced, NEW r \in Req, rq[r].pc # "idle",
         rq[r].op \notin Special, NEW k \in Touches(rq[r]), NEW a \in {None, RegBehind}
  PROVE  Avoids(a, k) /\ AvoidsNs(a, k[1])
<1> SUFFICES ASSUME a # None PROVE Avoids(a, k) /\ AvoidsNs(a, k[1])
  BY DEF Avoids, AvoidsNs
<1>1. /\ mu \in Req /\ rq[mu].pc \in {"siblings", "registry"} /\ a = EntryOf(rq[mu]) /\ a \in Entry
  BY BehindParts
<1>2. a.op = rq[mu].op /\ a.old = rq[mu].old /\ a.new = rq[mu].new /\ a.op \in Special
  BY <1>1 DEF EntryOf, Entry
<1>3. ~Clash(rq[mu], rq[r])
  BY <1>1, <1>2 DEF ClashInv
<1>4. k \notin Touches(rq[mu])
  BY <1>3 DEF Clash
<1>5. k \in Key
  BY RqParts DEF Touches
<1>6. CASE a.op = "rename_namespace"
  <2>1. Touches(rq[mu]) = {j \in Key : j[1] \in {a.old[1], a.new[1]}}
    BY <1>1, <1>2, <1>6 DEF Touches
  <2> QED BY <1>4, <1>5, <1>6, <2>1 DEF Avoids, AvoidsNs
<1>7. CASE a.op # "rename_namespace"
  <2>1. Touches(rq[mu]) = {a.old, a.new}
    BY <1>1, <1>2, <1>7 DEF Touches, Special
  <2> QED BY <1>4, <1>7, <2>1 DEF Avoids, AvoidsNs
<1> QED BY <1>6, <1>7

\* What is created or deleted no longer after the next step of request q.
Settles(q) ==
  IF q.pc = "register" THEN {q.old}
  ELSE IF q.pc # "deregister" THEN {}
  ELSE IF q.op = "delete_namespace" THEN {k \in Key : k[1] = q.old[1]} ELSE {q.old}
SettlesNs(q) == IF q.pc = "deregister" /\ q.op = "delete_namespace" THEN {q.old[1]} ELSE {}

LEMMA PendingStep ==
  ASSUME TypeInv, NEW r \in Req, RqNext(r)
  PROVE  /\ Creating \ Settles(rq[r]) \subseteq Creating'
         /\ Deleting \ Settles(rq[r]) \subseteq Deleting'
         /\ DeletingNs \ SettlesNs(rq[r]) \subseteq DeletingNs'
<1>q. rq[r].pc # "idle" /\ Shape(rq[r]) /\ rq[r].old \in Key
  BY RqSame, RqParts
<1>o. \A u \in Req \ {r} : rq'[u] = rq[u]
  BY RqSame
<1>1. ASSUME NEW k \in Creating \ Settles(rq[r]) PROVE k \in Creating'
  <2>1. PICK u \in Req : rq[u].op = "create_project" /\ rq[u].pc \in {"catalog", "register"} /\ rq[u].old = k
    BY <1>1 DEF Creating
  <2>2. CASE u # r
    BY <1>o, <2>1, <2>2 DEF Creating
  <2>3. CASE u = r
    <3>1. rq[r].pc = "catalog"
      BY <1>1, <2>1, <2>3 DEF Settles
    <3>2. Goto(r, "register")
      BY <3>1 DEF RqNext, Lock, Mark, Rename, Siblings, Registry, RewriteScopes, Clear, Purge, Remove,
         Deregister, InitProject, Catalog, registerManagedProject, At
    <3>3. rq'[r].pc = "register" /\ rq'[r].op = rq[r].op /\ rq'[r].old = rq[r].old
      BY <3>2, RqGoto
    <3> QED BY <1>1, <2>1, <2>3, <3>3 DEF Creating
  <2> QED BY <2>2, <2>3
<1>2. ASSUME NEW n \in DeletingNs \ SettlesNs(rq[r]) PROVE n \in DeletingNs'
  <2>1. PICK u \in Req : rq[u].op = "delete_namespace" /\ rq[u].pc = "deregister" /\ rq[u].old[1] = n
    BY <1>2 DEF DeletingNs
  <2>2. u # r
    BY <1>2, <2>1 DEF SettlesNs
  <2> QED BY <1>2, <1>o, <2>1, <2>2 DEF DeletingNs
<1>3. ASSUME NEW k \in Deleting \ Settles(rq[r]) PROVE k \in Deleting'
  <2>0. k \in Key
    BY <1>3 DEF Deleting
  <2>1. CASE k[1] \in DeletingNs
    <3>1. k[1] \notin SettlesNs(rq[r])
      BY <1>3, <2>0 DEF Settles, SettlesNs
    <3> QED BY <1>2, <2>0, <2>1, <3>1 DEF Deleting
  <2>2. CASE k[1] \notin DeletingNs
    <3>1. PICK u \in Req : rq[u].op = "delete_project" /\ rq[u].pc = "deregister" /\ rq[u].old = k
      BY <1>3, <2>2 DEF Deleting
    <3>2. u # r
      BY <1>3, <3>1 DEF Settles
    <3> QED BY <1>o, <2>0, <3>1, <3>2 DEF Deleting
  <2> QED BY <2>1, <2>2
<1> QED BY <1>1, <1>2, <1>3

\* A step that leaves the disk, the registry and the requests' changes leaves all sound.
LEMMA SoundSame ==
  ASSUME NEW a, NEW b, Sound(a, b), UNCHANGED <<dirs, nsdirs, sibs, reg>>,
         Creating \subseteq Creating', Deleting \subseteq Deleting', DeletingNs \subseteq DeletingNs'
  PROVE  Sound(a, b)'
<1>1. ASSUME NEW k \in Key PROVE KeySound(a, k)'
  <2>1. KeySound(a, k)
    BY DEF Sound, RegSound
  <2> QED BY <2>1 DEF KeySound, HasProject
<1>2. ASSUME NEW n \in Ns PROVE NsSound(a, n)'
  <2>1. NsSound(a, n)
    BY DEF Sound, RegSound
  <2> QED BY <2>1 DEF NsSound
<1>3. SibSound(b)'
  BY DEF Sound, SibSound
<1>4. a # None => Pivoted(a)'
  BY DEF Sound, Pivoted
<1> QED BY <1>1, <1>2, <1>3, <1>4 DEF Sound, RegSound

\* Namespace directories are made by renaming and by creating.
LEMMA NewNs ==
  ASSUME TypeInv, NEW r \in Req, RqNext(r), NEW n \in DOMAIN nsdirs', n \notin DOMAIN nsdirs
  PROVE  n = rq[r].new[1] /\ rq[r].op \in {"rename_namespace", "create_project"}
<1>q. rq[r].pc # "idle" /\ Shape(rq[r])
  BY RqSame, RqParts
<1>1. ~UNCHANGED nsdirs
  OBVIOUS
<1>2. CASE Rename(r)
  <2>1. CanRename(rq[r]) /\ rq[r].op = "rename_namespace" /\ nsdirs' = Rekey(nsdirs, rq[r].old[1], rq[r].new[1])
    BY <1>1, <1>2 DEF Rename, disk
  <2>2. rq[r].old[1] \in DOMAIN nsdirs /\ rq[r].old[1] # rq[r].new[1]
    BY <1>2, <1>q, <2>1 DEF CanRename, Rename, At, Shape, Names
  <2>3. DOMAIN Rekey(nsdirs, rq[r].old[1], rq[r].new[1]) = (DOMAIN nsdirs \ {rq[r].old[1]}) \cup {rq[r].new[1]}
    BY <2>2 DEF Rekey, Put, Drop
  <2> QED BY <2>1, <2>3
<1>3. CASE Remove(r)
  <2>1. nsdirs' = Drop(nsdirs, {rq[r].old[1]})
    BY <1>1, <1>3 DEF Remove
  <2>2. DOMAIN Drop(nsdirs, {rq[r].old[1]}) = DOMAIN nsdirs \ {rq[r].old[1]}
    BY DropDom
  <2> QED BY <2>1, <2>2
<1>4. CASE InitProject(r)
  <2>1. rq[r].op = "create_project" /\ rq[r].old = rq[r].new
    BY <1>4, <1>q DEF InitProject, At, Shape, HeldPC
  <2>2. nsdirs' = Put(nsdirs, rq[r].old[1], nextId)
    BY <1>1, <1>4 DEF InitProject
  <2>3. DOMAIN Put(nsdirs, rq[r].old[1], nextId) = DOMAIN nsdirs \cup {rq[r].old[1]}
    BY PutDom
  <2> QED BY <2>1, <2>2, <2>3
<1> QED BY <1>1, <1>2, <1>3, <1>4 DEF RqNext, Lock, Mark, Siblings, Registry, RewriteScopes, Clear, Purge,
      Deregister, Catalog, registerManagedProject, disk

\* The names of two requests that do not clash.
LEMMA ApartNames ==
  ASSUME TypeInv, NEW r \in Req, NEW u \in Req, rq[r].pc # "idle", rq[u].pc # "idle", ~Clash(rq[r], rq[u])
  PROVE  /\ rq[u].op \notin Special => Touches(rq[r]) \cap Touches(rq[u]) = {}
         /\ /\ rq[r].op \in {"rename_namespace", "create_project"}
            /\ rq[u].op \in {"rename_namespace", "delete_namespace"}
            => /\ rq[r].new[1] # rq[u].new[1]
               /\ rq[u].op = "delete_namespace" => rq[r].new[1] # rq[u].old[1]
<1>1. rq[r].new \in Key /\ rq[u].new \in Key
  BY RqParts
<1>2. rq[u].op \notin Special => Touches(rq[r]) \cap Touches(rq[u]) = {}
  BY DEF Clash
<1>3. ASSUME rq[r].op \in {"rename_namespace", "create_project"},
             rq[u].op \in {"rename_namespace", "delete_namespace"},
             rq[r].new[1] = rq[u].new[1] \/ (rq[u].op = "delete_namespace" /\ rq[r].new[1] = rq[u].old[1])
      PROVE  FALSE
  <2>1. Touches(rq[u]) = {k \in Key : k[1] \in {rq[u].old[1], rq[u].new[1]}}
    BY <1>3 DEF Touches
  <2>2. rq[r].new \in Touches(rq[r])
    BY <1>1, <1>3 DEF Touches
  <2>3. rq[r].new \in Touches(rq[u])
    BY <1>1, <1>3, <2>1
  <2>4. rq[r].op = "rename_namespace" /\ rq[u].op = "rename_namespace" => rq[r].new[1] # rq[u].new[1]
    <3> HAVE rq[r].op = "rename_namespace" /\ rq[u].op = "rename_namespace"
    <3> QED BY <2>2, <2>3 DEF Clash
  <2>5. rq[r].op = "create_project" \/ rq[u].op = "delete_namespace"
    BY <1>3, <2>4
  <2> QED BY <2>2, <2>3, <2>5 DEF Clash, Special
<1> QED BY <1>2, <1>3

LEMMA FreshRequests ==
  ASSUME TypeInv, ClashInv, ~raced, FreshInv, ~Leftover, NEW r \in Req, RqNext(r), NEW u \in Req
  PROVE  Fresh(rq[u])'
<1>q. rq[r].pc # "idle" /\ Shape(rq[r]) /\ Same(rq'[r], rq[r]) /\ rq[r].old \in Key
  BY RqSame, RqParts
<1>o. \A v \in Req \ {r} : rq'[v] = rq[v]
  BY RqSame
<1>f. Fresh(rq[u])
  BY DEF FreshInv
<1>1. CASE u # r
  <2>0. CASE rq[u].pc = "idle"
    BY <1>o, <1>1, <2>0 DEF Fresh
  <2> SUFFICES ASSUME rq[u].pc # "idle" PROVE Fresh(rq[u])'
    BY <2>0
  <2>1. ~Clash(rq[r], rq[u])
    BY <1>1 DEF ClashInv
  <2>2. rq'[u] = rq[u] /\ rq[u].old \in Key /\ rq[u].new \in Key
    BY <1>o, <1>1, RqParts
  <2>3. rq[u].op = "rename_namespace" /\ rq[u].pc \in {"lock", "mark", "rename"} =>
          rq[u].new[1] \notin DOMAIN nsdirs'
    <3> HAVE rq[u].op = "rename_namespace" /\ rq[u].pc \in {"lock", "mark", "rename"}
    <3>1. rq[u].new[1] \notin DOMAIN nsdirs
      BY <1>f DEF Fresh
    <3> QED BY <1>q, <2>1, <3>1, NewNs, ApartNames
  <2>4. rq[u].op = "create_project" /\ rq[u].pc \in {"catalog", "register"} => rq[u].old \in DOMAIN dirs'
    <3> HAVE rq[u].op = "create_project" /\ rq[u].pc \in {"catalog", "register"}
    <3>1. rq[u].old \in DOMAIN dirs /\ rq[u].old \in Touches(rq[u])
      BY <1>f DEF Fresh, Touches
    <3>2. Touches(rq[r]) \cap Touches(rq[u]) = {}
      BY <1>q, <2>1, ApartNames DEF Special
    <3>3. rq[u].old \notin Takes(rq[r])
      BY <3>1, <3>2, TakesTouches
    <3> QED BY <3>1, <3>3, KeptDirs
  <2>5. rq[u].op = "delete_project" /\ rq[u].pc = "deregister" => rq[u].old \notin DOMAIN dirs'
    <3> HAVE rq[u].op = "delete_project" /\ rq[u].pc = "deregister"
    <3>1. rq[u].old \notin DOMAIN dirs /\ rq[u].old \in Touches(rq[u])
      BY <1>f DEF Fresh, Touches
    <3>2. Touches(rq[r]) \cap Touches(rq[u]) = {}
      BY <1>q, <2>1, ApartNames DEF Special
    <3> QED BY <3>1, <3>2, NewDirs
  <2>6. rq[u].op = "delete_namespace" /\ rq[u].pc = "deregister" => rq[u].old[1] \notin DOMAIN nsdirs'
    <3> HAVE rq[u].op = "delete_namespace" /\ rq[u].pc = "deregister"
    <3>1. rq[u].old[1] \notin DOMAIN nsdirs
      BY <1>f DEF Fresh
    <3> QED BY <1>q, <2>1, <3>1, NewNs, ApartNames
  <2> QED BY <2>2, <2>3, <2>4, <2>5, <2>6 DEF Fresh
<1>2. CASE u = r /\ rq'[r] = Idle
  BY <1>2 DEF Fresh, Idle
<1>3. CASE u = r /\ rq'[r] # Idle
  <2>0. rq'[r].op = rq[r].op /\ rq'[r].old = rq[r].old /\ rq'[r].new = rq[r].new
    BY <1>3, <1>q DEF Same
  <2>1. CASE Lock(r)
    <3>1. rq'[r].pc = "mark" /\ rq[r].pc = "lock" /\ nsdirs' = nsdirs
      BY <1>3, <2>1, RqGoto, EndRq DEF Lock, At, disk
    <3> QED BY <1>3, <1>f, <2>0, <3>1 DEF Fresh
  <2>2. CASE Mark(r)
    <3>1. rq'[r].pc = "rename" /\ rq[r].pc = "mark" /\ nsdirs' = nsdirs
      BY <1>3, <2>2, RqGoto DEF Mark, At, disk
    <3> QED BY <1>3, <1>f, <2>0, <3>1 DEF Fresh
  <2>3. CASE Remove(r)
    <3> DEFINE gone == IF rq[r].op = "delete_namespace" THEN {k \in Key : k[1] = rq[r].old[1]} ELSE {rq[r].old}
    <3>1. rq'[r].pc = "deregister"
      BY <1>3, <2>3, RqGoto, EndRq DEF Remove
    <3>2. dirs' = Drop(dirs, gone) /\ (rq[r].op = "delete_namespace" => nsdirs' = Drop(nsdirs, {rq[r].old[1]}))
      BY <2>3 DEF Remove
    <3>3. rq[r].op = "delete_project" => gone = {rq[r].old}
      OBVIOUS
    <3> HIDE DEF gone
    <3>d. /\ DOMAIN Drop(dirs, gone) = DOMAIN dirs \ gone
          /\ DOMAIN Drop(nsdirs, {rq[r].old[1]}) = DOMAIN nsdirs \ {rq[r].old[1]}
      BY DropDom
    <3>4. rq[r].op = "delete_project" => rq[r].old \notin DOMAIN dirs'
      BY <3>2, <3>3, <3>d
    <3>5. rq[r].op = "delete_namespace" => rq[r].old[1] \notin DOMAIN nsdirs'
      BY <3>2, <3>d
    <3> QED BY <1>3, <2>0, <3>1, <3>4, <3>5 DEF Fresh
  <2>4. CASE InitProject(r)
    <3>1. rq'[r].pc \in {"catalog", "register"} /\ rq[r].op = "create_project"
      BY <2>4, <1>q, RqGoto DEF InitProject, At, Shape, HeldPC
    <3>d. DOMAIN Put(dirs, rq[r].old, nextId + 1) = DOMAIN dirs \cup {rq[r].old}
      BY PutDom
    <3>2. rq[r].old \in DOMAIN dirs'
      BY <2>4, <3>d DEF InitProject
    <3> QED BY <1>3, <2>0, <3>1, <3>2 DEF Fresh
  <2>5. CASE Catalog(r)
    <3>1. rq'[r].pc = "register" /\ rq[r].pc = "catalog" /\ dirs' = dirs
      BY <2>5, RqGoto DEF Catalog, At
    <3> QED BY <1>3, <1>f, <2>0, <3>1 DEF Fresh
  <2>6. CASE ~(Lock(r) \/ Mark(r) \/ Remove(r) \/ InitProject(r) \/ Catalog(r))
    <3>1. ~End(r)
      BY <1>3, EndRq
    <3>2. \/ Goto(r, "siblings") \/ Goto(r, "registry") \/ Goto(r, "users") \/ Goto(r, "tokens")
          \/ Goto(r, "clear") \/ Goto(r, "purge_tokens") \/ Goto(r, "remove")
      BY <2>6, <3>1 DEF RqNext, Rename, Siblings, Registry, RewriteScopes, Clear, Purge, Deregister,
         registerManagedProject, Fail
    <3>3. rq'[r].pc \in {"siblings", "registry", "users", "tokens", "clear", "purge_tokens", "remove"}
      BY <3>2, RqGoto
    <3> QED BY <1>3, <2>0, <3>3 DEF Fresh
  <2> QED BY <2>1, <2>2, <2>3, <2>4, <2>5, <2>6
<1> QED BY <1>1, <1>2, <1>3

\* Only a leased writer is late.
LEMMA LateStep == TypeInv /\ LateInv /\ [Next]_vars => LateInv' /\ (~Leftover' => ~Leftover)
<1> SUFFICES ASSUME TypeInv, LateInv, [Next]_vars PROVE LateInv' /\ (~Leftover' => ~Leftover)
  OBVIOUS
<1>t. wr \in [Writer -> WrType] /\ \A w \in Writer : /\ wr[w] = [wr[w] EXCEPT !.pc = wr[w].pc]
                                                     /\ wr[w] \in WrType
  BY DEF TypeInv, WrType
<1>0. CASE UNCHANGED wr
  BY <1>0 DEF LateInv, Leftover
<1>1. ASSUME NEW w \in Writer, Check(w) PROVE LateInv' /\ (~Leftover' => ~Leftover)
  <2>1. PICK v : v.late = FALSE /\ wr' = [wr EXCEPT ![w] = v]
    BY <1>1 DEF Check
  <2>2. ~wr[w].late
    BY <1>1 DEF Check, LateInv
  <2> QED BY <1>t, <2>1, <2>2 DEF LateInv, Leftover
<1>2. ASSUME NEW w \in Writer, Lease(w) PROVE LateInv' /\ (~Leftover' => ~Leftover)
  <2>1. /\ \A v \in Writer \ {w} : wr'[v] = wr[v]
        /\ wr'[w].pc = "leased"
    BY <1>2, <1>t DEF Lease, WrType
  <2>2. ~wr[w].late
    BY <1>2 DEF Lease, LateInv
  <2> QED BY <2>1, <2>2 DEF LateInv, Leftover
<1>3. ASSUME NEW w \in Writer, Write(w) PROVE LateInv' /\ (~Leftover' => ~Leftover)
  <2>1. /\ \A v \in Writer \ {w} : wr'[v] = wr[v]
        /\ wr'[w].pc = "acked" /\ wr'[w].late = wr[w].late
    BY <1>3, <1>t DEF Write, WrType
  <2> QED BY <2>1 DEF LateInv, Leftover
<1>4. CASE Crash
  <2>1. \A w \in Writer : wr'[w].pc \notin {"idle", "checked"} /\ wr'[w].late = wr[w].late
    <3> TAKE w \in Writer
    <3>1. wr'[w] = IF wr[w].pc = "acked" THEN wr[w] ELSE [wr[w] EXCEPT !.pc = "failed"]
      BY <1>4 DEF Crash
    <3>2. wr[w] \in WrType
      BY <1>t
    <3> QED BY <3>1, <3>2 DEF WrType
  <2> QED BY <2>1 DEF LateInv, Leftover
<1>5. ASSUME NEW r \in Req, RqNext(r) PROVE UNCHANGED wr
  BY <1>5 DEF RqNext, Lock, Mark, Rename, Siblings, Registry, RewriteScopes, Clear, Purge, Remove, Deregister,
     InitProject, Catalog, registerManagedProject
<1>6. ASSUME NEW r \in Req, Request(r) PROVE UNCHANGED wr
  BY <1>6 DEF Request
<1>7. CASE CreateNamespace \/ Recover \/ StartupInit \/ relocateLeftovers \/ UNCHANGED vars
  BY <1>0, <1>7 DEF CreateNamespace, Recover, StartupInit, relocateLeftovers, vars
<1> QED BY <1>0, <1>1, <1>2, <1>3, <1>4, <1>5, <1>6, <1>7 DEF Next, RqNext

----------------------------------------------------------------------------
(* Directories, databases and registry, step by step *)

SoundBoth == \E a, b : Sound(a, b) /\ (IF up THEN a = RegBehind /\ b = SibBehind
                                       ELSE a \in {None, journal} /\ b \in {None, journal})
\* What the steps of a sound state may use.
Orderly ==
  /\ TypeInv /\ FenceInv /\ ClashInv /\ FreshInv
  /\ ~raced /\ ~Leftover /\ left = {} /\ quar = {}

LEMMA SoundWitness ==
  ASSUME NEW a, NEW b, Sound(a, b)', a = RegBehind', b = SibBehind', up'
  PROVE  SoundBoth'
BY DEF SoundBoth

LEMMA SwapNone ==
  /\ \A k : SwapKey(None, k) = k
  /\ \A n : SwapNs(None, n) = n
BY DEF SwapKey, SwapNs

LEMMA SoundRenameProject ==
  ASSUME Orderly, NEW r \in Req, Rename(r), CanRename(rq[r]), rq[r].op # "rename_namespace",
         Sound(None, None), NEW j, j = EntryOf(rq[r])
  PROVE  Sound(j, j)'
<1>n. RqNext(r)
  BY DEF RqNext
<1>q. rq[r].pc = "rename" /\ rq[r].op \in Special
  BY RqParts DEF Orderly, Rename, At, Shape
<1>j. /\ j # None /\ j.op = rq[r].op /\ j.old = rq[r].old /\ j.new = rq[r].new /\ j.old # j.new
      /\ j.old \in Key /\ j.new \in Key
  BY <1>q, EntryParts DEF Orderly
<1>1. dirs' = Rekey(dirs, j.old, j.new) /\ UNCHANGED <<nsdirs, sibs, reg>>
  BY <1>j DEF Rename
<1>2. j.old \in DOMAIN dirs /\ j.new \notin DOMAIN dirs
  BY <1>j DEF CanRename, Orderly
<1>3. DOMAIN dirs' = (DOMAIN dirs \ {j.old}) \cup {j.new}
  BY <1>1, <1>2, <1>j DEF Rekey, Put, Drop
<1>4. dirs'[j.new] = dirs[j.old] /\ \A k \in DOMAIN dirs \ {j.old, j.new} : dirs'[k] = dirs[k]
  BY <1>1, <1>2, <1>j, RekeyVal
<1>5. \A k : SwapKey(j, k) = IF k = j.old THEN j.new ELSE IF k = j.new THEN j.old ELSE k
  BY <1>j DEF SwapKey
<1>6. \A k : SwapKey(j, k) \in DOMAIN dirs' <=> k \in DOMAIN dirs
  BY <1>2, <1>3, <1>5, <1>j
<1>7. \A n : SwapNs(j, n) = n
  BY <1>j DEF SwapNs
<1>8. Creating \subseteq Creating' /\ Deleting \subseteq Deleting' /\ DeletingNs \subseteq DeletingNs'
  BY <1>n, <1>q, PendingStep DEF Settles, SettlesNs, Orderly
<1>9. ASSUME NEW k \in Key PROVE KeySound(j, k)'
  <2>1. KeySound(None, k)
    BY DEF Sound, RegSound
  <2> QED BY <1>1, <1>6, <1>8, <2>1, SwapNone DEF KeySound, HasProject
<1>10. ASSUME NEW n \in Ns PROVE NsSound(j, n)'
  <2>1. NsSound(None, n)
    BY DEF Sound, RegSound
  <2> QED BY <1>1, <1>7, <1>8, <2>1, SwapNone DEF NsSound
<1>11. SibSound(j)'
  <2>1. ASSUME NEW k \in DOMAIN sibs PROVE SwapKey(j, k) \in DOMAIN dirs' /\ sibs[k] = dirs'[SwapKey(j, k)]
    <3>1. k \in DOMAIN dirs /\ sibs[k] = dirs[k]
      BY SwapNone DEF Sound, SibSound
    <3> QED BY <1>2, <1>4, <1>5, <1>6, <3>1
  <2> QED BY <1>1, <2>1 DEF SibSound
<1>12. Pivoted(j)'
  BY <1>3, <1>j DEF Pivoted
<1> QED BY <1>j, <1>9, <1>10, <1>11, <1>12 DEF Sound, RegSound

LEMMA SoundRenameNs ==
  ASSUME Orderly, NEW r \in Req, Rename(r), CanRename(rq[r]), rq[r].op = "rename_namespace",
         Sound(None, None), NEW j, j = EntryOf(rq[r])
  PROVE  Sound(j, None)'
<1>n. RqNext(r)
  BY DEF RqNext
<1>q. rq[r].pc = "rename" /\ rq[r].op \in Special
  BY DEF Rename, At, Special
<1>j. /\ j # None /\ j.op = rq[r].op /\ j.old = rq[r].old /\ j.new = rq[r].new /\ Names(j)
      /\ j.old[1] \in Ns /\ j.new[1] \in Ns /\ j \in Entry
  BY <1>q, EntryParts DEF Orderly
<1> DEFINE n == j.old[1]
           m == j.new[1]
<1>m. n # m /\ n \in Ns /\ m \in Ns
  BY <1>j DEF Names
<1>t. IsMap(dirs, Key, Ids) /\ IsMap(sibs, Key, Ids) /\ IsMap(nsdirs, Ns, Ids)
  BY DEF Orderly, TypeInv
<1>1. /\ dirs' = Rehome(dirs, n, m) /\ sibs' = Rehome(sibs, n, m)
      /\ nsdirs' = Rekey(nsdirs, n, m) /\ reg' = reg
  BY <1>j DEF Rename
<1>2. n \in DOMAIN nsdirs /\ Under(dirs, m) = {} /\ Under(sibs, m) = {}
  BY <1>j DEF CanRename
<1>3. m \notin DOMAIN nsdirs
  BY <1>j, <1>q DEF Orderly, FreshInv, Fresh
<1>4. \A k : SwapKey(j, k) = IF k[1] = n THEN <<m, k[2]>> ELSE IF k[1] = m THEN <<n, k[2]>> ELSE k
  BY <1>j DEF SwapKey
<1>5. \A i : SwapNs(j, i) = IF i = n THEN m ELSE IF i = m THEN n ELSE i
  BY <1>j DEF SwapNs
<1>p. Pivoted(j) <=> m \in DOMAIN nsdirs /\ n \notin DOMAIN nsdirs
  BY <1>j DEF Pivoted
<1>p2. Pivoted(j)' <=> m \in DOMAIN nsdirs' /\ n \notin DOMAIN nsdirs'
  BY <1>j DEF Pivoted
<1>s. \A k \in Key : SwapKey(j, k) \in Key
  BY <1>j, SwapBack
<1> HIDE DEF n, m
<1>6. DOMAIN nsdirs' = (DOMAIN nsdirs \ {n}) \cup {m}
  BY <1>1, <1>2, <1>m DEF Rekey, Put, Drop
<1>7. \A k \in Key : k \in DOMAIN dirs' <=>
        \/ k[1] \notin {n, m} /\ k \in DOMAIN dirs
        \/ k[1] = m /\ <<n, k[2]>> \in DOMAIN dirs
  BY <1>1, <1>2, <1>m, <1>t, RehomeDom
<1>8. \A k \in Key : k \in DOMAIN sibs' <=>
        \/ k[1] \notin {n, m} /\ k \in DOMAIN sibs
        \/ k[1] = m /\ <<n, k[2]>> \in DOMAIN sibs
  BY <1>1, <1>2, <1>m, <1>t, RehomeDom
<1>9. ASSUME NEW k \in Key PROVE SwapKey(j, k) \in DOMAIN dirs' <=> k \in DOMAIN dirs
  <2>1. k = <<k[1], k[2]>> /\ SwapKey(j, k) \in Key
    BY KeyParts, <1>s
  <2>2. CASE k[1] = n
    <3>1. SwapKey(j, k) = <<m, k[2]>>
      BY <1>4, <2>2
    <3> QED BY <1>7, <1>m, <2>1, <2>2, <3>1
  <2>3. CASE k[1] = m
    <3>1. SwapKey(j, k) = <<n, k[2]>>
      BY <1>4, <1>m, <2>3
    <3> QED BY <1>2, <1>7, <1>m, <2>1, <2>3, <3>1 DEF Under
  <2>4. CASE k[1] \notin {n, m}
    <3>1. SwapKey(j, k) = k
      BY <1>4, <2>4
    <3> QED BY <1>7, <2>4, <3>1
  <2> QED BY <2>2, <2>3, <2>4
<1>10. Creating \subseteq Creating' /\ Deleting \subseteq Deleting' /\ DeletingNs \subseteq DeletingNs'
  BY <1>n, <1>q, PendingStep DEF Settles, SettlesNs, Orderly
<1>11. ASSUME NEW k \in Key PROVE KeySound(j, k)'
  <2>1. KeySound(None, k)
    BY DEF Sound, RegSound
  <2> QED BY <1>1, <1>9, <1>10, <2>1, SwapNone DEF KeySound, HasProject
<1>12. ASSUME NEW i \in Ns PROVE NsSound(j, i)'
  <2>1. NsSound(None, i)
    BY DEF Sound, RegSound
  <2>2. SwapNs(j, i) \in DOMAIN nsdirs' <=> i \in DOMAIN nsdirs
    BY <1>2, <1>3, <1>5, <1>6, <1>m
  <2> QED BY <1>1, <1>10, <2>1, <2>2, SwapNone DEF NsSound
<1>13. SibSound(None)'
  <2>1. ASSUME NEW k \in DOMAIN sibs' PROVE k \in DOMAIN dirs' /\ sibs'[k] = dirs'[k]
    <3> DEFINE i == IF k[1] = m THEN <<n, k[2]>> ELSE k
    <3>0. IsMap(sibs', Key, Ids)
      BY <1>1, <1>2, <1>m, <1>t, RehomeMap
    <3>1. k \in Key
      BY <3>0 DEF IsMap
    <3>2. i \in DOMAIN sibs
      BY <1>8, <2>1, <3>1
    <3>3. sibs'[k] = sibs[i]
      BY <1>1, <1>2, <1>m, <1>t, RehomeMap
    <3>4. i \in DOMAIN dirs /\ sibs[i] = dirs[i]
      BY <3>2, SwapNone DEF Sound, SibSound
    <3>5. k \in DOMAIN dirs'
      BY <1>7, <1>8, <2>1, <3>1, <3>4
    <3>6. dirs'[k] = dirs[i]
      BY <1>1, <1>2, <1>m, <1>t, <3>5, RehomeMap
    <3> QED BY <3>3, <3>4, <3>5, <3>6
  <2> QED BY <2>1, SwapNone DEF SibSound
<1>14. Pivoted(j)'
  BY <1>6, <1>m, <1>p2
<1> QED BY <1>j, <1>11, <1>12, <1>13, <1>14 DEF Sound, RegSound

LEMMA PendingApart ==
  ASSUME TypeInv, FenceInv, ClashInv, ~raced, NEW a \in {None, RegBehind}
  PROVE  /\ \A k \in Creating \cup Deleting : Avoids(a, k) /\ AvoidsNs(a, k[1])
         /\ \A n \in DeletingNs : AvoidsNs(a, n)
<1>1. ASSUME NEW k \in Creating PROVE Avoids(a, k) /\ AvoidsNs(a, k[1])
  <2>1. PICK r \in Req : rq[r].op = "create_project" /\ rq[r].pc \in {"catalog", "register"} /\ rq[r].old = k
    BY DEF Creating
  <2>2. k \in Touches(rq[r]) /\ rq[r].pc # "idle" /\ rq[r].op \notin Special
    BY <2>1 DEF Touches, Special
  <2> QED BY <2>2, Apart
<1>2. ASSUME NEW n \in DeletingNs, NEW k \in Key, k[1] = n PROVE Avoids(a, k) /\ AvoidsNs(a, n)
  <2>1. PICK r \in Req : rq[r].op = "delete_namespace" /\ rq[r].pc = "deregister" /\ rq[r].old[1] = n
    BY DEF DeletingNs
  <2>2. k \in Touches(rq[r]) /\ rq[r].pc # "idle" /\ rq[r].op \notin Special
    BY <1>2, <2>1 DEF Touches, Special
  <2> QED BY <1>2, <2>2, Apart
<1>3. ASSUME NEW k \in Deleting PROVE Avoids(a, k) /\ AvoidsNs(a, k[1])
  <2>0. k \in Key
    BY DEF Deleting
  <2>1. CASE k[1] \in DeletingNs
    BY <1>2, <2>0, <2>1
  <2>2. CASE k[1] \notin DeletingNs
    <3>1. PICK r \in Req : rq[r].op = "delete_project" /\ rq[r].pc = "deregister" /\ rq[r].old = k
      BY <2>2 DEF Deleting
    <3>2. k \in Touches(rq[r]) /\ rq[r].pc # "idle" /\ rq[r].op \notin Special
      BY <3>1 DEF Touches, Special
    <3> QED BY <3>2, Apart
  <2> QED BY <2>1, <2>2
<1>4. ASSUME NEW n \in DeletingNs PROVE AvoidsNs(a, n)
  <2>1. PICK r \in Req : rq[r].op = "delete_namespace" /\ rq[r].pc = "deregister" /\ rq[r].old[1] = n
    BY DEF DeletingNs
  <2>2. rq[r].old \in Key
    BY <2>1, RqParts
  <2> QED BY <1>2, <2>1, <2>2
<1> QED BY <1>1, <1>3, <1>4

\* The databases follow the directory, in the operation or at the start after it.
LEMMA SibsFollow ==
  ASSUME NEW j, j # None, j.op # "rename_namespace", j.old # j.new, SibSound(j), Pivoted(j),
         NEW k \in DOMAIN Rekey(sibs, j.old, j.new)
  PROVE  k \in DOMAIN dirs /\ Rekey(sibs, j.old, j.new)[k] = dirs[k]
<1>1. \A i : SwapKey(j, i) = IF i = j.old THEN j.new ELSE IF i = j.new THEN j.old ELSE i
  BY DEF SwapKey
<1>2. j.new \in DOMAIN dirs /\ j.old \notin DOMAIN dirs
  BY DEF Pivoted
<1>3. \A i \in DOMAIN sibs : SwapKey(j, i) \in DOMAIN dirs /\ sibs[i] = dirs[SwapKey(j, i)]
  BY DEF SibSound
<1>4. j.new \notin DOMAIN sibs
  BY <1>1, <1>2, <1>3
<1>5. CASE j.old \in DOMAIN sibs
  <2>1. DOMAIN Rekey(sibs, j.old, j.new) = (DOMAIN sibs \ {j.old}) \cup {j.new}
    BY <1>5 DEF Rekey, Put, Drop
  <2>2. /\ Rekey(sibs, j.old, j.new)[j.new] = sibs[j.old]
        /\ \A i \in DOMAIN sibs \ {j.old, j.new} : Rekey(sibs, j.old, j.new)[i] = sibs[i]
    BY <1>5, RekeyVal
  <2>3. CASE k = j.new
    BY <1>1, <1>3, <1>5, <2>2, <2>3
  <2>4. CASE k # j.new
    <3>1. k \in DOMAIN sibs \ {j.old, j.new}
      BY <2>1, <2>4
    <3>2. SwapKey(j, k) = k
      BY <1>1, <3>1
    <3> QED BY <1>3, <2>2, <3>1, <3>2
  <2> QED BY <2>3, <2>4
<1>6. CASE j.old \notin DOMAIN sibs
  <2>1. Rekey(sibs, j.old, j.new) = sibs
    BY <1>6, RekeyNone
  <2>2. k \in DOMAIN sibs /\ k # j.old /\ k # j.new
    BY <1>4, <1>6, <2>1
  <2>3. SwapKey(j, k) = k
    BY <1>1, <2>2
  <2> QED BY <1>3, <2>1, <2>2, <2>3
<1> QED BY <1>5, <1>6

HasIn(f, k) == k[1] \in DOMAIN f /\ k[2] \in f[k[1]]

LEMMA RemoveHas ==
  ASSUME NEW f, IsMap(f, Ns, SUBSET Proj), NEW i \in Key, NEW k \in Key
  PROVE  HasIn(RemoveProject(f, i), k) <=> HasIn(f, k) /\ k # i
<1>1. k = <<k[1], k[2]>> /\ i = <<i[1], i[2]>>
  BY KeyParts
<1>2. /\ DOMAIN RemoveProject(f, i) = DOMAIN f
      /\ \A n \in DOMAIN f \ {i[1]} : RemoveProject(f, i)[n] = f[n]
      /\ i[1] \in DOMAIN f => RemoveProject(f, i)[i[1]] = f[i[1]] \ {i[2]}
  BY RemoveProjectMap
<1>3. CASE k[1] = i[1]
  BY <1>1, <1>2, <1>3 DEF HasIn
<1>4. CASE k[1] # i[1]
  BY <1>2, <1>4 DEF HasIn
<1> QED BY <1>3, <1>4

LEMMA AddHas ==
  ASSUME NEW f, IsMap(f, Ns, SUBSET Proj), NEW i \in Key, NEW k \in Key
  PROVE  HasIn(AddProject(f, i), k) <=> HasIn(f, k) \/ k = i
<1>1. k = <<k[1], k[2]>> /\ i = <<i[1], i[2]>>
  BY KeyParts
<1>2. /\ DOMAIN AddProject(f, i) = DOMAIN f \cup {i[1]}
      /\ \A n \in DOMAIN f \ {i[1]} : AddProject(f, i)[n] = f[n]
      /\ AddProject(f, i)[i[1]] = (IF i[1] \in DOMAIN f THEN f[i[1]] ELSE {}) \cup {i[2]}
  BY AddProjectMap
<1>3. CASE k[1] = i[1]
  BY <1>1, <1>2, <1>3 DEF HasIn
<1>4. CASE k[1] # i[1]
  BY <1>2, <1>4 DEF HasIn
<1> QED BY <1>3, <1>4

\* Registry f is that of the disk.
Matches(f) ==
  /\ \A k \in Key : /\ HasIn(f, k) => k \in DOMAIN dirs \/ k \in Deleting
                    /\ k \in DOMAIN dirs => HasIn(f, k) \/ k \in Creating
  /\ \A n \in Ns : /\ n \in DOMAIN f => n \in DOMAIN nsdirs \/ n \in DeletingNs
                   /\ n \in DOMAIN nsdirs => n \in DOMAIN f \/ \E k \in Creating : k[1] = n

LEMMA MatchesNone == RegSound(None) <=> Matches(reg)
<1>1. \A k \in Key : KeySound(None, k) <=>
         /\ HasIn(reg, k) => k \in DOMAIN dirs \/ k \in Deleting
         /\ k \in DOMAIN dirs => HasIn(reg, k) \/ k \in Creating
  BY SwapNone DEF KeySound, HasProject, HasIn
<1>2. \A n \in Ns : NsSound(None, n) <=>
         /\ n \in DOMAIN reg => n \in DOMAIN nsdirs \/ n \in DeletingNs
         /\ n \in DOMAIN nsdirs => n \in DOMAIN reg \/ \E k \in Creating : k[1] = n
  BY SwapNone DEF NsSound
<1> QED BY <1>1, <1>2 DEF RegSound, Matches

\* So does the registry, which never refuses what the disk has done.
LEMMA RegFollows ==
  ASSUME TypeInv, NEW j \in Entry, Names(j), RegSound(j), Pivoted(j), Default \in DOMAIN reg,
         \A k \in Creating \cup Deleting : Avoids(j, k) /\ AvoidsNs(j, k[1]),
         \A n \in DeletingNs : AvoidsNs(j, n)
  PROVE  ~RegistryRefuses(j) /\ Matches(RegistryMoved(j)) /\ Default \in DOMAIN RegistryMoved(j)
<1>j. /\ j # None /\ j.old \in Key /\ j.new \in Key /\ j.old # j.new /\ j.op \in Special
      /\ j.old[1] \in Ns /\ j.new[1] \in Ns
  BY ProjectsAssumption, KeyParts DEF Entry, Names
<1>r. IsMap(reg, Ns, SUBSET Proj)
  BY DEF TypeInv
<1>x. \A k \in Key : k = <<k[1], k[2]>>
  BY KeyParts
<1> DEFINE f == RegistryMoved(j)
<1>1. ASSUME \A k \in Key : HasIn(f, k) <=> HasProject(SwapKey(j, k)), NEW k \in Key
      PROVE  /\ HasIn(f, k) => k \in DOMAIN dirs \/ k \in Deleting
             /\ k \in DOMAIN dirs => HasIn(f, k) \/ k \in Creating
  <2> DEFINE i == SwapKey(j, k)
  <2>1. i \in Key /\ SwapKey(j, i) = k
    BY SwapBack
  <2>2. KeySound(j, i)
    BY <2>1 DEF RegSound
  <2>3. i \in Creating \cup Deleting => i = k
    <3> HAVE i \in Creating \cup Deleting
    <3>1. Avoids(j, i)
      OBVIOUS
    <3> HIDE DEF i
    <3>2. SwapKey(j, i) = i
      BY <2>1, <3>1, SwapOut
    <3> QED BY <2>1, <3>2
  <2>4. HasIn(f, k) <=> HasProject(i)
    BY <1>1
  <2> HIDE DEF i, f
  <2> QED BY <2>1, <2>2, <2>3, <2>4 DEF KeySound
<1>2. CASE j.op = "rename_namespace"
  <2> DEFINE n == j.old[1]
             m == j.new[1]
  <2>n. n # m /\ Default # n
    BY <1>2 DEF Names
  <2>1. m \in DOMAIN nsdirs /\ n \notin DOMAIN nsdirs
    BY <1>2 DEF Pivoted
  <2>2. \A i : SwapNs(j, i) = IF i = n THEN m ELSE IF i = m THEN n ELSE i
    BY <1>j, <1>2 DEF SwapNs
  <2>3. \A i \in Ns : NsSound(j, i)
    BY DEF RegSound
  <2>4. (\A k \in Creating : k[1] \notin {n, m}) /\ (\A i \in DeletingNs : i \notin {n, m})
    BY <1>j, <1>2 DEF AvoidsNs
  <2>5. \A k : SwapKey(j, k) = IF k[1] = n THEN <<m, k[2]>> ELSE IF k[1] = m THEN <<n, k[2]>> ELSE k
    BY <1>j, <1>2 DEF SwapKey
  <2>6. n \in Ns /\ m \in Ns
    BY <1>j
  <2>7. f = Rekey(reg, n, m) /\ (RegistryRefuses(j) <=> (m \in DOMAIN reg <=> n \in DOMAIN reg))
    BY <1>2 DEF RegistryMoved, nsregRenameNamespace, RegistryRefuses
  <2> HIDE DEF f, n, m
  <2>8. n \in DOMAIN reg
    <3>1. SwapNs(j, n) = m
      BY <2>2
    <3> QED BY <2>1, <2>3, <2>4, <2>6, <3>1 DEF NsSound
  <2>9. m \notin DOMAIN reg
    <3>1. SwapNs(j, m) = n
      BY <2>2, <2>n
    <3> QED BY <2>1, <2>3, <2>4, <2>6, <3>1 DEF NsSound
  <2>10. DOMAIN f = (DOMAIN reg \ {n}) \cup {m}
    BY <2>7, <2>8, <2>n DEF Rekey, Put, Drop
  <2>11. f[m] = reg[n] /\ \A i \in DOMAIN reg \ {n, m} : f[i] = reg[i]
    BY <2>7, <2>8, <2>n, RekeyVal
  <2>12. ASSUME NEW k \in Key PROVE HasIn(f, k) <=> HasProject(SwapKey(j, k))
    <3>1. CASE k[1] = n
      <4>1. SwapKey(j, k) = <<m, k[2]>>
        BY <2>5, <3>1
      <4> QED BY <2>9, <2>10, <2>n, <3>1, <4>1 DEF HasIn, HasProject
    <3>2. CASE k[1] = m
      <4>1. SwapKey(j, k) = <<n, k[2]>>
        BY <2>5, <2>n, <3>2
      <4> QED BY <2>8, <2>10, <2>11, <3>2, <4>1 DEF HasIn, HasProject
    <3>3. CASE k[1] \notin {n, m}
      <4>1. SwapKey(j, k) = k
        BY <2>5, <3>3
      <4> QED BY <2>10, <2>11, <3>3, <4>1 DEF HasIn, HasProject
    <3> QED BY <3>1, <3>2, <3>3
  <2>13. ASSUME NEW i \in Ns
         PROVE  /\ i \in DOMAIN f => i \in DOMAIN nsdirs \/ i \in DeletingNs
                /\ i \in DOMAIN nsdirs => i \in DOMAIN f \/ \E k \in Creating : k[1] = i
    <3>1. CASE i \in {n, m}
      BY <2>1, <2>10, <2>n, <3>1
    <3>2. CASE i \notin {n, m}
      <4>1. SwapNs(j, i) = i
        BY <2>2, <3>2
      <4>2. NsSound(j, i)
        BY <2>3
      <4> QED BY <2>10, <3>2, <4>1, <4>2 DEF NsSound
    <3> QED BY <3>1, <3>2
  <2>14. Default \in DOMAIN f
    BY <2>10, <2>n
  <2>15. Matches(f)
    <3>1. \A k \in Key : /\ HasIn(f, k) => k \in DOMAIN dirs \/ k \in Deleting
                         /\ k \in DOMAIN dirs => HasIn(f, k) \/ k \in Creating
      BY <1>1, <2>12 DEF f
    <3> QED BY <2>13, <3>1 DEF Matches
  <2> QED BY <2>7, <2>8, <2>9, <2>14, <2>15 DEF f
<1>3. CASE j.op # "rename_namespace"
  <2>1. j.new \in DOMAIN dirs /\ j.old \notin DOMAIN dirs
    BY <1>3 DEF Pivoted
  <2>2. \A k : SwapKey(j, k) = IF k = j.old THEN j.new ELSE IF k = j.new THEN j.old ELSE k
    BY <1>j, <1>3 DEF SwapKey
  <2>3. \A i : SwapNs(j, i) = i
    BY <1>3 DEF SwapNs
  <2>4. \A k \in Creating \cup Deleting : k \notin {j.old, j.new}
    BY <1>j, <1>3 DEF Avoids
  <2>5. HasProject(j.old)
    <3>1. KeySound(j, j.old) /\ SwapKey(j, j.old) = j.new
      BY <1>j, <2>2 DEF RegSound
    <3> QED BY <2>1, <2>4, <3>1 DEF KeySound
  <2>6. ~HasProject(j.new)
    <3>1. KeySound(j, j.new) /\ SwapKey(j, j.new) = j.old
      BY <1>j, <2>2 DEF RegSound
    <3> QED BY <2>1, <2>4, <3>1 DEF KeySound
  <2>7. ~RegistryRefuses(j)
    BY <1>j, <1>3, <2>5, <2>6 DEF RegistryRefuses, HasProject, Special
  <2> DEFINE g == RemoveProject(reg, j.old)
  <2>8. f = AddProject(g, j.new)
    BY <1>3, <2>6 DEF RegistryMoved, nsregMoveProject
  <2>9. IsMap(g, Ns, SUBSET Proj) /\ DOMAIN g = DOMAIN reg
    BY <1>j, <1>r, RemoveProjectMap
  <2>11. \A k \in Key : HasIn(g, k) <=> HasProject(k) /\ k # j.old
    BY <1>j, <1>r, RemoveHas DEF HasIn, HasProject
  <2> HIDE DEF g
  <2>10. DOMAIN AddProject(g, j.new) = DOMAIN g \cup {j.new[1]}
    BY <1>j, <2>9, AddProjectMap
  <2> HIDE DEF f
  <2>12. \A k \in Key : HasIn(f, k) <=> HasIn(g, k) \/ k = j.new
    BY <1>j, <2>8, <2>9, AddHas
  <2>13. \A k \in Key : HasIn(f, k) <=> HasProject(SwapKey(j, k))
    BY <1>j, <2>2, <2>5, <2>6, <2>11, <2>12
  <2>14. ASSUME NEW i \in Ns
         PROVE  /\ i \in DOMAIN f => i \in DOMAIN nsdirs \/ i \in DeletingNs
                /\ i \in DOMAIN nsdirs => i \in DOMAIN f \/ \E k \in Creating : k[1] = i
    <3>1. NsSound(j, i) /\ SwapNs(j, i) = i
      BY <2>3 DEF RegSound
    <3>2. j.new[1] \in DOMAIN nsdirs
      BY <2>1 DEF TypeInv
    <3>3. DOMAIN f = DOMAIN reg \cup {j.new[1]}
      BY <2>8, <2>9, <2>10
    <3> QED BY <3>1, <3>2, <3>3 DEF NsSound
  <2>15. Matches(f)
    <3>1. \A k \in Key : /\ HasIn(f, k) => k \in DOMAIN dirs \/ k \in Deleting
                         /\ k \in DOMAIN dirs => HasIn(f, k) \/ k \in Creating
      BY <1>1, <2>13 DEF f
    <3> QED BY <2>14, <3>1 DEF Matches
  <2>16. Default \in DOMAIN f
    BY <2>8, <2>9, <2>10
  <2> QED BY <2>7, <2>15, <2>16 DEF f
<1> QED BY <1>2, <1>3

LEMMA BehindSame ==
  ASSUME UNCHANGED mu, mu # None => rq'[mu] = rq[mu]
  PROVE  RegBehind' = RegBehind /\ SibBehind' = SibBehind
BY DEF RegBehind, SibBehind, EntryOf

\* A creation or deletion is beside the operation that holds moveMu.
LEMMA BehindOther ==
  ASSUME TypeInv, FenceInv, NEW r \in Req, RqNext(r), rq[r].pc \notin HeldPC \cup {"lock"}
  PROVE  RegBehind' = RegBehind /\ SibBehind' = SibBehind
<1>1. UNCHANGED mu
  BY DEF RqNext, Lock, Mark, Rename, Siblings, Registry, RewriteScopes, Clear, Purge, Remove, Deregister,
     InitProject, Catalog, registerManagedProject, At, HeldPC, fence
<1>2. mu # r
  BY ProjectsAssumption DEF FenceInv
<1>3. mu # None => rq'[mu] = rq[mu]
  BY <1>2, RqSame DEF FenceInv
<1> QED BY <1>1, <1>3, BehindSame

LEMMA SoundRemove ==
  ASSUME Orderly, NEW r \in Req, Remove(r), ~raced',
         NEW a \in {None, RegBehind}, NEW b \in {None, a}, Sound(a, b)
  PROVE  Sound(a, b)'
<1>n. RqNext(r) /\ TypeInv /\ TypeInv'
  BY TypeRequests DEF RqNext, Orderly
<1>q. /\ rq[r].pc = "remove" /\ rq[r].op \in {"delete_project", "delete_namespace"} /\ rq[r].old \in Key
      /\ rq[r].op \notin Special
  BY <1>n, RqParts DEF Remove, At, Shape, HeldPC, Special
<1> DEFINE q == rq[r]
           gone == IF q.op = "delete_namespace" THEN {k \in Key : k[1] = q.old[1]} ELSE {q.old}
<1>1. /\ dirs' = Drop(dirs, gone) /\ sibs' = Drop(sibs, gone) /\ reg' = reg
      /\ nsdirs' = IF q.op = "delete_namespace" THEN Drop(nsdirs, {q.old[1]}) ELSE nsdirs
      /\ Goto(r, "deregister")
  BY DEF Remove
<1>2. rq'[r].pc = "deregister" /\ rq'[r].op = q.op /\ rq'[r].old = q.old
  BY <1>n, <1>1, RqGoto
<1>3. gone \subseteq Key /\ gone \subseteq Touches(q)
  BY <1>q DEF Touches
<1>4. \A k \in gone : Avoids(a, k) /\ Avoids(b, k)
  BY <1>q, <1>3, Apart DEF Orderly
<1>5. AvoidsNs(a, q.old[1])
  <2>1. q.old \in Touches(q)
    BY <1>q DEF Touches
  <2> QED BY <1>q, <2>1, Apart DEF Orderly
<1>6. Creating \subseteq Creating' /\ Deleting \subseteq Deleting' /\ DeletingNs \subseteq DeletingNs'
  BY <1>n, <1>q, PendingStep DEF Settles, SettlesNs
<1>7. q.op = "delete_namespace" => q.old[1] \in DeletingNs'
  <2> HAVE q.op = "delete_namespace"
  <2>1. q.old[1] \in Ns
    BY <1>q, KeyParts
  <2> QED BY <1>2, <2>1 DEF DeletingNs
<1>8. gone \subseteq Deleting'
  <2>1. CASE q.op = "delete_namespace"
    BY <1>3, <1>7, <2>1 DEF Deleting
  <2>2. CASE q.op = "delete_project"
    <3>1. gone = {q.old}
      BY <2>2
    <3> QED BY <1>q, <1>2, <2>2, <3>1 DEF Deleting
  <2> QED BY <1>q, <2>1, <2>2
<1>9. /\ \A k \in gone, i \in Key : SwapKey(a, i) = k => i = k
      /\ \A k \in gone, i \in Key : SwapKey(b, i) = k => i = k
  BY <1>3, <1>4, SwapOut
<1>10. \A i : SwapNs(a, i) = q.old[1] => i = q.old[1]
  BY <1>5, SwapNsOut
<1>11. q.op = "delete_namespace" => DOMAIN nsdirs' = DOMAIN nsdirs \ {q.old[1]}
  <2>1. DOMAIN Drop(nsdirs, {q.old[1]}) = DOMAIN nsdirs \ {q.old[1]}
    BY DropDom
  <2> QED BY <1>1, <2>1
<1>12. q.op # "delete_namespace" => nsdirs' = nsdirs
  BY <1>1
<1> HIDE DEF gone, q
<1>13. /\ DOMAIN Drop(dirs, gone) = DOMAIN dirs \ gone /\ DOMAIN Drop(sibs, gone) = DOMAIN sibs \ gone
       /\ \A k \in DOMAIN dirs \ gone : Drop(dirs, gone)[k] = dirs[k]
       /\ \A k \in DOMAIN sibs \ gone : Drop(sibs, gone)[k] = sibs[k]
  BY DropDom, DropVal
<1>14. ASSUME NEW k \in Key PROVE KeySound(a, k)'
  <2>1. KeySound(a, k)
    BY DEF Sound, RegSound
  <2>2. SwapKey(a, k) \in DOMAIN dirs \ DOMAIN dirs' => k \in Deleting'
    BY <1>1, <1>8, <1>9, <1>13
  <2>3. DOMAIN dirs' \subseteq DOMAIN dirs
    BY <1>1, <1>13
  <2> QED BY <1>1, <1>6, <2>1, <2>2, <2>3 DEF KeySound, HasProject
<1>15. ASSUME NEW n \in Ns PROVE NsSound(a, n)'
  <2>1. NsSound(a, n)
    BY DEF Sound, RegSound
  <2>2. SwapNs(a, n) \in DOMAIN nsdirs \ DOMAIN nsdirs' => n \in DeletingNs'
    BY <1>7, <1>10, <1>11, <1>12
  <2>3. DOMAIN nsdirs' \subseteq DOMAIN nsdirs
    BY <1>11, <1>12
  <2> QED BY <1>1, <1>6, <2>1, <2>2, <2>3 DEF NsSound
<1>16. SibSound(b)'
  <2>1. ASSUME NEW k \in DOMAIN sibs' PROVE SwapKey(b, k) \in DOMAIN dirs' /\ sibs'[k] = dirs'[SwapKey(b, k)]
    <3>1. k \in DOMAIN sibs \ gone /\ k \in Key
      BY <1>1, <1>13, <1>n DEF TypeInv, IsMap
    <3>2. SwapKey(b, k) \in DOMAIN dirs /\ sibs[k] = dirs[SwapKey(b, k)]
      BY <3>1 DEF Sound, SibSound
    <3>3. SwapKey(b, k) \notin gone
      BY <1>9, <3>1
    <3> QED BY <1>1, <1>13, <3>1, <3>2, <3>3
  <2> QED BY <2>1 DEF SibSound
<1>17. a # None => Pivoted(a)'
  <2> HAVE a # None
  <2>1. Pivoted(a)
    BY DEF Sound
  <2>2. CASE a.op = "rename_namespace"
    BY <1>5, <1>11, <1>12, <2>1, <2>2 DEF Pivoted, AvoidsNs, q
  <2>3. CASE a.op # "rename_namespace"
    <3>1. a.new \notin gone
      BY <1>4, <2>3 DEF Avoids
    <3> QED BY <1>1, <1>13, <2>1, <2>3, <3>1 DEF Pivoted
  <2> QED BY <2>2, <2>3
<1> QED BY <1>14, <1>15, <1>16, <1>17 DEF Sound, RegSound

LEMMA SoundDeregister ==
  ASSUME Orderly, NEW r \in Req, Deregister(r),
         NEW a \in {None, RegBehind}, NEW b \in {None, a}, Sound(a, b)
  PROVE  Sound(a, b)'
<1>n. RqNext(r) /\ TypeInv /\ IsMap(reg, Ns, SUBSET Proj)
  BY DEF RqNext, Orderly, TypeInv
<1>q. /\ rq[r].pc = "deregister" /\ rq[r].op \in {"delete_project", "delete_namespace"} /\ rq[r].old \in Key
      /\ rq[r].op \notin Special
  BY <1>n, RqParts DEF Deregister, At, Shape, HeldPC, Special
<1> DEFINE q == rq[r]
<1>1. /\ reg' = IF q.op = "delete_namespace" THEN Drop(reg, {q.old[1]}) ELSE RemoveProject(reg, q.old)
      /\ UNCHANGED <<dirs, nsdirs, sibs>>
  BY DEF Deregister, disk
<1>2. /\ Creating \subseteq Creating' /\ Deleting \ Settles(q) \subseteq Deleting'
      /\ DeletingNs \ SettlesNs(q) \subseteq DeletingNs'
  <2>1. Creating \cap Settles(q) = {}
    <3>1. ASSUME NEW k \in Creating, k \in Settles(q) PROVE FALSE
      <4>1. PICK u \in Req : rq[u].op = "create_project" /\ rq[u].pc \in {"catalog", "register"} /\ rq[u].old = k
        BY <3>1 DEF Creating
      <4>2. k \in Touches(rq[u]) /\ k \in Touches(q) /\ u # r
        BY <1>q, <3>1, <4>1 DEF Touches, Settles
      <4> QED BY <1>q, <4>1, <4>2 DEF Orderly, ClashInv, Clash, Special
    <3> QED BY <3>1
  <2> QED BY <1>n, <2>1, PendingStep
<1>3. AvoidsNs(a, q.old[1]) /\ Avoids(a, q.old) /\ \A k \in Settles(q) : Avoids(a, k)
  <2>1. q.old \in Touches(q) /\ Settles(q) \subseteq Touches(q)
    BY <1>q DEF Touches, Settles
  <2> QED BY <1>q, <2>1, Apart DEF Orderly
<1>4. Fresh(q)
  BY DEF Orderly, FreshInv
<1> HIDE DEF q
<1>5. CASE q.op = "delete_project"
  <2>1. Settles(q) = {q.old} /\ SettlesNs(q) = {} /\ q.old \notin DOMAIN dirs
    BY <1>q, <1>4, <1>5 DEF Settles, SettlesNs, Fresh, q
  <2>2. reg' = RemoveProject(reg, q.old) /\ q.old \in Key
    BY <1>1, <1>5, <1>q DEF q
  <2>3. ASSUME NEW k \in Key PROVE KeySound(a, k)'
    <3>1. KeySound(a, k)
      BY DEF Sound, RegSound
    <3>2. HasProject(k)' <=> HasProject(k) /\ k # q.old
      BY <1>n, <2>2, RemoveHas DEF HasProject, HasIn
    <3>3. k = q.old => SwapKey(a, k) = k
      BY <1>3, <2>2, SwapOut
    <3> QED BY <1>1, <1>2, <2>1, <3>1, <3>2, <3>3 DEF KeySound
  <2>4. ASSUME NEW n \in Ns PROVE NsSound(a, n)'
    <3>1. NsSound(a, n)
      BY DEF Sound, RegSound
    <3>2. DOMAIN reg' = DOMAIN reg
      BY <1>n, <2>2, RemoveProjectMap
    <3> QED BY <1>1, <1>2, <2>1, <3>1, <3>2 DEF NsSound
  <2> QED BY <1>1, <2>3, <2>4 DEF Sound, RegSound, SibSound, Pivoted
<1>6. CASE q.op = "delete_namespace"
  <2> DEFINE n0 == q.old[1]
  <2>1. Settles(q) = {k \in Key : k[1] = n0} /\ SettlesNs(q) = {n0} /\ n0 \notin DOMAIN nsdirs
    BY <1>q, <1>4, <1>6 DEF Settles, SettlesNs, Fresh, q
  <2>2. reg' = Drop(reg, {n0})
    BY <1>1, <1>6
  <2>3. AvoidsNs(a, n0)
    BY <1>3
  <2> HIDE DEF n0
  <2>4. DOMAIN reg' = DOMAIN reg \ {n0} /\ \A n \in DOMAIN reg \ {n0} : reg'[n] = reg[n]
    BY <2>2 DEF Drop
  <2>5. ASSUME NEW k \in Key PROVE KeySound(a, k)'
    <3>1. KeySound(a, k)
      BY DEF Sound, RegSound
    <3>2. CASE k[1] = n0
      <4>1. SwapKey(a, k) = k
        BY <1>3, <2>1, <3>2, SwapOut
      <4>2. k \notin DOMAIN dirs
        BY <2>1, <3>2, <1>n DEF TypeInv
      <4> QED BY <1>1, <2>4, <3>2, <4>1, <4>2 DEF KeySound, HasProject
    <3>3. CASE k[1] # n0
      BY <1>1, <1>2, <2>1, <2>4, <3>1, <3>3 DEF KeySound, HasProject
    <3> QED BY <3>2, <3>3
  <2>6. ASSUME NEW n \in Ns PROVE NsSound(a, n)'
    <3>1. NsSound(a, n)
      BY DEF Sound, RegSound
    <3>2. n = n0 => SwapNs(a, n) = n
      BY <2>3, SwapNsOut
    <3> QED BY <1>1, <1>2, <2>1, <2>4, <3>1, <3>2 DEF NsSound
  <2> QED BY <1>1, <2>5, <2>6 DEF Sound, RegSound, SibSound, Pivoted
<1> QED BY <1>q, <1>5, <1>6 DEF q

LEMMA SoundInit ==
  ASSUME Orderly, NEW r \in Req, InitProject(r),
         NEW a \in {None, RegBehind}, NEW b \in {None, a}, Sound(a, b)
  PROVE  Sound(a, b)'
<1>n. RqNext(r) /\ TypeInv
  BY DEF RqNext, Orderly
<1>q. /\ rq[r].pc = "init" /\ rq[r].op = "create_project" /\ rq[r].old \in Key /\ rq[r].op \notin Special
  BY <1>n, RqParts DEF InitProject, At, Shape, HeldPC, Special
<1> DEFINE k0 == rq[r].old
<1>0. k0 \in Key /\ k0 \in Touches(rq[r])
  BY <1>q DEF Touches
<1>1. /\ UNCHANGED <<sibs, reg>>
      /\ nsdirs' = nsdirs \/ nsdirs' = Put(nsdirs, k0[1], nextId)
      /\ dirs' = dirs \/ (dirs' = Put(dirs, k0, nextId + 1) /\ k0 \notin DOMAIN dirs)
      /\ Goto(r, "catalog") \/ Goto(r, "register")
  BY DEF InitProject
<1>2. k0 \in Creating'
  <2>1. rq'[r].pc \in {"catalog", "register"} /\ rq'[r].op = "create_project" /\ rq'[r].old = k0
    BY <1>n, <1>q, <1>1, RqGoto
  <2> QED BY <1>0, <2>1 DEF Creating
<1>3. Creating \subseteq Creating' /\ Deleting \subseteq Deleting' /\ DeletingNs \subseteq DeletingNs'
  BY <1>n, <1>q, PendingStep DEF Settles, SettlesNs
<1>4. Avoids(a, k0) /\ AvoidsNs(a, k0[1]) /\ Avoids(b, k0)
  BY <1>q, <1>0, Apart DEF Orderly
<1> HIDE DEF k0
<1>5. /\ SwapKey(b, k0) = k0
      /\ \A k \in Key : (SwapKey(a, k) = k0 => k = k0) /\ (SwapKey(b, k) = k0 => k = k0)
      /\ \A n : SwapNs(a, n) = k0[1] => n = k0[1]
  BY <1>0, <1>4, SwapOut, SwapNsOut
<1>6. DOMAIN dirs \subseteq DOMAIN dirs' /\ DOMAIN dirs' \subseteq DOMAIN dirs \cup {k0}
  BY <1>1 DEF Put
<1>7. DOMAIN nsdirs \subseteq DOMAIN nsdirs' /\ DOMAIN nsdirs' \subseteq DOMAIN nsdirs \cup {k0[1]}
  BY <1>1 DEF Put
<1>8. \A k \in DOMAIN dirs : dirs'[k] = dirs[k]
  <2>1. k0 \notin DOMAIN dirs => \A k \in DOMAIN dirs : Put(dirs, k0, nextId + 1)[k] = dirs[k]
    BY PutVal
  <2> QED BY <1>1, <2>1
<1>9. ASSUME NEW k \in Key PROVE KeySound(a, k)'
  <2>1. KeySound(a, k)
    BY DEF Sound, RegSound
  <2> QED BY <1>1, <1>2, <1>3, <1>5, <1>6, <2>1 DEF KeySound, HasProject
<1>10. ASSUME NEW n \in Ns PROVE NsSound(a, n)'
  <2>1. NsSound(a, n)
    BY DEF Sound, RegSound
  <2> QED BY <1>1, <1>2, <1>3, <1>5, <1>7, <2>1 DEF NsSound
<1>11. SibSound(b)'
  BY <1>1, <1>6, <1>8 DEF Sound, SibSound
<1>12. a # None => Pivoted(a)'
  <2> HAVE a # None
  <2>1. Pivoted(a)
    BY DEF Sound
  <2> QED BY <1>4, <1>6, <1>7, <2>1 DEF Pivoted, Avoids
<1> QED BY <1>9, <1>10, <1>11, <1>12 DEF Sound, RegSound

LEMMA SoundCatalog ==
  ASSUME Orderly, NEW r \in Req, Catalog(r),
         NEW a \in {None, RegBehind}, NEW b \in {None, a}, Sound(a, b)
  PROVE  Sound(a, b)'
<1>n. RqNext(r) /\ TypeInv
  BY DEF RqNext, Orderly
<1>q. /\ rq[r].pc = "catalog" /\ rq[r].op = "create_project" /\ rq[r].old \in Key /\ rq[r].op \notin Special
  BY <1>n, RqParts DEF Catalog, At, Shape, HeldPC, Special
<1> DEFINE k0 == rq[r].old
<1>0. k0 \in Key /\ k0 \in Touches(rq[r])
  BY <1>q DEF Touches
<1>1. /\ UNCHANGED <<dirs, nsdirs, reg>>
      /\ sibs' = sibs \/ (sibs' = Put(sibs, k0, dirs[k0]) /\ k0 \in DOMAIN dirs /\ k0 \notin DOMAIN sibs)
  BY DEF Catalog
<1>3. Creating \subseteq Creating' /\ Deleting \subseteq Deleting' /\ DeletingNs \subseteq DeletingNs'
  BY <1>n, <1>q, PendingStep DEF Settles, SettlesNs
<1>4. Avoids(b, k0)
  BY <1>q, <1>0, Apart DEF Orderly
<1> HIDE DEF k0
<1>5. SwapKey(b, k0) = k0
  BY <1>0, <1>4, SwapOut
<1>6. CASE sibs' = sibs
  BY <1>1, <1>3, <1>6, SoundSame
<1>7. CASE sibs' # sibs
  <2>1. k0 \in DOMAIN dirs /\ k0 \notin DOMAIN sibs /\ sibs' = Put(sibs, k0, dirs[k0])
    BY <1>1, <1>7
  <2>2. /\ DOMAIN Put(sibs, k0, dirs[k0]) = DOMAIN sibs \cup {k0}
        /\ Put(sibs, k0, dirs[k0])[k0] = dirs[k0]
        /\ \A k \in DOMAIN sibs \ {k0} : Put(sibs, k0, dirs[k0])[k] = sibs[k]
    BY DEF Put
  <2>3. SibSound(b)'
    BY <1>1, <1>5, <2>1, <2>2 DEF Sound, SibSound
  <2>4. ASSUME NEW k \in Key PROVE KeySound(a, k)'
    <3>1. KeySound(a, k)
      BY DEF Sound, RegSound
    <3> QED BY <1>1, <1>3, <3>1 DEF KeySound, HasProject
  <2>5. ASSUME NEW n \in Ns PROVE NsSound(a, n)'
    <3>1. NsSound(a, n)
      BY DEF Sound, RegSound
    <3> QED BY <1>1, <1>3, <3>1 DEF NsSound
  <2>6. a # None => Pivoted(a)'
    BY <1>1 DEF Sound, Pivoted
  <2> QED BY <2>3, <2>4, <2>5, <2>6 DEF Sound, RegSound
<1> QED BY <1>6, <1>7

LEMMA SoundRegister ==
  ASSUME Orderly, NEW r \in Req, registerManagedProject(r),
         NEW a \in {None, RegBehind}, NEW b \in {None, a}, Sound(a, b)
  PROVE  Sound(a, b)'
<1>n. RqNext(r) /\ TypeInv /\ IsMap(reg, Ns, SUBSET Proj)
  BY DEF RqNext, Orderly, TypeInv
<1>q. /\ rq[r].pc = "register" /\ rq[r].op = "create_project" /\ rq[r].old \in Key /\ rq[r].op \notin Special
  BY <1>n, RqParts DEF registerManagedProject, At, Shape, HeldPC, Special
<1> DEFINE k0 == rq[r].old
<1>0. k0 \in Key /\ k0 \in Touches(rq[r])
  BY <1>q DEF Touches
<1>1. UNCHANGED <<dirs, nsdirs, sibs>> /\ reg' = AddProject(reg, k0)
  BY DEF registerManagedProject, disk
<1>2. k0 \in DOMAIN dirs /\ k0[1] \in DOMAIN nsdirs
  BY <1>n, <1>q DEF Orderly, FreshInv, Fresh, TypeInv
<1>3. /\ Creating \ {k0} \subseteq Creating' /\ Deleting \subseteq Deleting' /\ DeletingNs \subseteq DeletingNs'
  <2>1. ASSUME NEW k \in Deleting, k \in Settles(rq[r]) PROVE FALSE
    <3>1. k = k0 /\ k \in Key
      BY <1>q, <2>1 DEF Settles, Deleting
    <3>2. PICK u \in Req : k \in Touches(rq[u]) /\ rq[u].op \in {"delete_project", "delete_namespace"}
      <4>1. CASE k[1] \in DeletingNs
        BY <3>1, <4>1 DEF DeletingNs, Touches
      <4>2. CASE k[1] \notin DeletingNs
        BY <2>1, <4>2 DEF Deleting, Touches
      <4> QED BY <4>1, <4>2
    <3>3. u # r
      BY <1>q, <3>2
    <3> QED BY <1>0, <1>q, <3>1, <3>2, <3>3 DEF Orderly, ClashInv, Clash, Special
  <2>2. Settles(rq[r]) = {k0} /\ SettlesNs(rq[r]) = {}
    BY <1>q DEF Settles, SettlesNs
  <2> QED BY <1>n, <2>1, <2>2, PendingStep
<1>4. Avoids(a, k0) /\ AvoidsNs(a, k0[1])
  BY <1>q, <1>0, Apart DEF Orderly
<1> HIDE DEF k0
<1>5. SwapKey(a, k0) = k0 /\ SwapNs(a, k0[1]) = k0[1]
  BY <1>0, <1>4, SwapOut, SwapNsOut
<1>6. DOMAIN reg' = DOMAIN reg \cup {k0[1]}
  BY <1>n, <1>0, <1>1, AddProjectMap
<1>7. \A k \in Key : HasProject(k)' <=> HasProject(k) \/ k = k0
  BY <1>n, <1>0, <1>1, AddHas DEF HasProject, HasIn
<1>8. ASSUME NEW k \in Key PROVE KeySound(a, k)'
  <2>1. KeySound(a, k)
    BY DEF Sound, RegSound
  <2> QED BY <1>1, <1>2, <1>3, <1>5, <1>7, <2>1 DEF KeySound
<1>9. ASSUME NEW n \in Ns PROVE NsSound(a, n)'
  <2>1. NsSound(a, n)
    BY DEF Sound, RegSound
  <2> QED BY <1>1, <1>2, <1>3, <1>5, <1>6, <2>1 DEF NsSound
<1> QED BY <1>1, <1>8, <1>9 DEF Sound, RegSound, SibSound, Pivoted

LEMMA SoundSiblings ==
  ASSUME Orderly, NEW r \in Req, Siblings(r), NEW j, j = EntryOf(rq[r]), Sound(j, j)
  PROVE  Sound(j, None)'
<1>n. RqNext(r) /\ TypeInv
  BY DEF RqNext, Orderly
<1>q. rq[r].pc = "siblings" /\ rq[r].op \in Special /\ rq[r].op # "rename_namespace"
  BY <1>n, RqParts DEF Siblings, At, Shape
<1>j. j # None /\ j.op = rq[r].op /\ j.old = rq[r].old /\ j.new = rq[r].new /\ j.old # j.new
  BY <1>n, <1>q, EntryParts
<1>1. sibs' = Rekey(sibs, j.old, j.new) /\ UNCHANGED <<dirs, nsdirs, reg>>
  BY <1>j DEF Siblings, relocateSiblingDB
<1>2. Creating \subseteq Creating' /\ Deleting \subseteq Deleting' /\ DeletingNs \subseteq DeletingNs'
  BY <1>n, <1>q, PendingStep DEF Settles, SettlesNs
<1>3. SibSound(None)'
  <2>1. \A k \in DOMAIN sibs' : k \in DOMAIN dirs /\ sibs'[k] = dirs[k]
    BY <1>q, <1>j, <1>1, SibsFollow DEF Sound
  <2> QED BY <1>1, <2>1, SwapNone DEF SibSound
<1>4. ASSUME NEW k \in Key PROVE KeySound(j, k)'
  <2>1. KeySound(j, k)
    BY DEF Sound, RegSound
  <2> QED BY <1>1, <1>2, <2>1 DEF KeySound, HasProject
<1>5. ASSUME NEW n \in Ns PROVE NsSound(j, n)'
  <2>1. NsSound(j, n)
    BY DEF Sound, RegSound
  <2> QED BY <1>1, <1>2, <2>1 DEF NsSound
<1>6. Pivoted(j)'
  BY <1>j, <1>1 DEF Sound, Pivoted
<1> QED BY <1>3, <1>4, <1>5, <1>6 DEF Sound, RegSound

LEMMA SoundRegistry ==
  ASSUME Orderly, NEW r \in Req, Registry(r), ~raced', Default \in DOMAIN reg,
         NEW j, j = EntryOf(rq[r]), j = RegBehind, Sound(j, None)
  PROVE  Goto(r, "users") /\ Sound(None, None)' /\ Default \in DOMAIN reg' /\ UNCHANGED mu
<1>n. RqNext(r) /\ TypeInv
  BY DEF RqNext, Orderly
<1>q. rq[r].pc = "registry" /\ rq[r].op \in Special
  BY <1>n, RqParts DEF Registry, At, Shape
<1>j. /\ j \in Entry /\ Names(j) /\ j # None /\ j.op = rq[r].op /\ j.old = rq[r].old /\ j.new = rq[r].new
  BY <1>n, <1>q, EntryParts
<1>1. ~RegistryRefuses(j) /\ Matches(RegistryMoved(j)) /\ Default \in DOMAIN RegistryMoved(j)
  BY <1>n, <1>j, PendingApart, RegFollows DEF Orderly, Sound
<1>2. (RegistryRefuses(rq[r]) <=> RegistryRefuses(j)) /\ RegistryMoved(rq[r]) = RegistryMoved(j)
  BY <1>j DEF RegistryRefuses, RegistryMoved, nsregMoveProject, nsregRenameNamespace
<1>3. reg' = RegistryMoved(j) /\ Goto(r, "users") /\ UNCHANGED <<dirs, nsdirs, sibs, mu>>
  BY <1>1, <1>2 DEF Registry, fence, disk
<1>4. Creating \subseteq Creating' /\ Deleting \subseteq Deleting' /\ DeletingNs \subseteq DeletingNs'
  BY <1>n, <1>q, PendingStep DEF Settles, SettlesNs
<1>5. Matches(reg)'
  <2>1. Matches(reg')
    BY <1>1, <1>3
  <2> QED BY <1>3, <1>4, <2>1 DEF Matches, HasIn
<1>6. RegSound(None)'
  <2>1. ASSUME NEW k \in Key PROVE KeySound(None, k)'
    BY <1>5, SwapNone DEF KeySound, HasProject, Matches, HasIn
  <2>2. ASSUME NEW n \in Ns PROVE NsSound(None, n)'
    BY <1>5, SwapNone DEF NsSound, Matches
  <2> QED BY <2>1, <2>2 DEF RegSound
<1>7. SibSound(None)'
  BY <1>3 DEF Sound, SibSound
<1> QED BY <1>1, <1>3, <1>6, <1>7 DEF Sound

\* The steps of the operation that holds moveMu with nothing behind it.
LEMMA BehindNone ==
  ASSUME TypeInv, FenceInv, NEW r \in Req,
         \/ Lock(r) \/ Mark(r) \/ (Rename(r) /\ ~CanRename(rq[r])) \/ Clear(r)
         \/ RewriteScopes(r, "users", "tokens") \/ RewriteScopes(r, "tokens", "clear")
  PROVE  /\ RegBehind = None /\ SibBehind = None /\ RegBehind' = None /\ SibBehind' = None
         /\ UNCHANGED <<dirs, nsdirs, sibs, reg>> /\ Settles(rq[r]) = {} /\ SettlesNs(rq[r]) = {}
<1>n. RqNext(r)
  BY DEF RqNext
<1>1. CASE Lock(r)
  <2>1. mu' = None \/ (mu' = r /\ Goto(r, "mark"))
    BY <1>1 DEF Lock
  <2>2. mu' = r /\ Goto(r, "mark") => rq'[mu'].pc = "mark"
    BY <1>n, RqGoto
  <2> QED BY <1>1, <2>1, <2>2 DEF Lock, At, RegBehind, SibBehind, Settles, SettlesNs, disk
<1>2. CASE ~Lock(r)
  <2>1. rq[r].pc \in {"mark", "rename", "clear", "users", "tokens"}
    BY <1>2 DEF Mark, Rename, Clear, RewriteScopes, At
  <2>2. mu = r
    BY <2>1 DEF FenceInv, HeldPC
  <2>3. RegBehind = None /\ SibBehind = None /\ Settles(rq[r]) = {} /\ SettlesNs(rq[r]) = {}
    BY <2>1, <2>2 DEF RegBehind, SibBehind, Settles, SettlesNs
  <2>4. mu' = None \/ (mu' = r /\ \E p \in {"rename", "tokens", "clear"} : Goto(r, p))
    BY <1>2, <2>2 DEF Mark, Rename, Clear, RewriteScopes, Fail, Unfence, fence
  <2>5. mu' # None => rq'[mu'].pc \in {"rename", "tokens", "clear"}
    BY <1>n, <2>4, RqGoto
  <2>6. RegBehind' = None /\ SibBehind' = None
    BY <2>5 DEF RegBehind, SibBehind
  <2> QED BY <1>2, <2>3, <2>6 DEF Mark, Rename, Clear, RewriteScopes, disk
<1> QED BY <1>1, <1>2

LEMMA SoundRequests ==
  ASSUME Orderly, up, ~raced', SoundBoth, Default \in DOMAIN reg, Default \in DOMAIN nsdirs,
         NEW r \in Req, RqNext(r)
  PROVE  SoundBoth' /\ Default \in DOMAIN reg' /\ Default \in DOMAIN nsdirs' /\ left' = {} /\ quar' = {}
<1>n. TypeInv /\ FenceInv /\ None \notin Req
  BY ProjectsAssumption DEF Orderly
<1>s. Sound(RegBehind, SibBehind)
  <2>1. PICK a, b : Sound(a, b) /\ a = RegBehind /\ b = SibBehind
    BY DEF SoundBoth
  <2> QED BY <2>1 DEF Sound, RegSound, KeySound, NsSound, SibSound, Pivoted
<1>u. up'
  BY DEF RqNext, Lock, Mark, Rename, Siblings, Registry, RewriteScopes, Clear, Purge, Remove, Deregister,
     InitProject, Catalog, registerManagedProject
<1>b. SibBehind \in {None, RegBehind}
  BY <1>n, BehindParts
<1>q. rq[r].pc # "idle" /\ Shape(rq[r]) /\ rq[r].old \in Key
  BY <1>n, RqSame, RqParts
<1>1. left' = {} /\ quar' = {}
  <2>1. quar' = quar /\ (left' = left \/ left' \subseteq left \/ Rename(r))
    BY DEF RqNext, Lock, Mark, Rename, Siblings, Registry, RewriteScopes, Clear, Purge, Remove, Deregister,
       InitProject, Catalog, registerManagedProject, disk
  <2>2. Rename(r) => left' = {}
    BY DEF Rename, disk, Orderly
  <2> QED BY <2>1, <2>2 DEF Orderly
<1>2. Default \in DOMAIN nsdirs'
  <2>1. Rename(r) /\ rq[r].op = "rename_namespace" => Default \notin {rq[r].old[1], rq[r].new[1]}
    BY <1>q DEF Rename, At, Shape, Names
  <2>2. Remove(r) /\ rq[r].op = "delete_namespace" => Default # rq[r].old[1]
    BY <1>q DEF Remove, At, Shape, Special
  <2> QED BY <1>n, <2>1, <2>2, KeptNs
<1>a. ASSUME NEW a, NEW b, a = RegBehind, b = SibBehind, Sound(a, b)
      PROVE  SoundBoth' /\ Default \in DOMAIN reg'
  <2>b. a \in {None, RegBehind} /\ b \in {None, a}
    BY <1>a, <1>b
  <2>1. CASE rq[r].pc \notin HeldPC \cup {"lock"} /\ ~Deregister(r)
    <3>1. RegBehind' = a /\ SibBehind' = b
      BY <1>n, <1>a, <2>1, BehindOther
    <3>2. CASE Remove(r)
      BY <1>a, <2>b, <3>1, <3>2, SoundRemove, SoundWitness, <1>u DEF Remove
    <3>3. CASE InitProject(r)
      BY <1>a, <2>b, <3>1, <3>3, SoundInit, SoundWitness, <1>u DEF InitProject
    <3>4. CASE Catalog(r)
      BY <1>a, <2>b, <3>1, <3>4, SoundCatalog, SoundWitness, <1>u DEF Catalog
    <3>5. CASE registerManagedProject(r)
      <4>1. DOMAIN AddProject(reg, rq[r].old) = DOMAIN reg \cup {rq[r].old[1]}
        BY <1>n, <1>q, AddProjectMap DEF TypeInv
      <4>2. Default \in DOMAIN reg'
        BY <3>5, <4>1 DEF registerManagedProject
      <4> QED BY <1>a, <2>b, <3>1, <3>5, <4>2, SoundRegister, SoundWitness, <1>u
    <3>6. CASE Purge(r, "users", "purge_tokens") \/ Purge(r, "tokens", "remove")
      <4>1. UNCHANGED <<dirs, nsdirs, sibs, reg>> /\ rq[r].pc \in {"purge_users", "purge_tokens"}
        BY <3>6 DEF Purge, disk, At
      <4>2. Creating \subseteq Creating' /\ Deleting \subseteq Deleting' /\ DeletingNs \subseteq DeletingNs'
        BY <1>n, <4>1, PendingStep DEF Settles, SettlesNs
      <4> QED BY <1>a, <3>1, <4>1, <4>2, SoundSame, SoundWitness, <1>u
    <3> QED BY <2>1, <3>2, <3>3, <3>4, <3>5, <3>6 DEF RqNext, Lock, Mark, Rename, Siblings, Registry,
          RewriteScopes, Clear, At, HeldPC
  <2>2. CASE Deregister(r)
    <3>1. rq[r].pc \notin HeldPC \cup {"lock"}
      BY <2>2 DEF Deregister, At, HeldPC
    <3>2. RegBehind' = a /\ SibBehind' = b
      BY <1>n, <1>a, <3>1, BehindOther
    <3>3. rq[r].op = "delete_namespace" => rq[r].old[1] # Default
      BY <2>2, <1>q DEF Deregister, At, Shape, Special, HeldPC
    <3>4. DOMAIN Drop(reg, {rq[r].old[1]}) = DOMAIN reg \ {rq[r].old[1]}
      BY DropDom
    <3>5. DOMAIN RemoveProject(reg, rq[r].old) = DOMAIN reg
      BY <1>n, <1>q, RemoveProjectMap DEF TypeInv
    <3>6. Default \in DOMAIN reg'
      BY <2>2, <3>3, <3>4, <3>5 DEF Deregister
    <3> QED BY <1>a, <2>2, <2>b, <3>2, <3>6, SoundDeregister, SoundWitness, <1>u
  <2>3. CASE \/ Lock(r) \/ Mark(r) \/ (Rename(r) /\ ~CanRename(rq[r])) \/ Clear(r)
             \/ RewriteScopes(r, "users", "tokens") \/ RewriteScopes(r, "tokens", "clear")
    <3>1. /\ a = None /\ b = None /\ RegBehind' = None /\ SibBehind' = None
          /\ UNCHANGED <<dirs, nsdirs, sibs, reg>> /\ Settles(rq[r]) = {} /\ SettlesNs(rq[r]) = {}
      BY <1>n, <1>a, <2>3, BehindNone
    <3>2. Creating \subseteq Creating' /\ Deleting \subseteq Deleting' /\ DeletingNs \subseteq DeletingNs'
      BY <1>n, <3>1, PendingStep
    <3> QED BY <1>a, <3>1, <3>2, SoundSame, SoundWitness, <1>u
  <2>4. CASE Rename(r) /\ CanRename(rq[r])
    <3>1. rq[r].pc = "rename" /\ mu = r /\ rq[r].op \in Special
      BY <1>n, <1>q, <2>4 DEF Rename, At, FenceInv, HeldPC, Shape
    <3>2. a = None /\ b = None
      BY <1>a, <3>1 DEF RegBehind, SibBehind
    <3>3. PICK j : j = EntryOf(rq[r])
      OBVIOUS
    <3>4. rq[r].pc # "idle" /\ RqNext(r)
      BY <3>1
    <3>5. UNCHANGED <<mu, reg>>
      BY <2>4 DEF Rename, fence
    <3>6. CASE rq[r].op = "rename_namespace"
      <4>1. rq'[r].pc = "registry"
        BY <2>4, <3>6, RqGoto, <1>n DEF Rename
      <4>4. EntryOf(rq'[r]) = j
        <5>1. Goto(r, "registry")
          BY <2>4, <3>6 DEF Rename
        <5>2. rq'[r].op = rq[r].op /\ rq'[r].old = rq[r].old /\ rq'[r].new = rq[r].new
          BY <1>n, <5>1, RqGoto
        <5> QED BY <3>3, <5>2 DEF EntryOf
      <4>2. RegBehind' = j /\ SibBehind' = None
        BY <1>n, <3>1, <3>5, <4>1, <4>4 DEF RegBehind, SibBehind
      <4>3. Sound(j, None)'
        BY <1>a, <2>4, <3>2, <3>3, <3>6, SoundRenameNs
      <4> QED BY <3>5, <4>2, <4>3, SoundWitness, <1>u
    <3>7. CASE rq[r].op # "rename_namespace"
      <4>1. rq'[r].pc = "siblings"
        BY <2>4, <3>7, RqGoto, <1>n DEF Rename
      <4>4. EntryOf(rq'[r]) = j
        <5>1. Goto(r, "siblings")
          BY <2>4, <3>7 DEF Rename
        <5>2. rq'[r].op = rq[r].op /\ rq'[r].old = rq[r].old /\ rq'[r].new = rq[r].new
          BY <1>n, <5>1, RqGoto
        <5> QED BY <3>3, <5>2 DEF EntryOf
      <4>2. RegBehind' = j /\ SibBehind' = j
        BY <1>n, <3>1, <3>5, <4>1, <4>4 DEF RegBehind, SibBehind
      <4>3. Sound(j, j)'
        BY <1>a, <2>4, <3>2, <3>3, <3>7, SoundRenameProject
      <4> QED BY <3>5, <4>2, <4>3, SoundWitness, <1>u
    <3> QED BY <3>6, <3>7
  <2>5. CASE Siblings(r) \/ Registry(r)
    <3>1. rq[r].pc \in {"siblings", "registry"} /\ mu = r
      BY <1>n, <2>5 DEF Siblings, Registry, At, FenceInv, HeldPC
    <3>2. PICK j : j = EntryOf(rq[r])
      OBVIOUS
    <3>3. RqNext(r)
      OBVIOUS
    <3>4. a = j /\ (Siblings(r) => b = j) /\ (Registry(r) => b = None)
      BY <1>a, <1>n, <3>1, <3>2 DEF RegBehind, SibBehind, Siblings, Registry, At
    <3>5. CASE Siblings(r)
      <4>1. Sound(j, None)'
        BY <1>a, <3>2, <3>4, <3>5, SoundSiblings
      <4>2. UNCHANGED <<mu, reg>> /\ rq'[r].pc = "registry" /\ EntryOf(rq'[r]) = j
        BY <1>n, <3>2, <3>5, RqGoto DEF Siblings, fence, EntryOf
      <4>3. RegBehind' = j /\ SibBehind' = None
        BY <1>n, <3>1, <4>2 DEF RegBehind, SibBehind, EntryOf
      <4> QED BY <4>1, <4>2, <4>3, SoundWitness, <1>u
    <3>6. CASE Registry(r)
      <4>1. Goto(r, "users") /\ Sound(None, None)' /\ Default \in DOMAIN reg' /\ UNCHANGED mu
        BY <1>a, <3>2, <3>4, <3>6, SoundRegistry
      <4>2. rq'[r].pc = "users"
        BY <1>n, <4>1, RqGoto
      <4>3. RegBehind' = None /\ SibBehind' = None
        BY <1>n, <3>1, <4>1, <4>2 DEF RegBehind, SibBehind
      <4> QED BY <4>1, <4>3, SoundWitness, <1>u
    <3> QED BY <2>5, <3>5, <3>6
  <2>6. ASSUME \/ Purge(r, "users", "purge_tokens") \/ Purge(r, "tokens", "remove") \/ Remove(r)
               \/ InitProject(r) \/ Catalog(r) \/ registerManagedProject(r)
        PROVE  rq[r].pc \notin HeldPC \cup {"lock"}
    BY <2>6 DEF Purge, Remove, InitProject, Catalog, registerManagedProject, At, HeldPC
  <2>7. CASE Deregister(r)
    BY <2>2, <2>7
  <2>8. CASE ~Deregister(r) /\ ( \/ Purge(r, "users", "purge_tokens") \/ Purge(r, "tokens", "remove")
                                 \/ Remove(r) \/ InitProject(r) \/ Catalog(r) \/ registerManagedProject(r) )
    <3>1. rq[r].pc \notin HeldPC \cup {"lock"}
      BY <2>6, <2>8
    <3> QED BY <2>1, <2>8, <3>1
  <2>9. CASE \/ Lock(r) \/ Mark(r) \/ Clear(r)
             \/ RewriteScopes(r, "users", "tokens") \/ RewriteScopes(r, "tokens", "clear")
    BY <2>3, <2>9
  <2>10. CASE Rename(r)
    BY <2>3, <2>4, <2>10
  <2>11. CASE Siblings(r) \/ Registry(r)
    BY <2>5, <2>11
  <2> QED BY <2>7, <2>8, <2>9, <2>10, <2>11 DEF RqNext
<1> QED BY <1>1, <1>2, <1>a, <1>s

\* A namespace that no request works in.
LEMMA UntouchedNs ==
  ASSUME TypeInv, FenceInv, NEW n, \A r \in Req : \A k \in Touches(rq[r]) : k[1] # n,
         NEW a \in {None, RegBehind}
  PROVE  /\ AvoidsNs(a, n) /\ n \notin DeletingNs
         /\ \A k \in Key : k[1] = n => Avoids(a, k) /\ k \notin Creating \cup Deleting
<1>1. AvoidsNs(a, n) /\ \A k \in Key : k[1] = n => Avoids(a, k)
  <2>1. CASE a = None
    BY <2>1 DEF AvoidsNs, Avoids
  <2>2. CASE a # None
    <3>1. mu \in Req /\ rq[mu].pc \in {"siblings", "registry"} /\ a = EntryOf(rq[mu]) /\ a \in Entry
      BY <2>2, BehindParts
    <3>2. a.op = rq[mu].op /\ a.old = rq[mu].old /\ a.new = rq[mu].new /\ a.old \in Key /\ a.new \in Key
      BY <3>1 DEF EntryOf, Entry
    <3>3. a.old \in Touches(rq[mu]) /\ a.new \in Touches(rq[mu])
      BY <3>1, <3>2 DEF Touches
    <3>4. n \notin {a.old[1], a.new[1]}
      BY <3>1, <3>3
    <3> QED BY <3>4 DEF AvoidsNs, Avoids
  <2> QED BY <2>1, <2>2
<1>2. n \notin DeletingNs
  <2> SUFFICES ASSUME n \in DeletingNs PROVE FALSE
    OBVIOUS
  <2>1. PICK r \in Req : rq[r].op = "delete_namespace" /\ rq[r].pc = "deregister" /\ rq[r].old[1] = n
    BY DEF DeletingNs
  <2>2. rq[r].old \in Touches(rq[r])
    BY <2>1, RqParts DEF Touches
  <2> QED BY <2>1, <2>2
<1>3. ASSUME NEW k \in Key, k[1] = n, k \in Creating \cup Deleting PROVE FALSE
  <2>1. PICK r \in Req : rq[r].op \in {"create_project", "delete_project"} /\ rq[r].pc # "idle" /\ rq[r].old = k
    BY <1>2, <1>3 DEF Creating, Deleting
  <2>2. k \in Touches(rq[r])
    BY <2>1 DEF Touches
  <2> QED BY <1>3, <2>2
<1> QED BY <1>1, <1>2, <1>3

LEMMA SoundCreateNs ==
  ASSUME Orderly, CreateNamespace, ~raced', NEW a \in {None, RegBehind}, NEW b, Sound(a, b)
  PROVE  /\ Sound(a, b)' /\ DOMAIN reg \subseteq DOMAIN reg' /\ DOMAIN nsdirs \subseteq DOMAIN nsdirs'
         /\ \A r \in Req : Fresh(rq[r])'
<1>1. PICK n \in Ns :
        /\ nsdirs' = IF n \in DOMAIN nsdirs THEN nsdirs ELSE Put(nsdirs, n, nextId)
        /\ reg' = EnsureNamespace(reg, n)
        /\ \A r \in Req : \A k \in Touches(rq[r]) : k[1] # n
  BY DEF CreateNamespace
<1>2. UNCHANGED <<dirs, sibs, rq>>
  BY DEF CreateNamespace
<1>3. AvoidsNs(a, n)
  BY <1>1, UntouchedNs DEF Orderly
<1>4. SwapNs(a, n) = n /\ \A m : SwapNs(a, m) = n => m = n
  BY <1>3, SwapNsOut
<1>5. DOMAIN nsdirs' = DOMAIN nsdirs \cup {n}
  <2>1. DOMAIN Put(nsdirs, n, nextId) = DOMAIN nsdirs \cup {n}
    BY PutDom
  <2> QED BY <1>1, <2>1
<1>6. DOMAIN reg' = DOMAIN reg \cup {n}
  BY <1>1, EnsureDom
<1>7. \A k : HasProject(k)' <=> HasProject(k)
  <2>0. IsMap(reg, Ns, SUBSET Proj)
    BY DEF Orderly, TypeInv
  <2>1. /\ \A m \in DOMAIN reg : EnsureNamespace(reg, n)[m] = reg[m]
        /\ n \notin DOMAIN reg => EnsureNamespace(reg, n)[n] = {}
    BY <2>0, EnsureMap
  <2> QED BY <1>1, <1>6, <2>1 DEF HasProject
<1>8. Creating' = Creating /\ Deleting' = Deleting /\ DeletingNs' = DeletingNs
  BY <1>2 DEF Creating, Deleting, DeletingNs
<1>9. ASSUME NEW k \in Key PROVE KeySound(a, k)'
  <2>1. KeySound(a, k)
    BY DEF Sound, RegSound
  <2> QED BY <1>2, <1>7, <1>8, <2>1 DEF KeySound
<1>10. ASSUME NEW m \in Ns PROVE NsSound(a, m)'
  <2>1. NsSound(a, m)
    BY DEF Sound, RegSound
  <2> QED BY <1>4, <1>5, <1>6, <1>8, <2>1 DEF NsSound
<1>11. a # None => Pivoted(a)'
  <2> HAVE a # None
  <2> QED BY <1>2, <1>3, <1>5 DEF Sound, Pivoted, AvoidsNs
<1>12. ASSUME NEW r \in Req PROVE Fresh(rq[r])'
  <2>1. Fresh(rq[r])
    BY DEF Orderly, FreshInv
  <2>2. rq[r].pc # "idle" => /\ rq[r].new \in Touches(rq[r])
                             /\ rq[r].old \in Touches(rq[r])
    BY RqParts DEF Touches, Orderly
  <2>3. rq[r].pc # "idle" => rq[r].new[1] # n /\ rq[r].old[1] # n
    BY <1>1, <2>2
  <2> QED BY <1>2, <1>5, <2>1, <2>3 DEF Fresh
<1> QED BY <1>2, <1>5, <1>6, <1>9, <1>10, <1>11, <1>12 DEF Sound, RegSound, SibSound

\* In a sound state the health page has nothing to repair.
LEMMA NoRecover ==
  ASSUME Orderly, Recover, ~raced', NEW a \in {None, RegBehind}, NEW b \in {None, a}, Sound(a, b)
  PROVE  FALSE
<1>t. IsMap(reg, Ns, SUBSET Proj) /\ TypeInv /\ FenceInv
  BY DEF Orderly, TypeInv
<1>1. PICK k \in Key :
        /\ \/ DropMissingProject(k) \/ AdoptForeign(k) \/ CleanOrphanedSibling(k)
           \/ DropMissingNamespace(k[1]) \/ AdoptNamespace(k[1])
        /\ <<reg, sibs>>' # <<reg, sibs>>
        /\ \A r \in Req : \A j \in Touches(rq[r]) : j[1] # k[1]
  BY DEF Recover
<1> DEFINE n == k[1]
<1>2. /\ AvoidsNs(a, n) /\ n \notin DeletingNs
      /\ \A j \in Key : j[1] = n => Avoids(a, j) /\ Avoids(b, j) /\ j \notin Creating \cup Deleting
  BY <1>t, <1>1, UntouchedNs
<1>3. \A j \in Key : j[1] = n => SwapKey(a, j) = j /\ SwapKey(b, j) = j
  BY <1>2, SwapOut
<1>4. ASSUME NEW j \in Key, j[1] = n PROVE HasProject(j) <=> j \in DOMAIN dirs
  <2>1. KeySound(a, j)
    BY DEF Sound, RegSound
  <2> QED BY <1>2, <1>3, <1>4, <2>1 DEF KeySound
<1>k. k = <<n, k[2]>> /\ n \in Ns /\ k[2] \in Proj
  BY KeyParts
<1>5. n \in DOMAIN reg <=> n \in DOMAIN nsdirs
  <2>1. NsSound(a, n) /\ SwapNs(a, n) = n
    BY <1>2, <1>k, SwapNsOut DEF Sound, RegSound
  <2>2. \A j \in Creating : j[1] # n
    BY <1>2 DEF Creating
  <2> QED BY <1>2, <2>1, <2>2 DEF NsSound
<1> HIDE DEF n
<1>6. CASE DropMissingProject(k)
  <2>1. ~HasProject(k) /\ reg' = RemoveProject(reg, k) /\ sibs' = sibs
    BY <1>4, <1>6 DEF DropMissingProject, n
  <2>2. RemoveProject(reg, k) = reg
    BY <1>t, <2>1 DEF RemoveProject, HasProject, IsMap
  <2> QED BY <1>1, <2>1, <2>2
<1>7. CASE AdoptForeign(k)
  <2>1. HasProject(k) /\ reg' = AddProject(reg, k) /\ sibs' = sibs
    BY <1>4, <1>7 DEF AdoptForeign, n
  <2>2. AddProject(reg, k) = reg
    BY <1>t, <2>1 DEF AddProject, EnsureNamespace, HasProject, IsMap
  <2> QED BY <1>1, <2>1, <2>2
<1>8. CASE CleanOrphanedSibling(k)
  <2>1. k \notin DOMAIN dirs /\ sibs' = Drop(sibs, {k}) /\ reg' = reg
    BY <1>8 DEF CleanOrphanedSibling
  <2>2. k \notin DOMAIN sibs
    BY <1>3, <2>1 DEF Sound, SibSound, n
  <2>3. IsMap(sibs, Key, Ids)
    BY <1>t DEF TypeInv
  <2>4. Drop(sibs, {k}) = sibs
    BY <2>2, <2>3, DropNone
  <2> QED BY <1>1, <2>1, <2>4
<1>9. CASE DropMissingNamespace(n)
  <2>1. n \notin DOMAIN nsdirs /\ reg' = Drop(reg, {n}) /\ sibs' = sibs
    BY <1>9 DEF DropMissingNamespace
  <2>2. Drop(reg, {n}) = reg
    BY <1>t, <1>5, <2>1, DropNone
  <2> QED BY <1>1, <2>1, <2>2
<1>10. CASE AdoptNamespace(n)
  <2>1. /\ Under(dirs, n) # {} /\ sibs' = sibs
        /\ reg' = [EnsureNamespace(reg, n) EXCEPT ![n] = @ \cup {j[2] : j \in Under(dirs, n)}]
    BY <1>10 DEF AdoptNamespace
  <2>2. n \in DOMAIN reg
    BY <1>t, <1>5, <2>1 DEF TypeInv, Under
  <2>3. \A j \in Under(dirs, n) : j[2] \in reg[n]
    <3> TAKE j \in Under(dirs, n)
    <3>1. j \in Key /\ j[1] = n /\ j \in DOMAIN dirs
      BY <1>t DEF Under, TypeInv, IsMap
    <3>2. HasProject(j)
      BY <1>4, <3>1 DEF n
    <3> QED BY <3>1, <3>2 DEF HasProject
  <2>4. reg[n] \cup {j[2] : j \in Under(dirs, n)} = reg[n]
    BY <2>3
  <2>5. reg' = reg
    BY <1>t, <2>1, <2>2, <2>4 DEF EnsureNamespace, IsMap
  <2> QED BY <1>1, <2>1, <2>5
<1> QED BY <1>1, <1>6, <1>7, <1>8, <1>9, <1>10 DEF n

\* Recovery: whatever the crash left, registry and databases come to follow the disk.
LEMMA SoundStartup ==
  ASSUME Orderly, StartupInit, Default \in DOMAIN reg,
         NEW a \in {None, journal}, NEW b \in {None, a}, Sound(a, b)
  PROVE  Sound(None, None)' /\ Default \in DOMAIN reg'
<1>t. TypeInv /\ IsMap(reg, Ns, SUBSET Proj) /\ IsMap(sibs, Key, Ids) /\ IsMap(dirs, Key, Ids)
  BY DEF Orderly, TypeInv
<1>i. \A r \in Req : rq[r] = Idle
  BY DEF StartupInit, Orderly, FenceInv
<1>p. /\ Creating = {} /\ Deleting = {} /\ DeletingNs = {}
      /\ Creating' = {} /\ Deleting' = {} /\ DeletingNs' = {}
  <2>1. rq' = rq
    BY DEF StartupInit
  <2> QED BY <1>i, <2>1 DEF Creating, Deleting, DeletingNs, Idle
<1>r. PICK stay \in BOOLEAN :
        /\ sibs' = recoverInterruptedOp(stay).sibs /\ UNCHANGED <<dirs, nsdirs>>
        /\ \/ reg' = reconcileManagedRegistry(recoverInterruptedOp(stay).reg)
           \/ reg' = recoverInterruptedOp(stay).reg
  BY DEF StartupInit
<1> DEFINE rec == recoverInterruptedOp(stay)
<1>1. /\ sibs' = rec.sibs /\ UNCHANGED <<dirs, nsdirs>>
      /\ reg' = reconcileManagedRegistry(rec.reg) \/ reg' = rec.reg
  BY <1>r
<1>e. \A f : Default \in DOMAIN f => reconcileManagedRegistry(f) = f
  BY DEF reconcileManagedRegistry, EnsureNamespace
<1>n. /\ \A k : SwapKey(None, k) = k
      /\ \A n : SwapNs(None, n) = n
  BY SwapNone
<1>h. \A k \in DOMAIN dirs : k \in Key /\ k = <<k[1], k[2]>> /\ k[1] \in DOMAIN nsdirs
  BY <1>t, KeyParts DEF IsMap, TypeInv
<1>3. ASSUME Matches(rec.reg), Default \in DOMAIN rec.reg,
             \A k \in DOMAIN rec.sibs : k \in DOMAIN dirs /\ rec.sibs[k] = dirs[k]
      PROVE  Sound(None, None)' /\ Default \in DOMAIN reg'
  <2>1. reg' = rec.reg
    BY <1>1, <1>3, <1>e
  <2>2. Matches(reg')
    BY <1>3, <2>1
  <2> HIDE DEF rec
  <2>3. ASSUME NEW k \in Key PROVE KeySound(None, k)'
    BY <1>1, <1>n, <1>p, <2>2 DEF KeySound, HasProject, Matches, HasIn
  <2>4. ASSUME NEW n \in Ns PROVE NsSound(None, n)'
    BY <1>1, <1>n, <1>p, <2>2 DEF NsSound, Matches
  <2>5. SibSound(None)'
    BY <1>1, <1>3, <1>n DEF SibSound
  <2> QED BY <1>1, <1>3, <2>1, <2>3, <2>4, <2>5 DEF Sound, RegSound
\* With nothing behind, the databases and the registry stay.
<1>4. ASSUME a = None
      PROVE  Matches(reg) /\ \A k \in DOMAIN sibs : k \in DOMAIN dirs /\ sibs[k] = dirs[k]
  BY <1>4, <1>n, MatchesNone DEF Sound, SibSound
<1>5. CASE journal = None
  <2>1. rec.reg = reg /\ rec.sibs = sibs
    BY <1>5 DEF recoverInterruptedOp
  <2> QED BY <1>3, <1>4, <1>5, <2>1
<1>6. CASE journal # None
  <2> DEFINE j == journal
  <2>1. /\ j \in Entry /\ Names(j) /\ j.op \in Special /\ j.old \in Key /\ j.new \in Key /\ j.old # j.new
        /\ j.old[1] \in Ns /\ j.new[1] \in Ns
    BY <1>t, <1>6, KeyParts DEF TypeInv, Entry, Names
  <2> HIDE DEF rec
  <2>2. CASE NewThere(j) /\ ~OldThere(j)
    <3>0. rec.reg = ForwardReg(j) /\ rec.sibs = ForwardSibs(j)
      BY <1>6, <2>2 DEF recoverInterruptedOp, rec
    <3>1. CASE a = None
      <4>1. Matches(reg) /\ \A k \in DOMAIN sibs : k \in DOMAIN dirs /\ sibs[k] = dirs[k]
        BY <1>4, <3>1
      <4>2. rec.sibs = sibs
        <5>1. CASE j.op = "rename_namespace"
          BY <3>0, <5>1 DEF ForwardSibs
        <5>2. CASE j.op # "rename_namespace"
          <6>1. j.old \notin DOMAIN sibs
            BY <2>2, <4>1, <5>2 DEF OldThere
          <6> QED BY <3>0, <5>2, <6>1, RekeyNone DEF ForwardSibs, relocateSiblingDB
        <5> QED BY <5>1, <5>2
      <4>3. rec.reg = reg
        <5>1. CASE j.op = "rename_namespace"
          <6>1. j.old[1] \notin DOMAIN reg
            BY <1>p, <2>1, <2>2, <4>1, <5>1 DEF OldThere, Matches
          <6>2. Rekey(reg, j.old[1], j.new[1]) = reg
            BY <6>1, RekeyNone
          <6> QED BY <3>0, <5>1, <6>2 DEF ForwardReg, RegistryMoved, nsregRenameNamespace
        <5>2. CASE j.op # "rename_namespace"
          <6>1. HasProject(j.new)
            BY <1>p, <2>1, <2>2, <4>1, <5>2 DEF NewThere, Matches, HasIn, HasProject
          <6> QED BY <3>0, <5>2, <6>1 DEF ForwardReg, RegistryMoved, nsregMoveProject
        <5> QED BY <5>1, <5>2
      <4> QED BY <1>3, <4>1, <4>2, <4>3
    <3>2. CASE a = j
      <4>1. RegSound(j) /\ Pivoted(j)
        BY <1>6, <3>2 DEF Sound
      <4>2. ~RegistryRefuses(j) /\ Matches(RegistryMoved(j)) /\ Default \in DOMAIN RegistryMoved(j)
        BY <1>p, <1>t, <2>1, <4>1, RegFollows
      <4>3. rec.reg = RegistryMoved(j)
        BY <3>0, <4>2 DEF ForwardReg
      <4>4. \A k \in DOMAIN rec.sibs : k \in DOMAIN dirs /\ rec.sibs[k] = dirs[k]
        <5>1. CASE j.op = "rename_namespace"
          <6>1. b = None
            BY <1>6, <3>2, <5>1 DEF Sound
          <6> QED BY <1>n, <3>0, <5>1, <6>1 DEF ForwardSibs, Sound, SibSound
        <5>2. CASE j.op # "rename_namespace" /\ b = j
          BY <1>6, <2>1, <3>0, <4>1, <5>2, SibsFollow DEF ForwardSibs, relocateSiblingDB, Sound
        <5>3. CASE j.op # "rename_namespace" /\ b = None
          <6>1. \A k \in DOMAIN sibs : k \in DOMAIN dirs /\ sibs[k] = dirs[k]
            BY <1>n, <5>3 DEF Sound, SibSound
          <6>2. j.old \notin DOMAIN sibs
            BY <2>2, <5>3, <6>1 DEF OldThere
          <6> QED BY <3>0, <5>3, <6>1, <6>2, RekeyNone DEF ForwardSibs, relocateSiblingDB
        <5> QED BY <3>2, <5>1, <5>2, <5>3
      <4> QED BY <1>3, <4>2, <4>3, <4>4
    <3> QED BY <3>1, <3>2
  <2>3. CASE ~(NewThere(j) /\ ~OldThere(j))
    <3>1. a = None
      BY <1>6, <2>3 DEF Sound, Pivoted, NewThere, OldThere
    <3>2. Matches(reg) /\ \A k \in DOMAIN sibs : k \in DOMAIN dirs /\ sibs[k] = dirs[k]
      BY <1>4, <3>1
    <3>3. CASE OldThere(j) /\ ~NewThere(j)
      <4>0. rec.reg = BackReg(j) /\ rec.sibs = BackSibs(j, stay)
        BY <1>6, <3>3 DEF recoverInterruptedOp, rec
      <4>1. rec.sibs = sibs
        <5>1. CASE stay \/ j.op = "rename_namespace"
          BY <4>0, <5>1 DEF BackSibs
        <5>2. CASE ~stay /\ j.op # "rename_namespace"
          <6>1. j.new \notin DOMAIN sibs
            BY <3>2, <3>3, <5>2 DEF NewThere
          <6>2. Drop(sibs, {j.new}) = sibs
            BY <1>t, <6>1, DropNone
          <6> QED BY <4>0, <5>2, <6>2 DEF BackSibs
        <5> QED BY <5>1, <5>2
      <4>2. rec.reg = reg
        <5>1. CASE j.op = "rename_namespace"
          <6>1. j.new[1] \notin DOMAIN reg
            BY <1>p, <2>1, <3>2, <3>3, <5>1 DEF NewThere, Matches
          <6> QED BY <4>0, <5>1, <6>1 DEF BackReg
        <5>2. CASE j.op # "rename_namespace"
          <6>1. HasProject(j.old) /\ ~HasProject(j.new)
            BY <1>p, <2>1, <3>2, <3>3, <5>2 DEF NewThere, OldThere, Matches, HasIn, HasProject
          <6>2. AddProject(reg, j.old) = reg
            BY <1>t, <6>1 DEF AddProject, EnsureNamespace, HasProject, IsMap
          <6> QED BY <4>0, <5>2, <6>1, <6>2 DEF BackReg
        <5> QED BY <5>1, <5>2
      <4> QED BY <1>3, <3>2, <4>1, <4>2
    <3>4. CASE ~(OldThere(j) /\ ~NewThere(j))
      <4>1. rec.reg = reg /\ rec.sibs = sibs
        BY <1>6, <2>3, <3>4 DEF recoverInterruptedOp, rec
      <4> QED BY <1>3, <3>2, <4>1
    <3> QED BY <3>3, <3>4
  <2> QED BY <2>2, <2>3
<1> QED BY <1>5, <1>6

\* Every step keeps what the requests rely on, and the registry and databases in step with the
\* disk.
LEMMA FreshStep ==
  TypeInv /\ FenceInv /\ ClashInv /\ WriterInv /\ LateInv /\ FreshInv /\ SoundInv /\ [Next]_vars
    => FreshInv' /\ SoundInv'
<1> SUFFICES ASSUME TypeInv, FenceInv, ClashInv, WriterInv, LateInv, FreshInv, SoundInv, [Next]_vars,
                    ~raced', ~Leftover'
             PROVE  /\ \A r \in Req : Fresh(rq[r])'
                    /\ left' = {} /\ quar' = {} /\ Default \in DOMAIN reg' /\ Default \in DOMAIN nsdirs'
                    /\ SoundBoth'
  BY DEF FreshInv, SoundInv, SoundBoth, Fresh
<1> DEFINE Goal == /\ \A r \in Req : Fresh(rq[r])'
                   /\ left' = {} /\ quar' = {} /\ Default \in DOMAIN reg' /\ Default \in DOMAIN nsdirs'
                   /\ SoundBoth'
<1>u. ~raced /\ ~Leftover
  BY GhostStep, LateStep
<1>s. left = {} /\ quar = {} /\ Default \in DOMAIN reg /\ Default \in DOMAIN nsdirs /\ SoundBoth
  BY <1>u DEF SoundInv, SoundBoth
<1>o. Orderly
  BY <1>u, <1>s DEF Orderly
<1>f. \A r \in Req : Fresh(rq[r])
  BY <1>u DEF FreshInv
<1>a. PICK a, b : Sound(a, b) /\ (IF up THEN a = RegBehind /\ b = SibBehind
                                ELSE a \in {None, journal} /\ b \in {None, journal})
  BY <1>s DEF SoundBoth
<1>b. (up => a \in {None, RegBehind}) /\ b \in {None, a}
  <2>1. b # None => b = a
    BY <1>a DEF Sound
  <2> QED BY <1>a, <2>1
\* A step that changes neither the disk nor the registry.
<1>0. ASSUME UNCHANGED <<dirs, nsdirs, sibs, reg, left, quar, journal, mu, up>>,
             \A r \in Req : rq'[r] = rq[r] \/ ( /\ rq[r] = Idle
                                                /\ rq'[r].pc \in {"lock", "purge_users", "init"}
                                                /\ Fresh(rq[r])' )
      PROVE  Goal
  <2>1. \A r \in Req : Fresh(rq[r])'
    <3> TAKE r \in Req
    <3>1. CASE rq'[r] = rq[r]
      BY <1>0, <1>f, <3>1 DEF Fresh
    <3> QED BY <1>0, <3>1
  <2>2. Creating \subseteq Creating' /\ Deleting \subseteq Deleting' /\ DeletingNs \subseteq DeletingNs'
    BY <1>0 DEF Creating, Deleting, DeletingNs, Idle
  <2>3. Sound(a, b)'
    BY <1>0, <1>a, <2>2, SoundSame
  <2>4. mu # None => rq'[mu] = rq[mu]
    <3>1. mu # None => mu \in Req /\ rq[mu].pc \in HeldPC
      BY DEF FenceInv
    <3> QED BY <1>0, <3>1 DEF Idle, HeldPC
  <2>5. RegBehind' = RegBehind /\ SibBehind' = SibBehind
    BY <1>0, <2>4, BehindSame
  <2>6. SoundBoth'
    <3>1. IF up' THEN a = RegBehind' /\ b = SibBehind'
          ELSE a \in {None, journal'} /\ b \in {None, journal'}
      BY <1>0, <1>a, <2>5
    <3> QED BY <2>3, <3>1 DEF SoundBoth
  <2> QED BY <1>0, <1>s, <2>1, <2>6
<1>1. ASSUME NEW r \in Req, RqNext(r) PROVE Goal
  <2>1. up
    BY <1>1 DEF RqNext, Lock, Mark, Rename, Siblings, Registry, RewriteScopes, Clear, Purge, Remove, Deregister,
       InitProject, Catalog, registerManagedProject, At
  <2>2. \A u \in Req : Fresh(rq[u])'
    BY <1>1, <1>u, FreshRequests
  <2> QED BY <1>1, <1>o, <1>s, <2>1, <2>2, SoundRequests
<1>2. ASSUME NEW r \in Req, Request(r) PROVE Goal
  <2>1. PICK op \in Special \cup {"delete_project", "delete_namespace", "create_project"},
             old \in Key, new \in Key :
          LET q == [pc |-> FirstStep(op), op |-> op, old |-> old, new |-> new]
          IN Checked(q) /\ rq' = [rq EXCEPT ![r] = q]
    BY <1>2 DEF Request
  <2> DEFINE q == [pc |-> FirstStep(op), op |-> op, old |-> old, new |-> new]
  <2>2. /\ q.pc \in {"lock", "purge_users", "init"} /\ (q.op = "rename_namespace" => q.new[1] \notin DOMAIN nsdirs)
        /\ q.op = "create_project" => q.pc = "init"
    BY <2>1 DEF FirstStep, Checked, RenameNamespace, Special
  <2>3. rq'[r] = q /\ \A u \in Req \ {r} : rq'[u] = rq[u]
    BY <2>1 DEF TypeInv
  <2>4. rq[r] = Idle /\ UNCHANGED <<dirs, nsdirs, sibs, reg, left, quar, journal, mu, up>>
    BY <1>2 DEF Request, disk, fence
  <2> HIDE DEF q
  <2>5. Fresh(rq[r])'
    BY <2>2, <2>3, <2>4 DEF Fresh
  <2> QED BY <1>0, <2>2, <2>3, <2>4, <2>5
<1>3. ASSUME NEW w \in Writer, Check(w) \/ Lease(w) PROVE Goal
  BY <1>0, <1>3 DEF Check, Lease, disk, fence
<1>4. ASSUME NEW w \in Writer, Write(w) PROVE Goal
  <2>1. wr[w].key \in DOMAIN dirs
    BY <1>4, <1>u DEF Write, WriterInv, Leftover
  <2> QED BY <1>0, <1>4, <2>1 DEF Write, fence
<1>5. CASE CreateNamespace
  <2>0. up /\ UNCHANGED <<left, quar, journal, mu, up, rq>>
    BY <1>5 DEF CreateNamespace, fence
  <2>1. /\ Sound(a, b)' /\ DOMAIN reg \subseteq DOMAIN reg' /\ DOMAIN nsdirs \subseteq DOMAIN nsdirs'
        /\ \A r \in Req : Fresh(rq[r])'
    BY <1>5, <1>a, <1>b, <1>o, <2>0, SoundCreateNs
  <2>2. RegBehind' = a /\ SibBehind' = b
    BY <1>a, <2>0, BehindSame
  <2> QED BY <1>s, <2>0, <2>1, <2>2, SoundWitness DEF CreateNamespace
<1>6. CASE Recover
  BY <1>6, <1>a, <1>b, <1>o, NoRecover DEF Recover
<1>7. CASE Crash
  <2>0. UNCHANGED <<dirs, nsdirs, sibs, reg, left, journal>> /\ quar' = {} /\ ~up'
    BY <1>7 DEF Crash, disk
  <2>1. \A r \in Req : ~HalfDone(rq[r]) /\ rq'[r] = Idle
    BY <1>7 DEF Crash
  <2>2. Creating = {} /\ Deleting = {} /\ DeletingNs = {}
    BY <2>1 DEF Creating, Deleting, DeletingNs, HalfDone
  <2>3. Sound(a, b)'
    BY <1>a, <2>0, <2>2, SoundSame
  <2>6. a \in {None, journal} /\ b \in {None, journal}
    <3>1. mu # None => /\ mu \in Req /\ ~HalfDone(rq[mu])
      BY <2>1 DEF FenceInv
    <3> QED BY <1>7, <1>a, <3>1 DEF RegBehind, SibBehind, HalfDone, Crash
  <2>4. SoundBoth'
    BY <1>a, <2>0, <2>3, <2>6 DEF SoundBoth
  <2>5. \A r \in Req : Fresh(rq[r])'
    BY <2>1 DEF Fresh, Idle
  <2> QED BY <1>s, <2>0, <2>4, <2>5
<1>8. CASE StartupInit
  <2>1. Sound(None, None)' /\ Default \in DOMAIN reg'
    BY <1>8, <1>a, <1>b, <1>o, <1>s, SoundStartup DEF StartupInit
  <2>2. (\A r \in Req : rq'[r] = Idle) /\ UNCHANGED <<mu, left, nsdirs>> /\ mu = None
    BY <1>8 DEF StartupInit, FenceInv, fence, Idle, HeldPC
  <2>3. RegBehind' = None /\ SibBehind' = None
    BY <2>2 DEF RegBehind, SibBehind
  <2>4. quar' = {}
    BY <1>8, <1>s DEF StartupInit
  <2>5. \A r \in Req : Fresh(rq[r])'
    BY <2>2 DEF Fresh, Idle
  <2>6. SoundBoth'
    BY <2>1, <2>3 DEF SoundBoth
  <2> QED BY <1>s, <2>1, <2>2, <2>4, <2>5, <2>6
<1>9. CASE relocateLeftovers
  BY <1>9, <1>s DEF relocateLeftovers
<1>10. CASE UNCHANGED vars
  BY <1>0, <1>10 DEF vars, disk, fence
<1> QED BY <1>1, <1>2, <1>3, <1>4, <1>5, <1>6, <1>7, <1>8, <1>9, <1>10 DEF Next, RqNext

LEMMA SoundInit0 == Init => LateInv /\ FreshInv /\ SoundInv
<1> SUFFICES ASSUME Init PROVE LateInv /\ FreshInv /\ SoundInv
  OBVIOUS
<1>1. LateInv
  BY DEF Init, LateInv
<1>2. FreshInv
  BY DEF Init, FreshInv, Fresh, Idle
<1>3. RegBehind = None /\ SibBehind = None
  BY DEF Init, RegBehind, SibBehind
<1>4. \A k \in Key : HasProject(k) <=> k \in DOMAIN dirs
  <2> TAKE k \in Key
  <2>1. k = <<k[1], k[2]>>
    BY KeyParts
  <2> QED BY <2>1, ProjectsAssumption DEF Init, HasProject
<1>5. DOMAIN reg = DOMAIN nsdirs
  BY DEF Init
<1>6. RegSound(None)
  BY <1>4, <1>5, SwapNone DEF RegSound, KeySound, NsSound
<1>7. SibSound(None)
  BY SwapNone DEF Init, SibSound
<1>8. Sound(None, None)
  BY <1>6, <1>7 DEF Sound
<1>9. SoundInv
  BY <1>3, <1>8 DEF Init, SoundInv
<1> QED BY <1>1, <1>2, <1>9

LEMMA TypesHold == TypeInv /\ FenceInv => TypeOK
<1> SUFFICES ASSUME TypeInv, FenceInv PROVE TypeOK
  OBVIOUS
<1>1. DOMAIN reg \subseteq Ns /\ \A n \in DOMAIN reg : reg[n] \subseteq Proj
  <2>1. IsMap(reg, Ns, SUBSET Proj)
    BY DEF TypeInv
  <2> QED BY <2>1 DEF IsMap
<1>2. journal # None => journal.op \in Special /\ {journal.old, journal.new} \subseteq Key
  BY DEF TypeInv, Entry
<1>3. moving \subseteq Key /\ movingNs \subseteq Ns
  <2>1. mu # None => rq[mu].old \in Key /\ rq[mu].new \in Key /\ rq[mu].old[1] \in Ns
    <3> HAVE mu # None
    <3>1. mu \in Req /\ rq[mu].pc # "idle"
      BY DEF FenceInv, HeldPC
    <3>2. rq[mu].old \in Key /\ rq[mu].new \in Key
      BY <3>1, RqParts
    <3> QED BY <3>2, KeyParts
  <2> QED BY <2>1 DEF FenceInv
<1>4. moving # {} \/ movingNs # {} => mu # None
  BY DEF FenceInv
<1>5. \A r \in Req : rq[r].pc \in {"idle", "lock", "mark", "rename", "siblings", "registry",
        "users", "tokens", "clear", "purge_users", "purge_tokens", "remove", "deregister",
        "init", "catalog", "register"}
  BY RqParts DEF PC, HeldPC
<1>6. \A w \in Writer : wr[w].pc \in {"idle", "checked", "leased", "acked", "failed"}
  <2> TAKE w \in Writer
  <2>1. wr[w] \in WrType
    BY DEF TypeInv
  <2> QED BY <2>1 DEF WrType
<1>7. \A s \in DOMAIN scopes : scopes[s] \subseteq Token
  BY DEF TypeInv
<1>8. DOMAIN dirs \subseteq Key /\ DOMAIN nsdirs \subseteq Ns /\ DOMAIN sibs \subseteq Key
  BY DEF TypeInv, IsMap
<1>9. /\ left \subseteq Key \ DOMAIN dirs /\ \A k \in DOMAIN dirs : k[1] \in DOMAIN nsdirs
      /\ mu \in Req \cup {None} /\ quar \subseteq Key /\ {up, raced, unfinished} \subseteq BOOLEAN
      /\ ops \in 0..MaxOps /\ faults \in 0..MaxFaults
  BY DEF TypeInv, FenceInv
<1>10. revoked \subseteq (DOMAIN scopes) \X Nat
  BY DEF TypeInv, Ids
<1> QED BY <1>1, <1>2, <1>3, <1>4, <1>5, <1>6, <1>7, <1>8, <1>9, <1>10 DEF TypeOK

\* When no request runs, the disk, the databases and the registry agree exactly.
LEMMA QuietAgrees ==
  ASSUME TypeInv, FenceInv, SoundInv, Quiet, ~raced, ~Leftover
  PROVE  /\ \A k \in Key : HasProject(k) <=> k \in DOMAIN dirs
         /\ \A n \in Ns : n \in DOMAIN reg <=> n \in DOMAIN nsdirs
         /\ \A k \in DOMAIN sibs : k \in DOMAIN dirs /\ sibs[k] = dirs[k]
<1>1. mu = None
  BY DEF Quiet, FenceInv, HeldPC
<1>2. RegBehind = None /\ SibBehind = None
  BY <1>1 DEF RegBehind, SibBehind
<1>3. Sound(None, None)
  <2>1. PICK a, b : Sound(a, b) /\ a = RegBehind /\ b = SibBehind
    BY DEF SoundInv, Quiet
  <2>2. a = None /\ b = None
    BY <1>2, <2>1 DEF Quiet
  <2> QED BY <2>1, <2>2
<1>4. Creating = {} /\ DeletingNs = {}
  BY DEF Quiet, Creating, DeletingNs
<1>5. Deleting = {}
  BY <1>4 DEF Quiet, Deleting
<1>6. (\A k \in Key : KeySound(None, k)) /\ (\A n \in Ns : NsSound(None, n)) /\ SibSound(None)
  BY <1>3 DEF Sound, RegSound
<1> QED BY <1>4, <1>5, <1>6, SwapNone DEF KeySound, NsSound, SibSound

LEMMA HealthFromSound ==
  ASSUME TypeInv, FenceInv, SoundInv
  PROVE  Healthy /\ SiblingsMatch
<1> SUFFICES ASSUME Quiet, ~raced, ~Leftover PROVE
      /\ CheckAllHealth = {}
      /\ \A n \in DOMAIN reg :
           LET h == checkNamespaceHealth(n)
           IN h.missing = {} /\ h.foreign = {} /\ h.orphaned = {}
      /\ \A k \in DOMAIN dirs \cap DOMAIN sibs : sibs[k] = dirs[k]
  BY DEF Healthy, SiblingsMatch
<1>1. /\ \A k \in Key : HasProject(k) <=> k \in DOMAIN dirs
      /\ \A n \in Ns : n \in DOMAIN reg <=> n \in DOMAIN nsdirs
      /\ \A k \in DOMAIN sibs : k \in DOMAIN dirs /\ sibs[k] = dirs[k]
  BY QuietAgrees
<1>t. /\ DOMAIN nsdirs \subseteq Ns /\ DOMAIN reg \subseteq Ns /\ \A n \in DOMAIN reg : reg[n] \subseteq Proj
      /\ DOMAIN dirs \subseteq Key
  BY DEF TypeInv, IsMap
<1>2. CheckAllHealth = {}
  BY <1>1, <1>t DEF CheckAllHealth
<1>3. ASSUME NEW n \in DOMAIN reg
      PROVE  /\ {p \in reg[n] : <<n, p>> \notin DOMAIN dirs} = {}
             /\ {k[2] : k \in Under(dirs, n)} \ reg[n] = {}
             /\ {k[2] : k \in Under(sibs, n) \ DOMAIN dirs} = {}
  <2>1. ASSUME NEW p \in reg[n] PROVE <<n, p>> \in DOMAIN dirs
    <3>1. <<n, p>> \in Key /\ HasProject(<<n, p>>)
      BY <1>t DEF Key, HasProject
    <3> QED BY <1>1, <3>1
  <2>2. ASSUME NEW k \in Under(dirs, n) PROVE k[2] \in reg[n]
    <3>1. k \in DOMAIN dirs /\ k \in Key /\ k[1] = n
      BY <1>t DEF Under
    <3>2. HasProject(k)
      BY <1>1, <3>1
    <3> QED BY <3>1, <3>2 DEF HasProject
  <2>3. Under(sibs, n) \subseteq DOMAIN dirs
    BY <1>1 DEF Under
  <2> QED BY <2>1, <2>2, <2>3
<1> QED BY <1>1, <1>2, <1>3 DEF checkNamespaceHealth

\* Directories, databases and registry describe the same projects, through every
\* interleaving, crash and recovery (StartupInit, recoverInterruptedOp, CheckAllHealth).
THEOREM SoundHolds == Spec => []ProjectsSound
<1> DEFINE I == /\ TypeInv /\ FenceInv /\ ClashInv /\ WriterInv /\ LateInv /\ FreshInv /\ SoundInv
<1>1. Init => I
  BY TypeInit, InvInit, SoundInit0
<1>2. I /\ [Next]_vars => I'
  <2>1. I /\ [Next]_vars => TypeInv' /\ FenceInv' /\ ClashInv' /\ WriterInv'
    BY TypeStep, FenceStep, ClashStep, WriterStep
  <2>2. I /\ [Next]_vars => LateInv'
    BY LateStep
  <2>3. I /\ [Next]_vars => FreshInv' /\ SoundInv'
    BY FreshStep
  <2> QED BY <2>1, <2>2, <2>3
<1>3. I => ProjectsSound
  BY TypesHold, HealthFromSound DEF ProjectsSound
<1> QED BY <1>1, <1>2, <1>3, PTL DEF Spec
=============================================================================
