------------------------------ MODULE Projects ------------------------------
(***************************************************************************)
(* Namespaces and projects: creating, deleting, moving and renaming them,  *)
(* the managed registry and its operation journal, the fence that keeps    *)
(* writers out, the grants that name projects, the recovery of an          *)
(* interrupted operation at start, and the repair actions of the health    *)
(* page.                                                                   *)
(*                                                                         *)
(* Projects and namespaces have numbers for identities; their directories  *)
(* are names.  A step is one system call or one bbolt transaction.  The    *)
(* sibling databases of a project are one unit.  User accounts and tokens  *)
(* are two stores with one scope each.                                     *)
(***************************************************************************)
EXTENDS Authz, Maps

CONSTANTS
  Default,         \* the default namespace
  Req, Writer,     \* requests; writers of files
  FirstNs, FirstProj, \* the project there is at first
  UserScope, TokenScope, \* the scopes the stores hold at first
  MaxOps, MaxFaults      \* bounds: requests; crashes and failing store updates

Key == Ns \X Proj
None == NoName

\* The operations that move a directory, and what the journal keeps of one.
Special == {"move_project", "rename_project", "rename_namespace"}
Entry == [op : Special, old : Key, new : Key]

ASSUME ProjectsAssumption ==
  /\ None \notin Ns \cup Proj \cup Req \cup Entry
  /\ Default \in Ns /\ FirstNs \in Ns /\ FirstProj \in Proj
  /\ UserScope \subseteq Token /\ TokenScope \subseteq Token
  /\ UserScope # {} /\ TokenScope # {}
  /\ {MaxOps, MaxFaults} \subseteq Nat

VARIABLES
  dirs,     \* project directory with a repository -> project
  left,     \* directories in a project's place without a repository
  nsdirs,   \* namespace directory -> namespace
  sibs,     \* sibling databases on disk -> the project they were made for
  reg,      \* registry: managed namespace -> its projects
  journal,  \* the operation journal's one entry, or None
  scopes,   \* "users", "tokens" -> scope
  moving, movingNs, \* the fence
  mu,       \* the request that holds moveMu, or None
  rq,       \* request -> where its handler is
  wr,       \* writer -> where its write is
  loc,      \* writer -> where the file it wrote is
  quar,     \* leftovers found at start, not yet relocated
  up,
  nextId, ops, faults,
  raced,     \* ghost: requests on one name overlapped, or one was cut off
  unfinished,\* ghost: a special operation stopped after its pivot
  revoked    \* ghost: store and identity whose grants a deletion took away

disk == <<dirs, left, nsdirs, sibs>>
fence == <<moving, movingNs, mu>>
ghosts == <<raced, unfinished, revoked>>
vars == <<disk, reg, journal, scopes, fence, rq, wr, loc, quar, up, nextId, ops,
          faults, ghosts>>

----------------------------------------------------------------------------
(* Helpers *)

Idle == [pc |-> "idle", op |-> "none", old |-> None, new |-> None]

\* The keys of a map of directories under namespace n.
Under(f, n) == {k \in DOMAIN f : k[1] = n}
\* A map of directories with namespace n renamed to m.
Rehome(f, n, m) ==
  LET name(k) == IF k[1] = n THEN <<m, k[2]>> ELSE k
  IN [k \in {name(j) : j \in DOMAIN f} |-> f[CHOOSE j \in DOMAIN f : name(j) = k]]
\* A map with key a renamed to b.
Rekey(f, a, b) == IF a \in DOMAIN f THEN Put(Drop(f, {a}), b, f[a]) ELSE f

HasProject(k) == k[1] \in DOMAIN reg /\ k[2] \in reg[k[1]]
EnsureNamespace(f, n) == IF n \in DOMAIN f THEN f ELSE Put(f, n, {})
AddProject(f, k) == [EnsureNamespace(f, k[1]) EXCEPT ![k[1]] = @ \cup {k[2]}]
RemoveProject(f, k) == IF k[1] \in DOMAIN f THEN [f EXCEPT ![k[1]] = @ \ {k[2]}] ELSE f

\* The names a request works on.
Touches(q) ==
  IF q.pc = "idle" THEN {}
  ELSE IF q.op \in {"rename_namespace", "delete_namespace"}
  THEN {k \in Key : k[1] \in {q.old[1], q.new[1]}} ELSE {q.old, q.new}
\* Two requests on one name that moveMu does not serialise, or that both rename a
\* namespace to it: each checked that the name is free before it waited for moveMu.
Clash(q, v) ==
  /\ Touches(q) \cap Touches(v) # {}
  /\ {q.op, v.op} \subseteq Special =>
       q.op = "rename_namespace" /\ v.op = "rename_namespace" /\ q.new[1] = v.new[1]
Overlaps(q) == \E r \in Req : Clash(rq[r], q)

Leased(k) == \E w \in Writer : wr[w].pc = "leased" /\ wr[w].key = k

At(r, pc) == up /\ rq[r].pc = pc
Goto(r, pc) == rq' = [rq EXCEPT ![r].pc = pc]
End(r) == rq' = [rq EXCEPT ![r] = Idle]

----------------------------------------------------------------------------
(* Requests: the handlers' checks, up to the first change *)

Occupied(k) == HasProject(k) \/ k \in DOMAIN dirs \cup left

MoveProject(q) ==
  /\ q.old[2] = q.new[2] /\ q.old[1] # q.new[1]
  /\ q.old \in DOMAIN dirs /\ q.new[1] \in DOMAIN reg /\ ~Occupied(q.new)
RenameProject(q) ==
  /\ q.old[1] = q.new[1] /\ q.old[2] # q.new[2]
  /\ q.old \in DOMAIN dirs /\ ~Occupied(q.new)
RenameNamespace(q) ==
  /\ q.old[1] # q.new[1] /\ Default \notin {q.old[1], q.new[1]}
  /\ q.old[1] \in DOMAIN reg /\ q.new[1] \notin DOMAIN reg
  /\ q.new[1] \notin DOMAIN nsdirs
DeleteProject(q) == q.old = q.new /\ ~Leased(q.old)
DeleteNamespace(q) ==
  q.old[1] = q.new[1] /\ q.old[1] # Default /\ Under(dirs, q.old[1]) = {}
CreateProject(q) == q.old = q.new

\* The first step after the checks.
FirstStep(op) == CASE op \in Special -> "lock"
                   [] op \in {"delete_project", "delete_namespace"} -> "purge_users"
                   [] OTHER -> "init"
Checked(q) ==
  CASE q.op = "move_project" -> MoveProject(q)
    [] q.op = "rename_project" -> RenameProject(q)
    [] q.op = "rename_namespace" -> RenameNamespace(q)
    [] q.op = "delete_project" -> DeleteProject(q)
    [] q.op = "delete_namespace" -> DeleteNamespace(q)
    [] q.op = "create_project" -> CreateProject(q)

(* The handlers of both surfaces: who may ask.  k is the target the gate    *)
(* sees.                                                                    *)

CreateProjectHandler(s, k) == AuthzMiddleware(s, "create_project", k)
DeleteProjectHandler(s, k) == AuthzMiddleware(s, "delete_project", k)
RenameProjectHandler(s, k) == AuthzMiddleware(s, "rename_project", k)
MoveProjectHandler(s, k) == AuthzMiddleware(s, "move_project", k) /\ requireSuperUser(s)
RenameNamespaceHandler(s, k) == AuthzMiddleware(s, "rename_namespace", k) /\ requireSuperUser(s)
DeleteNamespaceHandler(s, k) == AuthzMiddleware(s, "delete_namespace", k) /\ requireSuperUser(s)
CreateNamespaceHandler(s, k) == AuthzMiddleware(s, "create_namespace", k) /\ requireSuperUser(s)

handleCreateProject(s, k) == Gate(s, "CREATE_PROJECT", k)
handleDeleteProject(s, k) == Gate(s, "DELETE_PROJECT", k)
handleRenameProject(s, k) == Gate(s, "RENAME_PROJECT", k)
handleMoveProject(s, k) == Gate(s, "MOVE_PROJECT", k)
handleRenameNamespace(s, k) == Gate(s, "RENAME_NAMESPACE", k)
handleDeleteNamespace(s, k) == Gate(s, "DELETE_NAMESPACE", k)
handleCreateNamespace(s, k) == Gate(s, "CREATE_NAMESPACE", k)

\* A namespace that a tool call leaves out is the default one.
ToolAllows(op, s, k) ==
  \E given \in {TRUE} \cup (IF k[1] = Default THEN {FALSE} ELSE {}) :
    LET t == callTarget(given, k)
    IN CASE op = "move_project" -> MoveProjectHandler(s, t)
         [] op = "rename_project" -> RenameProjectHandler(s, t)
         [] op = "rename_namespace" -> RenameNamespaceHandler(s, t)
         [] op = "delete_project" -> DeleteProjectHandler(s, t)
         [] op = "delete_namespace" -> DeleteNamespaceHandler(s, t)
         [] op = "create_project" -> CreateProjectHandler(s, t)
SocketAllows(op, s, k) ==
  CASE op = "move_project" -> handleMoveProject(s, k)
    [] op = "rename_project" -> handleRenameProject(s, k)
    [] op = "rename_namespace" -> handleRenameNamespace(s, k)
    [] op = "delete_project" -> handleDeleteProject(s, k)
    [] op = "delete_namespace" -> handleDeleteNamespace(s, k)
    [] op = "create_project" -> handleCreateProject(s, k)

\* A super-user or the token's principal asks, by tool call or by socket.
Request(r) ==
  /\ up /\ rq[r] = Idle /\ ops < MaxOps
  /\ ops' = ops + 1
  /\ \E op \in Special \cup {"delete_project", "delete_namespace", "create_project"},
        old \in Key, new \in Key, s \in {{}, scopes["tokens"]} :
       LET q == [pc |-> FirstStep(op), op |-> op, old |-> old, new |-> new]
       IN /\ ToolAllows(op, s, old) \/ SocketAllows(op, s, old)
          /\ op \in {"rename_namespace", "delete_namespace"} =>
               old[2] = FirstProj /\ new[2] = FirstProj
          /\ Checked(q)
          /\ rq' = [rq EXCEPT ![r] = q]
          /\ raced' = (raced \/ Overlaps(q) \/ Touches(q) \cap quar # {})
  /\ UNCHANGED <<disk, reg, journal, scopes, fence, wr, loc, quar, up, nextId, faults,
                 unfinished, revoked>>

CreateNamespace ==
  /\ up /\ ops < MaxOps
  /\ ops' = ops + 1
  /\ \E n \in Ns, s \in {{}, scopes["tokens"]} :
       /\ CreateNamespaceHandler(s, <<n, NoName>>) \/ handleCreateNamespace(s, <<n, NoName>>)
       /\ nsdirs' = IF n \in DOMAIN nsdirs THEN nsdirs ELSE Put(nsdirs, n, nextId)
       /\ reg' = EnsureNamespace(reg, n)
       /\ raced' = (raced \/ \E r \in Req : \E k \in Touches(rq[r]) : k[1] = n)
  /\ nextId' = nextId + 1
  /\ UNCHANGED <<dirs, left, sibs, journal, scopes, fence, rq, wr, loc, quar, up, faults,
                 unfinished, revoked>>

----------------------------------------------------------------------------
(* Moving and renaming *)

\* The projects whose leases are looked at.
Watched(q) == IF q.op = "rename_namespace" THEN Under(dirs, q.old[1]) ELSE {q.old}

\* Mutant: the leases are not looked at.
ActiveLeaseM(q) == FALSE
\* projectHasActiveLease
ActiveLease(q) == \E k \in Watched(q) : Leased(k)

\* moveMu, then the leases: a lease under way refuses the operation.
Lock(r) ==
  /\ At(r, "lock") /\ mu = None
  /\ IF ActiveLease(rq[r]) THEN End(r) /\ UNCHANGED mu
     ELSE Goto(r, "mark") /\ mu' = r
  /\ UNCHANGED <<disk, reg, journal, scopes, moving, movingNs, wr, loc, quar, up, nextId,
                 ops, faults, ghosts>>

\* The journal's entry for a request.
EntryOf(q) == [op |-> q.op, old |-> q.old, new |-> q.new]
\* The journal is written and cleared at best effort: an error is logged, and the
\* operation goes on.
Journal(j) == \/ journal' = j /\ UNCHANGED faults
              \/ faults < MaxFaults /\ faults' = faults + 1 /\ UNCHANGED journal

\* The fence goes up and the journal is written; the handles are closed.
Mark(r) ==
  LET q == rq[r]
  IN /\ At(r, "mark")
     /\ IF q.op = "rename_namespace"
        THEN movingNs' = movingNs \cup {q.old[1]} /\ UNCHANGED moving
        ELSE moving' = moving \cup {q.old, q.new} /\ UNCHANGED movingNs
     /\ Journal(EntryOf(q))
     /\ Goto(r, "rename")
     /\ UNCHANGED <<disk, reg, scopes, mu, wr, loc, quar, up, nextId, ops, ghosts>>

\* The fence comes down and moveMu is released.
Unfence(q) == /\ moving' = moving \ {q.old, q.new}
              /\ movingNs' = movingNs \ {q.old[1]}
              /\ mu' = None

\* Whether rename(2) of q's directory succeeds.  An empty target directory
\* is replaced.
CanRename(q) ==
  IF q.op = "rename_namespace"
  THEN /\ q.old[1] \in DOMAIN nsdirs
       /\ Under(dirs, q.new[1]) \cup {k \in left : k[1] = q.new[1]} \cup Under(sibs, q.new[1]) = {}
  ELSE /\ q.old \in DOMAIN dirs \cup left
       /\ q.new[1] \in DOMAIN nsdirs /\ q.new \notin DOMAIN dirs \cup left

\* The pivot.  The journal is written again after it, which may come too late or
\* fail, and is cleared when the pivot fails.
Rename(r) ==
  LET q == rq[r]
  IN /\ At(r, "rename")
     /\ \/ /\ CanRename(q) /\ q.op # "rename_namespace"
           /\ dirs' = Rekey(dirs, q.old, q.new)
           /\ left' = IF q.old \in left THEN (left \ {q.old}) \cup {q.new} ELSE left
           /\ Goto(r, "siblings")
           /\ journal' \in {journal, EntryOf(q)}
           /\ UNCHANGED <<nsdirs, sibs, fence, faults>>
        \/ /\ CanRename(q) /\ q.op = "rename_namespace"
           /\ dirs' = Rehome(dirs, q.old[1], q.new[1])
           /\ sibs' = Rehome(sibs, q.old[1], q.new[1])
           /\ left' = {IF k[1] = q.old[1] THEN <<q.new[1], k[2]>> ELSE k : k \in left}
           /\ nsdirs' = Rekey(nsdirs, q.old[1], q.new[1])
           /\ Goto(r, "registry")
           /\ journal' \in {journal, EntryOf(q)}
           /\ UNCHANGED <<fence, faults>>
        \/ /\ ~CanRename(q)
           /\ Journal(None)
           /\ Unfence(q) /\ End(r)
           /\ UNCHANGED disk
     /\ loc' = [w \in Writer |-> IF loc[w] = <<"left", q.old>> /\ rq'[r].pc # "idle"
                                 THEN <<"left", q.new>> ELSE loc[w]]
     /\ UNCHANGED <<reg, scopes, wr, quar, up, nextId, ops, ghosts>>

\* The databases follow the directory.
relocateSiblingDB(q) == Rekey(sibs, q.old, q.new)

Siblings(r) ==
  /\ At(r, "siblings")
  /\ sibs' = relocateSiblingDB(rq[r])
  /\ Goto(r, "registry")
  /\ UNCHANGED <<dirs, left, nsdirs, reg, journal, scopes, fence, wr, loc, quar, up,
                 nextId, ops, faults, ghosts>>

(* The registry's transactions: refused, done already, or made *)

RegistryRefuses(j) ==
  CASE j.op = "rename_namespace" -> (j.new[1] \in DOMAIN reg <=> j.old[1] \in DOMAIN reg)
    [] j.op = "rename_project" ->
         j.old[1] \notin DOMAIN reg \/ (HasProject(j.new) <=> HasProject(j.old))
    [] j.op = "move_project" -> HasProject(j.new) /\ HasProject(j.old)

\* Moving and renaming a project are the same transaction but for what they refuse.
nsregMoveProject(j) ==
  IF HasProject(j.new) THEN reg ELSE AddProject(RemoveProject(reg, j.old), j.new)
nsregRenameNamespace(j) == Rekey(reg, j.old[1], j.new[1])

RegistryMoved(j) ==
  IF j.op = "rename_namespace" THEN nsregRenameNamespace(j) ELSE nsregMoveProject(j)

\* An error leaves the journal for the next start.
Fail(r) == /\ Unfence(rq[r]) /\ End(r) /\ unfinished' = TRUE

Registry(r) ==
  /\ At(r, "registry")
  /\ \/ /\ ~RegistryRefuses(rq[r])
        /\ reg' = RegistryMoved(rq[r])
        /\ Goto(r, "users")
        /\ UNCHANGED <<fence, faults, raced, unfinished>>
     \/ RegistryRefuses(rq[r]) /\ Fail(r) /\ UNCHANGED <<reg, faults, raced>>
     \/ /\ faults < MaxFaults /\ faults' = faults + 1
        /\ raced' = TRUE
        /\ Fail(r) /\ UNCHANGED reg
  /\ UNCHANGED <<disk, journal, scopes, wr, loc, quar, up, nextId, ops, revoked>>

\* Mutant: moving a project drops its grants, as deleting it does.
RewrittenM(s, q) ==
  IF q.op = "rename_namespace" THEN RewriteNamespaceGrants(s, q.old[1], q.new[1])
  ELSE PruneProjectGrants(s, q.old[1], q.old[2])
\* What the operation makes of a scope.
Rewritten(s, q) ==
  IF q.op = "rename_namespace" THEN RewriteNamespaceGrants(s, q.old[1], q.new[1])
  ELSE RewriteProjectGrants(s, q.old[1], q.old[2], q.new[1], q.new[2])

\* One store's RewriteScopes; the stores come one after the other, and the
\* first error ends the operation.
RewriteScopes(r, store, next) ==
  /\ At(r, store)
  /\ \/ /\ scopes' = [scopes EXCEPT ![store] = Rewritten(@, rq[r])]
        /\ Goto(r, next)
        /\ UNCHANGED <<fence, faults, unfinished>>
     \/ /\ faults < MaxFaults /\ faults' = faults + 1
        /\ Fail(r)
        /\ UNCHANGED scopes
  /\ UNCHANGED <<disk, reg, journal, wr, loc, quar, up, nextId, ops, raced, revoked>>

Clear(r) ==
  /\ At(r, "clear")
  /\ Journal(None)
  /\ Unfence(rq[r]) /\ End(r)
  /\ UNCHANGED <<disk, reg, scopes, wr, loc, quar, up, nextId, ops, ghosts>>

----------------------------------------------------------------------------
(* Deleting *)

Purged(s, q) ==
  IF q.op = "delete_namespace" THEN PruneNamespaceGrants(s, q.old[1])
  ELSE PruneProjectGrants(s, q.old[1], q.old[2])

\* The project, or the namespace and what lies in it, that q deletes.
Doomed(q) ==
  IF q.op = "delete_namespace"
  THEN {nsdirs[n] : n \in {q.old[1]} \cap DOMAIN nsdirs} \cup {dirs[k] : k \in Under(dirs, q.old[1])}
  ELSE {dirs[k] : k \in {q.old} \cap DOMAIN dirs}

\* The grants go first; an error stops the deletion before anything else.
Purge(r, store, next) ==
  /\ At(r, IF store = "users" THEN "purge_users" ELSE "purge_tokens")
  /\ \/ /\ scopes' = [scopes EXCEPT ![store] = Purged(@, rq[r])]
        /\ revoked' = revoked \cup ({store} \X Doomed(rq[r]))
        /\ Goto(r, next)
        /\ UNCHANGED faults
     \/ /\ faults < MaxFaults /\ faults' = faults + 1
        /\ End(r) /\ UNCHANGED <<scopes, revoked>>
  /\ UNCHANGED <<disk, reg, journal, fence, wr, loc, quar, up, nextId, ops, raced, unfinished>>

\* The directory, then the sibling databases.  An error in the second leaves
\* them, and the registry's record, behind.
Remove(r) ==
  LET q == rq[r]
      gone == IF q.op = "delete_namespace"
              THEN {k \in Key : k[1] = q.old[1]} ELSE {q.old}
  IN /\ At(r, "remove")
     /\ dirs' = Drop(dirs, gone) /\ left' = left \ gone
     /\ nsdirs' = IF q.op = "delete_namespace" THEN Drop(nsdirs, {q.old[1]}) ELSE nsdirs
     /\ loc' = [w \in Writer |->
                  IF \E k \in gone : \/ loc[w] = <<"left", k>>
                                     \/ k \in DOMAIN dirs /\ loc[w] = <<"project", dirs[k]>>
                  THEN <<"deleted", None>> ELSE loc[w]]
     /\ \/ sibs' = Drop(sibs, gone) /\ Goto(r, "deregister") /\ UNCHANGED <<faults, raced>>
        \/ /\ q.op = "delete_project" /\ faults < MaxFaults
           /\ faults' = faults + 1
           /\ raced' = TRUE
           /\ End(r) /\ UNCHANGED sibs
     /\ UNCHANGED <<reg, journal, scopes, fence, wr, quar, up, nextId, ops, unfinished, revoked>>

Deregister(r) ==
  /\ At(r, "deregister")
  /\ reg' = IF rq[r].op = "delete_namespace" THEN Drop(reg, {rq[r].old[1]})
            ELSE RemoveProject(reg, rq[r].old)
  /\ End(r)
  /\ UNCHANGED <<disk, journal, scopes, fence, wr, loc, quar, up, nextId, ops, faults, ghosts>>

----------------------------------------------------------------------------
(* Creating *)

\* The directory and the repository; an existing project is registered only.
InitProject(r) ==
  LET k == rq[r].old
  IN /\ At(r, "init")
     /\ nsdirs' = IF k[1] \in DOMAIN nsdirs THEN nsdirs ELSE Put(nsdirs, k[1], nextId)
     /\ IF k \in DOMAIN dirs
        THEN Goto(r, "register") /\ UNCHANGED <<dirs, left, loc>>
        ELSE /\ dirs' = Put(dirs, k, nextId + 1)
             /\ left' = left \ {k}
             /\ loc' = [w \in Writer |-> IF loc[w] = <<"left", k>>
                                         THEN <<"project", nextId + 1>> ELSE loc[w]]
             /\ Goto(r, "catalog")
     /\ nextId' = nextId + 2
     /\ UNCHANGED <<sibs, reg, journal, scopes, fence, wr, quar, up, ops, faults, ghosts>>

\* A stale catalog that is there is opened.
Catalog(r) ==
  LET k == rq[r].old
  IN /\ At(r, "catalog")
     /\ sibs' = IF k \in DOMAIN sibs \/ k \notin DOMAIN dirs THEN sibs ELSE Put(sibs, k, dirs[k])
     /\ Goto(r, "register")
     /\ UNCHANGED <<dirs, left, nsdirs, reg, journal, scopes, fence, wr, loc, quar, up,
                    nextId, ops, faults, ghosts>>

registerManagedProject(r) ==
  /\ At(r, "register")
  /\ reg' = AddProject(reg, rq[r].old)
  /\ End(r)
  /\ UNCHANGED <<disk, journal, scopes, fence, wr, loc, quar, up, nextId, ops, faults, ghosts>>

----------------------------------------------------------------------------
(* Writing a file: checkWritable, then the lease, then the file and the WAL *)

checkWritable(k) == k \notin moving /\ k[1] \notin movingNs /\ k \in DOMAIN dirs

Check(w) ==
  /\ up /\ wr[w].pc = "idle"
  /\ \E k \in Key : /\ checkWritable(k)
                    /\ wr' = [wr EXCEPT ![w] = [pc |-> "checked", key |-> k, id |-> dirs[k],
                                                late |-> FALSE]]
  /\ UNCHANGED <<disk, reg, journal, scopes, fence, rq, loc, quar, up, nextId, ops, faults,
                 ghosts>>

\* A writer that gets its lease after the leases were looked at is late.
Late(k) == \/ \E r \in Req : rq[r].pc \in {"mark", "rename"} /\ k \in Watched(rq[r]) \cup {rq[r].old}
           \/ k \in moving \/ k[1] \in movingNs \/ k \notin DOMAIN dirs
           \/ \E r \in Req : rq[r].pc \notin {"idle", "lock"} /\ k \in Touches(rq[r])

Lease(w) ==
  /\ up /\ wr[w].pc = "checked"
  /\ wr' = [wr EXCEPT ![w].pc = "leased",
                      ![w].late = Late(wr[w].key) \/ dirs[wr[w].key] # wr[w].id]
  /\ UNCHANGED <<disk, reg, journal, scopes, fence, rq, loc, quar, up, nextId, ops, faults,
                 ghosts>>

\* The file is written at its path, whose directories are made if needed.
Write(w) ==
  LET k == wr[w].key
  IN /\ up /\ wr[w].pc = "leased"
     /\ wr' = [wr EXCEPT ![w].pc = "acked"]
     /\ IF k \in DOMAIN dirs
        THEN loc' = [loc EXCEPT ![w] = <<"project", dirs[k]>>] /\ UNCHANGED <<left, nsdirs, nextId>>
        ELSE /\ left' = left \cup {k}
             /\ loc' = [loc EXCEPT ![w] = <<"left", k>>]
             /\ nsdirs' = IF k[1] \in DOMAIN nsdirs THEN nsdirs ELSE Put(nsdirs, k[1], nextId)
             /\ nextId' = nextId + 1
     /\ UNCHANGED <<dirs, sibs, reg, journal, scopes, fence, rq, quar, up, ops, faults, ghosts>>

----------------------------------------------------------------------------
(* Crash and start *)

\* Where a crash leaves something for the health page: a creation or deletion that is half
\* done, or an operation that the journal does not have.
HalfDone(q) == \/ q.pc \in {"deregister", "catalog", "register"}
               \/ q.pc \in {"siblings", "registry"} /\ journal # EntryOf(q)
PastPivot(q) == q.pc \in {"siblings", "registry", "users", "tokens", "clear"}

Crash ==
  /\ up /\ faults < MaxFaults
  /\ faults' = faults + 1
  /\ up' = FALSE
  /\ rq' = [r \in Req |-> Idle]
  /\ wr' = [w \in Writer |-> IF wr[w].pc = "acked" THEN wr[w]
                             ELSE [wr[w] EXCEPT !.pc = "failed"]]
  /\ moving' = {} /\ movingNs' = {} /\ mu' = None /\ quar' = {}
  /\ raced' = (raced \/ \E r \in Req : HalfDone(rq[r]))
  /\ unfinished' = (unfinished \/ \E r \in Req : PastPivot(rq[r]))
  /\ UNCHANGED <<disk, reg, journal, scopes, loc, nextId, ops, revoked>>

\* Where recovery finds the directory of the journalled operation.
OldThere(j) == IF j.op = "rename_namespace" THEN j.old[1] \in DOMAIN nsdirs
               ELSE j.old \in DOMAIN dirs
NewThere(j) == IF j.op = "rename_namespace" THEN j.new[1] \in DOMAIN nsdirs
               ELSE j.new \in DOMAIN dirs

\* Forward: the same steps as the operation's own, except that the grants
\* are not rewritten: the scope cleaner is installed after StartupInit.
ForwardReg(j) == IF RegistryRefuses(j) THEN reg ELSE RegistryMoved(j)
ForwardSibs(j) == IF j.op = "rename_namespace" THEN sibs ELSE relocateSiblingDB(j)

\* Back: the registry is put back; the target's catalog and index are removed, its
\* other databases stay, if there are any.
BackReg(j) ==
  IF j.op = "move_project"
  THEN IF HasProject(j.new)
       THEN AddProject(RemoveProject(reg, j.new), j.old) ELSE AddProject(reg, j.old)
  ELSE IF j.op = "rename_project" /\ HasProject(j.new) /\ ~HasProject(j.old)
  THEN AddProject(RemoveProject(reg, j.new), j.old)
  ELSE IF j.op = "rename_namespace" /\ j.new[1] \in DOMAIN reg /\ j.old[1] \notin DOMAIN reg
  THEN Rekey(reg, j.new[1], j.old[1]) ELSE reg
BackSibs(j, stay) == IF stay \/ j.op = "rename_namespace" THEN sibs ELSE Drop(sibs, {j.new})

\* Mutant: an interrupted operation is always rolled back.
recoverInterruptedOpM(stay) ==
  IF journal = None THEN [reg |-> reg, sibs |-> sibs, journal |-> None]
  ELSE [reg |-> BackReg(journal), sibs |-> BackSibs(journal, stay), journal |-> None]
\* What recovery leaves of the registry, the databases and the journal.
recoverInterruptedOp(stay) ==
  CASE journal = None -> [reg |-> reg, sibs |-> sibs, journal |-> None]
    [] journal # None /\ NewThere(journal) /\ ~OldThere(journal) ->
         [reg |-> ForwardReg(journal), sibs |-> ForwardSibs(journal),
          journal |-> IF RegistryRefuses(journal) THEN journal ELSE None]
    [] journal # None /\ OldThere(journal) /\ ~NewThere(journal) ->
         [reg |-> BackReg(journal), sibs |-> BackSibs(journal, stay), journal |-> None]
    [] OTHER -> [reg |-> reg, sibs |-> sibs, journal |-> None]

\* An empty registry adopts every project on disk; the default namespace is
\* always managed.
reconcileManagedRegistry(f) ==
  LET adopted == IF DOMAIN f # {} THEN f
                 ELSE [n \in {k[1] : k \in DOMAIN dirs} |-> {k[2] : k \in Under(dirs, n)}]
  IN EnsureNamespace(adopted, Default)

\* A crash may come before the journal is cleared.
StartupInit ==
  /\ ~up
  /\ \E stay \in BOOLEAN : LET rec == recoverInterruptedOp(stay)
     IN /\ sibs' = rec.sibs
        /\ \/ /\ reg' = reconcileManagedRegistry(rec.reg)
              /\ Journal(rec.journal)
              /\ up' = TRUE /\ quar' = left
           \/ /\ faults < MaxFaults /\ faults' = faults + 1
              /\ reg' = rec.reg
              /\ UNCHANGED <<journal, up, quar>>
  /\ UNCHANGED <<dirs, left, nsdirs, scopes, fence, rq, wr, loc, nextId, ops, ghosts>>

\* Whatever is at the leftover's path when its turn comes is moved away.
relocateLeftovers ==
  /\ up
  /\ \E k \in quar :
       /\ quar' = quar \ {k}
       /\ left' = left \ {k} /\ dirs' = Drop(dirs, {k}) /\ sibs' = Drop(sibs, {k})
       /\ loc' = [w \in Writer |->
                    IF loc[w] = <<"left", k>> \/ (k \in DOMAIN dirs /\ loc[w] = <<"project", dirs[k]>>)
                    THEN <<"lostfound", None>> ELSE loc[w]]
  /\ UNCHANGED <<nsdirs, reg, journal, scopes, fence, rq, wr, up, nextId, ops, faults, ghosts>>

----------------------------------------------------------------------------
(* The health page, and its repairs: each on an operator's request *)

\* What is wrong with a managed namespace.
checkNamespaceHealth(n) ==
  [missing |-> {p \in reg[n] : <<n, p>> \notin DOMAIN dirs},
   foreign |-> {k[2] : k \in Under(dirs, n)} \ reg[n],
   orphaned |-> {k[2] : k \in Under(sibs, n) \ DOMAIN dirs}]
\* The namespaces that are not managed and hold projects.
CheckAllHealth == {n \in DOMAIN nsdirs \ DOMAIN reg : Under(dirs, n) # {}}

DropMissingProject(k) == k \notin DOMAIN dirs /\ reg' = RemoveProject(reg, k) /\ UNCHANGED sibs
DropMissingNamespace(n) ==
  n # Default /\ n \notin DOMAIN nsdirs /\ reg' = Drop(reg, {n}) /\ UNCHANGED sibs
AdoptForeign(k) == k \in DOMAIN dirs /\ reg' = AddProject(reg, k) /\ UNCHANGED sibs
AdoptNamespace(n) ==
  /\ Under(dirs, n) # {}
  /\ reg' = [EnsureNamespace(reg, n) EXCEPT ![n] = @ \cup {k[2] : k \in Under(dirs, n)}]
  /\ UNCHANGED sibs
CleanOrphanedSibling(k) ==
  k \notin DOMAIN dirs /\ sibs' = Drop(sibs, {k}) /\ UNCHANGED reg

\* An action on a whole namespace needs a super-user.
NamespaceRecoverHandler(s, k, whole) ==
  /\ \E given \in {TRUE} \cup (IF k[1] = Default THEN {FALSE} ELSE {}) :
       AuthzMiddleware(s, "namespace_recover", callTarget(given, k))
  /\ whole => requireSuperUser(s)
handleNamespaceRecover(s, k, whole) ==
  Gate(s, "NAMESPACE_RECOVER", k) /\ (whole => IsSuperUser(s))

\* A repair that changes nothing is left out.
Recover ==
  /\ up /\ ops < MaxOps
  /\ ops' = ops + 1
  /\ \E k \in Key, s \in {{}, scopes["tokens"]}, whole \in BOOLEAN :
       LET t == IF whole THEN <<k[1], NoName>> ELSE k
       IN /\ NamespaceRecoverHandler(s, t, whole) \/ handleNamespaceRecover(s, t, whole)
          /\ \/ ~whole /\ (DropMissingProject(k) \/ AdoptForeign(k) \/ CleanOrphanedSibling(k))
             \/ whole /\ (DropMissingNamespace(k[1]) \/ AdoptNamespace(k[1]))
          /\ <<reg, sibs>>' # <<reg, sibs>>
          /\ raced' = (raced \/ \E r \in Req : \E j \in Touches(rq[r]) : j[1] = k[1])
  /\ UNCHANGED <<dirs, left, nsdirs, journal, scopes, fence, rq, wr, loc, quar, up, nextId,
                 faults, unfinished, revoked>>

Init ==
  /\ dirs = [k \in {<<FirstNs, FirstProj>>} |-> 1]
  /\ left = {}
  /\ nsdirs = [n \in {Default, FirstNs} |-> IF n = Default THEN 2 ELSE 3]
  /\ sibs = [k \in {<<FirstNs, FirstProj>>} |-> 1]
  /\ reg = [n \in {Default, FirstNs} |-> IF n = FirstNs THEN {FirstProj} ELSE {}]
  /\ journal = None
  /\ scopes = [s \in {"users", "tokens"} |-> IF s = "users" THEN UserScope ELSE TokenScope]
  /\ moving = {} /\ movingNs = {} /\ mu = None
  /\ rq = [r \in Req |-> Idle]
  /\ wr = [w \in Writer |-> [pc |-> "idle", key |-> None, id |-> None, late |-> FALSE]]
  /\ loc = [w \in Writer |-> <<"none", None>>]
  /\ quar = {} /\ up = TRUE
  /\ nextId = 4 /\ ops = 0 /\ faults = 0
  /\ raced = FALSE /\ unfinished = FALSE /\ revoked = {}

Next ==
  \/ \E r \in Req :
       \/ Request(r) \/ Lock(r) \/ Mark(r) \/ Rename(r) \/ Siblings(r) \/ Registry(r)
       \/ RewriteScopes(r, "users", "tokens") \/ RewriteScopes(r, "tokens", "clear")
       \/ Clear(r) \/ Purge(r, "users", "purge_tokens") \/ Purge(r, "tokens", "remove")
       \/ Remove(r) \/ Deregister(r) \/ InitProject(r) \/ Catalog(r)
       \/ registerManagedProject(r)
  \/ \E w \in Writer : Check(w) \/ Lease(w) \/ Write(w)
  \/ CreateNamespace \/ Recover \/ Crash \/ StartupInit \/ relocateLeftovers

Spec == Init /\ [][Next]_vars

----------------------------------------------------------------------------
(* Properties *)

\* The types; a fence is up only for the request that holds moveMu; and a
\* project directory lies in a namespace directory.
TypeOK ==
  /\ DOMAIN dirs \subseteq Key /\ left \subseteq Key \ DOMAIN dirs
  /\ \A k \in DOMAIN dirs : k[1] \in DOMAIN nsdirs
  /\ DOMAIN nsdirs \subseteq Ns /\ DOMAIN sibs \subseteq Key
  /\ DOMAIN reg \subseteq Ns /\ \A n \in DOMAIN reg : reg[n] \subseteq Proj
  /\ journal # None => journal.op \in Special /\ {journal.old, journal.new} \subseteq Key
  /\ \A s \in DOMAIN scopes : scopes[s] \subseteq Token
  /\ moving \subseteq Key /\ movingNs \subseteq Ns /\ mu \in Req \cup {None}
  /\ moving # {} \/ movingNs # {} => mu # None
  /\ \A r \in Req : rq[r].pc \in {"idle", "lock", "mark", "rename", "siblings", "registry",
        "users", "tokens", "clear", "purge_users", "purge_tokens", "remove", "deregister",
        "init", "catalog", "register"}
  /\ \A w \in Writer : wr[w].pc \in {"idle", "checked", "leased", "acked", "failed"}
  /\ quar \subseteq Key /\ {up, raced, unfinished} \subseteq BOOLEAN
  /\ revoked \subseteq (DOMAIN scopes) \X Nat
  /\ ops \in 0..MaxOps /\ faults \in 0..MaxFaults

Quiet == up /\ quar = {} /\ \A r \in Req : rq[r].pc = "idle"
\* A writer made a directory at a name that was moved or renamed away.
Leftover == \E w \in Writer : wr[w].late

\* The health page finds nothing whenever no request runs, through moves,
\* renames, deletions, crashes anywhere in them and the recovery at start
\* (recoverInterruptedOp: "auto-recovered"), unless two requests on one name
\* overlapped, a crash or a failing store cut a creation or deletion in two or
\* found no journal written, the registry's transaction failed after the pivot,
\* which stays half done until the next start, or a late writer put the old
\* directory back.
Healthy ==
  Quiet /\ ~raced /\ ~Leftover =>
    /\ CheckAllHealth = {}
    /\ \A n \in DOMAIN reg :
         LET h == checkNamespaceHealth(n)
         IN h.missing = {} /\ h.foreign = {} /\ h.orphaned = {}

\* A project's databases are its own, under the same exceptions.
SiblingsMatch ==
  Quiet /\ ~raced /\ ~Leftover => \A k \in DOMAIN dirs \cap DOMAIN sibs : sibs[k] = dirs[k]

\* Directories, databases and registry describe the same projects (CheckAllHealth,
\* recoverInterruptedOp).
ProjectsSound == TypeOK /\ Healthy /\ SiblingsMatch

\* The scopes a user and a token store hold at first.
FirstScope(s) == IF s = "users" THEN UserScope ELSE TokenScope
\* The identity that the name of a namespace stands for at first.
FirstId(n) == IF n = Default THEN 2 ELSE 3
\* Whether the initial scope gives level l on the project or namespace i: by a grant that
\* names it, or one for all.
Entitled(s, i, l) ==
  \E g \in ParseScope(FirstScope(s)) :
    /\ g.zone = "" /\ g.level = l
    /\ \/ g.wildcard
       \/ i = 1 /\ g.ns = FirstNs /\ g.proj = FirstProj
       \/ g.proj = NoName /\ \E n \in {Default, FirstNs} : g.ns = n /\ i = FirstId(n)
\* What the scopes name at first is there: the first project, its namespace, the default one.
FirstGrants ==
  \A s \in {"users", "tokens"} :
    /\ ~IsSuperUser(FirstScope(s))
    /\ \A g \in ParseScope(FirstScope(s)) :
         g.zone = "" /\ g.level > LevelNone /\ ~g.wildcard /\ g.ns # NoName =>
           \/ g.ns = FirstNs /\ g.proj = FirstProj
           \/ g.proj = NoName /\ g.ns \in {Default, FirstNs}
AccessFollows ==
  Quiet => \A s \in DOMAIN scopes, k \in DOMAIN dirs :
    LET l == EffectiveLevel(ParseScope(scopes[s]), k[1], k[2])
    IN l > LevelNone => Entitled(s, dirs[k], l) \/ Entitled(s, nsdirs[k[1]], l)
AccessKept ==
  Quiet => \A s \in DOMAIN scopes, k \in DOMAIN dirs, l \in Levels :
    (\E i \in {dirs[k], nsdirs[k[1]]} : Entitled(s, i, l) /\ <<s, i>> \notin revoked)
      => EffectiveLevel(ParseScope(scopes[s]), k[1], k[2]) >= l

\* A grant gives access to the project or namespace it was given for: at that
\* level wherever that was moved or renamed to, until a deletion takes the grant
\* away (AccessKept), and to no other that takes its name later (AccessFollows;
\* scopeclean: "re-creating the same name never resurrects old access").  A
\* scope that loses its last grant does not become the empty one.  An operation
\* that stopped after its pivot is exempt: see AccessFollowsRecovery.
AccessFollowsProject ==
  /\ \A s \in DOMAIN scopes : ~IsSuperUser(scopes[s])
  /\ ~raced /\ ~unfinished => AccessFollows /\ AccessKept

\* The same when an operation was interrupted after its pivot and completed
\* by the recovery at start.
AccessFollowsRecovery == ~raced => AccessFollows

\* An acknowledged write is in the project it was made for, whatever was
\* moved or renamed meanwhile, unless the project was deleted or the writer
\* passed checkWritable before the fence and took its lease after the leases
\* were looked at.
AckedInProject ==
  \A w \in Writer : wr[w].pc = "acked" /\ ~wr[w].late /\ ~raced =>
    loc[w] \in {<<"project", wr[w].id>>, <<"deleted", None>>}
=============================================================================
