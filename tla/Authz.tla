------------------------------- MODULE Authz --------------------------------
(***************************************************************************)
(* Scopes, grants and the one authorization decision (pkg/authz), and the  *)
(* level each tool needs.                                                  *)
(*                                                                         *)
(* A scope is a set of tokens.  A token is what parseGrant tells apart:    *)
(* its zone prefix, whether it is "*", "none", a namespace grant or        *)
(* something else, the names in it, and its permission suffix.  The empty  *)
(* scope is the zero value of old records and means super-user.            *)
(***************************************************************************)
EXTENDS Integers, FiniteSets, FiniteSetsExt, TLC

CONSTANTS Ns, Proj, NoName

Levels == 0..3
LevelNone == 0
LevelRead == 1
LevelWrite == 2
LevelAdmin == 3

Name == Ns \cup {NoName}
Suffix == {"admin", "rw", "r", ""}

Token == [zone : {"", "git"}, form : {"star", "none", "namespace", "bare"},
          ns : Name, proj : Proj \cup {NoName}, perm : Suffix]

NoneToken == [zone |-> "", form |-> "none", ns |-> NoName, proj |-> NoName, perm |-> ""]
NoAccessScope == {NoneToken}

\* The level of a permission suffix.
splitPerm(perm) == CASE perm = "admin" -> LevelAdmin [] perm = "rw" -> LevelWrite
                     [] perm = "r" -> LevelRead [] OTHER -> LevelNone

\* A level-less namespace grant is read-write; a level-less bare token is
\* nothing.
parseGrant(t) ==
  LET G(w, n, p, l) == [zone |-> t.zone, wildcard |-> w, ns |-> n, proj |-> p, level |-> l]
      nothing == G(FALSE, NoName, NoName, LevelNone)
  IN CASE t.form = "star" ->
            G(TRUE, NoName, NoName, IF t.perm = "" THEN LevelAdmin ELSE splitPerm(t.perm))
       [] t.form = "namespace" ->
            G(FALSE, t.ns, t.proj, IF t.perm = "" THEN LevelWrite ELSE splitPerm(t.perm))
       [] t.form = "bare" /\ t.perm # "" /\ t.ns # NoName ->
            G(FALSE, t.ns, t.proj, splitPerm(t.perm))
       [] OTHER -> nothing

SuperGrant == [zone |-> "", wildcard |-> TRUE, ns |-> NoName, proj |-> NoName,
               level |-> LevelAdmin]

ParseScope(scope) == IF scope = {} THEN {SuperGrant} ELSE {parseGrant(t) : t \in scope}

\* Whether a grant covers a target; no namespace is a global operation.
matches(g, n, p) ==
  /\ g.zone = ""
  /\ \/ n = NoName
     \/ g.wildcard
     \/ g.ns = n /\ g.proj \in {NoName, p}

EffectiveLevel(grants, n, p) ==
  Max({LevelNone} \cup {g.level : g \in {h \in grants : matches(h, n, p)}})

Authorize(scope, n, p, required) == EffectiveLevel(ParseScope(scope), n, p) >= required

IsSuperUser(scope) ==
  \E g \in ParseScope(scope) : g.zone = "" /\ g.wildcard /\ g.level >= LevelAdmin

\* The namespaces a scoped principal administers.
AdminNamespaces(scope) ==
  {n \in Ns : \E g \in ParseScope(scope) :
     g.zone = "" /\ ~g.wildcard /\ g.ns = n /\ g.proj = NoName /\ g.level >= LevelAdmin}

----------------------------------------------------------------------------
(* What deleting, moving and renaming do to a scope *)

\* The scope without the tokens in drop; never empty unless it was.
pruneScope(scope, drop) ==
  IF scope \cap drop # {} /\ scope \subseteq drop THEN NoAccessScope ELSE scope \ drop

OfNamespace(scope, n) ==
  {t \in scope : LET g == parseGrant(t) IN ~g.wildcard /\ g.ns = n}
OfProject(scope, n, p) == {t \in OfNamespace(scope, n) : parseGrant(t).proj = p}

PruneNamespaceGrants(scope, n) == pruneScope(scope, OfNamespace(scope, n))
PruneProjectGrants(scope, n, p) == pruneScope(scope, OfProject(scope, n, p))

\* The permission suffix stays what it was; the token takes the long form.
RewriteProjectGrants(scope, n, p, n2, p2) ==
  (scope \ OfProject(scope, n, p))
    \cup {[t EXCEPT !.form = "namespace", !.ns = n2, !.proj = p2] : t \in OfProject(scope, n, p)}

RewriteNamespaceGrants(scope, n, n2) ==
  (scope \ OfNamespace(scope, n))
    \cup {[t EXCEPT !.form = "namespace", !.ns = n2] : t \in OfNamespace(scope, n)}

----------------------------------------------------------------------------
(* The two gates: MCP tools and the messages of the web socket.  A tool or  *)
(* message that no table lists needs admin.                                *)

toolLevels ==
  [t \in {"read_file", "read_summary", "read_file_at_version", "list_files",
          "list_files_since", "list_projects", "get_history", "get_diff",
          "get_server_info", "search_files", "subscribe", "unsubscribe",
          "ask_the_librarian"} |-> LevelRead]
toolWrites == {"write_file", "patch_file", "append_to_file", "move_file", "copy_file",
               "delete_file"}
toolLevel(name) == IF name \in DOMAIN toolLevels THEN toolLevels[name]
                   ELSE IF name \in toolWrites THEN LevelWrite ELSE LevelAdmin

\* An argument that is left out is no name, and the call is a global one.
callTarget(given, k) == IF given THEN k ELSE <<NoName, k[2]>>

\* AuthzMiddleware: k is the target the call names.
AuthzMiddleware(scope, tool, k) == Authorize(scope, k[1], k[2], toolLevel(tool))
requireSuperUser(scope) == IsSuperUser(scope)

\* The document messages, and the messages of users and tokens.
wsLevels ==
  [m \in {"GET_TREE", "READ_FILE", "SEARCH_FILES", "GET_HISTORY", "GET_FILE_AT", "GET_DIFF"}
     |-> [level |-> LevelRead, global |-> FALSE]]
  @@ [m \in {"WRITE_DRAFT", "SAVE_FILE", "MOVE_FILE", "DELETE_FILE"}
        |-> [level |-> LevelWrite, global |-> FALSE]]
  @@ [m \in {"CREATE_PROJECT", "DELETE_PROJECT", "RENAME_PROJECT", "RECOVER_PROJECT",
             "LIST_DELETED", "REVIVE_FILE", "NAMESPACE_RECOVER"}
        |-> [level |-> LevelAdmin, global |-> FALSE]]
  @@ [m \in {"GET_PROJECTS", "SERVER_NETWORK_INFO"} |-> [level |-> LevelRead, global |-> TRUE]]
CoreLevels ==
  [m \in {"ACCOUNT_GET", "ACCOUNT_SET_NAME", "ACCOUNT_SET_PASSWORD", "ACCOUNT_TOTP_ENROLL",
          "ACCOUNT_TOTP_VERIFY", "ACCOUNT_TOTP_DISABLE"}
     |-> [level |-> LevelRead, global |-> TRUE]]
wsSuperUserOps == {"CREATE_NAMESPACE", "DELETE_NAMESPACE", "MOVE_PROJECT", "RENAME_NAMESPACE",
                   "RELOAD_LIBRARIAN_CONFIG"}

\* The messages that need a super-user are settled first.
Gate(scope, msg, k) ==
  LET levels == wsLevels @@ CoreLevels
      op == IF msg \in DOMAIN levels THEN levels[msg]
            ELSE [level |-> LevelAdmin, global |-> TRUE]
  IN IF msg \in wsSuperUserOps THEN IsSuperUser(scope)
     ELSE IF op.global THEN Authorize(scope, NoName, NoName, op.level)
     ELSE Authorize(scope, k[1], k[2], op.level)
=============================================================================
