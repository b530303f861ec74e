------------------------------ MODULE Accounts ------------------------------
(***************************************************************************)
(* Users, sessions and invitations (userstore), the /auth endpoints with   *)
(* the first-run registration, passwords, passkeys and invitations         *)
(* (authapi), and the account and administration requests of the web       *)
(* socket (uiws).                                                          *)
(*                                                                         *)
(* A bbolt transaction is one step; a handler that makes several is        *)
(* several steps.  A connection keeps the principal it was opened with.    *)
(* Sessions, invitations and ceremonies have numbers for handles.  TOTP    *)
(* and passkey appear as whether they are enrolled and presented; display  *)
(* names are left out.                                                     *)
(***************************************************************************)
EXTENDS Integers, FiniteSets, Maps

CONSTANTS
  User,           \* email addresses, normalised
  Password,
  Scope, AdminScope, NoScope,
  Pruned,         \* Pruned[s]: scope s without the grants of a deleted project
  Req, Conn,      \* HTTP requests; web socket connections
  AllowFirstRun,  \* allow_first_run_admin
  SessionTTL, InviteTTL, CeremonyTTL,
  MaxId, MaxNow,  \* bounds
  MaxEvents       \* bound: requests, ticks and restarts together

Id == 1..MaxId
Nil == 0

ASSUME AccountsAssumption ==
  /\ {AdminScope, NoScope} \subseteq Scope /\ AdminScope # NoScope
  /\ Pruned \in [Scope -> Scope] /\ Pruned[AdminScope] = AdminScope
  /\ AllowFirstRun \in BOOLEAN
  /\ {SessionTTL, InviteTTL, CeremonyTTL} \subseteq Nat
  /\ Nil \notin User \cup Scope \cup Password /\ Password # {}

VARIABLES
  users,       \* users bucket: email -> UserRecord
  sessions,    \* sessions bucket: id -> SessionRecord
  invites,     \* invites bucket: id -> InviteRecord
  tokens,      \* users with token series in the OAuth store
  ceremonies,  \* ceremonyCache: id -> ceremony
  conns,       \* connection -> its principal, and what its handler does
  rq,          \* request -> its handler
  up, now,     \* whether the server runs; the clock
  nextId,      \* NewHandle is fresh
  cuts,        \* ghost: how often a user's sessions were dropped
  born,        \* ghost: session -> cuts of its user when it was created
  first,       \* ghost: first-run accounts since the store was empty
  uses,        \* ghost: invitation or ceremony -> how often it was accepted
  events

stores == <<users, sessions, invites, tokens>>
ghosts == <<cuts, born, first, uses>>
clock == <<up, now>>
vars == <<stores, ceremonies, conns, rq, clock, nextId, ghosts, events>>

----------------------------------------------------------------------------
(* Helpers *)

Off == [pc |-> "off"]
Event == up /\ events < MaxEvents /\ events' = events + 1
Arrives(r) == rq[r] = Off /\ Event
Goto(r, rec) == rq' = [rq EXCEPT ![r] = rec]
Done(r) == Goto(r, Off)

\* Mutant of Fresh: the generator is seeded anew for every handle.
FreshM(n) == nextId <= MaxId /\ n = nextId /\ nextId' = nextId
\* NewHandle
Fresh(n) == nextId <= MaxId /\ n = nextId /\ nextId' = nextId + 1

\* The record of a new account.
Account(scope, pw, totp) ==
  [scope |-> scope, pw |-> pw, totp |-> totp, key |-> FALSE, disabled |-> FALSE]

\* IsEmpty, GetUser
IsEmpty == DOMAIN users = {}
GetUser(e) == e \in DOMAIN users

\* VerifyPassword and VerifyTOTP: the password is the record's, and a code is shown
\* when one is enrolled.
VerifyPassword(u, pw) == u.pw = pw
VerifyTOTP(u, code) == u.totp => code

Count(f, k) == Put(f, k, IF k \in DOMAIN f THEN f[k] + 1 ELSE 1)

\* dropSessionsTx
dropSessions(e) ==
  /\ sessions' = Drop(sessions, {s \in DOMAIN sessions : sessions[s].email = e})
  /\ cuts' = [cuts EXCEPT ![e] = @ + 1]
  /\ UNCHANGED <<born, first, uses>>

----------------------------------------------------------------------------
(* Sessions *)

CreateSession(e) ==
  \E s \in Id :
    /\ Fresh(s)
    /\ sessions' = Put(sessions, s, [email |-> e, exp |-> now + SessionTTL])
    /\ born' = Put(born, s, cuts[e])
\* startSession: the last step of every login.
startSession(r) ==
  /\ rq[r].pc = "session"
  /\ CreateSession(rq[r].email)
  /\ Done(r)
  /\ UNCHANGED <<users, invites, tokens, ceremonies, conns, clock, cuts, first, uses,
                 events>>

Expired(s) == now > sessions[s].exp

\* LookupSession: the first step of every request that shows a cookie; it deletes
\* an expired session.  goal is what the request is for.
LookupSession(r, s, goal) ==
  /\ Arrives(r) /\ s \in DOMAIN sessions
  /\ IF Expired(s)
     THEN sessions' = Drop(sessions, {s}) /\ UNCHANGED rq
     ELSE /\ Goto(r, [pc |-> "user", sess |-> s, email |-> sessions[s].email, goal |-> goal])
          /\ UNCHANGED sessions
  /\ UNCHANGED <<users, invites, tokens, ceremonies, conns, clock, nextId, ghosts>>

\* currentUser: the record of the session's user, if there still is one.
currentUser(r) ==
  /\ rq[r].pc = "user"
  /\ IF GetUser(rq[r].email)
     THEN Goto(r, [pc |-> rq[r].goal.pc, sess |-> rq[r].sess, email |-> rq[r].email,
                   goal |-> rq[r].goal, rec |-> users[rq[r].email]])
     ELSE Done(r)
  /\ UNCHANGED <<stores, ceremonies, conns, clock, nextId, ghosts, events>>

\* Mutant of TouchSession: the session that LookupSession read is written back.
TouchSessionM(r) ==
  /\ rq[r].pc = "touch"
  /\ sessions' = Put(sessions, rq[r].sess, [email |-> rq[r].email, exp |-> now + SessionTTL])
  /\ Goto(r, [rq[r] EXCEPT !.pc = "serve"])
  /\ UNCHANGED <<users, invites, tokens, ceremonies, conns, clock, nextId, ghosts, events>>
\* slideSession, TouchSession: a session that is still there and would end earlier
\* is extended.
TouchSession(r) ==
  /\ rq[r].pc = "touch"
  /\ LET s == rq[r].sess IN
       sessions' = IF s \in DOMAIN sessions /\ sessions[s].exp < now + SessionTTL
                   THEN [sessions EXCEPT ![s].exp = now + SessionTTL] ELSE sessions
  /\ Goto(r, [rq[r] EXCEPT !.pc = "serve"])
  /\ UNCHANGED <<users, invites, tokens, ceremonies, conns, clock, nextId, ghosts, events>>

\* RequireSession lets a request with a principal through: to a page, or to the web
\* socket, where NewClient keeps the principal that Middleware attached.
Serve(r) ==
  /\ rq[r].pc = "serve"
  /\ Done(r)
  /\ UNCHANGED <<stores, ceremonies, conns, clock, nextId, ghosts, events>>
OpenConn(r, c) ==
  /\ rq[r].pc = "serve" /\ conns[c] = Off
  /\ conns' = [conns EXCEPT ![c] = [pc |-> "idle", email |-> rq[r].email,
                                    scope |-> rq[r].rec.scope]]
  /\ Done(r)
  /\ UNCHANGED <<stores, ceremonies, clock, nextId, ghosts, events>>
\* A connection without a principal, as long as there is no user.
OpenAnonymous(c) ==
  /\ Event /\ conns[c] = Off /\ IsEmpty
  /\ conns' = [conns EXCEPT ![c] = [pc |-> "idle", email |-> Nil, scope |-> AdminScope]]
  /\ UNCHANGED <<stores, ceremonies, rq, clock, nextId, ghosts>>

DeleteSession(s) == sessions' = Drop(sessions, {s})
handleLogout(r, s) ==
  /\ Arrives(r)
  /\ DeleteSession(s)
  /\ UNCHANGED <<users, invites, tokens, ceremonies, conns, rq, clock, nextId, cuts, born,
                 first, uses>>

----------------------------------------------------------------------------
(* Logging in *)

\* handleRegister: nobody has registered yet.
handleRegister(r, e, pw, totp) ==
  /\ Arrives(r) /\ AllowFirstRun /\ IsEmpty
  /\ Goto(r, [pc |-> "first", email |-> e, rec |-> Account(AdminScope, pw, totp)])
  /\ UNCHANGED <<stores, ceremonies, conns, clock, nextId, ghosts>>

\* Mutant of firstGuard: the check of handleRegister is relied on.
firstGuardM == TRUE
\* The guard of CreateFirstAdmin, inside its transaction.
firstGuard == IsEmpty

\* createWithGuard, from CreateFirstAdmin.
CreateFirstAdmin(r) ==
  /\ rq[r].pc = "first"
  /\ IF firstGuard
     THEN /\ users' = Put(users, rq[r].email, rq[r].rec)
          /\ first' = (IF IsEmpty THEN {} ELSE first) \cup {rq[r].email}
          /\ Goto(r, [pc |-> "session", email |-> rq[r].email])
     ELSE UNCHANGED <<users, first>> /\ Done(r)
  /\ UNCHANGED <<sessions, invites, tokens, ceremonies, conns, clock, nextId, cuts, born,
                 uses, events>>

\* handleLogin: password and code against the record, which is enabled; code says
\* whether a valid one is shown.
handleLogin(r, e, pw, code) ==
  /\ Arrives(r) /\ GetUser(e)
  /\ VerifyPassword(users[e], pw) /\ VerifyTOTP(users[e], code) /\ ~users[e].disabled
  /\ Goto(r, [pc |-> "session", email |-> e])
  /\ UNCHANGED <<stores, ceremonies, conns, clock, nextId, ghosts>>

\* InviteByCode, and the check of RedeemInvite.
Redeemable(i) == i \in DOMAIN invites /\ ~invites[i].used /\ now <= invites[i].exp

\* RedeemInvite: the account and the mark on the invitation in one transaction.
RedeemInvite(i, rec) ==
  /\ Redeemable(i) /\ ~GetUser(invites[i].email)
  /\ users' = Put(users, invites[i].email, rec)
  /\ invites' = [invites EXCEPT ![i].used = TRUE]
  /\ uses' = Count(uses, i)
\* handleInviteRedeem: scope and address are the invitation's.  Without a display
\* name the record is written once more.
handleInviteRedeem(r, i, pw, totp, named) ==
  /\ Arrives(r) /\ i \in DOMAIN invites
  /\ LET e == invites[i].email  rec == Account(invites[i].scope, pw, totp) IN
       /\ RedeemInvite(i, rec)
       /\ Goto(r, IF named THEN [pc |-> "session", email |-> e]
                  ELSE [pc |-> "put", email |-> e, rec |-> rec, then |-> "session"])
  /\ UNCHANGED <<sessions, tokens, ceremonies, conns, clock, nextId, cuts, born, first>>

\* PutUser, by a request: the whole record, whether there is one or not.
PutUser(r) ==
  /\ rq[r].pc = "put"
  /\ users' = Put(users, rq[r].email, rq[r].rec)
  /\ Goto(r, IF rq[r].then = "session" THEN [pc |-> "session", email |-> rq[r].email] ELSE Off)
  /\ UNCHANGED <<sessions, invites, tokens, ceremonies, conns, clock, nextId, ghosts, events>>

\* ceremonyCache.put: expired entries go.
put(n, e) ==
  ceremonies' = Put(Drop(ceremonies, {k \in DOMAIN ceremonies : now > ceremonies[k].exp}),
                    n, [email |-> e, exp |-> now + CeremonyTTL])
storeCeremony(e) == \E n \in Id : Fresh(n) /\ put(n, e)

\* ceremonyCache.take: a ceremony is gone once it is taken.
take(n) == ceremonies' = Drop(ceremonies, {n})

handleWebAuthnRegisterBegin(r) ==
  /\ rq[r].pc = "regBegin"
  /\ storeCeremony(rq[r].email)
  /\ Done(r)
  /\ UNCHANGED <<stores, conns, clock, ghosts, events>>
\* handleWebAuthnRegisterFinish: the ceremony must be the user's; then the record with
\* the passkey is written.  ok: the attestation verifies.
handleWebAuthnRegisterFinish(r, ok) ==
  /\ rq[r].pc = "regFinish"
  /\ LET n == rq[r].goal.ceremony IN
       IF n \in DOMAIN ceremonies
       THEN /\ take(n)
            /\ IF /\ now <= ceremonies[n].exp /\ ceremonies[n].email = rq[r].email /\ ok
               THEN /\ uses' = Count(uses, n)
                    /\ Goto(r, [pc |-> "put", email |-> rq[r].email, then |-> "off",
                                rec |-> [rq[r].rec EXCEPT !.key = TRUE]])
               ELSE Done(r) /\ UNCHANGED uses
       ELSE Done(r) /\ UNCHANGED <<ceremonies, uses>>
  /\ UNCHANGED <<stores, conns, clock, nextId, cuts, born, first, events>>

handleWebAuthnLoginBegin(r, e) ==
  /\ Arrives(r) /\ GetUser(e) /\ users[e].key
  /\ storeCeremony(e)
  /\ UNCHANGED <<stores, conns, rq, clock, ghosts>>
\* handleWebAuthnLoginFinish takes the ceremony ...
handleWebAuthnLoginFinish(r, n) ==
  /\ Arrives(r) /\ n \in DOMAIN ceremonies
  /\ take(n)
  /\ IF now <= ceremonies[n].exp
     THEN Goto(r, [pc |-> "assert", email |-> ceremonies[n].email, ceremony |-> n])
     ELSE UNCHANGED rq
  /\ UNCHANGED <<stores, conns, clock, nextId, ghosts>>
\* ... reads the user, verifies the assertion, and refuses a disabled account; the
\* record with the new sign count is then written, and a session started.
FinishLogin(r, ok) ==
  /\ rq[r].pc = "assert"
  /\ LET e == rq[r].email IN
       IF GetUser(e) /\ users[e].key /\ ok /\ ~users[e].disabled
       THEN /\ Goto(r, [pc |-> "put", email |-> e, rec |-> users[e], then |-> "session"])
            /\ uses' = Count(uses, rq[r].ceremony)
       ELSE Done(r) /\ UNCHANGED uses
  /\ UNCHANGED <<stores, ceremonies, conns, clock, nextId, cuts, born, first, events>>

----------------------------------------------------------------------------
(* Requests on a connection, one at a time *)

\* Gate: the scope the connection was opened with.
Gate(c, level) ==
  /\ Event /\ conns[c].pc = "idle"
  /\ IF level = "admin" THEN conns[c].scope = AdminScope ELSE conns[c].scope # NoScope
isSelf(c, e) == conns[c].email = e
Busy(c, what, e, rec) ==
  conns' = [conns EXCEPT ![c] = [pc |-> what, email |-> @.email, scope |-> @.scope,
                                 target |-> e, rec |-> rec]]
Free(c) == conns' = [conns EXCEPT ![c] = [pc |-> "idle", email |-> @.email, scope |-> @.scope]]

\* What ACCOUNT_SET_NAME, ACCOUNT_SET_PASSWORD, ACCOUNT_TOTP_VERIFY and
\* ACCOUNT_TOTP_DISABLE make of a record.
handleAccountSetName(u) == u
handleAccountSetPassword(u, p) == [u EXCEPT !.pw = p]
handleAccountTOTPVerify(u) == [u EXCEPT !.totp = TRUE]
handleAccountTOTPDisable(u) == [u EXCEPT !.totp = FALSE]
AccountEdit(u) ==
  {handleAccountSetName(u), handleAccountTOTPVerify(u), handleAccountTOTPDisable(u)}
    \cup {handleAccountSetPassword(u, p) : p \in Password}
\* selfRecord: the account of the connection's own user is read ...
selfRecord(c) ==
  /\ Gate(c, "read") /\ conns[c].email # Nil /\ GetUser(conns[c].email)
  /\ \E u \in AccountEdit(users[conns[c].email]) : Busy(c, "put", conns[c].email, u)
  /\ UNCHANGED <<stores, ceremonies, rq, clock, nextId, ghosts>>
\* ... and written back as a whole.
AccountPut(c) ==
  /\ conns[c].pc = "put"
  /\ users' = Put(users, conns[c].target, conns[c].rec)
  /\ Free(c)
  /\ UNCHANGED <<sessions, invites, tokens, ceremonies, rq, clock, nextId, ghosts, events>>

UpdateUserScope(e, s) == GetUser(e) /\ users' = [users EXCEPT ![e].scope = s]
handleAdminSetUserScope(c, e, s) ==
  /\ Gate(c, "admin") /\ ~isSelf(c, e)
  /\ UpdateUserScope(e, s)
  /\ UNCHANGED <<sessions, invites, tokens, ceremonies, conns, rq, clock, nextId, ghosts>>

\* SetUserDisabled: the flag, and the end of the sessions when it is set.
SetUserDisabled(e, disabled) ==
  /\ GetUser(e)
  /\ users' = [users EXCEPT ![e].disabled = disabled]
  /\ IF disabled THEN dropSessions(e) ELSE UNCHANGED <<sessions, ghosts>>
\* The token series of a disabled user are revoked after it.
handleAdminSetUserEnabled(c, e, enabled) ==
  /\ Gate(c, "admin") /\ ~isSelf(c, e)
  /\ SetUserDisabled(e, ~enabled)
  /\ IF enabled THEN UNCHANGED conns ELSE Busy(c, "revoke", e, Nil)
  /\ UNCHANGED <<invites, tokens, ceremonies, rq, clock, nextId>>

SetUserPassword(e, p) ==
  GetUser(e) /\ users' = [users EXCEPT ![e].pw = p] /\ dropSessions(e)
\* An administrator may reset the own password.
handleAdminSetUserPassword(c, e, p) ==
  /\ Gate(c, "admin")
  /\ SetUserPassword(e, p)
  /\ Busy(c, "revoke", e, Nil)
  /\ UNCHANGED <<invites, tokens, ceremonies, rq, clock, nextId>>

RemoveUser(e) == GetUser(e) /\ users' = Drop(users, {e}) /\ dropSessions(e)
handleAdminRemoveUser(c, e) ==
  /\ Gate(c, "admin") /\ ~isSelf(c, e)
  /\ RemoveUser(e)
  /\ Busy(c, "revoke", e, Nil)
  /\ UNCHANGED <<invites, tokens, ceremonies, rq, clock, nextId>>

revokeOAuthForUser(c) ==
  /\ conns[c].pc = "revoke"
  /\ tokens' = tokens \ {conns[c].target}
  /\ Free(c)
  /\ UNCHANGED <<users, sessions, invites, ceremonies, rq, clock, nextId, ghosts, events>>

InviteRecord(e, s) == [email |-> e, scope |-> s, exp |-> now + InviteTTL, used |-> FALSE]
CreateInvite(e, s) ==
  \E i \in Id : Fresh(i) /\ invites' = Put(invites, i, InviteRecord(e, s))
handleAdminCreateInvite(c, e, s) ==
  /\ Gate(c, "admin")
  /\ CreateInvite(e, s)
  /\ UNCHANGED <<users, sessions, tokens, ceremonies, conns, rq, clock, ghosts>>
RevokeInvite(i) == invites' = Drop(invites, {i})
handleAdminRevokeInvite(c, i) ==
  /\ Gate(c, "admin") /\ i \in DOMAIN invites
  /\ RevokeInvite(i)
  /\ UNCHANGED <<users, sessions, tokens, ceremonies, conns, rq, clock, nextId, ghosts>>

\* RewriteScopes of the user store: users and invitations in one transaction.
RewriteScopes ==
  /\ Event
  /\ users' = [e \in DOMAIN users |-> [users[e] EXCEPT !.scope = Pruned[@]]]
  /\ invites' = [i \in DOMAIN invites |-> [invites[i] EXCEPT !.scope = Pruned[@]]]
  /\ UNCHANGED <<sessions, tokens, ceremonies, conns, rq, clock, nextId, ghosts>>

----------------------------------------------------------------------------
(* The server's life, and the operator *)

Close(c) ==
  /\ conns[c].pc = "idle"
  /\ conns' = [conns EXCEPT ![c] = Off]
  /\ UNCHANGED <<stores, ceremonies, rq, clock, nextId, ghosts, events>>

\* The server stops, in the middle of its handlers.
Stop ==
  /\ Event
  /\ up' = FALSE
  /\ ceremonies' = EmptyMap
  /\ conns' = [c \in Conn |-> Off] /\ rq' = [r \in Req |-> Off]
  /\ UNCHANGED <<stores, now, nextId, ghosts>>
Start ==
  /\ ~up /\ up' = TRUE
  /\ UNCHANGED <<stores, ceremonies, conns, rq, now, nextId, ghosts, events>>

\* runUserReset, with the server stopped: --clear-totp (ClearTOTP) and
\* --reset-password (SetUserPassword).
ClearTOTP(e) == GetUser(e) /\ users' = [users EXCEPT ![e].totp = FALSE] /\ dropSessions(e)
runUserReset(e, p) ==
  /\ ~up /\ events < MaxEvents /\ events' = events + 1
  /\ ClearTOTP(e) \/ SetUserPassword(e, p)
  /\ UNCHANGED <<invites, tokens, ceremonies, conns, rq, clock, nextId>>

Tick ==
  /\ Event /\ now < MaxNow /\ now' = now + 1
  /\ UNCHANGED <<stores, ceremonies, conns, rq, up, nextId, ghosts>>
\* The OAuth server issues a series for the user.
TokenIssued(e) ==
  /\ up /\ e \in DOMAIN users \ tokens
  /\ tokens' = tokens \cup {e}
  /\ UNCHANGED <<users, sessions, invites, ceremonies, conns, rq, clock, nextId, ghosts, events>>

----------------------------------------------------------------------------
\* A fresh installation (admin is empty), or one with an administrator, who has a session
\* and a passkey, and an invitation that is still open.
Installed(admin) ==
  /\ users = [e \in admin |-> [Account(AdminScope, CHOOSE p \in Password : TRUE, FALSE)
                                EXCEPT !.key = TRUE]]
  /\ sessions = [s \in {1 : e \in admin} |->
                   [email |-> CHOOSE e \in admin : TRUE, exp |-> SessionTTL]]
  /\ \E e \in User \ admin, s \in Scope \ {NoScope} :
       invites = [i \in {2 : a \in admin} |->
                    [email |-> e, scope |-> s, exp |-> InviteTTL, used |-> FALSE]]
  /\ born = [s \in DOMAIN sessions |-> 0]
Init ==
  /\ \E admin \in {{}} \cup {{e} : e \in User} : Installed(admin)
  /\ tokens = {} /\ ceremonies = EmptyMap
  /\ conns = [c \in Conn |-> Off] /\ rq = [r \in Req |-> Off]
  /\ up = TRUE /\ now = 0 /\ nextId = 3
  /\ cuts = [e \in User |-> 0] /\ first = {} /\ uses = EmptyMap
  /\ events = 0

Goal == {[pc |-> "touch"], [pc |-> "regBegin"]}
          \cup [pc : {"regFinish"}, ceremony : DOMAIN ceremonies]
HTTP(r) ==
  \/ \E e \in User, p \in Password, b \in BOOLEAN :
       handleRegister(r, e, p, b) \/ handleLogin(r, e, p, b)
  \/ \E s \in DOMAIN sessions : \/ \E g \in Goal : LookupSession(r, s, g)
                                 \/ handleLogout(r, s)
  \/ currentUser(r) \/ TouchSession(r) \/ Serve(r) \/ \E c \in Conn : OpenConn(r, c)
  \/ CreateFirstAdmin(r) \/ startSession(r) \/ PutUser(r)
  \/ \E i \in DOMAIN invites, p \in Password, b, named \in BOOLEAN :
       handleInviteRedeem(r, i, p, b, named)
  \/ handleWebAuthnRegisterBegin(r) \/ \E ok \in BOOLEAN : handleWebAuthnRegisterFinish(r, ok)
  \/ \E e \in User : handleWebAuthnLoginBegin(r, e)
  \/ \E n \in DOMAIN ceremonies : handleWebAuthnLoginFinish(r, n)
  \/ \E ok \in BOOLEAN : FinishLogin(r, ok)
Socket(c) ==
  \/ OpenAnonymous(c) \/ selfRecord(c) \/ AccountPut(c) \/ revokeOAuthForUser(c) \/ Close(c)
  \/ \E e \in User :
       \/ \E s \in Scope : handleAdminSetUserScope(c, e, s) \/ handleAdminCreateInvite(c, e, s)
       \/ \E b \in BOOLEAN : handleAdminSetUserEnabled(c, e, b)
       \/ \E p \in Password : handleAdminSetUserPassword(c, e, p)
       \/ handleAdminRemoveUser(c, e)
  \/ \E i \in Id : handleAdminRevokeInvite(c, i)
Next ==
  \/ \E r \in Req : HTTP(r)
  \/ \E c \in Conn : Socket(c)
  \/ RewriteScopes \/ Stop \/ Start \/ Tick
  \/ \E e \in User : TokenIssued(e) \/ \E p \in Password : runUserReset(e, p)

Spec == Init /\ [][Next]_vars

----------------------------------------------------------------------------
(* Properties *)

\* The type invariant.
TypeOK ==
  /\ DOMAIN users \subseteq User /\ tokens \subseteq User
  /\ \A e \in DOMAIN users : users[e].scope \in Scope /\ users[e].pw \in Password
  /\ \A s \in DOMAIN sessions : sessions[s].email \in User /\ sessions[s].exp \in Nat
  /\ \A i \in DOMAIN invites : invites[i].email \in User /\ invites[i].scope \in Scope
  /\ \A n \in DOMAIN ceremonies : ceremonies[n].email \in User
  /\ DOMAIN sessions \cup DOMAIN invites \cup DOMAIN ceremonies \subseteq 1..(nextId - 1)
  /\ \A c \in Conn : conns[c] = Off \/ conns[c].scope \in Scope

\* Of several first-run registrations at the same time one succeeds: CreateFirstAdmin
\* looks at the store again inside its transaction ("exactly one wins, the other is
\* refused").
OneFirstAdmin == Cardinality(first) <= 1

\* An invitation makes one account, and a passkey ceremony serves one login or one
\* enrolment, however many requests present them and whatever is removed between
\* ("single-use").
SingleUse == \A k \in DOMAIN uses : uses[k] <= 1

\* What admits somebody does so once.
AdmitOnce == OneFirstAdmin /\ SingleUse

\* No session outlives a cut: whoever is disabled, removed or given a new password has
\* no session left that was created before, even when a request that had resolved the
\* session extends it afterwards (dropSessionsTx against LookupSession and TouchSession).
CutsAreFinal == \A s \in DOMAIN sessions : born[s] = cuts[sessions[s].email]
=============================================================================
