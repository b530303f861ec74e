---------------------------- MODULE AccountsProofs ----------------------------
(***************************************************************************)
(* Users, sessions, invitations and passkey ceremonies: what admits        *)
(* somebody does so once, and no session outlives a cut of its user's      *)
(* sessions.                                                               *)
(***************************************************************************)
EXTENDS Accounts, FiniteSetTheorems, TLAPS

----------------------------------------------------------------------------
(* The inductive invariant *)

Record == [scope : Scope, pw : Password, totp : BOOLEAN, key : BOOLEAN, disabled : BOOLEAN]
Dated == [email : User, exp : Nat]
Invite == [email : User, scope : Scope, exp : Nat, used : BOOLEAN]

UsersOK(f) == DOMAIN f \subseteq User /\ \A e \in DOMAIN f : f[e] \in Record
SessionsOK(f) == \A s \in DOMAIN f : f[s] \in Dated
InvitesOK(f) == \A i \in DOMAIN f : f[i] \in Invite

StoresInv ==
  /\ UsersOK(users) /\ SessionsOK(sessions) /\ InvitesOK(invites) /\ tokens \subseteq User
  /\ SessionsOK(ceremonies)
  /\ now \in Nat /\ nextId \in Nat /\ nextId > 2
  /\ DOMAIN sessions \cup DOMAIN invites \cup DOMAIN ceremonies \subseteq 1..(nextId - 1)

\* What a request is for, once its session is resolved.
Purpose == [pc : {"touch", "regBegin"}] \cup [pc : {"regFinish"}, ceremony : Nat]
\* What the handler of a request holds, at each point of its program.
Handling ==
  {Off}
  \cup [pc : {"user"}, sess : Nat, email : User, goal : Purpose]
  \cup [pc : {"touch", "regBegin", "regFinish", "serve"}, sess : Nat, email : User,
        goal : Purpose, rec : Record]
  \cup [pc : {"first"}, email : User, rec : Record]
  \cup [pc : {"session"}, email : User]
  \cup [pc : {"put"}, email : User, rec : Record, then : {"session", "off"}]
  \cup [pc : {"assert"}, email : User, ceremony : Nat]
\* What a connection holds.
Connected ==
  {Off}
  \cup [pc : {"idle"}, email : User \cup {Nil}, scope : Scope]
  \cup [pc : {"put"}, email : User \cup {Nil}, scope : Scope, target : User, rec : Record]
  \cup [pc : {"revoke"}, email : User \cup {Nil}, scope : Scope, target : User, rec : {Nil}]

HandlersInv == rq \in [Req -> Handling] /\ conns \in [Conn -> Connected]

\* The sessions of a user were all created since the last cut.
CutInv ==
  /\ cuts \in [User -> Nat]
  /\ DOMAIN sessions \subseteq DOMAIN born
  /\ CutsAreFinal

Asserts(r) == rq[r].pc = "assert"

\* An invitation that is not marked, a ceremony in the cache and the ceremony of a
\* login that is being verified have admitted nobody; the last is in no other hands.
UseInv ==
  /\ \A k \in DOMAIN uses : uses[k] = 1 /\ k \in 1..(nextId - 1)
  /\ \A i \in DOMAIN invites : ~invites[i].used => i \notin DOMAIN uses
  /\ DOMAIN ceremonies \cap (DOMAIN uses \cup DOMAIN invites) = {}
  /\ \A r \in Req : Asserts(r) =>
       /\ rq[r].ceremony \in 1..(nextId - 1)
       /\ rq[r].ceremony \notin DOMAIN uses \cup DOMAIN invites \cup DOMAIN ceremonies
       /\ \A q \in Req \ {r} : Asserts(q) => rq[q].ceremony # rq[r].ceremony

FirstInv == first = {} \/ \E e \in User : first = {e}

AccountsInv == StoresInv /\ HandlersInv /\ CutInv /\ UseInv /\ FirstInv

----------------------------------------------------------------------------
(* The buckets *)

LEMMA Puts ==
  ASSUME NEW f, NEW k, NEW v
  PROVE  /\ DOMAIN Put(f, k, v) = DOMAIN f \cup {k} /\ Put(f, k, v)[k] = v
         /\ \A x \in DOMAIN f \ {k} : Put(f, k, v)[x] = f[x]
BY DEF Put

LEMMA Drops ==
  ASSUME NEW f, NEW S
  PROVE  /\ DOMAIN Drop(f, S) = DOMAIN f \ S
         /\ \A x \in DOMAIN f \ S : Drop(f, S)[x] = f[x]
BY DEF Drop

\* An account is put, edited or removed.
LEMMA UsersChange ==
  ASSUME NEW f, UsersOK(f), NEW e \in User
  PROVE  /\ \A rec \in Record : UsersOK(Put(f, e, rec))
         /\ UsersOK(Drop(f, {e}))
         /\ \A s \in Scope : UsersOK([f EXCEPT ![e].scope = s])
         /\ \A p \in Password : UsersOK([f EXCEPT ![e].pw = p])
         /\ \A b \in BOOLEAN : UsersOK([f EXCEPT ![e].disabled = b])
         /\ UsersOK([f EXCEPT ![e].totp = FALSE])
<1>0. \A x \in DOMAIN f : x \in User /\ f[x] \in Record
  BY DEF UsersOK
<1>1. ASSUME NEW rec \in Record PROVE UsersOK(Put(f, e, rec))
  BY <1>0 DEF UsersOK, Put
<1>2. UsersOK(Drop(f, {e}))
  BY <1>0 DEF UsersOK, Drop
<1>3. ASSUME NEW s \in Scope PROVE UsersOK([f EXCEPT ![e].scope = s])
  BY <1>0 DEF UsersOK, Record
<1>4. ASSUME NEW p \in Password PROVE UsersOK([f EXCEPT ![e].pw = p])
  BY <1>0 DEF UsersOK, Record
<1>5. ASSUME NEW b \in BOOLEAN PROVE UsersOK([f EXCEPT ![e].disabled = b])
  BY <1>0 DEF UsersOK, Record
<1>6. UsersOK([f EXCEPT ![e].totp = FALSE])
  BY <1>0 DEF UsersOK, Record
<1> QED BY <1>1, <1>2, <1>3, <1>4, <1>5, <1>6

LEMMA SessionsChange ==
  ASSUME NEW f, SessionsOK(f)
  PROVE  /\ \A k : \A e \in User, x \in Nat : SessionsOK(Put(f, k, [email |-> e, exp |-> x]))
         /\ \A S : SessionsOK(Drop(f, S))
         /\ \A k : \A x \in Nat : SessionsOK([f EXCEPT ![k].exp = x])
<1>1. ASSUME NEW k, NEW e \in User, NEW x \in Nat
      PROVE  SessionsOK(Put(f, k, [email |-> e, exp |-> x]))
  BY DEF SessionsOK, Dated, Put
<1>2. ASSUME NEW S PROVE SessionsOK(Drop(f, S))
  BY DEF SessionsOK, Drop
<1>3. ASSUME NEW k, NEW x \in Nat PROVE SessionsOK([f EXCEPT ![k].exp = x])
  BY DEF SessionsOK, Dated
<1> QED BY <1>1, <1>2, <1>3

LEMMA InvitesChange ==
  ASSUME NEW f, InvitesOK(f)
  PROVE  /\ \A k : \A rec \in Invite : InvitesOK(Put(f, k, rec))
         /\ \A S : InvitesOK(Drop(f, S))
         /\ \A k : InvitesOK([f EXCEPT ![k].used = TRUE])
<1>1. ASSUME NEW k, NEW rec \in Invite PROVE InvitesOK(Put(f, k, rec))
  BY DEF InvitesOK, Put
<1>2. ASSUME NEW S PROVE InvitesOK(Drop(f, S))
  BY DEF InvitesOK, Drop
<1>3. ASSUME NEW k PROVE InvitesOK([f EXCEPT ![k].used = TRUE])
  BY DEF InvitesOK, Invite
<1> QED BY <1>1, <1>2, <1>3

\* The invariant of the stores, once their records are known to be right.
LEMMA StoresKeep ==
  ASSUME StoresInv, nextId' = nextId, now' = now \/ now' = now + 1,
         UsersOK(users'), SessionsOK(sessions'), InvitesOK(invites'), tokens' \subseteq User,
         SessionsOK(ceremonies'), DOMAIN sessions' \subseteq DOMAIN sessions,
         DOMAIN invites' \subseteq DOMAIN invites, DOMAIN ceremonies' \subseteq DOMAIN ceremonies
  PROVE  StoresInv'
<1>1. now' \in Nat
  BY DEF StoresInv
<1> QED BY <1>1 DEF StoresInv

\* A fresh number, for a session, an invitation or a ceremony.
LEMMA StoresGrow ==
  ASSUME StoresInv, NEW n, Fresh(n), now' = now,
         UsersOK(users'), SessionsOK(sessions'), InvitesOK(invites'), tokens' \subseteq User,
         SessionsOK(ceremonies'), DOMAIN sessions' \subseteq DOMAIN sessions \cup {n},
         DOMAIN invites' \subseteq DOMAIN invites \cup {n},
         DOMAIN ceremonies' \subseteq DOMAIN ceremonies \cup {n}
  PROVE  StoresInv'
<1>1. nextId \in Nat /\ nextId > 2 /\ n = nextId /\ nextId' = nextId + 1
  BY DEF StoresInv, Fresh
<1>2. \A k \in 1..(nextId - 1) : k \in 1..(nextId' - 1)
  BY <1>1
<1>3. n \in 1..(nextId' - 1)
  BY <1>1
<1>4. DOMAIN sessions' \cup DOMAIN invites' \cup DOMAIN ceremonies' \subseteq 1..(nextId' - 1)
  BY <1>2, <1>3 DEF StoresInv
<1> QED BY <1>1, <1>4 DEF StoresInv

----------------------------------------------------------------------------
(* What the stores and the handlers hold *)

LEMMA RequestGoes ==
  ASSUME HandlersInv, NEW r \in Req, NEW rec \in Handling, rq' = [rq EXCEPT ![r] = rec],
         conns' = conns
  PROVE  HandlersInv'
BY DEF HandlersInv

LEMMA ConnectionGoes ==
  ASSUME HandlersInv, NEW c \in Conn, NEW rec \in Connected,
         conns' = [conns EXCEPT ![c] = rec], rq' = rq
  PROVE  HandlersInv'
BY DEF HandlersInv

LEMMA HandlersRest ==
  ASSUME HandlersInv, UNCHANGED <<rq, conns>>
  PROVE  HandlersInv'
BY DEF HandlersInv

\* The fields of what a handler holds.
LEMMA HandlerFields ==
  ASSUME HandlersInv, NEW r \in Req
  PROVE  /\ rq[r].pc \in {"user", "touch", "regBegin", "regFinish", "serve", "first",
                          "session", "put", "assert"} => rq[r].email \in User
         /\ rq[r].pc \in {"touch", "regBegin", "regFinish", "serve", "first", "put"} =>
              rq[r].rec \in Record
         /\ rq[r].pc \in {"user", "touch", "regBegin", "regFinish", "serve"} =>
              rq[r].sess \in Nat /\ rq[r].goal \in Purpose
         /\ rq[r].pc = "put" => rq[r].then \in {"session", "off"}
         /\ rq[r].pc = "assert" => rq[r].ceremony \in Nat
<1>1. rq[r] \in Handling
  BY DEF HandlersInv
<1> HIDE DEF HandlersInv
<1> QED BY <1>1 DEF Handling, Off

LEMMA ConnectionFields ==
  ASSUME HandlersInv, NEW c \in Conn
  PROVE  /\ conns[c].pc \in {"idle", "put", "revoke"} =>
              conns[c].email \in User \cup {Nil} /\ conns[c].scope \in Scope
         /\ conns[c].pc \in {"put", "revoke"} => conns[c].target \in User
         /\ conns[c].pc = "put" => conns[c].rec \in Record
<1>1. conns[c] \in Connected
  BY DEF HandlersInv
<1> QED BY <1>1 DEF Connected, Off

\* Logging in and registering: the requests.
LEMMA LoginTypes ==
  ASSUME StoresInv, HandlersInv, NEW r \in Req,
         \/ \E e \in User, p \in Password, b \in BOOLEAN :
              handleRegister(r, e, p, b) \/ handleLogin(r, e, p, b)
         \/ CreateFirstAdmin(r)
         \/ startSession(r)
         \/ PutUser(r)
  PROVE  StoresInv' /\ HandlersInv'
<1>0. UsersOK(users) /\ SessionsOK(sessions) /\ InvitesOK(invites) /\ tokens \subseteq User
      /\ SessionsOK(ceremonies) /\ now \in Nat
  BY DEF StoresInv
<1>1. ASSUME NEW e \in User, NEW p \in Password, NEW b \in BOOLEAN, handleRegister(r, e, p, b)
      PROVE  StoresInv' /\ HandlersInv'
  <2>1. [pc |-> "first", email |-> e, rec |-> Account(AdminScope, p, b)] \in Handling
    BY AccountsAssumption DEF Handling, Account, Record
  <2>2. HandlersInv'
    BY <1>1, <2>1, RequestGoes DEF handleRegister, Goto
  <2>3. StoresInv'
    BY <1>0, <1>1, StoresKeep DEF handleRegister, stores, clock
  <2> QED BY <2>2, <2>3
<1>2. ASSUME NEW e \in User, NEW p \in Password, NEW b \in BOOLEAN, handleLogin(r, e, p, b)
      PROVE  StoresInv' /\ HandlersInv'
  <2>1. [pc |-> "session", email |-> e] \in Handling
    BY DEF Handling
  <2>2. HandlersInv'
    BY <1>2, <2>1, RequestGoes DEF handleLogin, Goto
  <2>3. StoresInv'
    BY <1>0, <1>2, StoresKeep DEF handleLogin, stores, clock
  <2> QED BY <2>2, <2>3
<1>3. CASE CreateFirstAdmin(r)
  <2>1. rq[r].email \in User /\ rq[r].rec \in Record
    BY <1>3, HandlerFields DEF CreateFirstAdmin
  <2>2. [pc |-> "session", email |-> rq[r].email] \in Handling /\ Off \in Handling
    BY <2>1 DEF Handling
  <2>3. HandlersInv'
    BY <1>3, <2>2, RequestGoes DEF CreateFirstAdmin, Goto, Done
  <2>4. UsersOK(Put(users, rq[r].email, rq[r].rec))
    BY <1>0, <2>1, UsersChange
  <2>5. StoresInv'
    BY <1>0, <1>3, <2>4, StoresKeep DEF CreateFirstAdmin, clock
  <2> QED BY <2>3, <2>5
<1>4. CASE startSession(r)
  <2>1. rq[r].email \in User
    BY <1>4, HandlerFields DEF startSession
  <2>2. Off \in Handling
    BY DEF Handling
  <2>3. HandlersInv'
    BY <1>4, <2>2, RequestGoes DEF startSession, Done, Goto
  <2>4. PICK s \in Id : /\ Fresh(s)
                        /\ sessions' = Put(sessions, s, [email |-> rq[r].email,
                                                         exp |-> now + SessionTTL])
    BY <1>4 DEF startSession, CreateSession
  <2>5. now + SessionTTL \in Nat
    BY <1>0, AccountsAssumption
  <2>6. SessionsOK(sessions') /\ DOMAIN sessions' = DOMAIN sessions \cup {s}
    BY <1>0, <2>1, <2>4, <2>5, SessionsChange, Puts
  <2>7. StoresInv'
    BY <1>0, <1>4, <2>4, <2>6, StoresGrow DEF startSession, clock
  <2> QED BY <2>3, <2>7
<1>5. CASE PutUser(r)
  <2>1. rq[r].email \in User /\ rq[r].rec \in Record
    BY <1>5, HandlerFields DEF PutUser
  <2>2. [pc |-> "session", email |-> rq[r].email] \in Handling /\ Off \in Handling
    BY <2>1 DEF Handling
  <2>3. HandlersInv'
    BY <1>5, <2>2, RequestGoes DEF PutUser, Goto
  <2>4. UsersOK(Put(users, rq[r].email, rq[r].rec))
    BY <1>0, <2>1, UsersChange
  <2>5. StoresInv'
    BY <1>0, <1>5, <2>4, StoresKeep DEF PutUser, clock
  <2> QED BY <2>3, <2>5
<1> QED BY <1>1, <1>2, <1>3, <1>4, <1>5

\* A request that shows a session.
LEMMA SessionTypes ==
  ASSUME StoresInv, HandlersInv, NEW r \in Req,
         \/ \E s \in DOMAIN sessions : \/ \E g \in Goal : LookupSession(r, s, g)
                                        \/ handleLogout(r, s)
         \/ currentUser(r)
         \/ TouchSession(r)
         \/ Serve(r)
         \/ \E c \in Conn : OpenConn(r, c)
  PROVE  StoresInv' /\ HandlersInv'
<1>0. UsersOK(users) /\ SessionsOK(sessions) /\ InvitesOK(invites) /\ tokens \subseteq User
      /\ SessionsOK(ceremonies) /\ now \in Nat /\ Off \in Handling
  BY DEF StoresInv, Handling
<1>1. ASSUME NEW s \in DOMAIN sessions, NEW g \in Goal, LookupSession(r, s, g)
      PROVE  StoresInv' /\ HandlersInv'
  <2>1. \A k \in DOMAIN ceremonies : k \in Nat
    BY DEF StoresInv
  <2>2. g \in Purpose
    BY <2>1 DEF Goal, Purpose
  <2>3. sessions[s].email \in User /\ s \in Nat
    BY DEF StoresInv, SessionsOK, Dated
  <2>4. [pc |-> "user", sess |-> s, email |-> sessions[s].email, goal |-> g] \in Handling
    BY <2>2, <2>3 DEF Handling
  <2>5. HandlersInv'
    BY <1>1, <2>4, RequestGoes, HandlersRest DEF LookupSession, Goto
  <2>6. SessionsOK(sessions') /\ DOMAIN sessions' \subseteq DOMAIN sessions
    <3>1. sessions' = Drop(sessions, {s}) \/ sessions' = sessions
      BY <1>1 DEF LookupSession
    <3>2. SessionsOK(Drop(sessions, {s})) /\ DOMAIN Drop(sessions, {s}) \subseteq DOMAIN sessions
      BY <1>0, SessionsChange, Drops
    <3> QED BY <1>0, <3>1, <3>2
  <2>7. StoresInv'
    BY <1>0, <1>1, <2>6, StoresKeep DEF LookupSession, clock
  <2> QED BY <2>5, <2>7
<1>2. ASSUME NEW s \in DOMAIN sessions, handleLogout(r, s) PROVE StoresInv' /\ HandlersInv'
  <2>1. SessionsOK(sessions') /\ DOMAIN sessions' \subseteq DOMAIN sessions
    BY <1>0, <1>2, SessionsChange, Drops DEF handleLogout, DeleteSession
  <2>2. StoresInv'
    BY <1>0, <1>2, <2>1, StoresKeep DEF handleLogout, clock
  <2> QED BY <1>2, <2>2, HandlersRest DEF handleLogout
<1>3. CASE currentUser(r)
  <2> DEFINE e == rq[r].email
             rec == [pc |-> rq[r].goal.pc, sess |-> rq[r].sess, email |-> e,
                     goal |-> rq[r].goal, rec |-> users[e]]
  <2>1. e \in User /\ rq[r].sess \in Nat /\ rq[r].goal \in Purpose
    BY <1>3, HandlerFields DEF currentUser
  <2>2. GetUser(e) => rec \in Handling
    BY <1>0, <2>1 DEF Handling, Purpose, GetUser, UsersOK
  <2>3. (Goto(r, rec) /\ GetUser(e)) \/ Goto(r, Off)
    BY <1>3 DEF currentUser, Done
  <2> HIDE DEF rec
  <2>4. HandlersInv'
    BY <1>0, <1>3, <2>2, <2>3, RequestGoes DEF currentUser, Goto
  <2>5. StoresInv'
    BY <1>0, <1>3, StoresKeep DEF currentUser, stores, clock
  <2> QED BY <2>4, <2>5
<1>4. CASE TouchSession(r)
  <2>1. [rq[r] EXCEPT !.pc = "serve"] \in Handling
    <3>1. rq[r] \in Handling /\ rq[r].pc = "touch"
      BY <1>4 DEF TouchSession, HandlersInv
    <3> QED BY <3>1 DEF Handling, Off
  <2>2. HandlersInv'
    BY <1>4, <2>1, RequestGoes DEF TouchSession, Goto
  <2>3. now + SessionTTL \in Nat
    BY <1>0, AccountsAssumption
  <2>4. SessionsOK(sessions') /\ DOMAIN sessions' \subseteq DOMAIN sessions
    BY <1>0, <1>4, <2>3, SessionsChange DEF TouchSession
  <2>5. StoresInv'
    BY <1>0, <1>4, <2>4, StoresKeep DEF TouchSession, clock
  <2> QED BY <2>2, <2>5
<1>5. CASE Serve(r)
  <2>1. HandlersInv'
    BY <1>0, <1>5, RequestGoes DEF Serve, Done, Goto
  <2>2. StoresInv'
    BY <1>0, <1>5, StoresKeep DEF Serve, stores, clock
  <2> QED BY <2>1, <2>2
<1>6. ASSUME NEW c \in Conn, OpenConn(r, c) PROVE StoresInv' /\ HandlersInv'
  <2>1. rq[r].email \in User /\ rq[r].rec \in Record
    BY <1>6, HandlerFields DEF OpenConn
  <2>2. [pc |-> "idle", email |-> rq[r].email, scope |-> rq[r].rec.scope] \in Connected
    BY <2>1 DEF Connected, Record
  <2>3. HandlersInv'
    BY <1>0, <1>6, <2>2 DEF OpenConn, HandlersInv, Done, Goto
  <2>4. StoresInv'
    BY <1>0, <1>6, StoresKeep DEF OpenConn, stores, clock
  <2> QED BY <2>3, <2>4
<1> QED BY <1>1, <1>2, <1>3, <1>4, <1>5, <1>6

LEMMA CeremonyPut ==
  ASSUME StoresInv, NEW n, NEW e \in User, put(n, e)
  PROVE  /\ SessionsOK(ceremonies') /\ DOMAIN ceremonies' \subseteq DOMAIN ceremonies \cup {n}
<1> DEFINE old == {k \in DOMAIN ceremonies : now > ceremonies[k].exp}
<1>1. SessionsOK(Drop(ceremonies, old)) /\ DOMAIN Drop(ceremonies, old) \subseteq DOMAIN ceremonies
  BY SessionsChange, Drops DEF StoresInv
<1>2. now + CeremonyTTL \in Nat
  BY AccountsAssumption DEF StoresInv
<1>3. ceremonies' = Put(Drop(ceremonies, old), n, [email |-> e, exp |-> now + CeremonyTTL])
  BY DEF put
<1> DEFINE kept == Drop(ceremonies, old)
           new == [email |-> e, exp |-> now + CeremonyTTL]
<1> HIDE DEF old, kept
<1>4. SessionsOK(Put(kept, n, new))
  BY <1>1, <1>2, SessionsChange DEF kept
<1>5. DOMAIN Put(kept, n, new) = DOMAIN kept \cup {n}
  BY Puts
<1> QED BY <1>1, <1>3, <1>4, <1>5 DEF kept

\* Invitations and passkeys.
LEMMA PasskeyTypes ==
  ASSUME StoresInv, HandlersInv, NEW r \in Req,
         \/ \E i \in DOMAIN invites, p \in Password, b, named \in BOOLEAN :
              handleInviteRedeem(r, i, p, b, named)
         \/ handleWebAuthnRegisterBegin(r)
         \/ \E ok \in BOOLEAN : handleWebAuthnRegisterFinish(r, ok)
         \/ \E e \in User : handleWebAuthnLoginBegin(r, e)
         \/ \E n \in DOMAIN ceremonies : handleWebAuthnLoginFinish(r, n)
         \/ \E ok \in BOOLEAN : FinishLogin(r, ok)
  PROVE  StoresInv' /\ HandlersInv'
<1>0. UsersOK(users) /\ SessionsOK(sessions) /\ InvitesOK(invites) /\ tokens \subseteq User
      /\ SessionsOK(ceremonies) /\ now \in Nat /\ Off \in Handling
  BY DEF StoresInv, Handling
<1>1. ASSUME NEW i \in DOMAIN invites, NEW p \in Password, NEW b \in BOOLEAN,
             NEW named \in BOOLEAN, handleInviteRedeem(r, i, p, b, named)
      PROVE  StoresInv' /\ HandlersInv'
  <2> DEFINE e == invites[i].email
             rec == Account(invites[i].scope, p, b)
  <2>1. e \in User /\ rec \in Record
    BY <1>0 DEF InvitesOK, Invite, Account, Record
  <2>2. RedeemInvite(i, rec)
    BY <1>1 DEF handleInviteRedeem
  <2>3. \/ Goto(r, [pc |-> "session", email |-> e])
        \/ Goto(r, [pc |-> "put", email |-> e, rec |-> rec, then |-> "session"])
    BY <1>1 DEF handleInviteRedeem
  <2> HIDE DEF rec
  <2>4. UsersOK(users')
    BY <1>0, <2>1, <2>2, UsersChange DEF RedeemInvite
  <2>5. InvitesOK(invites') /\ DOMAIN invites' = DOMAIN invites
    BY <1>0, <2>2, InvitesChange DEF RedeemInvite
  <2>6. StoresInv'
    BY <1>0, <1>1, <2>4, <2>5, StoresKeep DEF handleInviteRedeem, clock
  <2> HIDE DEF e
  <2>7. /\ [pc |-> "session", email |-> e] \in Handling
        /\ [pc |-> "put", email |-> e, rec |-> rec, then |-> "session"] \in Handling
    BY <2>1 DEF Handling
  <2>8. HandlersInv'
    BY <1>1, <2>3, <2>7, RequestGoes DEF handleInviteRedeem, Goto
  <2> QED BY <2>6, <2>8
<1>2. CASE handleWebAuthnRegisterBegin(r)
  <2>1. PICK n \in Id : Fresh(n) /\ put(n, rq[r].email)
    BY <1>2 DEF handleWebAuthnRegisterBegin, storeCeremony
  <2>2. rq[r].email \in User
    BY <1>2, HandlerFields DEF handleWebAuthnRegisterBegin
  <2>3. SessionsOK(ceremonies') /\ DOMAIN ceremonies' \subseteq DOMAIN ceremonies \cup {n}
    BY <2>1, <2>2, CeremonyPut
  <2>4. StoresInv'
    BY <1>0, <1>2, <2>1, <2>3, StoresGrow DEF handleWebAuthnRegisterBegin, stores, clock
  <2>5. HandlersInv'
    BY <1>0, <1>2, RequestGoes DEF handleWebAuthnRegisterBegin, Done, Goto
  <2> QED BY <2>4, <2>5
<1>3. ASSUME NEW ok \in BOOLEAN, handleWebAuthnRegisterFinish(r, ok)
      PROVE  StoresInv' /\ HandlersInv'
  <2> DEFINE rec == [pc |-> "put", email |-> rq[r].email, then |-> "off",
                     rec |-> [rq[r].rec EXCEPT !.key = TRUE]]
  <2>1. rq[r].email \in User /\ rq[r].rec \in Record
    BY <1>3, HandlerFields DEF handleWebAuthnRegisterFinish
  <2>2. rec \in Handling
    BY <2>1 DEF Handling, Record
  <2>3. Goto(r, rec) \/ Goto(r, Off)
    BY <1>3 DEF handleWebAuthnRegisterFinish, Done
  <2> HIDE DEF rec
  <2>4. HandlersInv'
    BY <1>0, <1>3, <2>2, <2>3, RequestGoes DEF handleWebAuthnRegisterFinish, Goto
  <2>5. ceremonies' = ceremonies \/ ceremonies' = Drop(ceremonies, {rq[r].goal.ceremony})
    BY <1>3 DEF handleWebAuthnRegisterFinish, take
  <2>6. SessionsOK(ceremonies') /\ DOMAIN ceremonies' \subseteq DOMAIN ceremonies
    <3>1. \A S : SessionsOK(Drop(ceremonies, S))
      BY <1>0, SessionsChange
    <3>2. \A S : DOMAIN Drop(ceremonies, S) \subseteq DOMAIN ceremonies
      BY Drops
    <3> QED BY <1>0, <2>5, <3>1, <3>2
  <2>7. StoresInv'
    BY <1>0, <1>3, <2>6, StoresKeep DEF handleWebAuthnRegisterFinish, stores, clock
  <2> QED BY <2>4, <2>7
<1>4. ASSUME NEW e \in User, handleWebAuthnLoginBegin(r, e) PROVE StoresInv' /\ HandlersInv'
  <2>1. PICK n \in Id : Fresh(n) /\ put(n, e)
    BY <1>4 DEF handleWebAuthnLoginBegin, storeCeremony
  <2>2. SessionsOK(ceremonies') /\ DOMAIN ceremonies' \subseteq DOMAIN ceremonies \cup {n}
    BY <2>1, CeremonyPut
  <2>3. StoresInv'
    BY <1>0, <1>4, <2>1, <2>2, StoresGrow DEF handleWebAuthnLoginBegin, stores, clock
  <2> QED BY <1>4, <2>3, HandlersRest DEF handleWebAuthnLoginBegin
<1>5. ASSUME NEW n \in DOMAIN ceremonies, handleWebAuthnLoginFinish(r, n)
      PROVE  StoresInv' /\ HandlersInv'
  <2>1. ceremonies[n].email \in User /\ n \in Nat
    BY DEF StoresInv, SessionsOK, Dated
  <2>2. [pc |-> "assert", email |-> ceremonies[n].email, ceremony |-> n] \in Handling
    BY <2>1 DEF Handling
  <2>3. HandlersInv'
    BY <1>5, <2>2, RequestGoes, HandlersRest DEF handleWebAuthnLoginFinish, Goto
  <2>4. ceremonies' = Drop(ceremonies, {n})
    BY <1>5 DEF handleWebAuthnLoginFinish, take
  <2>5. SessionsOK(ceremonies') /\ DOMAIN ceremonies' \subseteq DOMAIN ceremonies
    BY <1>0, <2>4, SessionsChange, Drops
  <2>6. StoresInv'
    BY <1>0, <1>5, <2>5, StoresKeep DEF handleWebAuthnLoginFinish, stores, clock
  <2> QED BY <2>3, <2>6
<1>6. ASSUME NEW ok \in BOOLEAN, FinishLogin(r, ok) PROVE StoresInv' /\ HandlersInv'
  <2> DEFINE e == rq[r].email
             rec == [pc |-> "put", email |-> e, rec |-> users[e], then |-> "session"]
  <2>1. GetUser(e) => rec \in Handling
    BY <1>0 DEF Handling, GetUser, UsersOK
  <2>2. (Goto(r, rec) /\ GetUser(e)) \/ Goto(r, Off)
    BY <1>6 DEF FinishLogin, Done
  <2> HIDE DEF rec
  <2>3. HandlersInv'
    BY <1>0, <1>6, <2>1, <2>2, RequestGoes DEF FinishLogin, Goto
  <2>4. StoresInv'
    BY <1>0, <1>6, StoresKeep DEF FinishLogin, stores, clock
  <2> QED BY <2>3, <2>4
<1> QED BY <1>1, <1>2, <1>3, <1>4, <1>5, <1>6

LEMMA RequestTypes ==
  ASSUME StoresInv, HandlersInv, NEW r \in Req, HTTP(r)
  PROVE  StoresInv' /\ HandlersInv'
BY LoginTypes, SessionTypes, PasskeyTypes DEF HTTP

LEMMA ConnectionHolds ==
  ASSUME HandlersInv, NEW c \in Conn, conns[c].pc \in {"idle", "put", "revoke"}, rq' = rq
  PROVE  /\ \A e \in User, rec \in Record : Busy(c, "put", e, rec) => HandlersInv'
         /\ \A e \in User : Busy(c, "revoke", e, Nil) => HandlersInv'
         /\ Free(c) => HandlersInv'
<1> DEFINE m == conns[c].email
           s == conns[c].scope
<1>0. m \in User \cup {Nil} /\ s \in Scope
  BY ConnectionFields
<1>1. ASSUME NEW e \in User, NEW rec \in Record, Busy(c, "put", e, rec) PROVE HandlersInv'
  <2>1. [pc |-> "put", email |-> m, scope |-> s, target |-> e, rec |-> rec] \in Connected
    BY <1>0 DEF Connected
  <2> QED BY <1>1, <2>1 DEF Busy, HandlersInv
<1>2. ASSUME NEW e \in User, Busy(c, "revoke", e, Nil) PROVE HandlersInv'
  <2>1. [pc |-> "revoke", email |-> m, scope |-> s, target |-> e, rec |-> Nil] \in Connected
    BY <1>0 DEF Connected
  <2> QED BY <1>2, <2>1 DEF Busy, HandlersInv
<1>3. ASSUME Free(c) PROVE HandlersInv'
  <2>1. [pc |-> "idle", email |-> m, scope |-> s] \in Connected
    BY <1>0 DEF Connected
  <2> QED BY <1>3, <2>1 DEF Free, HandlersInv
<1> QED BY <1>1, <1>2, <1>3

\* The sessions of a user are dropped.
LEMMA SessionsDropped ==
  ASSUME StoresInv, NEW e, dropSessions(e)
  PROVE  SessionsOK(sessions') /\ DOMAIN sessions' \subseteq DOMAIN sessions
<1>1. \A S : SessionsOK(Drop(sessions, S))
  BY SessionsChange DEF StoresInv
<1>2. \A S : DOMAIN Drop(sessions, S) \subseteq DOMAIN sessions
  BY DEF Drop
<1> QED BY <1>1, <1>2 DEF dropSessions

\* A connection opens and closes, and its user edits the own account.
LEMMA AccountTypes ==
  ASSUME StoresInv, HandlersInv, NEW c \in Conn,
         \/ OpenAnonymous(c) \/ selfRecord(c) \/ AccountPut(c)
         \/ revokeOAuthForUser(c) \/ Close(c)
  PROVE  StoresInv' /\ HandlersInv'
<1>0. UsersOK(users) /\ SessionsOK(sessions) /\ InvitesOK(invites) /\ tokens \subseteq User
      /\ SessionsOK(ceremonies)
  BY DEF StoresInv
<1>1. CASE OpenAnonymous(c)
  <2>1. [pc |-> "idle", email |-> Nil, scope |-> AdminScope] \in Connected
    BY AccountsAssumption DEF Connected
  <2>2. HandlersInv'
    BY <1>1, <2>1, ConnectionGoes DEF OpenAnonymous
  <2>3. StoresInv'
    BY <1>0, <1>1, StoresKeep DEF OpenAnonymous, stores, clock
  <2> QED BY <2>2, <2>3
<1>2. CASE selfRecord(c)
  <2> DEFINE e == conns[c].email
  <2>1. e \in User /\ users[e] \in Record
    BY <1>0, <1>2 DEF selfRecord, GetUser, UsersOK
  <2>2. AccountEdit(users[e]) \subseteq Record
    BY <2>1 DEF AccountEdit, handleAccountSetName, handleAccountSetPassword,
                handleAccountTOTPVerify, handleAccountTOTPDisable, Record
  <2>3. PICK u \in AccountEdit(users[e]) : Busy(c, "put", e, u)
    BY <1>2 DEF selfRecord
  <2>4. HandlersInv'
    BY <1>2, <2>1, <2>2, <2>3, ConnectionHolds DEF selfRecord, Gate
  <2>5. StoresInv'
    BY <1>0, <1>2, StoresKeep DEF selfRecord, stores, clock
  <2> QED BY <2>4, <2>5
<1>3. CASE AccountPut(c)
  <2>1. conns[c].target \in User /\ conns[c].rec \in Record
    BY <1>3, ConnectionFields DEF AccountPut
  <2>2. UsersOK(users')
    BY <1>0, <1>3, <2>1, UsersChange DEF AccountPut
  <2>3. StoresInv'
    BY <1>0, <1>3, <2>2, StoresKeep DEF AccountPut, clock
  <2> QED BY <1>3, <2>3, ConnectionHolds DEF AccountPut
<1>4. CASE revokeOAuthForUser(c)
  <2>1. StoresInv'
    BY <1>0, <1>4, StoresKeep DEF revokeOAuthForUser, clock
  <2> QED BY <1>4, <2>1, ConnectionHolds DEF revokeOAuthForUser
<1>5. CASE Close(c)
  <2>1. Off \in Connected
    BY DEF Connected
  <2>2. StoresInv'
    BY <1>0, <1>5, StoresKeep DEF Close, stores, clock
  <2> QED BY <1>5, <2>1, <2>2, ConnectionGoes DEF Close
<1> QED BY <1>1, <1>2, <1>3, <1>4, <1>5

\* What an administrator does.
LEMMA AdminTypes ==
  ASSUME StoresInv, HandlersInv, NEW c \in Conn,
         \/ \E e \in User :
              \/ \E s \in Scope : handleAdminSetUserScope(c, e, s)
                                   \/ handleAdminCreateInvite(c, e, s)
              \/ \E b \in BOOLEAN : handleAdminSetUserEnabled(c, e, b)
              \/ \E p \in Password : handleAdminSetUserPassword(c, e, p)
              \/ handleAdminRemoveUser(c, e)
         \/ \E i \in Id : handleAdminRevokeInvite(c, i)
  PROVE  StoresInv' /\ HandlersInv'
<1>0. UsersOK(users) /\ SessionsOK(sessions) /\ InvitesOK(invites) /\ tokens \subseteq User
      /\ SessionsOK(ceremonies) /\ now \in Nat
  BY DEF StoresInv
<1>1. ASSUME NEW e \in User, NEW s \in Scope, handleAdminSetUserScope(c, e, s)
      PROVE  StoresInv' /\ HandlersInv'
  <2>1. UsersOK(users')
    BY <1>0, <1>1, UsersChange DEF handleAdminSetUserScope, UpdateUserScope
  <2>2. StoresInv'
    BY <1>0, <1>1, <2>1, StoresKeep DEF handleAdminSetUserScope, clock
  <2> QED BY <1>1, <2>2, HandlersRest DEF handleAdminSetUserScope
<1>2. ASSUME NEW e \in User, NEW s \in Scope, handleAdminCreateInvite(c, e, s)
      PROVE  StoresInv' /\ HandlersInv'
  <2>1. PICK i \in Id : Fresh(i) /\ invites' = Put(invites, i, InviteRecord(e, s))
    BY <1>2 DEF handleAdminCreateInvite, CreateInvite
  <2>2. InviteRecord(e, s) \in Invite
    <3>1. now + InviteTTL \in Nat
      BY <1>0, AccountsAssumption
    <3> QED BY <3>1 DEF InviteRecord, Invite
  <2>3. InvitesOK(Put(invites, i, InviteRecord(e, s)))
    BY <1>0, <2>2, InvitesChange
  <2>4. DOMAIN invites' = DOMAIN invites \cup {i}
    BY <2>1, Puts
  <2>5. StoresInv'
    BY <1>0, <1>2, <2>1, <2>3, <2>4, StoresGrow DEF handleAdminCreateInvite, clock
  <2> QED BY <1>2, <2>5, HandlersRest DEF handleAdminCreateInvite
<1>3. ASSUME NEW e \in User, NEW b \in BOOLEAN, handleAdminSetUserEnabled(c, e, b)
      PROVE  StoresInv' /\ HandlersInv'
  <2>1. UsersOK(users')
    BY <1>0, <1>3, UsersChange DEF handleAdminSetUserEnabled, SetUserDisabled
  <2>2. dropSessions(e) \/ sessions' = sessions
    BY <1>3 DEF handleAdminSetUserEnabled, SetUserDisabled
  <2>3. SessionsOK(sessions') /\ DOMAIN sessions' \subseteq DOMAIN sessions
    BY <1>0, <2>2, SessionsDropped
  <2>4. StoresInv'
    BY <1>0, <1>3, <2>1, <2>3, StoresKeep DEF handleAdminSetUserEnabled, clock
  <2>5. HandlersInv'
    BY <1>3, ConnectionHolds, HandlersRest DEF handleAdminSetUserEnabled, Gate
  <2> QED BY <2>4, <2>5
<1>4. ASSUME NEW e \in User, NEW p \in Password, handleAdminSetUserPassword(c, e, p)
      PROVE  StoresInv' /\ HandlersInv'
  <2>1. UsersOK(users')
    BY <1>0, <1>4, UsersChange DEF handleAdminSetUserPassword, SetUserPassword
  <2>2. SessionsOK(sessions') /\ DOMAIN sessions' \subseteq DOMAIN sessions
    BY <1>4, SessionsDropped DEF handleAdminSetUserPassword, SetUserPassword
  <2>3. StoresInv'
    BY <1>0, <1>4, <2>1, <2>2, StoresKeep DEF handleAdminSetUserPassword, clock
  <2>4. HandlersInv'
    BY <1>4, ConnectionHolds DEF handleAdminSetUserPassword, Gate
  <2> QED BY <2>3, <2>4
<1>5. ASSUME NEW e \in User, handleAdminRemoveUser(c, e) PROVE StoresInv' /\ HandlersInv'
  <2>1. UsersOK(users')
    BY <1>0, <1>5, UsersChange DEF handleAdminRemoveUser, RemoveUser
  <2>2. SessionsOK(sessions') /\ DOMAIN sessions' \subseteq DOMAIN sessions
    BY <1>5, SessionsDropped DEF handleAdminRemoveUser, RemoveUser
  <2>3. StoresInv'
    BY <1>0, <1>5, <2>1, <2>2, StoresKeep DEF handleAdminRemoveUser, clock
  <2>4. HandlersInv'
    BY <1>5, ConnectionHolds DEF handleAdminRemoveUser, Gate
  <2> QED BY <2>3, <2>4
<1>6. ASSUME NEW i \in Id, handleAdminRevokeInvite(c, i) PROVE StoresInv' /\ HandlersInv'
  <2>0. InvitesOK(Drop(invites, {i}))
    BY <1>0, InvitesChange
  <2>1. DOMAIN Drop(invites, {i}) \subseteq DOMAIN invites
    BY DEF Drop
  <2>2. StoresInv'
    BY <1>0, <1>6, <2>0, <2>1, StoresKeep DEF handleAdminRevokeInvite, RevokeInvite, clock
  <2> QED BY <1>6, <2>2, HandlersRest DEF handleAdminRevokeInvite
<1> QED BY <1>1, <1>2, <1>3, <1>4, <1>5, <1>6

LEMMA SocketTypes ==
  ASSUME StoresInv, HandlersInv, NEW c \in Conn, Socket(c)
  PROVE  StoresInv' /\ HandlersInv'
BY AccountTypes, AdminTypes DEF Socket

\* The steps of the server as a whole, and of the operator.
Life ==
  \/ RewriteScopes \/ Stop \/ Start \/ Tick
  \/ \E e \in User : TokenIssued(e) \/ \E p \in Password : runUserReset(e, p)

LEMMA LifeTypes ==
  ASSUME StoresInv, HandlersInv, Life
  PROVE  StoresInv' /\ HandlersInv'
<1>0. UsersOK(users) /\ SessionsOK(sessions) /\ InvitesOK(invites) /\ tokens \subseteq User
      /\ SessionsOK(ceremonies)
  BY DEF StoresInv
<1>1. CASE RewriteScopes
  <2>1. UsersOK(users')
    BY <1>0, <1>1, AccountsAssumption DEF RewriteScopes, UsersOK, Record
  <2>2. InvitesOK(invites')
    BY <1>0, <1>1, AccountsAssumption DEF RewriteScopes, InvitesOK, Invite
  <2>3. DOMAIN invites' = DOMAIN invites
    BY <1>1 DEF RewriteScopes
  <2>4. StoresInv'
    BY <1>0, <1>1, <2>1, <2>2, <2>3, StoresKeep DEF RewriteScopes, clock
  <2> QED BY <1>1, <2>4, HandlersRest DEF RewriteScopes
<1>2. CASE Stop
  <2>1. HandlersInv'
    BY <1>2 DEF Stop, HandlersInv, Handling, Connected
  <2>2. SessionsOK(ceremonies') /\ DOMAIN ceremonies' = {}
    BY <1>2 DEF Stop, SessionsOK, EmptyMap
  <2>3. StoresInv'
    BY <1>0, <1>2, <2>2, StoresKeep DEF Stop, stores
  <2> QED BY <2>1, <2>3
<1>3. CASE Start
  BY <1>0, <1>3, StoresKeep, HandlersRest DEF Start, stores
<1>4. CASE Tick
  BY <1>0, <1>4, StoresKeep, HandlersRest DEF Tick, stores
<1>5. ASSUME NEW e \in User, TokenIssued(e) PROVE StoresInv' /\ HandlersInv'
  <2>1. tokens' \subseteq User
    BY <1>0, <1>5 DEF TokenIssued
  <2> QED BY <1>0, <1>5, <2>1, StoresKeep, HandlersRest DEF TokenIssued, clock
<1>6. ASSUME NEW e \in User, NEW p \in Password, runUserReset(e, p)
      PROVE  StoresInv' /\ HandlersInv'
  <2>1. dropSessions(e) /\ UsersOK(users')
    <3>1. CASE ClearTOTP(e)
      BY <1>0, <3>1, UsersChange DEF ClearTOTP
    <3>2. CASE SetUserPassword(e, p)
      BY <1>0, <3>2, UsersChange DEF SetUserPassword
    <3> QED BY <1>6, <3>1, <3>2 DEF runUserReset
  <2>2. SessionsOK(sessions') /\ DOMAIN sessions' \subseteq DOMAIN sessions
    BY <2>1, SessionsDropped
  <2> QED BY <1>0, <1>6, <2>1, <2>2, StoresKeep, HandlersRest DEF runUserReset, clock
<1> QED BY <1>1, <1>2, <1>3, <1>4, <1>5, <1>6 DEF Life

LEMMA NextSplits ==
  ASSUME Next
  PROVE  (\E r \in Req : HTTP(r)) \/ (\E c \in Conn : Socket(c)) \/ Life
BY DEF Next, Life

LEMMA TypesNext == StoresInv /\ HandlersInv /\ [Next]_vars => (StoresInv /\ HandlersInv)'
<1> SUFFICES ASSUME StoresInv, HandlersInv, [Next]_vars PROVE StoresInv' /\ HandlersInv'
  OBVIOUS
<1>1. CASE Next
  BY <1>1, NextSplits, RequestTypes, SocketTypes, LifeTypes
<1>2. CASE UNCHANGED vars
  <2>1. UNCHANGED <<users, sessions, invites, tokens, ceremonies, conns, rq, now, nextId>>
    BY <1>2 DEF vars, stores, clock
  <2>2. StoresInv'
    BY <2>1, StoresKeep DEF StoresInv
  <2> QED BY <2>1, <2>2, HandlersRest
<1> QED BY <1>1, <1>2

----------------------------------------------------------------------------
(* Sessions and cuts *)

\* Sessions end, or are extended, and no user is cut.
Slide ==
  /\ DOMAIN sessions' \subseteq DOMAIN sessions
  /\ \A s \in DOMAIN sessions' : sessions'[s].email = sessions[s].email
  /\ UNCHANGED <<cuts, born>>

LEMMA SessionStep ==
  ASSUME StoresInv, HandlersInv, Next
  PROVE  \/ Slide
         \/ \E e \in User : dropSessions(e)
         \/ \E e \in User : CreateSession(e) /\ cuts' = cuts
<1>0. UNCHANGED <<sessions, cuts, born>> => Slide
  BY DEF Slide
<1>1. ASSUME NEW r \in Req, HTTP(r), ~startSession(r) PROVE Slide
  <2>1. ASSUME NEW s \in DOMAIN sessions, NEW g \in Goal, LookupSession(r, s, g) PROVE Slide
    <3>1. sessions' = Drop(sessions, {s}) \/ sessions' = sessions
      BY <2>1 DEF LookupSession
    <3> QED BY <2>1, <3>1 DEF LookupSession, Slide, Drop, ghosts
  <2>2. ASSUME NEW s \in DOMAIN sessions, handleLogout(r, s) PROVE Slide
    BY <2>2 DEF handleLogout, DeleteSession, Slide, Drop
  <2>3. CASE TouchSession(r)
    <3>1. \A s \in DOMAIN sessions : sessions[s] \in Dated
      BY SMTT(60) DEF StoresInv, SessionsOK
    <3> QED BY <2>3, <3>1 DEF TouchSession, Slide, ghosts, Dated
  <2>4. \/ UNCHANGED <<sessions, cuts, born>>
        \/ TouchSession(r)
        \/ \E s \in DOMAIN sessions : handleLogout(r, s) \/ \E g \in Goal : LookupSession(r, s, g)
    BY <1>1 DEF HTTP, handleRegister, handleLogin, currentUser, Serve, OpenConn, CreateFirstAdmin,
         PutUser, handleInviteRedeem, handleWebAuthnRegisterBegin, handleWebAuthnRegisterFinish,
         handleWebAuthnLoginBegin, handleWebAuthnLoginFinish, FinishLogin, stores, ghosts
  <2> QED BY <1>0, <2>1, <2>2, <2>3, <2>4
<1>2. ASSUME NEW r \in Req, startSession(r)
      PROVE  \E e \in User : CreateSession(e) /\ cuts' = cuts
  <2>1. rq[r].email \in User
    BY <1>2, HandlerFields DEF startSession
  <2> QED BY <1>2, <2>1 DEF startSession
<1>3. ASSUME NEW c \in Conn, Socket(c) PROVE Slide \/ \E e \in User : dropSessions(e)
  BY <1>0, <1>3 DEF Socket, OpenAnonymous, selfRecord, AccountPut, revokeOAuthForUser, Close,
       handleAdminSetUserScope, handleAdminCreateInvite, handleAdminSetUserEnabled,
       SetUserDisabled, handleAdminSetUserPassword, SetUserPassword, handleAdminRemoveUser,
       RemoveUser, handleAdminRevokeInvite, stores, ghosts
<1>4. ASSUME Life PROVE Slide \/ \E e \in User : dropSessions(e)
  BY <1>0, <1>4 DEF Life, RewriteScopes, Stop, Start, Tick, TokenIssued, runUserReset, ClearTOTP,
       SetUserPassword, stores, ghosts
<1> QED BY <1>1, <1>2, <1>3, <1>4, NextSplits

LEMMA CutNext == StoresInv /\ HandlersInv /\ CutInv /\ [Next]_vars => CutInv'
<1> SUFFICES ASSUME StoresInv, HandlersInv, CutInv, [Next]_vars PROVE CutInv'
  OBVIOUS
<1>1. CASE Slide
  BY <1>1 DEF Slide, CutInv, CutsAreFinal
<1>2. ASSUME NEW e \in User, dropSessions(e) PROVE CutInv'
  <2> DEFINE mine == {s \in DOMAIN sessions : sessions[s].email = e}
  <2>1. DOMAIN sessions' = DOMAIN sessions \ mine
    BY <1>2 DEF dropSessions, Drop
  <2>2. \A s \in DOMAIN sessions' : sessions'[s] = sessions[s] /\ sessions[s].email # e
    BY <1>2 DEF dropSessions, Drop
  <2>3. \A s \in DOMAIN sessions : sessions[s].email \in User
    BY DEF StoresInv, SessionsOK, Dated
  <2>4. cuts' = [cuts EXCEPT ![e] = @ + 1] /\ born' = born
    BY <1>2 DEF dropSessions
  <2>5. cuts' \in [User -> Nat] /\ \A u \in User \ {e} : cuts'[u] = cuts[u]
    BY <2>4 DEF CutInv
  <2>6. CutsAreFinal'
    BY <2>1, <2>2, <2>3, <2>4, <2>5 DEF CutInv, CutsAreFinal
  <2> QED BY <2>1, <2>4, <2>5, <2>6 DEF CutInv
<1>3. ASSUME NEW e \in User, CreateSession(e), cuts' = cuts PROVE CutInv'
  <2>1. PICK s \in Id :
          /\ s \notin DOMAIN sessions
          /\ sessions' = Put(sessions, s, [email |-> e, exp |-> now + SessionTTL])
          /\ born' = Put(born, s, cuts[e])
    <3>1. nextId \notin DOMAIN sessions
      BY DEF StoresInv
    <3> QED BY <1>3, <3>1 DEF CreateSession, Fresh
  <2>2. /\ DOMAIN sessions' = DOMAIN sessions \cup {s} /\ DOMAIN born' = DOMAIN born \cup {s}
        /\ sessions'[s].email = e /\ born'[s] = cuts[e]
    BY <2>1 DEF Put
  <2>3. \A x \in DOMAIN sessions : sessions'[x] = sessions[x] /\ born'[x] = born[x]
    BY <2>1 DEF Put, CutInv
  <2>4. CutsAreFinal'
    BY <1>3, <2>2, <2>3 DEF CutInv, CutsAreFinal
  <2> QED BY <1>3, <2>2, <2>4 DEF CutInv
<1>4. CASE UNCHANGED vars
  BY <1>4 DEF vars, stores, ghosts, CutInv, CutsAreFinal
<1> QED BY <1>1, <1>2, <1>3, <1>4, SessionStep

----------------------------------------------------------------------------
(* What admits somebody *)

\* Nothing is accepted; N is the number given out, if it is an invitation's or a
\* ceremony's.
LEMMA UseKeeps ==
  ASSUME StoresInv, UseInv, uses' = uses, nextId' = nextId \/ nextId' = nextId + 1,
         NEW N \in SUBSET {nextId}, N # {} => nextId' = nextId + 1,
         \A i \in DOMAIN invites' \ N :
           i \in DOMAIN invites /\ (~invites'[i].used => ~invites[i].used),
         DOMAIN ceremonies' \ N \subseteq DOMAIN ceremonies,
         N \cap DOMAIN invites' = {} \/ N \cap DOMAIN ceremonies' = {},
         \A q \in Req : rq'[q].pc = "assert" => rq'[q] = rq[q]
  PROVE  UseInv'
<1>1. nextId \in Nat /\ \A k \in 1..(nextId - 1) : k # nextId /\ k \in 1..(nextId' - 1)
  BY DEF StoresInv
<1>2. \A k \in N : k \notin DOMAIN uses \cup DOMAIN invites \cup DOMAIN ceremonies
  BY <1>1 DEF StoresInv, UseInv
<1>3. \A k \in DOMAIN uses' : uses'[k] = 1 /\ k \in 1..(nextId' - 1)
  BY <1>1 DEF UseInv
<1>4. \A i \in DOMAIN invites' : ~invites'[i].used => i \notin DOMAIN uses'
  BY <1>2 DEF UseInv
<1>5. DOMAIN ceremonies' \cap (DOMAIN uses' \cup DOMAIN invites') = {}
  BY <1>2 DEF UseInv
<1>6. ASSUME NEW r \in Req, rq'[r].pc = "assert"
      PROVE  /\ rq'[r].ceremony \in 1..(nextId' - 1)
             /\ rq'[r].ceremony \notin DOMAIN uses' \cup DOMAIN invites' \cup DOMAIN ceremonies'
             /\ \A q \in Req \ {r} : rq'[q].pc = "assert" => rq'[q].ceremony # rq'[r].ceremony
  <2>1. rq'[r] = rq[r] /\ Asserts(r)
    BY <1>6 DEF Asserts
  <2>2. /\ rq[r].ceremony \in 1..(nextId - 1)
        /\ rq[r].ceremony \notin DOMAIN uses \cup DOMAIN invites \cup DOMAIN ceremonies
    BY <2>1 DEF UseInv
  <2>3. rq[r].ceremony \notin N
    BY <1>1, <2>2
  <2>4. rq[r].ceremony \notin DOMAIN invites' \cup DOMAIN ceremonies'
    BY <2>2, <2>3
  <2>5. \A q \in Req \ {r} : rq'[q].pc = "assert" => rq'[q].ceremony # rq'[r].ceremony
    BY <2>1 DEF UseInv, Asserts
  <2> QED BY <1>1, <2>1, <2>2, <2>4, <2>5
<1> QED BY <1>3, <1>4, <1>5, <1>6 DEF UseInv, Asserts

\* Nobody is let in, and nothing that could let somebody in is made.
LEMMA UseQuiet ==
  ASSUME StoresInv, UseInv, uses' = uses, nextId' = nextId \/ nextId' = nextId + 1,
         \A i \in DOMAIN invites' : i \in DOMAIN invites /\ (~invites'[i].used => ~invites[i].used),
         DOMAIN ceremonies' \subseteq DOMAIN ceremonies,
         \A q \in Req : rq'[q].pc = "assert" => rq'[q] = rq[q]
  PROVE  UseInv'
<1> DEFINE N == {}
<1>1. /\ N \in SUBSET {nextId} /\ N = {} /\ N \cap DOMAIN invites' = {}
      /\ DOMAIN ceremonies' \ N \subseteq DOMAIN ceremonies
      /\ \A i \in DOMAIN invites' \ N :
           i \in DOMAIN invites /\ (~invites'[i].used => ~invites[i].used)
  OBVIOUS
<1> HIDE DEF N
<1> QED BY <1>1, UseKeeps

\* k lets somebody in: it is an invitation that is marked, or a ceremony that is gone.
LEMMA UseCounts ==
  ASSUME StoresInv, UseInv, nextId' = nextId, NEW k \in 1..(nextId - 1), k \notin DOMAIN uses,
         uses' = Count(uses, k),
         \A i \in DOMAIN invites' :
           i \in DOMAIN invites /\ (~invites'[i].used => ~invites[i].used /\ i # k),
         DOMAIN ceremonies' \subseteq DOMAIN ceremonies \ {k},
         \A q \in Req : rq'[q].pc = "assert" => rq'[q] = rq[q] /\ rq[q].ceremony # k
  PROVE  UseInv'
<1>1. DOMAIN uses' = DOMAIN uses \cup {k} /\ uses'[k] = 1
  BY DEF Count, Put
<1>2. \A x \in DOMAIN uses : uses'[x] = uses[x]
  BY DEF Count, Put
<1>3. \A x \in DOMAIN uses' : uses'[x] = 1 /\ x \in 1..(nextId' - 1)
  BY <1>1, <1>2 DEF UseInv
<1>4. \A i \in DOMAIN invites' : ~invites'[i].used => i \notin DOMAIN uses'
  BY <1>1 DEF UseInv
<1>5. DOMAIN ceremonies' \cap (DOMAIN uses' \cup DOMAIN invites') = {}
  BY <1>1 DEF UseInv
<1>6. ASSUME NEW r \in Req, rq'[r].pc = "assert"
      PROVE  /\ rq'[r].ceremony \in 1..(nextId' - 1)
             /\ rq'[r].ceremony \notin DOMAIN uses' \cup DOMAIN invites' \cup DOMAIN ceremonies'
             /\ \A q \in Req \ {r} : rq'[q].pc = "assert" => rq'[q].ceremony # rq'[r].ceremony
  <2>1. rq'[r] = rq[r] /\ Asserts(r) /\ rq[r].ceremony # k
    BY <1>6 DEF Asserts
  <2>2. /\ rq[r].ceremony \in 1..(nextId - 1)
        /\ rq[r].ceremony \notin DOMAIN uses \cup DOMAIN invites \cup DOMAIN ceremonies
    BY <2>1 DEF UseInv
  <2>3. \A q \in Req \ {r} : rq'[q].pc = "assert" => rq'[q].ceremony # rq'[r].ceremony
    BY <2>1 DEF UseInv, Asserts
  <2> QED BY <1>1, <2>1, <2>2, <2>3
<1> QED BY <1>3, <1>4, <1>5, <1>6 DEF UseInv, Asserts

\* A handler that goes on to anything but an assertion.
LEMMA AssertsElse ==
  ASSUME HandlersInv, NEW r \in Req, NEW rec, rec.pc # "assert", rq' = [rq EXCEPT ![r] = rec]
  PROVE  \A q \in Req : rq'[q].pc = "assert" => rq'[q] = rq[q] /\ q # r
BY DEF HandlersInv

\* The requests that admit nobody.
LEMMA UseRequests ==
  ASSUME StoresInv, HandlersInv, UseInv, NEW r \in Req,
         \/ \E e \in User, p \in Password, b \in BOOLEAN :
              handleRegister(r, e, p, b) \/ handleLogin(r, e, p, b)
         \/ \E s \in DOMAIN sessions : \/ \E g \in Goal : LookupSession(r, s, g)
                                        \/ handleLogout(r, s)
         \/ currentUser(r) \/ TouchSession(r) \/ Serve(r) \/ \E c \in Conn : OpenConn(r, c)
         \/ CreateFirstAdmin(r) \/ startSession(r) \/ PutUser(r)
  PROVE  UseInv'
<1>1. /\ UNCHANGED <<uses, invites, ceremonies>>
      /\ nextId' = nextId \/ nextId' = nextId + 1
  BY DEF handleRegister, handleLogin, LookupSession, handleLogout, currentUser, TouchSession, Serve,
     OpenConn, CreateFirstAdmin, startSession, CreateSession, Fresh, PutUser, stores, ghosts
<1>2. rq' = rq \/ \E rec : rec.pc # "assert" /\ rq' = [rq EXCEPT ![r] = rec]
  <2>1. CASE currentUser(r)
    <3>1. rq[r].goal.pc # "assert"
      BY <2>1, HandlerFields DEF currentUser, Purpose
    <3> QED BY <2>1, <3>1 DEF currentUser, Done, Goto, Off
  <2>2. CASE TouchSession(r)
    <3>1. [rq[r] EXCEPT !.pc = "serve"].pc = "serve"
      BY <2>2, HandlerFields DEF TouchSession, HandlersInv, Handling
    <3> QED BY <2>2, <3>1 DEF TouchSession, Goto
  <2>3. ASSUME NEW s \in DOMAIN sessions, NEW g \in Goal, LookupSession(r, s, g)
        PROVE  rq' = rq \/ \E rec : rec.pc # "assert" /\ rq' = [rq EXCEPT ![r] = rec]
    BY <2>3 DEF LookupSession, Goto
  <2>4. CASE CreateFirstAdmin(r)
    BY <2>4 DEF CreateFirstAdmin, Goto, Done, Off
  <2>5. CASE PutUser(r)
    BY <2>5 DEF PutUser, Goto, Off
  <2>6. CASE startSession(r) \/ Serve(r) \/ \E c \in Conn : OpenConn(r, c)
    BY <2>6 DEF startSession, Serve, OpenConn, Done, Goto, Off
  <2>7. ASSUME NEW e \in User, NEW p \in Password, NEW b \in BOOLEAN,
               handleRegister(r, e, p, b) \/ handleLogin(r, e, p, b)
        PROVE  rq' = rq \/ \E rec : rec.pc # "assert" /\ rq' = [rq EXCEPT ![r] = rec]
    BY <2>7 DEF handleRegister, handleLogin, Goto
  <2>8. ASSUME NEW s \in DOMAIN sessions, handleLogout(r, s) PROVE rq' = rq
    BY <2>8 DEF handleLogout
  <2> QED BY <2>1, <2>2, <2>3, <2>4, <2>5, <2>6, <2>7, <2>8
<1>3. \A q \in Req : rq'[q].pc = "assert" => rq'[q] = rq[q]
  BY <1>2, AssertsElse
<1> QED BY <1>1, <1>3, UseQuiet

\* A ceremony begins.
LEMMA UseCeremony ==
  ASSUME StoresInv, UseInv, NEW e, storeCeremony(e), UNCHANGED <<uses, invites>>,
         \A q \in Req : rq'[q].pc = "assert" => rq'[q] = rq[q]
  PROVE  UseInv'
<1>1. PICK n \in Id : Fresh(n) /\ put(n, e)
  BY DEF storeCeremony
<1>2. n = nextId /\ nextId' = nextId + 1 /\ n \notin DOMAIN invites
  BY <1>1 DEF Fresh, StoresInv
<1>3. DOMAIN ceremonies' \ {n} \subseteq DOMAIN ceremonies
  BY <1>1 DEF put, Put, Drop
<1> DEFINE N == {n}
<1>4. /\ N \in SUBSET {nextId} /\ N \cap DOMAIN invites' = {}
      /\ DOMAIN ceremonies' \ N \subseteq DOMAIN ceremonies
      /\ \A i \in DOMAIN invites' \ N :
           i \in DOMAIN invites /\ (~invites'[i].used => ~invites[i].used)
  BY <1>2, <1>3
<1> HIDE DEF N
<1> QED BY <1>2, <1>4, UseKeeps

LEMMA UsePasskeys ==
  ASSUME StoresInv, HandlersInv, UseInv, NEW r \in Req,
         \/ \E i \in DOMAIN invites, p \in Password, b, named \in BOOLEAN :
              handleInviteRedeem(r, i, p, b, named)
         \/ handleWebAuthnRegisterBegin(r)
         \/ \E ok \in BOOLEAN : handleWebAuthnRegisterFinish(r, ok)
         \/ \E e \in User : handleWebAuthnLoginBegin(r, e)
         \/ \E n \in DOMAIN ceremonies : handleWebAuthnLoginFinish(r, n)
         \/ \E ok \in BOOLEAN : FinishLogin(r, ok)
  PROVE  UseInv'
<1>0. \A k \in DOMAIN invites \cup DOMAIN ceremonies : k \in 1..(nextId - 1)
  BY DEF StoresInv
<1>1. ASSUME NEW i \in DOMAIN invites, NEW p \in Password, NEW b \in BOOLEAN,
             NEW named \in BOOLEAN, handleInviteRedeem(r, i, p, b, named)
      PROVE  UseInv'
  <2>1. /\ ~invites[i].used /\ uses' = Count(uses, i)
        /\ invites' = [invites EXCEPT ![i].used = TRUE]
        /\ UNCHANGED <<ceremonies, nextId>>
    BY <1>1 DEF handleInviteRedeem, RedeemInvite, Redeemable
  <2>2. i \in 1..(nextId - 1) /\ i \notin DOMAIN uses /\ i \notin DOMAIN ceremonies
    BY <1>0, <2>1 DEF UseInv
  <2>3. \A j \in DOMAIN invites' :
           j \in DOMAIN invites /\ (~invites'[j].used => ~invites[j].used /\ j # i)
    BY <2>1 DEF StoresInv, InvitesOK, Invite
  <2>4. \E rec : rec.pc # "assert" /\ rq' = [rq EXCEPT ![r] = rec]
    BY <1>1 DEF handleInviteRedeem, Goto
  <2>5. \A q \in Req : rq'[q].pc = "assert" => rq'[q] = rq[q]
    BY <2>4, AssertsElse
  <2>6. \A q \in Req : rq'[q].pc = "assert" => rq[q].ceremony # i
    BY <2>5 DEF UseInv, Asserts
  <2> QED BY <2>1, <2>2, <2>3, <2>5, <2>6, UseCounts
<1>2. CASE handleWebAuthnRegisterBegin(r)
  <2>1. rq' = [rq EXCEPT ![r] = Off] /\ Off.pc # "assert"
    BY <1>2 DEF handleWebAuthnRegisterBegin, Done, Goto, Off
  <2>2. \A q \in Req : rq'[q].pc = "assert" => rq'[q] = rq[q]
    BY <2>1, AssertsElse
  <2> QED BY <1>2, <2>2, UseCeremony DEF handleWebAuthnRegisterBegin, stores, ghosts
<1>3. ASSUME NEW ok \in BOOLEAN, handleWebAuthnRegisterFinish(r, ok) PROVE UseInv'
  <2> DEFINE n == rq[r].goal.ceremony
  <2>1. \E rec : rec.pc # "assert" /\ rq' = [rq EXCEPT ![r] = rec]
    BY <1>3 DEF handleWebAuthnRegisterFinish, Done, Goto, Off
  <2>2. \A q \in Req : rq'[q].pc = "assert" => rq'[q] = rq[q]
    BY <2>1, AssertsElse
  <2>3. UNCHANGED <<invites, nextId>>
    BY <1>3 DEF handleWebAuthnRegisterFinish, stores
  <2>4. \/ UNCHANGED uses /\ DOMAIN ceremonies' \subseteq DOMAIN ceremonies
        \/ /\ n \in DOMAIN ceremonies /\ uses' = Count(uses, n)
           /\ DOMAIN ceremonies' \subseteq DOMAIN ceremonies \ {n}
    BY <1>3 DEF handleWebAuthnRegisterFinish, take, Drop
  <2>5. CASE UNCHANGED uses /\ DOMAIN ceremonies' \subseteq DOMAIN ceremonies
    BY <2>2, <2>3, <2>5, UseQuiet
  <2>6. CASE /\ n \in DOMAIN ceremonies /\ uses' = Count(uses, n)
             /\ DOMAIN ceremonies' \subseteq DOMAIN ceremonies \ {n}
    <3>1. n \in 1..(nextId - 1) /\ n \notin DOMAIN uses /\ n \notin DOMAIN invites
      BY <1>0, <2>6 DEF UseInv
    <3>2. \A q \in Req : rq'[q].pc = "assert" => rq[q].ceremony # n
      BY <2>2, <2>6 DEF UseInv, Asserts
    <3>3. \A j \in DOMAIN invites' :
             j \in DOMAIN invites /\ (~invites'[j].used => ~invites[j].used /\ j # n)
      BY <2>3, <3>1
    <3> HIDE DEF n
    <3> QED BY <2>2, <2>3, <2>6, <3>1, <3>2, <3>3, UseCounts
  <2> QED BY <2>4, <2>5, <2>6
<1>4. ASSUME NEW e \in User, handleWebAuthnLoginBegin(r, e) PROVE UseInv'
  BY <1>4, UseCeremony DEF handleWebAuthnLoginBegin, stores, ghosts
<1>5. ASSUME NEW n \in DOMAIN ceremonies, handleWebAuthnLoginFinish(r, n) PROVE UseInv'
  <2>1. /\ UNCHANGED <<invites, nextId, uses>>
        /\ DOMAIN ceremonies' = DOMAIN ceremonies \ {n}
    BY <1>5 DEF handleWebAuthnLoginFinish, take, Drop, stores, ghosts
  <2>2. CASE UNCHANGED rq
    BY <2>1, <2>2, UseQuiet
  <2>3. CASE Goto(r, [pc |-> "assert", email |-> ceremonies[n].email, ceremony |-> n])
    <3>1. rq'[r].pc = "assert" /\ rq'[r].ceremony = n
      BY <2>3 DEF Goto, HandlersInv
    <3>2. \A q \in Req \ {r} : rq'[q] = rq[q]
      BY <2>3 DEF Goto, HandlersInv
    <3>3. n \in 1..(nextId - 1) /\ n \notin DOMAIN uses \cup DOMAIN invites \cup DOMAIN ceremonies'
      BY <1>0, <2>1 DEF UseInv
    <3>4. \A q \in Req \ {r} : Asserts(q) =>
             /\ rq[q].ceremony \in 1..(nextId - 1) /\ rq[q].ceremony # n
             /\ rq[q].ceremony \notin DOMAIN uses \cup DOMAIN invites \cup DOMAIN ceremonies'
             /\ \A x \in Req \ {q} : Asserts(x) => rq[x].ceremony # rq[q].ceremony
      BY <2>1 DEF UseInv
    <3>5. ASSUME NEW q \in Req, rq'[q].pc = "assert"
          PROVE  /\ rq'[q].ceremony \in 1..(nextId - 1)
                 /\ rq'[q].ceremony \notin DOMAIN uses \cup DOMAIN invites \cup DOMAIN ceremonies'
                 /\ \A x \in Req \ {q} : rq'[x].pc = "assert" => rq'[x].ceremony # rq'[q].ceremony
      <4>1. CASE q = r
        BY <3>1, <3>2, <3>3, <3>4, <4>1 DEF Asserts
      <4>2. CASE q # r
        BY <3>1, <3>2, <3>4, <3>5, <4>2 DEF Asserts
      <4> QED BY <4>1, <4>2
    <3>6. DOMAIN ceremonies' \cap (DOMAIN uses \cup DOMAIN invites) = {}
      BY <2>1 DEF UseInv
    <3>7. /\ \A k \in DOMAIN uses : uses[k] = 1 /\ k \in 1..(nextId - 1)
          /\ \A i \in DOMAIN invites : ~invites[i].used => i \notin DOMAIN uses
      BY DEF UseInv
    <3> QED BY <2>1, <3>5, <3>6, <3>7 DEF UseInv, Asserts
  <2> QED BY <1>5, <2>2, <2>3 DEF handleWebAuthnLoginFinish
<1>6. ASSUME NEW ok \in BOOLEAN, FinishLogin(r, ok) PROVE UseInv'
  <2> DEFINE n == rq[r].ceremony
  <2>1. \E rec : rec.pc # "assert" /\ rq' = [rq EXCEPT ![r] = rec]
    BY <1>6 DEF FinishLogin, Done, Goto, Off
  <2>2. \A q \in Req : rq'[q].pc = "assert" => rq'[q] = rq[q] /\ q # r
    BY <2>1, AssertsElse
  <2>3. UNCHANGED <<invites, ceremonies, nextId>> /\ (uses' = uses \/ uses' = Count(uses, n))
    BY <1>6 DEF FinishLogin, stores
  <2>4. Asserts(r)
    BY <1>6 DEF FinishLogin, Asserts
  <2>5. /\ n \in 1..(nextId - 1)
        /\ n \notin DOMAIN uses \cup DOMAIN invites \cup DOMAIN ceremonies
        /\ \A q \in Req \ {r} : Asserts(q) => rq[q].ceremony # n
    BY <2>4 DEF UseInv
  <2>6. \A q \in Req : rq'[q].pc = "assert" => rq'[q] = rq[q] /\ rq[q].ceremony # n
    BY <2>2, <2>5 DEF Asserts
  <2>7. CASE uses' = uses
    BY <2>3, <2>6, <2>7, UseQuiet
  <2>8. CASE uses' = Count(uses, n)
    <3>1. \A j \in DOMAIN invites' :
             j \in DOMAIN invites /\ (~invites'[j].used => ~invites[j].used /\ j # n)
      BY <2>3, <2>5
    <3>2. DOMAIN ceremonies' \subseteq DOMAIN ceremonies \ {n}
      BY <2>3, <2>5
    <3> HIDE DEF n
    <3> QED BY <2>3, <2>5, <2>6, <2>8, <3>1, <3>2, UseCounts
  <2> QED BY <2>3, <2>7, <2>8
<1> QED BY <1>1, <1>2, <1>3, <1>4, <1>5, <1>6

LEMMA UseNext == StoresInv /\ HandlersInv /\ UseInv /\ [Next]_vars => UseInv'
<1> SUFFICES ASSUME StoresInv, HandlersInv, UseInv, [Next]_vars PROVE UseInv'
  OBVIOUS
<1>1. ASSUME NEW r \in Req, HTTP(r) PROVE UseInv'
  BY <1>1, UseRequests, UsePasskeys DEF HTTP
<1>2. ASSUME NEW c \in Conn, Socket(c) PROVE UseInv'
  <2>1. ASSUME NEW e \in User, NEW s \in Scope, handleAdminCreateInvite(c, e, s) PROVE UseInv'
    <3>1. PICK i \in Id : Fresh(i) /\ invites' = Put(invites, i, InviteRecord(e, s))
      BY <2>1 DEF handleAdminCreateInvite, CreateInvite
    <3>2. i = nextId /\ nextId' = nextId + 1 /\ i \notin DOMAIN ceremonies
      BY <3>1 DEF Fresh, StoresInv
    <3> DEFINE N == {i}
    <3>3. UNCHANGED <<uses, ceremonies, rq>>
      BY <2>1 DEF handleAdminCreateInvite, ghosts
    <3>4. /\ N \in SUBSET {nextId} /\ N \cap DOMAIN ceremonies' = {}
          /\ DOMAIN ceremonies' \ N \subseteq DOMAIN ceremonies
          /\ \A j \in DOMAIN invites' \ N :
               j \in DOMAIN invites /\ (~invites'[j].used => ~invites[j].used)
      BY <3>1, <3>2, <3>3 DEF Put
    <3> HIDE DEF N
    <3> QED BY <3>2, <3>3, <3>4, UseKeeps
  <2>2. ASSUME NEW i \in Id, handleAdminRevokeInvite(c, i) PROVE UseInv'
    BY <2>2, UseQuiet DEF handleAdminRevokeInvite, RevokeInvite, Drop, ghosts
  <2>3. \/ UNCHANGED <<uses, invites, ceremonies, rq, nextId>>
        \/ \E e \in User, s \in Scope : handleAdminCreateInvite(c, e, s)
        \/ \E i \in Id : handleAdminRevokeInvite(c, i)
    BY <1>2 DEF Socket, OpenAnonymous, selfRecord, AccountPut, revokeOAuthForUser, Close,
         handleAdminSetUserScope, handleAdminSetUserEnabled, SetUserDisabled,
         handleAdminSetUserPassword, SetUserPassword, handleAdminRemoveUser,
         RemoveUser, dropSessions, stores, ghosts
  <2>4. CASE UNCHANGED <<uses, invites, ceremonies, rq, nextId>>
    BY <2>4, UseQuiet
  <2> QED BY <2>1, <2>2, <2>3, <2>4
<1>3. CASE Life
  <2>1. CASE RewriteScopes
    BY <2>1, UseQuiet DEF RewriteScopes, StoresInv, InvitesOK, Invite, ghosts
  <2>2. CASE Stop
    BY <2>2, UseQuiet DEF Stop, EmptyMap, Off, stores, ghosts
  <2>3. CASE Start
    BY <2>3, UseQuiet DEF Start, stores, ghosts
  <2>4. CASE Tick
    BY <2>4, UseQuiet DEF Tick, stores, ghosts
  <2>5. ASSUME NEW e \in User, TokenIssued(e) PROVE UseInv'
    BY <2>5, UseQuiet DEF TokenIssued, ghosts
  <2>6. ASSUME NEW e \in User, NEW p \in Password, runUserReset(e, p) PROVE UseInv'
    BY <2>6, UseQuiet DEF runUserReset, ClearTOTP, SetUserPassword, dropSessions
  <2> QED BY <1>3, <2>1, <2>2, <2>3, <2>4, <2>5, <2>6 DEF Life
<1>4. CASE UNCHANGED vars
  BY <1>4, UseQuiet DEF vars, stores, ghosts
<1> QED BY <1>1, <1>2, <1>3, <1>4, NextSplits

LEMMA FirstNext == HandlersInv /\ FirstInv /\ [Next]_vars => FirstInv'
<1> SUFFICES ASSUME HandlersInv, FirstInv, [Next]_vars PROVE FirstInv'
  OBVIOUS
<1>1. ASSUME NEW r \in Req, HTTP(r) PROVE first' = first \/ \E e \in User : first' = {e}
  <2>1. CASE CreateFirstAdmin(r)
    <3>1. rq[r].email \in User
      BY <2>1, HandlerFields DEF CreateFirstAdmin
    <3>2. first' = first \/ first' = {} \cup {rq[r].email}
      BY SMTT(60), <2>1 DEF CreateFirstAdmin, firstGuard
    <3> QED BY <3>1, <3>2
  <2>2. CreateFirstAdmin(r) \/ first' = first
    BY <1>1 DEF HTTP, handleRegister, handleLogin, LookupSession, handleLogout, currentUser,
         TouchSession, Serve, OpenConn, startSession, PutUser, handleInviteRedeem,
         handleWebAuthnRegisterBegin, handleWebAuthnRegisterFinish, handleWebAuthnLoginBegin,
         handleWebAuthnLoginFinish, FinishLogin, ghosts
  <2> QED BY <2>1, <2>2
<1>2. ASSUME NEW c \in Conn, Socket(c) PROVE first' = first
  BY <1>2 DEF Socket, OpenAnonymous, selfRecord, AccountPut, revokeOAuthForUser, Close,
       handleAdminSetUserScope, handleAdminCreateInvite, handleAdminSetUserEnabled,
       SetUserDisabled, handleAdminSetUserPassword, SetUserPassword, handleAdminRemoveUser,
       RemoveUser, handleAdminRevokeInvite, dropSessions, ghosts
<1>3. ASSUME Life PROVE first' = first
  BY <1>3 DEF Life, RewriteScopes, Stop, Start, Tick, TokenIssued, runUserReset, ClearTOTP,
       SetUserPassword, dropSessions, ghosts
<1>4. CASE UNCHANGED vars
  BY <1>4 DEF vars, ghosts, FirstInv
<1> QED BY <1>1, <1>2, <1>3, <1>4, NextSplits DEF FirstInv

LEMMA AccountsInit == Init => AccountsInv
<1> SUFFICES ASSUME Init PROVE AccountsInv
  OBVIOUS
<1>1. PICK admin \in {{}} \cup {{e} : e \in User} : Installed(admin)
  BY DEF Init
<1>2. /\ tokens = {} /\ ceremonies = EmptyMap
      /\ conns = [c \in Conn |-> Off] /\ rq = [r \in Req |-> Off]
      /\ now = 0 /\ nextId = 3 /\ cuts = [e \in User |-> 0] /\ first = {} /\ uses = EmptyMap
  BY DEF Init
<1>3. admin \subseteq User /\ \A e \in admin : e = CHOOSE x \in admin : TRUE
  <2>1. CASE admin = {}
    BY <2>1
  <2>2. ASSUME NEW e \in User, admin = {e} PROVE \A x \in admin : x = CHOOSE y \in admin : TRUE
    BY <2>2
  <2>3. admin = {} \/ \E e \in User : admin = {e}
    OBVIOUS
  <2> QED BY <2>1, <2>2, <2>3
<1>4. UsersOK(users)
  <2>1. (CHOOSE p \in Password : TRUE) \in Password
    BY AccountsAssumption
  <2> DEFINE pw == CHOOSE p \in Password : TRUE
  <2> HIDE DEF pw
  <2>2. [Account(AdminScope, pw, FALSE) EXCEPT !.key = TRUE] \in Record
    BY <2>1, AccountsAssumption DEF Account, Record, pw
  <2>3. users = [e \in admin |-> [Account(AdminScope, pw, FALSE) EXCEPT !.key = TRUE]]
    BY <1>1 DEF Installed, pw
  <2> QED BY <1>3, <2>2, <2>3 DEF UsersOK
<1>5. SessionsOK(sessions) /\ DOMAIN sessions \subseteq {1}
      /\ \A s \in DOMAIN sessions : sessions[s].email \in User
  <2> DEFINE mail == CHOOSE e \in admin : TRUE
  <2>1. admin # {} => mail \in User
    BY <1>3
  <2>2. sessions = [s \in {1 : e \in admin} |-> [email |-> mail, exp |-> SessionTTL]]
    BY <1>1 DEF Installed
  <2> HIDE DEF mail
  <2> QED BY <2>1, <2>2, AccountsAssumption DEF SessionsOK, Dated
<1>6. InvitesOK(invites) /\ DOMAIN invites \subseteq {2}
  <2>1. PICK e \in User \ admin, s \in Scope \ {NoScope} :
           invites = [i \in {2 : a \in admin} |->
                        [email |-> e, scope |-> s, exp |-> InviteTTL, used |-> FALSE]]
    BY <1>1 DEF Installed
  <2> QED BY <2>1, AccountsAssumption DEF InvitesOK, Invite
<1>7. SessionsOK(ceremonies) /\ DOMAIN ceremonies = {} /\ DOMAIN uses = {}
  BY <1>2 DEF SessionsOK, EmptyMap
<1>8. StoresInv
  BY <1>2, <1>4, <1>5, <1>6, <1>7 DEF StoresInv
<1>9. HandlersInv
  BY <1>2 DEF HandlersInv, Handling, Connected
<1>10. CutInv
  BY <1>1, <1>2, <1>5 DEF Installed, CutInv, CutsAreFinal
<1>11. UseInv
  BY <1>2, <1>7 DEF UseInv, Asserts, Off
<1> QED BY <1>2, <1>8, <1>9, <1>10, <1>11 DEF AccountsInv, FirstInv

LEMMA AccountsInvariant == Spec => []AccountsInv
<1>1. AccountsInv /\ [Next]_vars => AccountsInv'
  BY TypesNext, CutNext, UseNext, FirstNext DEF AccountsInv
<1> QED BY <1>1, AccountsInit, PTL DEF Spec

----------------------------------------------------------------------------
(* The theorems *)

\* Every record, session, invitation and ceremony has its fields, numbers are given out
\* once, and a connection's scope is one of the scopes, for any number of requests and
\* connections.
THEOREM AccountsTypeCorrect == Spec => []TypeOK
<1>1. AccountsInv => TypeOK
  <2> SUFFICES ASSUME AccountsInv PROVE TypeOK
    OBVIOUS
  <2>1. /\ DOMAIN users \subseteq User /\ tokens \subseteq User
        /\ \A e \in DOMAIN users : users[e].scope \in Scope /\ users[e].pw \in Password
    BY DEF AccountsInv, StoresInv, UsersOK, Record
  <2>2. /\ \A s \in DOMAIN sessions : sessions[s].email \in User /\ sessions[s].exp \in Nat
        /\ \A n \in DOMAIN ceremonies : ceremonies[n].email \in User
    BY DEF AccountsInv, StoresInv, SessionsOK, Dated
  <2>3. \A i \in DOMAIN invites : invites[i].email \in User /\ invites[i].scope \in Scope
    BY DEF AccountsInv, StoresInv, InvitesOK, Invite
  <2>4. DOMAIN sessions \cup DOMAIN invites \cup DOMAIN ceremonies \subseteq 1..(nextId - 1)
    BY DEF AccountsInv, StoresInv
  <2>5. \A c \in Conn : conns[c] = Off \/ conns[c].scope \in Scope
    BY DEF AccountsInv, HandlersInv, Connected
  <2> QED BY <2>1, <2>2, <2>3, <2>4, <2>5 DEF TypeOK
<1> QED BY <1>1, AccountsInvariant, PTL

\* Of any number of simultaneous first-run registrations at most one makes an
\* administrator; an invitation makes one account, and a passkey ceremony serves one
\* login or one enrolment, whatever runs beside them (CreateFirstAdmin, RedeemInvite,
\* ceremonyCache.take).
THEOREM AdmittedOnce == Spec => []AdmitOnce
<1>1. AccountsInv => AdmitOnce
  <2> SUFFICES ASSUME AccountsInv PROVE AdmitOnce
    OBVIOUS
  <2>1. OneFirstAdmin
    <3>1. CASE first = {}
      <4>1. Cardinality(first) = 0
        BY <3>1, FS_EmptySet
      <4> QED BY <4>1 DEF OneFirstAdmin
    <3>2. ASSUME NEW e \in User, first = {e} PROVE OneFirstAdmin
      <4>1. Cardinality({e}) = 1
        BY FS_Singleton
      <4> QED BY <3>2, <4>1 DEF OneFirstAdmin
    <3> QED BY <3>1, <3>2 DEF AccountsInv, FirstInv
  <2>2. SingleUse
    BY DEF AccountsInv, UseInv, SingleUse
  <2> QED BY <2>1, <2>2 DEF AdmitOnce
<1> QED BY <1>1, AccountsInvariant, PTL

\* A session that was there when its user was disabled, removed or given a new password
\* is never there again, whatever request had resolved it (dropSessionsTx, TouchSession).
THEOREM CutsFinal == Spec => []CutsAreFinal
<1>1. AccountsInv => CutsAreFinal
  BY DEF AccountsInv, CutInv
<1> QED BY <1>1, AccountsInvariant, PTL
=============================================================================
