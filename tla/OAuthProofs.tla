----------------------------- MODULE OAuthProofs -----------------------------
(***************************************************************************)
(* The token store: its pointer buckets always hold exactly the current    *)
(* pair of every series, so that a token is accepted exactly while its     *)
(* client holds it, and a code is redeemed once.                           *)
(***************************************************************************)
EXTENDS OAuth, NaturalsInduction, WellFoundedInduction, TLAPS

----------------------------------------------------------------------------
(* Natural numbers *)

\* A non-empty set of naturals has a least element.
LEMMA LeastNat ==
  ASSUME NEW S \in SUBSET Nat, S # {}
  PROVE  \E m \in S : \A n \in S : m <= n
<1>1. IsWellFoundedOn(OpToRel(<, Nat), Nat)
  BY NatLessThanWellFounded
<1>2. PICK m \in S : \A n \in S : ~(<<n, m>> \in OpToRel(<, Nat))
  BY <1>1, WFMin
<1>3. \A n \in S : ~(n < m)
  BY <1>2 DEF OpToRel
<1> QED BY <1>3

----------------------------------------------------------------------------
(* The inductive invariant *)

\* An entry whose consent value, if it has one, is among the first n - 1 handles.
Entry(n) ==
  [mode : {"domain", "confidential"}, ident : Domain \cup Conf, consent : 0..(n - 1),
   scope : Scope, ttl : Nat \X Nat, expires : Nat]

\* What the handler of a request holds, at each point of its program.
Serves(n) ==
  {Off}
  \cup [pc : {"consent", "code"}, client : Client]
  \cup [pc : {"register"}, client : Dcr]
  \cup [pc : {"take", "scope"}, client : Client, code : 1..(n - 1), proof : Proof,
        conf : EntryId, entry : Entry(n)]
  \cup [pc : {"take", "scope"}, client : Client, code : 1..(n - 1), proof : Proof,
        conf : {Nil}, entry : {Nil}]
  \cup [pc : {"issue"}, client : Client, code : 1..(n - 1), scope : Scope, ttl : Nat \X Nat]
  \cup [pc : {"rotate"}, token : 1..(n - 1), ttl : Nat \X Nat]

\* What an administrator's handler holds.
Administers(n) ==
  {Off} \cup [pc : {"store", "revoke", "cut", "cutClient", "delete"}, id : EntryId,
              entry : Entry(n)]

\* The clock, start-up, and the handles given out so far; no handler outlives the
\* process.
ProcessInv ==
  /\ now \in 0..MaxNow /\ nextHandle \in 3..(MaxHandles + 1)
  /\ boot \in {"down", "opened", "swept", "up"}
  /\ markers \subseteq {"hashed", "seeded"} /\ clients \subseteq Dcr
  /\ boot # "up" => /\ \A r \in Req : rq[r] = Off
                    /\ \A a \in Admin : ad[a] = Off

\* The registrations, and what the handlers have read of them.
HandlerInv ==
  /\ rq \in [Req -> Serves(nextHandle)] /\ ad \in [Admin -> Administers(nextHandle)]
  /\ DOMAIN regs \subseteq EntryId
  /\ \A i \in DOMAIN regs : regs[i] \in Entry(nextHandle)

IsMap(f) == f = [k \in DOMAIN f |-> f[k]]
StoreKey == [hashed : BOOLEAN, of : Nat]
SeriesType ==
  [acc : StoreKey, ref : StoreKey, client : Client, who : Principal, scope : Scope,
   accExp : Nat, refExp : Nat]
\* What a series is stored under: the handle its client holds, hashed once the store
\* was migrated.
CurrentKey(s) == [hashed |-> "hashed" \in markers, of |-> held[s]]

SeriesInv ==
  /\ boot # "down" => "hashed" \in markers
  /\ DOMAIN series \subseteq DOMAIN held /\ DOMAIN held \subseteq Issued
  /\ \A s \in DOMAIN held : held[s] \in Issued
  /\ \A s, t \in DOMAIN held : held[s] = held[t] => s = t
  /\ \A s \in DOMAIN series :
       /\ series[s] \in SeriesType
       /\ series[s].acc = CurrentKey(s) /\ series[s].ref = CurrentKey(s)
  /\ refresh = access /\ IsMap(access)
  /\ DOMAIN access = {series[s].acc : s \in DOMAIN series}
  /\ \A s \in DOMAIN series : access[series[s].acc] = s

\* Request r has taken the code with handle h out of the store.
Taken(r, h) == rq[r].pc \in {"scope", "issue"} /\ rq[r].code = h
\* A series was issued for it.
Spent(h) == \E s \in DOMAIN origin : origin[s] = h

\* A code is in the store, in the hands of one request, or spent on one series.
CodeInv ==
  /\ \A k \in DOMAIN codes : /\ codes[k].client \in Client
                             /\ k.of \in Issued /\ k = Key(k.of)
                             /\ ~Spent(k.of) /\ \A r \in Req : ~Taken(r, k.of)
  /\ \A r, q \in Req, h \in Handle : Taken(r, h) /\ Taken(q, h) => q = r
  /\ \A r \in Req, h \in Handle : Taken(r, h) => ~Spent(h)
  /\ \A s \in DOMAIN origin : origin[s] \in Issued \cup {Nil}
  /\ CodeOnce

\* Every series ever issued has an origin.
OriginInv == DOMAIN origin = DOMAIN held

SafetyInv == ProcessInv /\ HandlerInv /\ SeriesInv /\ OriginInv /\ CodeInv

----------------------------------------------------------------------------
(* Types *)

LEMMA EntryMonotone ==
  ASSUME NEW n \in Nat, NEW m \in Nat, n <= m
  PROVE  /\ Entry(n) \subseteq Entry(m)
         /\ Serves(n) \subseteq Serves(m)
         /\ Administers(n) \subseteq Administers(m)
<1>1. 0..(n - 1) \subseteq 0..(m - 1) /\ 1..(n - 1) \subseteq 1..(m - 1)
  OBVIOUS
<1>2. Entry(n) \subseteq Entry(m)
  BY <1>1 DEF Entry
<1> HIDE DEF Entry
<1>3. Serves(n) \subseteq Serves(m)
  BY <1>1, <1>2 DEF Serves
<1>4. Administers(n) \subseteq Administers(m)
  BY <1>2 DEF Administers
<1> QED BY <1>2, <1>3, <1>4

\* A host's entry is one of the store's.
LEMMA DomainEntryFound ==
  ASSUME NEW host, DOMAIN regs \subseteq EntryId
  PROVE  DomainEntryForHost(host) \in DOMAIN regs \cup {Nil}
<1> DEFINE cover == {i \in DOMAIN regs :
                       regs[i].mode = "domain" /\ host \in Under[regs[i].ident]}
           best == {i \in cover :
                      \A j \in cover : Under[regs[i].ident] \subseteq Under[regs[j].ident]}
<1>1. DomainEntryForHost(host) =
        IF best = {} THEN Nil ELSE CHOOSE i \in best : \A j \in best : i <= j
  BY DEF DomainEntryForHost
<1>2. best \in SUBSET Nat /\ best \subseteq DOMAIN regs
  BY OAuthAssumption DEF EntryId
<1> HIDE DEF best
<1>3. best # {} => \E i \in best : \A j \in best : i <= j
  BY <1>2, LeastNat
<1> QED BY <1>1, <1>2, <1>3

LEMMA EntriesFound ==
  ASSUME NEW c, DOMAIN regs \subseteq EntryId
  PROVE  /\ DomainEntryForClient(c) \in DOMAIN regs \cup {Nil}
         /\ ConfidentialClient(c) \in DOMAIN regs \cup {Nil}
<1>1. DomainEntryForClient(c) \in DOMAIN regs \cup {Nil}
  BY DomainEntryFound DEF DomainEntryForClient
<1>2. ConfidentialClient(c) \in DOMAIN regs \cup {Nil}
  BY DEF ConfidentialClient
<1> QED BY <1>1, <1>2

LEMMA TTLType ==
  ASSUME HandlerInv, NEW c
  PROVE  issuanceTTL(c) \in Nat \X Nat
<1>1. \A t \in Nat \X Nat : EffectiveTTL(t) \in Nat \X Nat
  BY OAuthAssumption DEF EffectiveTTL
<1>2. DomainEntryForClient(c) # Nil => regs[DomainEntryForClient(c)].ttl \in Nat \X Nat
  BY EntriesFound DEF HandlerInv, Entry
<1> QED BY <1>1, <1>2 DEF issuanceTTL

\* A step gives out at most one handle.
Handles ==
  \/ nextHandle' = nextHandle
  \/ nextHandle <= MaxHandles /\ nextHandle' = nextHandle + 1

LEMMA HandlesGrow ==
  ASSUME ProcessInv, Handles
  PROVE  /\ nextHandle \in Nat /\ nextHandle' \in Nat /\ nextHandle <= nextHandle'
         /\ nextHandle' \in 3..(MaxHandles + 1)
         /\ Entry(nextHandle) \subseteq Entry(nextHandle')
         /\ Serves(nextHandle) \subseteq Serves(nextHandle')
         /\ Administers(nextHandle) \subseteq Administers(nextHandle')
         /\ Issued \subseteq Issued' /\ nextHandle \notin Issued
         /\ nextHandle' # nextHandle => Issued' = Issued \cup {nextHandle}
<1>1. /\ nextHandle \in Nat /\ nextHandle' \in Nat /\ nextHandle <= nextHandle'
      /\ nextHandle' \in 3..(MaxHandles + 1)
  BY OAuthAssumption DEF ProcessInv, Handles
<1>2. /\ Issued \subseteq Issued' /\ nextHandle \notin Issued
      /\ nextHandle' # nextHandle => Issued' = Issued \cup {nextHandle}
  <2>1. \A k : k \in Issued <=> k \in Nat /\ k # 0 /\ k < nextHandle
    BY <1>1 DEF Issued
  <2>2. \A k : k \in Issued' <=> k \in Nat /\ k # 0 /\ k < nextHandle'
    BY <1>1 DEF Issued
  <2>3. nextHandle' # nextHandle => nextHandle # 0 /\ nextHandle' = nextHandle + 1
    BY <1>1 DEF Handles, ProcessInv
  <2>4. nextHandle' # nextHandle => \A k : k \in Issued' <=> k \in Issued \cup {nextHandle}
    BY <1>1, <2>1, <2>2, <2>3
  <2> QED BY <1>1, <2>1, <2>2, <2>4
<1> QED BY <1>1, <1>2, EntryMonotone

\* The handler of one request goes on.
LEMMA RequestGoes ==
  ASSUME ProcessInv, HandlerInv, Handles, NEW r \in Req, boot = "up",
         NEW rec \in Serves(nextHandle'), rq' = [rq EXCEPT ![r] = rec], clients' \subseteq Dcr,
         UNCHANGED <<regs, ad, boot, now, markers>>
  PROVE  ProcessInv' /\ HandlerInv'
<1>1. ProcessInv'
  BY HandlesGrow DEF ProcessInv
<1>2. rq' \in [Req -> Serves(nextHandle')]
  BY HandlesGrow DEF HandlerInv
<1>3. HandlerInv'
  BY <1>2, HandlesGrow DEF HandlerInv
<1> QED BY <1>1, <1>3

\* An administrator's handler goes on, and may have changed the registrations.
LEMMA AdministratorGoes ==
  ASSUME ProcessInv, HandlerInv, Handles, NEW a \in Admin, boot = "up",
         NEW rec \in Administers(nextHandle'), ad' = [ad EXCEPT ![a] = rec],
         DOMAIN regs' \subseteq EntryId, \A i \in DOMAIN regs' : regs'[i] \in Entry(nextHandle'),
         UNCHANGED <<clients, rq, boot, now, markers>>
  PROVE  ProcessInv' /\ HandlerInv'
<1>1. ProcessInv'
  BY HandlesGrow DEF ProcessInv
<1>2. ad' \in [Admin -> Administers(nextHandle')]
  BY HandlesGrow DEF HandlerInv
<1>3. rq' \in [Req -> Serves(nextHandle')]
  BY HandlesGrow DEF HandlerInv
<1> QED BY <1>1, <1>2, <1>3 DEF HandlerInv

LEMMA OnlyWhenUp ==
  ASSUME ProcessInv
  PROVE  /\ \A r \in Req : rq[r].pc # "off" => boot = "up"
         /\ \A a \in Admin : ad[a].pc # "off" => boot = "up"
BY DEF ProcessInv, Off

LEMMA RequestTypes ==
  ASSUME ProcessInv, HandlerInv, NEW r \in Req, Request(r)
  PROVE  ProcessInv' /\ HandlerInv'
<1>0. clients \subseteq Dcr
  BY DEF ProcessInv
<1>1. ASSUME NEW c \in Client, resolveAuthorizeClient(r, c) PROVE ProcessInv' /\ HandlerInv'
  <2>1. [pc |-> "consent", client |-> c] \in Serves(nextHandle')
    BY DEF Serves
  <2> QED BY <1>0, <1>1, <2>1, RequestGoes
      DEF resolveAuthorizeClient, Arrives, Goto, Serving, storeVars, Handles
<1>2. ASSUME NEW c \in Client, handleRegister(r, c) PROVE ProcessInv' /\ HandlerInv'
  <2>1. [pc |-> "register", client |-> c] \in Serves(nextHandle')
    BY <1>2 DEF Serves, handleRegister
  <2> QED BY <1>0, <1>2, <2>1, RequestGoes
      DEF handleRegister, Arrives, Goto, Serving, storeVars, Handles
<1>3. ASSUME NEW h \in Issued, NEW c \in Client, NEW proof \in Proof,
             grantAuthorizationCode(r, h, c, proof)
      PROVE  ProcessInv' /\ HandlerInv'
  <2> DEFINE k == ConfidentialClient(c)
             rec == [pc |-> "take", client |-> c, code |-> h, proof |-> proof,
                     conf |-> k, entry |-> IF k # Nil THEN regs[k] ELSE Nil]
  <2>1. nextHandle' = nextHandle
    BY <1>3 DEF grantAuthorizationCode
  <2>2. k \in DOMAIN regs \cup {Nil} /\ (k # Nil => k \in EntryId /\ regs[k] \in Entry(nextHandle))
    BY EntriesFound DEF HandlerInv
  <2>3. Goto(r, rec)
    BY <1>3 DEF grantAuthorizationCode
  <2> HIDE DEF k
  <2>4. rec \in Serves(nextHandle')
    <3>1. CASE k # Nil
      BY <2>1, <2>2, <3>1 DEF Serves, Issued
    <3>2. CASE k = Nil
      BY <2>1, <3>2 DEF Serves, Issued
    <3> QED BY <3>1, <3>2
  <2> HIDE DEF rec
  <2> QED BY <1>0, <1>3, <2>3, <2>4, RequestGoes
      DEF grantAuthorizationCode, Arrives, Goto, Serving, storeVars, Handles
<1>4. ASSUME NEW h \in Issued, NEW secret \in BOOLEAN, grantRefreshToken(r, h, secret)
      PROVE  ProcessInv' /\ HandlerInv'
  <2> DEFINE rec == [pc |-> "rotate", token |-> h,
                     ttl |-> issuanceTTL(series[RefreshSeries(h)].client)]
  <2>1. rec \in Serves(nextHandle')
    BY <1>4, TTLType DEF Serves, Issued, grantRefreshToken
  <2>2. Goto(r, rec)
    BY <1>4 DEF grantRefreshToken
  <2> HIDE DEF rec
  <2> QED BY <1>0, <1>4, <2>1, <2>2, RequestGoes
      DEF grantRefreshToken, Arrives, Goto, Serving, storeVars, Handles
<1> QED BY <1>1, <1>2, <1>3, <1>4 DEF Request

LEMMA HandlerTypes ==
  ASSUME ProcessInv, HandlerInv, NEW r \in Req, Handler(r)
  PROVE  ProcessInv' /\ HandlerInv'
<1>0. /\ boot = "up" /\ rq[r] \in Serves(nextHandle) /\ \A n : Off \in Serves(n)
      /\ clients \subseteq Dcr
  BY OnlyWhenUp DEF ProcessInv, HandlerInv, Serves, Handler, authorizeConsent, PutCode, PutClient, TakeCode,
     ReadScope, Issue, Rotate
<1>1. ASSUME NEW v \in Issued, authorizeConsent(r, v) PROVE ProcessInv' /\ HandlerInv'
  <2>1. nextHandle' = nextHandle /\ rq[r].client \in Client
    BY <1>0, <1>1 DEF authorizeConsent, Serves, Off
  <2>2. \E rec \in Serves(nextHandle') : rq' = [rq EXCEPT ![r] = rec]
    BY <1>0, <1>1, <2>1 DEF authorizeConsent, Done, Goto, Serves
  <2> QED BY <1>0, <1>1, <2>1, <2>2, RequestGoes DEF authorizeConsent, storeVars, Handles
<1>2. CASE PutCode(r)
  <2>1. Handles
    BY <1>2 DEF PutCode, Fresh, Handles
  <2> QED BY <1>0, <1>2, <2>1, RequestGoes, HandlesGrow DEF PutCode, Done, Goto
<1>3. CASE PutClient(r)
  <2>1. rq[r].client \in Dcr
    BY <1>0, <1>3 DEF PutClient, Serves, Off
  <2> QED BY <1>0, <1>3, <2>1, RequestGoes, HandlesGrow DEF PutClient, Done, Goto, Handles
<1>4. CASE TakeCode(r)
  <2>1. [rq[r] EXCEPT !.pc = "scope"] \in Serves(nextHandle) /\ nextHandle' = nextHandle
    BY <1>0, <1>4 DEF TakeCode, Serves, Off
  <2>2. \E rec \in Serves(nextHandle') : rq' = [rq EXCEPT ![r] = rec]
    BY <1>0, <1>4, <2>1, HandlesGrow DEF TakeCode, Done, Goto, Handles
  <2> QED BY <1>0, <1>4, <2>1, <2>2, RequestGoes DEF TakeCode, Handles
<1>5. CASE ReadScope(r)
  <2> DEFINE c == rq[r].client
             i == DomainEntryForClient(c)
             rec == [pc |-> "issue", client |-> c, code |-> rq[r].code,
                     scope |-> IF rq[r].conf # Nil THEN rq[r].entry.scope
                               ELSE IF i # Nil THEN regs[i].scope ELSE Star,
                     ttl |-> issuanceTTL(c)]
  <2>1. /\ c \in Client /\ rq[r].code \in 1..(nextHandle - 1)
        /\ rq[r].conf # Nil => rq[r].entry \in Entry(nextHandle)
    BY <1>0, <1>5 DEF ReadScope, Serves, Off
  <2>2. i # Nil => regs[i] \in Entry(nextHandle)
    BY EntriesFound DEF HandlerInv
  <2>3. rec.scope \in Scope
    BY <2>1, <2>2, OAuthAssumption DEF Entry
  <2>4. nextHandle' = nextHandle
    BY <1>5 DEF ReadScope
  <2>5. rec \in Serves(nextHandle')
    BY <2>1, <2>3, <2>4, TTLType DEF Serves
  <2>6. Goto(r, rec) \/ Goto(r, Off)
    BY <1>5 DEF ReadScope, Done
  <2> HIDE DEF rec
  <2>7. \E x \in Serves(nextHandle') : rq' = [rq EXCEPT ![r] = x]
    BY <1>0, <2>4, <2>5, <2>6, HandlesGrow DEF Handles, Goto
  <2> QED BY <1>0, <1>5, <2>7, RequestGoes DEF ReadScope, storeVars, Handles
<1>6. CASE Issue(r)
  <2>1. Handles
    BY <1>6 DEF Issue, NewSeries, Fresh, Handles
  <2> QED BY <1>0, <1>6, <2>1, RequestGoes, HandlesGrow DEF Issue, Done, Goto
<1>7. CASE Rotate(r)
  <2>1. UNCHANGED nextHandle \/ \E h \in Handle : Fresh(h)
    BY <1>7 DEF Rotate
  <2>2. Handles
    BY <2>1 DEF Fresh, Handles
  <2> QED BY <1>0, <1>7, <2>2, RequestGoes, HandlesGrow DEF Rotate, Done, Goto
<1> QED BY <1>1, <1>2, <1>3, <1>4, <1>5, <1>6, <1>7 DEF Handler

LEMMA EntryOfType ==
  ASSUME NEW mode \in {"domain", "confidential"}, NEW ident \in Domain \cup Conf,
         NEW scope \in Scope, NEW expires \in Nat, NEW n \in Nat \ {0}
  PROVE  EntryOf(mode, ident, scope, expires) \in Entry(n)
<1>1. 0 \in 0..(n - 1) /\ <<0, 0>> \in Nat \X Nat
  OBVIOUS
<1> QED BY <1>1 DEF Entry, EntryOf, Nil

LEMMA AdministerTypes ==
  ASSUME ProcessInv, HandlerInv, NEW a \in Admin, Administer(a)
  PROVE  ProcessInv' /\ HandlerInv'
<1>0. /\ clients \subseteq Dcr /\ nextHandle \in Nat /\ nextHandle - 1 \in Nat /\ now \in Nat
      /\ ad[a] \in Administers(nextHandle) /\ \A n : Off \in Administers(n)
      /\ DOMAIN regs \subseteq EntryId /\ \A i \in DOMAIN regs : regs[i] \in Entry(nextHandle)
      /\ ad[a].pc # "off" => boot = "up"
  BY OnlyWhenUp DEF ProcessInv, HandlerInv, Administers
<1>1. ASSUME NEW d \in Domain, NEW t \in Ttl, NEW s \in Offered, handleDomainCreate(a, d, t, s)
      PROVE  ProcessInv' /\ HandlerInv'
  <2> DEFINE e == EntryOf("domain", d, Star, 0)
  <2>1. e \in Entry(nextHandle) /\ [e EXCEPT !.ttl = t, !.scope = s] \in Entry(nextHandle)
    <3>1. Star \in Scope /\ t \in Nat \X Nat /\ s \in Scope /\ nextHandle \in Nat \ {0}
      BY OAuthAssumption DEF Offered, ProcessInv
    <3>2. e \in Entry(nextHandle)
      BY <3>1, EntryOfType
    <3> HIDE DEF e
    <3> QED BY <3>1, <3>2 DEF Entry
  <2>2. PICK i \in EntryId :
          /\ CreateRegistration(i, e)
          /\ \/ Then(a, Off)
             \/ Then(a, [pc |-> "store", id |-> i, entry |-> [e EXCEPT !.ttl = t, !.scope = s]])
    BY <1>1 DEF handleDomainCreate
  <2> HIDE DEF e
  <2>3. /\ DOMAIN regs' \subseteq EntryId
        /\ \A j \in DOMAIN regs' : regs'[j] \in Entry(nextHandle)
    BY <1>0, <2>1, <2>2 DEF CreateRegistration, Put
  <2>4. \E rec \in Administers(nextHandle) : ad' = [ad EXCEPT ![a] = rec]
    BY <1>0, <2>1, <2>2 DEF Administers, Then
  <2>5. nextHandle' = nextHandle /\ boot = "up"
    BY <1>1 DEF handleDomainCreate, Asks, Serving
  <2> QED BY <1>0, <1>1, <2>3, <2>4, <2>5, AdministratorGoes DEF handleDomainCreate, Handles
<1>2. ASSUME NEW i \in EntryId, NEW t \in Ttl, NEW s \in Offered, handleDomainUpdate(a, i, t, s)
      PROVE  ProcessInv' /\ HandlerInv'
  <2> DEFINE e == [regs[i] EXCEPT !.ttl = t, !.scope = s]
             rec == [pc |-> IF s # regs[i].scope THEN "revoke" ELSE "store", id |-> i, entry |-> e]
  <2>1. e \in Entry(nextHandle) /\ nextHandle' = nextHandle /\ boot = "up" /\ Then(a, rec)
    BY ZenonT(60), <1>0, <1>2, OAuthAssumption DEF Entry, Offered, handleDomainUpdate, Asks, Serving
  <2>2. rec \in Administers(nextHandle')
    BY <2>1 DEF Administers
  <2> HIDE DEF rec
  <2> QED BY <1>0, <1>2, <2>1, <2>2, AdministratorGoes
      DEF handleDomainUpdate, Handles, Then, storeVars
<1>3. ASSUME NEW i \in EntryId, handleDomainGenerateConsent(a, i) PROVE ProcessInv' /\ HandlerInv'
  <2>1. Handles /\ boot = "up" /\ nextHandle' = nextHandle + 1
    BY <1>3 DEF handleDomainGenerateConsent, Fresh, Handles, Asks, Serving
  <2> DEFINE e == GenerateDomainConsent(i, nextHandle)
             rec == [pc |-> "store", id |-> i, entry |-> e]
  <2>2. regs[i] \in Entry(nextHandle') /\ nextHandle \in 0..(nextHandle' - 1)
    BY <1>0, <1>3, <2>1, HandlesGrow DEF handleDomainGenerateConsent
  <2>3. e \in Entry(nextHandle')
    BY <2>2 DEF Entry, GenerateDomainConsent
  <2>4. rec \in Administers(nextHandle')
    BY <2>3 DEF Administers
  <2>5. Then(a, rec)
    BY <1>3 DEF handleDomainGenerateConsent, Fresh
  <2> HIDE DEF rec
  <2>6. UNCHANGED <<regs, clients, rq, boot, now, markers>>
    BY <1>3 DEF handleDomainGenerateConsent, storeVars
  <2> QED BY <1>0, <2>1, <2>4, <2>5, <2>6, AdministratorGoes, HandlesGrow DEF Then
<1>4. ASSUME NEW i \in EntryId, handleDomainDelete(a, i) \/ handleConfidentialRevoke(a, i)
      PROVE  ProcessInv' /\ HandlerInv'
  <2>1. PICK pc \in {"cut", "cutClient"} : Then(a, [pc |-> pc, id |-> i, entry |-> regs[i]])
    BY <1>4 DEF handleDomainDelete, handleConfidentialRevoke
  <2>2. [pc |-> pc, id |-> i, entry |-> regs[i]] \in Administers(nextHandle)
    BY <1>0, <1>4 DEF Administers, handleDomainDelete, handleConfidentialRevoke
  <2>3. UNCHANGED <<regs, clients, rq, boot, now, markers, nextHandle>> /\ boot = "up"
    BY <1>4 DEF handleDomainDelete, handleConfidentialRevoke, storeVars, Asks, Serving
  <2> QED BY <1>0, <2>1, <2>2, <2>3, AdministratorGoes DEF Then, Handles
<1>5. CASE RevokeByDomain(a) \/ RevokeByClientID(a)
  <2>1. PICK pc \in {"store", "delete"} : Then(a, [ad[a] EXCEPT !.pc = pc])
    BY <1>5 DEF RevokeByDomain, RevokeByClientID
  <2>2. ad[a].pc # "off"
    BY <1>5 DEF RevokeByDomain, RevokeByClientID
  <2>3. [ad[a] EXCEPT !.pc = pc] \in Administers(nextHandle)
    BY <1>0, <2>2 DEF Administers, Off
  <2>4. UNCHANGED <<regs, clients, rq, boot, now, markers, nextHandle>>
    BY <1>5 DEF RevokeByDomain, RevokeByClientID
  <2> QED BY <1>0, <2>1, <2>2, <2>3, <2>4, AdministratorGoes DEF Then, Handles
<1>6. CASE UpdateRegistration(a)
  <2>1. ad[a].pc # "off" /\ ad[a].entry \in Entry(nextHandle)
    BY <1>0, <1>6 DEF UpdateRegistration, Administers, Off
  <2>2. /\ DOMAIN regs' \subseteq EntryId
        /\ \A j \in DOMAIN regs' : regs'[j] \in Entry(nextHandle)
    BY <1>0, <1>6, <2>1 DEF UpdateRegistration, Put
  <2> QED BY <1>0, <1>6, <2>1, <2>2, AdministratorGoes DEF UpdateRegistration, Then, Handles
<1>7. CASE DeleteRegistration(a)
  <2>1. /\ DOMAIN regs' \subseteq EntryId
        /\ \A j \in DOMAIN regs' : regs'[j] \in Entry(nextHandle)
    BY <1>0, <1>7 DEF DeleteRegistration, Drop
  <2> QED BY <1>0, <1>7, <2>1, AdministratorGoes DEF DeleteRegistration, Then, Handles
\* The others leave the administrator's handler off.
<1>8. ASSUME ad' = ad, ad[a] = Off, boot = "up", Handles,
             DOMAIN regs' \subseteq EntryId, \A i \in DOMAIN regs' : regs'[i] \in Entry(nextHandle'),
             UNCHANGED <<clients, rq, boot, now, markers>>
      PROVE  ProcessInv' /\ HandlerInv'
  <2>1. ad' = [ad EXCEPT ![a] = Off]
    BY <1>8 DEF HandlerInv
  <2> QED BY <1>0, <1>8, <2>1, AdministratorGoes
<1>9. ASSUME NEW c \in Conf, NEW s \in Offered, NEW t \in Ttl,
             handleConfidentialIssue(a, c, s, t[1] + 1)
      PROVE  ProcessInv' /\ HandlerInv'
  <2>1. EntryOf("confidential", c, s, now + (t[1] + 1)) \in Entry(nextHandle)
    <3>1. t \in Nat \X Nat /\ s \in Scope /\ nextHandle \in Nat \ {0}
      BY OAuthAssumption DEF Offered, ProcessInv
    <3>2. now + (t[1] + 1) \in Nat
      BY <1>0, <3>1
    <3> QED BY <3>1, <3>2, EntryOfType
  <2>2. /\ DOMAIN regs' \subseteq EntryId
        /\ \A j \in DOMAIN regs' : regs'[j] \in Entry(nextHandle)
    BY <1>0, <1>9, <2>1 DEF handleConfidentialIssue, IssueConfidentialClient, Put
  <2> QED BY <1>8, <1>9, <2>2 DEF handleConfidentialIssue, Asks, Serving, Handles
<1>10. ASSUME NEW s \in Issued, handleOAuthRevoke(a, s) PROVE ProcessInv' /\ HandlerInv'
  BY <1>0, <1>8, <1>10 DEF handleOAuthRevoke, Asks, Serving, Handles
<1>11. ASSUME NEW s \in Offered, NEW t \in Ttl, handleOAuthIssueSelf(a, s, t[1])
       PROVE  ProcessInv' /\ HandlerInv'
  <2>1. Handles
    BY <1>11 DEF handleOAuthIssueSelf, IssueSelf, NewSeries, Fresh, Handles
  <2> QED BY <1>0, <1>8, <1>11, <2>1, HandlesGrow DEF handleOAuthIssueSelf, Asks, Serving
<1>12. ASSUME NEW p \in Principal, RevokeByPrincipalEmail(a, p) PROVE ProcessInv' /\ HandlerInv'
  BY <1>0, <1>8, <1>12 DEF RevokeByPrincipalEmail, Asks, Serving, Handles
<1>13. CASE RewriteScopes(a)
  BY <1>0, <1>8, <1>13 DEF RewriteScopes, Asks, Serving, Handles
<1> QED BY <1>1, <1>2, <1>3, <1>4, <1>5, <1>6, <1>7, <1>9, <1>10, <1>11, <1>12, <1>13
        DEF Administer

\* Start-up, the cleaner, the clock and a crash.
System == Open \/ BootSweep \/ Seed \/ Sweep \/ Crash \/ Tick

LEMMA SystemTypes ==
  ASSUME ProcessInv, HandlerInv, System
  PROVE  ProcessInv' /\ HandlerInv'
<1>1. nextHandle' = nextHandle
  BY DEF System, Open, BootSweep, Seed, Sweep, Crash, Tick
<1>2. ProcessInv'
  <2>1. now' \in 0..MaxNow
    <3>1. \/ now' = now
          \/ now < MaxNow /\ now' = now + 1
      BY DEF System, Open, BootSweep, Seed, Sweep, Crash, Tick
    <3> QED BY <3>1, OAuthAssumption DEF ProcessInv
  <2>2. /\ boot' \in {"down", "opened", "swept", "up"} /\ clients' \subseteq Dcr
        /\ markers' \subseteq {"hashed", "seeded"}
    BY DEF ProcessInv, System, Open, BootSweep, Seed, Sweep, Crash, Tick, storeVars
  <2>3. boot' # "up" => /\ \A r \in Req : rq'[r] = Off
                        /\ \A a \in Admin : ad'[a] = Off
    BY DEF ProcessInv, System, Open, BootSweep, Seed, Sweep, Crash, Tick, Serving
  <2> QED BY <1>1, <2>1, <2>2, <2>3 DEF ProcessInv
<1>3. rq' \in [Req -> Serves(nextHandle)] /\ ad' \in [Admin -> Administers(nextHandle)]
  BY ZenonT(60) DEF HandlerInv, System, Open, BootSweep, Seed, Sweep, Crash, Tick, Serves, Administers
<1>4. DOMAIN regs' \subseteq EntryId /\ \A i \in DOMAIN regs' : regs'[i] \in Entry(nextHandle)
  <2>1. CASE ~Seed \/ Seeded
    BY <2>1 DEF HandlerInv, System, Open, BootSweep, Seed, Sweep, Crash, Tick, storeVars
  <2>2. CASE Seed /\ ~Seeded
    <3>1. PICK f \in [Seeds -> EntryId \ used] :
            regs' = [i \in DOMAIN regs \cup {f[d] : d \in Seeds} |->
                 IF i \in DOMAIN regs THEN regs[i]
                 ELSE [EntryOf("domain", CHOOSE d \in Seeds : f[d] = i, Star, 0)
                        EXCEPT !.consent = 1, !.ttl = <<AccessTTL, RefreshTTL>>]]
      BY <2>2 DEF Seed
    <3>2. 1 \in 0..(nextHandle - 1) /\ <<AccessTTL, RefreshTTL>> \in Nat \X Nat /\ Star \in Scope
      BY OAuthAssumption DEF ProcessInv
    <3>3. \A d \in Seeds :
            [EntryOf("domain", d, Star, 0)
               EXCEPT !.consent = 1, !.ttl = <<AccessTTL, RefreshTTL>>] \in Entry(nextHandle)
      BY <3>2, OAuthAssumption DEF Entry, EntryOf
    <3>4. ASSUME NEW i \in DOMAIN regs' \ DOMAIN regs PROVE (CHOOSE d \in Seeds : f[d] = i) \in Seeds
      BY <3>1
    <3>5. ASSUME NEW i \in DOMAIN regs' PROVE i \in EntryId /\ regs'[i] \in Entry(nextHandle)
      <4>1. CASE i \in DOMAIN regs
        BY <3>1, <4>1 DEF HandlerInv
      <4>2. CASE i \notin DOMAIN regs
        <5>1. i \in {f[d] : d \in Seeds}
          BY <3>1, <4>2
        <5>2. i \in EntryId
          BY <5>1
        <5> DEFINE d == CHOOSE d \in Seeds : f[d] = i
        <5>3. regs'[i] = [EntryOf("domain", d, Star, 0)
                            EXCEPT !.consent = 1, !.ttl = <<AccessTTL, RefreshTTL>>]
          BY <3>1, <4>2
        <5>4. d \in Seeds
          BY <3>4, <4>2
        <5> HIDE DEF d
        <5> QED BY <3>3, <5>2, <5>3, <5>4
      <4> QED BY <4>1, <4>2
    <3> QED BY <3>5
  <2> QED BY <2>1, <2>2
<1> QED BY <1>1, <1>2, <1>3, <1>4 DEF HandlerInv

LEMMA TypesInit == Init => ProcessInv /\ HandlerInv
<1> SUFFICES ASSUME Init PROVE ProcessInv /\ HandlerInv
  OBVIOUS
<1>1. ProcessInv
  BY OAuthAssumption DEF Init, ProcessInv
<1>2. HandlerInv
  BY DEF Init, HandlerInv, Serves, Administers, EmptyMap
<1> QED BY <1>1, <1>2

LEMMA TypesNext == ProcessInv /\ HandlerInv /\ [Next]_vars => (ProcessInv /\ HandlerInv)'
<1>1. ASSUME ProcessInv, HandlerInv, UNCHANGED vars PROVE ProcessInv' /\ HandlerInv'
  BY <1>1 DEF vars, storeVars, ProcessInv, HandlerInv
<1> QED BY <1>1, RequestTypes, HandlerTypes, AdministerTypes, SystemTypes DEF Next, System

----------------------------------------------------------------------------
(* The series and their pointers *)

\* The layout of the keys stays as it is.
KeepsLayout ==
  /\ "hashed" \in markers' <=> "hashed" \in markers
  /\ boot' # "down" => "hashed" \in markers

LEMMA SeriesQuiet ==
  ASSUME ProcessInv, SeriesInv, Handles, KeepsLayout, UNCHANGED <<series, access, refresh, held>>
  PROVE  SeriesInv'
<1>1. \A s : CurrentKey(s)' = CurrentKey(s)
  BY DEF CurrentKey, KeepsLayout
<1> QED BY <1>1, HandlesGrow DEF SeriesInv, KeepsLayout, IsMap

\* The store's keys are those of handles that were given out.
LEMMA KeysIssued ==
  ASSUME SeriesInv
  PROVE  \A k \in DOMAIN access : k.of \in Issued
<1> SUFFICES ASSUME NEW s \in DOMAIN series PROVE series[s].acc.of \in Issued
  BY DEF SeriesInv
<1>1. s \in DOMAIN held /\ series[s].acc = CurrentKey(s)
  BY DEF SeriesInv
<1>2. held[s] \in Issued
  BY <1>1 DEF SeriesInv
<1> QED BY <1>1, <1>2 DEF CurrentKey

\* Ending series takes their pointers along, and no other pointer.
LEMMA SeriesEnd ==
  ASSUME ProcessInv, SeriesInv, NEW S \in SUBSET DOMAIN series, deleteSeries(S),
         KeepsLayout, UNCHANGED <<held, nextHandle>>
  PROVE  SeriesInv'
<1>1. /\ DOMAIN series' = DOMAIN series \ S
      /\ \A s \in DOMAIN series' : series'[s] = series[s]
  BY DEF deleteSeries, Drop
<1>2. \A s : CurrentKey(s)' = CurrentKey(s)
  BY DEF CurrentKey, KeepsLayout
<1>3. \A s \in DOMAIN series : series[s].ref = series[s].acc
  BY DEF SeriesInv
<1>4. refresh' = access'
  <2>1. {series[s].ref : s \in S} = {series[s].acc : s \in S}
    BY <1>3
  <2> QED BY <2>1 DEF SeriesInv, deleteSeries
<1>5. /\ DOMAIN access' = DOMAIN access \ {series[s].acc : s \in S}
      /\ \A k \in DOMAIN access' : access'[k] = access[k]
      /\ IsMap(access')
  BY DEF deleteSeries, Drop, IsMap
<1>6. \A s \in DOMAIN series' : series[s].acc \in DOMAIN access'
  BY <1>1, <1>5 DEF SeriesInv
<1>7. DOMAIN access' = {series'[s].acc : s \in DOMAIN series'}
  BY <1>1, <1>5, <1>6 DEF SeriesInv
<1>8. \A s \in DOMAIN series' : access'[series'[s].acc] = s
  BY <1>1, <1>5, <1>6 DEF SeriesInv
<1>9. Issued' = Issued
  BY DEF Issued
<1> QED BY <1>1, <1>2, <1>4, <1>5, <1>7, <1>8, <1>9 DEF SeriesInv, KeepsLayout

\* A new pair, of a new series or in place of the pair of series sid.
LEMMA SeriesPut ==
  ASSUME ProcessInv, SeriesInv, "hashed" \in markers, markers' = markers,
         nextHandle <= MaxHandles, nextHandle' = nextHandle + 1,
         NEW sid, NEW old, IF old = Nil THEN sid = nextHandle ELSE sid \in DOMAIN series,
         NEW rec \in SeriesType, rec.acc = Key(nextHandle), rec.ref = Key(nextHandle),
         putSeriesTx(rec, sid, old), held' = Put(held, sid, nextHandle)
  PROVE  SeriesInv'
<1> DEFINE h == nextHandle
           X == IF old = Nil THEN {} ELSE {series[sid].acc}
<1>1. Issued' = Issued \cup {h} /\ h \notin Issued
  BY HandlesGrow DEF Handles, ProcessInv
<1>2. Key(h) \notin DOMAIN access
  BY <1>1, KeysIssued DEF Key
<1>3. /\ DOMAIN series' = DOMAIN series \cup {sid}
      /\ series'[sid] = rec
      /\ \A s \in DOMAIN series \ {sid} : series'[s] = series[s]
  BY DEF putSeriesTx, Put
<1>4. /\ DOMAIN held' = DOMAIN held \cup {sid}
      /\ held'[sid] = h
      /\ \A s \in DOMAIN held \ {sid} : held'[s] = held[s]
  BY DEF Put
<1>5. DOMAIN series' \subseteq DOMAIN held' /\ DOMAIN held' \subseteq Issued'
  BY <1>1, <1>3, <1>4 DEF SeriesInv
<1>6. /\ \A s \in DOMAIN held' : held'[s] \in Issued'
      /\ \A s, t \in DOMAIN held' : held'[s] = held'[t] => s = t
  BY <1>1, <1>4 DEF SeriesInv
<1>7. \A s \in DOMAIN series' :
        /\ series'[s] \in SeriesType
        /\ series'[s].acc = CurrentKey(s)' /\ series'[s].ref = CurrentKey(s)'
  <2>1. CurrentKey(sid)' = Key(h)
    BY <1>4 DEF CurrentKey, Key
  <2>2. \A s \in DOMAIN series \ {sid} : CurrentKey(s)' = CurrentKey(s)
    BY <1>4 DEF SeriesInv, CurrentKey
  <2> QED BY <1>3, <2>1, <2>2 DEF SeriesInv
<1>8. X = IF old = Nil THEN {} ELSE {series[sid].ref}
  BY DEF SeriesInv
<1>9. refresh' = access' /\ access' = Put(Drop(access, X), Key(h), sid)
  BY <1>8 DEF SeriesInv, putSeriesTx
<1> HIDE DEF X
<1>10. /\ DOMAIN access' = (DOMAIN access \ X) \cup {Key(h)}
       /\ access'[Key(h)] = sid
       /\ \A k \in DOMAIN access \ X : access'[k] = access[k]
       /\ IsMap(access')
  BY <1>2, <1>9 DEF Put, Drop, IsMap
<1>11. \A s \in DOMAIN series \ {sid} : series[s].acc \in DOMAIN access \ X
  BY DEF SeriesInv, X
<1>12. \A k \in DOMAIN access \ X : \E s \in DOMAIN series \ {sid} : k = series[s].acc
  <2> SUFFICES ASSUME NEW s \in DOMAIN series, series[s].acc \notin X PROVE s # sid
    BY DEF SeriesInv
  <2>1. sid \in DOMAIN series => old # Nil
    BY <1>1 DEF SeriesInv
  <2> QED BY <2>1 DEF X
<1>13. DOMAIN access' = {series'[s].acc : s \in DOMAIN series'}
  BY <1>3, <1>10, <1>11, <1>12
<1>14. \A s \in DOMAIN series' : access'[series'[s].acc] = s
  BY <1>3, <1>10, <1>11 DEF SeriesInv
<1> QED BY <1>5, <1>6, <1>7, <1>9, <1>10, <1>13, <1>14 DEF SeriesInv

\* Pruning scopes leaves keys and pointers alone.
LEMMA SeriesRewrite ==
  ASSUME SeriesInv, NEW a \in Admin, RewriteScopes(a)
  PROVE  SeriesInv'
<1>1. /\ DOMAIN series' = DOMAIN series
      /\ \A s \in DOMAIN series : series'[s] = [series[s] EXCEPT !.scope = Pruned[@]]
      /\ UNCHANGED <<access, refresh, markers, boot, held, nextHandle>>
  BY DEF RewriteScopes, ghosts
<1>2. \A s \in DOMAIN series : /\ series'[s] \in SeriesType
                               /\ series'[s].acc = series[s].acc /\ series'[s].ref = series[s].ref
  BY <1>1, OAuthAssumption DEF SeriesInv, SeriesType
<1>3. \A s : CurrentKey(s)' = CurrentKey(s)
  BY <1>1 DEF CurrentKey
<1>4. Issued' = Issued
  BY <1>1 DEF Issued
<1>5. DOMAIN access' = {series'[s].acc : s \in DOMAIN series'}
  BY <1>1, <1>2 DEF SeriesInv
<1> QED BY <1>1, <1>2, <1>3, <1>4, <1>5 DEF SeriesInv

\* The migration hashes every key, in records and pointers alike.
LEMMA SeriesMigrate ==
  ASSUME ProcessInv, SeriesInv, Open
  PROVE  SeriesInv'
<1>1. CASE "hashed" \in markers
  BY <1>1 DEF SeriesInv, Open, storeVars, CurrentKey, Issued, ghosts, IsMap
<1>2. CASE "hashed" \notin markers
  <2>1. /\ series' = migrated(series, access, refresh)[1]
        /\ access' = migrated(series, access, refresh)[2]
        /\ refresh' = migrated(series, access, refresh)[3]
        /\ "hashed" \in markers' /\ UNCHANGED <<held, nextHandle>>
    BY <1>2 DEF Open, ghosts
  <2>2. /\ DOMAIN series' = DOMAIN series
        /\ \A s \in DOMAIN series :
             series'[s] = [series[s] EXCEPT !.acc = Rehash(@), !.ref = Rehash(@)]
    BY <2>1 DEF migrated
  <2>3. \A s \in DOMAIN series : series[s].acc = RawKey(held[s]) /\ series[s].ref = RawKey(held[s])
    <3>1. \A s : CurrentKey(s) = RawKey(held[s])
      <4>1. ("hashed" \in markers) = FALSE
        BY <1>2
      <4> QED BY <4>1, Zenon DEF CurrentKey, RawKey
    <3> QED BY <3>1 DEF SeriesInv
  <2>4. \A h : Rehash(RawKey(h)) = Key(h) /\ Key(h) # RawKey(h)
    BY DEF Rehash, RawKey, Key
  <2>5. \A s \in DOMAIN series : CurrentKey(s)' = Key(held[s]) /\ held[s] \in Nat
    <3>1. \A s : CurrentKey(s)' = Key(held[s])
      <4>1. ("hashed" \in markers') = TRUE /\ held' = held
        BY <2>1
      <4> QED BY <4>1, Zenon DEF CurrentKey, Key
    <3>2. Issued \subseteq Nat
      BY DEF Issued, ProcessInv
    <3>3. \A s \in DOMAIN series : held[s] \in Issued
      BY DEF SeriesInv
    <3> QED BY <3>1, <3>2, <3>3
  <2>6. \A s \in DOMAIN series : /\ series'[s] \in SeriesType
                                 /\ series'[s].acc = Key(held[s]) /\ series'[s].ref = Key(held[s])
    <3>1. \A h \in Nat : Key(h) \in StoreKey
      BY DEF Key, StoreKey
    <3> SUFFICES ASSUME NEW s \in DOMAIN series
                 PROVE  /\ series'[s] \in SeriesType
                        /\ series'[s].acc = Key(held[s]) /\ series'[s].ref = Key(held[s])
      OBVIOUS
    <3> DEFINE x == series[s]
    <3>2. x \in SeriesType /\ Key(held[s]) \in StoreKey
      BY <2>5, <3>1 DEF SeriesInv
    <3>3. Rehash(x.acc) = Key(held[s]) /\ Rehash(x.ref) = Key(held[s])
      BY <2>3, <2>4
    <3>4. series'[s] = [x EXCEPT !.acc = Rehash(@), !.ref = Rehash(@)]
      BY <2>2
    <3> HIDE DEF x
    <3> QED BY <3>2, <3>3, <3>4 DEF SeriesType
  <2>7. /\ DOMAIN access' = {Rehash(j) : j \in DOMAIN access}
        /\ \A k \in DOMAIN access' :
             access'[k] = IF k \in DOMAIN access THEN access[k] ELSE access[RawKey(k.of)]
        /\ refresh' = access' /\ IsMap(access')
    BY <2>1 DEF migrated, SeriesInv, IsMap
  <2>8. DOMAIN access = {RawKey(held[s]) : s \in DOMAIN series}
    BY <2>3 DEF SeriesInv
  <2>9. DOMAIN access' = {Key(held[s]) : s \in DOMAIN series}
    BY <2>4, <2>7, <2>8
  <2>10. \A h : Key(h) \notin DOMAIN access /\ RawKey(Key(h).of) = RawKey(h)
    BY <2>8 DEF Key, RawKey
  <2>11. \A s \in DOMAIN series : access'[Key(held[s])] = s
    <3> SUFFICES ASSUME NEW s \in DOMAIN series PROVE access'[Key(held[s])] = s
      OBVIOUS
    <3>1. Key(held[s]) \in DOMAIN access' /\ Key(held[s]) \notin DOMAIN access
      BY <2>9, <2>10
    <3>2. access'[Key(held[s])] = access[RawKey(held[s])]
      BY <2>7, <2>10, <3>1
    <3> QED BY <2>3, <3>2 DEF SeriesInv
  <2>12. Issued' = Issued
    BY <2>1 DEF Issued
  <2>13. DOMAIN access' = {series'[s].acc : s \in DOMAIN series'}
    BY <2>2, <2>6, <2>9
  <2>14. /\ DOMAIN series' \subseteq DOMAIN held' /\ DOMAIN held' \subseteq Issued'
         /\ \A s \in DOMAIN held' : held'[s] \in Issued'
         /\ \A s, t \in DOMAIN held' : held'[s] = held'[t] => s = t
    BY <2>1, <2>2, <2>12 DEF SeriesInv
  <2>15. \A s \in DOMAIN series' :
           /\ series'[s] \in SeriesType
           /\ series'[s].acc = CurrentKey(s)' /\ series'[s].ref = CurrentKey(s)'
    BY <2>2, <2>5, <2>6
  <2>16. \A s \in DOMAIN series' : access'[series'[s].acc] = s
    BY <2>2, <2>6, <2>11
  <2> QED BY <2>1, <2>7, <2>13, <2>14, <2>15, <2>16 DEF SeriesInv
<1> QED BY <1>1, <1>2

\* A first pair of a new series.
LEMMA SeriesNew ==
  ASSUME ProcessInv, SeriesInv, "hashed" \in markers, markers' = markers,
         NEW client \in Client, NEW scope \in Scope, NEW aTTL \in Nat, NEW rTTL \in Nat, NEW c,
         NewSeries(client, Bound, scope, aTTL, rTTL, c)
  PROVE  SeriesInv'
<1> DEFINE h == nextHandle
           rec == SeriesRecord(h, client, Bound, scope, aTTL, rTTL)
<1>1. /\ nextHandle <= MaxHandles /\ nextHandle' = nextHandle + 1
      /\ putSeriesTx(rec, h, Nil) /\ held' = Put(held, h, h)
  BY DEF NewSeries, Fresh
<1>2. /\ rec \in SeriesType /\ rec.acc = Key(h) /\ rec.ref = Key(h)
  BY OAuthAssumption DEF SeriesRecord, SeriesType, StoreKey, Key, ProcessInv
<1> HIDE DEF rec
<1> QED BY <1>1, <1>2, SeriesPut

\* Only a series that is still there gets a new pair.
LEMMA SeriesRotate ==
  ASSUME ProcessInv, HandlerInv, SeriesInv, NEW r \in Req, Rotate(r)
  PROVE  SeriesInv'
<1> DEFINE s == RefreshSeries(rq[r].token)
           t == rq[r].ttl
           h == nextHandle
           rec == [series[s] EXCEPT !.acc = Key(h), !.ref = Key(h),
                                    !.accExp = now + t[1], !.refExp = now + t[2]]
<1>1. /\ boot = "up" /\ "hashed" \in markers /\ UNCHANGED <<markers, boot>>
      /\ t \in Nat \X Nat
  <2>1. rq[r].pc = "rotate" /\ rq[r] \in Serves(nextHandle)
    BY DEF HandlerInv, Rotate
  <2>2. t \in Nat \X Nat
    BY <2>1 DEF Serves, Off
  <2>3. boot = "up" /\ UNCHANGED <<markers, boot>>
    BY <2>1, OnlyWhenUp DEF Rotate
  <2> QED BY <2>2, <2>3 DEF SeriesInv
<1>2. \/ UNCHANGED <<tokenVars, nextHandle, held>>
      \/ s # Nil /\ deleteSeries({s}) /\ UNCHANGED <<nextHandle, held>>
      \/ s # Nil /\ Fresh(h) /\ putSeriesTx(rec, s, 1) /\ held' = Put(held, s, h)
  BY DEF Rotate, Fresh
<1>3. s # Nil => s \in DOMAIN series
  BY DEF RefreshSeries
<1>4. KeepsLayout
  BY <1>1 DEF KeepsLayout
<1>5. CASE UNCHANGED <<tokenVars, nextHandle, held>>
  BY <1>4, <1>5, SeriesQuiet DEF tokenVars, Handles
<1>6. CASE s # Nil /\ deleteSeries({s}) /\ UNCHANGED <<nextHandle, held>>
  <2> HIDE DEF s
  <2> QED BY <1>3, <1>4, <1>6, SeriesEnd
<1>7. CASE s # Nil /\ Fresh(h) /\ putSeriesTx(rec, s, 1) /\ held' = Put(held, s, h)
  <2>1. s \in DOMAIN series /\ series[s] \in SeriesType
    BY <1>3, <1>7 DEF SeriesInv
  <2>2. Key(h) \in StoreKey /\ now + t[1] \in Nat /\ now + t[2] \in Nat
    BY <1>1, OAuthAssumption DEF Key, StoreKey, ProcessInv
  <2> HIDE DEF s, t
  <2>3. rec \in SeriesType /\ rec.acc = Key(h) /\ rec.ref = Key(h)
    BY <2>1, <2>2 DEF SeriesType
  <2>4. 1 # Nil
    BY DEF Nil
  <2> HIDE DEF rec
  <2> QED BY <1>1, <1>7, <2>1, <2>3, <2>4, SeriesPut DEF Fresh
<1> QED BY <1>2, <1>5, <1>6, <1>7

LEMMA SeriesInit == Init => SeriesInv
<1> SUFFICES ASSUME NEW old \in {{}, IF Legacy THEN {2} ELSE {}},
                    series = LegacySeries(old),
                    access = [k \in {RawKey(s) : s \in old} |-> k.of], refresh = access,
                    held = [s \in old |-> s], boot = "down", markers = {}, nextHandle = 3
             PROVE  SeriesInv
  BY DEF Init
<1>1. old = {} \/ old = {2}
  OBVIOUS
<1>2. Issued = 1..2 /\ old \subseteq Issued
  BY <1>1 DEF Issued
<1>3. \A s \in old : CurrentKey(s) = RawKey(s)
  <2>1. ("hashed" \in markers) = FALSE /\ \A s \in old : held[s] = s
    OBVIOUS
  <2> QED BY <2>1, Zenon DEF CurrentKey, RawKey
<1>4. \A s \in old : RawKey(s) \in StoreKey
  BY <1>1 DEF RawKey, StoreKey
<1>5. DOMAIN series = old
  BY DEF LegacySeries
<1>6. ASSUME NEW s \in old
      PROVE  series[s] \in SeriesType /\ series[s].acc = RawKey(s) /\ series[s].ref = RawKey(s)
  BY <1>4, OAuthAssumption DEF LegacySeries, SeriesType, Client
<1>7. \A s \in old : access[RawKey(s)] = s
  BY DEF RawKey
<1>8. DOMAIN access = {series[s].acc : s \in DOMAIN series}
  BY <1>5, <1>6
<1> QED BY <1>2, <1>3, <1>5, <1>6, <1>7, <1>8 DEF SeriesInv, IsMap

LEMMA SeriesNext ==
  ASSUME ProcessInv, HandlerInv, SeriesInv, [Next]_vars
  PROVE  SeriesInv'
<1> DEFINE Same == Handles /\ KeepsLayout /\ UNCHANGED <<series, access, refresh, held>>
<1>1. Same => SeriesInv'
  BY SeriesQuiet
<1>2. boot = "up" /\ UNCHANGED <<boot, markers>> => KeepsLayout /\ "hashed" \in markers
  BY DEF KeepsLayout, SeriesInv
<1>3. ASSUME NEW r \in Req, Request(r) PROVE SeriesInv'
  <2>1. Same
    BY <1>2, <1>3
    DEF Request, resolveAuthorizeClient, handleRegister, grantAuthorizationCode,
        grantRefreshToken, Arrives, Serving, storeVars, ghosts, Handles
  <2> QED BY <1>1, <2>1
<1>4. ASSUME NEW r \in Req, Handler(r) PROVE SeriesInv'
  <2>1. boot = "up"
    BY <1>4, OnlyWhenUp
    DEF Handler, authorizeConsent, PutCode, PutClient, TakeCode, ReadScope, Issue, Rotate
  <2>2. CASE Rotate(r)
    BY <2>2, SeriesRotate
  <2>3. CASE Issue(r)
    <3>1. /\ rq[r].client \in Client /\ rq[r].scope \in Scope
          /\ rq[r].ttl[1] \in Nat /\ rq[r].ttl[2] \in Nat
      BY <2>3 DEF HandlerInv, Serves, Off, Issue
    <3>2. markers' = markers /\ boot' = boot
      BY <2>3 DEF Issue
    <3> QED BY <1>2, <2>1, <2>3, <3>1, <3>2, SeriesNew DEF Issue
  <2>4. CASE ~Rotate(r) /\ ~Issue(r)
    <3>1. UNCHANGED <<series, access, refresh, held, boot, markers>>
      BY <1>4, <2>4
      DEF Handler, authorizeConsent, PutCode, PutClient, TakeCode, ReadScope, storeVars,
          tokenVars, ghosts
    <3>2. Handles
      BY <1>4, <2>4
      DEF Handler, authorizeConsent, PutCode, PutClient, TakeCode, ReadScope, Fresh, Handles
    <3> QED BY <1>1, <1>2, <2>1, <3>1, <3>2
  <2> QED BY <2>2, <2>3, <2>4
<1>5. ASSUME NEW a \in Admin, Administer(a) PROVE SeriesInv'
  <2>1. boot = "up" /\ UNCHANGED <<boot, markers>>
    BY <1>5, OnlyWhenUp
    DEF Administer, handleDomainCreate, handleDomainUpdate, handleDomainGenerateConsent,
        handleDomainDelete, handleConfidentialRevoke, RevokeByDomain, RevokeByClientID,
        UpdateRegistration, DeleteRegistration, handleConfidentialIssue, handleOAuthRevoke,
        handleOAuthIssueSelf, RevokeByPrincipalEmail, RewriteScopes, Asks, Serving, storeVars
  <2>2. KeepsLayout /\ "hashed" \in markers
    BY <1>2, <2>1
  <2>3. ASSUME NEW S \in SUBSET DOMAIN series, deleteSeries(S), UNCHANGED <<held, nextHandle>>
        PROVE  SeriesInv'
    BY <2>2, <2>3, SeriesEnd
  <2>4. CASE RevokeByDomain(a) \/ RevokeByClientID(a)
    <3>1. \A d : DomainSeries(d) \subseteq DOMAIN series /\ ClientSeries(d) \subseteq DOMAIN series
      BY DEF DomainSeries, ClientSeries
    <3>2. \E S \in SUBSET DOMAIN series : deleteSeries(S)
      BY <2>4, <3>1 DEF RevokeByDomain, RevokeByClientID
    <3> QED BY <2>3, <2>4, <3>2 DEF RevokeByDomain, RevokeByClientID, ghosts
  <2>5. ASSUME NEW s \in Issued, handleOAuthRevoke(a, s) PROVE SeriesInv'
    <3>1. deleteSeries({s} \cap DOMAIN series)
      BY <2>5 DEF handleOAuthRevoke, Revoke
    <3> QED BY <2>3, <2>5, <3>1 DEF handleOAuthRevoke, ghosts
  <2>6. ASSUME NEW p \in Principal, RevokeByPrincipalEmail(a, p) PROVE SeriesInv'
    <3>1. deleteSeries({s \in DOMAIN series : series[s].who = p})
      BY <2>6 DEF RevokeByPrincipalEmail
    <3> QED BY <2>3, <2>6, <3>1 DEF RevokeByPrincipalEmail, ghosts
  <2>7. ASSUME NEW s \in Offered, NEW t \in Ttl, handleOAuthIssueSelf(a, s, t[1]) PROVE SeriesInv'
    <3> DEFINE v == IF t[1] > 0 THEN t[1] ELSE AccessTTL
    <3>1. v \in Nat /\ Self \in Client /\ s \in Scope
      BY OAuthAssumption DEF Client, Offered
    <3>2. NewSeries(Self, Bound, s, v, v, Nil)
      BY <2>7 DEF handleOAuthIssueSelf, IssueSelf
    <3> HIDE DEF v
    <3> QED BY <2>1, <2>2, <3>1, <3>2, SeriesNew
  <2>8. CASE RewriteScopes(a)
    BY <2>8, SeriesRewrite
  <2>9. CASE UNCHANGED <<series, access, refresh, held>>
    <3>1. Handles
      BY <1>5
      DEF Administer, handleDomainCreate, handleDomainUpdate, handleDomainGenerateConsent,
          handleDomainDelete, handleConfidentialRevoke, RevokeByDomain, RevokeByClientID,
          UpdateRegistration, DeleteRegistration, handleConfidentialIssue, handleOAuthRevoke,
          handleOAuthIssueSelf, IssueSelf, NewSeries, RevokeByPrincipalEmail, RewriteScopes,
          Fresh, Handles
    <3> QED BY <1>1, <2>2, <2>9, <3>1
  <2>10. \/ RevokeByDomain(a) \/ RevokeByClientID(a) \/ RewriteScopes(a)
         \/ \E s \in Issued : handleOAuthRevoke(a, s)
         \/ \E p \in Principal : RevokeByPrincipalEmail(a, p)
         \/ \E s \in Offered, t \in Ttl : handleOAuthIssueSelf(a, s, t[1])
         \/ UNCHANGED <<series, access, refresh, held>>
    BY <1>5
    DEF Administer, handleDomainCreate, handleDomainUpdate, handleDomainGenerateConsent,
        handleDomainDelete, handleConfidentialRevoke, UpdateRegistration, DeleteRegistration,
        handleConfidentialIssue, storeVars, tokenVars, ghosts
  <2> QED BY <2>4, <2>5, <2>6, <2>7, <2>8, <2>9, <2>10
<1>6. CASE Open
  BY <1>6, SeriesMigrate
<1>7. CASE BootSweep \/ Sweep
  <2>1. KeepsLayout /\ deleteSeries({s \in DOMAIN series : Dead(s)}) /\ UNCHANGED <<held, nextHandle>>
    BY <1>7 DEF BootSweep, Sweep, DeleteDeadSeries, KeepsLayout, SeriesInv, ghosts, Serving
  <2> QED BY <2>1, SeriesEnd
<1>8. CASE Seed \/ Crash \/ Tick \/ UNCHANGED vars
  <2>1. KeepsLayout
    BY <1>8 DEF Seed, Crash, Tick, vars, storeVars, KeepsLayout, SeriesInv
  <2>2. Handles /\ UNCHANGED <<series, access, refresh, held>>
    BY <1>8 DEF Seed, Crash, Tick, vars, storeVars, tokenVars, ghosts, Handles
  <2> QED BY <1>1, <2>1, <2>2
<1> QED BY <1>3, <1>4, <1>5, <1>6, <1>7, <1>8 DEF Next

----------------------------------------------------------------------------
(* The codes *)

\* A step that stores no code, takes none and issues no series for one.
LEMMA CodeQuiet ==
  ASSUME ProcessInv, CodeInv, Handles, DOMAIN codes' \subseteq DOMAIN codes,
         \A k \in DOMAIN codes' : codes'[k] = codes[k],
         \A r \in Req, h \in Handle : Taken(r, h)' => Taken(r, h),
         \A s \in DOMAIN origin' : origin'[s] = Nil \/ (s \in DOMAIN origin /\ origin'[s] = origin[s])
  PROVE  CodeInv'
<1>1. Issued \subseteq Issued' /\ Issued \subseteq Handle
  BY HandlesGrow, OAuthAssumption DEF Issued, Handle, ProcessInv
<1>2. \A h \in Handle : Spent(h)' => Spent(h)
  BY OAuthAssumption DEF Spent, Handle, Nil
<1>3. CodeOnce'
  BY DEF CodeInv, CodeOnce
<1> QED BY <1>1, <1>2, <1>3 DEF CodeInv

\* A handler that leaves no code in its hands.
LEMMA NotTaken ==
  ASSUME HandlerInv, NEW r \in Req, NEW rec, rec.pc \notin {"scope", "issue"},
         rq' = [rq EXCEPT ![r] = rec]
  PROVE  \A q \in Req, h \in Handle : Taken(q, h)' => Taken(q, h)
<1>1. rq'[r] = rec /\ \A q \in Req \ {r} : rq'[q] = rq[q]
  BY DEF HandlerInv
<1> QED BY <1>1 DEF Taken

LEMMA CodePut ==
  ASSUME ProcessInv, HandlerInv, CodeInv, NEW r \in Req, PutCode(r),
         NEW h, h = nextHandle
  PROVE  CodeInv'
<1>1. /\ codes' = Put(codes, Key(h), CodeRecord(rq[r].client)) /\ origin' = origin
      /\ nextHandle <= MaxHandles /\ nextHandle' = nextHandle + 1
  BY DEF PutCode, Fresh, ghosts
<1>2. /\ Handles /\ Issued \subseteq Issued' /\ h \in Issued' /\ h \notin Issued /\ h # Nil
  BY <1>1, HandlesGrow DEF Handles, ProcessInv, Nil
<1>3. rq[r].client \in Client
  <2>1. rq[r].pc = "code" /\ rq[r] \in Serves(nextHandle)
    BY DEF HandlerInv, PutCode
  <2> QED BY <2>1 DEF Serves, Off
<1>4. \A q \in Req, k \in Handle : Taken(q, k)' => Taken(q, k)
  <2>1. rq' = [rq EXCEPT ![r] = Off] /\ Off.pc = "off"
    BY DEF PutCode, Done, Goto, Off
  <2> QED BY <2>1, NotTaken
<1>5. \A q \in Req : \A k : Taken(q, k) => k \in Issued
  <2> SUFFICES ASSUME NEW q \in Req, rq[q].pc \in {"scope", "issue"} PROVE rq[q].code \in Issued
    BY DEF Taken
  <2>1. rq[q] \in Serves(nextHandle)
    BY DEF HandlerInv
  <2> QED BY <2>1 DEF Serves, Off, Issued
<1>6. Issued \subseteq Handle /\ h \in Handle
  BY <1>1, OAuthAssumption DEF Issued, Handle, ProcessInv
<1>7. \A k : Spent(k)' <=> Spent(k)
  BY <1>1 DEF Spent
<1>8. ~Spent(h) /\ \A q \in Req : ~Taken(q, h)'
  <2>1. \A k : Spent(k) => k \in Issued \cup {Nil}
    BY DEF CodeInv, Spent
  <2> QED BY <1>2, <1>4, <1>5, <1>6, <2>1
<1>9. Key(h).of = h /\ CodeRecord(rq[r].client).client \in Client
  BY <1>3 DEF Key, CodeRecord
<1>10. ASSUME NEW k \in DOMAIN codes'
       PROVE  /\ codes'[k].client \in Client
              /\ k.of \in Issued' /\ k = Key(k.of)
              /\ ~Spent(k.of)' /\ \A q \in Req : ~Taken(q, k.of)'
  <2>1. CASE k = Key(h)
    BY <1>1, <1>2, <1>7, <1>8, <1>9, <2>1 DEF Put
  <2>2. CASE k # Key(h)
    <3>1. k \in DOMAIN codes /\ codes'[k] = codes[k]
      BY <1>1, <2>2 DEF Put
    <3>2. k.of \in Handle
      BY <1>6, <3>1 DEF CodeInv
    <3> QED BY <1>2, <1>4, <1>7, <3>1, <3>2 DEF CodeInv
  <2> QED BY <2>1, <2>2
<1>11. CodeOnce' /\ \A s \in DOMAIN origin' : origin'[s] \in Issued' \cup {Nil}
  BY <1>1, <1>2 DEF CodeInv, CodeOnce
<1> QED BY <1>4, <1>7, <1>10, <1>11 DEF CodeInv

\* The code leaves the store in the step in which its taker gets hold of it.
LEMMA CodeTake ==
  ASSUME ProcessInv, HandlerInv, CodeInv, NEW r \in Req, TakeCode(r)
  PROVE  CodeInv'
<1> DEFINE h == rq[r].code
<1>1. /\ codes' = Drop(codes, {Key(h)}) /\ UNCHANGED <<origin, nextHandle>>
      /\ \/ rq' = [rq EXCEPT ![r] = Off]
         \/ Key(h) \in DOMAIN codes /\ rq' = [rq EXCEPT ![r] = [rq[r] EXCEPT !.pc = "scope"]]
  BY DEF TakeCode, ghosts, Done, Goto
<1>2. Handles /\ Issued' = Issued
  BY <1>1 DEF Handles, Issued
<1>3. /\ DOMAIN codes' = DOMAIN codes \ {Key(h)}
      /\ \A k \in DOMAIN codes' : codes'[k] = codes[k]
  BY <1>1 DEF Drop
<1>4. CASE rq' = [rq EXCEPT ![r] = Off]
  <2>1. \A q \in Req, k \in Handle : Taken(q, k)' => Taken(q, k)
    BY <1>4, NotTaken DEF Off
  <2> QED BY <1>1, <1>2, <1>3, <2>1, CodeQuiet
<1>5. CASE Key(h) \in DOMAIN codes /\ rq' = [rq EXCEPT ![r] = [rq[r] EXCEPT !.pc = "scope"]]
  <2>1. rq[r].pc = "take" /\ rq[r] \in Serves(nextHandle)
    BY DEF HandlerInv, TakeCode
  <2>2. rq'[r].code = h /\ \A q \in Req \ {r} : rq'[q] = rq[q]
    BY <1>5, <2>1 DEF HandlerInv, Serves, Off
  <2>3. \A q \in Req : \A k : Taken(q, k)' => Taken(q, k) \/ (q = r /\ k = h)
    BY <2>2 DEF Taken
  <2>4. ~Spent(h) /\ \A q \in Req : ~Taken(q, h)
    BY <1>5 DEF CodeInv, Key
  <2>5. \A k : Spent(k)' <=> Spent(k)
    BY <1>1 DEF Spent
  <2>6. \A k \in DOMAIN codes' : k.of # h /\ k.of \in Handle
    <3>1. Issued \subseteq Handle
      BY OAuthAssumption DEF Issued, Handle, ProcessInv
    <3> QED BY <1>3, <3>1 DEF CodeInv
  <2>7. \A k \in DOMAIN codes' :
          /\ codes'[k].client \in Client
          /\ k.of \in Issued' /\ k = Key(k.of)
          /\ ~Spent(k.of)' /\ \A q \in Req : ~Taken(q, k.of)'
    BY <1>2, <1>3, <2>3, <2>5, <2>6 DEF CodeInv
  <2>8. /\ \A q, p \in Req, k \in Handle : Taken(q, k)' /\ Taken(p, k)' => p = q
        /\ \A q \in Req, k \in Handle : Taken(q, k)' => ~Spent(k)'
    BY <2>3, <2>4, <2>5 DEF CodeInv
  <2>9. CodeOnce' /\ \A s \in DOMAIN origin' : origin'[s] \in Issued' \cup {Nil}
    BY <1>1, <1>2 DEF CodeInv, CodeOnce
  <2> QED BY <2>7, <2>8, <2>9 DEF CodeInv
<1> QED BY <1>1, <1>4, <1>5

\* The series is issued for a code that its handler alone has taken.
LEMMA CodeIssue ==
  ASSUME ProcessInv, HandlerInv, SeriesInv, CodeInv, DOMAIN origin = DOMAIN held,
         NEW r \in Req, Issue(r)
  PROVE  CodeInv'
<1> DEFINE h == nextHandle
           c == rq[r].code
<1>1. /\ origin' = Put(origin, h, c) /\ codes' = codes
      /\ nextHandle <= MaxHandles /\ nextHandle' = nextHandle + 1
      /\ rq' = [rq EXCEPT ![r] = Off] /\ rq[r].pc = "issue"
  BY DEF Issue, NewSeries, Fresh, Done, Goto
<1>2. /\ Handles /\ Issued \subseteq Issued' /\ h \notin Issued
  BY <1>1, HandlesGrow DEF Handles
<1>3. Issued \subseteq Handle
  BY OAuthAssumption DEF Issued, Handle, ProcessInv
<1>4. c \in Issued
  <2>1. rq[r] \in Serves(nextHandle)
    BY DEF HandlerInv
  <2> QED BY <1>1, <2>1 DEF Serves, Off, Issued
<1>5. \A q \in Req, k \in Handle : Taken(q, k)' => Taken(q, k)
  BY <1>1, NotTaken DEF Off
<1>6. Taken(r, c) /\ \A k : ~Taken(r, k)'
  BY <1>1 DEF Taken, Off, HandlerInv
<1>7. h \notin DOMAIN origin
  BY <1>2 DEF SeriesInv
<1>8. /\ DOMAIN origin' = DOMAIN origin \cup {h} /\ origin'[h] = c
      /\ \A s \in DOMAIN origin : origin'[s] = origin[s]
  BY <1>1, <1>7 DEF Put
<1>9. ~Spent(c) /\ \A k : Spent(k)' <=> Spent(k) \/ k = c
  BY <1>3, <1>4, <1>6, <1>8 DEF Spent, CodeInv
<1>10. \A k \in DOMAIN codes' :
         /\ codes'[k].client \in Client
         /\ k.of \in Issued' /\ k = Key(k.of)
         /\ ~Spent(k.of)' /\ \A q \in Req : ~Taken(q, k.of)'
  <2> SUFFICES ASSUME NEW k \in DOMAIN codes
               PROVE  k.of # c /\ k.of \in Handle
    BY <1>1, <1>2, <1>5, <1>9 DEF CodeInv
  <2> QED BY <1>3, <1>6 DEF CodeInv
<1>11. /\ \A q, p \in Req, k \in Handle : Taken(q, k)' /\ Taken(p, k)' => p = q
       /\ \A q \in Req, k \in Handle : Taken(q, k)' => ~Spent(k)'
  BY <1>5, <1>6, <1>9 DEF CodeInv
<1>12. CodeOnce'
  BY <1>8, <1>9 DEF CodeInv, CodeOnce, Spent
<1>13. \A s \in DOMAIN origin' : origin'[s] \in Issued' \cup {Nil}
  BY <1>2, <1>4, <1>8 DEF CodeInv
<1> QED BY <1>10, <1>11, <1>12, <1>13 DEF CodeInv

LEMMA OriginNext ==
  ASSUME SeriesInv, OriginInv, [Next]_vars
  PROVE  OriginInv'
<1>1. \A h, c : held' = Put(held, h, h) /\ origin' = Put(origin, h, c) => OriginInv'
  BY DEF OriginInv, Put
<1>2. CASE UNCHANGED ghosts
  BY <1>2 DEF ghosts, OriginInv
<1>3. ASSUME NEW r \in Req, Rotate(r), ~UNCHANGED ghosts PROVE OriginInv'
  <2>1. /\ origin' = origin
        /\ \/ held' = held
           \/ \E h : held' = Put(held, RefreshSeries(rq[r].token), h)
        /\ held' # held => RefreshSeries(rq[r].token) # Nil
    BY <1>3 DEF Rotate
  <2>2. RefreshSeries(rq[r].token) # Nil => RefreshSeries(rq[r].token) \in DOMAIN held
    BY DEF SeriesInv, RefreshSeries
  <2> QED BY <2>1, <2>2 DEF OriginInv, Put
<1>4. ASSUME NEW r \in Req, Issue(r) PROVE OriginInv'
  BY <1>1, <1>4 DEF Issue, NewSeries
<1>5. ASSUME NEW a \in Admin, NEW s \in Offered, NEW t \in Ttl, handleOAuthIssueSelf(a, s, t[1])
      PROVE  OriginInv'
  BY <1>1, <1>5 DEF handleOAuthIssueSelf, IssueSelf, NewSeries
<1>6. ASSUME NEW r \in Req, Request(r) \/ Handler(r), ~Rotate(r), ~Issue(r)
      PROVE  UNCHANGED ghosts
  BY <1>6
  DEF Request, resolveAuthorizeClient, handleRegister, grantAuthorizationCode, grantRefreshToken,
      Handler, authorizeConsent, PutCode, PutClient, TakeCode, ReadScope
<1>7. ASSUME NEW a \in Admin, Administer(a),
             ~ \E s \in Offered, t \in Ttl : handleOAuthIssueSelf(a, s, t[1])
      PROVE  UNCHANGED ghosts
  BY <1>7
  DEF Administer, handleDomainCreate, handleDomainUpdate, handleDomainGenerateConsent,
      handleDomainDelete, handleConfidentialRevoke, RevokeByDomain, RevokeByClientID,
      UpdateRegistration, DeleteRegistration, handleConfidentialIssue, handleOAuthRevoke,
      RevokeByPrincipalEmail, RewriteScopes
<1>8. System \/ UNCHANGED vars => UNCHANGED ghosts
  BY DEF System, Open, BootSweep, Seed, Sweep, Crash, Tick, vars
<1> QED BY <1>2, <1>3, <1>4, <1>5, <1>6, <1>7, <1>8 DEF Next, System

LEMMA CodeInit == Init => CodeInv /\ OriginInv
<1> SUFFICES ASSUME NEW old, codes = EmptyMap, rq = [r \in Req |-> Off],
                    held = [s \in old |-> s], origin = [s \in old |-> Nil]
             PROVE  CodeInv /\ OriginInv
  BY DEF Init
<1>1. \A r \in Req : \A h : ~Taken(r, h)
  BY DEF Taken, Off
<1> QED BY <1>1 DEF CodeInv, CodeOnce, OriginInv, EmptyMap

LEMMA CodeNext ==
  ASSUME ProcessInv, HandlerInv, SeriesInv, OriginInv, CodeInv, [Next]_vars
  PROVE  CodeInv'
<1>1. ASSUME Handles, UNCHANGED <<codes, origin>>,
             \A r \in Req, h \in Handle : Taken(r, h)' => Taken(r, h)
      PROVE  CodeInv'
  BY <1>1, CodeQuiet
<1>2. rq' = rq => \A r \in Req, h \in Handle : Taken(r, h)' => Taken(r, h)
  BY DEF Taken
<1>3. ASSUME NEW r \in Req, Request(r) PROVE CodeInv'
  <2>1. \E rec : rec.pc \notin {"scope", "issue"} /\ rq' = [rq EXCEPT ![r] = rec]
    <3>1. ASSUME NEW c, resolveAuthorizeClient(r, c) \/ handleRegister(r, c)
          PROVE  \E pc \in {"consent", "register"} :
                   rq' = [rq EXCEPT ![r] = [pc |-> pc, client |-> c]]
      BY <3>1 DEF resolveAuthorizeClient, handleRegister, Goto
    <3>2. ASSUME NEW h, NEW c, NEW proof, grantAuthorizationCode(r, h, c, proof)
          PROVE  \E k, e : rq' = [rq EXCEPT ![r] =
                   [pc |-> "take", client |-> c, code |-> h, proof |-> proof,
                    conf |-> k, entry |-> e]]
      BY <3>2 DEF grantAuthorizationCode, Goto
    <3>3. ASSUME NEW h, NEW secret, grantRefreshToken(r, h, secret)
          PROVE  \E t : rq' = [rq EXCEPT ![r] = [pc |-> "rotate", token |-> h, ttl |-> t]]
      BY <3>3 DEF grantRefreshToken, Goto
    <3> QED BY <1>3, <3>1, <3>2, <3>3 DEF Request
  <2>2. \A q \in Req, h \in Handle : Taken(q, h)' => Taken(q, h)
    BY <2>1, NotTaken
  <2>3. Handles /\ UNCHANGED <<codes, origin>>
    BY <1>3 DEF Request, resolveAuthorizeClient, handleRegister, grantAuthorizationCode,
                grantRefreshToken, storeVars, ghosts, Handles
  <2> QED BY <1>1, <2>2, <2>3
<1>4. ASSUME NEW r \in Req, Handler(r) PROVE CodeInv'
  <2>1. CASE PutCode(r) \/ TakeCode(r) \/ Issue(r)
    BY <2>1, CodePut, CodeTake, CodeIssue DEF OriginInv
  <2>2. CASE ReadScope(r)
    <3>1. /\ rq[r].pc = "scope"
          /\ \/ rq' = [rq EXCEPT ![r] = Off]
             \/ \E s, t : rq' = [rq EXCEPT ![r] =
                  [pc |-> "issue", client |-> rq[r].client, code |-> rq[r].code,
                   scope |-> s, ttl |-> t]]
      BY <2>2 DEF ReadScope, Done, Goto
    <3>2. \A q \in Req \ {r} : rq'[q] = rq[q]
      BY <3>1 DEF HandlerInv
    <3>3. rq'[r] = Off \/ rq'[r].code = rq[r].code
      BY <3>1 DEF HandlerInv
    <3>4. \A q \in Req, h \in Handle : Taken(q, h)' => Taken(q, h)
      BY <3>1, <3>2, <3>3 DEF Taken, Off
    <3> QED BY <1>1, <2>2, <3>4 DEF ReadScope, storeVars, ghosts, Handles
  <2>3. CASE (\E v \in Issued : authorizeConsent(r, v)) \/ PutClient(r) \/ Rotate(r)
    <3>1. \E rec : rec.pc \notin {"scope", "issue"} /\ rq' = [rq EXCEPT ![r] = rec]
      <4>1. CASE rq' = [rq EXCEPT ![r] = Off]
        BY <4>1 DEF Off
      <4>2. CASE rq' = [rq EXCEPT ![r] = [pc |-> "code", client |-> rq[r].client]]
        BY <4>2
      <4> QED BY <2>3, <4>1, <4>2 DEF authorizeConsent, PutClient, Rotate, Done, Goto
    <3>2. \A q \in Req, h \in Handle : Taken(q, h)' => Taken(q, h)
      BY <3>1, NotTaken
    <3>3. UNCHANGED <<codes, origin>>
      BY <2>3 DEF authorizeConsent, PutClient, Rotate, storeVars, ghosts
    <3>4. UNCHANGED nextHandle \/ \E h \in Handle : Fresh(h)
      BY <2>3 DEF authorizeConsent, PutClient, Rotate
    <3> QED BY SMTT(60), <1>1, <3>2, <3>3, <3>4 DEF Fresh, Handles
  <2> QED BY <1>4, <2>1, <2>2, <2>3 DEF Handler
<1>5. ASSUME NEW a \in Admin, Administer(a) PROVE CodeInv'
  <2>1. rq' = rq /\ Handles
    BY <1>5
    DEF Administer, handleDomainCreate, handleDomainUpdate, handleDomainGenerateConsent,
        handleDomainDelete, handleConfidentialRevoke, RevokeByDomain, RevokeByClientID,
        UpdateRegistration, DeleteRegistration, handleConfidentialIssue, handleOAuthRevoke,
        handleOAuthIssueSelf, IssueSelf, NewSeries, RevokeByPrincipalEmail, RewriteScopes,
        Fresh, Handles
  <2>2. ASSUME NEW s \in Offered, NEW t \in Ttl, handleOAuthIssueSelf(a, s, t[1]) PROVE CodeInv'
    <3>1. codes' = codes /\ \E h : origin' = Put(origin, h, Nil)
      BY <2>2 DEF handleOAuthIssueSelf, IssueSelf, NewSeries
    <3>2. \A s2 \in DOMAIN origin' :
            origin'[s2] = Nil \/ (s2 \in DOMAIN origin /\ origin'[s2] = origin[s2])
      BY <3>1 DEF Put
    <3> QED BY <1>2, <2>1, <3>1, <3>2, CodeQuiet
  <2>3. ASSUME NEW p \in Principal, RevokeByPrincipalEmail(a, p) PROVE CodeInv'
    <3>1. /\ DOMAIN codes' \subseteq DOMAIN codes /\ origin' = origin
          /\ \A k \in DOMAIN codes' : codes'[k] = codes[k]
      BY <2>3 DEF RevokeByPrincipalEmail, Drop, ghosts
    <3> QED BY <1>2, <2>1, <3>1, CodeQuiet
  <2>4. \/ \E s \in Offered, t \in Ttl : handleOAuthIssueSelf(a, s, t[1])
        \/ \E p \in Principal : RevokeByPrincipalEmail(a, p)
        \/ UNCHANGED <<codes, origin>>
    BY <1>5
    DEF Administer, handleDomainCreate, handleDomainUpdate, handleDomainGenerateConsent,
        handleDomainDelete, handleConfidentialRevoke, RevokeByDomain, RevokeByClientID,
        UpdateRegistration, DeleteRegistration, handleConfidentialIssue, handleOAuthRevoke,
        RewriteScopes, storeVars, ghosts
  <2> QED BY <1>1, <1>2, <2>1, <2>2, <2>3, <2>4
<1>6. CASE System
  <2>1. \A r \in Req, h \in Handle : Taken(r, h)' => Taken(r, h)
    <3>1. rq' = rq \/ rq' = [r \in Req |-> Off]
      BY <1>6 DEF System, Open, BootSweep, Seed, Sweep, Crash, Tick
    <3> QED BY <1>2, <3>1 DEF Taken, Off
  <2>2. /\ origin' = origin /\ nextHandle' = nextHandle
        /\ codes' = codes \/ codes' = EmptyMap
    BY <1>6 DEF System, Open, BootSweep, Seed, Sweep, Crash, Tick, storeVars, ghosts
  <2> QED BY <2>1, <2>2, CodeQuiet DEF Handles, EmptyMap
<1>7. CASE UNCHANGED vars
  BY <1>1, <1>2, <1>7 DEF vars, storeVars, ghosts, Handles
<1> QED BY <1>3, <1>4, <1>5, <1>6, <1>7 DEF Next, System

----------------------------------------------------------------------------
(* The theorems *)

LEMMA SafetyInvariant == Spec => []SafetyInv
<1>1. Init => SafetyInv
  BY TypesInit, SeriesInit, CodeInit DEF SafetyInv
<1>2. SafetyInv /\ [Next]_vars => SafetyInv'
  BY TypesNext, SeriesNext, OriginNext, CodeNext DEF SafetyInv
<1> QED BY <1>1, <1>2, PTL DEF Spec

\* The store's buckets never disagree: access and refresh hold one pointer per series
\* and no more, through every issue, rotation, revocation, sweep and migration and
\* wherever the process stops between them (putSeriesTx, deleteSeries).
THEOREM StoreTypeCorrect == Spec => []TypeOK
<1>1. SafetyInv => TypeOK
  <2> SUFFICES ASSUME SafetyInv PROVE TypeOK
    OBVIOUS
  <2> USE DEF SafetyInv
  <2>1. /\ DOMAIN regs \subseteq EntryId /\ clients \subseteq Dcr
        /\ markers \subseteq {"hashed", "seeded"} /\ boot \in {"down", "opened", "swept", "up"}
        /\ now \in 0..MaxNow /\ nextHandle \in 1..(MaxHandles + 1)
    BY DEF ProcessInv, HandlerInv
  <2>2. \A i \in DOMAIN regs : /\ regs[i].ident \in Domain \cup Conf
                               /\ regs[i].scope \in Scope /\ regs[i].consent \in Issued \cup {Nil}
    <3>1. 0..(nextHandle - 1) \subseteq Issued \cup {Nil}
      BY <2>1, OAuthAssumption DEF Issued, Nil
    <3> QED BY <3>1 DEF HandlerInv, Entry
  <2>3. \A k \in DOMAIN codes : codes[k].client \in Client /\ k.of \in Issued
    BY DEF CodeInv
  <2>4. \A s \in DOMAIN series :
          /\ series[s].client \in Client /\ series[s].scope \in Scope
          /\ series[s].accExp \in Nat /\ series[s].refExp \in Nat
    BY DEF SeriesInv, SeriesType
  <2>5. DOMAIN refresh = {series[s].ref : s \in DOMAIN series}
    BY DEF SeriesInv
  <2>6. access = [k \in {series[s].acc : s \in DOMAIN series} |->
                    CHOOSE s \in DOMAIN series : series[s].acc = k]
    <3> DEFINE owner(k) == CHOOSE s \in DOMAIN series : series[s].acc = k
    <3>1. ASSUME NEW k \in DOMAIN access PROVE access[k] = owner(k)
      BY DEF SeriesInv
    <3>2. /\ access = [k \in DOMAIN access |-> access[k]]
          /\ DOMAIN access = {series[s].acc : s \in DOMAIN series}
      BY DEF SeriesInv, IsMap
    <3> HIDE DEF owner
    <3>3. access = [k \in {series[s].acc : s \in DOMAIN series} |-> owner(k)]
      BY <3>1, <3>2
    <3> QED BY <3>3 DEF owner
  <2> QED BY <2>1, <2>2, <2>3, <2>4, <2>5, <2>6 DEF TypeOK
<1> QED BY <1>1, SafetyInvariant, PTL

\* A token is accepted exactly while it is the latest of a series that is still there:
\* never after Rotate replaced it or a revocation ended it, however many refreshes,
\* revocations and restarts interleave, and always until then (ValidateToken, Rotate,
\* deleteSeries, migrateHashTokensAtRest).
THEOREM TokensResolveAlways == Spec => []TokensResolve
<1>1. SafetyInv => TokensResolve
  <2> SUFFICES ASSUME SafetyInv, boot # "down", NEW h \in Issued
               PROVE  ValidateToken(h) <=>
                        \E s \in DOMAIN series : held[s] = h /\ now <= series[s].accExp
    BY DEF TokensResolve
  <2>1. \A s \in DOMAIN series : series[s].acc = Key(held[s])
    <3>1. ("hashed" \in markers) = TRUE
      BY DEF SafetyInv, SeriesInv
    <3>2. \A s : CurrentKey(s) = Key(held[s])
      BY <3>1, Zenon DEF CurrentKey, Key
    <3> QED BY <3>2 DEF SafetyInv, SeriesInv
  <2>2. \A s \in DOMAIN series : s # Nil
    BY DEF SafetyInv, SeriesInv, ProcessInv, Issued, Nil
  <2>3. ASSUME NEW s \in DOMAIN series, held[s] = h PROVE Lookup(h) = s
    BY <2>1, <2>3 DEF SafetyInv, SeriesInv, Lookup
  <2>4. ASSUME Lookup(h) # Nil PROVE Lookup(h) \in DOMAIN series /\ held[Lookup(h)] = h
    <3>1. Lookup(h) \in DOMAIN series /\ series[Lookup(h)].acc = Key(h)
      BY <2>4 DEF Lookup
    <3>2. Key(held[Lookup(h)]).of = Key(h).of
      BY <2>1, <3>1
    <3> QED BY <3>1, <3>2 DEF Key
  <2> QED BY <2>2, <2>3, <2>4 DEF ValidateToken
<1> QED BY <1>1, SafetyInvariant, PTL

\* An authorization code pays for one series, however many requests present it and
\* whatever crashes between TakeCode and NewSeries.
THEOREM CodeRedeemedOnce == Spec => []CodeOnce
<1>1. SafetyInv => CodeOnce
  BY DEF SafetyInv, CodeInv
<1> QED BY <1>1, SafetyInvariant, PTL

\* No step brings a series back that was revoked, swept or expired: a refresh that
\* read it before writes no pair afterwards.  And no step but an administrator's
\* revocation ends a series whose refresh token is alive (Rotate, Sweep, DeleteDeadSeries).
THEOREM SeriesStayDead == Spec => NoResurrection
<1> DEFINE A == /\ \A s \in DOMAIN series' \ DOMAIN series : s = nextHandle
                /\ \A s \in DOMAIN series \ DOMAIN series' :
                     now > series[s].refExp \/ \E a \in Admin : Administer(a)
<1>1. Next => A
  <2> SUFFICES ASSUME Next PROVE A
    OBVIOUS
  <2>1. \A h, rec : putSeriesTx(rec, h, Nil) => DOMAIN series' = DOMAIN series \cup {h}
    BY DEF putSeriesTx, Put
  <2>2. CASE DOMAIN series' = DOMAIN series
    BY <2>2
  <2>3. ASSUME NEW client, NEW scope, NEW a, NEW b, NEW c,
               NewSeries(client, Bound, scope, a, b, c)
        PROVE  DOMAIN series' = DOMAIN series \cup {nextHandle}
    BY <2>1, <2>3 DEF NewSeries, Fresh
  <2>4. \A S \in SUBSET DOMAIN series : deleteSeries(S) => DOMAIN series' = DOMAIN series \ S
    BY DEF deleteSeries, Drop
  <2>5. ASSUME NEW r \in Req, Rotate(r) PROVE A
    <3> DEFINE s == RefreshSeries(rq[r].token)
    <3>1. \/ series' = series
          \/ s # Nil /\ now > series[s].refExp /\ deleteSeries({s})
          \/ s # Nil /\ \E rec : putSeriesTx(rec, s, 1)
      BY <2>5 DEF Rotate, tokenVars
    <3>2. s # Nil => s \in DOMAIN series
      BY DEF RefreshSeries
    <3> HIDE DEF s
    <3>3. CASE series' = series
      BY <2>2, <3>3
    <3>4. CASE s # Nil /\ now > series[s].refExp /\ deleteSeries({s})
      BY ZenonT(60), <2>4, <3>2, <3>4
    <3>5. CASE s # Nil /\ \E rec : putSeriesTx(rec, s, 1)
      <4>1. DOMAIN series' = DOMAIN series
        BY <3>2, <3>5 DEF putSeriesTx, Put
      <4> QED BY <2>2, <4>1
    <3> QED BY <3>1, <3>3, <3>4, <3>5
  <2>6. ASSUME NEW r \in Req, Issue(r) PROVE A
    BY <2>3, <2>6 DEF Issue
  <2>7. ASSUME NEW r \in Req, Request(r) \/ Handler(r), ~Rotate(r), ~Issue(r)
        PROVE  DOMAIN series' = DOMAIN series
    BY <2>7
    DEF Request, resolveAuthorizeClient, handleRegister, grantAuthorizationCode,
        grantRefreshToken, Handler, authorizeConsent, PutCode, PutClient, TakeCode, ReadScope,
        storeVars, tokenVars
  <2>8. ASSUME NEW a \in Admin, Administer(a) PROVE A
    <3>1. ASSUME NEW s, NEW t, handleOAuthIssueSelf(a, s, t) PROVE A
      BY <2>3, <2>8, <3>1 DEF handleOAuthIssueSelf, IssueSelf
    <3>2. ASSUME ~ \E s, t : handleOAuthIssueSelf(a, s, t) PROVE DOMAIN series' \subseteq DOMAIN series
      BY <2>8, <3>2
      DEF Administer, handleDomainCreate, handleDomainUpdate, handleDomainGenerateConsent,
          handleDomainDelete, handleConfidentialRevoke, RevokeByDomain, RevokeByClientID,
          UpdateRegistration, DeleteRegistration, handleConfidentialIssue, handleOAuthRevoke,
          RevokeByPrincipalEmail, RewriteScopes, Revoke, deleteSeries, Drop, storeVars, tokenVars
    <3> QED BY <2>8, <3>1, <3>2
  <2>9. CASE BootSweep \/ Sweep
    <3>1. deleteSeries({s \in DOMAIN series : Dead(s)})
      BY <2>9 DEF BootSweep, Sweep, DeleteDeadSeries
    <3> QED BY <2>4, <3>1 DEF Dead
  <2>10. Open \/ Seed \/ Crash \/ Tick => DOMAIN series' = DOMAIN series
    BY DEF Open, Seed, Crash, Tick, storeVars, tokenVars, migrated
  <2> QED BY <2>2, <2>5, <2>6, <2>7, <2>8, <2>9, <2>10 DEF Next
<1>2. Spec => [][A]_vars
  BY <1>1, PTL DEF Spec
<1> QED BY <1>2 DEF NoResurrection

\* An entry that was deleted stays deleted, whoever read it before: an identifier comes
\* back only fresh.  And after the first start the configuration seeds nothing, wherever
\* the process stopped (UpdateRegistration, SeedDomainRegistrationsFromDomains).
THEOREM EntriesStayDeleted == Spec => DeletedStaysDeleted
<1> DEFINE A == /\ \A i \in DOMAIN regs' \ DOMAIN regs : i \notin used
                /\ boot # "up" /\ "seeded" \in markers => regs' = regs
<1>1. SafetyInv /\ Next => A
  <2> SUFFICES ASSUME SafetyInv, Next PROVE A
    OBVIOUS
  <2>1. /\ \A r \in Req : rq[r].pc # "off" => boot = "up"
        /\ \A a \in Admin : ad[a].pc # "off" => boot = "up"
    BY OnlyWhenUp DEF SafetyInv
  <2>2. CASE regs' = regs
    BY <2>2
  <2>3. ASSUME NEW a \in Admin, Administer(a) PROVE A
    <3>1. boot = "up"
      BY <2>1, <2>3
      DEF Administer, handleDomainCreate, handleDomainUpdate, handleDomainGenerateConsent,
          handleDomainDelete, handleConfidentialRevoke, RevokeByDomain, RevokeByClientID,
          UpdateRegistration, DeleteRegistration, handleConfidentialIssue, handleOAuthRevoke,
          handleOAuthIssueSelf, RevokeByPrincipalEmail, RewriteScopes, Asks, Serving
    <3>2. \/ DOMAIN regs' \subseteq DOMAIN regs
          \/ \E i \in EntryId \ used : DOMAIN regs' = DOMAIN regs \cup {i}
      <4>1. ASSUME NEW d \in Domain, NEW t \in Ttl, NEW s \in Offered, handleDomainCreate(a, d, t, s)
            PROVE  \E i \in EntryId \ used : DOMAIN regs' = DOMAIN regs \cup {i}
        BY <4>1 DEF handleDomainCreate, CreateRegistration, Put
      <4>2. ASSUME NEW c \in Conf, NEW s \in Offered, NEW v, handleConfidentialIssue(a, c, s, v)
            PROVE  \E i \in EntryId \ used : DOMAIN regs' = DOMAIN regs \cup {i}
        BY <4>2 DEF handleConfidentialIssue, IssueConfidentialClient, Put
      <4>3. UpdateRegistration(a) \/ DeleteRegistration(a) => DOMAIN regs' \subseteq DOMAIN regs
        BY DEF UpdateRegistration, DeleteRegistration, Put, Drop
      <4>4. \/ \E d \in Domain, t \in Ttl, s \in Offered : handleDomainCreate(a, d, t, s)
            \/ \E c \in Conf, s \in Offered, t \in Ttl : handleConfidentialIssue(a, c, s, t[1] + 1)
            \/ UpdateRegistration(a) \/ DeleteRegistration(a)
            \/ regs' = regs
        BY ZenonT(60), <2>3
        DEF Administer, handleDomainUpdate, handleDomainGenerateConsent, handleDomainDelete,
            handleConfidentialRevoke, RevokeByDomain, RevokeByClientID, handleOAuthRevoke,
            handleOAuthIssueSelf, RevokeByPrincipalEmail, RewriteScopes, storeVars
      <4> QED BY <4>1, <4>2, <4>3, <4>4
    <3> QED BY <3>1, <3>2
  <2>4. ASSUME NEW r \in Req, Request(r) \/ Handler(r) PROVE regs' = regs
    BY <2>4
    DEF Request, resolveAuthorizeClient, handleRegister, grantAuthorizationCode,
        grantRefreshToken, Handler, authorizeConsent, PutCode, PutClient, TakeCode, ReadScope,
        Issue, Rotate, storeVars
  <2>5. CASE Seed
    <3>1. CASE Seeded
      BY <2>2, <2>5, <3>1 DEF Seed
    <3>2. CASE ~Seeded
      <4>1. PICK f \in [Seeds -> EntryId \ used] :
              DOMAIN regs' = DOMAIN regs \cup {f[d] : d \in Seeds}
        BY <2>5, <3>2 DEF Seed
      <4> QED BY <3>2, <4>1 DEF Seeded
    <3> QED BY <3>1, <3>2
  <2>6. Open \/ BootSweep \/ Sweep \/ Crash \/ Tick => regs' = regs
    BY DEF Open, BootSweep, Sweep, Crash, Tick, storeVars
  <2> QED BY <2>2, <2>3, <2>4, <2>5, <2>6 DEF Next
<1>2. Spec => [][A]_vars
  BY <1>1, SafetyInvariant, PTL DEF Spec
<1> QED BY <1>2 DEF DeletedStaysDeleted
=============================================================================
