------------------------------- MODULE OAuth -------------------------------
(***************************************************************************)
(* The OAuth authorization server over its bbolt store: registration       *)
(* entries (trusted domains and confidential clients), dynamically         *)
(* registered clients, authorization codes and token series, with the      *)
(* handlers of /authorize, /token and /register, the administrator's       *)
(* DOMAIN_*, CLIENT_* and OAUTH_* requests, the cleaner and the start-up   *)
(* migrations.                                                             *)
(*                                                                         *)
(* A bbolt transaction is one step; a handler that makes several is        *)
(* several steps, between which any other handler may run and the process  *)
(* may stop.  Handles are numbers: every handle is fresh.  A store key is  *)
(* a handle or its hash (hashHandle).  Redirect URI, PKCE verifier and     *)
(* client secret appear as whether the request presents the right ones.    *)
(***************************************************************************)
EXTENDS Integers, FiniteSets, Maps

CONSTANTS
  Domain,       \* names a domain entry may have
  Under,        \* Under[d]: the hosts d covers, d itself among them
  Cimd,         \* clients named by a metadata URL
  Dcr,          \* handles of dynamically registered clients
  Conf,         \* handles of confidential clients
  Self,         \* SelfIssuedClientID
  HostOf,       \* host of a Cimd or Dcr client
  Scope, Star,  \* scopes; Star is all access
  Pruned,       \* Pruned[s]: scope s without the grants of a deleted project
  Principal, Bound,   \* principals; Bound is the operator's
  Ttl,          \* <<access, refresh>> lifetimes an administrator may set; 0 is unset
  Seeds,        \* trusted_client_metadata_domains of the configuration
  AccessTTL, RefreshTTL, CodeTTL,  \* the finite global defaults
  Legacy,       \* the store was written before tokens were hashed
  Req, Admin,   \* requests to the endpoints; administrators' connections
  MaxEntries, MaxHandles, MaxNow,  \* bounds
  MaxEvents     \* bound: requests, administrators' requests, ticks and crashes together

EntryId == 1..MaxEntries
Handle == 1..MaxHandles
Client == Cimd \cup Dcr \cup Conf \cup {Self}
Nil == 0

ASSUME OAuthAssumption ==
  /\ \A d \in Domain : d \in Under[d]
  /\ \A d, e \in Domain : d # e => Under[d] # Under[e]
  /\ Star \in Scope /\ Bound \in Principal /\ Ttl \subseteq Nat \X Nat
  /\ {AccessTTL, RefreshTTL, CodeTTL} \subseteq Nat \ {0}
  /\ Legacy \in BOOLEAN /\ Seeds \subseteq Domain /\ Pruned \in [Scope -> Scope]
  /\ MaxEntries \in Nat /\ MaxHandles \in Nat \ {0, 1} /\ MaxNow \in Nat

VARIABLES
  regs,      \* registrations bucket: id -> RegistrationEntry
  clients,   \* clients bucket
  codes,     \* codes bucket: key -> CodeRecord
  series,    \* series bucket: sid -> SeriesRecord
  access, refresh,  \* pointer buckets: key -> sid
  markers,   \* meta bucket
  now, boot,        \* the clock; how far start-up has come
  rq, ad,           \* request -> its handler; administrator -> its handler
  used,             \* handles given out for entries and confidential clients
  nextHandle,       \* ghost: NewHandle is fresh
  held,             \* ghost: sid -> the handle of the pair its client holds
  origin,           \* ghost: sid -> the code it was issued for
  events            \* how many requests, ticks and crashes there were

storeVars == <<regs, clients, codes, series, access, refresh, markers>>
tokenVars == <<series, access, refresh>>
ghosts == <<held, origin>>
vars == <<storeVars, now, boot, rq, ad, used, nextHandle, ghosts, events>>

----------------------------------------------------------------------------
(* Store *)

\* hashHandle: what a handle is stored under.
Key(h) == [hashed |-> TRUE, of |-> h]
RawKey(h) == [hashed |-> FALSE, of |-> h]

EntryOf(mode, ident, scope, expires) ==
  [mode |-> mode, ident |-> ident, consent |-> Nil, scope |-> scope, ttl |-> <<0, 0>>,
   expires |-> expires]

\* NewHandle
Fresh(n) == nextHandle <= MaxHandles /\ n = nextHandle /\ nextHandle' = nextHandle + 1

\* Mutant of putSeriesTx: the predecessors' pointers stay.
putSeriesTxM(rec, sid, old) ==
  /\ series' = Put(series, sid, rec)
  /\ access' = Put(access, rec.acc, sid)
  /\ refresh' = Put(refresh, rec.ref, sid)
\* The record, its two pointers, and the end of the predecessors' (old is the
\* record before a rotation, or Nil).
putSeriesTx(rec, sid, old) ==
  /\ series' = Put(series, sid, rec)
  /\ access' = Put(Drop(access, IF old = Nil THEN {} ELSE {series[sid].acc}), rec.acc, sid)
  /\ refresh' = Put(Drop(refresh, IF old = Nil THEN {} ELSE {series[sid].ref}), rec.ref, sid)

\* deleteSeries, for every sid in S.
deleteSeries(S) ==
  /\ series' = Drop(series, S)
  /\ access' = Drop(access, {series[s].acc : s \in S})
  /\ refresh' = Drop(refresh, {series[s].ref : s \in S})

SeriesRecord(h, client, who, scope, aTTL, rTTL) ==
  [acc |-> Key(h), ref |-> Key(h), client |-> client, who |-> who, scope |-> scope,
   accExp |-> now + aTTL, refExp |-> now + rTTL]
CodeRecord(c) == [client |-> c, who |-> Bound, exp |-> now + CodeTTL]

\* NewSeries: a new series with a first pair; c is the code it is issued for.
NewSeries(client, who, scope, aTTL, rTTL, c) ==
  \E h \in Handle :
    /\ Fresh(h)
    /\ putSeriesTx(SeriesRecord(h, client, who, scope, aTTL, rTTL), h, Nil)
    /\ held' = Put(held, h, h)
    /\ origin' = Put(origin, h, c)

\* Lookup, without the expiry: the sid an access token is accepted for, or Nil.
Lookup(h) ==
  IF /\ Key(h) \in DOMAIN access
     /\ access[Key(h)] \in DOMAIN series
     /\ series[access[Key(h)]].acc = Key(h)
  THEN access[Key(h)] ELSE Nil

\* ValidateToken: auth.Middleware lets a request with the access token through.
ValidateToken(h) == Lookup(h) # Nil /\ now <= series[Lookup(h)].accExp

\* RefreshClientID and the lookup of Rotate: the sid a refresh token is the
\* current one of, or Nil.
RefreshSeries(h) ==
  IF /\ Key(h) \in DOMAIN refresh
     /\ refresh[Key(h)] \in DOMAIN series
     /\ series[refresh[Key(h)]].ref = Key(h)
  THEN refresh[Key(h)] ELSE Nil

----------------------------------------------------------------------------
(* Domains *)

\* DomainEntryForHost: the entry with the longest name that covers the host; of
\* equal names the first in key order.  Nil when there is none.
DomainEntryForHost(host) ==
  LET cover == {i \in DOMAIN regs : regs[i].mode = "domain" /\ host \in Under[regs[i].ident]}
      best == {i \in cover :
                 \A j \in cover : Under[regs[i].ident] \subseteq Under[regs[j].ident]}
  IN  IF best = {} THEN Nil ELSE CHOOSE i \in best : \A j \in best : i <= j

TrustedDomain(host) == DomainEntryForHost(host) # Nil

\* clientDomain: none for the self-issued and the confidential clients, nor for a
\* handle that is not registered.
HasDomain(c) == c \in Cimd \/ (c \in Dcr /\ c \in clients)
DomainEntryForClient(c) == IF HasDomain(c) THEN DomainEntryForHost(HostOf[c]) ELSE Nil

\* ConfidentialClient: the entry id, or Nil.
ConfidentialClient(c) ==
  LET found == {i \in DOMAIN regs : regs[i].mode = "confidential" /\ regs[i].ident = c}
  IN  IF found = {} THEN Nil ELSE CHOOSE i \in found : TRUE

CredentialExpired(e) == now >= e.expires
\* VerifyConsent, for a value that was shown.
VerifyConsent(e, v) == e.consent # Nil /\ e.consent = v
\* VerifySecret: the request shows the client's secret.
VerifySecret(proof) == proof = "all"

\* EffectiveTTL: a lifetime the entry does not set is the global default.
EffectiveTTL(t) == <<IF t[1] > 0 THEN t[1] ELSE AccessTTL,
                     IF t[2] > 0 THEN t[2] ELSE RefreshTTL>>
issuanceTTL(c) ==
  LET i == DomainEntryForClient(c) IN
    EffectiveTTL(IF i # Nil THEN regs[i].ttl ELSE <<0, 0>>)

\* The series RevokeByDomain and RevokeByClientID select.
DomainSeries(d) ==
  {s \in DOMAIN series : LET c == series[s].client IN
     d \in Domain /\ HasDomain(c) /\ HostOf[c] \in Under[d]}
ClientSeries(c) == {s \in DOMAIN series : series[s].client = c}
----------------------------------------------------------------------------
(* /authorize and /register *)

Event == events < MaxEvents /\ events' = events + 1
Off == [pc |-> "off"]
Serving == boot = "up"
Arrives(r) == Serving /\ rq[r] = Off /\ Event
Goto(r, rec) == rq' = [rq EXCEPT ![r] = rec]
Done(r) == Goto(r, Off)

\* Verify: the metadata document of the client is at a trusted host; where it cannot
\* be fetched the request is refused.
Verify(c) == c \in Cimd /\ TrustedDomain(HostOf[c])

\* resolveAuthorizeClient: a confidential client whose credential has not expired,
\* a registered one, or one that Verify accepts.  Every other request is refused.
resolveAuthorizeClient(r, c) ==
  /\ Arrives(r)
  /\ \/ ConfidentialClient(c) # Nil /\ ~CredentialExpired(regs[ConfidentialClient(c)])
     \/ c \in Dcr /\ c \in clients
     \/ Verify(c)
  /\ Goto(r, [pc |-> "consent", client |-> c])
  /\ UNCHANGED <<storeVars, now, boot, ad, used, nextHandle, ghosts>>

\* authorizeConsent: a confidential client is approved by its issue, any other by the
\* consent value of its domain's entry.
authorizeConsent(r, v) ==
  /\ rq[r].pc = "consent"
  /\ LET c == rq[r].client  k == ConfidentialClient(c)  i == DomainEntryForClient(c) IN
       IF \/ k # Nil /\ ~CredentialExpired(regs[k])
          \/ i # Nil /\ VerifyConsent(regs[i], v)
       THEN Goto(r, [pc |-> "code", client |-> c])
       ELSE Done(r)
  /\ UNCHANGED <<storeVars, now, boot, ad, used, nextHandle, ghosts, events>>

\* PutCode at the end of handleAuthorize.
PutCode(r) ==
  /\ rq[r].pc = "code"
  /\ \E h \in Handle :
       /\ Fresh(h)
       /\ codes' = Put(codes, Key(h), CodeRecord(rq[r].client))
  /\ Done(r)
  /\ UNCHANGED <<regs, clients, tokenVars, markers, now, boot, ad, used, ghosts, events>>

\* handleRegister: the host of the redirect URIs must be trusted; then PutClient.
handleRegister(r, c) ==
  /\ Arrives(r) /\ c \in Dcr \ clients /\ TrustedDomain(HostOf[c])
  /\ Goto(r, [pc |-> "register", client |-> c])
  /\ UNCHANGED <<storeVars, now, boot, ad, used, nextHandle, ghosts>>
PutClient(r) ==
  /\ rq[r].pc = "register"
  /\ clients' = clients \cup {rq[r].client}
  /\ Done(r)
  /\ UNCHANGED <<regs, codes, tokenVars, markers, now, boot, ad, used, nextHandle, ghosts,
                 events>>

----------------------------------------------------------------------------
(* /token *)

\* What a request shows: redirect URI, verifier and secret, all but the secret, or
\* not the right redirect URI or verifier.
Proof == {"all", "noSecret", "none"}

\* grantAuthorizationCode: a confidential client's entry is read up front; a handle
\* that is neither confidential nor registered is refused without using the code.
grantAuthorizationCode(r, h, c, proof) ==
  /\ Arrives(r)
  /\ LET k == ConfidentialClient(c) IN
       /\ k # Nil \/ c \in Cimd \cup clients
       /\ Goto(r, [pc |-> "take", client |-> c, code |-> h, proof |-> proof,
                   conf |-> k, entry |-> IF k # Nil THEN regs[k] ELSE Nil])
  /\ UNCHANGED <<storeVars, now, boot, ad, used, nextHandle, ghosts>>

\* Mutant of TakeCode: the code is deleted by a later step.
TakeCodeM(r) ==
  /\ rq[r].pc = "take"
  /\ LET k == Key(rq[r].code) IN
       /\ UNCHANGED codes
       /\ IF /\ k \in DOMAIN codes /\ codes[k].client = rq[r].client
             /\ rq[r].proof # "none" /\ now <= codes[k].exp
          THEN Goto(r, [rq[r] EXCEPT !.pc = "scope"]) ELSE Done(r)
  /\ UNCHANGED <<regs, clients, tokenVars, markers, now, boot, ad, used, nextHandle,
                 ghosts, events>>
\* TakeCode fetches and deletes the code, even an expired one, in one transaction;
\* then the client, the redirect URI and the verifier must match.
TakeCode(r) ==
  /\ rq[r].pc = "take"
  /\ LET k == Key(rq[r].code) IN
       /\ codes' = Drop(codes, {k})
       /\ IF /\ k \in DOMAIN codes /\ codes[k].client = rq[r].client
             /\ rq[r].proof # "none" /\ now <= codes[k].exp
          THEN Goto(r, [rq[r] EXCEPT !.pc = "scope"]) ELSE Done(r)
  /\ UNCHANGED <<regs, clients, tokenVars, markers, now, boot, ad, used, nextHandle,
                 ghosts, events>>

\* The scope and the lifetimes: a confidential client must not have expired and must
\* present its secret, and has the scope of its entry as it was read up front; any
\* other has its domain's, or all access when it has none.
ReadScope(r) ==
  /\ rq[r].pc = "scope"
  /\ LET c == rq[r].client  i == DomainEntryForClient(c)  isConf == rq[r].conf # Nil IN
       IF isConf /\ (CredentialExpired(rq[r].entry) \/ ~VerifySecret(rq[r].proof)) THEN Done(r)
       ELSE Goto(r, [pc |-> "issue", client |-> c, code |-> rq[r].code,
                     scope |-> IF isConf THEN rq[r].entry.scope
                               ELSE IF i # Nil THEN regs[i].scope ELSE Star,
                     ttl |-> issuanceTTL(c)])
  /\ UNCHANGED <<storeVars, now, boot, ad, used, nextHandle, ghosts, events>>

Issue(r) ==
  /\ rq[r].pc = "issue"
  /\ NewSeries(rq[r].client, Bound, rq[r].scope, rq[r].ttl[1], rq[r].ttl[2], rq[r].code)
  /\ Done(r)
  /\ UNCHANGED <<regs, clients, codes, markers, now, boot, ad, used, events>>

\* grantRefreshToken: the series' client re-authenticates if it is confidential, and
\* the lifetimes are read.
grantRefreshToken(r, h, secret) ==
  /\ Arrives(r) /\ RefreshSeries(h) # Nil
  /\ LET c == series[RefreshSeries(h)].client  k == ConfidentialClient(c) IN
       /\ k # Nil => ~CredentialExpired(regs[k]) /\ secret
       /\ Goto(r, [pc |-> "rotate", token |-> h, ttl |-> issuanceTTL(c)])
  /\ UNCHANGED <<storeVars, now, boot, ad, used, nextHandle, ghosts>>

\* Mutant of Rotate: the series read by grantRefreshToken is written back.
RotateM(r) ==
  /\ rq[r].pc = "rotate"
  /\ \E s \in DOMAIN held, h \in Handle :
       /\ held[s] = rq[r].token /\ Fresh(h)
       /\ putSeriesTx(SeriesRecord(h, Self, Bound, Star, rq[r].ttl[1], rq[r].ttl[2]), s,
                      IF s \in DOMAIN series THEN 1 ELSE Nil)
       /\ held' = Put(held, s, h)
  /\ Done(r)
  /\ UNCHANGED <<regs, clients, codes, markers, now, boot, ad, used, origin, events>>
\* Rotate looks the series up again: it refuses a token that is no longer the
\* current one, ends a series that has expired and else replaces the pair.
Rotate(r) ==
  /\ rq[r].pc = "rotate"
  /\ LET s == RefreshSeries(rq[r].token)
         t == rq[r].ttl
     IN  CASE s = Nil -> UNCHANGED <<tokenVars, nextHandle, held>>
           [] s # Nil /\ now > series[s].refExp ->
                deleteSeries({s}) /\ UNCHANGED <<nextHandle, held>>
           [] OTHER ->
                \E h \in Handle :
                  /\ Fresh(h)
                  /\ putSeriesTx([series[s] EXCEPT !.acc = Key(h), !.ref = Key(h),
                                  !.accExp = now + t[1], !.refExp = now + t[2]], s, 1)
                  /\ held' = Put(held, s, h)
  /\ Done(r)
  /\ UNCHANGED <<regs, clients, codes, markers, now, boot, ad, used, origin, events>>

----------------------------------------------------------------------------
(* The administrator's requests *)

Asks(a) == Serving /\ ad[a] = Off /\ Event
Then(a, rec) == ad' = [ad EXCEPT ![a] = rec]

CreateRegistration(i, e) == regs' = Put(regs, i, e) /\ used' = used \cup {i}
\* UpdateRegistration follows if lifetimes or a scope are given.
handleDomainCreate(a, d, t, s) ==
  /\ Asks(a)
  /\ \E i \in EntryId \ used :
       LET e == EntryOf("domain", d, Star, 0) IN
       /\ CreateRegistration(i, e)
       /\ IF t = <<0, 0>> /\ s = Star THEN Then(a, Off)
          ELSE Then(a, [pc |-> "store", id |-> i, entry |-> [e EXCEPT !.ttl = t, !.scope = s]])
  /\ UNCHANGED <<clients, codes, tokenVars, markers, now, boot, rq, nextHandle, ghosts>>

\* The entry is read; a changed scope revokes the domain's series before the entry
\* is written back.
handleDomainUpdate(a, i, t, s) ==
  /\ Asks(a) /\ i \in DOMAIN regs /\ regs[i].mode = "domain"
  /\ Then(a, [pc |-> IF s # regs[i].scope THEN "revoke" ELSE "store", id |-> i,
              entry |-> [regs[i] EXCEPT !.ttl = t, !.scope = s]])
  /\ UNCHANGED <<storeVars, now, boot, rq, used, nextHandle, ghosts>>

\* GenerateDomainConsent: the entry is read and given a new consent value.
GenerateDomainConsent(i, h) == [regs[i] EXCEPT !.consent = h]
handleDomainGenerateConsent(a, i) ==
  /\ Asks(a) /\ i \in DOMAIN regs /\ regs[i].mode = "domain"
  /\ \E h \in Handle :
       /\ Fresh(h)
       /\ Then(a, [pc |-> "store", id |-> i, entry |-> GenerateDomainConsent(i, h)])
  /\ UNCHANGED <<storeVars, now, boot, rq, used, ghosts>>

\* The entry is read, its series are revoked, the entry is deleted.
handleDomainDelete(a, i) ==
  /\ Asks(a) /\ i \in DOMAIN regs
  /\ Then(a, [pc |-> "cut", id |-> i, entry |-> regs[i]])
  /\ UNCHANGED <<storeVars, now, boot, rq, used, nextHandle, ghosts>>
handleConfidentialRevoke(a, i) ==
  /\ Asks(a) /\ i \in DOMAIN regs /\ regs[i].mode = "confidential"
  /\ Then(a, [pc |-> "cutClient", id |-> i, entry |-> regs[i]])
  /\ UNCHANGED <<storeVars, now, boot, rq, used, nextHandle, ghosts>>

\* RevokeByDomain
RevokeByDomain(a) ==
  /\ ad[a].pc \in {"revoke", "cut"}
  /\ deleteSeries(DomainSeries(ad[a].entry.ident))
  /\ Then(a, [ad[a] EXCEPT !.pc = IF @ = "revoke" THEN "store" ELSE "delete"])
  /\ UNCHANGED <<regs, clients, codes, markers, now, boot, rq, used, nextHandle, ghosts,
                 events>>
\* RevokeByClientID
RevokeByClientID(a) ==
  /\ ad[a].pc = "cutClient"
  /\ deleteSeries(ClientSeries(ad[a].entry.ident))
  /\ Then(a, [ad[a] EXCEPT !.pc = "delete"])
  /\ UNCHANGED <<regs, clients, codes, markers, now, boot, rq, used, nextHandle, ghosts,
                 events>>

\* Mutant of UpdateRegistration: the entry is written whether it is there or not.
UpdateRegistrationM(a) ==
  /\ ad[a].pc = "store"
  /\ regs' = Put(regs, ad[a].id, ad[a].entry)
  /\ Then(a, Off)
  /\ UNCHANGED <<clients, codes, tokenVars, markers, now, boot, rq, used, nextHandle,
                 ghosts, events>>
\* UpdateRegistration: the whole entry is replaced, if it is still there.
UpdateRegistration(a) ==
  /\ ad[a].pc = "store"
  /\ regs' = IF ad[a].id \in DOMAIN regs THEN Put(regs, ad[a].id, ad[a].entry) ELSE regs
  /\ Then(a, Off)
  /\ UNCHANGED <<clients, codes, tokenVars, markers, now, boot, rq, used, nextHandle,
                 ghosts, events>>
DeleteRegistration(a) ==
  /\ ad[a].pc = "delete"
  /\ regs' = Drop(regs, {ad[a].id})
  /\ Then(a, Off)
  /\ UNCHANGED <<clients, codes, tokenVars, markers, now, boot, rq, used, nextHandle,
                 ghosts, events>>

\* An entry with a fresh client id, a scope and an expiry.
IssueConfidentialClient(i, c, s, v) ==
  /\ regs' = Put(regs, i, EntryOf("confidential", c, s, now + v))
  /\ used' = used \cup {i, c}
handleConfidentialIssue(a, c, s, v) ==
  /\ Asks(a) /\ c \in Conf \ used
  /\ \E i \in EntryId \ used : IssueConfidentialClient(i, c, s, v)
  /\ UNCHANGED <<clients, codes, tokenVars, markers, now, boot, rq, ad, nextHandle, ghosts>>

\* Revoke, idempotent.
Revoke(s) == deleteSeries({s} \cap DOMAIN series)
handleOAuthRevoke(a, s) ==
  /\ Asks(a)
  /\ Revoke(s)
  /\ UNCHANGED <<regs, clients, codes, markers, now, boot, rq, ad, used, nextHandle, ghosts>>

\* IssueSelf: both lifetimes are the chosen one, or the default.
IssueSelf(s, ttl) ==
  LET t == IF ttl > 0 THEN ttl ELSE AccessTTL IN NewSeries(Self, Bound, s, t, t, Nil)
handleOAuthIssueSelf(a, s, ttl) ==
  /\ Asks(a)
  /\ IssueSelf(s, ttl)
  /\ UNCHANGED <<regs, clients, codes, markers, now, boot, rq, ad, used>>

\* A user is removed: the series and the codes that name the principal.
RevokeByPrincipalEmail(a, p) ==
  /\ Asks(a)
  /\ deleteSeries({s \in DOMAIN series : series[s].who = p})
  /\ codes' = Drop(codes, {k \in DOMAIN codes : codes[k].who = p})
  /\ UNCHANGED <<regs, clients, markers, now, boot, rq, ad, used, nextHandle, ghosts>>

\* RewriteScopes, when a project is deleted.
RewriteScopes(a) ==
  /\ Asks(a)
  /\ series' = [s \in DOMAIN series |-> [series[s] EXCEPT !.scope = Pruned[@]]]
  /\ UNCHANGED <<regs, clients, codes, access, refresh, markers, now, boot, rq, ad, used,
                 nextHandle, ghosts>>

----------------------------------------------------------------------------
(* The cleaner, start-up and the clock *)

Dead(s) == now > series[s].refExp

DeleteDeadSeries == deleteSeries({s \in DOMAIN series : Dead(s)})
\* By the ticker.
Sweep ==
  /\ Serving /\ \E s \in DOMAIN series : Dead(s)
  /\ DeleteDeadSeries
  /\ UNCHANGED <<regs, clients, codes, markers, now, boot, rq, ad, used, nextHandle,
                 ghosts, events>>

\* Mutant of migrated: only the record is rewritten.
migratedM(f, g, h) == <<f, g, h>>
Rehash(k) == IF k.hashed THEN k ELSE Key(k.of)
\* migrateHashTokensAtRest: records and pointers in their new layout.
migrated(f, g, h) ==
  <<[s \in DOMAIN f |-> [f[s] EXCEPT !.acc = Rehash(@), !.ref = Rehash(@)]],
    [k \in {Rehash(j) : j \in DOMAIN g} |->
       IF k \in DOMAIN g THEN g[k] ELSE g[RawKey(k.of)]],
    [k \in {Rehash(j) : j \in DOMAIN h} |->
       IF k \in DOMAIN h THEN h[k] ELSE h[RawKey(k.of)]]>>

\* Open: the buckets, and the migration unless its marker is set; it also drops
\* the codes.
Open ==
  /\ boot = "down"
  /\ IF "hashed" \in markers THEN UNCHANGED storeVars
     ELSE /\ LET m == migrated(series, access, refresh) IN
               series' = m[1] /\ access' = m[2] /\ refresh' = m[3]
          /\ codes' = EmptyMap
          /\ markers' = markers \cup {"hashed"}
          /\ UNCHANGED <<regs, clients>>
  /\ boot' = "opened"
  /\ UNCHANGED <<now, rq, ad, used, nextHandle, ghosts, events>>

\* StartCleaner: one sweep before the first tick.
BootSweep ==
  /\ boot = "opened"
  /\ DeleteDeadSeries
  /\ boot' = "swept"
  /\ UNCHANGED <<regs, clients, codes, markers, now, rq, ad, used, nextHandle, ghosts, events>>

Seeded == "seeded" \in markers

\* SeedDomainRegistrationsFromDomains: entries and marker in one transaction; then
\* the listeners start.
Seed ==
  /\ boot = "swept"
  /\ IF Seeded THEN UNCHANGED <<regs, markers, used>>
     ELSE \E f \in [Seeds -> EntryId \ used] :
            /\ \A d, e \in Seeds : f[d] = f[e] => d = e
            /\ regs' = [i \in DOMAIN regs \cup {f[d] : d \in Seeds} |->
                 IF i \in DOMAIN regs THEN regs[i]
                 ELSE [EntryOf("domain", CHOOSE d \in Seeds : f[d] = i, Star, 0)
                        EXCEPT !.consent = 1, !.ttl = <<AccessTTL, RefreshTTL>>]]
            /\ used' = used \cup {f[d] : d \in Seeds}
            /\ markers' = markers \cup {"seeded"}
  /\ boot' = "up"
  /\ UNCHANGED <<clients, codes, tokenVars, now, rq, ad, nextHandle, ghosts, events>>

\* The process stops anywhere; what was committed stays.
Crash ==
  /\ boot # "down" /\ Event
  /\ boot' = "down"
  /\ rq' = [r \in Req |-> Off] /\ ad' = [a \in Admin |-> Off]
  /\ UNCHANGED <<storeVars, now, used, nextHandle, ghosts>>

Tick ==
  /\ now < MaxNow /\ now' = now + 1 /\ Event
  /\ UNCHANGED <<storeVars, boot, rq, ad, used, nextHandle, ghosts>>

----------------------------------------------------------------------------
\* A store from before tokens were hashed has one series, and a code.
LegacySeries(S) == [s \in S |->
  [acc |-> RawKey(s), ref |-> RawKey(s), client |-> Self, who |-> Bound, scope |-> Star,
   accExp |-> AccessTTL, refExp |-> RefreshTTL]]
Init ==
  \E old \in {{}, IF Legacy THEN {2} ELSE {}} :
    /\ regs = EmptyMap /\ clients = {}
    /\ codes = EmptyMap /\ markers = {}
    /\ series = LegacySeries(old)
    /\ access = [k \in {RawKey(s) : s \in old} |-> k.of] /\ refresh = access
    /\ held = [s \in old |-> s] /\ origin = [s \in old |-> Nil]
    /\ now = 0 /\ boot = "down"
    /\ rq = [r \in Req |-> Off] /\ ad = [a \in Admin |-> Off]
    /\ used = {} /\ nextHandle = 3
    /\ events = 0

Issued == 1..(nextHandle - 1)
Request(r) ==
  \/ \E c \in Client : resolveAuthorizeClient(r, c) \/ handleRegister(r, c)
  \/ \E h \in Issued :
       \/ \E c \in Client, proof \in Proof : grantAuthorizationCode(r, h, c, proof)
       \/ \E secret \in BOOLEAN : grantRefreshToken(r, h, secret)
Handler(r) ==
  \/ (\E v \in Issued : authorizeConsent(r, v)) \/ PutCode(r) \/ PutClient(r)
  \/ TakeCode(r) \/ ReadScope(r) \/ Issue(r) \/ Rotate(r)
\* The scopes an administrator enters.
Offered == {s \in Scope : s = Star \/ Pruned[s] # s}
Administer(a) ==
  \/ \E d \in Domain, t \in Ttl, s \in Offered : handleDomainCreate(a, d, t, s)
  \/ \E i \in EntryId, t \in Ttl, s \in Offered : handleDomainUpdate(a, i, t, s)
  \/ \E i \in EntryId : \/ handleDomainGenerateConsent(a, i) \/ handleDomainDelete(a, i)
                        \/ handleConfidentialRevoke(a, i)
  \/ RevokeByDomain(a) \/ RevokeByClientID(a) \/ UpdateRegistration(a) \/ DeleteRegistration(a)
  \/ \E c \in Conf, s \in Offered, t \in Ttl : handleConfidentialIssue(a, c, s, t[1] + 1)
  \/ \E s \in Issued : handleOAuthRevoke(a, s)
  \/ \E s \in Offered, t \in Ttl : handleOAuthIssueSelf(a, s, t[1])
  \/ (\E p \in Principal : RevokeByPrincipalEmail(a, p)) \/ RewriteScopes(a)

Next ==
  \/ \E r \in Req : Request(r) \/ Handler(r)
  \/ \E a \in Admin : Administer(a)
  \/ Open \/ BootSweep \/ Seed \/ Sweep \/ Crash \/ Tick

Spec == Init /\ [][Next]_vars
----------------------------------------------------------------------------
(* Properties *)

\* The type invariant of the store and the handlers.  The pointer buckets hold one pointer
\* per series and no more: putSeriesTx and deleteSeries keep series, access and refresh in
\* step, so that neither bucket collects pointers nothing removes.
TypeOK ==
  /\ DOMAIN regs \subseteq EntryId /\ clients \subseteq Dcr
  /\ \A i \in DOMAIN regs : /\ regs[i].ident \in Domain \cup Conf
                             /\ regs[i].scope \in Scope /\ regs[i].consent \in Issued \cup {Nil}
  /\ \A k \in DOMAIN codes : codes[k].client \in Client /\ k.of \in Issued
  /\ \A s \in DOMAIN series : /\ series[s].client \in Client /\ series[s].scope \in Scope
                               /\ series[s].accExp \in Nat /\ series[s].refExp \in Nat
  /\ markers \subseteq {"hashed", "seeded"} /\ boot \in {"down", "opened", "swept", "up"}
  /\ now \in 0..MaxNow /\ nextHandle \in 1..(MaxHandles + 1)
  /\ access = [k \in {series[s].acc : s \in DOMAIN series} |->
                 CHOOSE s \in DOMAIN series : series[s].acc = k]
  /\ DOMAIN refresh = {series[s].ref : s \in DOMAIN series}

\* ValidateToken accepts exactly the tokens their clients hold: the latest one of every
\* series that is still there, until it expires, a series issued before tokens were hashed included
\* (migrateHashTokensAtRest re-keys it), and no token that Rotate replaced or any
\* form of revocation ended.
TokensResolve ==
  boot # "down" =>
    \A h \in Issued : ValidateToken(h) <=>
      \E s \in DOMAIN series : held[s] = h /\ now <= series[s].accExp

\* A code is redeemed once, however many requests present it at the same time and
\* whatever happens between TakeCode and NewSeries.
CodeOnce ==
  \A s, t \in DOMAIN origin : origin[s] = origin[t] /\ origin[s] # Nil => s = t

\* A series that was revoked, swept or expired never comes back: a refresh that read
\* it before the revocation does not write it afterwards.  And only an administrator's
\* revocation ends a series before its refresh token has expired: the cleaner, its sweep
\* at boot and Rotate never do ("a refresh-live or live token is never touched").
NoResurrection ==
  [][/\ \A s \in DOMAIN series' \ DOMAIN series : s = nextHandle
     /\ \A s \in DOMAIN series \ DOMAIN series' :
          now > series[s].refExp \/ \E a \in Admin : Administer(a)]_vars

\* An entry that was deleted stays deleted: a handler that read it before
\* (handleDomainUpdate, GenerateDomainConsent) and writes it back after does not bring
\* it back, and the configuration seeds the entries once, wherever the first start
\* stopped.
DeletedStaysDeleted ==
  [][/\ \A i \in DOMAIN regs' \ DOMAIN regs : i \notin used
     /\ boot # "up" /\ "seeded" \in markers => regs' = regs]_vars
=============================================================================
