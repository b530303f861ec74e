------------------------------ MODULE Sessions ------------------------------
(***************************************************************************)
(* The clients of a project: MCP sessions, whose tool calls run            *)
(* concurrently, and web connections, which serve one request at a time.   *)
(* Their handlers turn requests into calls of the write path (module       *)
(* FileStore), and every acknowledged change is fanned out by the          *)
(* notification center to the web connections and to the MCP sessions that *)
(* subscribed to the path, except to the client that made it.              *)
(*                                                                         *)
(* Subscribers are numbered slots.  A slot belongs to one session; reg     *)
(* names the slot a session has now, which for an MCP session is its entry *)
(* in SubscriptionManager.sessions.  A pattern is the set of the paths it  *)
(* matches.  An event carries the number of the request that caused it.    *)
(***************************************************************************)
EXTENDS FileStore

CONSTANTS
  Session,
  Web,        \* the sessions that are web connections
  Request,    \* the requests clients may make
  Slot,       \* bound: subscribers at a time
  Buffer      \* notifyChanBuffer, and the buffer of a web connection

FileOp == CallOp \cup {"copy", "drop"}
ASSUME SessionsAssumption ==
  /\ Web \subseteq Session /\ Buffer \in Nat \ {0} /\ Slot \subseteq Nat \ {0}
  /\ \A r \in Request :
       /\ r.sess \in Session /\ r.op \in FileOp \cup {"subscribe", "unsubscribe", "clear"}
       /\ r.op = "drop" => r.sess \in Web /\ r.ifMatch = None
       /\ r.op \in {"append", "copy", "subscribe", "unsubscribe", "clear"} => r.sess \notin Web

VARIABLES
  live,      \* the sessions that are connected
  h,         \* task -> the request whose handler it runs
  sub,       \* slot -> the subscriber
  reg,       \* session -> its slot, 0 if none
  reap,      \* the reaper of dead subscriptions
  told,      \* ghost: session -> the patterns it was told are subscribed
  lapsed,    \* ghost: sessions that lost a subscription to a race
  owed       \* ghost: session -> the events it still has to be told

connVars == <<live, sub, reg, reap, told, lapsed>>
sessionVars == <<connVars, h, owed>>
allVars == <<vars, sessionVars>>

NoRequest == [sess |-> None, op |-> "none"]
NoHandler == [pc |-> "none", req |-> NoRequest, id |-> 0, seen |-> NoFile, slot |-> 0, left |-> {}]
NoSub == [sess |-> None, pats |-> {}, on |-> FALSE, ch |-> <<>>]
NoReap == [pc |-> "idle", seen |-> {}, dead |-> {}]

Busy(s) == \E t \in Task : h[t].pc # "none" /\ h[t].req.sess = s
\* The center's subscriber lock: no fan-out holds it for reading.
SubUnlocked == \A t \in Task : h[t].pc # "fan"
\* A slot nobody has and nobody refers to.
FreeSlots == {i \in Slot : sub[i] = NoSub /\ \A t \in Task : h[t].slot # i}
NewSlot == CHOOSE i \in FreeSlots : \A j \in FreeSlots : i <= j

----------------------------------------------------------------------------
(* Connections *)

\* A web connection subscribes at once; an MCP session when it first asks for it.  A
\* session that ended is not seen again before its subscription was reaped.
Connect(s) ==
  /\ s \notin live /\ reg[s] = 0 /\ ~Busy(s)
  /\ live' = live \cup {s}
  /\ IF s \in Web
     THEN /\ SubUnlocked /\ FreeSlots # {}
          /\ sub' = [sub EXCEPT ![NewSlot] = [NoSub EXCEPT !.sess = s, !.on = TRUE]]
          /\ reg' = [reg EXCEPT ![s] = NewSlot]
     ELSE UNCHANGED <<sub, reg>>
  /\ UNCHANGED <<vars, h, reap, told, lapsed, owed>>

\* An MCP client may go away during a call; the read loop of a web connection ends
\* between two requests.
Leave(s) ==
  /\ s \in live /\ calls < MaxCalls
  /\ s \in Web => ~Busy(s)
  /\ calls' = calls + 1
  /\ live' = live \ {s}
  /\ told' = [told EXCEPT ![s] = {}] /\ owed' = [owed EXCEPT ![s] = {}]
  /\ lapsed' = lapsed \ {s}
  /\ UNCHANGED <<diskVars, catVars, state, tk, scan, ghostVars, faults, crashes, h, sub, reg, reap>>

\* Mutant: unsubscribing does not wait for a fan-out under way.
UnsubscribeWebM(s) ==
  /\ s \in Web \ live /\ reg[s] # 0
  /\ sub' = [sub EXCEPT ![reg[s]] = NoSub]
  /\ reg' = [reg EXCEPT ![s] = 0]
  /\ UNCHANGED <<vars, live, h, reap, told, lapsed, owed>>
\* The end of ServeHTTP: unsubscribe, then close the channel, which ends the drain.
UnsubscribeWeb(s) ==
  /\ s \in Web \ live /\ reg[s] # 0 /\ SubUnlocked
  /\ sub' = [sub EXCEPT ![reg[s]] = NoSub]
  /\ reg' = [reg EXCEPT ![s] = 0]
  /\ UNCHANGED <<vars, live, h, reap, told, lapsed, owed>>

----------------------------------------------------------------------------
(* Requests that change files *)

\* Mutant: the write of a copy is unconditional.
etagAbsentM == None
\* The SHA-256 of no bytes: the etag of an absent file, and of an empty one.
etagAbsent == {}

StoreCall(r, op, content, m) ==
  [op |-> op, path |-> r.path, from |-> r.from, content |-> content, ifMatch |-> m]

\* What the handlers ask of the store: the tools with the caller's if_match as it is, the
\* web with an empty one for none.  append_to_file and patch_file are edits.
WriteFileHandler(r)    == StoreCall(r, "write", r.content, r.ifMatch)
AppendToFileHandler(r) == StoreCall(r, "append", r.content, r.ifMatch)
DeleteFileHandler(r)   == StoreCall(r, "delete", {}, r.ifMatch)
MoveFileHandler(r)     == StoreCall(r, "move", {}, r.ifMatch)
CopyFileHandler(r, f)  == StoreCall(r, "write", f, etagAbsent)
handleSaveFile(r)      == StoreCall(r, "write", r.content, r.ifMatch)
handleDeleteFile(r)    == StoreCall(r, "delete", {}, r.ifMatch)
handleMoveFile(r)      == StoreCall(r, "move", {}, r.ifMatch)

ToolCall(r) ==
  CASE r.op = "write"  -> WriteFileHandler(r)
    [] r.op = "append" -> AppendToFileHandler(r)
    [] r.op = "delete" -> DeleteFileHandler(r)
    [] r.op = "move"   -> MoveFileHandler(r)
WebCall(r) ==
  CASE r.op = "write"  -> handleSaveFile(r)
    [] r.op = "delete" -> handleDeleteFile(r)
    [] r.op = "move"   -> handleMoveFile(r)
FileCall(r) == IF r.sess \in Web THEN WebCall(r) ELSE ToolCall(r)

\* The calls the store gets are those the handlers make.
ASSUME HandlersAssumption ==
  \A r \in Request :
    /\ r.op \in CallOp => FileCall(r) \in Call
    /\ r.op = "drop" => handleSaveFile(r) \in Call
    /\ r.op = "copy" => r.from \in Path /\ \A f \in Content : CopyFileHandler(r, f) \in Call

\* A client sends a request.  copy_file reads its source first, a dropped file looks
\* for one that is there; the other handlers go straight to the store.
Receive(t, r) ==
  /\ tk[t].pc = "idle" /\ h[t].pc = "none" /\ calls < MaxCalls
  /\ r \in Request /\ r.op \in FileOp /\ r.sess \in live
  /\ r.sess \in Web => ~Busy(r.sess)
  /\ calls' = calls + 1
  /\ LET at == CASE r.op = "copy" -> "read" [] r.op = "drop" -> "check" [] OTHER -> "call" IN
       /\ h' = [h EXCEPT ![t] = [NoHandler EXCEPT !.pc = at, !.req = r, !.id = calls']]
       /\ tk' = IF at = "call"
                THEN [tk EXCEPT ![t] = Called(FileCall(r))]
                ELSE tk
  /\ UNCHANGED <<diskVars, catVars, state, scan, ghostVars, faults, crashes, connVars, owed>>

\* ReadFileWithETag of the source; a project that is dangerous is not read.
ReadSource(t) ==
  /\ h[t].pc = "read"
  /\ LET f == IF state = "dangerous" THEN NoFile ELSE tree[h[t].req.from] IN
       h' = [h EXCEPT ![t] = IF f = NoFile THEN NoHandler
                             ELSE [@ EXCEPT !.pc = "check", !.seen = f]]
  /\ UNCHANGED <<vars, connVars, owed>>

\* A file that is there refuses the request; then copy_file writes under the etag of
\* an absent file and a drop writes without a condition.
CheckAbsent(t) ==
  /\ h[t].pc = "check"
  /\ LET r == h[t].req
         there == state # "dangerous" /\ tree[r.path] # NoFile IN
       IF there \/ (r.op = "copy" /\ state = "dangerous")
       THEN h' = [h EXCEPT ![t] = NoHandler] /\ tk' = tk
       ELSE /\ h' = [h EXCEPT ![t].pc = "call", ![t].seen = NoFile]
            /\ tk' = [tk EXCEPT ![t] =
                 Called(IF r.op = "copy" THEN CopyFileHandler(r, h[t].seen)
                                         ELSE handleSaveFile(r))]
  /\ UNCHANGED <<diskVars, catVars, state, scan, ghostVars, countVars, connVars, owed>>

Event(t) == [id |-> h[t].id, path |-> h[t].req.path]
\* Who expects to hear of a change: everyone else who listens to its path.  A move is
\* known by its target.
Listens(s, path) == s \in live /\ (s \in Web \/ \E p \in told[s] : path \in p)

\* A step of the store call.  When it is acknowledged its event is due.
StoreStep(t) ==
  /\ h[t].pc = "call"
  /\ TaskStep(t) \/ StepFails(t)
  /\ LET done == InCrit(t) /\ tk[t].todo = <<>> IN
       /\ h' = [h EXCEPT ![t] = IF tk'[t].pc # "idle" THEN @
                                ELSE IF done THEN [@ EXCEPT !.pc = "publish"] ELSE NoHandler]
       /\ owed' = IF done
                  THEN [s \in Session |->
                          IF s # h[t].req.sess /\ Listens(s, h[t].req.path)
                          THEN owed[s] \cup {Event(t)} ELSE owed[s]]
                  ELSE owed
  /\ UNCHANGED connVars

----------------------------------------------------------------------------
(* The notification center *)

\* publishFrom takes the subscriber lock for reading ...
FanOut(t) ==
  /\ h[t].pc = "publish"
  /\ LET all == {i \in Slot : sub[i].on} IN
       h' = [h EXCEPT ![t] = IF all = {} THEN NoHandler ELSE [@ EXCEPT !.pc = "fan", !.left = all]]
  /\ UNCHANGED <<vars, connVars, owed>>

\* Sender-exclusion.
Excluded(i, s) == sub[i].sess = s
\* Mutant: a pattern matches the path it names only.
MatchedM(i, path) == sub[i].sess \in Web \/ {path} \in sub[i].pats
Matched(i, path) == sub[i].sess \in Web \/ \E p \in sub[i].pats : path \in p

room(i) == Len(sub[i].ch) < Buffer

\* ... and calls each subscriber, which puts the event in its channel or, when that is
\* full, drops it.  The order is the slots' (a map's, in the code): the lock is held all
\* along and the channels are apart, so that the order cannot be told.
Deliver(t, i) ==
  /\ h[t].pc = "fan" /\ i \in h[t].left /\ \A j \in h[t].left : i <= j
  /\ h' = IF h[t].left = {i} THEN [h EXCEPT ![t] = NoHandler]
                              ELSE [h EXCEPT ![t].left = @ \ {i}]
  /\ LET e == Event(t)
         wanted == ~Excluded(i, h[t].req.sess) /\ Matched(i, e.path) IN
       /\ sub' = IF wanted /\ room(i) THEN [sub EXCEPT ![i].ch = Append(@, e)] ELSE sub
       /\ owed' = IF wanted /\ Len(sub[i].ch) >= Buffer
                  THEN [owed EXCEPT ![sub[i].sess] = @ \ {e}] ELSE owed
  /\ UNCHANGED <<vars, live, reg, reap, told, lapsed>>

\* The drain goroutine of a subscriber sends the next event to its client.
Drain(i) ==
  /\ sub[i].ch # <<>>
  /\ sub' = [sub EXCEPT ![i].ch = Tail(@)]
  /\ owed' = [owed EXCEPT ![sub[i].sess] = @ \ {Head(sub[i].ch)}]
  /\ UNCHANGED <<vars, live, reg, reap, told, lapsed, h>>

----------------------------------------------------------------------------
(* Subscriptions of MCP sessions *)

subOnly == <<diskVars, catVars, state, tk, scan, ghostVars, faults, crashes, live, reap>>
Asks(t, r, op) ==
  /\ tk[t].pc = "idle" /\ h[t].pc = "none" /\ calls < MaxCalls
  /\ r \in Request /\ r.op = op /\ r.sess \in live
  /\ calls' = calls + 1

\* addPattern finds or makes the session's subscriber and lets go of the manager ...
Subscribe(t, r) ==
  /\ Asks(t, r, "subscribe")
  /\ IF reg[r.sess] # 0
     THEN UNCHANGED <<sub, reg>>
     ELSE /\ SubUnlocked /\ FreeSlots # {}
          /\ sub' = [sub EXCEPT ![NewSlot] = [NoSub EXCEPT !.sess = r.sess, !.on = TRUE]]
          /\ reg' = [reg EXCEPT ![r.sess] = NewSlot]
  /\ h' = [h EXCEPT ![t] = [NoHandler EXCEPT !.pc = "add", !.req = r, !.slot = reg'[r.sess]]]
  /\ UNCHANGED <<subOnly, told, lapsed, owed>>

\* ... before it adds the pattern, also to a subscriber that was torn down meanwhile.
AddPattern(t) ==
  /\ h[t].pc = "add"
  /\ LET s == h[t].req.sess
         kept == reg[s] = h[t].slot IN
       /\ sub' = IF sub[h[t].slot].sess = s /\ sub[h[t].slot].on
                 THEN [sub EXCEPT ![h[t].slot].pats = @ \cup {h[t].req.pat}] ELSE sub
       /\ told' = IF s \in live THEN [told EXCEPT ![s] = @ \cup {h[t].req.pat}] ELSE told
       /\ lapsed' = IF kept \/ s \notin live THEN lapsed ELSE lapsed \cup {s}
  /\ h' = [h EXCEPT ![t] = NoHandler]
  /\ UNCHANGED <<vars, live, reg, reap, owed>>

\* The session gives up patterns: the rest still counts.
GiveUp(s, pats) ==
  /\ told' = [told EXCEPT ![s] = @ \ pats]
  /\ owed' = [owed EXCEPT ![s] = {e \in @ : \E p \in told[s] \ pats : e.path \in p}]

\* Mutant: the subscriber is forgotten whatever patterns it has left.
emptiedM(pats) == TRUE
emptied(pats) == pats = {}

\* removePattern and clearSession: a subscriber without patterns leaves the manager,
\* and is torn down afterwards.
Unsubscribe(t, r) ==
  /\ Asks(t, r, "unsubscribe") \/ Asks(t, r, "clear")
  /\ LET s == r.sess
         i == reg[s]
         gone == IF r.op = "clear" THEN sub[i].pats \cup told[s] ELSE {r.pat} IN
       IF i = 0 THEN UNCHANGED <<sub, reg, h, told, owed>>
       ELSE /\ sub' = [sub EXCEPT ![i].pats = @ \ gone]
            /\ GiveUp(s, gone)
            /\ IF r.op = "clear" \/ emptied(sub[i].pats \ gone)
               THEN /\ reg' = [reg EXCEPT ![s] = 0]
                    /\ h' = [h EXCEPT ![t] = [NoHandler EXCEPT !.pc = "tear", !.req = r, !.slot = i]]
               ELSE UNCHANGED <<reg, h>>
  /\ UNCHANGED <<subOnly, lapsed>>

TearDown(t) ==
  /\ h[t].pc = "tear" /\ SubUnlocked
  /\ sub' = [sub EXCEPT ![h[t].slot] = NoSub]
  /\ h' = [h EXCEPT ![t] = NoHandler]
  /\ UNCHANGED <<vars, live, reg, reap, told, lapsed, owed>>

\* ReapOnce lists the live sessions, then takes the others out of the manager, then
\* tears them down.  A pass that finds every session live does nothing.
ReapList ==
  /\ reap.pc = "idle" /\ ~(Session \ Web \subseteq live)
  /\ reap' = [reap EXCEPT !.pc = "take", !.seen = live]
  /\ UNCHANGED <<vars, live, sub, reg, told, lapsed, h, owed>>

ReapTake ==
  /\ reap.pc = "take"
  /\ LET dead == {s \in Session \ Web : reg[s] # 0 /\ s \notin reap.seen} IN
       /\ reg' = [s \in Session |-> IF s \in dead THEN 0 ELSE reg[s]]
       /\ reap' = [pc |-> "tear", seen |-> {}, dead |-> {reg[s] : s \in dead}]
       /\ lapsed' = lapsed \cup (dead \cap live)
  /\ UNCHANGED <<vars, live, sub, told, h, owed>>

ReapTear ==
  /\ reap.pc = "tear" /\ SubUnlocked
  /\ sub' = [i \in Slot |-> IF i \in reap.dead THEN NoSub ELSE sub[i]]
  /\ reap' = NoReap
  /\ UNCHANGED <<vars, live, reg, told, lapsed, h, owed>>

----------------------------------------------------------------------------
\* The MCP sessions are there, the web connections are still to come.
SessionsInit ==
  /\ Init
  /\ live = Session \ Web /\ h = [t \in Task |-> NoHandler]
  /\ sub = [i \in Slot |-> NoSub] /\ reg = [s \in Session |-> 0]
  /\ reap = NoReap
  /\ told = [s \in Session |-> {}] /\ lapsed = {} /\ owed = [s \in Session |-> {}]

\* A crash ends every connection.
Crash ==
  /\ Restart
  /\ live' = {} /\ h' = [t \in Task |-> NoHandler]
  /\ sub' = [i \in Slot |-> NoSub] /\ reg' = [s \in Session |-> 0]
  /\ reap' = NoReap
  /\ told' = [s \in Session |-> {}] /\ lapsed' = {} /\ owed' = [s \in Session |-> {}]

SessionsNext ==
  \/ \E s \in Session : Connect(s) \/ Leave(s) \/ UnsubscribeWeb(s)
  \/ \E t \in Task :
       \/ \E r \in Request : Receive(t, r) \/ Subscribe(t, r) \/ Unsubscribe(t, r)
       \/ ReadSource(t) \/ CheckAbsent(t) \/ StoreStep(t)
       \/ FanOut(t) \/ (\E i \in Slot : Deliver(t, i))
       \/ AddPattern(t) \/ TearDown(t)
  \/ \E i \in Slot : Drain(i)
  \/ ReapList \/ ReapTake \/ ReapTear
  \/ CommitOldest /\ UNCHANGED sessionVars
  \/ Crash

SessionsSpec == SessionsInit /\ [][SessionsNext]_allVars

----------------------------------------------------------------------------
(* Properties *)

\* The type invariant, with FileStore's; a channel stays within its buffer (onEvent), and
\* no fan-out goes on to a subscriber that is gone, whose channel is closed ("the
\* unsubscribe returns only after any in-flight fan-out completes", ServeHTTP).
ClientsTypeOK ==
  /\ TypeOK
  /\ live \subseteq Session /\ lapsed \subseteq Session
  /\ reg \in [Session -> Slot \cup {0}]
  /\ \A t \in Task :
       /\ h[t].pc \in {"none", "read", "check", "call", "publish", "fan", "add", "tear"}
       /\ h[t].left \subseteq Slot /\ h[t].id \in 0..MaxCalls /\ h[t].slot \in Slot \cup {0}
       /\ h[t].pc \in {"none", "publish", "fan"} => tk[t].pc = "idle"
  /\ \A i \in Slot : Len(sub[i].ch) <= Buffer /\ sub[i].on \in BOOLEAN
  /\ \A t \in Task : \A i \in h[t].left : sub[i].on
  /\ reap.pc \in {"idle", "take", "tear"} /\ reap.seen \subseteq Session
  /\ reap.dead \subseteq Slot

\* Every change another client had acknowledged is told to a web connection, and to an
\* MCP session if its path is under a pattern the session was told it has, unless the
\* channel was full (publishFrom, onEvent): it is still to be fanned out, or it waits
\* in the session's channel.
NothingMissed ==
  \A s \in live \ lapsed : \A e \in owed[s] :
    \/ \E t \in Task : h[t].pc = "publish" /\ h[t].id = e.id
    \/ \E t \in Task : h[t].pc = "fan" /\ h[t].id = e.id /\ \E i \in h[t].left : sub[i].sess = s
    \/ \E i \in Slot : sub[i].sess = s /\ e \in Elements(sub[i].ch)

\* What a session was told it has subscribed stays in effect until it unsubscribes or
\* ends, unless an unsubscribe of the session overlapped the subscribe or it connected
\* during a pass of the reaper (addPattern, removePattern, ReapOnce).
SubscriptionsHold ==
  \A s \in live \ (Web \cup lapsed) :
    told[s] # {} => reg[s] # 0 /\ sub[reg[s]].on /\ told[s] \subseteq sub[reg[s]].pats

\* copy_file replaces no content: at the moment it writes, the destination is absent or
\* empty, however many writers race for it (CopyFileHandler, etagAbsent).
CopyReplacesNothing ==
  [][\A t \in Task : h[t].req.op = "copy" /\ Put(t) => tree[h[t].req.path] \in {NoFile, {}}]_allVars
=============================================================================
