-------------------------- MODULE RouteSubscribers --------------------------
(***************************************************************************)
(* The subscribers of one route: RouteDurableObject of                     *)
(* src/durable-object.ts.  One object per route keeps a row per subscriber *)
(* in SQLite, the OAuth states bound to subscribers, an alarm, and the     *)
(* hibernatable WebSockets of its reverse tunnels.                         *)
(*                                                                         *)
(* The object is single threaded: a handler runs until it awaits something *)
(* that is not its own storage.  A join awaits twice, and is three steps:  *)
(*   "hashing"    the digest of its new connection token (line 656),       *)
(*   "proving"    the comparison with the token it presents (line 661),    *)
(*   "attaching"  the router index's answer to syncIndex() (lines 197 and  *)
(*                299), before the socket is accepted or the response      *)
(*                returned.                                                *)
(* Every other handler changes the state before its first await, and is    *)
(* one action.                                                             *)
(*                                                                         *)
(* A connection attempt names what it creates: the subscriber id, the      *)
(* connection token and the server end of the socket made for attempt c    *)
(* are all written c.  Ages stand for the clock.  Deliveries (the pending  *)
(* map) are TunnelDelivery's; the index is RouteIndexSync's.               *)
(***************************************************************************)
EXTENDS Naturals, FiniteSets

CONSTANTS
  Conns,          \* connection attempts: tunnel upgrades and registrations
  NoConn,         \* no attempt: no token presented, no row seen, no binding
  Envs,           \* environment ids
  NoEnv,          \* an anonymous subscriber's environment_id: NULL
  OAuthStates,    \* values of the OAuth state parameter that clients bind
  CryptoYields    \* may another handler run while a join awaits a digest?

ASSUME ConnsAssumption == NoConn \notin Conns
ASSUME EnvsAssumption == NoEnv \notin Envs
ASSUME CryptoAssumption == CryptoYields \in BOOLEAN

VARIABLES
  rows,        \* table subscribers: [subscriber id -> row, NoRow if absent]
  phase,       \* [attempt -> where its join handler stands]
  ask,         \* [attempt -> what the join asked for]
  seen,        \* [attempt -> the row its join captured before hashing]
  sock,        \* [attempt -> state of the server end of its WebSocket]
  pinged,      \* open sockets auto-answered within TUNNEL_STALE_MS
  ignored,     \* ignoreDisconnectLog: sockets this object closed itself
  bindings,    \* table oauth_bindings: [state -> subscriber id or NoConn]
  overdue,     \* bound states whose expires_at has passed
  alarm,       \* is a Durable Object alarm set?
  audit        \* [subscriber id -> last connection-log event queued for it]

vars == <<rows, phase, ask, seen, sock, pinged, ignored, bindings, overdue,
          alarm, audit>>

-----------------------------------------------------------------------------
(* Values *)

\* A row's age since last_heartbeat_at: "fresh", then "idle", then "stale" past
\* TUNNEL_STALE_MS, then "lapsed" past SUBSCRIBER_TTL_MS.  Every statement
\* writes last_heartbeat_at and expires_at together, so one age is enough.
Ages == {"fresh", "idle", "stale", "lapsed"}
Row == [transport : {"none", "public", "tunnel"}, env : Envs \cup {NoEnv},
        token : Conns \cup {NoConn}, age : Ages]

NoRow == [transport |-> "none", env |-> NoEnv, token |-> NoConn,
          age |-> "fresh"]

Ask == [transport : {"none", "public", "tunnel"}, env : Envs \cup {NoEnv},
        proof : Conns \cup {NoConn}]
NoAsk == [transport |-> "none", env |-> NoEnv, proof |-> NoConn]

Seen == [id : Conns \cup {NoConn}, transport : {"none", "public", "tunnel"},
         token : Conns \cup {NoConn}]
NoSeen == [id |-> NoConn, transport |-> "none", token |-> NoConn]

InCrypto == {"hashing", "proving"}
InFlight == InCrypto \cup {"attaching"}
Phases == InFlight \cup {"new", "done", "rejected", "failed"}
\* "closing": one end has closed, the close event is not delivered yet.
\* "lost": dropped by a restart of the object, without a close event.
SockStates == {"none", "open", "closing", "gone", "lost"}
AuditEvents == {"none", "connected", "disconnected"}

Present(rw, s) == rw[s].transport # "none"

\* The subscriber an attempt's socket is tagged with: the one it reclaimed, or
\* the one it created.
SubOf(c) == IF seen[c].id = NoConn THEN c ELSE seen[c].id

\* ctx.getWebSockets(s): open and closing sockets alike.
Listed(sk, s) ==
  {c \in Conns : SubOf(c) = s /\ sk[c] \in {"open", "closing"}}

\* May a handler start?  Unless digests yield, a join runs through them.
Uninterrupted == CryptoYields \/ \A c \in Conns : phase[c] \notin InCrypto

-----------------------------------------------------------------------------
(* purgeExpired: it opens nearly every handler *)

IgnoresOpenSockets(rw, sk, s) ==                                   \* mutant
  \/ rw[s].transport # "none" /\ rw[s].age = "lapsed"
  \/ rw[s].transport = "tunnel" /\ Listed(sk, s) = {} /\ rw[s].env = NoEnv

\* Rows purgeExpired removes: expired public rows, expired tunnels without a
\* socket and (purgeDisconnectedTunnels) anonymous tunnels without a socket.
IsPurged(rw, sk, s) ==
  \/ rw[s].transport = "public" /\ rw[s].age = "lapsed"
  \/ /\ rw[s].transport = "tunnel"
     /\ Listed(sk, s) = {}
     /\ rw[s].age = "lapsed" \/ rw[s].env = NoEnv

Purged(rw, sk) == {s \in Conns : IsPurged(rw, sk, s)}

\* The rows purgeExpired leaves: an expired tunnel that has a socket is
\* extended instead.
PurgedRows(rw, sk) ==
  [s \in Conns |->
     IF IsPurged(rw, sk, s) THEN NoRow
     ELSE IF rw[s].transport = "tunnel" /\ rw[s].age = "lapsed"
          THEN [rw[s] EXCEPT !.age = "fresh"]
          ELSE rw[s]]

\* Open sockets that expireStaleTunnels finds silent, in the rows rw: neither
\* the row nor the auto-response timestamp is recent.
Silent(rw, sk) ==
  {c \in Conns : /\ sk[c] = "open"
                 /\ c \notin pinged
                 /\ rw[SubOf(c)].transport = "tunnel"
                 /\ rw[SubOf(c)].age \in {"stale", "lapsed"}}

ClosesNone(rw, sk) == {sk}                                         \* mutant

\* What ws.close(4000) leaves of the sockets.  liveSocket is the first open
\* socket of the row, whichever the runtime lists first.
StaleClosed(rw, sk) ==
  {[c \in Conns |-> IF c \in closed THEN "closing" ELSE sk[c]] :
     closed \in {D \in SUBSET Silent(rw, sk) :
        /\ \A c, d \in D : SubOf(c) = SubOf(d) => c = d
        /\ \A c \in Silent(rw, sk) \ D : \E d \in Conns \ {c} :
             /\ sk[d] = "open" /\ SubOf(d) = SubOf(c)
             /\ d \in D \/ d \notin Silent(rw, sk)}}

KeepsBindings(D) == bindings                                       \* mutant

\* removeSubscriberRow also deletes the bindings of the rows D it deletes ...
BindingsWithout(D) ==
  [st \in OAuthStates |-> IF bindings[st] \in D THEN NoConn ELSE bindings[st]]

\* ... purgeExpired those that are overdue.
LiveBindings(D) ==
  [st \in OAuthStates |->
     IF st \in overdue THEN NoConn ELSE BindingsWithout(D)[st]]

LogsNothing(D) == audit                                            \* mutant

\* removeSubscriberRow queues a "disconnected" event for each row.
AuditWithout(D) ==
  [s \in Conns |-> IF s \in D THEN "disconnected" ELSE audit[s]]

\* The sockets, bindings and log a purge leaves.  The caller sets rows'.
PurgeEffects(rw, sk) ==
  /\ sock' \in StaleClosed(PurgedRows(rw, sk), sk)
  /\ bindings' = LiveBindings(Purged(rw, sk))
  /\ overdue' = {}
  /\ audit' = AuditWithout(Purged(rw, sk))
  /\ pinged' = {c \in pinged : sock'[c] = "open"}

PurgeExpired ==
  /\ rows' = PurgedRows(rows, sock)
  /\ PurgeEffects(rows, sock)

AlarmOnlyForTunnels(rw) == \E s \in Conns : rw[s].transport = "tunnel"  \* mutant

\* scheduleCleanup: an alarm while there is a row, none without.
CleanupAlarm(rw) == \E s \in Conns : Present(rw, s)

-----------------------------------------------------------------------------
(* Joins: fetch (a tunnel upgrade) and register (a public target) *)

RowOfEnv(rw, e) == {s \in Conns : Present(rw, s) /\ rw[s].env = e}

Snapshot(rw, s) ==
  [id |-> s, transport |-> rw[s].transport, token |-> rw[s].token]

\* Tokens a client may present: those a join response or a hello carried.
Issued == {c \in Conns : phase[c] = "done"}

\* lookupSubscriberByEnvironment.
LookupByEnvironment(rw, e) == RowOfEnv(rw, e)

\* fetch / register up to the digest: purge, then look the environment up.
BeginJoin(c, tr, e, p) ==
  /\ Uninterrupted
  /\ phase[c] = "new"
  /\ p # NoConn => e # NoEnv
  /\ PurgeExpired
  /\ ask' = [ask EXCEPT ![c] = [transport |-> tr, env |-> e, proof |-> p]]
  /\ \/ /\ e = NoEnv \/ LookupByEnvironment(rows', e) = {}
        /\ UNCHANGED seen
     \/ \E s \in LookupByEnvironment(rows', e) :
          /\ e # NoEnv
          /\ seen' = [seen EXCEPT ![c] = Snapshot(rows', s)]
  /\ phase' = [phase EXCEPT ![c] = "hashing"]
  /\ UNCHANGED <<ignored, alarm>>

\* register schedules the cleanup once the row is written; fetch does not.
JoinAlarm(c) ==
  alarm' = IF ask[c].transport = "public" THEN CleanupAlarm(rows') ELSE alarm

AdmitsTwins(c) == FALSE                                            \* mutant

\* The UNIQUE index on environment_id refuses the INSERT.
Conflicts(c) == ask[c].env # NoEnv /\ RowOfEnv(rows, ask[c].env) # {}

RowFor(c) == [transport |-> ask[c].transport, env |-> ask[c].env,
              token |-> c, age |-> "fresh"]

\* No row had the environment id: INSERT a new subscriber.
CreateRow(c) ==
  /\ phase[c] = "hashing"
  /\ seen[c].id = NoConn
  /\ ~Conflicts(c)
  /\ rows' = [rows EXCEPT ![c] = RowFor(c)]
  /\ audit' = [audit EXCEPT ![c] = "connected"]
  /\ phase' = [phase EXCEPT ![c] = "attaching"]
  /\ JoinAlarm(c)
  /\ UNCHANGED <<ask, seen, sock, pinged, ignored, bindings, overdue>>

\* The join handler returns: its locals are gone, its socket keeps its tag.
Return(c, outcome) ==
  /\ phase' = [phase EXCEPT ![c] = outcome]
  /\ ask' = [ask EXCEPT ![c] = NoAsk]
  /\ seen' = [seen EXCEPT ![c] = [NoSeen EXCEPT !.id = seen[c].id]]

\* The INSERT throws: another join inserted the id while this one hashed.
CreateConflicts(c) ==
  /\ phase[c] = "hashing"
  /\ seen[c].id = NoConn
  /\ Conflicts(c)
  /\ Return(c, "failed")
  /\ UNCHANGED <<rows, sock, pinged, ignored, bindings, overdue, alarm, audit>>

\* subscriberIsLive(existing): a public row always is, a tunnel while the
\* runtime lists a socket for it.
SubscriberIsLive(c) ==
  seen[c].transport = "public" \/ Listed(sock, seen[c].id) # {}

\* closeSockets(s): an open socket starts closing; all are marked.
ClosedSockets(s) ==
  [c \in Conns |-> IF c \in Listed(sock, s) THEN "closing" ELSE sock[c]]

MarkedIgnored(s) == ignored \cup Listed(sock, s)

\* Take the captured row over: close its sockets, rotate its token.
ReclaimRow(c) ==
  LET s == seen[c].id IN
  /\ sock' = ClosedSockets(s)
  /\ ignored' = MarkedIgnored(s)
  /\ pinged' = pinged \ Listed(sock, s)
  /\ rows' = IF Present(rows, s) THEN [rows EXCEPT ![s] = RowFor(c)] ELSE rows
  /\ audit' = [audit EXCEPT ![s] = "connected"]
  /\ phase' = [phase EXCEPT ![c] = "attaching"]
  /\ JoinAlarm(c)
  /\ UNCHANGED <<ask, seen, bindings, overdue>>

\* A row captured without a live connection is reclaimed without proof.
ReclaimParked(c) ==
  /\ phase[c] = "hashing"
  /\ seen[c].id # NoConn
  /\ ~SubscriberIsLive(c)
  /\ ReclaimRow(c)

\* A live one must be proved: await connectionTokenMatches.
DemandProof(c) ==
  /\ phase[c] = "hashing"
  /\ seen[c].id # NoConn
  /\ SubscriberIsLive(c)
  /\ phase' = [phase EXCEPT ![c] = "proving"]
  /\ UNCHANGED <<rows, ask, seen, sock, pinged, ignored, bindings, overdue,
                 alarm, audit>>

TakesAnyToken(c) == ask[c].proof # NoConn                          \* mutant

\* The token presented is the one whose hash was captured.
ProofMatches(c) == ask[c].proof = seen[c].token

ReclaimProved(c) ==
  /\ phase[c] = "proving"
  /\ ProofMatches(c)
  /\ ReclaimRow(c)

\* 409 environment_in_use.
RejectJoin(c) ==
  /\ phase[c] = "proving"
  /\ ~ProofMatches(c)
  /\ Return(c, "rejected")
  /\ UNCHANGED <<rows, sock, pinged, ignored, bindings, overdue, alarm, audit>>

\* The index answered.  fetch accepts the socket and sends hello; register
\* returns its response.  Neither looks at the row again.
FinishJoin(c) ==
  /\ Uninterrupted
  /\ phase[c] = "attaching"
  /\ Return(c, "done")
  /\ sock' = IF ask[c].transport = "tunnel"
             THEN [sock EXCEPT ![c] = "open"] ELSE sock
  /\ UNCHANGED <<rows, pinged, ignored, bindings, overdue, alarm, audit>>

\* The index call fails: the handler throws, its row stays.
FailJoin(c) ==
  /\ Uninterrupted
  /\ phase[c] = "attaching"
  /\ Return(c, "failed")
  /\ UNCHANGED <<rows, sock, pinged, ignored, bindings, overdue, alarm, audit>>

-----------------------------------------------------------------------------
(* The other handlers *)

Extended(rw, S) ==
  [s \in Conns |-> IF s \in S /\ Present(rw, s)
                   THEN [rw[s] EXCEPT !.age = "fresh"] ELSE rw[s]]

\* heartbeat(s): the RPC of a public client.
Heartbeat(s) ==
  LET kept == PurgedRows(rows, sock) IN
  /\ Uninterrupted
  /\ PurgeEffects(rows, sock)
  /\ rows' = Extended(kept, {s})
  /\ alarm' = IF Present(kept, s) THEN CleanupAlarm(rows') ELSE alarm
  /\ UNCHANGED <<phase, ask, seen, ignored>>

\* webSocketMessage with a heartbeat: extend the socket's subscriber.  The client
\* sends one right behind a ping (tunnel-client.ts startPing).
SocketHeartbeat(c) ==
  /\ Uninterrupted
  /\ c \in pinged \/ sock[c] = "closing"
  /\ rows' = Extended(rows, {SubOf(c)})
  /\ UNCHANGED <<phase, ask, seen, sock, pinged, ignored, bindings, overdue,
                 alarm, audit>>

\* deregister(s): close, remove, purge what else is due.
Deregister(s) ==
  LET left == [rows EXCEPT ![s] = NoRow]
      sk   == ClosedSockets(s)
      kept == PurgedRows(left, sk)
      gone == Purged(left, sk) \cup {r \in {s} : Present(rows, r)} IN
  /\ Uninterrupted
  /\ ignored' = MarkedIgnored(s)
  /\ rows' = kept
  /\ sock' \in StaleClosed(kept, sk)
  /\ bindings' = LiveBindings(gone)
  /\ overdue' = {}
  /\ audit' = AuditWithout(gone)
  /\ pinged' = {c \in pinged : sock'[c] = "open"}
  /\ alarm' = CleanupAlarm(rows')
  /\ UNCHANGED <<phase, ask, seen>>

\* The lookup that guards the upsert of a binding.
MayBind(rw, s) == Present(rw, s)

\* bindOAuthState(s, st).
BindOAuthState(s, st) ==
  LET kept == PurgedRows(rows, sock)
      gone == Purged(rows, sock) IN
  /\ Uninterrupted
  /\ rows' = kept
  /\ sock' \in StaleClosed(kept, sock)
  /\ bindings' = IF MayBind(kept, s)
                 THEN [LiveBindings(gone) EXCEPT ![st] = s]
                 ELSE LiveBindings(gone)
  /\ overdue' = {}
  /\ audit' = AuditWithout(gone)
  /\ pinged' = {c \in pinged : sock'[c] = "open"}
  /\ UNCHANGED <<phase, ask, seen, ignored, alarm>>

\* A subscriber that can be delivered to: a public one, or a tunnel with an
\* open socket.
Deliverable(rw, sk) ==
  {s \in Conns : \/ rw[s].transport = "public"
                 \/ /\ rw[s].transport = "tunnel"
                    /\ \E c \in Listed(sk, s) : sk[c] = "open"}

\* Public ingress: getActiveSubscribers and countWebhookFanoutDeliveries purge
\* (S = {}); fanOut and proxyOAuth also touch the subscribers they deliver to.
Ingress(S) ==
  /\ Uninterrupted
  /\ PurgeEffects(rows, sock)
  /\ S \subseteq Deliverable(PurgedRows(rows, sock), sock')
  /\ rows' = Extended(PurgedRows(rows, sock), S)
  /\ UNCHANGED <<phase, ask, seen, ignored, alarm>>

\* alarm().
Alarm ==
  /\ Uninterrupted
  /\ alarm
  /\ PurgeExpired
  /\ alarm' = CleanupAlarm(rows')
  /\ UNCHANGED <<phase, ask, seen, ignored>>

IgnoredBySubscriber(c) == \E d \in ignored : SubOf(d) = SubOf(c)      \* mutant

\* Did this object close the socket itself (deregistered or replaced)?
WasIgnored(c) == c \in ignored

ParksAnonymous(s) == Present(rows, s)                                \* mutant

\* An environment's row outlives its socket.
Parks(s) == Present(rows, s) /\ rows[s].env # NoEnv

\* webSocketClose / webSocketError: detachSocket.
DetachSocket(c) ==
  LET s == SubOf(c) IN
  /\ Uninterrupted
  /\ sock[c] \in {"open", "closing"}
  /\ sock' = [sock EXCEPT ![c] = "gone"]
  /\ pinged' = pinged \ {c}
  /\ ignored' = ignored \ {c}
  /\ \/ /\ WasIgnored(c)
        /\ UNCHANGED <<rows, bindings, alarm, audit>>
     \/ /\ ~WasIgnored(c) /\ Parks(s)
        /\ rows' = Extended(rows, {s})
        /\ audit' = AuditWithout({s})
        /\ alarm' = CleanupAlarm(rows')
        /\ UNCHANGED bindings
     \/ /\ ~WasIgnored(c) /\ ~Parks(s)
        /\ rows' = [rows EXCEPT ![s] = NoRow]
        /\ bindings' = BindingsWithout({r \in {s} : Present(rows, r)})
        /\ audit' = AuditWithout({r \in {s} : Present(rows, r)})
        /\ UNCHANGED alarm
  /\ UNCHANGED <<phase, ask, seen, overdue>>

-----------------------------------------------------------------------------
(* The environment: time, peers and the platform *)

\* The client's ping is auto-answered without waking the object.
Ping(c) ==
  /\ sock[c] = "open" /\ c \notin pinged
  /\ pinged' = pinged \cup {c}
  /\ UNCHANGED <<rows, phase, ask, seen, sock, ignored, bindings, overdue,
                 alarm, audit>>

\* TUNNEL_STALE_MS without a ping.
FallSilent(c) ==
  /\ c \in pinged
  /\ pinged' = pinged \ {c}
  /\ UNCHANGED <<rows, phase, ask, seen, sock, ignored, bindings, overdue,
                 alarm, audit>>

\* A row ages.  A set alarm runs before a tunnel found stale can lapse: it is
\* set at most 30 s ahead once a tunnel row exists, and at most one TTL ahead
\* before that.
RowAges(s) ==
  /\ Present(rows, s)
  /\ \/ rows[s].age = "fresh" /\ rows' = [rows EXCEPT ![s].age = "idle"]
     \/ rows[s].age = "idle" /\ rows' = [rows EXCEPT ![s].age = "stale"]
     \/ /\ rows[s].age = "stale"
        /\ alarm => \A c \in Silent(rows, sock) : SubOf(c) # s
        /\ rows' = [rows EXCEPT ![s].age = "lapsed"]
  /\ UNCHANGED <<phase, ask, seen, sock, pinged, ignored, bindings, overdue,
                 alarm, audit>>

\* OAUTH_STATE_TTL_MS passes for a binding.
BindingLapses(st) ==
  /\ bindings[st] # NoConn
  /\ overdue' = overdue \cup {st}
  /\ UNCHANGED <<rows, phase, ask, seen, sock, pinged, ignored, bindings,
                 alarm, audit>>

\* The object hibernates while idle: sockets stay, memory does not.
Hibernate ==
  /\ ignored # {}
  /\ \A c \in Conns : phase[c] \notin InFlight
  /\ ignored' = {}
  /\ UNCHANGED <<rows, phase, ask, seen, sock, pinged, bindings, overdue,
                 alarm, audit>>

\* A crash or a deploy: sockets, memory and running handlers are lost, the
\* tables and the alarm are kept.
Restart ==
  /\ sock' = [c \in Conns |->
                IF sock[c] \in {"open", "closing"} THEN "lost" ELSE sock[c]]
  /\ phase' = [c \in Conns |->
                 IF phase[c] \in InFlight THEN "failed" ELSE phase[c]]
  /\ ask' = [c \in Conns |-> NoAsk]
  /\ seen' = [c \in Conns |-> [NoSeen EXCEPT !.id = seen[c].id]]
  /\ pinged' = {} /\ ignored' = {}
  /\ UNCHANGED <<rows, bindings, overdue, alarm, audit>>

-----------------------------------------------------------------------------
(* The specification *)

Init ==
  /\ rows = [s \in Conns |-> NoRow]
  /\ phase = [c \in Conns |-> "new"]
  /\ ask = [c \in Conns |-> NoAsk]
  /\ seen = [c \in Conns |-> NoSeen]
  /\ sock = [c \in Conns |-> "none"]
  /\ pinged = {} /\ ignored = {}
  /\ bindings = [st \in OAuthStates |-> NoConn]
  /\ overdue = {}
  /\ alarm = FALSE
  /\ audit = [s \in Conns |-> "none"]

Join(c) ==
  \/ \E tr \in {"public", "tunnel"}, e \in Envs \cup {NoEnv},
        p \in Issued \cup {NoConn} : BeginJoin(c, tr, e, p)
  \/ CreateRow(c) \/ CreateConflicts(c)
  \/ ReclaimParked(c) \/ DemandProof(c) \/ ReclaimProved(c) \/ RejectJoin(c)
  \/ FinishJoin(c) \/ FailJoin(c)

\* Subscriber ids a caller can name: told by a join, or listed as active.
Known ==
  {s \in Conns : \/ phase[s] = "done"
                 \/ rows[s].transport = "public" \/ rows[s].env # NoEnv}

\* Attempts whose client is a public target: only those call heartbeat.
PublicClients == {c \in Conns : phase[c] = "done" /\ sock[c] = "none"}

Request ==
  \/ \E c \in PublicClients : Heartbeat(SubOf(c))
  \/ \E s \in Known : Deregister(s)
  \/ \E s \in Known, st \in OAuthStates : BindOAuthState(s, st)
  \/ \E S \in SUBSET Conns : Ingress(S)

Socket(c) ==
  SocketHeartbeat(c) \/ DetachSocket(c) \/ Ping(c) \/ FallSilent(c)

Time ==
  \/ \E s \in Conns : RowAges(s)
  \/ \E st \in OAuthStates : BindingLapses(st)

Next ==
  \/ \E c \in Conns : Join(c) \/ Socket(c)
  \/ Request
  \/ Alarm
  \/ Time
  \/ Hibernate
  \/ Restart

Spec == Init /\ [][Next]_vars

\* A set alarm fires (it is retried until it returns), the clock advances, and
\* a handler that has started runs to its end.
Fairness ==
  /\ WF_vars(Alarm)
  /\ \A s \in Conns : WF_vars(RowAges(s))
  /\ \A c \in Conns : WF_vars(CreateRow(c) \/ CreateConflicts(c)
       \/ ReclaimParked(c) \/ DemandProof(c) \/ ReclaimProved(c)
       \/ RejectJoin(c) \/ FinishJoin(c))

FairSpec == Spec /\ Fairness

-----------------------------------------------------------------------------
(* Properties *)

\* Every variable has its type.  (SubscriberRow, the meta tables, the sockets.)
TypeOK ==
  /\ rows \in [Conns -> Row]
  /\ phase \in [Conns -> Phases]
  /\ ask \in [Conns -> Ask]
  /\ seen \in [Conns -> Seen]
  /\ sock \in [Conns -> SockStates]
  /\ pinged \subseteq Conns
  /\ ignored \subseteq Conns
  /\ bindings \in [OAuthStates -> Conns \cup {NoConn}]
  /\ overdue \subseteq OAuthStates
  /\ alarm \in BOOLEAN
  /\ audit \in [Conns -> AuditEvents]

\* No two rows share an environment id, however joins interleave with purges,
\* deregistrations and each other (reclaimOrCreate).
OneRowPerEnvironment ==
  \A s, r \in Conns :
    (Present(rows, s) /\ Present(rows, r) /\ rows[s].env = rows[r].env
       /\ rows[s].env # NoEnv) => s = r

\* A bound OAuth state always points at a subscriber that still has a row: no
\* removal path forgets the bindings, no bind revives a removed subscriber.
BindingsHaveSubscriber ==
  \A st \in OAuthStates : bindings[st] # NoConn => Present(rows, bindings[st])

\* "Anonymous tunnel subscribers are removed as soon as the socket closes": an
\* anonymous tunnel row without a socket is one whose join is still waiting for
\* the index, failed there, or lost its socket in a restart.
NoLeakedTunnelRow ==
  \A s \in Conns :
    (rows[s].transport = "tunnel" /\ rows[s].env = NoEnv
       /\ Listed(sock, s) = {})
    => phase[s] \in {"attaching", "failed"} \/ sock[s] = "lost"

\* A public target always has the alarm that will expire it, through every
\* reclaim, deregistration, detach and alarm of the other subscribers.
PublicRowHasAlarm ==
  (\E s \in Conns : rows[s].transport = "public") => alarm

\* The connection log never leaves a removed subscriber as connected.
DeparturesAudited ==
  \A s \in Conns : audit[s] = "connected" => Present(rows, s)

\* A parked subscriber (a tunnel row all of whose sockets ended with a close
\* event) was last logged as disconnected.
ParkedIsAudited ==
  \A s \in Conns :
    (/\ rows[s].transport = "tunnel"
     /\ Listed(sock, s) = {}
     /\ \A c \in Conns : SubOf(c) = s => phase[c] \in {"new", "done", "rejected"}
                                         /\ sock[c] # "lost")
    => audit[s] = "disconnected"

\* Socket c serves its subscriber: it is open, the row is a tunnel's, and the
\* row's token is the one c's hello carried.
Serving(c) ==
  /\ sock[c] = "open"
  /\ rows[SubOf(c)].transport = "tunnel"
  /\ rows[SubOf(c)].token = c

\* A tunnel that serves stops serving only by its socket being closed: no purge,
\* reclaim, deregistration or event of another socket leaves it open but
\* unregistered.
AttachedTunnelIsKept ==
  [][\A c \in Conns : (Serving(c) /\ ~Serving(c)') => sock'[c] # "open"]_vars

\* A live subscriber: a public target, or a tunnel with a listed socket.
Live(s) == rows[s].transport = "public" \/ (Present(rows, s) /\ Listed(sock, s) # {})

Holder == INSTANCE EnvironmentHolder WITH
  holder <- [e \in Envs |-> {rows[s].token : s \in RowOfEnv(rows, e)}],
  live <- {e \in Envs : \E s \in RowOfEnv(rows, e) : Live(s)},
  shown <- [c \in Conns |-> ask[c].proof],
  unused <- {c \in Conns : phase[c] \in {"new"} \cup InCrypto}

\* "A live socket is only replaced when that sidecar presents its connection
\* token" (src/README.md:92): through every reclaim, purge, deregistration and
\* restart an environment has one holder, a live one gives way only to a join
\* that presented its token, and no token of an earlier holder comes back.
EnvironmentIsHeld == Holder!HSpec

\* A tunnel all of whose open sockets have fallen silent.
FoundStale(s) ==
  LET open == {c \in Conns : sock[c] = "open" /\ SubOf(c) = s} IN
  open # {} /\ open \subseteq Silent(rows, sock)

\* With an alarm set, a tunnel found stale loses a socket or is heard from again.
StaleTunnelIsSwept ==
  \A s \in Conns : (alarm /\ FoundStale(s)) ~> ~FoundStale(s)

(* What the documentation claims and the code does not do *)

\* Every open socket belongs to a row (README: webhooks fan out to every
\* subscriber).  A join overtaken in "attaching" breaks it.
OpenSocketHasRow ==
  \A c \in Conns : sock[c] = "open" => Present(rows, SubOf(c))
=============================================================================
