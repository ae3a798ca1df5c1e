# Wrangle, specified

TLA+ modules for wrangle, a webhook router on Cloudflare Workers and the
sidecars that connect to it. They are written from the TypeScript under
`src/src/` (paths below are given without that prefix: `durable-object.ts` is
`src/src/durable-object.ts`). TLC checks the modules on small instances; TLAPS
proves the theorems of the `*Proofs` modules for every value of the constants.

* [The system](#the-system): its parts, their state, how they interact
* [The modules](#the-modules): what each models, its correspondence to the code
* [The runs](#the-runs): what is checked, within which bounds, under which fairness
* [The proofs](#the-proofs): theorems, inductive invariants, assumptions
* [What the code does otherwise than its documents say](#what-the-code-does-otherwise-than-its-documents-say)
* [What is not modelled](#what-is-not-modelled)
* [Plan](#plan)

## The system

A public URL of the router names a route. A provider (a payment service, an
OAuth provider) calls it; the router hands the request to the subscribers of
the route: developers' machines that run a sidecar. A webhook goes to all of
them, an OAuth callback to one.

```
 provider --HTTP--> Worker (public-ingress) --RPC--> RouterIndex (one object)
                        |                                ^
                        |  RPC                           | addRoute/removeRoute,
                        v                                | log events
                    RouteDurableObject (one per route) --+
                        ^            |
     register,          |            |  fetch (public target)
     heartbeat, DELETE  |            |  WebSocket frames (reverse tunnel)
 sidecar --HTTP--> Worker            v
 (client.ts, tunnel-client.ts)   the sidecar's local server
```

The Worker keeps no state. Each Durable Object is single threaded, but other
handlers run whenever one awaits anything that is not its own storage: a digest,
a call to another object, a `fetch`. Objects call each other with no lock and no
transaction; whatever one learnt from a call may be stale when it makes the next.

| Part | State | Operations | Who calls it |
| --- | --- | --- | --- |
| Route object, subscribers (`durable-object.ts`) | SQLite tables `subscribers`, `oauth_bindings`; the alarm; hibernatable WebSockets and their attachments; in memory the mark "closed by us" and the queue of log events | `fetch` (tunnel upgrade), `register`, `heartbeat`, `deregister`, `bindOAuthState`, `getActiveSubscribers`, `alarm`, `webSocketMessage/Close/Error`; `purgeExpired` in nearly all of them | Worker, sidecar sockets, runtime |
| Route object, deliveries (`durable-object.ts`, `forward.ts`, `tunnel-protocol.ts`) | in memory: the `pending` map from request id to promise, timer and subscriber | `fanOut`, `proxyOAuth`, `deliver`, `sendAndWait`, replies, timers, `failPendingForSubscriber` | Worker, sockets, timers |
| Router index, routes (`router-index.ts`) | table `routes` | `addRoute`, `removeRoute`, `hasRoute`, list | route objects, Worker, dashboard |
| Router index, settings (`oauth-callback-path-storage.ts`, `webhook-fanout-settings-storage.ts`) | allowlist of OAuth callback paths, deny-all flag, fan-out rules of each route | upsert, delete, set | Worker, dashboard |
| Router index, logs (`inbound-log-storage.ts`, `connection-log-storage.ts`) | two capped tables | append, list, trim | Worker, route objects |
| Public ingress (`public-ingress.ts`, `oauth-state.ts`, `webhook-path-filter.ts`, `ingress-body.ts`) | none; the locals of one request across eight calls | resolve, classify, proxy or fan out, log | providers |
| Management API (`management-http.ts`, `management-auth.ts`) | none | join credentials, register, heartbeat, deregister, bind, settings | sidecars, operator |
| Public-target sidecar (`client.ts`) | subscriber id, connection token, `connectionState`, timers, the `ready` promise | `runStart`, `heartbeat`, `disconnect`, retry | its process |
| Reverse-tunnel sidecar (`tunnel-client.ts`) | socket, token, `connectionState`, ping and pong timers, `ready` | `runLoop`, `openAndServe`, `waitForHello`, `startPing`, `closeSocket`, `disconnect` | its process |
| Control server and CLI | none of their own | `/ready`, `/status`, bind, disconnect | scripts, signals |
| Dashboard (`dashboard*.ts`) | a signed cookie | pages, settings, `loadDashboardRoutes` (prunes empty routes) | operator |

### What is hard, and what makes each part correct

**Subscribers.** A join awaits twice before its row is written and once more
before its socket is accepted, and any handler may run meanwhile, a purge
included. An environment id may be held by one row; a new join takes it over
only when the old connection is gone or the join presents its token. Rows are
removed in five ways, and bindings, sockets, deliveries, the alarm and the
connection log must follow each time. A tunnel that serves must never lose its
row. Hibernation forgets memory but not sockets; a restart forgets both.

**Deliveries.** Replies, timers, closes, replaced sockets and evictions race to
settle a promise. One map entry serves all deliveries of a request. Every caller
must be told, once, and not with somebody else's answer.

**The index.** It is a copy, kept by calls that interleave and overtake each
other. A missing entry is a 404 for a connected subscriber.

**Ingress.** A request is judged by five reads taken at five moments. A code must
go to one subscriber, its owner; the log must not claim what was not done; the operator's
filters decide who gets a webhook, also when they change meanwhile.

**Sidecars.** The network loses requests and responses, links break without a
close, processes die. Afterwards the environment's row is held against its own
sidecar, which must come back nevertheless; `disconnect()` races everything.

`PROJECT.json` lists these hazards one by one, each at the line where it bites
with the properties that would catch it.

### Constants of the code that the models abstract

TTL of a row 300 s (`SUBSCRIBER_TTL_MS`), heartbeat 60 s, stale tunnel 90 s
(`TUNNEL_STALE_MS`), ping 30 s (with a JSON heartbeat every second ping), pong
deadline 75 s, hello timeout 10 s, delivery timeout 10 s, deregister timeout 5 s,
retry backoff 1 s doubling to 30 s, OAuth state 15 min. Their order is what matters
and what the models keep: backoff and heartbeat are shorter than the TTL, stale
comes before lapsed.

## The modules

| Module | About | Extends / instantiates |
| --- | --- | --- |
| `EnvironmentHolder` | abstract: what a route promises whoever joins under an environment id | |
| `RouteSubscribers` | the tables, sockets, alarm and connection log of one route object | `INSTANCE EnvironmentHolder` (refinement) |
| `Deliveries` | abstract: what a route object promises of a delivery | |
| `TunnelDelivery` | the deliveries of one route object | `INSTANCE Deliveries` (refinement) |
| `RouteIndexSync` | one route's entry in the index, and everyone who writes it | |
| `PublicIngress` | one public request through the Worker, and what changes meanwhile | |
| `EventLog` | a log: queue, calls under way, the capped table, its listings | |
| `FanoutPolicy` | abstract: what an operator is promised of a route's settings | |
| `OperatorSettings` | fan-out rules, mute switch, callback paths, and the two ways to edit them | `INSTANCE FanoutPolicy` (refinement) |
| `SidecarPublic` | a public-target sidecar, the network, its rows | |
| `SidecarTunnel` | a reverse-tunnel sidecar, both ends of its sockets, its row | |
| `MC*` | model values and symmetry for TLC | their module |
| `*Proofs` | theorems | their module, TLAPS |

The parts are separate modules joined at their interfaces. What one needs of
another it takes in the most general form the other allows, and says so in
its header:

* `TunnelDelivery` lets sockets attach, close and depart at any time;
  `RouteSubscribers` says when they do.
* `PublicIngress` lets the index list any set of routes at any time, a superset
  of what `RouteIndexSync` allows, and lets subscribers come, park and go at any time.
* `RouteSubscribers` and `PublicIngress` say which events are logged and when;
  `EventLog` takes any event at any time and says what becomes of it.
* `OperatorSettings` says what an edit does to the tables and which webhooks the rules
  then select; in `PublicIngress` such edits happen between the steps of a request.
* `RouteIndexSync` lets any handler purge any rows; which ones are due is
  `RouteSubscribers`'.
* The sidecar modules contain the part of the Worker and of the route object that
  concerns their own row: the register, authorize, heartbeat and delete handlers,
  the purge and the sockets' close events.

### RouteSubscribers

A *connection attempt* `c` is a tunnel upgrade or a registration, and names all
it creates: subscriber id, token and the server end of its socket. Variables:

| Variable | Code |
| --- | --- |
| `rows` | table `subscribers`: transport, environment id, token hash (by the attempt that owns the token), and an age for `last_heartbeat_at` / `expires_at`, which every statement writes together |
| `phase`, `ask`, `seen` | a join's program counter, its arguments, and the row it captured before its first await (`existing`) |
| `sock` | `ctx.getWebSockets()` and the `readyState` of each |
| `pinged` | sockets whose auto-response timestamp is recent |
| `ignored` | `ignoreDisconnectLog` |
| `bindings`, `overdue` | table `oauth_bindings`, and which are past `expires_at` |
| `alarm` | is an alarm set? |
| `audit` | the last connection-log event queued for a subscriber |

A join is cut at its awaits: `BeginJoin` (purge, look the environment up),
`CreateRow` / `CreateConflicts` / `ReclaimParked` / `DemandProof` (after the digest
of the new token), `ReclaimProved` / `RejectJoin` (after the comparison),
`FinishJoin` / `FailJoin` (after the index answered). Each other handler changes its
state before its first await and is one action: `Heartbeat`, `SocketHeartbeat`,
`Deregister`, `BindOAuthState`, `Ingress` (which stands for
`getActiveSubscribers`, `countWebhookFanoutDeliveries`, `fanOut` and `proxyOAuth`),
`Alarm`, `DetachSocket`. `purgeExpired` is the operators `Purged`, `PurgedRows`,
`StaleClosed` and `LiveBindings`, used by every handler that calls it. Around them:
`Ping`, `FallSilent`, `RowAges`, `BindingLapses`, `Hibernate`, `Restart`.

`CryptoYields` says whether another handler may run while a join awaits a
digest. The runtime's input gates leave it open, so both are checked, and
`RouteSubscribersProofs` holds for both; what needs digests that do not yield says so.

Assumption: a socket is no longer listed once its close event has been handled.

### EnvironmentHolder

The promise of `README.md:90-92` of the repository: an environment id is held by one
connection token at a time; while its holder is *live* (a public target, or a tunnel with a
listed socket) only a join that presents the holder's token takes the id over; a token
that was replaced or has left never holds again. `Take` is a join that wins, `Pass` is all
else: holders attach, park and leave. `RouteSubscribers` implements it: `holder` is the set
of tokens of the rows of an environment (that it has one element at most is part of
what `Pass` and `Take` say), `shown` the token a join presented, `unused` the attempts
that have not written a row.

The gap of a join between its row and its socket is in the promise as it is in the code:
`live` does not hold there, and a second join needs no proof. Nor does it when digests
yield: then the proof is compared with a captured token that may have been replaced
meanwhile, so the refinement is checked and proved with `CryptoYields = FALSE`.

### Deliveries and TunnelDelivery

`Deliveries` is the promise: a delivery of one request to one subscriber is
begun at most once, then settled once, with an answer or a failure, or lost with the
object; and every one is settled in the end. Several may begin or fail in one step.

`TunnelDelivery` is how it is kept: `pending` is the map, keyed by request alone,
`timers` the armed `DELIVERY_TIMEOUT_MS` timers, `sent` the messages a peer has and
has not answered, `outcome` the promises of `deliver()`. `FanOut` and
`ProxyOAuth` dispatch (the latter to a subscriber chosen before an await, so its
socket may be gone), `Reply` is `webSocketMessage`, `Timeout` and `FetchReturns`
settle, `Depart` is `closeSockets` with `failPendingForSubscriber`, and
`DetachSocket` fails the subscriber's deliveries before it looks whether the socket
had been replaced, as the code does. A send over a socket that throws, a body over
the limit and a missing socket are the failures `F` of `Deliver`. The refinement
mapping is the identity on `outcome`.

### RouteIndexSync

A *run* is one activity from its handler to its last call to the index. The
handlers `JoinTunnel`, `Register`, `Deregister`, `DetachAnonymous`, `Park`, `Alarm`
change the rows and start `syncIndex()`, whose two halves are the wait for the
connection log (`"flushing"`) and the count followed by `addRoute` or
`removeRoute` (`"adding"`, `"removing"`). `calls` holds the calls under way in the order
they were sent; `IndexAnswers` may take any of them. The Worker adds the route
again after a registration (`ReAdd`), and asks for the subscribers and then removes
the route after a DELETE and when the dashboard lists the routes (`Check`, `Prune`).
`upset` is a history variable: since the rows were last counted, a call failed or overtook
another, or a late prune hit a route that has subscribers. A call may fail before or after
it took effect.

The alarm is `"set"`, or `"old"` once time has passed (`AlarmAges`), and fires only when old.
`scheduleCleanup` moves it on, to the earliest expiry, whenever a handler calls it: `Heartbeat`
does, and does not sync the index, so a target that beats in time puts the alarm off for as long
as it lives. `Purge` stands for the handlers that purge and leave alarm and index alone. The dashboard asks for the subscribers of every route it
lists, which is what prunes a route left indexed by a late `addRoute`
(`EmptyRouteIsPruned`).

### EventLog

One log on its way from the memory of a route object to the index: `queue` is
`pendingConnectionLog`, `calls` the batches under way, `table` the rows with their
`occurred_at`. `Flush` empties the queue before it calls (`flushConnectionLog`), so that an
event queued meanwhile waits for the next flush; `RecordEvents` stamps a batch, inserts
it and purges, by age and then by number; `ListEvents` purges too. `RecordFails` and `Evict` are
the two ways events are lost; a call that
throws after its insert leaves what `RecordEvents` leaves. The inbound log is the same table with calls of one
event (`RecordDirectly`). The history variables `logged`, `arrived` and `lost` are what an
unbounded log would hold and what never came. Listings break ties of `occurred_at` by
the random id, so an unused id is any unused number.

### FanoutPolicy and OperatorSettings

`FanoutPolicy` is the operator's view, after `plans/webhook-fanout-filters.md`: rules are of
subtrees of paths (sequences of segments), for one environment or all, at most `Limit` of them;
an existing rule can always be granted again; every edit is answered for what it asked.
`OperatorSettings` is the code: paths as they are spelled, trimmed by the dashboard's
forms but not by the API, validated and normalised (`WellFormed`, `Normalize`, `FilterPath`,
`CallbackPath`), the limit counted on stored rows (`Full`), and the prefix test
`Under` with the combination of allow and deny rules (`Selected`). A path is a
sequence of pieces, so `/hook`, `/hook/` and `/hook-old` are three spellings and two
paths. The refinement maps a stored path to its segments (`Segments`), and the last edit to a
request of the policy (`AsRequest`).

### PublicIngress

One request and its world. `phase` is the await at which `handlePublicIngress`
stands; `found` is what the last call returned, and is used in the next step as
the code uses it, however stale. `Classify` is `classifyDelivery` with the body
limit, `Match` is `resolveOAuthSubscriber` (a valid signed state, else a binding in
this route's object, else the only subscriber), `FanOutTargets` is
`selectWebhookFanoutSubscribers` with the rules of `webhook-path-filter.ts`.
`CallFails` is a throw of any call, `FanOutLost` a `waitUntil` promise that is lost after
the 202. Of a row of the inbound log the model keeps `result`, `error` and the count of subscribers
(`RowOfAnswer`). A delivery that fails after sending, or whose response is too large, is logged as
rejected with a count of 0, and the code of the latter is not on the log's list, so that its row has no
error. `RowTellsDelivery` says what a row tells nevertheless. The count of an accepted webhook
is taken in two steps (`CountFilter`, `CountTargets`) before the 202, the fan-out in two more after it
(`ReadFilter`, `FanOut`); `steady` remembers whether anything changed since the count began.
The second test for dot-dot segments (`public-ingress.ts:63`) is not a step: the first tests
the full path, of which the remaining path is a suffix.

The request may carry the state that `owner` created. A path is told apart only
by what the code tells apart (a scanner probe, the shape of a callback, any other),
and what is never looked at has one value. Meanwhile subscribers join, park and
leave (at most `MaxMoves` times), the state lapses, and the operator edits the
allowlist, the deny-all flag and the rules (at most `MaxEdits` times). Two history
variables say who should get a webhook: `wanted`, those that were connected and wanted
it, and `denied`, those that each of the two who can deny (the operator, or the subscriber
by `--no-webhooks`) denied, from the moment of the 202 on. Both are defined
from the documentation's words (`Wants`, `Denies`), not from the selection code. What the
request never looks at does not change meanwhile (`LooksAtFilters`).

### SidecarPublic

`loop` is where `runStart` and the heartbeat timer stand, `disc` where
`disconnect()` does; two *slots* hold the request each waits for. `Verify` is
`authorizeSubscriber`, the Worker's first call to the route object;
`HandleRegister`, `HandleHeartbeat` and `HandleDelete` are the second. A call may fail
before or after it took effect, or later than the client waits (`strays`, the requests
nobody waits for, which may be handled at any time). `Restart` starts a new process
without a token. Ids are recycled once nobody mentions them.

`Lapse(i)` is time running out on a row. It may happen to any row at any time,
also while the sidecar beats for it (a laptop asleep); it is fair only for rows nobody
beats for. The join credential is refused only as one of the failures.

### SidecarTunnel

`cli` and `srv` are the two ends of each socket; `hello` holds the greetings on their
way; a `broken` link carries nothing and tells nobody. `cur` is the socket the loop
works with, `socket` the field `disconnect()` sees, `tok` the token of the last
hello, `row` the row's token. `Opens` may lose the hello that comes with the upgrade's
response (its listener is not on yet); `HelloTimeout` leaves the socket open, as the
code does, so it still holds the environment. `silent` and `lapsed` are the two ages that
matter of the server's ends: a join's purge closes the silent ones and extends the
lapsed. `Join` is one step here (its inner awaits are `RouteSubscribers`'). A
row the first of two retries saw does not lapse before the second: they are at most 30 s
apart, the TTL is 300 s.

## The runs

| Run | Instance | Shows |
| --- | --- | --- |
| `subscribers` | three attempts, one environment, symmetry, digests do not yield | no anonymous tunnel row leaks, every public row has an alarm, the connection log knows of every departure and parking, `EnvironmentHolder` is implemented |
| `subscribers_live` | two attempts, one environment, one OAuth state, digests yield, fair | one row per environment and no dangling binding even then; a serving tunnel keeps its row; a stale tunnel is swept when an alarm is set |
| `overtaken_join` | two anonymous attempts | *violation* of `OpenSocketHasRow` |
| `delivery` | one request, two tunnels with two sockets each, one public target, fair | every waiting delivery has its timer, an entry's peer can still answer, a single target's answer is its own, `Deliveries` is implemented, every delivery settles |
| `shared_pending_entry` | one request, two tunnels with a socket each | *violation* of `OwnOutcome` |
| `index` | one public target, one tunnel, two runs and the alarm, one failed call, fair | undisturbed, a route with subscribers is indexed when the runs end; disturbed, it is indexed in the end if the alarm keeps firing; a route without subscribers is pruned |
| `late_remove_route` | one public target, two runs and the alarm, no failure, fair | *violation* of `LiveRouteIsIndexed` |
| `store` | four events, cap 2, retention 1 of 3 moments; two routes, one environment, six spellings of rules, three of callback paths, requested paths with the empty one, limit 2, symmetry of the routes | a listing is that of an unbounded log, an event is in one place, `FanoutPolicy` is implemented, rules select what it says, the limit holds |
| `sidecar_public` | an environment id, five ids, one failure, one restart, fair | what `disconnect()` reports is final, the live row is kept, rows left behind go, the sidecar registers in the end |
| `forgotten_client` | no environment id, three ids, no fault at all, fair | *violation* of `GoneIsReplaced` |
| `sidecar_tunnel` | an environment id, five sockets, two failures, one restart, fair | `connectionState` is truthful, a serving sidecar holds its row's token, it serves again in the end, `disconnect()` leaves no socket that could serve, and settles |
| `ingress` | two subscribers on the named route, one on root, one move, one edit, all routes or none on the allowlist | a row of the log tells what it can of deliveries, a callback is never fanned out, an owned code goes home, filters decide who gets a webhook |

Type correctness is proved for every module (`TypeCorrect`, `LogTypes`), and checked as well in the runs
of the sidecars and of the ingress. Each property has a mutant in `PROJECT.json`: a plausible
mistake in one mapped definition that TLC finds by this property.

### Bounds, and why they are enough

* **Attempts.** A takeover needs two attempts, a takeover of a takeover three: the
  row's token is then that of neither the first nor the current attempt, and
  sockets of two earlier ones are closing. `subscribers` has three. Liveness rules out
  symmetry, so `subscribers_live` has two: its properties are of one row and its
  purges, and the safety ones are proved for any number.
* **Requests.** Different requests share nothing but the sockets, which no delivery
  changes, so one request in `delivery` shows what several would; the theorems
  cover any number. Two tunnels are needed to share an entry, two sockets for a tunnel to be
  replaced while it answers.
* **Runs of syncIndex.** Two runs, the alarm and purges without a run: each of the two
  halves can be overtaken by a whole other run and by the alarm. Proved for any
  number.
* **Events and settings.** Four events overflow a cap of two twice; three moments and a
  retention of one let rows expire before, with and after others. A limit of two is
  reached by rules that differ in mode, path or environment, and is tried with a third, with an
  existing one, and with another spelling of an existing one. The log and the settings share
  no state, and of the settings no property relates rules to callback paths, so `store` explores
  one table at a time (`OneTable`), not their product.
* **Failures and restarts.** One failed call leaves the public sidecar a row it does
  not know of; a restart leaves a second; the tunnel sidecar needs two faults (a broken
  link, and one while it recovers). Ids and sockets are recycled, their number is that of
  things alive at once: with five
  of each, an unused one is always at hand when a registration or an attempt needs it.
* **Moves and edits.** One move and one edit during a request interleave with
  all of its steps; each request is short. The initial states already hold every
  combination of live and absent subscribers, of live ones with `--no-webhooks`, and an
  allowlist of all routes or none (`AlikeSpec`). They hold no rule of the operator: with one edit the run has
  one rule at most, and combinations of rules are covered by the theorems and by
  `SelectionIsPolicy` in `store`. All safety properties of the ingress are
  proved for any number of moves and edits, and any allowlist.
* **Deadlock** is checked where the system cannot stop (the route object, the
  deliveries, the index). `CHECK_DEADLOCK FALSE` is said where it may: a request that
  is answered, a sidecar that has disconnected.

### Fairness, and why the code justifies it

* Route object: `Alarm` (the platform retries an alarm until its handler returns), `RowAges` (time
  passes), and the steps of a join that has begun (digests and index calls return or
  throw). Nothing is assumed of clients, pings, closes or requests.
* Deliveries: a timer that is armed fires. Nothing is assumed of peers.
* Index: calls are answered or fail (at most `MaxFailures` times), and an
  alarm fires unless a handler sets it anew again and again (`AlarmAges`, `AlarmFires`): heartbeats may
  do so for ever, and `AlarmRepairsIndex` therefore assumes in its own words that the alarm keeps firing.
  `EmptyRouteIsPruned` states its own assumption: somebody looks at the dashboard again
  and again while the route is listed.
* Sidecars: the process's own loop and timers, requests and frames on working links, the
  alarm, the clock for rows nobody beats for. Failures are never fair, and bounded:
  liveness is of the time after the last of them.

## The proofs

Theorems are in eight modules, for every value of the constants that the assumptions named
in the modules allow: disjoint sets of subscribers, null values that are not
members, bounds that are naturals, finite sets of event ids, of the sidecars' ids and sockets,
and of the ingress's subscribers, so that "the only subscriber" has a meaning. Of the operator's
settings they say that a spelled path is a sequence of pieces, one of them the space; that what the
API takes without a check is no spelling the forms would refuse (`CallbackInputsAssumption`); and
that the path of a request holds no space and is empty or begins with a slash
(`RequestedAssumption`: it is what `remainingPathFromPublicUrl` cuts from a parsed URL). Every
safety property of a passing run is proved; only liveness is not (below).

**RouteSubscribersProofs**: `TypeCorrect`, `EnvironmentsAreUnique`, `BindingsAreLive`,
`PublicRowsCanExpire`, `ServingTunnelsAreKept`, `NoTunnelRowLeaks`, `ParkingIsAudited`. None of the invariants is
inductive alone. The strengthening `IInv` adds what a join relies on across its
awaits: a join that has captured a row captured one of its own environment
(`CapturedEnvironment`), a captured subscriber was created by an attempt that is past
its creation (`CaptureOrder`, `CapturedIsNamed`, `CreatedOnce`), an attempt has a socket only
when it is done (`SocketsAreDone`), and the transport it asked for is a real one
(`AskedTransport`). Then a reclaim writes back the environment the row had, so uniqueness is
kept without looking at other rows; an insert is guarded by the index. The purge is
handled once, in lemmas about `PurgedRows` and `LiveBindings`, and cited in each handler.
The last two theorems rest on `TunnelsAreHeld`: the attempt that wrote a tunnel row last still
waits for the index, failed there, has its socket open or closing and not marked as ignored, lost it
in a restart, or was logged as disconnected; an anonymous row is its own attempt's and is
never parked (`HeldBy`).

**EnvironmentHolderProofs**: `EnvironmentsAreHeld`, the refinement of
`EnvironmentHolder`, and `DeparturesAreAudited`, all assuming `~CryptoYields`. The strengthening of `IInv` is
`CryptoInv`: at most one join stands between its lookup and its write, and what it looked up is
still so (`Captured`: no row of its environment, or the row it captured with the token it
captured). Every other handler waits, or leaves rows and joins to themselves (`Passes`), so
an insert takes a free environment, and a reclaim takes one that is not live or whose
token was presented, and what it logs as connected has a row. With digests that yield,
`Captured` is false, and so are the refinement and `DeparturesAudited`: a reclaim logs the arrival
of a row that was purged meanwhile.

**TunnelDeliveryProofs**: `TypeCorrect`, `NoDeliveryIsForgotten`, `EntriesAreServed`,
`SoleAnswers`, and `SettleOnce`, the refinement of `Deliveries`. `WaitingHasTimer` and
`PendingIsServed` are inductive together with the types: an entry's delivery waits, so
overwriting, failing or timing out an entry settles at most a waiting delivery, and
every step maps to a step of `Deliveries` or to a stutter.

**RouteIndexSyncProofs**: `TypeCorrect`, `QuietRoutesAreIndexed`. While nothing was upset (`Orderly`), `calls`
is a queue, and the argument is about its last element: either some run is still
to count, or the last call carries the count of the rows as they are, or, with no call under way,
the index is right (`RightOrCounting`). This needs that the call of each run is in the queue
exactly when its `pc` says so (`CallsAreOfRuns`), and lemmas about `Append` and `RemoveAt`
at the head (`EndedCallIsWired`, `OldestCallIsDestined`). A count ends what was upset, since the new last call
carries it. When something was upset and nothing counts again, only the alarm does; that it comes is not
proved, and not so (finding 3).

**RouterIndexStoreProofs**: `LogIsAWindow`, `LogTypes`, `EveryEventIsOnce`, `LimitHolds`. What a
purge drops is expired, or has `Cap` newer rows that are not (`WindowInv`), and both stay so as
time goes and rows come; with the lemmas on the first rows of a listing
(`NewestAreFew`, `NewestOutnumber`) a page of the table is a page of all rows.
`EachEventOnce` is inductive with the types.

The same module proves of the settings `SelectionHolds` (the code selects for a path whom the
operator's policy selects) and `SettingsImplementPolicy`, the refinement of `FanoutPolicy`. The
code compares spellings, the policy sequences of segments, so the argument is about `Cut`, which
is defined by the places of the slashes and not by recursion, for this proof. A spelling without
trailing slashes is determined by its segments (`CutDetermines`, `CutIsInjective`), normalisation
keeps the segments (`NormalizeKeeps`, `KeptSegs`), and the tables hold only normalised paths
(`StoredInv`, which is inductive). Hence one stored prefix is under another spelling exactly when its
segments are a prefix of the other's (`UnderIsPrefix`); two stored rules are two
rules of the policy, so the limit counts the same number (`PolicyCounts`); the validation refuses
the same requests (`ValidationIs`); and each edit is a request of `FanoutPolicy` with the answer
the policy gives. `StoredInv` is needed: of two spellings of one path in the table, one
would be counted twice.

**PublicIngressProofs**: `CallbacksAreNotSprayed`, `OwnedCodesGoHome`, `RowsTellDeliveries`,
`DeniedGetNothing`, `WantedGetAll`, `TypeCorrect`. The first
invariant: nothing is sent before the proxy or the fan-out (`NothingSentYet`), a bound state is
one that the request carries (`BoundIsCarried`), and a request with the shape of a callback or
a signed state is in no phase that leads to the fan-out (`ReservedIsNoWebhook`), whatever the allowlist
said when it was read. What was logged matches what was sent at each phase
(`RowInv`), and while nothing has changed since the count, the fan-out selects the subscribers that were
counted (`CountInv`). What the
last call returned is stale, but wrong only about those whose mind was changed for them since: the
settings that were read still deny all whom the operator has denied ever since the 202, and still accept all
who have been wanted ever since (`SettingsInv`, `ReadInv`).

**SidecarTunnelProofs**: `TypeCorrect`, `ReasonsAreTruthful`, `ServingTokensAreCurrent`,
`DisconnectsAreFinal`. The loop has a socket exactly in the phases that wait on one, and until
`disconnect()` it is the field that `disconnect()` sees (`LoopInv`); the socket that is being
closed never opens again, and there is no other (`FarewellInv`); a join that succeeded wrote the row,
and while the server has the socket open no other one takes it (`RowInv`).
`DisconnectsAreSettled` is the safety half of `DisconnectSettles`: the loop never serves but in its
one phase, and does not start again once `disconnect()` was called (`SettledInv`), so that when
`disconnect()` is done the promise is settled, and only a `serve()` whose socket is closed may be left.

**SidecarPublicProofs**: `TypeCorrect`, `DisconnectsAreSaid`, `LiveRowsAreKept`. Before it is
registered a sidecar has no subscriber, so `disconnect()` aborts its loop at once and no first
registration is answered after it (`SaidInv`); a DELETE under way before `disconnect()`
is an earlier process's, and its subscriber is not one that is on its way here (`DeleteInv`).
`OneRowPerEnvironment` is what the `UNIQUE` index promises, over retries, strays and restarts.
`LoopsAreServed` and `DisconnectsAreFinal` are inductive together (`WaitInv`): a loop that waits has
a request under way or answered, which is all that fairness needs to move it on, and after
`disconnect()` it waits for none. They assume that `None` is no request and no answer
(`NoneAssumption`).

Only model-checked, and why: liveness (`StaleTunnelIsSwept`, `EveryDeliverySettles`,
`AlarmRepairsIndex`, `EmptyRouteIsPruned`, `StaleRowsGo`, `StartsInTheEnd`, `Reconnects`,
`DisconnectSettles`). The prover has no rules for fairness over ENABLED. What these rely on at
each moment is proved: a timer for every delivery that waits, an alarm for every public row, a request
for every loop that waits.

## What the code does otherwise than its documents say

Each has a run whose counterexample shows it; `PROJECT.json` quotes the documents.

1. **A join overtaken by a purge** (`overtaken_join`). `fetch` writes the row of an
   anonymous tunnel, awaits `syncIndex()`, and only then accepts the socket. A handler that
   purges in between finds an anonymous tunnel without a socket and removes the row. The
   socket is then accepted and greeted for a subscriber that does not exist: it is open,
   answers pings, gets nothing, and no sweep closes it, since sweeps go over rows.
2. **One entry for several tunnels** (`shared_pending_entry`). A webhook fanned out to two
   tunnels has one `pending` entry. The first message with its id, an error of the one tunnel
   included, settles the delivery of the other; the first's own delivery waits out its 10 s.
   `WaitingHasTimer` and `EveryDeliverySettles` still hold, so nobody hangs.
3. **A late removeRoute** (`late_remove_route`). The Worker asks whether a route has
   subscribers and removes it from the index if not; a subscriber that joins in between is
   connected and not indexed. The alarm would count again, but each heartbeat of a public target
   moves it on, about 300 s ahead, and syncs nothing itself, so while the target beats in time it
   never fires; and the join of a tunnel sets no alarm. What holds is `AlarmRepairsIndex`.
4. **A client that is told 401** (`forgotten_client`). A public sidecar registers again when a
   heartbeat is answered 404. But the token is compared first, and once the row is purged
   there is no row to compare it with: the answer is 401, for ever. 404 remains only for the
   moment between a row's expiry and its purge.

Seen while modelling, with no run of their own:

* `SidecarTunnel.HelloArrives` during a `disconnect()` that waits for the close sets
  `connectionState` to `"connected"` and resolves `ready`; `ReasonIsTruthful` is therefore
  stated up to `disconnect()`.
* `SidecarPublic.Reregistered`: a failed re-registration sets `network_error`, and a later
  successful one does not set it back.
* The fan-out reads the operator's settings first and the subscribers after. A denial by the one that is
  lifted while a denial by the other begins (the operator's rule goes, `--no-webhooks` comes) may
  therefore be missed; `DeniedGetsNothing` is of one denial that lasts.
* On a route of tunnels only, no alarm is set by a join, so a stale tunnel is swept only when
  something else purges; `StaleTunnelIsSwept` says "when an alarm is set".
* Between a tunnel's row and its socket, its environment counts as not live and may be
  reclaimed without proof; `EnvironmentHolder` promises no more.
* `flushConnectionLog` empties its queue before the index has the events; a crash or a failed call there
  loses them (`lost` in `EventLog`).
* `countWebhookFanoutDeliveries` purges and so may queue events, but does not flush: they wait in memory
  for the next handler that does, or go with an eviction.
* When the owner of a bound state leaves, its binding goes with its row, and a callback falls
  back to the only subscriber left (`resolveOAuthSubscriber`). While the binding or the signature
  is there, the code goes to its owner or to nobody (`OwnedCodesGoHome`).
* The dashboard's form for a new rule is answered with the same redirect whether the rule was
  stored or the limit refused it.
* `normalizeWebhookFilterPath` trims before it strips slashes, so `"/hook /"` is stored as `"/hook "`, which
  no removal finds as it is listed (it is trimmed again). `SpellingAssumption` leaves such spellings out.
* A signal that arrives while the CLI waits for the first hello ends the connection; a hello that
  comes while the socket closes resolves `whenReady()` all the same, and `waitForShutdownSignal` then waits
  for a second signal. `DisconnectSettles` says what the connection does, not what the CLI does.

## What is not modelled

* Credentials, digests, constant-time comparison, the session cookie: a token is a model
  value that matches only itself.
* The encoding of requests and responses over a tunnel, header rewriting, body limits in bytes:
  a body is too large or not.
* Probe patterns, the shape of OAuth parameters, the derivation of public URLs: the ingress takes their
  verdicts as fields of a request.
* The control server and the CLI: they read the connection's fields and pass calls on. The one
  interleaving of their own, a late hello and a signal, is noted above.
* Local URL detection, HTML rendering, the Worker's dispatch: they keep no state that steps could
  interleave on.
* Durable Object storage failures: SQLite statements do not fail, except the one the
  `UNIQUE` index refuses.

## Plan

Done, in this order (most important behaviour first): `RouteSubscribers` and its proofs;
`Deliveries`, `TunnelDelivery` and the refinement; `RouteIndexSync`; the two sidecars;
`PublicIngress`.

Then the promise of `EnvironmentHolder` and its refinement, the tables of the router index
(`EventLog`, `OperatorSettings` with `FanoutPolicy`) and their proofs, and the proofs of the
ingress and of the two sidecars.

Next, if the model is extended: a process module of the CLI and the control server over
`SidecarTunnel`, and what the sidecar does with a request (`handleMessage`) as a step of
`TunnelDelivery`.
