---------------------------- MODULE PublicIngress ----------------------------
(***************************************************************************)
(* One public request on its way through the Worker                        *)
(* (src/src/public-ingress.ts): it is resolved to a route, read, classified *)
(* (oauth-state.ts), and then rejected, proxied to one subscriber, or       *)
(* fanned out to those whose filters accept it (webhook-path-filter.ts).    *)
(* Each step is a call to an object whose state others change in between:  *)
(* subscribers come, park and go, OAuth states are bound and lapse, the     *)
(* operator edits the allowlist and the filters.  What a delivery does is   *)
(* TunnelDelivery's; when the index lists a route is RouteIndexSync's, and *)
(* here it may list any.                                                    *)
(*                                                                         *)
(* The request may carry the OAuth state that `owner' created.  Paths are   *)
(* told apart only by what the code tells apart: a probe, a path shaped     *)
(* like an OAuth callback, any other.                                       *)
(***************************************************************************)
EXTENDS Naturals, FiniteSets

CONSTANTS
  Named,       \* subscribers of the route the first segment names
  Root,        \* subscribers of the root route
  owner,       \* the subscriber that created the request's OAuth state
  None,        \* no subscriber
  MaxMoves,    \* bound: changes of subscribers
  MaxEdits     \* bound: changes by the operator

Answers ==
  {"probe", "route_not_found", "request_too_large", "oauth_callback_incomplete",
   "oauth_method_not_allowed", "oauth_callback_not_registered", "oauth_unroutable",
   "oauth_subscriber_not_found", "subscriber_unreachable", "subscriber_response_too_large",
   "proxied", "accepted", "error"}

Subs == Named \cup Root
ASSUME IngressAssumption ==
  /\ Named \cap Root = {} /\ None \notin Subs \cup Answers
  /\ IsFiniteSet(Subs) /\ owner \in Subs
  /\ MaxMoves \in Nat /\ MaxEdits \in Nat

(* A row of the inbound log: its result, error code and count of the       *)
(* subscribers it was delivered to.                                        *)
Rows == [result : {"accepted", "proxied", "rejected"}, error : Answers \cup {None},
         count : 0..Cardinality(Subs)]

Routes == {"named", "root"}
SubsOf(r) == IF r = "named" THEN Named ELSE Root
RouteOf(s) == IF s \in Named THEN "named" ELSE "root"

(* A rule matches the request's path or not, and is for one environment,   *)
(* here a subscriber, or for all.                                          *)
RulesOf(r) == [mode : {"allow", "deny"}, matches : BOOLEAN, env : SubsOf(r) \cup {None}]

(* What is never looked at has one value: the method without a code, the   *)
(* rest of a probe and of a body that is too large.                        *)
Requests ==
  {q \in [path : {"probe", "callback", "hook"}, state : {"none", "signed", "bound"},
          code : BOOLEAN, method : {"post", "put"}, huge : BOOLEAN] :
     /\ q.method = "put" => q.code
     /\ q.path = "probe" \/ q.huge => q.state = "none" /\ ~q.code
     /\ q.path = "probe" => ~q.huge}

VARIABLES
  conn,       \* each subscriber: "gone", "parked" (a row, no socket), "live"
  mute,       \* subscribers that joined with --no-webhooks
  allowed,    \* routes whose OAuth allowlist has the request's path
  filter,     \* each route's webhook fan-out settings: denyAll, rules
  bound,      \* is the request's state bound to its owner?
  valid,      \* is the signed state within its TTL?
  moves, edits,
  req,        \* the request
  phase,      \* where handlePublicIngress is
  route,      \* the resolved route
  found,      \* what the last call returned: entries, subscribers, settings
  log,        \* the request's rows in the inbound log
  answer,     \* the response
  delivered,  \* subscribers the request was sent to
  wanted,     \* history: live subscribers whose filters accept the request
  denied,     \* history: subscribers the operator denies it, or that deny it
  steady      \* history: has nothing changed since its receivers were counted?

people == <<conn, mute, bound, valid, moves>>
settings == <<allowed, filter, edits>>
history == <<wanted, denied>>
world == <<people, settings, history>>
handling == <<phase, route, found, log, answer, delivered>>
vars == <<world, req, handling, steady>>

(***************************************************************************)
(* Who may receive what.                                                   *)
(***************************************************************************)
(* getActiveSubscribers lists parked subscribers, deliverySubscribers does *)
(* not.                                                                    *)
Active(r) == {s \in SubsOf(r) : conn[s] # "gone"}
Deliverable(r) == {s \in SubsOf(r) : conn[s] = "live"}

(* Mutants: a rule for all applies to none; a rule for one applies to all. *)
OwnRules(rules, s) == {u \in rules : u.env = s}
EveryRule(rules, s) == rules

Applicable(rules, s) == {u \in rules : u.env \in {None, s}}

Accepts(s, f) ==
  LET allows == {u \in Applicable(f.rules, s) : u.mode = "allow"}
      denies == {u \in Applicable(f.rules, s) : u.mode = "deny"} IN
  /\ s \notin mute
  /\ allows # {} => \E u \in allows : u.matches
  /\ \A u \in denies : ~u.matches

(* selectWebhookFanoutSubscribers. *)
FanOutTargets(r, f) == IF f.denyAll THEN {} ELSE {s \in Deliverable(r) : Accepts(s, f)}

(* Mutant: only a signed state reserves the request, not its path. *)
ReservedByState == req.state = "signed"

(* classifyDelivery. *)
Reserved == req.path = "callback" \/ req.state = "signed"
Class(allowlisted) ==
  CASE allowlisted /\ ~req.code -> "oauth_callback_incomplete"
    [] allowlisted /\ req.code /\ req.method = "put" -> "oauth_method_not_allowed"
    [] allowlisted /\ req.code /\ req.method = "post" -> "oauth"
    [] ~allowlisted /\ Reserved -> "oauth_callback_not_registered"
    [] ~allowlisted /\ ~Reserved -> "fanout"

(* Mutant: the list of subscribers where one of them is meant. *)
SingleList(targets) == IF Cardinality(targets) = 1 THEN targets ELSE None

(* The only subscriber, if there is one only. *)
Single(targets) ==
  IF Cardinality(targets) = 1 THEN CHOOSE s \in targets : TRUE ELSE None

(* Mutant: an owner that is not there is replaced by the only subscriber. *)
CorrelatedOrSingle(s, targets) == IF s \in targets THEN s ELSE Single(targets)

Correlated(s, targets) == IF s \in targets THEN s ELSE None

(* resolveOAuthSubscriber: a valid signed state, else a binding in this    *)
(* route's object, else the only subscriber.                               *)
Match(targets) ==
  CASE req.state = "signed" /\ valid -> Correlated(owner, targets)
    [] req.state = "bound" /\ bound /\ RouteOf(owner) = route -> Correlated(owner, targets)
    [] OTHER -> Single(targets)

(***************************************************************************)
(* handlePublicIngress.                                                    *)
(***************************************************************************)
Goes(p) == phase' = p
Concludes(what) == phase' = "log" /\ answer' = what /\ found' = {}
Remain == UNCHANGED <<world, req>>
Keep == Remain /\ UNCHANGED steady

(* Probes are answered at once, and so is a path with a dot-dot segment,   *)
(* which the remaining path, a suffix of it, cannot have if it has none;   *)
(* the others ask the index.                                               *)
Arrive ==
  /\ phase = "new"
  /\ IF req.path = "probe"
       THEN Goes("done") /\ answer' = "probe" /\ UNCHANGED found
       ELSE Goes("named") /\ found' \in SUBSET Routes /\ UNCHANGED answer
  /\ Keep /\ UNCHANGED <<route, log, delivered>>

(* resolvePublicRoute: the named route if it has subscribers, else root. *)
AskNamed ==
  /\ phase = "named"
  /\ IF "named" \in found /\ Active("named") # {}
       THEN Goes("allowlist") /\ route' = "named" /\ found' = {}
       ELSE Goes("root") /\ UNCHANGED <<route, found>>
  /\ Keep /\ UNCHANGED <<log, answer, delivered>>

AskRoot ==
  /\ phase = "root"
  /\ IF "root" \in found /\ Active("root") # {}
       THEN Goes("allowlist") /\ route' = "root" /\ found' = {} /\ UNCHANGED answer
       ELSE Concludes("route_not_found") /\ UNCHANGED route
  /\ Keep /\ UNCHANGED <<log, delivered>>

ReadAllowlist ==
  /\ phase = "allowlist"
  /\ found' = allowed \cap {route}
  /\ Goes("body")
  /\ Keep /\ UNCHANGED <<route, log, answer, delivered>>

(* The body is read, the request classified. *)
Classify ==
  /\ phase = "body"
  /\ LET class == Class(found # {}) IN
       IF req.huge THEN Concludes("request_too_large")
       ELSE IF class \in {"oauth", "fanout"}
       THEN /\ Goes(IF class = "oauth" THEN "oauth" ELSE "count")
            /\ found' = {} /\ UNCHANGED answer
       ELSE Concludes(class)
  /\ Keep /\ UNCHANGED <<route, log, delivered>>

(* proxyOAuth lists the subscribers, then awaits the state's digest. *)
ProxyOAuth ==
  /\ phase = "oauth"
  /\ IF Deliverable(route) = {}
       THEN Concludes("route_not_found")
       ELSE Goes("match") /\ found' = Deliverable(route) /\ UNCHANGED answer
  /\ Keep /\ UNCHANGED <<route, log, delivered>>

(* Then it delivers to the match.  The delivery may fail before or after    *)
(* sending, and the subscriber's response may be too large to pass on.     *)
DeliverOAuth ==
  /\ phase = "match"
  /\ LET m == Match(found) IN
       IF m = None
         THEN /\ Concludes(IF Cardinality(found) > 1 THEN "oauth_unroutable"
                                                     ELSE "oauth_subscriber_not_found")
              /\ UNCHANGED delivered
         ELSE \/ Concludes("proxied") /\ delivered' = {m}
              \/ Concludes("subscriber_response_too_large") /\ delivered' = {m}
              \/ Concludes("subscriber_unreachable") /\ delivered' \in {{}, {m}}
  /\ Keep /\ UNCHANGED <<route, log>>

(* countWebhookFanoutDeliveries, for the log only: the settings first, the *)
(* subscribers after.                                                      *)
CountFilter ==
  /\ phase = "count"
  /\ found' = filter[route]
  /\ Goes("counting")
  /\ steady' = TRUE
  /\ Remain /\ UNCHANGED <<route, log, answer, delivered>>

CountTargets ==
  /\ phase = "counting"
  /\ Goes("log") /\ answer' = "accepted"
  /\ found' = FanOutTargets(route, found)
  /\ Keep /\ UNCHANGED <<route, log, delivered>>

(* The row for an answer; sanitizeInboundError drops an error code that is *)
(* not on its list.                                                        *)
Result == IF answer \in {"accepted", "proxied"} THEN answer ELSE "rejected"
RowOfAnswer ==
  [result |-> Result,
   error  |-> IF Result # "rejected" \/ answer = "subscriber_response_too_large"
              THEN None ELSE answer,
   count  |-> CASE answer = "accepted" -> Cardinality(found)
                [] answer = "proxied" -> 1
                [] OTHER -> 0]

(* recordPublicInboundLog, then the response; only a webhook goes on. *)
RecordInbound ==
  /\ phase = "log"
  /\ log' = log \cup {RowOfAnswer}
  /\ Goes(IF answer = "accepted" THEN "fanout" ELSE "done") /\ found' = {}
  /\ Keep /\ UNCHANGED <<route, answer, delivered>>

(* Mutant: a webhook whose log row fails is fanned out all the same. *)
FansOutUnlogged ==
  /\ phase \notin {"new", "fanout", "dispatch", "done", "lost"}
  /\ answer' = "error"
  /\ Goes(IF answer = "accepted" THEN "fanout" ELSE "done") /\ found' = {}
  /\ Keep /\ UNCHANGED <<route, log, delivered>>

(* Any of the calls above may throw: a 500, and nothing more is done. *)
CallFails ==
  /\ phase \notin {"new", "fanout", "dispatch", "done", "lost"}
  /\ answer' = "error"
  /\ Goes("done") /\ found' = {}
  /\ Keep /\ UNCHANGED <<route, log, delivered>>

(* fanOut under waitUntil: the settings first, the subscribers after. *)
ReadFilter ==
  /\ phase = "fanout"
  /\ found' = filter[route]
  /\ Goes("dispatch")
  /\ Keep /\ UNCHANGED <<route, log, answer, delivered>>

FanOut ==
  /\ phase = "dispatch"
  /\ delivered' = FanOutTargets(route, found)
  /\ Goes("done") /\ found' = {}
  /\ Keep /\ UNCHANGED <<route, log, answer>>

(* waitUntil's promise is lost; the caller has its 202. *)
FanOutLost ==
  /\ phase \in {"fanout", "dispatch"}
  /\ Goes("lost") /\ found' = {}
  /\ Keep /\ UNCHANGED <<route, log, answer, delivered>>

(***************************************************************************)
(* Meanwhile: subscribers, bindings, the operator.  `Denies' and `Wants'   *)
(* say what the settings promise, in the words of the documentation: a     *)
(* deny of the operator that covers the subscriber, or the subscriber's    *)
(* own --no-webhooks; and no deny, and an allow if there are allows for    *)
(* it.                                                                     *)
(***************************************************************************)
ForAll(rule) == rule.env = None
Deniers == {"operator", "itself"}
Denies(s, who, f, m) ==
  IF who = "itself" THEN s \in m
    ELSE f.denyAll
           \/ \E u \in f.rules : u.mode = "deny" /\ u.matches /\ (ForAll(u) \/ u.env = s)
OptsIn(s, f) == {u \in f.rules : u.mode = "allow" /\ (ForAll(u) \/ u.env = s)}
Wants(s, f, c, m) ==
  /\ c[s] = "live" /\ ~\E who \in Deniers : Denies(s, who, f, m)
  /\ (OptsIn(s, f) = {} \/ \E u \in OptsIn(s, f) : u.matches)

(* Until the 202 is given, what they say now; from then on, ever since. *)
Answered == phase \in {"fanout", "dispatch"}
Since(S) == IF Answered THEN S ELSE Subs
Noted ==
  /\ wanted' = {s \in Since(wanted) : Wants(s, filter'[RouteOf(s)], conn', mute')}
  /\ denied' = [who \in Deniers |->
                  {s \in Since(denied[who]) : Denies(s, who, filter'[RouteOf(s)], mute')}]

Underway == phase \notin {"new", "done", "lost"}

(* Only a webhook looks at the filters and at --no-webhooks: for another   *)
(* request they stay as they are.                                          *)
LooksAtFilters == ~Reserved /\ ~req.huge

Meanwhile == Noted /\ steady' = FALSE /\ UNCHANGED <<req, handling>>

Moves == moves < MaxMoves /\ moves' = moves + 1
Moved(s, c) == conn' = [conn EXCEPT ![s] = c]

(* A join, a reclaim, or a join that replaces the row of the environment,  *)
(* with or without --no-webhooks; a tunnel has its row before its socket.  *)
Joins(s) ==
  /\ Underway /\ Moves
  /\ \/ conn[s] = "gone" /\ \E c \in {"parked", "live"} : Moved(s, c)
     \/ conn[s] # "gone" /\ Moved(s, "live")
  /\ mute' \in {mute \ {s}, mute \cup {s}} /\ (mute' # mute => LooksAtFilters)
  /\ UNCHANGED <<bound, valid, settings>>
  /\ Meanwhile

Parks(s) ==
  /\ Underway /\ Moves
  /\ conn[s] = "live" /\ Moved(s, "parked")
  /\ UNCHANGED <<mute, bound, valid, settings>>
  /\ Meanwhile

(* removeSubscriberRow takes the bindings along. *)
Leaves(s) ==
  /\ Underway /\ Moves
  /\ conn[s] # "gone" /\ Moved(s, "gone")
  /\ mute' = mute \ {s}
  /\ bound' = (bound /\ s # owner)
  /\ UNCHANGED <<valid, settings>>
  /\ Meanwhile

StateLapses ==
  /\ Underway /\ (bound \/ valid)
  /\ bound' = FALSE /\ valid' = FALSE
  /\ UNCHANGED <<conn, mute, moves, settings>>
  /\ Meanwhile

Edits == edits < MaxEdits /\ edits' = edits + 1

(* upsertOAuthCallbackPath, deleteOAuthCallbackPath. *)
EditAllowlist(r) ==
  /\ Underway /\ Edits
  /\ allowed' = IF r \in allowed THEN allowed \ {r} ELSE allowed \cup {r}
  /\ UNCHANGED <<people, filter>>
  /\ Meanwhile

(* setWebhookFanoutDenyAll. *)
EditDenyAll(r) ==
  /\ Underway /\ LooksAtFilters /\ Edits
  /\ filter' = [filter EXCEPT ![r].denyAll = ~@]
  /\ UNCHANGED <<people, allowed>>
  /\ Meanwhile

(* upsertWebhookFanoutRule, deleteWebhookFanoutRule. *)
EditRule(r, u) ==
  /\ Underway /\ LooksAtFilters /\ Edits
  /\ filter' = [filter EXCEPT ![r].rules = IF u \in @ THEN @ \ {u} ELSE @ \cup {u}]
  /\ UNCHANGED <<people, allowed>>
  /\ Meanwhile

(* The operator and the subscribers got here by the actions above; a state *)
(* that is bound has a row to be bound to.                                 *)
Init ==
  /\ req \in Requests
  /\ conn \in [Subs -> {"gone", "live"}]
  /\ mute \in SUBSET {s \in Subs : conn[s] = "live"} /\ (mute # {} => LooksAtFilters)
  /\ allowed \in SUBSET Routes
  /\ filter = [r \in Routes |-> [denyAll |-> FALSE, rules |-> {}]]
  /\ bound = (req.state = "bound") /\ (bound => conn[owner] # "gone")
  /\ valid \in BOOLEAN /\ (valid => req.state = "signed")
  /\ moves = 0 /\ edits = 0
  /\ phase = "new" /\ route = None /\ found = {}
  /\ log = {} /\ answer = None /\ delivered = {}
  /\ wanted = {s \in Subs : Wants(s, filter[RouteOf(s)], conn, mute)}
  /\ denied = [who \in Deniers |-> {}]
  /\ steady = FALSE

Handle ==
  Arrive \/ AskNamed \/ AskRoot \/ ReadAllowlist \/ Classify \/ ProxyOAuth \/ DeliverOAuth
    \/ CountFilter \/ CountTargets \/ RecordInbound \/ CallFails \/ ReadFilter \/ FanOut \/ FanOutLost

Next ==
  \/ Handle
  \/ \E s \in Subs : Joins(s) \/ Parks(s) \/ Leaves(s)
  \/ StateLapses
  \/ \E r \in Routes : EditAllowlist(r) \/ EditDenyAll(r) \/ \E u \in RulesOf(r) : EditRule(r, u)

Spec == Init /\ [][Next]_vars

(***************************************************************************)
(* Properties.                                                             *)
(***************************************************************************)
TypeOK ==
  /\ conn \in [Subs -> {"gone", "parked", "live"}]
  /\ mute \subseteq Subs /\ allowed \subseteq Routes
  /\ filter \in [Routes -> [denyAll : BOOLEAN, rules : SUBSET (RulesOf("named") \cup RulesOf("root"))]]
  /\ \A r \in Routes : filter[r].rules \subseteq RulesOf(r)
  /\ {bound, valid} \subseteq BOOLEAN
  /\ moves \in 0..MaxMoves /\ edits \in 0..MaxEdits
  /\ req \in Requests
  /\ phase \in {"new", "named", "root", "allowlist", "body", "oauth", "match", "count",
                "counting", "log", "fanout", "dispatch", "done", "lost"}
  /\ route \in Routes \cup {None}
  /\ answer \in Answers \cup {None}
  /\ log \subseteq Rows /\ steady \in BOOLEAN
  /\ phase \notin {"new", "named", "root", "log", "done"} => route \in Routes
  /\ IF phase \in {"counting", "dispatch"}
       THEN found.denyAll \in BOOLEAN /\ found.rules \subseteq RulesOf(route)
       ELSE found \subseteq Routes \cup Subs
  /\ delivered \subseteq Subs /\ wanted \subseteq Subs /\ denied \in [Deniers -> SUBSET Subs]

(* What a row of the inbound log tells of deliveries.                      *)
(* Proxied: one subscriber got the request.  Rejected: nobody got it, but  *)
(* for two errors that come after it was sent, although the row counts 0:  *)
(* after subscriber_unreachable (a timeout, say) one subscriber may have   *)
(* it, and where the row has no error, because its code is not on the      *)
(* log's list, one has it.  No row: at most one has it, the answer is 500. *)
(* Accepted: the caller has its 202, and unless the fan-out was lost, or   *)
(* subscribers or settings changed since the count, it was sent to as many *)
(* subscribers as the row says.                                            *)
RowTellsDelivery ==
  LET reached == Cardinality(delivered) IN
  /\ \A row \in log :
       CASE row.result = "proxied" -> reached = 1 /\ row.count = 1
         [] row.result = "rejected" ->
              /\ row.count = 0
              /\ reached \in CASE row.error = "subscriber_unreachable" -> {0, 1}
                               [] row.error = None -> {1}
                               [] OTHER -> {0}
         [] row.result = "accepted" ->
              /\ answer = "accepted"
              /\ phase = "done" /\ steady => reached = row.count
  /\ log = {} /\ phase = "done" => reached = 0 \/ (reached = 1 /\ answer = "error")

(* A request that has the shape of an OAuth callback, or a signed state,   *)
(* reaches at most one subscriber and only by the proxy, however the       *)
(* allowlist changes meanwhile: a code is never fanned out.                *)
CallbackIsNotSprayed ==
  req.path = "callback" \/ req.state = "signed" =>
    Cardinality(delivered) <= 1 /\ \A row \in log : row.result # "accepted"

(* While the state is bound (on the route the request resolves to) or its  *)
(* signature is valid, the proxy delivers to the subscriber that created   *)
(* it or to nobody: not to another one because the owner is parked, gone   *)
(* or slow.                                                                *)
OwnedCodeGoesHome ==
  [][phase = "match" /\ delivered' # {}
       /\ ((req.state = "signed" /\ valid) \/ (bound /\ RouteOf(owner) = route))
       => delivered' = {owner}]_vars

(* A deny of the operator that covers a subscriber from the 202 to the     *)
(* fan-out keeps the webhook from it, at whatever moment before the 202 it *)
(* was set; so does a --no-webhooks.  (One that takes over from the other  *)
(* need not: the settings are read first, the subscribers after.)          *)
DeniedGetsNothing ==
  phase = "done" /\ answer = "accepted" => \A who \in Deniers : delivered \cap denied[who] = {}

(* A subscriber of the route that is connected, and whose filters accept   *)
(* the webhook, from the 202 to the fan-out is sent it, unless the fan-out *)
(* is lost.                                                                *)
WantedGetsAll == phase = "done" /\ answer = "accepted" => wanted \cap SubsOf(route) \subseteq delivered
=============================================================================
