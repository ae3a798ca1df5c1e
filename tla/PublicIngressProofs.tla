------------------------ MODULE PublicIngressProofs ------------------------
(***************************************************************************)
(* That an authorization code is not fanned out, and that an owned one is  *)
(* proxied to its owner only, for any subscribers, any index, and any      *)
(* changes meanwhile.                                                      *)
(***************************************************************************)
EXTENDS PublicIngress, FiniteSetTheorems, TLAPS

(* Nothing has been sent before the log row is due, nor by an accepted     *)
(* webhook before its fan-out.                                             *)
NothingSentYet ==
  phase \notin {"log", "done"} \/ (phase = "log" /\ answer = "accepted") => delivered = {}

(* The state is bound only if the request carries one that was. *)
BoundIsCarried == req \in Requests /\ (bound => req.state = "bound")

(* A reserved request never gets on the way of a webhook, and what it has  *)
(* been sent to is one subscriber.                                         *)
ReservedIsNoWebhook ==
  Reserved =>
    /\ phase \notin {"count", "counting", "fanout", "dispatch", "lost"}
    /\ answer # "accepted" /\ \A row \in log : row.result # "accepted"
    /\ delivered = {} \/ \E s \in delivered : delivered = {s}

IInv == NothingSentYet /\ BoundIsCarried /\ ReservedIsNoWebhook

(* A reserved request is classified as a callback, one way or the other. *)
LEMMA ReservedClass ==
  ASSUME Reserved, req \in Requests, NEW b \in BOOLEAN
  PROVE  Class(b) \notin {"fanout", "accepted"}
<1>1. req.code \in BOOLEAN /\ req.method \in {"post", "put"}
  BY DEF Requests
<1> QED
  BY <1>1 DEF Class

LEMMA InitInv == ASSUME Init PROVE IInv
  BY IngressAssumption
  DEF Init, IInv, NothingSentYet, BoundIsCarried, ReservedIsNoWebhook, Answers

(* What goes on meanwhile does not touch the request. *)
LEMMA MeanwhileInv ==
  ASSUME IInv, bound' => bound, UNCHANGED <<req, handling>>
  PROVE  IInv'
  BY DEF IInv, handling, NothingSentYet, BoundIsCarried, ReservedIsNoWebhook, Reserved

(* The steps of handlePublicIngress. *)
LEMMA HandleInv == ASSUME IInv, Handle PROVE IInv'
<1>1. UNCHANGED <<req, bound>>
  BY DEF Handle, Arrive, AskNamed, AskRoot, ReadAllowlist, Classify, ProxyOAuth, DeliverOAuth,
         CountFilter, CountTargets, RecordInbound, CallFails, ReadFilter, FanOut, FanOutLost,
         Keep, Remain, world, people
<1> USE <1>1 DEF IInv, NothingSentYet, BoundIsCarried, ReservedIsNoWebhook, Reserved, Goes, Concludes
<1>2. CASE Arrive
  BY <1>2 DEF Arrive
<1>3. CASE AskNamed \/ AskRoot \/ ReadAllowlist
  BY <1>3 DEF AskNamed, AskRoot, ReadAllowlist
<1>4. CASE Classify
  <2>1. Reserved => Class(found # {}) \notin {"fanout", "accepted"}
    BY ReservedClass
  <2> QED
    BY <1>4, <2>1 DEF Classify
<1>5. CASE ProxyOAuth
  BY <1>5 DEF ProxyOAuth
<1>6. CASE DeliverOAuth
  BY <1>6 DEF DeliverOAuth
<1>7. CASE CountFilter \/ CountTargets \/ RecordInbound \/ CallFails
  BY <1>7 DEF CountFilter, CountTargets, RecordInbound, RowOfAnswer, Result, CallFails
<1>8. CASE ReadFilter \/ FanOut \/ FanOutLost
  BY <1>8 DEF ReadFilter, FanOut, FanOutLost
<1> QED
  BY <1>2, <1>3, <1>4, <1>5, <1>6, <1>7, <1>8 DEF Handle

(* The steps of everybody else. *)
LEMMA StepInv == ASSUME IInv, [Next]_vars PROVE IInv'
<1>1. CASE Handle
  BY <1>1, HandleInv
<1>2. CASE UNCHANGED vars
  <2>1. UNCHANGED <<req, handling>> /\ bound' = bound
    BY <1>2 DEF vars, world, people
  <2> QED
    BY <2>1, MeanwhileInv, Zenon
<1>3. ASSUME NEW s \in Subs, Joins(s) \/ Parks(s) \/ Leaves(s) PROVE IInv'
  <2>1. UNCHANGED <<req, handling>>
    BY <1>3 DEF Joins, Parks, Leaves, Meanwhile
  <2>2. bound' => bound
    BY <1>3, Zenon DEF Joins, Parks, Leaves
  <2> QED
    BY <2>1, <2>2, MeanwhileInv, Zenon
<1>4. CASE StateLapses
  BY <1>4, MeanwhileInv DEF StateLapses, Meanwhile
<1>5. ASSUME NEW r \in Routes,
             EditAllowlist(r) \/ EditDenyAll(r) \/ \E u \in RulesOf(r) : EditRule(r, u)
      PROVE  IInv'
  BY <1>5, MeanwhileInv DEF EditAllowlist, EditDenyAll, EditRule, Meanwhile, people
<1> QED
  BY <1>1, <1>2, <1>3, <1>4, <1>5 DEF Next

(* Every run keeps the invariant. *)
THEOREM Inductive == Spec => []IInv
  BY InitInv, StepInv, PTL DEF Spec

(* A request that has the shape of an OAuth callback, or a signed state,   *)
(* reaches at most one subscriber, and never as a webhook.                 *)
THEOREM CallbacksAreNotSprayed == Spec => []CallbackIsNotSprayed
<1>1. ASSUME IInv PROVE CallbackIsNotSprayed
  <2> SUFFICES ASSUME Reserved PROVE Cardinality(delivered) <= 1 /\ \A row \in log : row.result # "accepted"
    BY DEF CallbackIsNotSprayed, Reserved
  <2>1. delivered = {} \/ \E s \in delivered : delivered = {s}
    BY <1>1 DEF IInv, ReservedIsNoWebhook
  <2>2. Cardinality(delivered) \in {0, 1}
    BY <2>1, FS_EmptySet, FS_Singleton
  <2> QED
    BY <1>1, <2>2 DEF IInv, ReservedIsNoWebhook
<1> QED
  BY <1>1, Inductive, PTL

(* While an OAuth state is bound on the request's route, or its signature  *)
(* is valid, the proxy delivers the callback to its owner or to nobody.    *)
THEOREM OwnedCodesGoHome == Spec => OwnedCodeGoesHome
<1>1. ASSUME IInv, [Next]_vars,
             phase = "match", delivered' # {},
             (req.state = "signed" /\ valid) \/ (bound /\ RouteOf(owner) = route)
      PROVE  delivered' = {owner}
  <2>1. delivered = {} /\ (bound => req.state = "bound")
    BY <1>1 DEF IInv, NothingSentYet, BoundIsCarried
  <2>2. DeliverOAuth
    <3>1. delivered' # delivered
      BY <1>1, <2>1
    <3> QED
      BY <1>1, <3>1 DEF Next, Handle, Arrive, AskNamed, AskRoot, ReadAllowlist, Classify,
           ProxyOAuth, CountFilter, CountTargets, RecordInbound, CallFails, ReadFilter, FanOut, FanOutLost,
           Joins, Parks, Leaves, StateLapses, EditAllowlist, EditDenyAll, EditRule,
           Meanwhile, handling, vars
  <2>3. Match(found) = Correlated(owner, found)
    BY <1>1, <2>1 DEF Match
  <2> QED
    BY <1>1, <2>1, <2>2, <2>3 DEF DeliverOAuth, Correlated
<1> QED
  BY <1>1, Inductive, PTL DEF Spec, OwnedCodeGoesHome

-----------------------------------------------------------------------------
(* The inbound log. *)

Early == {"new", "named", "root", "allowlist", "body", "oauth", "match", "count", "counting"}

AtMostOne == delivered = {} \/ \E s \in delivered : delivered = {s}

(* The answers given after something was sent, and after nothing was. *)
Sent == {"proxied", "subscriber_response_too_large"}
MaySend == Sent \cup {"subscriber_unreachable"}

(* What the row of a request that is no webhook tells. *)
Fits(row) ==
  /\ row.result \in {"proxied", "rejected"}
  /\ row.result = "proxied" => delivered # {} /\ row.count = 1
  /\ row.result = "rejected" =>
       /\ row.count = 0
       /\ row.error = None => delivered # {}
       /\ row.error \notin {None, "subscriber_unreachable"} => delivered = {}

(* Before its row a request reached nobody, or the one it was proxied to;  *)
(* after it the row fits what was sent.                                    *)
RowInv ==
  /\ phase \in Early => log = {} /\ delivered = {}
  /\ phase = "log" =>
       /\ log = {} /\ AtMostOne /\ answer # None
       /\ answer \in Sent => delivered # {}
       /\ delivered # {} => answer \in MaySend
  /\ phase \in {"fanout", "dispatch", "lost"} =>
       delivered = {} /\ answer = "accepted" /\ log # {}
  /\ phase = "done" =>
       \/ log # {} /\ answer = "accepted"
       \/ log # {} /\ AtMostOne /\ \A row \in log : Fits(row)
       \/ log = {} /\ AtMostOne /\ (delivered # {} => answer = "error")
  /\ \A row \in log : row.result = "accepted" <=> answer = "accepted"
  /\ phase \in Early \cup {"log", "fanout", "dispatch", "lost", "done"}
  /\ req \in Requests

(* While nothing changes, the count is of those the webhook will go to.    *)
Counted == Cardinality(FanOutTargets(route, filter[route]))

CountInv ==
  steady =>
    /\ phase \in {"counting", "dispatch"} => found = filter[route]
    /\ phase = "log" /\ answer = "accepted" => Cardinality(found) = Counted
    /\ phase \in {"fanout", "dispatch"} => \A row \in log : row.count = Counted
    /\ phase = "done" /\ answer = "accepted" =>
         \A row \in log : row.count = Cardinality(delivered)

(* The classes that are answers come before any delivery. *)
LEMMA ClassIsEarly ==
  ASSUME req \in Requests, NEW b \in BOOLEAN, Class(b) \notin {"oauth", "fanout"}
  PROVE  Class(b) \notin MaySend \cup {"accepted", None}
<1>1. req.code \in BOOLEAN /\ req.method \in {"post", "put"} /\ Reserved \in BOOLEAN
  BY DEF Requests, Reserved
<1>2. Class(b) \in {"oauth_callback_incomplete", "oauth_method_not_allowed",
                    "oauth_callback_not_registered"}
  BY <1>1 DEF Class
<1> QED
  BY <1>2, IngressAssumption DEF MaySend, Sent, Answers

LEMMA InitRow == ASSUME Init PROVE RowInv /\ CountInv
  BY DEF Init, RowInv, CountInv, Early

LEMMA StepRow == ASSUME RowInv, [Next]_vars PROVE RowInv'
<1> USE DEF RowInv, Early, AtMostOne, Fits, Sent, MaySend
<1>1. None \notin {"accepted", "proxied", "subscriber_unreachable", "error", "route_not_found",
                   "subscriber_response_too_large", "oauth_unroutable", "request_too_large",
                   "oauth_subscriber_not_found"}
  BY IngressAssumption DEF Answers
<1>2. CASE UNCHANGED <<req, handling>>
  BY <1>2 DEF handling
<1>3. CASE Handle
  <2> USE <1>1 DEF Goes, Concludes, Keep, Remain
  <2>1. CASE Arrive \/ AskNamed \/ AskRoot \/ ReadAllowlist
    BY <2>1 DEF Arrive, AskNamed, AskRoot, ReadAllowlist
  <2>2. CASE Classify
    BY <2>2, ClassIsEarly DEF Classify
  <2>3. CASE ProxyOAuth \/ CountFilter \/ CountTargets
    BY <2>3 DEF ProxyOAuth, CountFilter, CountTargets
  <2>4. CASE DeliverOAuth
    BY <2>4 DEF DeliverOAuth
  <2>5. CASE RecordInbound
    <3>1. PICK ro : /\ ro = RowOfAnswer /\ log' = {ro}
                    /\ UNCHANGED <<answer, delivered, req>>
      BY <2>5 DEF RecordInbound
    <3>2. CASE answer = "accepted"
      <4>1. ro.result = "accepted"
        BY <3>1, <3>2 DEF RowOfAnswer, Result
      <4>2. phase' = "fanout"
        BY <2>5, <3>2 DEF RecordInbound
      <4>3. delivered' = {} /\ answer' = "accepted" /\ req' \in Requests
        BY <2>5, <3>1, <3>2 DEF RecordInbound
      <4> HIDE DEF Fits, AtMostOne, Sent, MaySend
      <4> QED
        BY <3>1, <4>1, <4>2, <4>3
    <3>3. CASE answer # "accepted"
      <4>1. Fits(ro)
        BY <2>5, <3>1, <3>3 DEF RecordInbound, RowOfAnswer, Result
      <4>2. phase' = "done"
        BY <2>5, <3>3 DEF RecordInbound
      <4>3. Fits(ro)' /\ ro.result # "accepted"
        BY <3>1, <4>1
      <4> QED
        BY <2>5, <3>1, <3>3, <4>1, <4>2
    <3> QED
      BY <3>2, <3>3
  <2>6. CASE CallFails
    BY <2>6 DEF CallFails
  <2>7. CASE ReadFilter \/ FanOut \/ FanOutLost
    BY <2>7 DEF ReadFilter, FanOut, FanOutLost
  <2> QED
    BY <1>3, <2>1, <2>2, <2>3, <2>4, <2>5, <2>6, <2>7 DEF Handle
<1> QED
  BY <1>2, <1>3 DEF Next, Joins, Parks, Leaves, StateLapses, EditAllowlist, EditDenyAll,
       EditRule, Meanwhile, vars

(* Counting and fanning out read the same, unless something changes. *)
LEMMA StepCount == ASSUME RowInv, CountInv, [Next]_vars PROVE CountInv'
<1> USE DEF CountInv
<1>1. CASE Meanwhile
  BY <1>1 DEF Meanwhile
<1>2. CASE UNCHANGED vars
  BY <1>2 DEF vars, world, people, settings, handling, Counted, FanOutTargets, Deliverable,
       Accepts, Applicable, SubsOf
<1>3. CASE Handle
  <2>1. UNCHANGED <<conn, mute, filter, req>>
    BY <1>3 DEF Handle, Arrive, AskNamed, AskRoot, ReadAllowlist, Classify, ProxyOAuth,
         DeliverOAuth, CountFilter, CountTargets, RecordInbound, CallFails, ReadFilter, FanOut,
         FanOutLost, Keep, Remain, world, people, settings
  <2>2. UNCHANGED route => UNCHANGED Counted
    BY <2>1 DEF Counted, FanOutTargets, Deliverable, Accepts, Applicable, SubsOf
  <2> USE DEF Goes, Concludes, Keep
  <2>3. CASE Arrive \/ AskNamed \/ AskRoot \/ ReadAllowlist \/ ProxyOAuth \/ DeliverOAuth
    BY <2>3 DEF Arrive, AskNamed, AskRoot, ReadAllowlist, ProxyOAuth, DeliverOAuth
  <2>4. CASE Classify
    BY <2>4, ClassIsEarly DEF Classify, RowInv
  <2>5. CASE CountFilter
    BY <2>1, <2>5 DEF CountFilter
  <2>6. CASE CountTargets
    <3>1. steady => found = filter[route]
      BY <2>6 DEF CountTargets
    <3>2. found' = FanOutTargets(route, found) /\ UNCHANGED <<route, steady>>
      BY <2>6 DEF CountTargets
    <3>3. steady => Cardinality(found') = Counted'
      BY <2>2, <3>1, <3>2 DEF Counted
    <3> QED
      BY <2>6, <3>2, <3>3 DEF CountTargets
  <2>7. CASE RecordInbound
    <3>1. /\ log' = {RowOfAnswer} /\ UNCHANGED <<route, steady, answer>>
          /\ phase' = IF answer = "accepted" THEN "fanout" ELSE "done"
      BY <2>7 DEF RecordInbound, RowInv
    <3>2. answer = "accepted" => RowOfAnswer.count = Cardinality(found)
      BY DEF RowOfAnswer
    <3> QED
      BY <2>2, <2>7, <3>1, <3>2 DEF RecordInbound
  <2>8. CASE CallFails
    BY <2>8 DEF CallFails
  <2>9. CASE ReadFilter
    BY <2>1, <2>2, <2>9 DEF ReadFilter
  <2>10. CASE FanOut
    BY <2>10 DEF FanOut, Counted
  <2>11. CASE FanOutLost
    BY <2>11 DEF FanOutLost
  <2> QED
    BY <1>3, <2>3, <2>4, <2>5, <2>6, <2>7, <2>8, <2>9, <2>10, <2>11 DEF Handle
<1> QED
  BY <1>1, <1>2, <1>3 DEF Next, Joins, Parks, Leaves, StateLapses, EditAllowlist, EditDenyAll,
       EditRule

(* What a row of the inbound log tells of deliveries, for any interleaving *)
(* of the calls, their failures and the changes meanwhile: a proxied       *)
(* request reached one subscriber, a rejected one nobody but for the two   *)
(* errors that come after sending, an accepted one as many as were counted *)
(* if nothing changed since.                                               *)
THEOREM RowsTellDeliveries == Spec => []RowTellsDelivery
<1>1. ASSUME RowInv, CountInv PROVE RowTellsDelivery
  <2> DEFINE reached == Cardinality(delivered)
  <2>1. /\ AtMostOne => reached \in {0, 1}
        /\ AtMostOne /\ delivered # {} => reached = 1
        /\ delivered = {} => reached = 0
    BY FS_EmptySet, FS_Singleton DEF AtMostOne
  <2>2. None # "subscriber_unreachable"
    BY IngressAssumption DEF Answers
  <2> HIDE DEF reached
  <2>3. ASSUME NEW row \in log, row.result # "accepted"
        PROVE  /\ row.result = "proxied" => reached = 1 /\ row.count = 1
               /\ row.result \in {"proxied", "rejected"}
               /\ row.result = "rejected" =>
                    /\ row.count = 0
                    /\ row.error = "subscriber_unreachable" => reached \in {0, 1}
                    /\ row.error = None => reached = 1
                    /\ row.error \notin {None, "subscriber_unreachable"} => reached = 0
    <3>1. AtMostOne /\ Fits(row)
      BY <1>1, <2>3 DEF RowInv, Early
    <3> QED
      BY <2>1, <3>1 DEF Fits
  <2>4. ASSUME NEW row \in log, row.result = "accepted"
        PROVE  answer = "accepted" /\ (phase = "done" /\ steady => reached = row.count)
    BY <1>1, <2>4 DEF RowInv, CountInv, reached
  <2>5. log = {} /\ phase = "done" => reached = 0 \/ (reached = 1 /\ answer = "error")
    BY <1>1, <2>1 DEF RowInv, Early
  <2>6. ASSUME NEW row \in log
        PROVE  CASE row.result = "proxied" -> reached = 1 /\ row.count = 1
                 [] row.result = "rejected" ->
                      /\ row.count = 0
                      /\ reached \in CASE row.error = "subscriber_unreachable" -> {0, 1}
                                       [] row.error = None -> {1}
                                       [] OTHER -> {0}
                 [] row.result = "accepted" ->
                      /\ answer = "accepted"
                      /\ phase = "done" /\ steady => reached = row.count
    <3>1. CASE row.result = "accepted"
      BY <2>4, <3>1
    <3>2. CASE row.result = "proxied"
      BY <2>3, <3>2
    <3>3. CASE row.result = "rejected"
      BY <2>2, <2>3, <3>3
    <3> QED
      BY <2>3, <3>1, <3>2, <3>3
  <2> QED
    BY <2>5, <2>6 DEF RowTellsDelivery, reached
<1> QED
  BY <1>1, InitRow, StepRow, StepCount, PTL DEF Spec

-----------------------------------------------------------------------------
(* The filters. *)

(* What the filters say of a subscriber that takes webhooks. *)
Welcomes(s, f) ==
  /\ ~Denies(s, "operator", f, mute)
  /\ OptsIn(s, f) = {} \/ \E u \in OptsIn(s, f) : u.matches

(* The code's filters are the promised ones. *)
LEMMA AcceptsIsWelcomes ==
  ASSUME NEW s, NEW f
  PROVE  (~f.denyAll /\ Accepts(s, f)) <=> (s \notin mute /\ Welcomes(s, f))
<1>1. OptsIn(s, f) = {u \in Applicable(f.rules, s) : u.mode = "allow"}
  BY DEF OptsIn, Applicable, ForAll
<1>2. (\E u \in f.rules : u.mode = "deny" /\ u.matches /\ (ForAll(u) \/ u.env = s))
        <=> ~\A u \in {v \in Applicable(f.rules, s) : v.mode = "deny"} : ~u.matches
  BY DEF Applicable, ForAll
<1> QED
  BY <1>1, <1>2 DEF Accepts, Welcomes, Denies

(* From the 202 on, the histories hold what has been so ever since: first  *)
(* of the settings as they are, and of those read once they are read.      *)
SettingsInv ==
  /\ \A s \in wanted :
       conn[s] = "live" /\ s \notin mute /\ Welcomes(s, filter[RouteOf(s)])
  /\ \A s \in denied["operator"] : Denies(s, "operator", filter[RouteOf(s)], mute)
  /\ denied["itself"] \subseteq mute

ReadInv ==
  /\ phase \notin {"new", "named", "root", "log", "done"} => route \in Routes
  /\ phase = "log" /\ answer = "accepted" => route \in Routes
  /\ phase = "dispatch" =>
       /\ \A s \in wanted \cap SubsOf(route) : Welcomes(s, found)
       /\ \A s \in denied["operator"] \cap SubsOf(route) : Denies(s, "operator", found, mute)
  /\ DeniedGetsNothing /\ WantedGetsAll

(* A subscriber of a route has that route's settings. *)
LEMMA SettingsOfRoute ==
  ASSUME route \in Routes, NEW s \in SubsOf(route) PROVE RouteOf(s) = route
  BY IngressAssumption DEF Routes, SubsOf, RouteOf

(* The operator's own denials do not depend on who mutes itself. *)
LEMMA OperatorDenies ==
  ASSUME NEW s, NEW f, NEW m, NEW n
  PROVE  Denies(s, "operator", f, m) <=> Denies(s, "operator", f, n)
  BY DEF Denies

LEMMA InitSettings == ASSUME Init PROVE SettingsInv /\ ReadInv
<1>1. \A s \in wanted :
        conn[s] = "live" /\ s \notin mute /\ Welcomes(s, filter[RouteOf(s)])
  BY DEF Init, Wants, Denies, Deniers, Welcomes
<1> QED
  BY <1>1 DEF Init, SettingsInv, ReadInv, Deniers, DeniedGetsNothing, WantedGetsAll

(* A change meanwhile notes what holds after it. *)
LEMMA MeanwhileSettings ==
  ASSUME SettingsInv, ReadInv, Underway, Meanwhile
  PROVE  SettingsInv' /\ ReadInv'
<1>1. UNCHANGED <<phase, route, found, answer, delivered>>
  BY DEF Meanwhile, handling
<1>2. \A s \in wanted' : Wants(s, filter'[RouteOf(s)], conn', mute')
  BY DEF Meanwhile, Noted
<1>3. \A s \in wanted' :
        conn'[s] = "live" /\ s \notin mute' /\ Welcomes(s, filter[RouteOf(s)])'
  BY <1>2 DEF Wants, Welcomes, Denies, Deniers, RouteOf
<1>4. /\ \A s \in denied'["operator"] : Denies(s, "operator", filter'[RouteOf(s)], mute')
      /\ \A s \in denied'["itself"] : Denies(s, "itself", filter'[RouteOf(s)], mute')
  BY DEF Meanwhile, Noted, Deniers
<1>5. SettingsInv'
  BY <1>3, <1>4 DEF SettingsInv, Denies, RouteOf
<1>6. Answered => wanted' \subseteq wanted /\ denied'["operator"] \subseteq denied["operator"]
  BY DEF Meanwhile, Noted, Since, Deniers
<1>7. phase = "dispatch" =>
        /\ \A s \in wanted' \cap SubsOf(route) : Welcomes(s, found)'
        /\ \A s \in denied'["operator"] \cap SubsOf(route) : Denies(s, "operator", found, mute')
  BY <1>1, <1>6, OperatorDenies DEF ReadInv, Answered, Welcomes, OptsIn
<1>8. ReadInv'
  BY <1>1, <1>7 DEF ReadInv, Underway, DeniedGetsNothing, WantedGetsAll, SubsOf
<1> QED
  BY <1>5, <1>8

(* The settings as they are read: what is so of them is so of what is read. *)
LEMMA ReadFilterSettings ==
  ASSUME SettingsInv, ReadInv, ReadFilter PROVE ReadInv'
<1>1. route \in Routes /\ UNCHANGED <<route, wanted, denied, mute, delivered, answer>>
  BY DEF ReadInv, ReadFilter, Keep, Remain, world, people, history
<1>2. found' = filter[route] /\ phase' = "dispatch"
  BY DEF ReadFilter, Goes
<1>3. \A s \in wanted \cap SubsOf(route) : Welcomes(s, found)'
  BY <1>1, <1>2, SettingsOfRoute DEF SettingsInv, Welcomes
<1>4. \A s \in denied["operator"] \cap SubsOf(route) : Denies(s, "operator", found, mute)'
  BY <1>1, <1>2, SettingsOfRoute DEF SettingsInv
<1> QED
  BY <1>1, <1>2, <1>3, <1>4 DEF ReadInv, DeniedGetsNothing, WantedGetsAll, SubsOf

(* The fan-out: who the read settings welcome, is there, and is not muted. *)
LEMMA FanOutSettings ==
  ASSUME SettingsInv, ReadInv, FanOut PROVE ReadInv'
<1>1. UNCHANGED <<route, wanted, denied>> /\ phase' = "done"
  BY DEF FanOut, Goes, Keep, Remain, world, history
<1>2. /\ delivered' \subseteq SubsOf(route)
      /\ \A s \in SubsOf(route) :
           s \in delivered' <=> conn[s] = "live" /\ ~found.denyAll /\ Accepts(s, found)
  BY DEF FanOut, FanOutTargets, Deliverable
<1>3. \A s \in delivered' : s \notin mute /\ Welcomes(s, found)
  BY <1>2, AcceptsIsWelcomes
<1>4. \A s \in delivered' : s \notin denied["operator"] /\ s \notin denied["itself"]
  BY <1>2, <1>3 DEF SettingsInv, ReadInv, FanOut, Welcomes
<1>5. \A s \in wanted \cap SubsOf(route) : s \in delivered'
  BY <1>2, AcceptsIsWelcomes DEF SettingsInv, ReadInv, FanOut
<1> QED
  BY <1>1, <1>4, <1>5 DEF ReadInv, DeniedGetsNothing, WantedGetsAll, Deniers, SubsOf

(* Before the settings are read, only the route has to be known. *)
LEMMA NothingRead ==
  ASSUME phase' # "dispatch", ~(phase' = "done" /\ answer' = "accepted"),
         phase' \notin {"new", "named", "root", "log", "done"} => route' \in Routes,
         phase' = "log" /\ answer' = "accepted" => route' \in Routes
  PROVE  ReadInv'
  BY DEF ReadInv, DeniedGetsNothing, WantedGetsAll

LEMMA StepSettings ==
  ASSUME SettingsInv, ReadInv, [Next]_vars PROVE SettingsInv' /\ ReadInv'
<1>1. CASE Handle
  <2>1. UNCHANGED <<wanted, denied, conn, mute, filter>>
    BY <1>1 DEF Handle, Arrive, AskNamed, AskRoot, ReadAllowlist, Classify, ProxyOAuth,
         DeliverOAuth, CountFilter, CountTargets, RecordInbound, CallFails, ReadFilter, FanOut, FanOutLost,
         Keep, Remain, world, people, settings, history
  <2>2. SettingsInv'
    BY <2>1 DEF SettingsInv, Welcomes
  <2> SUFFICES ReadInv'
    BY <2>2
  <2>3. CASE phase \in {"new", "named", "root"}
    <3>1. \/ phase' \in {"named", "root"} /\ UNCHANGED route
          \/ phase' = "done" /\ answer' \in {"probe", "error"}
          \/ phase' = "allowlist" /\ route' \in Routes
          \/ phase' = "log" /\ answer' = "route_not_found"
      BY <1>1, <2>3 DEF Handle, Arrive, AskNamed, AskRoot, ReadAllowlist, Classify, ProxyOAuth,
           DeliverOAuth, CountFilter, CountTargets, RecordInbound, CallFails, ReadFilter, FanOut, FanOutLost,
           Goes, Concludes, Routes
    <3> QED
      BY <3>1, NothingRead
  <2>4. CASE phase \in {"allowlist", "body", "oauth", "match", "count", "counting", "log"}
    <3>1. /\ UNCHANGED route
          /\ \/ phase' \in {"body", "oauth", "match", "count", "counting", "log"} /\ phase # "log"
             \/ phase = "log" /\ phase' = "fanout" /\ answer = "accepted"
             \/ phase = "log" /\ phase' = "done" /\ answer' # "accepted"
             \/ phase' = "done" /\ answer' = "error"
      BY <1>1, <2>4 DEF Handle, Arrive, AskNamed, AskRoot, ReadAllowlist, Classify, ProxyOAuth,
           DeliverOAuth, CountFilter, CountTargets, RecordInbound, CallFails, ReadFilter, FanOut, FanOutLost,
           Goes, Concludes
    <3> QED
      BY <2>4, <3>1, NothingRead DEF ReadInv
  <2>5. CASE CallFails \/ FanOutLost
    BY <2>5, NothingRead DEF CallFails, FanOutLost, Goes, ReadInv
  <2>6. CASE ReadFilter
    BY <2>6, ReadFilterSettings
  <2>7. CASE FanOut
    BY <2>7, FanOutSettings
  <2> QED
    BY <1>1, <2>3, <2>4, <2>5, <2>6, <2>7
    DEF Handle, Arrive, AskNamed, AskRoot, ReadAllowlist, Classify, ProxyOAuth,
        DeliverOAuth, CountFilter, CountTargets, RecordInbound
<1>2. CASE Underway /\ Meanwhile
  BY <1>2, MeanwhileSettings
<1>3. CASE UNCHANGED vars
  BY <1>3 DEF vars, world, people, settings, history, handling, SettingsInv, ReadInv, Welcomes,
       DeniedGetsNothing, WantedGetsAll
<1> QED
  BY <1>1, <1>2, <1>3 DEF Next, Joins, Parks, Leaves, StateLapses, EditAllowlist, EditDenyAll, EditRule

THEOREM InductiveSettings == Spec => [](SettingsInv /\ ReadInv)
  BY InitSettings, StepSettings, PTL DEF Spec

(* The operator's deny, or a --no-webhooks, that is in force from the 202  *)
(* to the fan-out keeps the webhook from the subscriber.                   *)
THEOREM DeniedGetNothing == Spec => []DeniedGetsNothing
<1>1. ReadInv => DeniedGetsNothing
  BY DEF ReadInv
<1> QED
  BY <1>1, InductiveSettings, PTL

(* A connected subscriber whose filters accept the webhook from the 202 to *)
(* the fan-out is sent it, unless the fan-out is lost.                     *)
THEOREM WantedGetAll == Spec => []WantedGetsAll
<1>1. ReadInv => WantedGetsAll
  BY DEF ReadInv
<1> QED
  BY <1>1, InductiveSettings, PTL

-----------------------------------------------------------------------------
(* Types. *)

(* An awaiting proxy, or a webhook to be logged, holds a list of subscribers. *)
TypeInv == TypeOK /\ (phase \in {"match", "log"} => found \subseteq Subs)

LEMMA ClassType ==
  ASSUME req \in Requests, NEW b \in BOOLEAN PROVE Class(b) \in Answers \cup {"oauth", "fanout"}
<1>1. req.code \in BOOLEAN /\ req.method \in {"post", "put"} /\ Reserved \in BOOLEAN
  BY DEF Requests, Reserved
<1> QED
  BY <1>1 DEF Class, Answers

LEMMA RowType ==
  ASSUME found \subseteq Subs, answer \in Answers \cup {None} PROVE RowOfAnswer \in Rows
<1>1. /\ Cardinality(found) \in Nat /\ Cardinality(Subs) \in Nat
      /\ Cardinality(found) <= Cardinality(Subs)
  BY IngressAssumption, FS_Subset, FS_CardinalityType
<1>2. Cardinality(Subs) # 0
  BY IngressAssumption, FS_EmptySet
<1> QED
  BY <1>1, <1>2 DEF RowOfAnswer, Result, Rows

(* The match is one of the subscribers it was chosen from, or none. *)
LEMMA MatchType ==
  ASSUME NEW T \in SUBSET Subs, Match(T) # None PROVE Match(T) \in T
<1>1. IsFiniteSet(T)
  BY IngressAssumption, FS_Subset
<1>2. Single(T) # None => Single(T) \in T
  <2>1. ASSUME Cardinality(T) = 1 PROVE (CHOOSE s \in T : TRUE) \in T
    <3>1. T # {}
      BY <2>1, FS_EmptySet
    <3> QED
      BY <3>1
  <2> QED
    BY <2>1 DEF Single
<1>3. Match(T) \in {Correlated(owner, T), Single(T)}
  BY DEF Match
<1> QED
  BY <1>2, <1>3 DEF Correlated

LEMMA InitType == ASSUME Init PROVE TypeInv
<1>1. /\ conn \in [Subs -> {"gone", "parked", "live"}] /\ mute \subseteq Subs
      /\ allowed \subseteq Routes /\ {bound, valid} \subseteq BOOLEAN
      /\ moves \in 0..MaxMoves /\ edits \in 0..MaxEdits
  BY IngressAssumption DEF Init
<1>2. /\ filter \in [Routes -> [denyAll : BOOLEAN, rules : SUBSET (RulesOf("named") \cup RulesOf("root"))]]
      /\ \A r \in Routes : filter[r].rules \subseteq RulesOf(r)
  BY DEF Init
<1>3. wanted \subseteq Subs /\ denied \in [Deniers -> SUBSET Subs]
  BY DEF Init, Wants
<1> QED
  BY <1>1, <1>2, <1>3 DEF Init, TypeInv, TypeOK

(* The steps of handlePublicIngress. *)
LEMMA HandleType == ASSUME TypeInv, ReadInv, Handle PROVE TypeInv'
<1>1. UNCHANGED <<conn, mute, allowed, filter, bound, valid, moves, edits, req, wanted, denied>>
  BY DEF Handle, Arrive, AskNamed, AskRoot, ReadAllowlist, Classify, ProxyOAuth, DeliverOAuth,
         CountFilter, CountTargets, RecordInbound, CallFails, ReadFilter, FanOut, FanOutLost,
         Keep, Remain, world, people, settings, history
<1> DEFINE Situation ==
      /\ phase \in {"new", "named", "root", "allowlist", "body", "oauth", "match", "count",
                    "counting", "log", "fanout", "dispatch", "done", "lost"}
      /\ route \in Routes \cup {None}
      /\ answer \in Answers \cup {None}
      /\ log \subseteq Rows /\ steady \in BOOLEAN
      /\ phase \notin {"new", "named", "root", "log", "done"} => route \in Routes
      /\ IF phase \in {"counting", "dispatch"}
           THEN found.denyAll \in BOOLEAN /\ found.rules \subseteq RulesOf(route)
           ELSE found \subseteq Routes \cup Subs
      /\ delivered \subseteq Subs
      /\ phase \in {"match", "log"} => found \subseteq Subs
<1>2. Situation
  BY DEF TypeInv, TypeOK
<1> SUFFICES Situation'
  BY <1>1 DEF TypeInv, TypeOK, RulesOf, SubsOf
<1> USE <1>2 DEF Goes, Concludes, Keep
<1>3. CASE Arrive
  BY <1>3 DEF Arrive, Answers
<1>4. CASE AskNamed \/ AskRoot
  BY <1>4 DEF AskNamed, AskRoot, Answers, Routes
<1>5. CASE ReadAllowlist
  BY <1>5 DEF ReadAllowlist
<1>6. CASE Classify
  <2>1. Class(found # {}) \in Answers \cup {"oauth", "fanout"}
    BY ClassType DEF TypeInv, TypeOK
  <2> QED
    BY <1>6, <2>1 DEF Classify, Answers
<1>7. CASE ProxyOAuth
  <2>1. Deliverable(route) \subseteq Subs
    BY DEF Deliverable, SubsOf, Subs
  <2> QED
    BY <1>7, <2>1 DEF ProxyOAuth, Answers
<1>8. CASE DeliverOAuth
  <2>1. Match(found) # None => Match(found) \in Subs
    BY <1>8, MatchType DEF DeliverOAuth
  <2> QED
    BY <1>8, <2>1 DEF DeliverOAuth, Answers
<1>9. CASE RecordInbound
  <2>1. RowOfAnswer \in Rows
    BY <1>9, RowType DEF RecordInbound, TypeInv, TypeOK
  <2> QED
    BY <1>9, <2>1 DEF RecordInbound, ReadInv
<1>10. CASE CallFails \/ FanOutLost
  BY <1>10 DEF CallFails, FanOutLost, Answers
<1>11. CASE ReadFilter \/ CountFilter
  BY <1>11 DEF ReadFilter, CountFilter, TypeInv, TypeOK
<1>12. CASE FanOut \/ CountTargets
  <2>1. FanOutTargets(route, found) \subseteq Subs
    BY DEF FanOutTargets, Deliverable, SubsOf, Subs
  <2> QED
    BY <1>12, <2>1 DEF FanOut, CountTargets, Answers
<1> QED
  BY <1>3, <1>4, <1>5, <1>6, <1>7, <1>8, <1>9, <1>10, <1>11, <1>12 DEF Handle

(* An edit leaves settings. *)
LEMMA FilterType ==
  ASSUME TypeInv, NEW r \in Routes, EditDenyAll(r) \/ \E u \in RulesOf(r) : EditRule(r, u)
  PROVE  /\ filter' \in [Routes -> [denyAll : BOOLEAN, rules : SUBSET (RulesOf("named") \cup RulesOf("root"))]]
         /\ \A q \in Routes : filter'[q].rules \subseteq RulesOf(q)
<1>1. RulesOf(r) \subseteq RulesOf("named") \cup RulesOf("root")
  BY DEF Routes
<1>2. CASE EditDenyAll(r)
  BY <1>2 DEF EditDenyAll, TypeInv, TypeOK
<1>3. ASSUME NEW u \in RulesOf(r), EditRule(r, u)
      PROVE  /\ filter' \in [Routes -> [denyAll : BOOLEAN, rules : SUBSET (RulesOf("named") \cup RulesOf("root"))]]
             /\ \A q \in Routes : filter'[q].rules \subseteq RulesOf(q)
  <2> DEFINE R == IF u \in filter[r].rules THEN filter[r].rules \ {u} ELSE filter[r].rules \cup {u}
  <2>1. R \subseteq RulesOf(r)
    BY DEF TypeInv, TypeOK
  <2>2. filter' = [filter EXCEPT ![r].rules = R]
    BY <1>3 DEF EditRule
  <2> HIDE DEF R
  <2> QED
    BY <1>1, <2>1, <2>2 DEF TypeInv, TypeOK
<1> QED
  BY <1>2, <1>3

LEMMA StepType == ASSUME TypeInv, ReadInv, [Next]_vars PROVE TypeInv'
<1>1. CASE Handle
  BY <1>1, HandleType
<1>2. CASE UNCHANGED vars
  BY <1>2 DEF vars, world, people, settings, history, handling, TypeInv, TypeOK, RulesOf, SubsOf
<1>3. ASSUME Meanwhile PROVE wanted' \subseteq Subs /\ denied' \in [Deniers -> SUBSET Subs]
  BY <1>3 DEF Meanwhile, Noted, Since, Wants, TypeInv, TypeOK
<1> DEFINE People ==
      /\ conn \in [Subs -> {"gone", "parked", "live"}]
      /\ mute \subseteq Subs /\ {bound, valid} \subseteq BOOLEAN /\ moves \in 0..MaxMoves
    Settings ==
      /\ allowed \subseteq Routes
      /\ filter \in [Routes -> [denyAll : BOOLEAN, rules : SUBSET (RulesOf("named") \cup RulesOf("root"))]]
      /\ \A r \in Routes : filter[r].rules \subseteq RulesOf(r)
      /\ edits \in 0..MaxEdits
<1>4. ASSUME Meanwhile, People', Settings' PROVE TypeInv'
  BY <1>3, <1>4 DEF Meanwhile, handling, TypeInv, TypeOK, RulesOf, SubsOf
<1>5. People /\ Settings
  BY DEF TypeInv, TypeOK
<1>6. ASSUME NEW s \in Subs, Joins(s) \/ Parks(s) \/ Leaves(s) PROVE TypeInv'
  <2>1. moves' \in 0..MaxMoves
    BY <1>5, <1>6, IngressAssumption DEF Joins, Parks, Leaves, Moves
  <2>2. conn' \in [Subs -> {"gone", "parked", "live"}]
    BY <1>5, <1>6 DEF Joins, Parks, Leaves, Moved
  <2>3. mute' \subseteq Subs
    BY <1>5, <1>6 DEF Joins, Parks, Leaves
  <2>4. {bound, valid}' \subseteq BOOLEAN
    BY <1>5, <1>6 DEF Joins, Parks, Leaves
  <2>5. Settings' /\ Meanwhile
    BY <1>5, <1>6 DEF Joins, Parks, Leaves, settings, RulesOf, SubsOf
  <2> QED
    BY <1>4, <2>1, <2>2, <2>3, <2>4, <2>5
<1>7. CASE StateLapses
  BY <1>4, <1>5, <1>7 DEF StateLapses, settings, RulesOf, SubsOf
<1>8. ASSUME NEW r \in Routes,
             EditAllowlist(r) \/ EditDenyAll(r) \/ \E u \in RulesOf(r) : EditRule(r, u)
      PROVE  TypeInv'
  <2>1. edits' \in 0..MaxEdits
    BY <1>5, <1>8, IngressAssumption DEF EditAllowlist, EditDenyAll, EditRule, Edits
  <2>2. People' /\ Meanwhile
    BY <1>5, <1>8 DEF EditAllowlist, EditDenyAll, EditRule, people
  <2>3. allowed' \subseteq Routes
    BY <1>5, <1>8 DEF EditAllowlist, EditDenyAll, EditRule
  <2>4. /\ filter' \in [Routes -> [denyAll : BOOLEAN, rules : SUBSET (RulesOf("named") \cup RulesOf("root"))]]
        /\ \A q \in Routes : filter'[q].rules \subseteq RulesOf(q)
    BY <1>5, <1>8, FilterType DEF EditAllowlist
  <2> QED
    BY <1>4, <2>1, <2>2, <2>3, <2>4 DEF RulesOf, SubsOf
<1> QED
  BY <1>1, <1>2, <1>6, <1>7, <1>8 DEF Next

(* Every variable of the ingress keeps its type, the locals of a request   *)
(* at every one of its calls included.                                     *)
THEOREM TypeCorrect == Spec => []TypeOK
<1>1. TypeInv => TypeOK
  BY DEF TypeInv
<1> QED
  BY <1>1, InitType, StepType, InductiveSettings, PTL DEF Spec

=============================================================================
