-------------------------- MODULE OperatorSettings --------------------------
(***************************************************************************)
(* The operator's settings in the router index: the fan-out rules and the  *)
(* mute switch of each route (src/webhook-fanout-settings-storage.ts), the *)
(* paths registered for OAuth callbacks (src/oauth-callback-path-          *)
(* storage.ts), and the two ways to edit them, the management API          *)
(* (src/management-http.ts) and the forms of the dashboard                 *)
(* (src/dashboard-http.ts).  Each handler validates and then makes one     *)
(* call, which runs in one synchronous step: an edit is one action.        *)
(*                                                                         *)
(* A path is spelled as a sequence of pieces: "/", " " and pieces of       *)
(* segments, so that "/hook" and "/hook-old" differ and share a beginning. *)
(* ".." and "*" stand for the pieces that validation refuses.              *)
(***************************************************************************)
EXTENDS FiniteSets, Naturals, SequencesExt

CONSTANTS
  Routes,
  Environments,
  Everyone,         \* environment_id '': the rule is for all subscribers
  Limit,            \* WEBHOOK_FANOUT_RULE_LIMIT
  RuleInputs,       \* [mode, path, env] as operators spell them
  CallbackInputs,   \* paths as operators spell them
  Requested         \* paths of public requests

ASSUME EveryoneAssumption == Everyone \notin Environments
ASSUME LimitAssumption == Limit \in Nat
ASSUME InputsAssumption ==
  \A x \in RuleInputs :
    /\ x.mode \in {"allow", "deny"} /\ x.env \in Environments \cup {Everyone}
    /\ x.path \in Seq(STRING)
ASSUME CallbackInputsAssumption == \A p \in CallbackInputs : p \in Seq(STRING)

\* What remains of the pathname of a URL: empty or with a slash, and spaces
\* are encoded in it.
ASSUME RequestedAssumption ==
  \A p \in Requested :
    /\ p \in Seq(STRING) /\ " " \notin Range(p)
    /\ p = <<>> \/ p[1] = "/"

VARIABLES
  rules,        \* webhook_fanout_rules: [route -> {[mode, path, env]}]
  denyAll,      \* webhook_fanout_settings: routes with deny_all_webhooks
  allowlist,    \* oauth_callback_paths: [route -> paths]
  answer        \* the last edit of a rule or path, and how it was answered

settingsVars == <<rules, denyAll, allowlist, answer>>

Sides == {"api", "dashboard"}

-----------------------------------------------------------------------------
(* Paths *)

Root == <<"/">>
NoPath == <<>>

Trim(p) ==
  LET first == SelectInSeq(p, LAMBDA t : t # " ")
  IN  IF first = 0 THEN <<>>
      ELSE SubSeq(p, first, SelectLastInSeq(p, LAMBDA t : t # " "))

\* Trimmed, with a leading slash, without trailing ones.
Normalize(p) ==
  LET t == Trim(p)
      s == IF t # <<>> /\ t[1] = "/" THEN t ELSE Root \o t
      u == SubSeq(s, 1, SelectLastInSeq(s, LAMBDA c : c # "/"))
  IN  IF u = <<>> THEN Root ELSE u

\* Normalize trims before it strips slashes, so a path that ends in a space
\* and a slash is stored as one it would not keep; no operator spells one.
ASSUME SpellingAssumption ==
  \A p \in {x.path : x \in RuleInputs} \cup CallbackInputs :
    Normalize(Normalize(p)) = Normalize(p)

\* What both validations refuse before they normalize.
WellFormed(p) ==
  /\ p # <<>> /\ p[1] = "/"
  /\ \A i \in 1..Len(p) : p[i] \notin {"..", "*"}
  /\ \A i \in 1..(Len(p) - 1) : ~(p[i] = "/" /\ p[i + 1] = "/")

\* validateWebhookFilterPath: the root is no rule, it would be the mute switch.
FilterPath(p) == IF WellFormed(p) /\ Normalize(p) # Root THEN Normalize(p) ELSE NoPath

\* validateOAuthCallbackPath
CallbackPath(p) == IF WellFormed(p) THEN Normalize(p) ELSE NoPath

\* remainingPathMatchesWebhookPrefix
UnderAnyPrefix(path, prefix) ==                                    \* mutant
  IsPrefix(Normalize(prefix), Normalize(path))

Under(path, prefix) ==
  LET p == Normalize(path)
      q == Normalize(prefix)
  IN  q # Root /\ (p = q \/ IsPrefix(q \o Root, p))

-----------------------------------------------------------------------------
(* Who gets a webhook, who takes a callback *)

Applicable(route, env, mode) ==
  {x \in rules[route] : x.mode = mode /\ x.env \in {Everyone, env}}

\* Tabulated, so that TLC computes it once.
Subtree == [prefix \in {Normalize(x.path) : x \in RuleInputs} |->
              {path \in Requested : Under(path, prefix)}]

\* selectWebhookFanoutSubscribers, for a subscriber that accepts webhooks.
Selected(route, env, path) ==
  LET allows == Applicable(route, env, "allow")
      denies == Applicable(route, env, "deny")
  IN  /\ route \notin denyAll
      /\ allows = {} \/ \E x \in allows : path \in Subtree[x.path]
      /\ \A x \in denies : path \notin Subtree[x.path]

\* isAllowlistedOAuthCallbackPath
Allowlisted(route, path) ==
  \E p \in allowlist[route] : Normalize(p) = Normalize(path)

-----------------------------------------------------------------------------
(* Fan-out rules *)

\* The dashboard trims the fields of a form, and answers every one with a
\* redirect; the API takes the body as it is and passes the error on.
Submitted(side, p) == IF side = "dashboard" THEN Trim(p) ELSE p

Answered(op, route, input, side, told) ==
  answer' = [op |-> op, route |-> route, input |-> input,
             told |-> IF side = "dashboard" THEN "redirect" ELSE told]

Stored(x, path) == [mode |-> x.mode, path |-> path, env |-> x.env]

OneTooMany(route, x) ==                                            \* mutant
  x \notin rules[route] /\ Cardinality(rules[route]) > Limit

CountsAgain(route, x) == Cardinality(rules[route]) >= Limit        \* mutant

\* The 33rd distinct rule is refused; an upsert of an existing one is not.
Full(route, x) == x \notin rules[route] /\ Cardinality(rules[route]) >= Limit

UpsertRule(route, x, side) ==
  LET path == FilterPath(Submitted(side, x.path))
      rule == Stored(x, path)
  IN  /\ \/ /\ path = NoPath
            /\ UNCHANGED rules
            /\ Answered("add", route, x, side, "invalid")
         \/ /\ path # NoPath /\ Full(route, rule)
            /\ UNCHANGED rules
            /\ Answered("add", route, x, side, "limit")
         \/ /\ path # NoPath /\ ~Full(route, rule)
            /\ rules' = [rules EXCEPT ![route] = @ \cup {rule}]
            /\ Answered("add", route, x, side, "ok")
      /\ UNCHANGED <<denyAll, allowlist>>

\* A path that is none, and one that has no rule, are both not found.
DeleteRule(route, x, side) ==
  LET rule == Stored(x, FilterPath(Submitted(side, x.path))) IN
  /\ rules' = [rules EXCEPT ![route] = @ \ {rule}]
  /\ Answered("remove", route, x, side,
              IF rule \in rules[route] THEN "ok" ELSE "not_found")
  /\ UNCHANGED <<denyAll, allowlist>>

SetDenyAll(route, on) ==
  /\ denyAll' = IF on THEN denyAll \cup {route} ELSE denyAll \ {route}
  /\ UNCHANGED <<rules, allowlist, answer>>

\* clearWebhookFanout
ClearFanout ==
  /\ rules' = [r \in Routes |-> {}]
  /\ denyAll' = {}
  /\ UNCHANGED <<allowlist, answer>>

-----------------------------------------------------------------------------
(* Callback paths *)

AddCallbackPath(route, p, side) ==
  LET path == CallbackPath(Submitted(side, p)) IN
  /\ allowlist' = IF path = NoPath THEN allowlist
                  ELSE [allowlist EXCEPT ![route] = @ \cup {path}]
  /\ Answered("register", route, p, side, IF path = NoPath THEN "invalid" ELSE "ok")
  /\ UNCHANGED <<rules, denyAll>>

\* Both sides validate; deleteOAuthCallbackPath itself only normalizes.
RemoveCallbackPath(route, p, side) ==
  LET path == CallbackPath(Submitted(side, p)) IN
  /\ allowlist' = [allowlist EXCEPT ![route] = @ \ {path}]
  /\ Answered("unregister", route, p, side,
              IF path = NoPath THEN "invalid"
              ELSE IF path \in allowlist[route] THEN "ok" ELSE "not_found")
  /\ UNCHANGED <<rules, denyAll>>

-----------------------------------------------------------------------------

SettingsInit ==
  /\ rules = [r \in Routes |-> {}]
  /\ denyAll = {}
  /\ allowlist = [r \in Routes |-> {}]
  /\ answer = [op |-> "none"]

SettingsNext ==
  \E route \in Routes :
    \/ \E x \in RuleInputs, side \in Sides :
         UpsertRule(route, x, side) \/ DeleteRule(route, x, side)
    \/ \E p \in CallbackInputs, side \in Sides :
         AddCallbackPath(route, p, side) \/ RemoveCallbackPath(route, p, side)
    \/ \E on \in BOOLEAN : SetDenyAll(route, on)
    \/ ClearFanout

SettingsSpec == SettingsInit /\ [][SettingsNext]_settingsVars

-----------------------------------------------------------------------------
(* Properties.  A path is its segments: the pieces between the slashes. *)

\* Where a segment ends: at the next slash, or after the last piece.
Ends(p) == {i \in 1..Len(p) : p[i] = "/"} \cup {Len(p) + 1}

\* The k-th number of S, from below.
Nth(S, k) == CHOOSE i \in S : Cardinality({j \in S : j <= i}) = k

\* What follows each slash, up to the next.
Cut(p) ==
  [k \in 1..(Cardinality(Ends(p)) - 1) |->
     SubSeq(p, Nth(Ends(p), k) + 1, Nth(Ends(p), k + 1) - 1)]

\* Every path there is, as it was spelled and as it is stored.
Paths ==
  LET spelled == {x.path : x \in RuleInputs} \cup CallbackInputs \cup Requested
  IN  spelled \cup {Normalize(p) : p \in spelled}

\* The segments of a path, without the empty ones that slashes at its end leave.
Segments ==
  [p \in Paths |->
     LET cut == Cut(Trim(p))
     IN  SubSeq(cut, 1, SelectLastInSeq(cut, LAMBDA s : s # <<>>))]

\* What a side may take for a path: it begins with a slash, no segment but
\* the last is empty, and none is refused.
Proper ==
  [side \in Sides |->
     {p \in Paths :
        LET q == Submitted(side, p)
            cut == Cut(Trim(p))
        IN  /\ q # <<>> /\ Head(q) = "/"
            /\ \A k \in 1..(Len(cut) - 1) : cut[k] # <<>>
            /\ {"..", "*"} \cap Range(p) = {}}]

AsPolicy(x, p) == [mode |-> x.mode, under |-> Segments[p], env |-> x.env]

\* The last edit as FanoutPolicy sees it.
AsRequest ==
  LET isRule == answer.op \in {"add", "remove"}
      p == IF isRule THEN answer.input.path ELSE answer.input
      side == IF answer.told = "redirect" THEN "dashboard" ELSE "api"
  IN  IF answer.op = "none" THEN answer
      ELSE IF p \notin Proper[side] \/ (isRule /\ Segments[p] = <<>>)
      THEN [op |-> "invalid", told |-> answer.told]
      ELSE IF isRule
      THEN [op |-> answer.op, route |-> answer.route, told |-> answer.told,
            rule |-> AsPolicy(answer.input, p)]
      ELSE [op |-> answer.op, route |-> answer.route, told |-> answer.told,
            path |-> Segments[p]]

Policy == INSTANCE FanoutPolicy WITH
  policy <- [r \in Routes |-> {AsPolicy(x, x.path) : x \in rules[r]}],
  muted <- denyAll,
  callbacks <- [r \in Routes |-> {Segments[p] : p \in allowlist[r]}],
  last <- AsRequest

\* However a path is spelled, it names one rule: spellings of a rule count
\* once towards the limit, an existing rule is granted at the limit, a removal
\* finds the rule under any spelling, what is no path is never stored, and the
\* API tells what was done.
SettingsKeepPolicy == Policy!PSpec

\* The prefixes of the code select what the policy says of segments:
\* "/webhooks/mews" takes "/webhooks/mews/x" and not "/webhooks/mews-backup"
\* (plans/webhook-fanout-filters.md:33), for all rules in force together, and
\* a registered callback path takes its own path only.
SelectionIsPolicy ==
  \A r \in Routes, p \in Requested :
    /\ \A env \in Environments \cup {Everyone} :
         Selected(r, env, p) = Policy!Gets(r, env, Segments[p])
    /\ Allowlisted(r, p) = Policy!TakesCallback(r, Segments[p])

\* No sequence of edits, from either side, under any spelling, stores more
\* rules for a route than the limit, nor one that would be the mute switch.
RulesWithinLimit ==
  \A r \in Routes :
    /\ IsFiniteSet(rules[r]) /\ Cardinality(rules[r]) <= Limit
    /\ \A x \in rules[r] : x.path \notin {Root, NoPath}
=============================================================================
