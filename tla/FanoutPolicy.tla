---------------------------- MODULE FanoutPolicy ----------------------------
(***************************************************************************)
(* What an operator is promised of a route's settings, in the words of     *)
(* src/plans/webhook-fanout-filters.md: at most Limit rules, each of a     *)
(* subtree of paths and of one environment or all; a switch that mutes the *)
(* route; a list of paths that take OAuth callbacks.  A path is the        *)
(* sequence of its segments, however it was spelled, and every request is  *)
(* answered for what it asks.                                              *)
(***************************************************************************)
EXTENDS FiniteSets, Naturals, SequencesExt

CONSTANTS
  Routes, Everyone,
  Limit         \* rules of one route

VARIABLES
  policy,     \* [route -> {[mode, under, env]}]
  muted,      \* routes whose webhooks nobody gets
  callbacks,  \* [route -> paths registered for OAuth callbacks]
  last        \* the last request to add or remove, and what its sender was told

pvars == <<policy, muted, callbacks, last>>

\* A dashboard form is answered with a redirect, whatever came of it.
Told(how) == last'.told \in {how, "redirect"}

AddRule ==
  LET r == last'.route IN
  /\ last'.op = "add" /\ Told("ok")
  /\ last'.rule \in policy[r] \/ Cardinality(policy[r]) < Limit
  /\ policy' = [policy EXCEPT ![r] = @ \cup {last'.rule}]
  /\ UNCHANGED <<muted, callbacks>>

RefuseRule ==
  /\ last'.op = "add" /\ Told("limit")
  /\ last'.rule \notin policy[last'.route]
  /\ Cardinality(policy[last'.route]) >= Limit
  /\ UNCHANGED <<policy, muted, callbacks>>

RemoveRule ==
  LET r == last'.route IN
  /\ last'.op = "remove"
  /\ Told(IF last'.rule \in policy[r] THEN "ok" ELSE "not_found")
  /\ policy' = [policy EXCEPT ![r] = @ \ {last'.rule}]
  /\ UNCHANGED <<muted, callbacks>>

Mute == \E r \in Routes :
  /\ muted' \in {muted \cup {r}, muted \ {r}}
  /\ UNCHANGED <<policy, callbacks, last>>

Register ==
  /\ last'.op = "register" /\ Told("ok")
  /\ callbacks' = [callbacks EXCEPT ![last'.route] = @ \cup {last'.path}]
  /\ UNCHANGED <<policy, muted>>

Unregister ==
  LET r == last'.route IN
  /\ last'.op = "unregister"
  /\ Told(IF last'.path \in callbacks[r] THEN "ok" ELSE "not_found")
  /\ callbacks' = [callbacks EXCEPT ![r] = @ \ {last'.path}]
  /\ UNCHANGED <<policy, muted>>

\* A path that is none is never stored.
Reject ==
  /\ last'.op = "invalid"
  /\ UNCHANGED <<policy, muted, callbacks>>

Reset ==
  /\ policy' = [r \in Routes |-> {}] /\ muted' = {}
  /\ UNCHANGED <<callbacks, last>>

PInit ==
  /\ policy = [r \in Routes |-> {}] /\ muted = {}
  /\ callbacks = [r \in Routes |-> {}]
  /\ last.op = "none"

PNext ==
  \/ AddRule \/ RefuseRule \/ RemoveRule
  \/ Mute
  \/ Register \/ Unregister
  \/ Reject
  \/ Reset

PSpec == PInit /\ [][PNext]_pvars

-----------------------------------------------------------------------------
(* What the settings mean *)

Applies(x, env) == x.env \in {Everyone, env}
Of(r, env, mode) == {x \in policy[r] : x.mode = mode /\ Applies(x, env)}

\* "skip" and "only": not under a denied path, and under an allowed one if
\* there is any.
Gets(r, env, path) ==
  /\ r \notin muted
  /\ Of(r, env, "allow") = {} \/ \E x \in Of(r, env, "allow") : IsPrefix(x.under, path)
  /\ \A x \in Of(r, env, "deny") : ~IsPrefix(x.under, path)

TakesCallback(r, path) == path \in callbacks[r]
=============================================================================
