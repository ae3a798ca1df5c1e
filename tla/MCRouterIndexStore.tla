------------------------- MODULE MCRouterIndexStore -------------------------
(* Small instances of the tables of the router index for TLC. *)
EXTENDS EventLog, OperatorSettings

At(segments) == FoldLeft(LAMBDA p, s : p \o <<"/">> \o s, <<>>, segments)

Hook == At(<<<<"hook">>>>)
HookA == At(<<<<"hook">>, <<"a">>>>)
Old == At(<<<<"hook", "-old">>>>)

Rule(mode, path, env) == [mode |-> mode, path |-> path, env |-> env]

MCRuleInputs ==
  { Rule("allow", Hook, Everyone), Rule("allow", Hook \o <<"/">>, Everyone),
    Rule("deny", HookA, "e1"), Rule("deny", <<" ">> \o HookA \o <<"/", " ">>, "e1"),
    Rule("allow", Old, "e1"), Rule("deny", <<"/">>, Everyone) }

MCCallbackInputs == { Hook, Hook \o <<"/">>, <<"/", "*">> }

MCRequested ==
  { <<>>, <<"/">>, Hook, Hook \o <<"/">>, HookA, HookA \o <<"/", "b">>, Old,
    Old \o HookA, <<"/">> \o Hook, Hook \o <<"/", "/", "a">> }

RouteSymmetry == Permutations(Routes)

-----------------------------------------------------------------------------
(* One table at a time: the log, or the filters, or the callback paths.      *)
(* They share no variable but `answer', which each edit sets anew, and no    *)
(* operation, so every step of one commutes with every step of another.      *)

StoreInit == LogInit /\ SettingsInit

SettingsUntouched == answer.op = "none" /\ denyAll = {}

OneTable ==
  \/ \A r \in Routes : allowlist[r] = {}
  \/ denyAll = {} /\ \A r \in Routes : rules[r] = {}

StoreNext ==
  \/ LogNext /\ SettingsUntouched /\ UNCHANGED settingsVars
  \/ SettingsNext /\ OneTable' /\ logged = {} /\ clock = 0 /\ UNCHANGED logVars

StoreSpec == StoreInit /\ [][StoreNext]_<<logVars, settingsVars>>
=============================================================================
