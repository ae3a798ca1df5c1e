SPECIFICATION StoreSpec
CONSTANTS
  Events = {1, 2, 3, 4}
  Cap = 2
  Retention = 1
  MaxTime = 3
  Routes = {r1, r2}
  Environments = {"e1"}
  Everyone = "everyone"
  Limit = 2
  RuleInputs <- MCRuleInputs
  CallbackInputs <- MCCallbackInputs
  Requested <- MCRequested
SYMMETRY RouteSymmetry
INVARIANTS ListsTheNewest EachEventOnce SelectionIsPolicy RulesWithinLimit
PROPERTIES SettingsKeepPolicy
CHECK_DEADLOCK FALSE
