\* A request without a policy under fail_open.
SPECIFICATION Spec
CONSTANTS
  Lookups = {"found", "stale", "fail_open", "fail_closed", "unknown_host"}
  RuleLists <- NoRules
  Priorities = 2
  RuleStatuses = {0, 429}
INVARIANTS
  FailOpenAllows
