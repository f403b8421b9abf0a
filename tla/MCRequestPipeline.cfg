\* Every outcome of every check; lists of two and some of three custom rules;
\* statuses at the edges of what WriteHeader refuses and what it holds for informational.
SPECIFICATION Spec
CONSTANTS
  Lookups = {"found", "stale", "fail_open", "fail_closed", "unknown_host"}
  RuleLists <- UpToThreeRules
  Priorities = 2
  RuleStatuses = {0, 99, 100, 101, 199}
INVARIANTS
  VerdictMatches
  DenialHolds
  EventTruthful
  AuditedOnce
