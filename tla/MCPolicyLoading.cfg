\* Documents with every small condition, and every frame around one.
SPECIFICATION Spec
CONSTANTS
  Drafts <- AllDrafts
  Conditions <- AllConditions
  Height <- Heights
INVARIANTS
  EvaluationFaithful
  RefusedOnlyUnchecked
