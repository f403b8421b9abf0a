\* Two requests on gateways whose clocks and fail modes differ, a
\* counting rule before a blocking one.
SPECIFICATION Spec
CONSTANTS
  r1 = r1
  r2 = r2
  k1 = k1
  Requests <- TwoRequests
  Keys <- OneKey
  Rules <- CountThenBlock
  FailMode <- OneClosed
  Skew <- OneAhead
  MaxSkew = 1
  MaxClock = 3
  MaxRestarts = 1
INVARIANTS
  AdmissionBound
  NoEarlyRefusal
  BlockRulesChecked
PROPERTIES
  EvaluationEnds
CHECK_DEADLOCK FALSE
