\* Two tenants, one of them not yet there; any request, up to four writes.
SPECIFICATION Spec
CONSTANTS
  Tenants = {"t1", "t2"}
  Existing = {"t1"}
  Slugs = {"s"}
  AdminKey = "admin"
  GatewayKey = "gateway"
  Requests <- AllRequests
  NewEvents <- FewEvents
  MaxWrites = 4
  DefaultLimit = 1
  MaxLimit = 4
  BodyRows = 3
  SampleMax = 1
  TopMax = 1
  Unknown = 2
  None = None
INVARIANTS
  Isolation
  AccessHeld
  AnswerTruthful
  SearchExact
  SummaryExact
