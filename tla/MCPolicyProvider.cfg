\* Two goroutines contend for one host whose policy may never exist.
SPECIFICATION Spec
CONSTANTS
  r1 = r1
  r2 = r2
  h1 = h1
  Hosts <- OneHost
  Requests <- TwoRequests
  TTL = 2
  FailBehavior = "use_stale_then_fail_open"
  NoHost = NoHost
  NoLock = NoLock
  MaxClock = 3
  MaxRevision = 2
INVARIANTS
  TypeOK
  SingleFlight
  BoundedStaleness
  MonotoneReads
PROPERTIES
  RefreshOnlyExpired
  ViewSafety
  LookupReturns
