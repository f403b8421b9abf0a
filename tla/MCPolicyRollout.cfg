\* One policy, three changes of what the API serves, two lookups in flight.
SPECIFICATION RolloutSpec
CONSTANTS
  s1 = s1  a1 = a1  p1 = p1  o1 = o1  r1 = r1  r2 = r2
  Sessions = {s1}
  Apps = {a1}
  Policies = {p1}
  Hosts = {"h1"}
  Spellings <- StoredHosts
  Origins = {o1}
  AppOf <- OneApp
  Drafts <- TwoDrafts
  ValidDrafts <- TwoDrafts
  AppPatches <- Switches
  PolicyPatches <- NewDrafts
  MaxClock = 3
  None = None
  Requests = {r1, r2}
  RequestHosts <- PortHost
  Unloadable = {"r1"}
  TTL = 1
  FailBehavior = "fail_closed"
  MaxTime = 1
  MaxChanges = 3
CHECK_DEADLOCK FALSE
INVARIANTS
  ServedForward
  RolloutBounded
  ServedLoads
