\* One app, a client that replaces its origin.
SPECIFICATION Safety
CONSTANTS
  s1 = s1  s2 = s2  s3 = s3
  a1 = a1  p1 = p1  p2 = p2  o1 = o1  o2 = o2
  Sessions = {s1, s2}
  Apps = {a1}
  Policies = {p1}
  Hosts = {"h1"}
  Spellings <- OneSpelling
  Origins = {o1, o2}
  AppOf <- OneApp
  Drafts <- OnlyGood
  ValidDrafts <- OnlyGood
  AppPatches <- StatusHostOrigin
  PolicyPatches <- NoPatches
  MaxClock = 4
  None = None
SYMMETRY SessionSymmetry
PROPERTIES
  OriginReplaced
