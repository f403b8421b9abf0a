\* One policy, three clients: patches and publications that overlap.
SPECIFICATION Safety
CONSTANTS
  s1 = s1  s2 = s2  s3 = s3
  a1 = a1  p1 = p1  p2 = p2  o1 = o1  o2 = o2
  Sessions = {s1, s2, s3}
  Apps = {a1}
  Policies = {p1}
  Hosts = {"h1"}
  Spellings <- OneSpelling
  Origins = {o1}
  AppOf <- OneApp
  Drafts <- GoodBad
  ValidDrafts <- OnlyGood
  AppPatches <- NoPatches
  PolicyPatches <- DraftPatches
  MaxClock = 5
  None = None
SYMMETRY SessionSymmetry
INVARIANTS
  TablesConsistent
  NoLostDraft
  PublishIsolated
  PublishedValid
