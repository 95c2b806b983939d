SPECIFICATION ManifestSpec
CONSTANTS
  Services = {s1, s2}
  Manifests = {m1, m2, m3}
  Requests = {q1, q2}
  Backlog = 2
  MaxServices = 2
  MaxRequests = 1
  MaxCleanup = 2
  MaxRevision = 4
INVARIANTS
  NothingPilesUp
PROPERTIES
  ImplementsPublishedSet
CHECK_DEADLOCK FALSE
