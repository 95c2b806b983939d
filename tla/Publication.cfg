SPECIFICATION Spec
CONSTANTS
  None = None
  Backlog = 2
  MaxRevision = 3
  MaxPolicy = 1
  MaxPlugins = 1
  MaxFaults = 2
INVARIANTS
  GatewayAndCatalogAgree
  RollBackKeepsPluginChanges
  PublishedIsAnnounced
  AudienceRevisionsIdentify
PROPERTIES
  EveryCandidateIsPublished
CHECK_DEADLOCK FALSE
