CONSTANTS
  h1 = h1
  h2 = h2
  Handlers <- TwoHandlers
  Deployments = {1}
  Forced = {}
  MaxAttempts = 2
  MaxFaults = 1
SPECIFICATION FairSpec
INVARIANTS
  InstalledMeansRuns
  OfferIsNewer
PROPERTIES
  RolloutEnds
