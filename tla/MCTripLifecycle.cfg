CONSTANTS
  t1 = t1
  r1 = r1
  r2 = r2
  d1 = d1
  d2 = d2
  None = None
  Trips <- OneTrip
  Requests <- TwoRequests
  Depots <- TwoDepots
  Sizes <- UnitLoads
  MaxBales = 2
  MaxOverrides = 0
  MayDie = TRUE
  Ops <- Op
SPECIFICATION FairSpec
INVARIANTS
  EvidenceComplete
  CompletedHasDocument
  BaleCountCovered
PROPERTIES
  DestinationFrozen
  FinalDocumentQueued
CHECK_DEADLOCK FALSE
