CONSTANTS
  k1 = k1
  k2 = k2
  a1 = a1
  a2 = a2
  h1 = h1
  h2 = h2
  None = None
  Trucks <- TwoTrucks
  Tasks <- TwoTasks
  Handlers <- TwoHandlers
  MaxTrips = 2
  MaxJobs = 4
  MaxDeaths = 0
SPECIFICATION Spec
INVARIANTS
  CancelledHasNoLiveTrip
CHECK_DEADLOCK FALSE
