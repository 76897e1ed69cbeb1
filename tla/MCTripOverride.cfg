CONSTANTS
  t1 = t1
  r1 = r1
  r2 = r2
  d1 = d1
  d2 = d2
  None = None
  Trips <- OneTrip
  Requests <- TwoRequests
  Depots <- OneDepot
  Sizes <- UnitLoads
  MaxBales = 1
  MaxOverrides = 1
  MayDie = FALSE
  Ops <- LoadAndOverride
SPECIFICATION Spec
SYMMETRY RequestSymmetry
INVARIANTS
  NoPhantomLoad
  IInv
PROPERTIES
  ImplementsMachine
CHECK_DEADLOCK FALSE
