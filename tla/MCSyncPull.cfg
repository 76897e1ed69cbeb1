CONSTANTS
  t1 = t1
  t2 = t2
  t3 = t3
  c1 = c1
  c2 = c2
  Trips <- ThreeTrips
  Cycles <- TwoCycles
  Limit = 2
  MaxVersion = 5
  MaxFaults = 2
SPECIFICATION FairSpec
INVARIANTS
  NothingPassedOver
  IInv
PROPERTIES
  OpenTripArrives
  HistoryArrives
