CONSTANTS
  h1 = h1
  h2 = h2
  t1 = t1
  t2 = t2
  NoTrip = NoTrip
  Slots <- TwoSlots
  Trips <- TwoTrips
  Capacity = 2
  Largest = 2
  MaxBales = 2
  MaxCorrections = 1
SPECIFICATION Spec
SYMMETRY Alike
INVARIANTS
  SerialLoadsFit
  OverdraftBounded
  EmptiedFieldIsCompleted
  IInv
