CONSTANTS
  foreground = foreground
  background = background
  Nobody = Nobody
  Managers <- TwoManagers
  HasReceipt = TRUE
  MaxLosses = 2
  MaxDeaths = 2
  MaxRetries = 4
SPECIFICATION Spec
INVARIANTS
  DoneMeansUpToDate
  DoneMeansStored
  IInv
CHECK_DEADLOCK FALSE
