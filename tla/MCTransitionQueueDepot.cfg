CONSTANTS
  foreground = foreground
  background = background
  Managers <- TwoManagers
  Steps <- DepotSteps
  Refusable <- DepotSteps
  OtherEvents = {"CANCEL"}
  Start = "arrived"
  MaxLosses = 1
  MaxRetries = 0
  MaxCrashes = 1
SPECIFICATION FairSpec
INVARIANTS
  InOrderOnce
PROPERTIES
  DueRowsGetAnswered
  PhoneHeals
