CONSTANTS
  foreground = foreground
  background = background
  Managers <- OneManager
  Steps <- RoadSteps
  Refusable = {}
  OtherEvents = {}
  Start = "loaded"
  MaxLosses = 1
  MaxRetries = 1
  MaxCrashes = 0
SPECIFICATION Spec
INVARIANTS
  NoStepDropped
