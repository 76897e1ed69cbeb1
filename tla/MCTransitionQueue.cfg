CONSTANTS
  foreground = foreground
  background = background
  Managers <- OneManager
  Steps <- DeliverySteps
  Refusable = {}
  OtherEvents = {}
  Start = "in_transit"
  MaxLosses = 1
  MaxRetries = 1
  MaxCrashes = 0
SPECIFICATION Spec
INVARIANTS
  TypeOK
PROPERTIES
  DroppedOnlyBehindAGap
