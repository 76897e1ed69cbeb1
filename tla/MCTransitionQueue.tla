-------------------------- MODULE MCTransitionQueue --------------------------
(* Small instances of TransitionQueue for TLC: one phone, one trip.          *)
EXTENDS TransitionQueue

CONSTANTS foreground, background

OneManager == {foreground}
TwoManagers == {foreground, background}
RoadSteps == {"depart", "arrive"}
DeliverySteps == DriverSteps \ {"depart"}
=============================================================================
