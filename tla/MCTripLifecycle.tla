-------------------------- MODULE MCTripLifecycle --------------------------
(* Small instances of TripLifecycle for TLC.                                *)
EXTENDS TripLifecycle, TLC

CONSTANTS t1, r1, r2, d1, d2

OneTrip == {t1}
TwoRequests == {r1, r2}
TwoDepots == {d1, d2}
OneDepot == {d1}
UnitLoads == {1}
\* The administrator's commands that race with the state machine alone.
LoadAndOverride == (Op \ Command) \cup {"FORCE_STATUS", "BALE_LOAD"}

RequestSymmetry == Permutations(TwoRequests)
=============================================================================
