--------------------------- MODULE MCParcelStock ---------------------------
(* A small instance of ParcelStock for TLC: two handlers, two trips.       *)
EXTENDS ParcelStock, TLC

CONSTANTS h1, h2, t1, t2

TwoSlots == {h1, h2}
TwoTrips == {t1, t2}
Alike == Permutations(TwoSlots) \cup Permutations(TwoTrips)
=============================================================================
