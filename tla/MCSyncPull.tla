----------------------------- MODULE MCSyncPull -----------------------------
(* A small instance of SyncPull for TLC: pages of two rows.                  *)
EXTENDS SyncPull

CONSTANTS t1, t2, t3, c1, c2

TwoTrips == {t1, t2}
ThreeTrips == {t1, t2, t3}
OneCycle == {c1}
TwoCycles == {c1, c2}
=============================================================================
