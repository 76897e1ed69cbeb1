--------------------------- MODULE MCAuxTransport ---------------------------
(* A small instance of AuxTransport for TLC.                                *)
EXTENDS AuxTransport

CONSTANTS k1, k2, a1, a2, h1, h2

TwoTrucks == {k1, k2}
TwoTasks == {a1, a2}
TwoHandlers == {h1, h2}
=============================================================================
