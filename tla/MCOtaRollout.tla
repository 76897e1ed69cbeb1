---------------------------- MODULE MCOtaRollout ----------------------------
(* A small instance of OtaRollout for TLC: one phone, one or two releases.   *)
EXTENDS OtaRollout

CONSTANTS h1, h2

TwoHandlers == {h1, h2}
=============================================================================
