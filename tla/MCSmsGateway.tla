---------------------------- MODULE MCSmsGateway ----------------------------
(* A small instance of SmsGateway for TLC: one message, one command.         *)
EXTENDS SmsGateway

CONSTANTS m1, c1, l1, l2, h1, h2

OneMessage == {m1}
OneCommand == {c1}
TwoLoops == {l1, l2}
TwoHandlers == {h1, h2}
=============================================================================
