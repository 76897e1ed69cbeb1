---------------------------- MODULE MCSyncPush ----------------------------
(* Small instances of SyncPush for TLC: one record, one or two cycles.     *)
EXTENDS SyncPush

CONSTANTS foreground, background

OneManager == {foreground}
TwoManagers == {foreground, background}
=============================================================================
