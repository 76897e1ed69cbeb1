-------------------------- MODULE TripTransitions --------------------------
(***************************************************************************)
(* The shared trip state machine of packages/domain: the ten statuses, the *)
(* thirteen events, and the table that the backend consults before every   *)
(* write (getAvailableTransitions).  The targets are those of the XState   *)
(* machine in the same file.                                               *)
(***************************************************************************)

Status == {"planned", "loading", "loaded", "in_transit", "arrived",
           "delivering", "delivered", "completed", "cancelled", "disputed"}

Event == {"START_LOADING", "COMPLETE_LOADING", "REGISTER_LOAD", "DEPART",
          "ARRIVE", "START_DELIVERY", "CONFIRM_DELIVERY", "COMPLETE",
          "START_DEPOT_UNLOAD", "CONFIRM_DELIVERY_AT_DEPOT", "CANCEL",
          "DISPUTE", "RESOLVE_DISPUTE"}

\* transitionMap: the events a trip in status s accepts.
Available(s) ==
  CASE s = "planned"    -> {"START_LOADING", "REGISTER_LOAD", "CANCEL"}
    [] s = "loading"    -> {"COMPLETE_LOADING", "REGISTER_LOAD", "CANCEL"}
    [] s = "loaded"     -> {"DEPART", "CANCEL"}
    [] s = "in_transit" -> {"ARRIVE", "START_DEPOT_UNLOAD",
                            "CONFIRM_DELIVERY_AT_DEPOT", "CANCEL"}
    [] s = "arrived"    -> {"START_DELIVERY", "START_DEPOT_UNLOAD",
                            "CONFIRM_DELIVERY_AT_DEPOT", "CANCEL"}
    [] s = "delivering" -> {"CONFIRM_DELIVERY", "CONFIRM_DELIVERY_AT_DEPOT", "CANCEL"}
    [] s = "delivered"  -> {"COMPLETE", "DISPUTE", "CANCEL"}
    [] s = "completed"  -> {"DISPUTE"}
    [] s = "disputed"   -> {"RESOLVE_DISPUTE"}
    [] OTHER            -> {}

\* The statuses an event may lead to.  A dispute is resolved either way; the
\* other events have one target.
Targets(e) ==
  CASE e = "START_LOADING"                        -> {"loading"}
    [] e \in {"COMPLETE_LOADING", "REGISTER_LOAD"} -> {"loaded"}
    [] e = "DEPART"                               -> {"in_transit"}
    [] e = "ARRIVE"                               -> {"arrived"}
    [] e \in {"START_DELIVERY", "START_DEPOT_UNLOAD"} -> {"delivering"}
    [] e \in {"CONFIRM_DELIVERY", "CONFIRM_DELIVERY_AT_DEPOT"} -> {"delivered"}
    [] e = "COMPLETE"                             -> {"completed"}
    [] e = "CANCEL"                               -> {"cancelled"}
    [] e = "DISPUTE"                              -> {"disputed"}
    [] OTHER                                      -> {"delivered", "completed"}
=============================================================================
