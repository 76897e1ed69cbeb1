---------------------------- MODULE ExternalTrip ----------------------------
(***************************************************************************)
(* What the trip of an external haulier promises to those who look at it,  *)
(* whatever handlers are at work on it: it is planned once, loaded from     *)
(* there, its driver gets one link and only after the load, hands in one    *)
(* document, and on that document the trip is completed.                    *)
(*                                                                         *)
(* An administrator may set any status, "completed" with no document among  *)
(* them.  What was forced on a trip is on record: a trip that is completed   *)
(* has its document or "completed" was forced on it.                        *)
(*                                                                         *)
(* AuxTransport, where each of these is a handler of several statements    *)
(* and transactions, implements this specification.                        *)
(***************************************************************************)
CONSTANT Trips

VARIABLES stage,   \* the status of each trip, "none" before it is planned
          live,    \* whether the trip is there: not withdrawn
          linked,  \* how many links its driver was sent
          papers,  \* how many documents its driver handed in
          forced   \* the statuses an administrator forced on each trip

vars == <<stage, live, linked, papers, forced>>

Stage == {"none", "planned", "loaded", "completed", "cancelled"}

Init == /\ stage = [t \in Trips |-> "none"]
        /\ live = [t \in Trips |-> FALSE]
        /\ linked = [t \in Trips |-> 0] /\ papers = [t \in Trips |-> 0]
        /\ forced = [t \in Trips |-> {}]

Becomes(t, s) == stage' = [stage EXCEPT ![t] = s]

\* A trip that was forced to a status may have in it what led there or not.
Stands(t, stages) == stage[t] \in stages \/ stage[t] \in forced[t]

Plan(t) ==
  /\ stage[t] = "none"
  /\ Becomes(t, "planned")
  /\ live' = [live EXCEPT ![t] = TRUE]
  /\ UNCHANGED <<linked, papers, forced>>

Load(t) ==
  /\ live[t] /\ stage[t] = "planned"
  /\ Becomes(t, "loaded")
  /\ UNCHANGED <<live, linked, papers, forced>>

\* Whatever the trip has become, if it was ever planned.
Override(t) ==
  /\ stage[t] # "none"
  /\ \E s \in Stage \ {"none"} :
       /\ forced' = [forced EXCEPT ![t] = @ \cup {s}]
       /\ Becomes(t, s)
  /\ UNCHANGED <<live, linked, papers>>

SendLink(t) ==
  /\ Stands(t, {"loaded", "completed", "cancelled"}) /\ linked[t] = 0
  /\ linked' = [linked EXCEPT ![t] = 1]
  /\ UNCHANGED <<stage, live, papers, forced>>

\* A cancelled trip's driver may still sign: the goods may be on the road.
Sign(t) ==
  /\ live[t] /\ Stands(t, {"loaded", "cancelled"}) /\ papers[t] = 0
  /\ papers' = [papers EXCEPT ![t] = 1]
  /\ UNCHANGED <<stage, live, linked, forced>>

Complete(t) ==
  /\ stage[t] = "loaded" /\ papers[t] = 1
  /\ Becomes(t, "completed")
  /\ UNCHANGED <<live, linked, papers, forced>>

\* The arrival document completes the trip at once.
Deliver(t) ==
  /\ stage[t] = "loaded" /\ papers[t] = 0
  /\ papers' = [papers EXCEPT ![t] = 1]
  /\ Becomes(t, "completed")
  /\ UNCHANGED <<live, linked, forced>>

Cancel(t) ==
  /\ live[t] /\ stage[t] \in {"planned", "loaded"}
  /\ Becomes(t, "cancelled")
  /\ UNCHANGED <<live, linked, papers, forced>>

\* Trips are taken back, with their request or alone.
Withdraw(trips) ==
  /\ live' = [t \in Trips |-> live[t] /\ t \notin trips]
  /\ UNCHANGED <<stage, linked, papers, forced>>

Next == \/ \E t \in Trips : \/ Plan(t) \/ Load(t) \/ Override(t) \/ SendLink(t) \/ Sign(t)
                            \/ Complete(t) \/ Deliver(t) \/ Cancel(t)
        \/ \E trips \in SUBSET Trips : Withdraw(trips)

Spec == Init /\ [][Next]_vars
=============================================================================
