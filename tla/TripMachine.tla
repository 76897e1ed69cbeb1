---------------------------- MODULE TripMachine ----------------------------
(***************************************************************************)
(* What the trip state machine promises of every trip, whoever writes to   *)
(* it: a status changes by one legal event at a time, or by an explicit    *)
(* administrator override, and the override is on record.                  *)
(*                                                                         *)
(* TripLifecycle, where a handler reads the status in one statement and    *)
(* writes it in another, is checked to implement this specification.       *)
(***************************************************************************)
EXTENDS TripTransitions

CONSTANT Trips

VARIABLES status,      \* the status of each trip
          overridden   \* the statuses an administrator has forced on each trip

vars == <<status, overridden>>

TypeOK == /\ status \in [Trips -> Status]
          /\ overridden \in [Trips -> SUBSET Status]

\* Trips are planned before anything happens to them.
Init == /\ status = [t \in Trips |-> "planned"]
        /\ overridden = [t \in Trips |-> {}]

\* One event of the machine.
Fire(t, e) ==
  /\ e \in Available(status[t])
  /\ \E s \in Targets(e) : status' = [status EXCEPT ![t] = s]
  /\ UNCHANGED overridden

\* The depot operator's confirmation is two events in one UPDATE: the trip is
\* confirmed at the depot and completed on the operator's signature.
ConfirmAndComplete(t) ==
  /\ "CONFIRM_DELIVERY_AT_DEPOT" \in Available(status[t])
  /\ \E s \in Targets("CONFIRM_DELIVERY_AT_DEPOT") : "COMPLETE" \in Available(s)
  /\ status' = [status EXCEPT ![t] = "completed"]
  /\ UNCHANGED overridden

\* The administrator's manual override: any status, from any status.
Override(t, s) ==
  /\ status' = [status EXCEPT ![t] = s]
  /\ overridden' = [overridden EXCEPT ![t] = @ \cup {s}]

Next == \E t \in Trips : \/ \E e \in Event : Fire(t, e)
                         \/ ConfirmAndComplete(t)
                         \/ \E s \in Status : Override(t, s)

Spec == Init /\ [][Next]_vars
=============================================================================
