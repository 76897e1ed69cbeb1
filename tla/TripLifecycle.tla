--------------------------- MODULE TripLifecycle ---------------------------
(***************************************************************************)
(* TripsService (backend/service/src/trips/trips.service.ts): the handlers *)
(* that move an own-fleet trip through its life.                           *)
(*                                                                         *)
(* A handler is not one atomic step.  findById reads the row in one        *)
(* statement, the handler validates what it read, and an UPDATE guarded by *)
(* the status it read writes the row; other handlers run in between.  A    *)
(* slot of req holds what a handler in flight has read: Read fills it, the *)
(* commit action of the operation uses it, and Abandon ends a handler      *)
(* early (an error answer, a refused compare-and-set, a dying process).    *)
(*                                                                         *)
(* Weights, signatures, names, notifications and GPS distances are left    *)
(* out; bale quantities are kept because the stock is computed from them.  *)
(***************************************************************************)
EXTENDS TripTransitions, Naturals, FiniteSets

CONSTANTS Trips,         \* own-fleet trips, planned and with no load yet
          Requests,      \* slots for handlers in flight
          Depots,        \* delivery destinations
          Sizes,         \* bale counts a load or a confirmation may carry
          MaxBales,      \* bound: bales recorded against one trip
          MaxOverrides,  \* bound: distinct statuses an administrator forces on a trip
          MayDie,        \* whether a handler may die after its commit
          Ops,           \* bound: the operations that callers ask for
          None           \* SQL NULL

VARIABLES status,       \* trips.status
          deleted,      \* trips.deleted_at IS NOT NULL
          stamps,       \* the lifecycle timestamps that are set
          dest,         \* trips.destination_id
          ledger,       \* SUM(bale_loads.bale_count) over the trip's live rows
          baleCount,    \* trips.bale_count, the stored copy
          depotCount,   \* the count the depot operator confirmed, or None
          req,          \* handlers in flight
          cmr,          \* CMR generation jobs queued: <<trip, stage>>
          lostCmr,      \* jobs owed by a handler that died before queueing them
          overridden    \* the statuses an administrator has forced (history)

vars == <<status, deleted, stamps, dest, ledger, baleCount, depotCount,
          req, cmr, lostCmr, overridden>>

Stamp == {"loading_started_at", "loading_completed_at", "departure_at",
          "arrival_at", "delivered_at", "completed_at", "cancelled_at",
          "depot_unload_started_at", "depot_confirmed_at"}

\* Operations that are not events of the state machine.
Command == {"FORCE_STATUS", "SET_DESTINATION", "DELETE", "DISPATCHER_DELETE",
            "BALE_LOAD", "AUTO_UPSERT"}

\* REGISTER_LOAD locks the row inside its transaction instead of reading first.
Op == (Event \ {"REGISTER_LOAD"}) \cup Command

ASSUME TripLifecycleAssumption ==
  /\ Sizes \subseteq Nat \ {0}
  /\ MaxBales \in Nat
  /\ MaxOverrides \in Nat
  /\ MayDie \in BOOLEAN
  /\ None \notin Trips \cup Depots \cup Sizes
  /\ Depots # {}
  /\ Ops \subseteq Op

\* pc: "ready" has read and validated, "summed" has also read SUM(bale_loads),
\* "recount" has inserted a load and not yet recounted, "queue" has committed
\* and not yet queued its CMR job.
Slot == [pc : {"ready", "summed", "recount", "queue"}, op : Op, trip : Trips,
         from : Status, n : Nat, dest : Depots \cup {None}]

Idle == [pc |-> "idle", op |-> "none", trip |-> None, from |-> "planned",
         n |-> 0, dest |-> None]

TypeOK ==
  /\ status \in [Trips -> Status]
  /\ deleted \in [Trips -> BOOLEAN]
  /\ stamps \in [Trips -> SUBSET Stamp]
  /\ dest \in [Trips -> Depots \cup {None}]
  /\ ledger \in [Trips -> Nat]
  /\ baleCount \in [Trips -> Nat]
  /\ depotCount \in [Trips -> Sizes \cup {None}]
  /\ req \in [Requests -> Slot \cup {Idle}]
  /\ cmr \subseteq Trips \X {1, 2}
  /\ lostCmr \subseteq Trips \X {1, 2}
  /\ overridden \in [Trips -> SUBSET Status]

Init ==
  /\ status = [t \in Trips |-> "planned"]
  /\ deleted = [t \in Trips |-> FALSE]
  /\ stamps = [t \in Trips |-> {}]
  /\ dest \in [Trips -> Depots \cup {None}]
  /\ ledger = [t \in Trips |-> 0]
  /\ baleCount = [t \in Trips |-> 0]
  /\ depotCount = [t \in Trips |-> None]
  /\ req = [r \in Requests |-> Idle]
  /\ cmr = {}
  /\ lostCmr = {}
  /\ overridden = [t \in Trips |-> {}]

-----------------------------------------------------------------------------
(* Reading: findById, then validateTransition or the operation's own test.  *)

\* Statuses a dispatcher may delete from; an administrator may from any.
DeletableStatus == {"planned", "loading", "loaded", "cancelled"}

\* Statuses whose destination may still be changed.
OpenDestination == {"planned", "loaded"}

Validated(op, s) ==
  /\ op \in Event => op \in Available(s)
  /\ op = "DISPATCHER_DELETE" => s \in DeletableStatus
  /\ op = "SET_DESTINATION" => s \in OpenDestination
  /\ op = "AUTO_UPSERT" => s = "planned"

\* resolveDepotAction: the depot the trip names, or for an unlinked trip the
\* one the operator runs.
DepotFor(t) == IF dest[t] = None THEN Depots ELSE {dest[t]}

\* n is what the handler remembers of the load ledger (forceStatus reads
\* whether a load exists), dest the depot it resolved.
Read(r, t, op) ==
  /\ req[r] = Idle
  /\ ~deleted[t]
  /\ Validated(op, status[t])
  /\ \E d \in (IF op \in {"START_DEPOT_UNLOAD", "CONFIRM_DELIVERY_AT_DEPOT"}
               THEN DepotFor(t) ELSE {None}) :
       req' = [req EXCEPT ![r] =
                 [pc |-> "ready", op |-> op, trip |-> t, from |-> status[t],
                  n |-> IF op = "FORCE_STATUS" THEN ledger[t] ELSE 0,
                  dest |-> d]]
  /\ UNCHANGED <<status, deleted, stamps, dest, ledger, baleCount, depotCount,
                 cmr, lostCmr, overridden>>

Ready(r, op) == req[r].pc = "ready" /\ req[r].op = op

\* (mutant) The UPDATE forgets its AND status = from.
MoveUnguarded(r, to, stamped) ==
  LET t == req[r].trip IN
  /\ status' = [status EXCEPT ![t] = to]
  /\ stamps' = [stamps EXCEPT ![t] = @ \cup stamped]

\* UPDATE trips ... WHERE id = t AND status = from: the compare-and-set that
\* every handler of a machine event ends with.  It does not look at deleted_at.
Move(r, to, stamped) ==
  LET t == req[r].trip IN
  /\ status[t] = req[r].from
  /\ status' = [status EXCEPT ![t] = to]
  /\ stamps' = [stamps EXCEPT ![t] = @ \cup stamped]

\* The handler has answered.
Done(r) == req' = [req EXCEPT ![r] = Idle]

\* The handler has committed and is about to await cmrQueue.add.
OwesCmr(r) == req' = [req EXCEPT ![r].pc = "queue"]

Stage(op) == IF op = "DEPART" THEN 1 ELSE 2

-----------------------------------------------------------------------------
(* The handlers of the machine's events.                                    *)

StartLoading(r) ==
  /\ Ready(r, "START_LOADING")
  /\ Move(r, "loading", {"loading_started_at"})
  /\ Done(r)
  /\ UNCHANGED <<deleted, dest, ledger, baleCount, depotCount, cmr, lostCmr, overridden>>

\* (mutant) completeLoading accepts an empty trip.
SumLoadsOfEmptyTrip(r) ==
  /\ Ready(r, "COMPLETE_LOADING")
  /\ req' = [req EXCEPT ![r].pc = "summed", ![r].n = ledger[req[r].trip]]
  /\ UNCHANGED <<status, deleted, stamps, dest, ledger, baleCount, depotCount,
                 cmr, lostCmr, overridden>>

\* completeLoading sums the loads in a statement of its own and refuses an
\* empty trip ...
SumLoads(r) ==
  /\ Ready(r, "COMPLETE_LOADING")
  /\ ledger[req[r].trip] > 0
  /\ req' = [req EXCEPT ![r].pc = "summed", ![r].n = ledger[req[r].trip]]
  /\ UNCHANGED <<status, deleted, stamps, dest, ledger, baleCount, depotCount,
                 cmr, lostCmr, overridden>>

\* ... and stores the sum it read.
CompleteLoading(r) ==
  /\ req[r].pc = "summed"
  /\ Move(r, "loaded", {"loading_completed_at"})
  /\ baleCount' = [baleCount EXCEPT ![req[r].trip] = req[r].n]
  /\ Done(r)
  /\ UNCHANGED <<deleted, dest, ledger, depotCount, cmr, lostCmr, overridden>>

\* registerLoad: one transaction that locks the truck's open trip, inserts the
\* load and recounts.
RegisterLoad(t, n) ==
  /\ ~deleted[t]
  /\ "REGISTER_LOAD" \in Available(status[t])
  /\ ledger[t] + n <= MaxBales
  /\ status' = [status EXCEPT ![t] = "loaded"]
  /\ stamps' = [stamps EXCEPT ![t] = @ \cup {"loading_started_at", "loading_completed_at"}]
  /\ ledger' = [ledger EXCEPT ![t] = @ + n]
  /\ baleCount' = [baleCount EXCEPT ![t] = ledger[t] + n]
  /\ UNCHANGED <<deleted, dest, depotCount, req, cmr, lostCmr, overridden>>

Depart(r) ==
  /\ Ready(r, "DEPART")
  /\ Move(r, "in_transit", {"departure_at"})
  /\ OwesCmr(r)
  /\ UNCHANGED <<deleted, dest, ledger, baleCount, depotCount, cmr, lostCmr, overridden>>

Arrive(r) ==
  /\ Ready(r, "ARRIVE")
  /\ Move(r, "arrived", {"arrival_at"})
  /\ Done(r)
  /\ UNCHANGED <<deleted, dest, ledger, baleCount, depotCount, cmr, lostCmr, overridden>>

StartDelivery(r) ==
  /\ Ready(r, "START_DELIVERY")
  /\ Move(r, "delivering", {})
  /\ Done(r)
  /\ UNCHANGED <<deleted, dest, ledger, baleCount, depotCount, cmr, lostCmr, overridden>>

ConfirmDelivery(r) ==
  /\ Ready(r, "CONFIRM_DELIVERY")
  /\ Move(r, "delivered", {"delivered_at"})
  /\ Done(r)
  /\ UNCHANGED <<deleted, dest, ledger, baleCount, depotCount, cmr, lostCmr, overridden>>

Complete(r) ==
  /\ Ready(r, "COMPLETE")
  /\ Move(r, "completed", {"completed_at"})
  /\ OwesCmr(r)
  /\ UNCHANGED <<deleted, dest, ledger, baleCount, depotCount, cmr, lostCmr, overridden>>

\* (mutant) The operator's first step does not stamp the arrival.
StartDepotUnloadUnstamped(r) ==
  /\ Ready(r, "START_DEPOT_UNLOAD")
  /\ Move(r, "delivering", {"depot_unload_started_at"})
  /\ dest' = [dest EXCEPT ![req[r].trip] = req[r].dest]
  /\ Done(r)
  /\ UNCHANGED <<deleted, ledger, baleCount, depotCount, cmr, lostCmr, overridden>>

\* (mutant) The operator's second step forgets the final document.
ConfirmDepotDeliveryNoCmr(r, n) ==
  /\ Ready(r, "CONFIRM_DELIVERY_AT_DEPOT")
  /\ Move(r, "completed", {"arrival_at", "delivered_at", "depot_confirmed_at",
                           "completed_at"})
  /\ dest' = [dest EXCEPT ![req[r].trip] = req[r].dest]
  /\ baleCount' = [baleCount EXCEPT ![req[r].trip] = n]
  /\ depotCount' = [depotCount EXCEPT ![req[r].trip] = n]
  /\ Done(r)
  /\ UNCHANGED <<deleted, ledger, cmr, lostCmr, overridden>>

\* The operator's two steps stamp the arrival on the driver's behalf and write
\* back the depot resolved when the handler read the trip.
StartDepotUnload(r) ==
  /\ Ready(r, "START_DEPOT_UNLOAD")
  /\ Move(r, "delivering", {"arrival_at", "depot_unload_started_at"})
  /\ dest' = [dest EXCEPT ![req[r].trip] = req[r].dest]
  /\ Done(r)
  /\ UNCHANGED <<deleted, ledger, baleCount, depotCount, cmr, lostCmr, overridden>>

ConfirmDepotDelivery(r, n) ==
  /\ Ready(r, "CONFIRM_DELIVERY_AT_DEPOT")
  /\ Move(r, "completed", {"arrival_at", "delivered_at", "depot_confirmed_at",
                           "completed_at"})
  /\ dest' = [dest EXCEPT ![req[r].trip] = req[r].dest]
  /\ baleCount' = [baleCount EXCEPT ![req[r].trip] = n]
  /\ depotCount' = [depotCount EXCEPT ![req[r].trip] = n]
  /\ OwesCmr(r)
  /\ UNCHANGED <<deleted, ledger, cmr, lostCmr, overridden>>

Cancel(r) ==
  /\ Ready(r, "CANCEL")
  /\ Move(r, "cancelled", {"cancelled_at"})
  /\ Done(r)
  /\ UNCHANGED <<deleted, dest, ledger, baleCount, depotCount, cmr, lostCmr, overridden>>

Dispute(r) ==
  /\ Ready(r, "DISPUTE")
  /\ Move(r, "disputed", {})
  /\ Done(r)
  /\ UNCHANGED <<deleted, dest, ledger, baleCount, depotCount, cmr, lostCmr, overridden>>

\* (mutant) A dispute resolved to completed queues no document.
ResolveDisputeNoCmr(r) ==
  /\ Ready(r, "RESOLVE_DISPUTE")
  /\ Move(r, "delivered", {}) \/ Move(r, "completed", {"completed_at"})
  /\ Done(r)
  /\ UNCHANGED <<deleted, dest, ledger, baleCount, depotCount, cmr, lostCmr, overridden>>

ResolveDispute(r) ==
  /\ Ready(r, "RESOLVE_DISPUTE")
  /\ \/ Move(r, "delivered", {}) /\ Done(r)
     \/ Move(r, "completed", {"completed_at"}) /\ OwesCmr(r)
  /\ UNCHANGED <<deleted, dest, ledger, baleCount, depotCount, cmr, lostCmr, overridden>>

\* The second half of depart, complete, confirmDepotDelivery, resolveDispute.
QueueCmr(r) ==
  /\ req[r].pc = "queue"
  /\ cmr' = cmr \cup {<<req[r].trip, Stage(req[r].op)>>}
  /\ Done(r)
  /\ UNCHANGED <<status, deleted, stamps, dest, ledger, baleCount, depotCount,
                 lostCmr, overridden>>

-----------------------------------------------------------------------------
(* The commands that are not events of the machine.                         *)

\* Statuses that assert the goods are on the truck.
ImpliesLoaded == {"loaded", "in_transit", "arrived", "delivering", "delivered", "completed"}

\* stampColumn: the one timestamp an override sets, if it is still null.
OverrideStamp(s) ==
  CASE s = "loading"    -> {"loading_started_at"}
    [] s = "loaded"     -> {"loading_completed_at"}
    [] s = "in_transit" -> {"departure_at"}
    [] s = "arrived"    -> {"arrival_at"}
    [] s = "delivered"  -> {"delivered_at"}
    [] s = "completed"  -> {"completed_at"}
    [] s = "cancelled"  -> {"cancelled_at"}
    [] OTHER            -> {}

\* (mutant) The override that moves only the status.
OverrideAllowedUnloaded(r, s, n) ==
  /\ Ready(r, "FORCE_STATUS")
  /\ n \in Sizes \cup {0}
  /\ ledger[req[r].trip] + n <= MaxBales
  /\ Cardinality(overridden[req[r].trip] \cup {s}) <= MaxOverrides

\* The administrator may attach a load of n bales (0: none given).  One is
\* required when the target implies a load and none was found by Read.
OverrideAllowed(r, s, n) ==
  /\ Ready(r, "FORCE_STATUS")
  /\ n \in Sizes \cup {0}
  /\ s \in ImpliesLoaded => req[r].n > 0 \/ n > 0
  /\ ledger[req[r].trip] + n <= MaxBales
  /\ Cardinality(overridden[req[r].trip] \cup {s}) <= MaxOverrides

\* forceStatus, applied: no compare-and-set on the status it read.  It inserts
\* the load, writes the status, and recounts when a load was given.
ForceStatus(r, s, n) ==
  LET t == req[r].trip IN
  /\ OverrideAllowed(r, s, n)
  /\ status' = [status EXCEPT ![t] = s]
  /\ stamps' = [stamps EXCEPT ![t] = @ \cup OverrideStamp(s)]
  /\ ledger' = [ledger EXCEPT ![t] = @ + n]
  /\ baleCount' = IF n > 0 THEN [baleCount EXCEPT ![t] = ledger[t] + n] ELSE baleCount
  /\ overridden' = [overridden EXCEPT ![t] = @ \cup {s}]
  /\ Done(r)
  /\ UNCHANGED <<deleted, dest, depotCount, cmr, lostCmr>>

\* forceStatus with an expectedStatus that no longer holds (the administrator's
\* page may have shown any status).  The transaction has already inserted the
\* load when its UPDATE matches no row; it returns normally, so it commits, and
\* the error is raised after it.
ForceStatusRefused(r, s, n) ==
  /\ OverrideAllowed(r, s, n)
  /\ ledger' = [ledger EXCEPT ![req[r].trip] = @ + n]
  /\ Done(r)
  /\ UNCHANGED <<status, deleted, stamps, dest, baleCount, depotCount, cmr,
                 lostCmr, overridden>>

\* (mutant) The status test made on the row read earlier is trusted.
SetDestinationUnguarded(r, d) ==
  /\ Ready(r, "SET_DESTINATION")
  /\ dest' = [dest EXCEPT ![req[r].trip] = d]
  /\ Done(r)
  /\ UNCHANGED <<status, deleted, stamps, ledger, baleCount, depotCount, cmr,
                 lostCmr, overridden>>

\* The assigned driver picks the destination; the UPDATE re-checks the status.
SetDestination(r, d) ==
  /\ Ready(r, "SET_DESTINATION")
  /\ status[req[r].trip] \in OpenDestination
  /\ dest' = [dest EXCEPT ![req[r].trip] = d]
  /\ Done(r)
  /\ UNCHANGED <<status, deleted, stamps, ledger, baleCount, depotCount, cmr,
                 lostCmr, overridden>>

\* softDelete: the role's status test is made by Read, the UPDATE only asks
\* that the row is not deleted yet.
SoftDelete(r) ==
  /\ Ready(r, "DELETE") \/ Ready(r, "DISPATCHER_DELETE")
  /\ ~deleted[req[r].trip]
  /\ deleted' = [deleted EXCEPT ![req[r].trip] = TRUE]
  /\ Done(r)
  /\ UNCHANGED <<status, stamps, dest, ledger, baleCount, depotCount, cmr,
                 lostCmr, overridden>>

\* (mutant) The trip is updated before the row is inserted.
CountBeforeInsert(r, n) ==
  LET t == req[r].trip IN
  /\ Ready(r, "BALE_LOAD")
  /\ ledger[t] + n <= MaxBales
  /\ baleCount' = [baleCount EXCEPT ![t] = ledger[t] + n]
  /\ req' = [req EXCEPT ![r].pc = "recount"]
  /\ UNCHANGED <<status, deleted, stamps, dest, ledger, depotCount, cmr,
                 lostCmr, overridden>>

\* BaleLoadsService.create: the row in one statement ...
InsertBaleLoad(r, n) ==
  LET t == req[r].trip IN
  /\ Ready(r, "BALE_LOAD")
  /\ ledger[t] + n <= MaxBales
  /\ ledger' = [ledger EXCEPT ![t] = @ + n]
  /\ req' = [req EXCEPT ![r].pc = "recount"]
  /\ UNCHANGED <<status, deleted, stamps, dest, baleCount, depotCount, cmr,
                 lostCmr, overridden>>

\* ... and the trip's copy of the sum in the next, whatever its status.
RecountBales(r) ==
  LET t == req[r].trip IN
  /\ req[r].pc = "recount"
  /\ baleCount' = [baleCount EXCEPT ![t] = ledger[t]]
  /\ Done(r)
  /\ UNCHANGED <<status, deleted, stamps, dest, ledger, depotCount, cmr,
                 lostCmr, overridden>>

\* autoUpsertFromTruckTask, update path: re-planning a task rewrites the
\* destination of its trip while the trip is planned.
AutoUpsertFromTruckTask(r, d) ==
  /\ Ready(r, "AUTO_UPSERT")
  /\ status[req[r].trip] = "planned"
  /\ dest' = [dest EXCEPT ![req[r].trip] = d]
  /\ Done(r)
  /\ UNCHANGED <<status, deleted, stamps, ledger, baleCount, depotCount, cmr,
                 lostCmr, overridden>>

\* autoCancelForTruckTask (deleted or not) and the nightly sweep of stale plans
\* (not deleted): cancelling a planned trip in one guarded statement.
CancelPlanned(t) ==
  /\ status[t] = "planned"
  /\ status' = [status EXCEPT ![t] = "cancelled"]
  /\ stamps' = [stamps EXCEPT ![t] = @ \cup {"cancelled_at"}]
  /\ UNCHANGED <<deleted, dest, ledger, baleCount, depotCount, req, cmr,
                 lostCmr, overridden>>

AutoCancelForTruckTask(t) == CancelPlanned(t)

SweepStalePlannedTrips(t) == ~deleted[t] /\ CancelPlanned(t)

\* A handler ends before its next statement: it answers with an error before
\* its commit, or dies.  After the commit only dying remains, and the CMR job
\* or the recount it owed is never done.
Abandon(r) ==
  /\ req[r] # Idle
  /\ req[r].pc \in {"queue", "recount"} => MayDie
  /\ lostCmr' = IF req[r].pc = "queue"
                THEN lostCmr \cup {<<req[r].trip, Stage(req[r].op)>>}
                ELSE lostCmr
  /\ Done(r)
  /\ UNCHANGED <<status, deleted, stamps, dest, ledger, baleCount, depotCount,
                 cmr, overridden>>

-----------------------------------------------------------------------------
RequestStep(r) ==
  \/ \E t \in Trips, op \in Ops : Read(r, t, op)
  \/ StartLoading(r) \/ SumLoads(r) \/ CompleteLoading(r) \/ Depart(r)
  \/ Arrive(r) \/ StartDelivery(r) \/ ConfirmDelivery(r) \/ Complete(r)
  \/ StartDepotUnload(r) \/ (\E n \in Sizes : ConfirmDepotDelivery(r, n))
  \/ Cancel(r) \/ Dispute(r) \/ ResolveDispute(r) \/ QueueCmr(r)
  \/ \E s \in Status, n \in Sizes \cup {0} : ForceStatus(r, s, n)
  \/ \E s \in Status, n \in Sizes \cup {0} : ForceStatusRefused(r, s, n)
  \/ (\E d \in Depots : SetDestination(r, d)) \/ SoftDelete(r)
  \/ (\E n \in Sizes : InsertBaleLoad(r, n)) \/ RecountBales(r)
  \/ (\E d \in Depots : AutoUpsertFromTruckTask(r, d))
  \/ Abandon(r)

Next ==
  \/ \E r \in Requests : RequestStep(r)
  \/ \E t \in Trips : \/ \E n \in Sizes : RegisterLoad(t, n)
                      \/ AutoCancelForTruckTask(t)
                      \/ SweepStalePlannedTrips(t)

Spec == Init /\ [][Next]_vars

\* The runtime runs a handler that has committed to its end.
FairSpec == Spec /\ \A r \in Requests : WF_vars(QueueCmr(r))

-----------------------------------------------------------------------------
(* Safety.                                                                  *)

\* Every interleaving of handlers moves a trip only as the state machine does:
\* one legal event, the depot's confirm-and-complete, or a recorded override.
Machine == INSTANCE TripMachine WITH Trips <- Trips, status <- status, overridden <- overridden
ImplementsMachine == Machine!Spec

\* The timestamps a trip must carry when it reached its status without an
\* override; reports, idle scans and the documents read them.
Required(s) ==
  CASE s = "loading"    -> {"loading_started_at"}
    [] s = "loaded"     -> {"loading_started_at", "loading_completed_at"}
    [] s = "in_transit" -> {"loading_started_at", "loading_completed_at", "departure_at"}
    [] s \in {"arrived", "delivering"} ->
         {"loading_started_at", "loading_completed_at", "departure_at", "arrival_at"}
    [] s \in {"delivered", "disputed"} ->
         {"loading_started_at", "loading_completed_at", "departure_at", "arrival_at",
          "delivered_at"}
    [] s = "completed"  ->
         {"loading_started_at", "loading_completed_at", "departure_at", "arrival_at",
          "delivered_at", "completed_at"}
    [] s = "cancelled"  -> {"cancelled_at"}
    [] OTHER            -> {}

\* A trip that no administrator overrode carries the timestamp of every stage
\* it has been through, whichever of the driver's, the loader's and the depot
\* operator's paths took it there.
EvidenceComplete ==
  \A t \in Trips : overridden[t] = {} => Required(status[t]) \subseteq stamps[t]

\* A completed trip that was never overridden has its final document queued,
\* or the handler that completed it is about to queue it, or died before it
\* could.  resolveDispute and the depot path must not forget it.
OwesStage2(t) == \E r \in Requests : /\ req[r].pc = "queue"
                                     /\ req[r].trip = t
                                     /\ Stage(req[r].op) = 2

CompletedHasDocument ==
  \A t \in Trips :
    status[t] = "completed" /\ overridden[t] = {} =>
      <<t, 2>> \in cmr \cup lostCmr \/ OwesStage2(t)

\* Until a depot operator confirms a count, the trip never claims more bales
\* than its load rows add up to, although completeLoading stores a sum it read
\* earlier and other handlers insert and recount in between.
BaleCountCovered ==
  \A t \in Trips : depotCount[t] = None => baleCount[t] <= ledger[t]

\* No phantom trip: a status that asserts goods on the truck comes with a
\* recorded load, overrides included, unless one forced the trip to disputed.
NoPhantomLoad ==
  \A t \in Trips :
    status[t] \in ImpliesLoaded /\ "disputed" \notin overridden[t] => ledger[t] > 0

\* Once a trip that was never overridden has left for its destination, the
\* destination no longer changes: the depot steps write back a depot they
\* resolved from an earlier read, and may only fill in a missing one.
DestinationFrozen ==
  [][\A t \in Trips :
       overridden'[t] = {} /\ dest'[t] # dest[t] =>
         status[t] \in OpenDestination \/ dest[t] = None]_vars

\* A trip completed without an override gets its final document queued, unless
\* the handler that owes it dies: no other handler takes the debt away from it.
FinalDocumentQueued ==
  \A t \in Trips :
    (status[t] = "completed" /\ overridden[t] = {}) ~> (<<t, 2>> \in cmr \cup lostCmr)

\* A trip that was cancelled stays so, and one that was completed leaves that status
\* for a dispute only, but for an override that is on record: whatever status the
\* handlers that come after had read (trip.machine.ts, the ends of transitionMap).
EndsHold ==
  [][\A t \in Trips : status'[t] # status[t] /\ status'[t] \notin overridden'[t] =>
       /\ status[t] # "cancelled"
       /\ status[t] = "completed" => status'[t] = "disputed"]_vars

-----------------------------------------------------------------------------
(* What holds between the statements of a handler: the strengthening that   *)
(* makes the invariants above inductive.                                    *)

\* A handler in flight validated the status it read, and CompleteLoading and
\* ForceStatus act on a load count that can only have grown since.
InFlightValid ==
  \A r \in Requests :
    req[r] # Idle =>
      /\ req[r].pc \in {"ready", "summed"} => Validated(req[r].op, req[r].from)
      /\ req[r].pc = "summed" => req[r].op = "COMPLETE_LOADING" /\ req[r].n > 0
      /\ req[r].n <= ledger[req[r].trip]

\* A disputed trip was delivered first, so it too carries a load.
LoadBehindStatus ==
  \A t \in Trips :
    status[t] \in ImpliesLoaded \cup {"disputed"} /\ "disputed" \notin overridden[t] =>
      ledger[t] > 0

IInv == /\ TypeOK
        /\ InFlightValid
        /\ EvidenceComplete
        /\ CompletedHasDocument
        /\ BaleCountCovered
        /\ LoadBehindStatus

\* How far a trip has got.  Nothing but an override takes it back, or to the same
\* place a second time before it is delivered.
Progress(s) ==
  CASE s = "in_transit" -> 1
    [] s = "arrived" -> 2
    [] s = "delivering" -> 3
    [] s \in {"delivered", "disputed", "completed", "cancelled"} -> 4
    [] OTHER -> 0

\* As long as the trip is where one of the depot's handlers read it, the depot the
\* handler resolved is the trip's, if the trip has one.
DepotActions == {"START_DEPOT_UNLOAD", "CONFIRM_DELIVERY_AT_DEPOT"}
DepotResolved ==
  \A r \in Requests :
    req[r].pc = "ready" /\ req[r].op \in DepotActions /\ overridden[req[r].trip] = {} =>
      /\ Progress(req[r].from) <= Progress(status[req[r].trip])
      /\ status[req[r].trip] = req[r].from => dest[req[r].trip] \in {None, req[r].dest}
=============================================================================
