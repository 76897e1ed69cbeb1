----------------------- MODULE TripLifecycle_proofs -----------------------
(***************************************************************************)
(* Proofs about TripLifecycle, for every value of its constants.           *)
(***************************************************************************)
EXTENDS TripLifecycle, TLAPS

-----------------------------------------------------------------------------
(* Slots and the transition table.                                          *)

\* A slot that is not idle holds a handler of the types of Slot.
LEMMA BusySlot ==
  ASSUME TypeOK, NEW r \in Requests, req[r].pc # "idle"
  PROVE  req[r] \in Slot
<1>1. req[r] \in Slot \cup {Idle}
  BY DEF TypeOK
<1>2. Idle.pc = "idle"
  BY DEF Idle
<1> QED
  BY <1>1, <1>2

\* A slot is idle exactly when its program counter says so.
LEMMA IdleSlot ==
  ASSUME TypeOK, NEW r \in Requests
  PROVE  req[r] = Idle <=> req[r].pc = "idle"
<1>1. req[r] \in Slot \cup {Idle}
  BY DEF TypeOK
<1>2. Idle.pc = "idle"
  BY DEF Idle
<1>3. \A x \in Slot : x.pc # "idle"
  BY DEF Slot
<1> QED
  BY <1>1, <1>2, <1>3

\* Answering, and owing a job, keep the slots well typed.
LEMMA SlotUpdates ==
  ASSUME TypeOK, NEW r \in Requests
  PROVE  /\ [req EXCEPT ![r] = Idle] \in [Requests -> Slot \cup {Idle}]
         /\ req[r].pc # "idle" =>
              /\ [req EXCEPT ![r].pc = "queue"] \in [Requests -> Slot \cup {Idle}]
              /\ [req EXCEPT ![r].pc = "recount"] \in [Requests -> Slot \cup {Idle}]
<1>1. [req EXCEPT ![r] = Idle] \in [Requests -> Slot \cup {Idle}]
  BY DEF TypeOK
<1>2. ASSUME req[r].pc # "idle", NEW p \in {"queue", "recount"}
      PROVE  [req EXCEPT ![r].pc = p] \in [Requests -> Slot \cup {Idle}]
  <2>1. req[r] \in Slot
    BY <1>2, BusySlot
  <2>2. [req[r] EXCEPT !.pc = p] \in Slot
    BY <1>2, <2>1 DEF Slot
  <2> QED
    BY <2>2 DEF TypeOK
<1> QED
  BY <1>1, <1>2

\* The compare-and-set of a handler in flight keeps status and timestamps typed.
LEMMA MoveTyped ==
  ASSUME TypeOK, NEW r \in Requests, req[r].pc # "idle",
         NEW to \in Status, NEW stamped \in SUBSET Stamp, Move(r, to, stamped)
  PROVE  /\ status' \in [Trips -> Status]
         /\ stamps' \in [Trips -> SUBSET Stamp]
<1>1. req[r].trip \in Trips
  BY BusySlot DEF Slot
<1> QED
  BY <1>1 DEF TypeOK, Move

-----------------------------------------------------------------------------
(* Type correctness.                                                        *)

LEMMA InitTypeOK == Init => TypeOK
BY DEF Init, TypeOK, Status

LEMMA StageTyped == \A op : Stage(op) \in {1, 2}
BY DEF Stage

\* The handlers of the machine's events keep the types.
LEMMA EventHandlersTyped ==
  ASSUME TypeOK, NEW r \in Requests,
         \/ StartLoading(r) \/ SumLoads(r) \/ CompleteLoading(r) \/ Depart(r)
         \/ Arrive(r) \/ StartDelivery(r) \/ ConfirmDelivery(r) \/ Complete(r)
         \/ StartDepotUnload(r) \/ (\E n \in Sizes : ConfirmDepotDelivery(r, n))
         \/ Cancel(r) \/ Dispute(r) \/ ResolveDispute(r) \/ QueueCmr(r)
  PROVE  TypeOK'
<1> USE SlotUpdates, MoveTyped
<1>1. CASE StartLoading(r)
  BY <1>1 DEF StartLoading, Ready, Done, TypeOK, Status, Stamp
<1>2. CASE SumLoads(r)
  <2>1. req[r] \in Slot
    BY <1>2, BusySlot DEF SumLoads, Ready
  <2>2. ledger[req[r].trip] \in Nat
    BY <2>1 DEF TypeOK, Slot
  <2>3. [req[r] EXCEPT !.pc = "summed", !.n = ledger[req[r].trip]] \in Slot
    BY <2>1, <2>2 DEF Slot
  <2> QED
    BY <1>2, <2>3 DEF SumLoads, TypeOK
<1>3. CASE CompleteLoading(r)
  <2>1. req[r] \in Slot
    BY <1>3, BusySlot DEF CompleteLoading
  <2>2. req[r].n \in Nat
    BY <2>1 DEF Slot
  <2> QED
    BY <1>3, <2>2 DEF CompleteLoading, Done, TypeOK, Status, Stamp
<1>4. CASE Depart(r)
  BY <1>4 DEF Depart, Ready, OwesCmr, TypeOK, Status, Stamp
<1>5. CASE Arrive(r)
  BY <1>5 DEF Arrive, Ready, Done, TypeOK, Status, Stamp
<1>6. CASE StartDelivery(r)
  BY <1>6 DEF StartDelivery, Ready, Done, TypeOK, Status, Stamp
<1>7. CASE ConfirmDelivery(r)
  BY <1>7 DEF ConfirmDelivery, Ready, Done, TypeOK, Status, Stamp
<1>8. CASE Complete(r)
  BY <1>8 DEF Complete, Ready, OwesCmr, TypeOK, Status, Stamp
<1>9. CASE StartDepotUnload(r)
  <2>1. req[r] \in Slot
    BY <1>9, BusySlot DEF StartDepotUnload, Ready
  <2>2. req[r].dest \in Depots \cup {None}
    BY <2>1 DEF Slot
  <2> QED
    BY <1>9, <2>2 DEF StartDepotUnload, Ready, Done, TypeOK, Status, Stamp
<1>10. ASSUME NEW n \in Sizes, ConfirmDepotDelivery(r, n)
       PROVE  TypeOK'
  <2>1. req[r] \in Slot
    BY <1>10, BusySlot DEF ConfirmDepotDelivery, Ready
  <2>2. req[r].dest \in Depots \cup {None} /\ n \in Nat
    BY <2>1, TripLifecycleAssumption DEF Slot
  <2> QED
    BY <1>10, <2>2 DEF ConfirmDepotDelivery, Ready, OwesCmr, TypeOK, Status, Stamp
<1>11. CASE Cancel(r)
  BY <1>11 DEF Cancel, Ready, Done, TypeOK, Status, Stamp
<1>12. CASE Dispute(r)
  BY <1>12 DEF Dispute, Ready, Done, TypeOK, Status, Stamp
<1>13. CASE ResolveDispute(r)
  <2>1. CASE Move(r, "delivered", {}) /\ Done(r)
    <3>1. /\ req[r].pc # "idle" /\ "delivered" \in Status /\ {} \in SUBSET Stamp
          /\ UNCHANGED <<deleted, dest, ledger, baleCount, depotCount, cmr, lostCmr, overridden>>
      BY <1>13 DEF ResolveDispute, Ready, Status
    <3>2. status' \in [Trips -> Status] /\ stamps' \in [Trips -> SUBSET Stamp]
      BY <2>1, <3>1, MoveTyped
    <3> QED
      BY <2>1, <3>1, <3>2 DEF Done, TypeOK
  <2>2. CASE Move(r, "completed", {"completed_at"}) /\ OwesCmr(r)
    <3>1. /\ req[r].pc # "idle" /\ "completed" \in Status /\ {"completed_at"} \in SUBSET Stamp
          /\ UNCHANGED <<deleted, dest, ledger, baleCount, depotCount, cmr, lostCmr, overridden>>
      BY <1>13 DEF ResolveDispute, Ready, Status, Stamp
    <3>2. status' \in [Trips -> Status] /\ stamps' \in [Trips -> SUBSET Stamp]
      BY <2>2, <3>1, MoveTyped
    <3> QED
      BY <2>2, <3>1, <3>2 DEF OwesCmr, TypeOK
  <2> QED
    BY <1>13, <2>1, <2>2 DEF ResolveDispute
<1>14. CASE QueueCmr(r)
  <2>1. req[r] \in Slot
    BY <1>14, BusySlot DEF QueueCmr
  <2>2. <<req[r].trip, Stage(req[r].op)>> \in Trips \X {1, 2}
    BY <2>1, StageTyped DEF Slot
  <2> QED
    BY <1>14, <2>2 DEF QueueCmr, Done, TypeOK
<1> QED
  BY <1>1, <1>2, <1>3, <1>4, <1>5, <1>6, <1>7, <1>8, <1>9, <1>10, <1>11, <1>12,
     <1>13, <1>14

\* The override's pieces.
LEMMA OverrideTyped ==
  /\ \A s : OverrideStamp(s) \subseteq Stamp
  /\ TripLifecycleAssumption => \A n \in Sizes \cup {0} : n \in Nat
BY TripLifecycleAssumption DEF OverrideStamp, Stamp

\* So do the commands.
LEMMA CommandsTyped ==
  ASSUME TypeOK, NEW r \in Requests,
         \/ \E s \in Status, n \in Sizes \cup {0} : ForceStatus(r, s, n)
         \/ \E s \in Status, n \in Sizes \cup {0} : ForceStatusRefused(r, s, n)
         \/ (\E d \in Depots : SetDestination(r, d)) \/ SoftDelete(r)
         \/ (\E n \in Sizes : InsertBaleLoad(r, n)) \/ RecountBales(r)
         \/ (\E d \in Depots : AutoUpsertFromTruckTask(r, d))
         \/ Abandon(r)
  PROVE  TypeOK'
<1> USE SlotUpdates
<1>1. ASSUME NEW s \in Status, NEW n \in Sizes \cup {0}, ForceStatus(r, s, n)
      PROVE  TypeOK'
  <2>1. req[r] \in Slot
    BY <1>1, BusySlot DEF ForceStatus, OverrideAllowed, Ready
  <2>2. req[r].trip \in Trips
    BY <2>1 DEF Slot
  <2>3. n \in Nat /\ OverrideStamp(s) \subseteq Stamp
    BY OverrideTyped, TripLifecycleAssumption
  <2>4. /\ status' \in [Trips -> Status] /\ overridden' \in [Trips -> SUBSET Status]
        /\ stamps' \in [Trips -> SUBSET Stamp]
    BY <1>1, <2>2, <2>3 DEF ForceStatus, TypeOK
  <2>5. ledger' \in [Trips -> Nat] /\ baleCount' \in [Trips -> Nat]
    BY <1>1, <2>2, <2>3 DEF ForceStatus, TypeOK
  <2>6. req' \in [Requests -> Slot \cup {Idle}]
    BY <1>1 DEF ForceStatus, Done
  <2> QED
    BY <1>1, <2>4, <2>5, <2>6 DEF ForceStatus, TypeOK
<1>2. ASSUME NEW s \in Status, NEW n \in Sizes \cup {0},
             ForceStatusRefused(r, s, n)
      PROVE  TypeOK'
  <2>1. req[r] \in Slot
    BY <1>2, BusySlot DEF ForceStatusRefused, OverrideAllowed, Ready
  <2>2. req[r].trip \in Trips /\ n \in Nat
    BY <2>1, OverrideTyped, TripLifecycleAssumption DEF Slot
  <2> QED
    BY <1>2, <2>2 DEF ForceStatusRefused, Done, TypeOK
<1>3. ASSUME NEW d \in Depots, SetDestination(r, d)
      PROVE  TypeOK'
  BY <1>3 DEF SetDestination, Done, TypeOK
<1>4. CASE SoftDelete(r)
  BY <1>4 DEF SoftDelete, Done, TypeOK
<1>5. ASSUME NEW n \in Sizes, InsertBaleLoad(r, n)
      PROVE  TypeOK'
  <2>1. req[r] \in Slot
    BY <1>5, BusySlot DEF InsertBaleLoad, Ready
  <2>2. req[r].trip \in Trips /\ n \in Nat
    BY <2>1, OverrideTyped, TripLifecycleAssumption DEF Slot
  <2>3. ledger' \in [Trips -> Nat]
    BY <1>5, <2>2 DEF InsertBaleLoad, TypeOK
  <2>4. req' \in [Requests -> Slot \cup {Idle}]
    BY <1>5 DEF InsertBaleLoad, Ready
  <2> QED
    BY <1>5, <2>3, <2>4 DEF InsertBaleLoad, TypeOK
<1>6. CASE RecountBales(r)
  <2>1. req[r] \in Slot
    BY <1>6, BusySlot DEF RecountBales
  <2>2. ledger[req[r].trip] \in Nat
    BY <2>1 DEF TypeOK, Slot
  <2> QED
    BY <1>6, <2>2 DEF RecountBales, Done, TypeOK
<1>7. ASSUME NEW d \in Depots, AutoUpsertFromTruckTask(r, d)
      PROVE  TypeOK'
  BY <1>7 DEF AutoUpsertFromTruckTask, Done, TypeOK
<1>8. CASE Abandon(r)
  <2>1. req[r] \in Slot
    BY <1>8 DEF Abandon, TypeOK
  <2>2. <<req[r].trip, Stage(req[r].op)>> \in Trips \X {1, 2}
    BY <2>1, StageTyped DEF Slot
  <2> QED
    BY <1>8, <2>2 DEF Abandon, Done, TypeOK
<1> QED
  BY <1>1, <1>2, <1>3, <1>4, <1>5, <1>6, <1>7, <1>8

\* Reading fills a slot with what the trip's row says.
LEMMA ReadTyped ==
  ASSUME TypeOK, NEW r \in Requests, NEW t \in Trips, NEW op \in Ops, Read(r, t, op)
  PROVE  TypeOK'
<1>1. op \in Op
  BY TripLifecycleAssumption
<1>2. PICK d \in (IF op \in {"START_DEPOT_UNLOAD", "CONFIRM_DELIVERY_AT_DEPOT"}
                  THEN DepotFor(t) ELSE {None}) :
        req' = [req EXCEPT ![r] =
                  [pc |-> "ready", op |-> op, trip |-> t, from |-> status[t],
                   n |-> IF op = "FORCE_STATUS" THEN ledger[t] ELSE 0, dest |-> d]]
  BY DEF Read
<1>3. d \in Depots \cup {None}
  BY <1>2 DEF DepotFor, TypeOK
<1>4. [pc |-> "ready", op |-> op, trip |-> t, from |-> status[t],
       n |-> IF op = "FORCE_STATUS" THEN ledger[t] ELSE 0, dest |-> d] \in Slot
  BY <1>1, <1>3 DEF Slot, TypeOK
<1> QED
  BY <1>2, <1>4 DEF Read, TypeOK

\* And so do the steps that take no slot.
LEMMA TripStepsTyped ==
  ASSUME TypeOK, NEW t \in Trips,
         \/ \E n \in Sizes : RegisterLoad(t, n)
         \/ AutoCancelForTruckTask(t) \/ SweepStalePlannedTrips(t)
  PROVE  TypeOK'
<1>1. ASSUME NEW n \in Sizes, RegisterLoad(t, n)
      PROVE  TypeOK'
  <2>1. n \in Nat
    BY OverrideTyped, TripLifecycleAssumption
  <2> QED
    BY <1>1, <2>1 DEF RegisterLoad, TypeOK, Status, Stamp
<1>2. ASSUME CancelPlanned(t)
      PROVE  TypeOK'
  BY <1>2 DEF CancelPlanned, TypeOK, Status, Stamp
<1> QED
  BY <1>1, <1>2 DEF AutoCancelForTruckTask, SweepStalePlannedTrips

LEMMA StepTypeOK == TypeOK /\ [Next]_vars => TypeOK'
<1> SUFFICES ASSUME TypeOK, [Next]_vars
             PROVE  TypeOK'
  OBVIOUS
<1>1. ASSUME NEW r \in Requests, RequestStep(r)
      PROVE  TypeOK'
  BY <1>1, EventHandlersTyped, CommandsTyped, ReadTyped DEF RequestStep
<1>2. ASSUME NEW t \in Trips,
             \/ \E n \in Sizes : RegisterLoad(t, n)
             \/ AutoCancelForTruckTask(t) \/ SweepStalePlannedTrips(t)
      PROVE  TypeOK'
  BY <1>2, TripStepsTyped
<1>3. CASE UNCHANGED vars
  BY <1>3 DEF vars, TypeOK
<1> QED
  BY <1>1, <1>2, <1>3 DEF Next

\* Every reachable state of TripsService is well typed: the columns, the
\* handlers in flight and the queue never leave their domains.
THEOREM TypeCorrect == Spec => []TypeOK
<1>1. Init => TypeOK
  BY InitTypeOK
<1>2. TypeOK /\ [Next]_vars => TypeOK'
  BY StepTypeOK
<1> QED
  BY <1>1, <1>2, PTL DEF Spec

-----------------------------------------------------------------------------
(* The handlers in flight.                                                  *)

\* Loads are only ever added to the ledger.
LEMMA LedgerGrows ==
  ASSUME TypeOK, [Next]_vars
  PROVE  \A t \in Trips : ledger[t] <= ledger'[t]
<1> USE TripLifecycleAssumption
<1> SUFFICES ASSUME NEW t \in Trips
             PROVE  ledger[t] <= ledger'[t]
  OBVIOUS
<1>0. ledger[t] \in Nat
  BY DEF TypeOK
<1>1. CASE UNCHANGED ledger
  BY <1>0, <1>1
<1>2. ASSUME NEW u \in Trips, NEW n \in Sizes \cup {0},
             ledger' = [ledger EXCEPT ![u] = @ + n]
      PROVE  ledger[t] <= ledger'[t]
  <2>1. n \in Nat
    BY OverrideTyped
  <2> QED
    BY <1>0, <1>2, <2>1 DEF TypeOK
<1>3. ASSUME NEW r \in Requests, RequestStep(r)
      PROVE  ledger[t] <= ledger'[t]
  <2>1. ASSUME NEW s \in Status, NEW n \in Sizes \cup {0}, ForceStatus(r, s, n)
        PROVE  ledger[t] <= ledger'[t]
    <3>1. req[r].trip \in Trips
      BY <2>1, BusySlot DEF ForceStatus, OverrideAllowed, Ready, Slot
    <3> QED
      BY <1>2, <2>1, <3>1 DEF ForceStatus
  <2>2. ASSUME NEW s \in Status, NEW n \in Sizes \cup {0},
               ForceStatusRefused(r, s, n)
        PROVE  ledger[t] <= ledger'[t]
    <3>1. req[r].trip \in Trips
      BY <2>2, BusySlot DEF ForceStatusRefused, OverrideAllowed, Ready, Slot
    <3> QED
      BY <1>2, <2>2, <3>1 DEF ForceStatusRefused
  <2>3. ASSUME NEW n \in Sizes, InsertBaleLoad(r, n)
        PROVE  ledger[t] <= ledger'[t]
    <3>1. req[r].trip \in Trips
      BY <2>3, BusySlot DEF InsertBaleLoad, Ready, Slot
    <3> QED
      BY <1>2, <2>3, <3>1 DEF InsertBaleLoad
  <2>4. CASE \/ StartLoading(r) \/ SumLoads(r) \/ CompleteLoading(r) \/ Depart(r)
             \/ Arrive(r) \/ StartDelivery(r) \/ ConfirmDelivery(r) \/ Complete(r)
             \/ StartDepotUnload(r) \/ (\E n \in Sizes : ConfirmDepotDelivery(r, n))
             \/ Cancel(r) \/ Dispute(r) \/ ResolveDispute(r) \/ QueueCmr(r)
    BY <1>1, <2>4 DEF StartLoading, SumLoads, CompleteLoading, Depart, Arrive,
       StartDelivery, ConfirmDelivery, Complete, StartDepotUnload,
       ConfirmDepotDelivery, Cancel, Dispute, ResolveDispute, QueueCmr
  <2>5. CASE \/ \E u \in Trips, op \in Ops : Read(r, u, op)
             \/ (\E d \in Depots : SetDestination(r, d)) \/ SoftDelete(r)
             \/ RecountBales(r)
             \/ (\E d \in Depots : AutoUpsertFromTruckTask(r, d)) \/ Abandon(r)
    BY <1>1, <2>5 DEF Read, SetDestination, SoftDelete, RecountBales,
       AutoUpsertFromTruckTask, Abandon
  <2> QED
    BY <1>3, <2>1, <2>2, <2>3, <2>4, <2>5 DEF RequestStep
<1>4. ASSUME NEW u \in Trips, NEW n \in Sizes, RegisterLoad(u, n)
      PROVE  ledger[t] <= ledger'[t]
  BY <1>2, <1>4 DEF RegisterLoad
<1>5. ASSUME NEW u \in Trips, CancelPlanned(u)
      PROVE  ledger[t] <= ledger'[t]
  BY <1>1, <1>5 DEF CancelPlanned
<1> QED
  BY <1>1, <1>3, <1>4, <1>5 DEF Next, vars, AutoCancelForTruckTask, SweepStalePlannedTrips

\* A step gives a slot one of these values.
LEMMA SlotSteps ==
  ASSUME TypeOK, [Next]_vars, NEW q \in Requests
  PROVE  \/ req'[q] = req[q]
         \/ req'[q] = Idle
         \/ \E t \in Trips, op \in Ops : Read(q, t, op)
         \/ SumLoads(q)
         \/ /\ req[q].pc # "idle"
            /\ \E p \in {"queue", "recount"} : req'[q] = [req[q] EXCEPT !.pc = p]
<1> DEFINE Goal == \/ req'[q] = req[q]
                   \/ req'[q] = Idle
                   \/ \E t \in Trips, op \in Ops : Read(q, t, op)
                   \/ SumLoads(q)
                   \/ /\ req[q].pc # "idle"
                      /\ \E p \in {"queue", "recount"} : req'[q] = [req[q] EXCEPT !.pc = p]
<1> SUFFICES Goal
  OBVIOUS
<1>1. ASSUME NEW r \in Requests, Done(r)
      PROVE  Goal
  BY <1>1 DEF Done, TypeOK
<1>2. ASSUME NEW r \in Requests, OwesCmr(r), req[r].pc # "idle"
      PROVE  Goal
  BY <1>2 DEF OwesCmr, TypeOK
<1>3. ASSUME NEW r \in Requests, RequestStep(r)
      PROVE  Goal
  <2>1. ASSUME NEW t \in Trips, NEW op \in Ops, Read(r, t, op)
        PROVE  Goal
    <3>1. CASE r = q
      BY <2>1, <3>1
    <3>2. CASE r # q
      BY <2>1, <3>2 DEF Read, TypeOK
    <3> QED
      BY <3>1, <3>2
  <2>2. CASE SumLoads(r)
    <3>1. CASE r = q
      BY <2>2, <3>1
    <3>2. CASE r # q
      BY <2>2, <3>2 DEF SumLoads, TypeOK
    <3> QED
      BY <3>1, <3>2
  <2>3. ASSUME NEW n \in Sizes, InsertBaleLoad(r, n)
        PROVE  Goal
    <3>1. req' = [req EXCEPT ![r].pc = "recount"] /\ req[r].pc # "idle"
      BY <2>3 DEF InsertBaleLoad, Ready
    <3> QED
      BY <3>1 DEF TypeOK
  <2>4. CASE \/ Depart(r) \/ Complete(r) \/ (\E n \in Sizes : ConfirmDepotDelivery(r, n))
             \/ ResolveDispute(r)
    BY <1>1, <1>2, <2>4 DEF Depart, Complete, ConfirmDepotDelivery, ResolveDispute, Ready
  <2>5. CASE \/ StartLoading(r) \/ CompleteLoading(r) \/ Arrive(r) \/ StartDelivery(r)
             \/ ConfirmDelivery(r) \/ StartDepotUnload(r) \/ Cancel(r) \/ Dispute(r)
             \/ QueueCmr(r)
    BY <1>1, <2>5 DEF StartLoading, CompleteLoading, Arrive, StartDelivery,
       ConfirmDelivery, StartDepotUnload, Cancel, Dispute, QueueCmr
  <2>6. CASE \/ \E s \in Status, n \in Sizes \cup {0} : ForceStatus(r, s, n)
             \/ \E s \in Status, n \in Sizes \cup {0} : ForceStatusRefused(r, s, n)
             \/ (\E d \in Depots : SetDestination(r, d)) \/ SoftDelete(r)
             \/ RecountBales(r)
             \/ (\E d \in Depots : AutoUpsertFromTruckTask(r, d)) \/ Abandon(r)
    BY <1>1, <2>6 DEF ForceStatus, ForceStatusRefused, SetDestination, SoftDelete,
       RecountBales, AutoUpsertFromTruckTask, Abandon
  <2> QED
    BY <1>3, <2>1, <2>2, <2>3, <2>4, <2>5, <2>6 DEF RequestStep
<1>4. ASSUME NEW t \in Trips,
             \/ \E n \in Sizes : RegisterLoad(t, n)
             \/ AutoCancelForTruckTask(t) \/ SweepStalePlannedTrips(t)
      PROVE  Goal
  BY <1>4 DEF RegisterLoad, AutoCancelForTruckTask, SweepStalePlannedTrips, CancelPlanned
<1> QED
  BY <1>3, <1>4 DEF Next, vars

\* A handler in flight keeps what it validated, and the ledger under it only grows.
LEMMA InFlightValidStep ==
  ASSUME TypeOK, InFlightValid, [Next]_vars
  PROVE  InFlightValid'
<1> USE TripLifecycleAssumption
<1> SUFFICES ASSUME NEW q \in Requests, req'[q] # Idle
             PROVE  /\ req'[q].pc \in {"ready", "summed"} =>
                         Validated(req'[q].op, req'[q].from)
                    /\ req'[q].pc = "summed" =>
                         req'[q].op = "COMPLETE_LOADING" /\ req'[q].n > 0
                    /\ req'[q].n <= ledger'[req'[q].trip]
  BY DEF InFlightValid, Validated
<1>1. \A t \in Trips : ledger[t] <= ledger'[t] /\ ledger[t] \in Nat
  BY LedgerGrows DEF TypeOK
<1>2. TypeOK'
  BY StepTypeOK
<1>3. \A t \in Trips : ledger'[t] \in Nat
  BY <1>2 DEF TypeOK
<1>4. ASSUME req[q] # Idle
      PROVE  /\ req[q].trip \in Trips /\ req[q].n \in Nat
             /\ req[q].n <= ledger'[req[q].trip]
  <2>1. req[q] \in Slot
    BY <1>4 DEF TypeOK
  <2>2. req[q].trip \in Trips /\ req[q].n \in Nat
    BY <2>1 DEF Slot
  <2>3. req[q].n <= ledger[req[q].trip]
    BY <1>4 DEF InFlightValid
  <2> QED
    BY <1>1, <1>3, <2>2, <2>3
<1>5. CASE req'[q] = req[q]
  BY <1>4, <1>5 DEF InFlightValid
<1>6. ASSUME NEW t \in Trips, NEW op \in Ops, Read(q, t, op)
      PROVE  /\ Validated(req'[q].op, req'[q].from)
             /\ req'[q].pc = "ready"
             /\ req'[q].n <= ledger'[req'[q].trip]
  <2>1. PICK d : req' = [req EXCEPT ![q] =
                 [pc |-> "ready", op |-> op, trip |-> t, from |-> status[t],
                  n |-> IF op = "FORCE_STATUS" THEN ledger[t] ELSE 0, dest |-> d]]
    BY <1>6 DEF Read
  <2>2. req'[q] = [pc |-> "ready", op |-> op, trip |-> t, from |-> status[t],
                   n |-> IF op = "FORCE_STATUS" THEN ledger[t] ELSE 0, dest |-> d]
    BY <2>1 DEF TypeOK
  <2> QED
    BY <1>1, <1>6, <2>2 DEF Read
<1>7. CASE SumLoads(q)
  <2>1. req[q].pc = "ready" /\ req[q].op = "COMPLETE_LOADING"
    BY <1>7 DEF SumLoads, Ready
  <2>2. req[q] # Idle /\ req[q] \in Slot
    BY <2>1, BusySlot, IdleSlot
  <2>3. req'[q] = [req[q] EXCEPT !.pc = "summed", !.n = ledger[req[q].trip]]
    BY <1>7 DEF SumLoads, TypeOK
  <2>4. /\ req'[q].op = req[q].op /\ req'[q].from = req[q].from
        /\ req'[q].trip = req[q].trip /\ req'[q].n = ledger[req[q].trip]
    BY <2>2, <2>3 DEF Slot
  <2>5. Validated(req[q].op, req[q].from)
    BY <2>1, <2>2 DEF InFlightValid
  <2>6. ledger[req[q].trip] > 0 /\ ledger' = ledger /\ ledger[req[q].trip] \in Nat
    BY <1>1, <1>4, <1>7, <2>2 DEF SumLoads
  <2> QED
    BY <2>1, <2>4, <2>5, <2>6
<1>8. ASSUME req[q].pc # "idle",
             NEW p \in {"queue", "recount"}, req'[q] = [req[q] EXCEPT !.pc = p]
      PROVE  /\ req'[q].pc \notin {"ready", "summed"}
             /\ req'[q].n <= ledger'[req'[q].trip]
  <2>1. req[q] # Idle /\ req[q] \in Slot
    BY <1>8, BusySlot, IdleSlot
  <2>2. req'[q].pc = p /\ req'[q].n = req[q].n /\ req'[q].trip = req[q].trip
    BY <1>8, <2>1 DEF Slot
  <2> QED
    BY <1>4, <2>1, <2>2
<1> QED
  BY <1>5, <1>6, <1>7, <1>8, SlotSteps

-----------------------------------------------------------------------------
(* The invariants on trips.                                                 *)

\* Where each event may come from.
LEMMA Sources ==
  \A s \in Status :
    /\ "START_LOADING" \in Available(s) => s = "planned"
    /\ "COMPLETE_LOADING" \in Available(s) => s = "loading"
    /\ "REGISTER_LOAD" \in Available(s) => s \in {"planned", "loading"}
    /\ "DEPART" \in Available(s) => s = "loaded"
    /\ "ARRIVE" \in Available(s) => s = "in_transit"
    /\ "START_DELIVERY" \in Available(s) => s = "arrived"
    /\ "START_DEPOT_UNLOAD" \in Available(s) => s \in {"in_transit", "arrived"}
    /\ "CONFIRM_DELIVERY" \in Available(s) => s = "delivering"
    /\ "CONFIRM_DELIVERY_AT_DEPOT" \in Available(s) =>
         s \in {"in_transit", "arrived", "delivering"}
    /\ "COMPLETE" \in Available(s) => s = "delivered"
    /\ "DISPUTE" \in Available(s) => s \in {"delivered", "completed"}
    /\ "RESOLVE_DISPUTE" \in Available(s) => s = "disputed"
BY DEF Available, Status

\* A handler of event e that commits does so on a trip it may move.
LEMMA CommitSource ==
  ASSUME TypeOK, InFlightValid, NEW r \in Requests, NEW e \in Event,
         req[r].pc \in {"ready", "summed"}, req[r].op = e,
         status[req[r].trip] = req[r].from
  PROVE  /\ req[r].trip \in Trips
         /\ status[req[r].trip] \in Status
         /\ e \in Available(status[req[r].trip])
<1>1. req[r] \in Slot /\ req[r] # Idle
  BY BusySlot, IdleSlot
<1>2. Validated(req[r].op, req[r].from)
  BY <1>1 DEF InFlightValid
<1> QED
  BY <1>1, <1>2 DEF Validated, Slot, TypeOK

\* A committing handler keeps the evidence when it stamps what the new status
\* requires and the old one did not.
LEMMA MoveEvidence ==
  ASSUME TypeOK, EvidenceComplete, NEW r \in Requests, req[r].trip \in Trips,
         NEW to, NEW stamped, Move(r, to, stamped), overridden' = overridden,
         Required(to) \subseteq Required(status[req[r].trip]) \cup stamped
  PROVE  EvidenceComplete'
<1> SUFFICES ASSUME NEW t \in Trips, overridden[t] = {}
             PROVE  Required(status'[t]) \subseteq stamps'[t]
  BY DEF EvidenceComplete, Required
<1>1. Required(status[t]) \subseteq stamps[t]
  BY DEF EvidenceComplete
<1>2. CASE t = req[r].trip
  BY <1>1, <1>2 DEF Move, TypeOK
<1>3. CASE t # req[r].trip
  BY <1>1, <1>3 DEF Move, TypeOK
<1> QED
  BY <1>2, <1>3

\* What the new status requires beyond the old one, event by event.
LEMMA RequiredGrowth ==
  /\ Required("loading") \subseteq Required("planned") \cup {"loading_started_at"}
  /\ Required("loaded") \subseteq Required("loading") \cup {"loading_completed_at"}
  /\ Required("loaded") \subseteq {"loading_started_at", "loading_completed_at"}
  /\ Required("in_transit") \subseteq Required("loaded") \cup {"departure_at"}
  /\ Required("arrived") \subseteq Required("in_transit") \cup {"arrival_at"}
  /\ Required("delivering") \subseteq Required("arrived")
  /\ Required("delivering") \subseteq Required("in_transit") \cup {"arrival_at"}
  /\ Required("delivered") \subseteq Required("delivering") \cup {"delivered_at"}
  /\ Required("completed") \subseteq Required("delivered") \cup {"completed_at"}
  /\ \A s \in {"in_transit", "arrived", "delivering"} :
       Required("completed") \subseteq
         Required(s) \cup {"arrival_at", "delivered_at", "completed_at"}
  /\ Required("disputed") \subseteq Required("delivered")
  /\ Required("disputed") \subseteq Required("completed")
  /\ Required("delivered") \subseteq Required("disputed")
  /\ Required("completed") \subseteq Required("disputed") \cup {"completed_at"}
  /\ Required("cancelled") \subseteq {"cancelled_at"}
BY DEF Required

LEMMA EvidenceStep ==
  ASSUME TypeOK, InFlightValid, EvidenceComplete, [Next]_vars
  PROVE  EvidenceComplete'
<1> USE TripLifecycleAssumption
<1>1. CASE UNCHANGED <<status, stamps, overridden>>
  BY <1>1 DEF EvidenceComplete
<1>2. ASSUME NEW r \in Requests, RequestStep(r)
      PROVE  EvidenceComplete'
  <2>1. CASE StartLoading(r)
    <3>1. req[r].trip \in Trips /\ status[req[r].trip] = "planned"
      BY <2>1, CommitSource, Sources DEF StartLoading, Ready, Move, Event
    <3> QED
      BY <2>1, <3>1, MoveEvidence, RequiredGrowth DEF StartLoading
  <2>2. CASE CompleteLoading(r)
    <3>1. req[r].op = "COMPLETE_LOADING"
      BY <2>2, IdleSlot DEF CompleteLoading, InFlightValid
    <3>2. req[r].trip \in Trips /\ status[req[r].trip] = "loading"
      BY <2>2, <3>1, CommitSource, Sources DEF CompleteLoading, Move, Event
    <3> QED
      BY <2>2, <3>2, MoveEvidence, RequiredGrowth DEF CompleteLoading
  <2>3. CASE Depart(r)
    <3>1. req[r].trip \in Trips /\ status[req[r].trip] = "loaded"
      BY <2>3, CommitSource, Sources DEF Depart, Ready, Move, Event
    <3> QED
      BY <2>3, <3>1, MoveEvidence, RequiredGrowth DEF Depart
  <2>4. CASE Arrive(r)
    <3>1. req[r].trip \in Trips /\ status[req[r].trip] = "in_transit"
      BY <2>4, CommitSource, Sources DEF Arrive, Ready, Move, Event
    <3> QED
      BY <2>4, <3>1, MoveEvidence, RequiredGrowth DEF Arrive
  <2>5. CASE StartDelivery(r)
    <3>1. req[r].trip \in Trips /\ status[req[r].trip] = "arrived"
      BY <2>5, CommitSource, Sources DEF StartDelivery, Ready, Move, Event
    <3> QED
      BY <2>5, <3>1, MoveEvidence, RequiredGrowth DEF StartDelivery
  <2>6. CASE ConfirmDelivery(r)
    <3>1. req[r].trip \in Trips /\ status[req[r].trip] = "delivering"
      BY <2>6, CommitSource, Sources DEF ConfirmDelivery, Ready, Move, Event
    <3> QED
      BY <2>6, <3>1, MoveEvidence, RequiredGrowth DEF ConfirmDelivery
  <2>7. CASE Complete(r)
    <3>1. req[r].trip \in Trips /\ status[req[r].trip] = "delivered"
      BY <2>7, CommitSource, Sources DEF Complete, Ready, Move, Event
    <3> QED
      BY <2>7, <3>1, MoveEvidence, RequiredGrowth DEF Complete
  <2>8. CASE StartDepotUnload(r)
    <3>1. /\ req[r].trip \in Trips
          /\ status[req[r].trip] \in {"in_transit", "arrived"}
      BY <2>8, CommitSource, Sources DEF StartDepotUnload, Ready, Move, Event
    <3>2. Required("delivering") \subseteq
            Required(status[req[r].trip]) \cup {"arrival_at", "depot_unload_started_at"}
      BY <3>1, RequiredGrowth
    <3> QED
      BY <2>8, <3>1, <3>2, MoveEvidence DEF StartDepotUnload
  <2>9. ASSUME NEW n \in Sizes, ConfirmDepotDelivery(r, n)
        PROVE  EvidenceComplete'
    <3>1. /\ req[r].trip \in Trips
          /\ status[req[r].trip] \in {"in_transit", "arrived", "delivering"}
      BY <2>9, CommitSource, Sources DEF ConfirmDepotDelivery, Ready, Move, Event
    <3>2. Required("completed") \subseteq
            Required(status[req[r].trip]) \cup
              {"arrival_at", "delivered_at", "depot_confirmed_at", "completed_at"}
      BY <3>1, RequiredGrowth
    <3> QED
      BY <2>9, <3>1, <3>2, MoveEvidence DEF ConfirmDepotDelivery
  <2>10. CASE Cancel(r)
    <3>1. req[r].trip \in Trips
      BY <2>10, BusySlot DEF Cancel, Ready, Slot
    <3> QED
      BY <2>10, <3>1, MoveEvidence, RequiredGrowth DEF Cancel
  <2>11. CASE Dispute(r)
    <3>1. req[r].trip \in Trips /\ status[req[r].trip] \in {"delivered", "completed"}
      BY <2>11, CommitSource, Sources DEF Dispute, Ready, Move, Event
    <3>2. Required("disputed") \subseteq Required(status[req[r].trip]) \cup {}
      BY <3>1, RequiredGrowth
    <3> QED
      BY <2>11, <3>1, <3>2, MoveEvidence DEF Dispute
  <2>12. CASE ResolveDispute(r)
    <3>1. status[req[r].trip] = req[r].from /\ overridden' = overridden
      BY <2>12 DEF ResolveDispute, Move
    <3>2. req[r].trip \in Trips /\ status[req[r].trip] = "disputed"
      BY <2>12, <3>1, CommitSource, Sources DEF ResolveDispute, Ready, Event
    <3>3. CASE Move(r, "delivered", {})
      BY <3>1, <3>2, <3>3, MoveEvidence, RequiredGrowth
    <3>4. CASE Move(r, "completed", {"completed_at"})
      BY <3>1, <3>2, <3>4, MoveEvidence, RequiredGrowth
    <3> QED
      BY <2>12, <3>3, <3>4 DEF ResolveDispute
  <2>13. ASSUME NEW s \in Status, NEW n \in Sizes \cup {0}, ForceStatus(r, s, n)
         PROVE  EvidenceComplete'
    <3>1. req[r].trip \in Trips
      BY <2>13, BusySlot DEF ForceStatus, OverrideAllowed, Ready, Slot
    <3>2. overridden'[req[r].trip] # {}
      BY <2>13, <3>1 DEF ForceStatus, TypeOK
    <3>3. ASSUME NEW t \in Trips, t # req[r].trip
          PROVE  /\ status'[t] = status[t] /\ stamps'[t] = stamps[t]
                 /\ overridden'[t] = overridden[t]
      BY <2>13, <3>3 DEF ForceStatus, TypeOK
    <3> QED
      BY <3>2, <3>3 DEF EvidenceComplete, Required
  <2>14. CASE \/ SumLoads(r) \/ QueueCmr(r)
              \/ \E t \in Trips, op \in Ops : Read(r, t, op)
              \/ \E s \in Status, n \in Sizes \cup {0} : ForceStatusRefused(r, s, n)
              \/ (\E d \in Depots : SetDestination(r, d)) \/ SoftDelete(r)
              \/ (\E n \in Sizes : InsertBaleLoad(r, n)) \/ RecountBales(r)
              \/ (\E d \in Depots : AutoUpsertFromTruckTask(r, d))
              \/ Abandon(r)
    BY <1>1, <2>14 DEF SumLoads, QueueCmr, Read, ForceStatusRefused, SetDestination,
       SoftDelete, InsertBaleLoad, RecountBales, AutoUpsertFromTruckTask, Abandon
  <2> QED
    BY <1>2, <2>1, <2>2, <2>3, <2>4, <2>5, <2>6, <2>7, <2>8, <2>9, <2>10, <2>11,
       <2>12, <2>13, <2>14 DEF RequestStep
<1>3. ASSUME NEW u \in Trips, NEW n \in Sizes, RegisterLoad(u, n)
      PROVE  EvidenceComplete'
  <2> SUFFICES ASSUME NEW t \in Trips, overridden[t] = {}
               PROVE  Required(status'[t]) \subseteq stamps'[t]
    BY <1>3 DEF RegisterLoad, EvidenceComplete, Required
  <2>1. CASE t = u
    BY <1>3, <2>1, RequiredGrowth DEF RegisterLoad, TypeOK
  <2>2. CASE t # u
    BY <1>3, <2>2 DEF RegisterLoad, TypeOK, EvidenceComplete
  <2> QED
    BY <2>1, <2>2
<1>4. ASSUME NEW u \in Trips, CancelPlanned(u)
      PROVE  EvidenceComplete'
  <2> SUFFICES ASSUME NEW t \in Trips, overridden[t] = {}
               PROVE  Required(status'[t]) \subseteq stamps'[t]
    BY <1>4 DEF CancelPlanned, EvidenceComplete, Required
  <2>1. CASE t = u
    BY <1>4, <2>1, RequiredGrowth DEF CancelPlanned, TypeOK
  <2>2. CASE t # u
    BY <1>4, <2>2 DEF CancelPlanned, TypeOK, EvidenceComplete
  <2> QED
    BY <2>1, <2>2
<1> QED
  BY <1>1, <1>2, <1>3, <1>4 DEF Next, vars, AutoCancelForTruckTask, SweepStalePlannedTrips

LEMMA BaleCountStep ==
  ASSUME TypeOK, InFlightValid, BaleCountCovered, [Next]_vars
  PROVE  BaleCountCovered'
<1> USE TripLifecycleAssumption
<1>1. \A t \in Trips : /\ ledger[t] \in Nat /\ ledger'[t] \in Nat
                       /\ ledger[t] <= ledger'[t]
                       /\ baleCount[t] \in Nat
  BY LedgerGrows, StepTypeOK DEF TypeOK
<1>2. CASE UNCHANGED <<baleCount, depotCount>>
  BY <1>1, <1>2 DEF BaleCountCovered
\* A handler that stores a count stores one the ledger covers.
<1>3. ASSUME NEW u \in Trips, NEW n \in Nat, n <= ledger'[u],
             baleCount' = [baleCount EXCEPT ![u] = n], depotCount' = depotCount
      PROVE  BaleCountCovered'
  <2> SUFFICES ASSUME NEW t \in Trips, depotCount[t] = None
               PROVE  baleCount'[t] <= ledger'[t]
    BY <1>3 DEF BaleCountCovered
  <2>1. CASE t = u
    BY <1>3, <2>1 DEF TypeOK
  <2>2. CASE t # u
    BY <1>1, <1>3, <2>2 DEF TypeOK, BaleCountCovered
  <2> QED
    BY <2>1, <2>2
<1>4. ASSUME NEW r \in Requests, RequestStep(r)
      PROVE  BaleCountCovered'
  <2>1. CASE CompleteLoading(r)
    <3>1. req[r] \in Slot /\ req[r] # Idle
      BY <2>1, BusySlot, IdleSlot DEF CompleteLoading
    <3>2. req[r].trip \in Trips /\ req[r].n \in Nat
      BY <3>1 DEF Slot
    <3>3. req[r].n <= ledger[req[r].trip] /\ ledger' = ledger
      BY <2>1, <3>1 DEF InFlightValid, CompleteLoading
    <3> QED
      BY <1>3, <2>1, <3>2, <3>3 DEF CompleteLoading
  <2>2. ASSUME NEW n \in Sizes, ConfirmDepotDelivery(r, n)
        PROVE  BaleCountCovered'
    <3>1. req[r].trip \in Trips
      BY <2>2, BusySlot DEF ConfirmDepotDelivery, Ready, Slot
    <3>2. depotCount'[req[r].trip] # None
      BY <2>2, <3>1 DEF ConfirmDepotDelivery, TypeOK
    <3>3. ASSUME NEW t \in Trips, t # req[r].trip
          PROVE  /\ baleCount'[t] = baleCount[t] /\ depotCount'[t] = depotCount[t]
                 /\ ledger'[t] = ledger[t]
      BY <2>2, <3>3 DEF ConfirmDepotDelivery, TypeOK
    <3> QED
      BY <3>2, <3>3 DEF BaleCountCovered
  <2>3. ASSUME NEW s \in Status, NEW n \in Sizes \cup {0}, ForceStatus(r, s, n)
        PROVE  BaleCountCovered'
    <3>1. req[r].trip \in Trips
      BY <2>3, BusySlot DEF ForceStatus, OverrideAllowed, Ready, Slot
    <3>2. CASE n > 0
      <4>1. ledger'[req[r].trip] = ledger[req[r].trip] + n
        BY <2>3, <3>1 DEF ForceStatus, TypeOK
      <4>2. /\ baleCount' = [baleCount EXCEPT ![req[r].trip] = ledger'[req[r].trip]]
            /\ depotCount' = depotCount
        BY <2>3, <3>2, <4>1 DEF ForceStatus
      <4>3. PICK m \in Nat : m = ledger'[req[r].trip]
        BY <1>1, <3>1
      <4>4. baleCount' = [baleCount EXCEPT ![req[r].trip] = m] /\ m <= ledger'[req[r].trip]
        BY <4>2, <4>3
      <4> QED
        BY <1>3, <3>1, <4>2, <4>3, <4>4
    <3>3. CASE ~(n > 0)
      BY <1>2, <2>3, <3>3 DEF ForceStatus
    <3> QED
      BY <3>2, <3>3
  <2>4. CASE RecountBales(r)
    <3>1. req[r].trip \in Trips
      BY <2>4, BusySlot DEF RecountBales, Slot
    <3> QED
      BY <1>1, <1>3, <2>4, <3>1 DEF RecountBales
  <2>5. CASE \/ StartLoading(r) \/ SumLoads(r) \/ Depart(r) \/ Arrive(r)
             \/ StartDelivery(r) \/ ConfirmDelivery(r) \/ Complete(r)
             \/ StartDepotUnload(r) \/ Cancel(r) \/ Dispute(r) \/ ResolveDispute(r)
             \/ QueueCmr(r)
    BY <1>2, <2>5 DEF StartLoading, SumLoads, Depart, Arrive, StartDelivery,
       ConfirmDelivery, Complete, StartDepotUnload, Cancel, Dispute, ResolveDispute,
       QueueCmr
  <2>6. CASE \/ \E t \in Trips, op \in Ops : Read(r, t, op)
             \/ \E s \in Status, n \in Sizes \cup {0} : ForceStatusRefused(r, s, n)
             \/ (\E d \in Depots : SetDestination(r, d)) \/ SoftDelete(r)
             \/ (\E n \in Sizes : InsertBaleLoad(r, n))
             \/ (\E d \in Depots : AutoUpsertFromTruckTask(r, d)) \/ Abandon(r)
    BY <1>2, <2>6 DEF Read, ForceStatusRefused, SetDestination, SoftDelete,
       InsertBaleLoad, AutoUpsertFromTruckTask, Abandon
  <2> QED
    BY <1>4, <2>1, <2>2, <2>3, <2>4, <2>5, <2>6 DEF RequestStep
<1>5. ASSUME NEW u \in Trips, NEW n \in Sizes, RegisterLoad(u, n)
      PROVE  BaleCountCovered'
  <2>1. ledger'[u] = ledger[u] + n
    BY <1>5 DEF RegisterLoad, TypeOK
  <2>2. /\ baleCount' = [baleCount EXCEPT ![u] = ledger'[u]]
        /\ depotCount' = depotCount
    BY <1>5, <2>1 DEF RegisterLoad
  <2>3. PICK m \in Nat : m = ledger'[u]
    BY <1>1
  <2>4. baleCount' = [baleCount EXCEPT ![u] = m] /\ m <= ledger'[u]
    BY <2>2, <2>3
  <2> QED
    BY <1>3, <2>2, <2>3, <2>4
<1>6. ASSUME NEW u \in Trips, CancelPlanned(u)
      PROVE  BaleCountCovered'
  BY <1>2, <1>6 DEF CancelPlanned
<1> QED
  BY <1>2, <1>4, <1>5, <1>6 DEF Next, vars, AutoCancelForTruckTask, SweepStalePlannedTrips

\* The statuses that the ledger must back.
Backed == ImpliesLoaded \cup {"disputed"}

LEMMA LoadBehindStep ==
  ASSUME TypeOK, InFlightValid, LoadBehindStatus, [Next]_vars
  PROVE  LoadBehindStatus'
<1> USE TripLifecycleAssumption
<1>1. \A t \in Trips : /\ ledger[t] \in Nat /\ ledger'[t] \in Nat
                       /\ ledger[t] <= ledger'[t]
  BY LedgerGrows, StepTypeOK DEF TypeOK
<1>2. CASE UNCHANGED <<status, overridden>>
  BY <1>1, <1>2 DEF LoadBehindStatus
\* A trip moves to such a status from another, or with a load on the ledger.
<1>3. ASSUME NEW u \in Trips, NEW to \in Status,
             status' = [status EXCEPT ![u] = to], overridden' = overridden,
             \/ to \notin Backed
             \/ status[u] \in Backed
             \/ ledger'[u] > 0
      PROVE  LoadBehindStatus'
  <2> SUFFICES ASSUME NEW t \in Trips, status'[t] \in Backed,
                      "disputed" \notin overridden[t]
               PROVE  ledger'[t] > 0
    BY <1>3 DEF LoadBehindStatus, Backed
  <2>1. status[t] \in Backed => ledger[t] > 0
    BY DEF LoadBehindStatus, Backed
  <2>2. CASE t = u
    BY <1>1, <1>3, <2>1, <2>2 DEF TypeOK
  <2>3. CASE t # u
    BY <1>1, <1>3, <2>1, <2>3 DEF TypeOK
  <2> QED
    BY <2>2, <2>3
<1>4. ASSUME NEW r \in Requests, RequestStep(r)
      PROVE  LoadBehindStatus'
  <2>1. CASE StartLoading(r)
    <3>1. req[r].trip \in Trips /\ "loading" \notin Backed
      BY <2>1, BusySlot DEF StartLoading, Ready, Slot, Backed, ImpliesLoaded
    <3> QED
      BY <1>3, <2>1, <3>1 DEF StartLoading, Move, Status
  <2>2. CASE CompleteLoading(r)
    <3>1. req[r] \in Slot /\ req[r] # Idle
      BY <2>2, BusySlot, IdleSlot DEF CompleteLoading
    <3>2. req[r].trip \in Trips /\ req[r].n \in Nat
      BY <3>1 DEF Slot
    <3>3. req[r].n > 0 /\ req[r].n <= ledger[req[r].trip]
      BY <2>2, <3>1 DEF CompleteLoading, InFlightValid
    <3>4. ledger'[req[r].trip] > 0
      BY <1>1, <3>2, <3>3
    <3> QED
      BY <1>3, <2>2, <3>2, <3>4 DEF CompleteLoading, Move, Status
  <2>3. ASSUME NEW e \in Event, Ready(r, e), NEW to \in Status, NEW stamped,
               Move(r, to, stamped), overridden' = overridden,
               e \in {"DEPART", "ARRIVE", "START_DELIVERY", "CONFIRM_DELIVERY",
                      "COMPLETE", "START_DEPOT_UNLOAD", "CONFIRM_DELIVERY_AT_DEPOT",
                      "DISPUTE", "RESOLVE_DISPUTE"}
        PROVE  LoadBehindStatus'
    <3>1. req[r].trip \in Trips /\ status[req[r].trip] \in Status
          /\ e \in Available(status[req[r].trip])
      BY <2>3, CommitSource DEF Ready, Move
    <3>2. status[req[r].trip] \in Backed
      BY <2>3, <3>1, Sources DEF Backed, ImpliesLoaded
    <3> QED
      BY <1>3, <2>3, <3>1, <3>2 DEF Move
  <2>4. CASE \/ Depart(r) \/ Arrive(r) \/ StartDelivery(r) \/ ConfirmDelivery(r)
             \/ Complete(r) \/ StartDepotUnload(r)
             \/ (\E n \in Sizes : ConfirmDepotDelivery(r, n))
             \/ Dispute(r) \/ ResolveDispute(r)
    BY <2>3, <2>4 DEF Depart, Arrive, StartDelivery, ConfirmDelivery, Complete,
       StartDepotUnload, ConfirmDepotDelivery, Dispute, ResolveDispute, Event, Status
  <2>5. CASE Cancel(r)
    <3>1. req[r].trip \in Trips /\ "cancelled" \notin Backed
      BY <2>5, BusySlot DEF Cancel, Ready, Slot, Backed, ImpliesLoaded
    <3> QED
      BY <1>3, <2>5, <3>1 DEF Cancel, Move, Status
  <2>6. ASSUME NEW s \in Status, NEW n \in Sizes \cup {0}, ForceStatus(r, s, n)
        PROVE  LoadBehindStatus'
    <3>1. req[r] \in Slot /\ req[r] # Idle
      BY <2>6, BusySlot, IdleSlot DEF ForceStatus, OverrideAllowed, Ready
    <3>2. req[r].trip \in Trips /\ req[r].n \in Nat /\ n \in Nat
      BY <3>1, OverrideTyped DEF Slot
    <3>3. /\ status'[req[r].trip] = s
          /\ overridden'[req[r].trip] = overridden[req[r].trip] \cup {s}
          /\ ledger'[req[r].trip] = ledger[req[r].trip] + n
      BY <2>6, <3>2 DEF ForceStatus, TypeOK
    <3>4. req[r].n <= ledger[req[r].trip]
      BY <3>1 DEF InFlightValid
    <3>5. s \in ImpliesLoaded => ledger'[req[r].trip] > 0
      BY <1>1, <2>6, <3>2, <3>3, <3>4 DEF ForceStatus, OverrideAllowed
    <3>6. ASSUME NEW t \in Trips, t # req[r].trip
          PROVE  status'[t] = status[t] /\ overridden'[t] = overridden[t]
      BY <2>6, <3>6 DEF ForceStatus, TypeOK
    <3> SUFFICES ASSUME NEW t \in Trips, status'[t] \in Backed,
                        "disputed" \notin overridden'[t]
                 PROVE  ledger'[t] > 0
      BY DEF LoadBehindStatus, Backed
    <3>7. CASE t = req[r].trip
      BY <3>3, <3>5, <3>7 DEF Backed
    <3>8. CASE t # req[r].trip
      <4>1. status[t] \in Backed /\ "disputed" \notin overridden[t]
        BY <3>6, <3>8
      <4>2. ledger[t] > 0
        BY <4>1 DEF LoadBehindStatus, Backed
      <4> QED
        BY <1>1, <4>2
    <3> QED
      BY <3>7, <3>8
  <2>7. CASE \/ SumLoads(r) \/ QueueCmr(r)
             \/ \E t \in Trips, op \in Ops : Read(r, t, op)
             \/ \E s \in Status, n \in Sizes \cup {0} : ForceStatusRefused(r, s, n)
             \/ (\E d \in Depots : SetDestination(r, d)) \/ SoftDelete(r)
             \/ (\E n \in Sizes : InsertBaleLoad(r, n)) \/ RecountBales(r)
             \/ (\E d \in Depots : AutoUpsertFromTruckTask(r, d))
             \/ Abandon(r)
    BY <1>2, <2>7 DEF SumLoads, QueueCmr, Read, ForceStatusRefused, SetDestination,
       SoftDelete, InsertBaleLoad, RecountBales, AutoUpsertFromTruckTask, Abandon
  <2> QED
    BY <1>4, <2>1, <2>2, <2>4, <2>5, <2>6, <2>7 DEF RequestStep
<1>5. ASSUME NEW u \in Trips, NEW n \in Sizes, RegisterLoad(u, n)
      PROVE  LoadBehindStatus'
  <2>1. n \in Nat /\ n > 0
    BY TripLifecycleAssumption
  <2>2. ledger'[u] = ledger[u] + n
    BY <1>5 DEF RegisterLoad, TypeOK
  <2>3. ledger'[u] > 0
    BY <1>1, <2>1, <2>2
  <2>4. status' = [status EXCEPT ![u] = "loaded"] /\ overridden' = overridden
    BY <1>5 DEF RegisterLoad
  <2> QED
    BY <1>3, <2>3, <2>4 DEF Status
<1>6. ASSUME NEW u \in Trips, CancelPlanned(u)
      PROVE  LoadBehindStatus'
  <2>1. "cancelled" \notin Backed
    BY DEF Backed, ImpliesLoaded
  <2> QED
    BY <1>3, <1>6, <2>1 DEF CancelPlanned, Status
<1> QED
  BY <1>2, <1>4, <1>5, <1>6 DEF Next, vars, AutoCancelForTruckTask, SweepStalePlannedTrips

\* A trip becomes completed by a handler that then owes its final document, or
\* by an override.
LEMMA CompletionOwes ==
  ASSUME TypeOK, [Next]_vars, NEW t \in Trips,
         status'[t] = "completed", status[t] # "completed", overridden'[t] = {}
  PROVE  OwesStage2(t)'
<1> USE TripLifecycleAssumption
\* Only the trip a step names changes its status.
<1>1. ASSUME NEW r \in Requests, Ready(r, "COMPLETE") \/ Ready(r, "RESOLVE_DISPUTE")
               \/ Ready(r, "CONFIRM_DELIVERY_AT_DEPOT"),
             NEW to, NEW stamped, Move(r, to, stamped), OwesCmr(r)
      PROVE  OwesStage2(t)'
  <2>1. req[r] \in Slot
    BY <1>1, BusySlot DEF Ready
  <2>2. req'[r] = [req[r] EXCEPT !.pc = "queue"]
    BY <1>1 DEF OwesCmr, TypeOK
  <2>3. req'[r].pc = "queue" /\ req'[r].trip = req[r].trip /\ req'[r].op = req[r].op
    BY <2>1, <2>2 DEF Slot
  <2>4. Stage(req[r].op) = 2
    BY <1>1 DEF Stage, Ready
  <2>5. req[r].trip = t
    BY <1>1 DEF Move, TypeOK
  <2>6. Stage(req'[r].op) = 2
    BY <2>3, <2>4
  <2> QED
    BY <2>3, <2>5, <2>6 DEF OwesStage2, Stage
<1>2. ASSUME NEW r \in Requests, NEW to, NEW stamped, Move(r, to, stamped), to # "completed"
      PROVE  FALSE
  BY <1>2 DEF Move, TypeOK
<1>3. CASE UNCHANGED status
  BY <1>3
<1>4. ASSUME NEW r \in Requests, RequestStep(r)
      PROVE  OwesStage2(t)'
  <2>1. CASE Complete(r)
    BY <1>1, <2>1 DEF Complete
  <2>2. ASSUME NEW n \in Sizes, ConfirmDepotDelivery(r, n)
        PROVE  OwesStage2(t)'
    BY <1>1, <2>2 DEF ConfirmDepotDelivery
  <2>3. CASE ResolveDispute(r)
    BY <1>1, <1>2, <2>3 DEF ResolveDispute
  <2>4. CASE \/ StartLoading(r) \/ CompleteLoading(r) \/ Depart(r) \/ Arrive(r)
             \/ StartDelivery(r) \/ ConfirmDelivery(r) \/ StartDepotUnload(r)
             \/ Cancel(r) \/ Dispute(r)
    BY <1>2, <2>4 DEF StartLoading, CompleteLoading, Depart, Arrive, StartDelivery,
       ConfirmDelivery, StartDepotUnload, Cancel, Dispute
  <2>5. ASSUME NEW s \in Status, NEW n \in Sizes \cup {0}, ForceStatus(r, s, n)
        PROVE  FALSE
    BY <2>5 DEF ForceStatus, TypeOK
  <2>6. CASE \/ SumLoads(r) \/ QueueCmr(r)
             \/ \E u \in Trips, op \in Ops : Read(r, u, op)
             \/ \E s \in Status, n \in Sizes \cup {0} : ForceStatusRefused(r, s, n)
             \/ (\E d \in Depots : SetDestination(r, d)) \/ SoftDelete(r)
             \/ (\E n \in Sizes : InsertBaleLoad(r, n)) \/ RecountBales(r)
             \/ (\E d \in Depots : AutoUpsertFromTruckTask(r, d))
             \/ Abandon(r)
    BY <1>3, <2>6 DEF SumLoads, QueueCmr, Read, ForceStatusRefused, SetDestination,
       SoftDelete, InsertBaleLoad, RecountBales, AutoUpsertFromTruckTask, Abandon
  <2> QED
    BY <1>4, <2>1, <2>2, <2>3, <2>4, <2>5, <2>6 DEF RequestStep
<1>5. ASSUME NEW u \in Trips, NEW n \in Sizes, RegisterLoad(u, n)
      PROVE  FALSE
  BY <1>5 DEF RegisterLoad, TypeOK
<1>6. ASSUME NEW u \in Trips, CancelPlanned(u)
      PROVE  FALSE
  BY <1>6 DEF CancelPlanned, TypeOK
<1> QED
  BY <1>3, <1>4, <1>5, <1>6 DEF Next, vars, AutoCancelForTruckTask, SweepStalePlannedTrips

\* A job that is owed stays owed until it is queued or its handler dies, and a
\* queued or lost job stays so.
LEMMA JobKept ==
  ASSUME TypeOK, [Next]_vars, NEW t \in Trips,
         <<t, 2>> \in cmr \cup lostCmr \/ OwesStage2(t)
  PROVE  <<t, 2>> \in cmr' \cup lostCmr' \/ OwesStage2(t)'
<1>1. cmr \subseteq cmr' /\ lostCmr \subseteq lostCmr'
  <2>1. ASSUME NEW r \in Requests, RequestStep(r)
        PROVE  cmr \subseteq cmr' /\ lostCmr \subseteq lostCmr'
    <3>1. CASE QueueCmr(r) \/ Abandon(r)
      BY <3>1 DEF QueueCmr, Abandon
    <3>2. CASE \/ StartLoading(r) \/ SumLoads(r) \/ CompleteLoading(r) \/ Depart(r)
               \/ Arrive(r) \/ StartDelivery(r) \/ ConfirmDelivery(r) \/ Complete(r)
               \/ StartDepotUnload(r) \/ (\E n \in Sizes : ConfirmDepotDelivery(r, n))
               \/ Cancel(r) \/ Dispute(r) \/ ResolveDispute(r)
      BY <3>2 DEF StartLoading, SumLoads, CompleteLoading, Depart, Arrive,
         StartDelivery, ConfirmDelivery, Complete, StartDepotUnload,
         ConfirmDepotDelivery, Cancel, Dispute, ResolveDispute
    <3>3. CASE \/ \E u \in Trips, op \in Ops : Read(r, u, op)
               \/ \E s \in Status, n \in Sizes \cup {0} : ForceStatus(r, s, n)
               \/ \E s \in Status, n \in Sizes \cup {0} : ForceStatusRefused(r, s, n)
               \/ (\E d \in Depots : SetDestination(r, d)) \/ SoftDelete(r)
               \/ (\E n \in Sizes : InsertBaleLoad(r, n)) \/ RecountBales(r)
               \/ (\E d \in Depots : AutoUpsertFromTruckTask(r, d))
      BY <3>3 DEF Read, ForceStatus, ForceStatusRefused, SetDestination, SoftDelete,
         InsertBaleLoad, RecountBales, AutoUpsertFromTruckTask
    <3> QED
      BY <2>1, <3>1, <3>2, <3>3 DEF RequestStep
  <2>2. ASSUME NEW u \in Trips,
               \/ \E n \in Sizes : RegisterLoad(u, n)
               \/ AutoCancelForTruckTask(u) \/ SweepStalePlannedTrips(u)
        PROVE  cmr \subseteq cmr' /\ lostCmr \subseteq lostCmr'
    BY <2>2 DEF RegisterLoad, AutoCancelForTruckTask, SweepStalePlannedTrips, CancelPlanned
  <2> QED
    BY <2>1, <2>2 DEF Next, vars
<1>2. CASE <<t, 2>> \in cmr \cup lostCmr
  BY <1>1, <1>2
<1>3. ASSUME NEW q \in Requests, req[q].pc = "queue", req[q].trip = t,
             Stage(req[q].op) = 2
      PROVE  <<t, 2>> \in cmr' \cup lostCmr' \/ OwesStage2(t)'
  <2>1. CASE req'[q] = req[q]
    BY <1>3, <2>1 DEF OwesStage2, Stage
  <2>2. CASE QueueCmr(q)
    BY <1>3, <2>2 DEF QueueCmr
  <2>3. CASE Abandon(q)
    BY <1>3, <2>3 DEF Abandon
  <2>4. ASSUME NEW r \in Requests, r # q, RequestStep(r)
        PROVE  req'[q] = req[q]
    <3>1. ASSUME NEW x, req' = [req EXCEPT ![r] = x]
          PROVE  req'[q] = req[q]
      BY <2>4, <3>1 DEF TypeOK
    <3>2. CASE \/ StartLoading(r) \/ SumLoads(r) \/ CompleteLoading(r) \/ Depart(r)
               \/ Arrive(r) \/ StartDelivery(r) \/ ConfirmDelivery(r) \/ Complete(r)
               \/ StartDepotUnload(r) \/ (\E n \in Sizes : ConfirmDepotDelivery(r, n))
               \/ Cancel(r) \/ Dispute(r) \/ ResolveDispute(r) \/ QueueCmr(r)
      BY <3>1, <3>2 DEF StartLoading, SumLoads, CompleteLoading, Depart, Arrive,
         StartDelivery, ConfirmDelivery, Complete, StartDepotUnload, QueueCmr,
         ConfirmDepotDelivery, Cancel, Dispute, ResolveDispute, Done, OwesCmr
    <3>3. CASE \/ \E u \in Trips, op \in Ops : Read(r, u, op)
               \/ \E s \in Status, n \in Sizes \cup {0} : ForceStatus(r, s, n)
               \/ \E s \in Status, n \in Sizes \cup {0} : ForceStatusRefused(r, s, n)
               \/ (\E d \in Depots : SetDestination(r, d)) \/ SoftDelete(r)
               \/ (\E n \in Sizes : InsertBaleLoad(r, n)) \/ RecountBales(r)
               \/ (\E d \in Depots : AutoUpsertFromTruckTask(r, d)) \/ Abandon(r)
      BY <3>1, <3>3 DEF Read, ForceStatus, ForceStatusRefused, SetDestination,
         SoftDelete, InsertBaleLoad, RecountBales, AutoUpsertFromTruckTask, Abandon, Done
    <3> QED
      BY <2>4, <3>2, <3>3 DEF RequestStep
  <2>5. ASSUME RequestStep(q)
        PROVE  QueueCmr(q) \/ Abandon(q)
    <3>1. req[q] # Idle
      BY <1>3, IdleSlot
    <3> QED
      BY <1>3, <2>5, <3>1 DEF RequestStep, Ready, Read, StartLoading, SumLoads,
         CompleteLoading, Depart, Arrive, StartDelivery, ConfirmDelivery, Complete,
         StartDepotUnload, ConfirmDepotDelivery, Cancel, Dispute, ResolveDispute,
         ForceStatus, ForceStatusRefused, OverrideAllowed, SetDestination, SoftDelete,
         InsertBaleLoad, RecountBales, AutoUpsertFromTruckTask
  <2>6. ASSUME NEW u \in Trips,
               \/ \E n \in Sizes : RegisterLoad(u, n)
               \/ AutoCancelForTruckTask(u) \/ SweepStalePlannedTrips(u)
        PROVE  req'[q] = req[q]
    BY <2>6 DEF RegisterLoad, AutoCancelForTruckTask, SweepStalePlannedTrips, CancelPlanned
  <2> QED
    BY <2>1, <2>2, <2>3, <2>4, <2>5, <2>6 DEF Next, vars
<1> QED
  BY <1>2, <1>3 DEF OwesStage2

\* An override is never forgotten.
LEMMA OverriddenKept ==
  ASSUME TypeOK, [Next]_vars, NEW t \in Trips
  PROVE  overridden[t] \subseteq overridden'[t]
<1>1. CASE UNCHANGED overridden
  BY <1>1
<1>2. ASSUME NEW r \in Requests, NEW s \in Status, NEW n \in Sizes \cup {0},
             ForceStatus(r, s, n)
      PROVE  overridden[t] \subseteq overridden'[t]
  BY <1>2 DEF ForceStatus, TypeOK
<1>3. ASSUME NEW r \in Requests, RequestStep(r),
             ~ \E s \in Status, n \in Sizes \cup {0} : ForceStatus(r, s, n)
      PROVE  UNCHANGED overridden
  BY <1>3 DEF RequestStep, Read, StartLoading, SumLoads,
     CompleteLoading, Depart, Arrive, StartDelivery, ConfirmDelivery, Complete,
     StartDepotUnload, ConfirmDepotDelivery, Cancel, Dispute, ResolveDispute, QueueCmr,
     ForceStatusRefused, SetDestination, SoftDelete,
     InsertBaleLoad, RecountBales, AutoUpsertFromTruckTask, Abandon
<1>4. ASSUME NEW u \in Trips,
             \/ \E n \in Sizes : RegisterLoad(u, n)
             \/ AutoCancelForTruckTask(u) \/ SweepStalePlannedTrips(u)
      PROVE  UNCHANGED overridden
  BY <1>4 DEF RegisterLoad, AutoCancelForTruckTask, SweepStalePlannedTrips, CancelPlanned
<1> QED
  BY <1>1, <1>2, <1>3, <1>4 DEF Next, vars

LEMMA DocumentStep ==
  ASSUME TypeOK, CompletedHasDocument, [Next]_vars
  PROVE  CompletedHasDocument'
<1> SUFFICES ASSUME NEW t \in Trips, status'[t] = "completed", overridden'[t] = {}
             PROVE  <<t, 2>> \in cmr' \cup lostCmr' \/ OwesStage2(t)'
  BY DEF CompletedHasDocument
<1>1. CASE status[t] = "completed"
  <2>1. overridden[t] = {}
    BY OverriddenKept
  <2>2. <<t, 2>> \in cmr \cup lostCmr \/ OwesStage2(t)
    BY <1>1, <2>1 DEF CompletedHasDocument
  <2> QED
    BY <2>2, JobKept
<1>2. CASE status[t] # "completed"
  BY <1>2, CompletionOwes
<1> QED
  BY <1>1, <1>2

-----------------------------------------------------------------------------
(* The theorems.                                                            *)

LEMMA InitIInv == Init => IInv
BY InitTypeOK DEF Init, IInv, InFlightValid, EvidenceComplete, CompletedHasDocument,
   BaleCountCovered, LoadBehindStatus, ImpliesLoaded, Required

\* The inductive invariant: types, what handlers in flight validated, and the
\* four facts about trips that rest on it.
THEOREM InductiveInvariant == Spec => []IInv
<1>1. IInv /\ [Next]_vars => IInv'
  BY StepTypeOK, InFlightValidStep, EvidenceStep, DocumentStep, BaleCountStep,
     LoadBehindStep DEF IInv
<1> QED
  BY <1>1, InitIInv, PTL DEF Spec

\* A trip that was never overridden carries the timestamp of every stage.
THEOREM EvidenceTheorem == Spec => []EvidenceComplete
<1>1. IInv => EvidenceComplete
  BY DEF IInv
<1> QED
  BY <1>1, InductiveInvariant, PTL

\* A trip completed without an override has its final document queued, owed or
\* lost with its handler: no interleaving makes the service forget it.
THEOREM DocumentTheorem == Spec => []CompletedHasDocument
<1>1. IInv => CompletedHasDocument
  BY DEF IInv
<1> QED
  BY <1>1, InductiveInvariant, PTL

\* Before a depot confirmation a trip never claims bales its loads do not cover.
THEOREM BaleCountTheorem == Spec => []BaleCountCovered
<1>1. IInv => BaleCountCovered
  BY DEF IInv
<1> QED
  BY <1>1, InductiveInvariant, PTL

\* A status that asserts goods on the truck is backed by a recorded load.
THEOREM NoPhantomTheorem == Spec => []NoPhantomLoad
<1>1. IInv => NoPhantomLoad
  BY DEF IInv, LoadBehindStatus, NoPhantomLoad
<1> QED
  BY <1>1, InductiveInvariant, PTL

-----------------------------------------------------------------------------
(* The handlers implement the state machine.                                *)

LEMMA SameTables ==
  /\ \A s : Machine!Available(s) = Available(s)
  /\ \A e : Machine!Targets(e) = Targets(e)
  /\ Machine!Event = Event
  /\ Machine!Status = Status
BY DEF Machine!Available, Available, Machine!Targets, Targets, Machine!Event, Event,
   Machine!Status, Status

\* A committing handler fires its event.
LEMMA CommitFires ==
  ASSUME TypeOK, InFlightValid, NEW r \in Requests, NEW e \in Event,
         req[r].pc \in {"ready", "summed"}, req[r].op = e,
         NEW to \in Targets(e), NEW stamped, Move(r, to, stamped),
         overridden' = overridden
  PROVE  Machine!Next
<1>1. /\ req[r].trip \in Trips
      /\ e \in Available(status[req[r].trip])
      /\ status' = [status EXCEPT ![req[r].trip] = to]
  BY CommitSource DEF Move
<1>2. Machine!Fire(req[r].trip, e)
  BY <1>1, SameTables DEF Machine!Fire
<1> QED
  BY <1>1, <1>2, SameTables DEF Machine!Next

LEMMA MachineStep ==
  ASSUME TypeOK, InFlightValid, [Next]_vars
  PROVE  [Machine!Next]_(Machine!vars)
<1> USE TripLifecycleAssumption
<1> USE DEF Machine!vars
<1>1. CASE UNCHANGED <<status, overridden>>
  BY <1>1
<1>2. ASSUME NEW r \in Requests, RequestStep(r)
      PROVE  [Machine!Next]_(Machine!vars)
  <2>1. CASE StartLoading(r)
    BY <2>1, CommitFires DEF StartLoading, Ready, Event, Targets
  <2>2. CASE CompleteLoading(r)
    <3>1. req[r].op = "COMPLETE_LOADING"
      BY <2>2, IdleSlot DEF CompleteLoading, InFlightValid
    <3> QED
      BY <2>2, <3>1, CommitFires DEF CompleteLoading, Event, Targets
  <2>3. CASE Depart(r)
    BY <2>3, CommitFires DEF Depart, Ready, Event, Targets
  <2>4. CASE Arrive(r)
    BY <2>4, CommitFires DEF Arrive, Ready, Event, Targets
  <2>5. CASE StartDelivery(r)
    BY <2>5, CommitFires DEF StartDelivery, Ready, Event, Targets
  <2>6. CASE ConfirmDelivery(r)
    BY <2>6, CommitFires DEF ConfirmDelivery, Ready, Event, Targets
  <2>7. CASE Complete(r)
    BY <2>7, CommitFires DEF Complete, Ready, Event, Targets
  <2>8. CASE StartDepotUnload(r)
    BY <2>8, CommitFires DEF StartDepotUnload, Ready, Event, Targets
  <2>9. ASSUME NEW n \in Sizes, ConfirmDepotDelivery(r, n)
        PROVE  Machine!Next
    <3>1. /\ req[r].trip \in Trips
          /\ "CONFIRM_DELIVERY_AT_DEPOT" \in Available(status[req[r].trip])
          /\ status' = [status EXCEPT ![req[r].trip] = "completed"]
          /\ overridden' = overridden
      BY <2>9, CommitSource DEF ConfirmDepotDelivery, Ready, Move, Event
    <3>2. /\ "delivered" \in Targets("CONFIRM_DELIVERY_AT_DEPOT")
          /\ "COMPLETE" \in Available("delivered")
      BY DEF Targets, Available
    <3>3. Machine!ConfirmAndComplete(req[r].trip)
      BY <3>1, <3>2, SameTables DEF Machine!ConfirmAndComplete
    <3> QED
      BY <3>1, <3>3 DEF Machine!Next
  <2>10. CASE Cancel(r)
    BY <2>10, CommitFires DEF Cancel, Ready, Event, Targets
  <2>11. CASE Dispute(r)
    BY <2>11, CommitFires DEF Dispute, Ready, Event, Targets
  <2>12. CASE ResolveDispute(r)
    BY <2>12, CommitFires DEF ResolveDispute, Ready, Event, Targets
  <2>13. ASSUME NEW s \in Status, NEW n \in Sizes \cup {0}, ForceStatus(r, s, n)
         PROVE  Machine!Next
    <3>1. req[r].trip \in Trips
      BY <2>13, BusySlot DEF ForceStatus, OverrideAllowed, Ready, Slot
    <3>2. Machine!Override(req[r].trip, s)
      BY <2>13 DEF ForceStatus, Machine!Override
    <3> QED
      BY <3>1, <3>2, SameTables DEF Machine!Next
  <2>14. CASE \/ SumLoads(r) \/ QueueCmr(r)
              \/ \E t \in Trips, op \in Ops : Read(r, t, op)
              \/ \E s \in Status, n \in Sizes \cup {0} : ForceStatusRefused(r, s, n)
              \/ (\E d \in Depots : SetDestination(r, d)) \/ SoftDelete(r)
              \/ (\E n \in Sizes : InsertBaleLoad(r, n)) \/ RecountBales(r)
              \/ (\E d \in Depots : AutoUpsertFromTruckTask(r, d))
              \/ Abandon(r)
    BY <1>1, <2>14 DEF SumLoads, QueueCmr, Read, ForceStatusRefused, SetDestination,
       SoftDelete, InsertBaleLoad, RecountBales, AutoUpsertFromTruckTask, Abandon
  <2> QED
    BY <1>2, <2>1, <2>2, <2>3, <2>4, <2>5, <2>6, <2>7, <2>8, <2>9, <2>10, <2>11,
       <2>12, <2>13, <2>14 DEF RequestStep
<1>3. ASSUME NEW t \in Trips, NEW e \in Event, NEW to \in Targets(e),
             e \in Available(status[t]), status' = [status EXCEPT ![t] = to],
             overridden' = overridden
      PROVE  Machine!Next
  <2>1. Machine!Fire(t, e)
    BY <1>3, SameTables DEF Machine!Fire
  <2> QED
    BY <2>1, SameTables DEF Machine!Next
<1>4. ASSUME NEW t \in Trips, NEW n \in Sizes, RegisterLoad(t, n)
      PROVE  Machine!Next
  BY <1>3, <1>4 DEF RegisterLoad, Event, Targets
<1>5. ASSUME NEW t \in Trips, CancelPlanned(t)
      PROVE  Machine!Next
  <2>1. "CANCEL" \in Available("planned")
    BY DEF Available
  <2> QED
    BY <1>3, <1>5, <2>1 DEF CancelPlanned, Event, Targets
<1> QED
  BY <1>1, <1>2, <1>4, <1>5 DEF Next, vars, AutoCancelForTruckTask, SweepStalePlannedTrips

\* Whatever the interleaving of handlers, every trip moves as the state machine
\* of packages/domain allows, or by a recorded override.
THEOREM Refinement == Spec => ImplementsMachine
<1>1. Init => Machine!Init
  BY DEF Init, Machine!Init
<1>2. IInv /\ [Next]_vars => [Machine!Next]_(Machine!vars)
  BY MachineStep DEF IInv
<1> QED
  BY <1>1, <1>2, InductiveInvariant, PTL DEF Spec, ImplementsMachine, Machine!Spec
-----------------------------------------------------------------------------
(* The destination.                                                         *)

\* An event leads forward, but for the loads and among the ends.
LEMMA EventProgress ==
  ASSUME NEW s \in Status, NEW e \in Available(s), NEW to \in Targets(e)
  PROVE  /\ Progress(s) <= Progress(to)
         /\ Progress(s) = Progress(to) => Progress(s) \in {0, 4}
BY DEF Available, Targets, Progress, Status

LEMMA ProgressTyped == \A s : Progress(s) \in 0..4
BY DEF Progress

\* A trip that is not overridden goes forward.
Forward(t) ==
  \/ status'[t] = status[t]
  \/ /\ Progress(status[t]) <= Progress(status'[t])
     /\ Progress(status[t]) = Progress(status'[t]) => Progress(status[t]) \in {0, 4}

LEMMA GoesForward ==
  ASSUME TypeOK, InFlightValid, [Next]_vars, NEW t \in Trips, overridden'[t] = {}
  PROVE  overridden[t] = {} /\ Forward(t)
<1>1. overridden[t] = {}
  BY OverriddenKept
<1>2. status \in [Trips -> Status] /\ overridden \in [Trips -> SUBSET Status]
  BY DEF TypeOK
<1>3. CASE UNCHANGED status
  BY <1>1, <1>3 DEF Forward
<1>4. ASSUME NEW u \in Trips, NEW e \in Event, Machine!Fire(u, e)
      PROVE  Forward(t)
  <2>1. PICK s \in Targets(e) : status' = [status EXCEPT ![u] = s]
    BY <1>4, SameTables DEF Machine!Fire
  <2>2. e \in Available(status[u])
    BY <1>4, SameTables DEF Machine!Fire
  <2>3. CASE u = t
    BY <1>2, <2>1, <2>2, <2>3, EventProgress DEF Forward
  <2>4. CASE u # t
    BY <1>2, <2>1, <2>4 DEF Forward
  <2> QED
    BY <2>3, <2>4
<1>5. ASSUME NEW u \in Trips, Machine!ConfirmAndComplete(u)
      PROVE  Forward(t)
  <2>1. status' = [status EXCEPT ![u] = "completed"]
    BY <1>5 DEF Machine!ConfirmAndComplete
  <2>2. status[u] \in {"in_transit", "arrived", "delivering"}
    BY <1>2, <1>5, SameTables, Sources DEF Machine!ConfirmAndComplete
  <2>3. CASE u = t
    BY <1>2, <2>1, <2>2, <2>3 DEF Forward, Progress
  <2>4. CASE u # t
    BY <1>2, <2>1, <2>4 DEF Forward
  <2> QED
    BY <2>3, <2>4
<1>6. ASSUME NEW u \in Trips, NEW s, Machine!Override(u, s)
      PROVE  Forward(t)
  <2>1. /\ status' = [status EXCEPT ![u] = s]
        /\ overridden' = [overridden EXCEPT ![u] = overridden[u] \cup {s}]
    BY <1>6 DEF Machine!Override
  <2>2. u # t
    BY <1>2, <2>1
  <2> QED
    BY <1>2, <2>1, <2>2 DEF Forward
<1>7. Machine!Next \/ UNCHANGED status
  BY MachineStep DEF Machine!vars
<1> QED
  BY <1>1, <1>3, <1>4, <1>5, <1>6, <1>7, SameTables DEF Machine!Next

\* Who writes the destination: while it may be chosen, ...
Chosen(u) == status[u] \in OpenDestination /\ UNCHANGED status

\* ... or when a handler of the depot's leaves the status it read.
Filled(r) == /\ req[r].pc = "ready" /\ req[r].op \in DepotActions
             /\ status[req[r].trip] = req[r].from
             /\ status'[req[r].trip] # status[req[r].trip]
             /\ dest' = [dest EXCEPT ![req[r].trip] = req[r].dest]

LEMMA DestSteps ==
  ASSUME TypeOK, InFlightValid, [Next]_vars
  PROVE  \/ UNCHANGED dest
         \/ \E u \in Trips, d \in Depots : dest' = [dest EXCEPT ![u] = d] /\ Chosen(u)
         \/ \E r \in Requests : Filled(r)
<1>0. \A r \in Requests : req[r].pc = "ready" => req[r].trip \in Trips
  BY BusySlot DEF Slot
<1>1. ASSUME NEW r \in Requests, NEW d \in Depots, SetDestination(r, d) \/ AutoUpsertFromTruckTask(r, d)
      PROVE  \E u \in Trips, c \in Depots : dest' = [dest EXCEPT ![u] = c] /\ Chosen(u)
  <2>1. req[r].trip \in Trips
    BY <1>0, <1>1 DEF SetDestination, AutoUpsertFromTruckTask, Ready
  <2> QED
    BY <1>1, <2>1 DEF SetDestination, AutoUpsertFromTruckTask, Chosen, OpenDestination
<1>2. ASSUME NEW r \in Requests, StartDepotUnload(r) \/ \E n \in Sizes : ConfirmDepotDelivery(r, n)
      PROVE  Filled(r)
  <2>1. /\ req[r].pc = "ready" /\ req[r].op \in DepotActions
        /\ status[req[r].trip] = req[r].from
        /\ dest' = [dest EXCEPT ![req[r].trip] = req[r].dest]
    BY <1>2 DEF StartDepotUnload, ConfirmDepotDelivery, Ready, Move, DepotActions
  <2>2. req[r].op \in Event /\ req[r].trip \in Trips
    BY <1>0, <2>1 DEF DepotActions, Event
  <2>3. req[r].op \in Available(status[req[r].trip]) /\ status[req[r].trip] \in Status
    BY <2>1, <2>2, CommitSource
  <2>4. CASE StartDepotUnload(r)
    <3>1. status[req[r].trip] \in {"in_transit", "arrived"}
      BY <2>3, <2>4, Sources DEF StartDepotUnload, Ready
    <3>2. status'[req[r].trip] = "delivering"
      BY <2>2, <2>4 DEF StartDepotUnload, Move, TypeOK
    <3> QED
      BY <2>1, <3>1, <3>2 DEF Filled
  <2>5. ASSUME NEW n \in Sizes, ConfirmDepotDelivery(r, n)
        PROVE  Filled(r)
    <3>1. status[req[r].trip] \in {"in_transit", "arrived", "delivering"}
      BY <2>3, <2>5, Sources DEF ConfirmDepotDelivery, Ready
    <3>2. status'[req[r].trip] = "completed"
      BY <2>2, <2>5 DEF ConfirmDepotDelivery, Move, TypeOK
    <3> QED
      BY <2>1, <3>1, <3>2 DEF Filled
  <2> QED
    BY <1>2, <2>4, <2>5
<1>3. ASSUME NEW r \in Requests, RequestStep(r)
      PROVE  \/ UNCHANGED dest
             \/ \E d \in Depots : SetDestination(r, d) \/ AutoUpsertFromTruckTask(r, d)
             \/ StartDepotUnload(r) \/ \E n \in Sizes : ConfirmDepotDelivery(r, n)
  BY <1>3 DEF RequestStep, Read, StartLoading, SumLoads,
     CompleteLoading, Depart, Arrive, StartDelivery, ConfirmDelivery, Complete,
     Cancel, Dispute, ResolveDispute, QueueCmr,
     ForceStatus, ForceStatusRefused, SoftDelete,
     InsertBaleLoad, RecountBales, Abandon
<1>4. ASSUME NEW u \in Trips,
             \/ \E n \in Sizes : RegisterLoad(u, n)
             \/ AutoCancelForTruckTask(u) \/ SweepStalePlannedTrips(u)
      PROVE  UNCHANGED dest
  BY <1>4 DEF RegisterLoad, AutoCancelForTruckTask, SweepStalePlannedTrips, CancelPlanned
<1> QED
  BY <1>1, <1>2, <1>3, <1>4 DEF Next, vars

LEMMA ResolvedStep ==
  ASSUME TypeOK, InFlightValid, TypeOK', DepotResolved, [Next]_vars
  PROVE  DepotResolved'
<1> SUFFICES ASSUME NEW q \in Requests, req'[q].pc = "ready", req'[q].op \in DepotActions,
                    overridden'[req'[q].trip] = {}
             PROVE  /\ Progress(req'[q].from) <= Progress(status'[req'[q].trip])
                    /\ status'[req'[q].trip] = req'[q].from =>
                         dest'[req'[q].trip] \in {None, req'[q].dest}
  BY DEF DepotResolved
<1>1. req'[q] # Idle /\ req'[q].op # "COMPLETE_LOADING"
  BY DEF Idle, DepotActions
<1>2. ASSUME NEW t \in Trips, NEW op \in Ops, Read(q, t, op)
      PROVE  /\ Progress(req'[q].from) <= Progress(status'[req'[q].trip])
             /\ dest'[req'[q].trip] \in {None, req'[q].dest}
  <2>1. PICK d \in (IF op \in {"START_DEPOT_UNLOAD", "CONFIRM_DELIVERY_AT_DEPOT"}
                    THEN DepotFor(t) ELSE {None}) :
          req' = [req EXCEPT ![q] =
                   [pc |-> "ready", op |-> op, trip |-> t, from |-> status[t],
                    n |-> IF op = "FORCE_STATUS" THEN ledger[t] ELSE 0, dest |-> d]]
    BY <1>2 DEF Read
  <2>2. req'[q].op = op /\ req'[q].trip = t /\ req'[q].from = status[t] /\ req'[q].dest = d
    BY <2>1 DEF TypeOK
  <2>3. d \in DepotFor(t)
    BY <2>1, <2>2 DEF DepotActions
  <2>4. dest'[t] \in {None, d}
    BY <1>2, <2>3 DEF DepotFor, Read
  <2> QED
    BY <1>2, <2>2, <2>4, ProgressTyped DEF Read
<1>3. CASE req'[q] = req[q]
  <2> DEFINE t == req[q].trip
             f == req[q].from
  <2>1. req[q] \in Slot /\ req[q] # Idle
    BY <1>3, BusySlot, IdleSlot
  <2>2. t \in Trips /\ f \in Status /\ f \in {"in_transit", "arrived", "delivering"}
    <3>1. Validated(req[q].op, f)
      BY <1>3, <2>1 DEF InFlightValid
    <3>2. t \in Trips /\ f \in Status
      BY <2>1 DEF Slot
    <3> QED
      BY <1>3, <3>1, <3>2, Sources DEF Validated, DepotActions, Event
  <2>3. overridden[t] = {} /\ Forward(t)
    BY <1>3, <2>2, GoesForward
  <2>4. /\ Progress(f) <= Progress(status[t])
        /\ status[t] = f => dest[t] \in {None, req[q].dest}
    BY <1>3, <2>3 DEF DepotResolved
  <2>5. Progress(f) \in 1..3
    BY <2>2 DEF Progress
  <2>6. Progress(f) <= Progress(status'[t]) /\ (status'[t] = f => status[t] = f)
    BY <2>3, <2>4, <2>5, ProgressTyped DEF Forward
  <2>7. ASSUME status'[t] = f
        PROVE  dest'[t] = dest[t]
    <3>1. status[t] = f
      BY <2>6, <2>7
    <3>2. CASE UNCHANGED dest
      BY <3>2
    <3>3. ASSUME NEW u \in Trips, NEW d \in Depots, dest' = [dest EXCEPT ![u] = d], Chosen(u)
          PROVE  dest'[t] = dest[t]
      <4>1. u # t
        BY <2>2, <3>1, <3>3 DEF Chosen, OpenDestination
      <4> QED
        BY <2>2, <3>3, <4>1 DEF TypeOK
    <3>4. ASSUME NEW r \in Requests, Filled(r)
          PROVE  dest'[t] = dest[t]
      <4>1. req[r].trip # t
        BY <2>7, <3>1, <3>4 DEF Filled
      <4> QED
        BY <2>2, <3>4, <4>1 DEF Filled, TypeOK
    <3> QED
      BY <3>2, <3>3, <3>4, DestSteps
  <2> QED
    BY <1>3, <2>4, <2>6, <2>7
<1>4. CASE SumLoads(q)
  <2>1. req'[q].pc = "summed"
    <3>1. req[q] \in Slot
      BY <1>4, BusySlot DEF SumLoads, Ready
    <3> QED
      BY <1>4, <3>1 DEF SumLoads, TypeOK, Slot
  <2> QED
    BY <2>1
<1>5. ASSUME NEW p \in {"queue", "recount"}, req[q].pc # "idle", req'[q] = [req[q] EXCEPT !.pc = p]
      PROVE  FALSE
  <2>1. req[q] \in Slot
    BY <1>5, BusySlot
  <2> QED
    BY <1>5, <2>1 DEF Slot
<1> QED
  BY <1>1, <1>2, <1>3, <1>4, <1>5, SlotSteps

\* Where a depot's handler finds the trip as it read it, it finds the depot it resolved.
THEOREM ResolvedTheorem == Spec => []DepotResolved
<1>1. Init => DepotResolved
  BY DEF Init, DepotResolved, Idle
<1>2. IInv /\ IInv' /\ DepotResolved /\ [Next]_vars => DepotResolved'
  BY ResolvedStep DEF IInv
<1> QED
  BY <1>1, <1>2, InductiveInvariant, PTL DEF Spec

\* Once a trip that was never overridden has left, its destination is only filled in:
\* a depot's handler writes what it resolved from an earlier read, and the status it
\* compares stands for the destination it does not (confirmDepotDelivery, startDepotUnload).
THEOREM FrozenTheorem == Spec => DestinationFrozen
<1> DEFINE Kept(t) == overridden'[t] = {} /\ dest'[t] # dest[t] =>
                        status[t] \in OpenDestination \/ dest[t] = None
<1>1. ASSUME IInv, DepotResolved, [Next]_vars, NEW t \in Trips
      PROVE  Kept(t)
  <2>0. TypeOK /\ InFlightValid
    BY <1>1 DEF IInv
  <2>1. CASE UNCHANGED dest
    BY <2>1
  <2>2. ASSUME NEW u \in Trips, NEW d \in Depots, dest' = [dest EXCEPT ![u] = d], Chosen(u)
        PROVE  Kept(t)
    BY <2>0, <2>2 DEF Chosen, TypeOK
  <2>3. ASSUME NEW r \in Requests, Filled(r), overridden'[t] = {}, dest'[t] # dest[t]
        PROVE  dest[t] = None
    <3>1. req[r].trip = t
      BY <2>0, <2>3 DEF Filled, TypeOK
    <3>2. overridden[t] = {}
      BY <1>1, <2>0, <2>3, OverriddenKept
    <3>3. dest[t] \in {None, req[r].dest}
      BY <1>1, <2>3, <3>1, <3>2 DEF Filled, DepotResolved
    <3>4. dest'[t] = req[r].dest
      BY <2>0, <2>3, <3>1 DEF Filled, TypeOK
    <3> QED
      BY <2>3, <3>3, <3>4
  <2> QED
    BY <1>1, <2>0, <2>1, <2>2, <2>3, DestSteps
<1>2. IInv /\ DepotResolved /\ [Next]_vars
        => [\A t \in Trips : overridden'[t] = {} /\ dest'[t] # dest[t] =>
              status[t] \in OpenDestination \/ dest[t] = None]_vars
  BY <1>1
<1> QED
  BY <1>2, ResolvedTheorem, InductiveInvariant, PTL DEF Spec, DestinationFrozen
-----------------------------------------------------------------------------
(* The ends.                                                                *)

\* No event leads out of a cancelled trip, and only a dispute out of a completed one.
LEMMA EndsAccept ==
  ASSUME NEW s \in Status, NEW e \in Available(s), NEW to \in Targets(e)
  PROVE  /\ s # "cancelled"
         /\ s = "completed" => to = "disputed"
BY DEF Available, Targets, Status

\* What a step may make of the status of a trip that has ended.
EndsBy(t) ==
  status'[t] # status[t] /\ status'[t] \notin overridden'[t] =>
    /\ status[t] # "cancelled"
    /\ status[t] = "completed" => status'[t] = "disputed"

LEMMA EndsStep ==
  ASSUME TypeOK, InFlightValid, [Next]_vars, NEW t \in Trips
  PROVE  EndsBy(t)
<1>1. status \in [Trips -> Status] /\ overridden \in [Trips -> SUBSET Status]
  BY DEF TypeOK
<1>2. CASE UNCHANGED status
  BY <1>2 DEF EndsBy
<1>3. ASSUME NEW u \in Trips, NEW e \in Event, Machine!Fire(u, e)
      PROVE  EndsBy(t)
  <2>1. PICK s \in Targets(e) : status' = [status EXCEPT ![u] = s]
    BY <1>3, SameTables DEF Machine!Fire
  <2>2. e \in Available(status[u])
    BY <1>3, SameTables DEF Machine!Fire
  <2>3. CASE u = t
    <3>1. status[t] \in Status /\ status'[t] = s
      BY <1>1, <2>1, <2>3
    <3> QED
      BY <2>2, <2>3, <3>1, EndsAccept DEF EndsBy
  <2>4. CASE u # t
    BY <1>1, <2>1, <2>4 DEF EndsBy
  <2> QED
    BY <2>3, <2>4
<1>4. ASSUME NEW u \in Trips, Machine!ConfirmAndComplete(u)
      PROVE  EndsBy(t)
  <2>1. status' = [status EXCEPT ![u] = "completed"]
    BY <1>4 DEF Machine!ConfirmAndComplete
  <2>2. status[u] \in {"in_transit", "arrived", "delivering"}
    BY <1>1, <1>4, SameTables, Sources DEF Machine!ConfirmAndComplete
  <2>3. CASE u = t
    BY <2>2, <2>3 DEF EndsBy
  <2>4. CASE u # t
    BY <1>1, <2>1, <2>4 DEF EndsBy
  <2> QED
    BY <2>3, <2>4
<1>5. ASSUME NEW u \in Trips, NEW s \in Status, Machine!Override(u, s)
      PROVE  EndsBy(t)
  <2>1. /\ status' = [status EXCEPT ![u] = s]
        /\ overridden' = [overridden EXCEPT ![u] = overridden[u] \cup {s}]
    BY <1>5 DEF Machine!Override
  <2>2. CASE u = t
    <3>1. status'[t] = s /\ s \in overridden'[t]
      BY <1>1, <2>1, <2>2
    <3> QED
      BY <3>1 DEF EndsBy
  <2>3. CASE u # t
    BY <1>1, <2>1, <2>3 DEF EndsBy
  <2> QED
    BY <2>2, <2>3
<1>6. Machine!Next \/ UNCHANGED status
  BY MachineStep DEF Machine!vars
<1> QED
  BY <1>2, <1>3, <1>4, <1>5, <1>6, SameTables DEF Machine!Next

\* A cancelled trip stays cancelled and a completed one leaves for a dispute only,
\* unless an administrator has forced the status: a handler whose read is stale
\* finds no row to update (the compare-and-set of trips.service.ts).
THEOREM EndsTheorem == Spec => EndsHold
<1>1. IInv /\ [Next]_vars
        => [\A t \in Trips : status'[t] # status[t] /\ status'[t] \notin overridden'[t] =>
              /\ status[t] # "cancelled"
              /\ status[t] = "completed" => status'[t] = "disputed"]_vars
  BY EndsStep DEF IInv, EndsBy
<1> QED
  BY <1>1, InductiveInvariant, PTL DEF Spec, EndsHold
=============================================================================
