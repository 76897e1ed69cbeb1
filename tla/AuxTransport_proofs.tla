------------------------ MODULE AuxTransport_proofs ------------------------
(***************************************************************************)
(* Proofs about AuxTransport, for any trucks, rows of the board, handlers  *)
(* and bounds.                                                             *)
(***************************************************************************)
EXTENDS AuxTransport, FiniteSetTheorems, TLAPS

LEMMA IdleType == Idle \in JobType
BY DEF Idle, JobType, Pc, Status

\* What a row or a job becomes keeps its type, field by field.
LEMMA JobWithTruck ==
  ASSUME NEW j \in JobType, NEW pc \in Pc, NEW k \in Trucks
  PROVE  [j EXCEPT !.pc = pc, !.truck = k] \in JobType
BY DEF JobType

LEMMA JobWithTrip ==
  ASSUME NEW j \in JobType, NEW pc \in Pc, NEW t \in Trips
  PROVE  [j EXCEPT !.pc = pc, !.trip = t] \in JobType
BY DEF JobType

LEMMA JobWithPlan ==
  ASSUME NEW j \in JobType, NEW pc \in Pc, NEW k \in Trucks \cup {None}, NEW t \in Trips \cup {None}
  PROVE  [j EXCEPT !.pc = pc, !.truck = k, !.trip = t] \in JobType
BY DEF JobType

LEMMA TripWithStatus ==
  ASSUME NEW r \in TripType, NEW s \in Status
  PROVE  [r EXCEPT !.status = s] \in TripType
BY DEF TripType

LEMMA RowWithTrip ==
  ASSUME NEW r \in TaskType, NEW t \in Trips \cup {None}
  PROVE  [r EXCEPT !.trip = t] \in TaskType
BY DEF TaskType

\* A handler's step is a step of its job.
LEMMA StepType ==
  ASSUME TypeOK, NEW h \in Handlers, NEW pc \in Pc, Step(h, pc)
  PROVE  job' \in [Handlers -> JobType]
<1>1. [job[h] EXCEPT !.pc = pc] \in JobType
  BY DEF TypeOK, JobType
<1> QED
  BY <1>1 DEF Step, TypeOK

LEMMA EndType ==
  ASSUME TypeOK, NEW h \in Handlers, End(h)
  PROVE  job' \in [Handlers -> JobType]
BY IdleType DEF End, TypeOK

LEMMA BeginType ==
  ASSUME TypeOK, NEW h \in Handlers, NEW r \in JobType, Begin(h, r)
  PROVE  job' \in [Handlers -> JobType] /\ spent' \in [jobs : 0..MaxJobs, deaths : 0..MaxDeaths]
BY AuxTransportAssumption DEF Begin, TypeOK

\* A free row of the board is filled, and no other row is touched.
Filled(h, a, k, auto) ==
  /\ task' = [task EXCEPT ![a] = [NoTask EXCEPT !.truck = k, !.live = TRUE, !.auto = auto]]
  /\ task' \in [Tasks -> TaskType]
  /\ job' = [job EXCEPT ![h] = [job[h] EXCEPT !.pc = "plan", !.task = a]]
  /\ job' \in [Handlers -> JobType]

LEMMA InsertRow ==
  ASSUME TypeOK, NEW h \in Handlers, NEW k \in Trucks, NEW auto \in BOOLEAN, Insert(h, k, auto)
  PROVE  \E a \in Tasks : Filled(h, a, k, auto)
<1> DEFINE a == CHOOSE b \in Tasks : task[b].truck = None
<1>1. a \in Tasks /\ task[a].truck = None
  BY DEF Insert
<1>2. [NoTask EXCEPT !.truck = k, !.live = TRUE, !.auto = auto] \in TaskType
  BY DEF NoTask, TaskType
<1>3. job[h] \in JobType /\ "plan" \in Pc
  BY DEF TypeOK, Pc
<1>4. [job[h] EXCEPT !.pc = "plan", !.task = a] \in JobType
  BY <1>1, <1>3 DEF JobType
<1> QED
  BY <1>1, <1>2, <1>4 DEF Insert, TypeOK, Filled
\* A row that gets another truck is one that nobody placed automatically.
LEMMA Moved ==
  ASSUME task \in [Tasks -> TaskType], NEW a \in Tasks, NEW k \in Trucks \cup {None},
         task' = [task EXCEPT ![a].truck = k, ![a].auto = @ /\ k = task[a].truck]
  PROVE  /\ task' \in [Tasks -> TaskType]
         /\ task'[a].truck = k /\ (task'[a].auto => task[a].auto /\ k = task[a].truck)
         /\ task'[a].trip = task[a].trip /\ task'[a].live = task[a].live
         /\ \A b \in Tasks \ {a} : task'[b] = task[b]
<1> DEFINE yes == [task[a] EXCEPT !.truck = k]
           no == [task[a] EXCEPT !.truck = k, !.auto = FALSE]
<1>1. task[a] \in TaskType /\ yes \in TaskType /\ no \in TaskType
  BY DEF TaskType
<1>2. /\ yes.truck = k /\ yes.trip = task[a].trip /\ yes.live = task[a].live
      /\ yes.auto = task[a].auto
      /\ no.truck = k /\ no.trip = task[a].trip /\ no.live = task[a].live /\ ~no.auto
  BY <1>1 DEF TaskType
<1>3. \/ k = task[a].truck /\ task' = [task EXCEPT ![a] = yes]
      \/ task' = [task EXCEPT ![a] = no]
  BY <1>1 DEF TaskType
<1> HIDE DEF yes, no
<1>4. CASE k = task[a].truck /\ task' = [task EXCEPT ![a] = yes]
  BY <1>1, <1>2, <1>4
<1>5. CASE task' = [task EXCEPT ![a] = no]
  BY <1>1, <1>2, <1>5
<1> QED
  BY <1>3, <1>4, <1>5
-----------------------------------------------------------------------------
(* Type correctness, one group of actions at a time.                        *)

LEMMA StartType ==
  ASSUME TypeOK, JobsFit, NEW h \in Handlers, Start(h)
  PROVE  TypeOK'
<1> USE IdleType DEF TypeOK
<1>1. CASE BeginConfirm(h)
  <2>1. [Idle EXCEPT !.pc = "mint truck"] \in JobType
    BY DEF JobType, Pc
  <2> QED
    BY <1>1, <2>1, BeginType DEF BeginConfirm, tables, ghosts
<1>2. CASE BeginSweep(h)
  <2>1. [Idle EXCEPT !.pc = "assign", !.truck = request.truck] \in JobType
    BY DEF JobType, Pc, RequestType
  <2> QED
    BY <1>2, <2>1, BeginType DEF BeginSweep, tables, ghosts
<1>3. CASE BeginPlace(h)
  <2>1. PICK k \in Trucks : Begin(h, [Idle EXCEPT !.pc = "place", !.truck = k])
    BY <1>3 DEF BeginPlace
  <2>2. [Idle EXCEPT !.pc = "place", !.truck = k] \in JobType
    BY DEF JobType, Pc
  <2> QED
    BY <1>3, <2>1, <2>2, BeginType DEF BeginPlace, tables, ghosts
<1>4. CASE BeginRewire(h)
  <2>1. PICK a \in Tasks, k \in Trucks \cup {None} :
          /\ Begin(h, [Idle EXCEPT !.pc = "plan", !.task = a])
          /\ task' = [task EXCEPT ![a].truck = k, ![a].auto = @ /\ k = task[a].truck]
    BY <1>4 DEF BeginRewire, TaskType
  <2>2. [Idle EXCEPT !.pc = "plan", !.task = a] \in JobType
    BY DEF JobType, Pc
  <2>3. task' \in [Tasks -> TaskType]
    BY <2>1, Moved DEF TypeOK
  <2>4. UNCHANGED <<request, truck, trip, ghosts>>
    BY <1>4 DEF BeginRewire
  <2> QED
    BY <2>1, <2>2, <2>3, <2>4, BeginType DEF ghosts
<1>5. CASE RegisterLoad(h)
  <2>1. PICK t \in Trips : /\ Begin(h, [Idle EXCEPT !.pc = "claim", !.trip = t])
                           /\ trip' = [trip EXCEPT ![t].status = "loaded"]
    BY <1>5 DEF RegisterLoad, Newest, OpenTrips, LiveTrips
  <2>2. [Idle EXCEPT !.pc = "claim", !.trip = t] \in JobType
    BY DEF JobType, Pc
  <2>3. [trip[t] EXCEPT !.status = "loaded"] \in TripType
    BY TripWithStatus DEF Status
  <2>4. trip' \in [Trips -> TripType]
    BY <2>1, <2>3
  <2> QED
    BY <1>5, <2>1, <2>2, <2>4, BeginType DEF RegisterLoad, ghosts
<1>6. CASE BeginForce(h)
  <2>1. PICK t \in Trips : Begin(h, [Idle EXCEPT !.pc = "force", !.trip = t])
    BY <1>6 DEF BeginForce, LiveTrips
  <2>2. [Idle EXCEPT !.pc = "force", !.trip = t] \in JobType
    BY DEF JobType, Pc
  <2> QED
    BY <1>6, <2>1, <2>2, BeginType DEF BeginForce, tables, ghosts
<1>7. CASE BeginArrival(h)
  <2>1. PICK t \in Trips : Begin(h, [Idle EXCEPT !.pc = "arrive", !.trip = t])
    BY <1>7 DEF BeginArrival
  <2>2. [Idle EXCEPT !.pc = "arrive", !.trip = t] \in JobType
    BY DEF JobType, Pc
  <2> QED
    BY <1>7, <2>1, <2>2, BeginType DEF BeginArrival, tables, ghosts
<1>8. CASE Sign(h)
  <2>1. PICK t \in Trips :
          /\ Begin(h, [Idle EXCEPT !.pc = "complete", !.trip = t, !.status = trip[t].status])
          /\ trip' = [trip EXCEPT ![t].used = TRUE]
          /\ papers' = [papers EXCEPT ![t] = @ + 1]
    BY <1>8 DEF Sign
  <2>2. [Idle EXCEPT !.pc = "complete", !.trip = t, !.status = trip[t].status] \in JobType
    BY DEF JobType, Pc, TripType
  <2>3. papers[t] \in Nat /\ trip[t] \in TripType
    OBVIOUS
  <2>4. papers' \in [Trips -> Nat]
    BY <2>1, <2>3
  <2>5. [trip[t] EXCEPT !.used = TRUE] \in TripType
    BY <2>3 DEF TripType
  <2>6. trip' \in [Trips -> TripType]
    BY <2>1, <2>5
  <2> QED
    BY <1>8, <2>1, <2>2, <2>4, <2>6, BeginType DEF Sign
<1>9. CASE BeginRemove(h)
  <2>1. PICK a \in Tasks :
          Begin(h, [Idle EXCEPT !.pc = IF task[a].trip = None THEN "remove" ELSE "unplan",
                                !.task = a, !.trip = task[a].trip])
    BY <1>9 DEF BeginRemove
  <2>2. [Idle EXCEPT !.pc = IF task[a].trip = None THEN "remove" ELSE "unplan",
                     !.task = a, !.trip = task[a].trip] \in JobType
    BY DEF JobType, Pc, TaskType
  <2> QED
    BY <1>9, <2>1, <2>2, BeginType DEF BeginRemove, tables, ghosts
<1>10. CASE BeginCancel(h)
  <2>1. [Idle EXCEPT !.pc = IF request.status = "confirmed" THEN "look" ELSE "cancel",
                     !.truck = request.truck] \in JobType
    BY DEF JobType, Pc, RequestType
  <2> QED
    BY <1>10, <2>1, BeginType DEF BeginCancel, tables, ghosts
<1>11. CASE BeginDeleteRequest(h)
  <2>1. [Idle EXCEPT !.pc = "delete", !.truck = request.truck] \in JobType
    BY DEF JobType, Pc, RequestType
  <2> QED
    BY <1>11, <2>1, BeginType DEF BeginDeleteRequest, tables, ghosts
<1> QED
  BY <1>1, <1>2, <1>3, <1>4, <1>5, <1>6, <1>7, <1>8, <1>9, <1>10, <1>11 DEF Start

LEMMA RetiredType ==
  ASSUME TypeOK, NEW k
  PROVE  Retired(k) \in [Trucks -> {"none", "live", "retired"}]
BY DEF TypeOK, Retired

LEMMA PlaceType ==
  ASSUME TypeOK, JobsFit, NEW h \in Handlers, Confirm(h) \/ Place(h)
  PROVE  TypeOK'
<1> USE DEF TypeOK, Confirm, Place
<1>1. CASE MintTruck(h)
  <2> DEFINE k == CHOOSE j \in Trucks : truck[j] = "none"
  <2>1. k \in Trucks /\ job' = [job EXCEPT ![h].pc = "confirm", ![h].truck = k]
        /\ truck' = [truck EXCEPT ![k] = "live"]
    BY <1>1 DEF MintTruck
  <2>2. [job[h] EXCEPT !.pc = "confirm", !.truck = k] \in JobType
    <3>1. job[h] \in JobType /\ "confirm" \in Pc
      BY DEF Pc
    <3> QED
      BY <2>1, <3>1, JobWithTruck
  <2>3. job' \in [Handlers -> JobType]
    BY <2>1, <2>2
  <2> QED
    BY <1>1, <2>1, <2>3 DEF MintTruck, ghosts
<1>2. CASE ConfirmRequest(h)
  <2>1. "assign" \in Pc /\ request' \in RequestType
    BY <1>2 DEF ConfirmRequest, Pc, RequestType, JobType
  <2> QED
    BY <1>2, <2>1, StepType DEF ConfirmRequest, ghosts
<1>3. CASE AssignTruck(h)
  <2>1. job[h].truck \in Trucks
    BY <1>3 DEF AssignTruck, At, JobsFit, Fits
  <2> QED
    BY <1>3, <2>1, InsertRow DEF AssignTruck, ghosts, Filled
<1>4. CASE LeaveTruck(h)
  BY <1>4, EndType DEF LeaveTruck, tables, ghosts
<1>5. CASE PlaceTruck(h)
  <2>1. job[h].truck \in Trucks
    BY <1>5 DEF PlaceTruck, At, JobsFit, Fits
  <2> QED
    BY <1>5, <2>1, InsertRow DEF PlaceTruck, ghosts, Filled
<1> QED
  BY <1>1, <1>2, <1>3, <1>4, <1>5

LEMMA PlanType ==
  ASSUME TypeOK, JobsFit, NEW h \in Handlers, Plan(h)
  PROVE  TypeOK'
<1> USE DEF TypeOK
<1>1. CASE ReadTask(h)
  <2> DEFINE a == job[h].task
  <2>1. a \in Tasks
    BY <1>1 DEF ReadTask, At, JobsFit, Fits
  <2>2. /\ job[h] \in JobType /\ "request" \in Pc
        /\ task[a].truck \in Trucks \cup {None} /\ task[a].trip \in Trips \cup {None}
    BY <2>1 DEF TaskType, Pc
  <2>3. [job[h] EXCEPT !.pc = "request", !.truck = task[a].truck, !.trip = task[a].trip] \in JobType
    BY <2>2, JobWithPlan
  <2>4. job' \in [Handlers -> JobType] /\ raced' \in BOOLEAN
    BY <1>1, <2>3, EndType DEF ReadTask, Crossed
  <2> QED
    BY <1>1, <2>4 DEF ReadTask, tables
<1>2. CASE ReadRequest(h)
  <2>1. {"adopt", "move"} \subseteq Pc
    BY DEF Pc
  <2>2. job' \in [Handlers -> JobType]
    BY <1>2, <2>1, StepType, EndType DEF ReadRequest
  <2> QED
    BY <1>2, <2>2 DEF ReadRequest, tables, ghosts
<1>3. CASE Adopt(h)
  <2>1. CASE Step(h, "mint trip")
    BY <1>3, <2>1, StepType DEF Adopt, tables, ghosts, Pc
  <2>2. ASSUME NEW t \in Newest(OpenTrips), job' = [job EXCEPT ![h].pc = "detach", ![h].trip = t]
        PROVE  TypeOK'
    <3>1. t \in Trips
      BY <2>2 DEF Newest, OpenTrips, LiveTrips
    <3>2. [job[h] EXCEPT !.pc = "detach", !.trip = t] \in JobType
      <4>1. job[h] \in JobType /\ "detach" \in Pc
        BY DEF Pc
      <4> QED
        BY <3>1, <4>1, JobWithTrip
    <3> QED
      BY <1>3, <2>2, <3>2 DEF Adopt, tables, ghosts
  <2> QED
    BY <1>3, <2>1, <2>2 DEF Adopt
<1>4. CASE DetachTasks(h)
  <2>1. \A a \in Tasks : task[a] \in TaskType /\ [task[a] EXCEPT !.trip = None] \in TaskType
    BY RowWithTrip
  <2>2. task' \in [Tasks -> TaskType]
    BY <1>4, <2>1 DEF DetachTasks
  <2>3. "attach" \in Pc
    BY DEF Pc
  <2> QED
    BY <1>4, <2>2, <2>3, StepType DEF DetachTasks, ghosts
<1>5. CASE AttachTask(h)
  <2>1. job[h].task \in Tasks /\ job[h].trip \in Trips /\ "move" \in Pc
    BY <1>5 DEF AttachTask, At, JobsFit, Fits, Minted, Pc
  <2>2. [task[job[h].task] EXCEPT !.trip = job[h].trip] \in TaskType
    BY <2>1, RowWithTrip
  <2>3. task' \in [Tasks -> TaskType]
    BY <1>5, <2>1, <2>2 DEF AttachTask
  <2> QED
    BY <1>5, <2>1, <2>3, StepType DEF AttachTask, ghosts
<1>6. CASE MintTrip(h)
  <2> DEFINE t == Cardinality({u \in Trips : trip[u].status # "none"}) + 1
             a == job[h].task
             r == [NoTrip EXCEPT !.status = "planned", !.live = TRUE, !.truck = job[h].truck]
  <2>1. t \in Trips /\ a \in Tasks /\ job[h].truck \in Trucks \cup {None}
    BY <1>6 DEF MintTrip, At, JobsFit, Fits, JobType
  <2>2. trip' = [trip EXCEPT ![t] = r] /\ task' = [task EXCEPT ![a].trip = t]
        /\ request' = [request EXCEPT !.trip = t]
    BY <1>6 DEF MintTrip
  <2>3. r \in TripType
    BY <2>1 DEF NoTrip, TripType, Status
  <2>4. trip' \in [Trips -> TripType]
    BY <2>2, <2>3
  <2> HIDE DEF t, a, r
  <2>5. task' \in [Tasks -> TaskType]
    <3>1. [task[a] EXCEPT !.trip = t] \in TaskType
      BY <2>1, RowWithTrip
    <3> QED
      BY <2>1, <2>2, <3>1
  <2>6. request' \in RequestType
    BY <2>1, <2>2 DEF RequestType
  <2> QED
    BY <1>6, <2>4, <2>5, <2>6, EndType DEF MintTrip, ghosts
<1>7. CASE MoveTrip(h)
  <2>1. "point" \in Pc
    BY DEF Pc
  <2>2. job' \in [Handlers -> JobType]
    BY <1>7, <2>1, StepType, EndType DEF MoveTrip
  <2> QED
    BY <1>7, <2>2 DEF MoveTrip, tables, ghosts
<1>8. CASE PointToTrip(h)
  <2>1. request' \in RequestType
    BY <1>8 DEF PointToTrip, RequestType, JobType
  <2> QED
    BY <1>8, <2>1, EndType DEF PointToTrip, ghosts
<1> QED
  BY <1>1, <1>2, <1>3, <1>4, <1>5, <1>6, <1>7, <1>8 DEF Plan

LEMMA LoadType ==
  ASSUME TypeOK, JobsFit, NEW h \in Handlers, Load(h) \/ Close(h)
  PROVE  TypeOK'
<1> USE DEF TypeOK
<1>0. {"claim", "retire", "send link"} \subseteq Pc
  BY DEF Pc
<1> DEFINE t == job[h].trip
<1>1. CASE ForceStatus(h)
  <2>1. PICK s \in Status : /\ trip' = [trip EXCEPT ![t].status = s]
                            /\ forced' = [forced EXCEPT ![t] = @ \cup {s}]
    BY <1>1 DEF ForceStatus, Status
  <2>2. t \in Trips
    BY <1>1 DEF ForceStatus, At, JobsFit, Fits, Minted
  <2>3. [trip[t] EXCEPT !.status = s] \in TripType
    BY <2>2, TripWithStatus
  <2>4. trip' \in [Trips -> TripType] /\ forced' \in [Trips -> SUBSET Status]
    BY <2>1, <2>2, <2>3
  <2>5. job' \in [Handlers -> JobType]
    BY <1>0, <1>1, StepType, EndType DEF ForceStatus
  <2> QED
    BY <1>1, <2>4, <2>5 DEF ForceStatus
<1>2. CASE ClaimToken(h)
  <2>1. t \in Trips
    BY <1>2 DEF ClaimToken, At, JobsFit, Fits, Minted
  <2>2. trip[t] \in TripType
    BY <2>1
  <2>3. [trip[t] EXCEPT !.token = TRUE] \in TripType
    BY <2>2 DEF TripType
  <2>4. trip' \in [Trips -> TripType]
    BY <1>2, <2>1, <2>3 DEF ClaimToken
  <2>5. job' \in [Handlers -> JobType]
    BY <1>0, <1>2, StepType, EndType DEF ClaimToken
  <2> QED
    BY <1>2, <2>4, <2>5 DEF ClaimToken, ghosts
<1>3. CASE RetireTruck(h)
  BY <1>0, <1>3, StepType, RetiredType DEF RetireTruck, ghosts
<1>4. CASE SendLink(h)
  <2>1. t \in Trips
    BY <1>4 DEF SendLink, At, JobsFit, Fits, Minted
  <2>2. links[t] \in Nat
    BY <2>1
  <2>3. links' = [links EXCEPT ![t] = links[t] + 1]
    BY <1>4 DEF SendLink
  <2>4. links' \in [Trips -> Nat]
    BY <2>1, <2>2, <2>3
  <2> QED
    BY <1>4, <2>4, EndType DEF SendLink, tables
<1>5. CASE Arrive(h)
  <2>1. t \in Trips
    BY <1>5 DEF Arrive, At, JobsFit, Fits, Minted
  <2>2. papers[t] \in Nat
    BY <2>1
  <2>3. papers' \in [Trips -> Nat]
    BY <1>5, <2>1, <2>2 DEF Arrive
  <2>4. trip' \in [Trips -> TripType]
    BY <1>5 DEF Arrive, TripType, Status
  <2> QED
    BY <1>5, <2>3, <2>4, EndType DEF Arrive
<1>6. CASE CompleteSigned(h)
  <2>1. t \in Trips
    BY <1>6 DEF CompleteSigned, At, JobsFit, Fits, Minted
  <2>2. [trip[t] EXCEPT !.status = "completed"] \in TripType
    <3>1. trip[t] \in TripType /\ "completed" \in Status
      BY <2>1 DEF Status
    <3> QED
      BY <3>1, TripWithStatus
  <2>3. trip' \in [Trips -> TripType]
    <3>1. \/ trip' = trip
          \/ trip' = [trip EXCEPT ![t] = [trip[t] EXCEPT !.status = "completed"]]
      BY <1>6 DEF CompleteSigned
    <3> QED
      BY <2>2, <3>1
  <2> QED
    BY <1>6, <2>3, EndType DEF CompleteSigned, ghosts
<1>7. CASE RefuseForce(h)
  BY <1>7, EndType DEF RefuseForce, tables, ghosts
<1> QED
  BY <1>1, <1>2, <1>3, <1>4, <1>5, <1>6, <1>7 DEF Load, Close

LEMMA RowsType ==
  ASSUME TypeOK, NEW trips \in SUBSET Trips, NEW tasks
  PROVE  /\ Deleted(trips) \in [Trips -> TripType]
         /\ Removed(tasks) \in [Tasks -> TaskType]
         /\ Forget(trips) \in RequestType
<1>1. \A t \in Trips : trip[t] \in TripType /\ [trip[t] EXCEPT !.live = FALSE] \in TripType
  BY DEF TypeOK, TripType
<1>2. \A a \in Tasks : task[a] \in TaskType /\ [task[a] EXCEPT !.live = FALSE] \in TaskType
  BY DEF TypeOK, TaskType
<1>3. request \in RequestType
  BY DEF TypeOK
<1> QED
  BY <1>1, <1>2, <1>3 DEF Deleted, Removed, Forget, RequestType

LEMMA TakeBackType ==
  ASSUME TypeOK, JobsFit, NEW h \in Handlers, TakeBack(h) \/ Die(h)
  PROVE  TypeOK'
<1> USE DEF TypeOK
<1>0. {"remove", "cancel"} \subseteq Pc
  BY DEF Pc
<1>1. CASE UnplanTrip(h)
  <2>1. OpenTrips \subseteq Trips
    BY DEF OpenTrips, LiveTrips
  <2>2. trip' \in [Trips -> TripType] /\ request' \in RequestType /\ raced' \in BOOLEAN
    BY <1>1, <2>1, RowsType DEF UnplanTrip, Crossed
  <2> QED
    BY <1>0, <1>1, <2>2, StepType DEF UnplanTrip
<1>2. CASE RemoveTask(h)
  BY <1>2, RowsType, EndType DEF RemoveTask, ghosts
<1>3. CASE LookForTrip(h)
  <2>1. job' \in [Handlers -> JobType]
    BY <1>0, <1>3, StepType, EndType DEF LookForTrip
  <2> QED
    BY <1>3, <2>1 DEF LookForTrip, tables, ghosts
<1>4. CASE CancelRequest(h)
  <2>1. request' \in RequestType
    BY <1>4 DEF CancelRequest, RequestType
  <2> QED
    BY <1>4, <2>1, RetiredType, EndType DEF CancelRequest, ghosts
<1>5. CASE DeleteRequest(h)
  <2>1. LiveTrips \subseteq Trips
    BY DEF LiveTrips
  <2>2. request' \in RequestType /\ raced' \in BOOLEAN
    BY <1>5 DEF DeleteRequest, RequestType, Crossed
  <2> QED
    BY <1>5, <2>1, <2>2, RowsType, RetiredType, EndType DEF DeleteRequest
<1>6. CASE Die(h)
  <2>1. spent' \in [jobs : 0..MaxJobs, deaths : 0..MaxDeaths]
    BY <1>6, AuxTransportAssumption DEF Die
  <2>2. orphans' \subseteq Trips
    BY <1>6 DEF Die, At, JobsFit, Fits, Minted
  <2> QED
    BY <1>6, <2>1, <2>2, EndType DEF Die, tables
<1> QED
  BY <1>1, <1>2, <1>3, <1>4, <1>5, <1>6 DEF TakeBack

LEMMA DispatcherType ==
  ASSUME TypeOK, NEW t \in Trips, CancelTrip(t) \/ DeleteTrip(t)
  PROVE  TypeOK'
<1>1. CASE CancelTrip(t)
  <2>1. trip' \in [Trips -> TripType]
    <3>1. [trip[t] EXCEPT !.status = "cancelled"] \in TripType
      BY DEF TypeOK, TripType, Status
    <3>2. trip' = [trip EXCEPT ![t] = [trip[t] EXCEPT !.status = "cancelled"]]
      BY <1>1 DEF CancelTrip
    <3> QED
      BY <3>1, <3>2 DEF TypeOK
  <2> QED
    BY <1>1, <2>1 DEF CancelTrip, TypeOK, ghosts
<1>2. CASE DeleteTrip(t)
  BY <1>2, RowsType DEF DeleteTrip, TypeOK, Crossed
<1> QED
  BY <1>1, <1>2
-----------------------------------------------------------------------------
(* The steps that leave the link and the paper of every trip alone.         *)

Order == MintedInOrder /\ UnmintedIsEmpty
Links == JobsFit /\ LoadedBeforeLink /\ OneLink
Papers == OnePaper /\ SignatureCompletes

LEMMA Parts == IInv <=> TypeOK /\ Order /\ AutoPlacedOnce /\ Links /\ Papers
BY DEF IInv, Order, Links, Papers

\* What can happen to a trip besides being loaded, closed or linked.
Calm(t) ==
  /\ trip'[t].token = trip[t].token /\ trip'[t].used = trip[t].used
  /\ \/ trip'[t].status = trip[t].status
     \/ trip'[t].status = "cancelled" /\ trip[t].status \in {"planned", "loaded"}
  /\ trip[t].status = "none" => trip'[t] = trip[t]

LEMMA CalmOrder ==
  ASSUME Order, \A t \in Trips : Calm(t)
  PROVE  Order' /\ Minted' = Minted
<1>1. Minted' = Minted
  BY DEF Minted, Calm
<1> QED
  BY <1>1 DEF Order, MintedInOrder, UnmintedIsEmpty, Calm

\* What was forced stays on record.
Recorded == \A t \in Trips : forced[t] \subseteq forced'[t]

LEMMA RecordKept ==
  ASSUME Recorded
  PROVE  Reopened \subseteq Reopened' /\ \A t \in Trips : ForcedBack(t) => ForcedBack(t)'
BY DEF Recorded, Reopened, ForcedBack

\* A handler that takes up or leaves off something else than a link or a signature.
Quiet(h) == \/ job'[h] = job[h]
            \/ /\ job'[h].pc \notin {"claim", "retire", "send link"}
               /\ Fits(job'[h], Minted')

LEMMA CalmLinks ==
  ASSUME TypeOK, Order, Links, \A t \in Trips : Calm(t), UNCHANGED links, Recorded,
         \A h \in Handlers : Quiet(h)
  PROVE  Links'
<1>1. Minted' = Minted
  BY CalmOrder
<1>2. \A h \in Handlers : Fits(job'[h], Minted')
  BY <1>1 DEF Links, JobsFit, Quiet, Fits
<1>3. LoadedBeforeLink'
  <2>1. \A t \in Trips \ Reopened' :
          trip'[t].status = "planned" => ~trip'[t].token /\ ~trip'[t].used
    BY RecordKept DEF Links, LoadedBeforeLink, Calm
  <2>2. ASSUME NEW h \in Handlers, job'[h].pc \in {"claim", "retire", "send link"}
        PROVE  trip'[job'[h].trip].status # "planned" \/ job'[h].trip \in Reopened'
    <3>1. job'[h] = job[h] /\ job[h].trip \in Trips
      BY <2>2 DEF Quiet, Links, JobsFit, Fits, Minted
    <3>2. trip[job[h].trip].status # "planned" \/ job[h].trip \in Reopened
      BY <2>2, <3>1 DEF Links, LoadedBeforeLink
    <3>3. Calm(job[h].trip)
      BY <3>1
    <3> QED
      BY <3>1, <3>2, <3>3, RecordKept DEF Calm
  <2> QED
    BY <2>1, <2>2 DEF LoadedBeforeLink
<1>4. \A h \in Handlers, t \in Trips : Sending(h, t)' => Sending(h, t)
  BY DEF Sending, Quiet
<1>5. ASSUME NEW t \in Trips
      PROVE  /\ links'[t] \in {0, 1}
             /\ links'[t] = 1 => trip'[t].token /\ \A h \in Handlers : ~Sending(h, t)'
             /\ \A h \in Handlers : Sending(h, t)' => trip'[t].token
             /\ \A g, h \in Handlers : Sending(g, t)' /\ Sending(h, t)' => g = h
  <2>1. links'[t] = links[t] /\ trip'[t].token = trip[t].token
    BY DEF Calm
  <2> QED
    BY <1>4, <2>1 DEF Links, OneLink
<1>6. OneLink'
  BY <1>5 DEF OneLink
<1> QED
  BY <1>2, <1>3, <1>6 DEF Links, JobsFit

LEMMA PapersKept ==
  ASSUME TypeOK, Papers, UNCHANGED papers,
         \A t \in Trips : /\ trip'[t].used = trip[t].used
                          /\ trip'[t].status = "loaded"
                               => trip[t].status = "loaded" \/ ~trip[t].used \/ ForcedBack(t)',
         Recorded, orphans \subseteq orphans',
         \A h \in Handlers : job[h].pc = "complete" => job'[h] = job[h] \/ job[h].trip \in orphans'
  PROVE  Papers'
<1>1. OnePaper'
  BY DEF Papers, OnePaper
<1>2. ASSUME NEW t \in Trips, trip'[t].used, trip'[t].status = "loaded",
             ~ForcedBack(t)', t \notin orphans'
      PROVE  \E h \in Handlers : /\ job'[h].pc = "complete" /\ job'[h].trip = t
                                 /\ job'[h].status = "loaded"
  <2>1. trip[t].used /\ trip[t].status = "loaded" /\ ~ForcedBack(t) /\ t \notin orphans
    BY <1>2, RecordKept
  <2>2. PICK h \in Handlers : /\ job[h].pc = "complete" /\ job[h].trip = t
                              /\ job[h].status = "loaded"
    BY <2>1 DEF Papers, SignatureCompletes, At
  <2> QED
    BY <1>2, <2>2
<1> QED
  BY <1>1, <1>2 DEF Papers, SignatureCompletes, At

\* Who is on the board does not change: rows lose or get a trip, or are removed.
LEMMA CalmBoard ==
  ASSUME AutoPlacedOnce,
         \A a \in Tasks : task'[a].truck = task[a].truck /\ task'[a].auto = task[a].auto
  PROVE  AutoPlacedOnce'
BY DEF AutoPlacedOnce

LEMMA CalmStep ==
  ASSUME IInv, TypeOK', AutoPlacedOnce', \A t \in Trips : Calm(t),
         UNCHANGED <<links, papers>>, Recorded, orphans \subseteq orphans',
         \A h \in Handlers : Quiet(h),
         \A h \in Handlers : job[h].pc = "complete" => job'[h] = job[h] \/ job[h].trip \in orphans'
  PROVE  IInv'
<1>1. TypeOK /\ Order /\ AutoPlacedOnce /\ Links /\ Papers
  BY Parts
<1>2. Order'
  BY <1>1, CalmOrder
<1>3. Links'
  BY <1>1, CalmLinks
<1>4. Papers'
  BY <1>1, PapersKept DEF Calm
<1> QED
  BY <1>2, <1>3, <1>4 DEF IInv, Order, Links, Papers

\* The same, of a step that touches no trip at all.
LEMMA QuietStep ==
  ASSUME IInv, TypeOK', AutoPlacedOnce', UNCHANGED <<trip, links, papers, forced>>,
         orphans \subseteq orphans', NEW h \in Handlers, job[h].pc # "complete",
         \A g \in Handlers \ {h} : job'[g] = job[g], Quiet(h)
  PROVE  IInv'
<1>1. \A t \in Trips : Calm(t)
  BY DEF Calm
<1>2. \A g \in Handlers : Quiet(g)
  BY DEF Quiet
<1>3. Recorded
  BY DEF Recorded
<1> QED
  BY <1>1, <1>2, <1>3, CalmStep

LEMMA QuietJob ==
  ASSUME TypeOK, NEW h \in Handlers, NEW r, job' = [job EXCEPT ![h] = r], UNCHANGED trip,
         r.pc \notin {"claim", "retire", "send link"}, Fits(r, Minted)
  PROVE  Quiet(h) /\ \A g \in Handlers \ {h} : job'[g] = job[g]
<1>1. Minted' = Minted
  BY DEF Minted
<1> QED
  BY <1>1 DEF Quiet, TypeOK

LEMMA IdleFits == Idle.pc = "idle" /\ Fits(Idle, Minted)
BY DEF Idle, Fits

LEMMA QuietEnd ==
  ASSUME TypeOK, NEW h \in Handlers, End(h), UNCHANGED trip
  PROVE  Quiet(h) /\ \A g \in Handlers \ {h} : job'[g] = job[g]
<1>1. job' = [job EXCEPT ![h] = Idle]
  BY DEF End
<1> QED
  BY <1>1, IdleFits, QuietJob

LEMMA QuietStart ==
  ASSUME IInv, TypeOK', NEW h \in Handlers,
         \/ BeginConfirm(h) \/ BeginSweep(h) \/ BeginPlace(h) \/ BeginRewire(h)
         \/ BeginForce(h) \/ BeginArrival(h)
         \/ BeginRemove(h) \/ BeginCancel(h) \/ BeginDeleteRequest(h)
  PROVE  IInv'
<1>1. TypeOK /\ Order /\ AutoPlacedOnce /\ Links
  BY Parts
<1>2. UNCHANGED <<trip, links, papers, forced, orphans>>
  BY DEF BeginConfirm, BeginSweep, BeginPlace, BeginRewire, BeginForce, BeginArrival,
         BeginRemove, BeginCancel, BeginDeleteRequest, tables, ghosts
<1>3. AutoPlacedOnce'
  <2>1. CASE BeginRewire(h)
    <3>1. PICK a \in Tasks, k \in Trucks \cup {None} :
            task' = [task EXCEPT ![a].truck = k, ![a].auto = @ /\ k = task[a].truck]
      <4>1. \A b \in Tasks : task[b].truck \in Trucks \cup {None}
        BY <1>1 DEF TypeOK, TaskType
      <4> QED
        BY <2>1, <4>1 DEF BeginRewire
    <3>2. /\ task'[a].auto => task[a].auto /\ task'[a].truck = task[a].truck
          /\ \A b \in Tasks \ {a} : task'[b] = task[b]
      BY <1>1, <3>1, Moved DEF TypeOK
    <3>3. \A b \in Tasks : task'[b].auto => task[b].auto /\ task'[b].truck = task[b].truck
      BY <3>2
    <3> QED
      BY <1>1, <3>3 DEF AutoPlacedOnce
  <2>2. CASE UNCHANGED task
    BY <1>1, <2>2, CalmBoard
  <2> QED
    BY <2>1, <2>2 DEF BeginConfirm, BeginSweep, BeginPlace, BeginForce, BeginArrival,
                      BeginRemove, BeginCancel, BeginDeleteRequest, tables
<1>4. ASSUME NEW r, Begin(h, r), r.pc \notin {"claim", "retire", "send link"}, Fits(r, Minted)
      PROVE  IInv'
  <2>1. At(h, "idle") /\ job' = [job EXCEPT ![h] = r]
    BY <1>4 DEF Begin
  <2>2. Quiet(h) /\ \A g \in Handlers \ {h} : job'[g] = job[g]
    BY <1>1, <1>2, <1>4, <2>1, QuietJob
  <2> QED
    BY <1>2, <1>3, <2>1, <2>2, QuietStep DEF At
<1>5. CASE BeginConfirm(h)
  BY <1>4, <1>5 DEF BeginConfirm, Fits, Idle
<1>6. CASE BeginSweep(h)
  <2>1. request.truck \in Trucks
    BY <1>1, <1>6 DEF BeginSweep, TypeOK, RequestType
  <2> QED
    BY <1>4, <1>6, <2>1 DEF BeginSweep, Fits, Idle
<1>7. CASE BeginPlace(h)
  BY <1>4, <1>7 DEF BeginPlace, Fits, Idle
<1>8. CASE BeginRewire(h)
  BY <1>4, <1>8 DEF BeginRewire, Fits, Idle
<1>9. CASE BeginForce(h)
  <2>1. LiveTrips \subseteq Minted
    BY <1>1 DEF LiveTrips, Live, Minted, Order, UnmintedIsEmpty, NoTrip
  <2> QED
    BY <1>4, <1>9, <2>1 DEF BeginForce, Fits, Idle
<1>10. CASE BeginArrival(h)
  <2>1. PICK t \in Trips : /\ trip[t].status = "loaded"
                           /\ Begin(h, [Idle EXCEPT !.pc = "arrive", !.trip = t])
    BY <1>10 DEF BeginArrival
  <2>2. t \in Minted
    BY <2>1 DEF Minted
  <2> QED
    BY <1>4, <2>1, <2>2 DEF Fits, Idle
<1>11. CASE BeginRemove(h)
  BY <1>4, <1>11 DEF BeginRemove, Fits, Idle
<1>12. CASE BeginCancel(h)
  BY <1>4, <1>12 DEF BeginCancel, Fits, Idle
<1>13. CASE BeginDeleteRequest(h)
  BY <1>4, <1>13 DEF BeginDeleteRequest, Fits, Idle
<1> QED
  BY <1>5, <1>6, <1>7, <1>8, <1>9, <1>10, <1>11, <1>12, <1>13

\* A truck is placed automatically only where nobody ever placed it.
LEMMA Placing ==
  ASSUME TypeOK, AutoPlacedOnce, NEW h \in Handlers, NEW k \in Trucks, NEW auto \in BOOLEAN,
         Insert(h, k, auto), auto => ~Placed(k)
  PROVE  AutoPlacedOnce'
<1>1. PICK a \in Tasks : Filled(h, a, k, auto)
  BY InsertRow
<1>2. task'[a].truck = k /\ task'[a].auto = auto
  BY <1>1 DEF TypeOK, NoTask, Filled
<1>3. \A b \in Tasks \ {a} : task'[b] = task[b]
  BY <1>1 DEF TypeOK, Filled
<1> QED
  BY <1>2, <1>3 DEF AutoPlacedOnce, Placed

LEMMA QuietPlace ==
  ASSUME IInv, TypeOK', NEW h \in Handlers, Confirm(h) \/ Place(h)
  PROVE  IInv'
<1>1. TypeOK /\ Order /\ AutoPlacedOnce /\ Links /\ job[h] \in JobType
  BY Parts DEF TypeOK
<1>2. UNCHANGED <<trip, links, papers, forced, orphans>>
  BY DEF Confirm, Place, MintTruck, ConfirmRequest, AssignTruck, LeaveTruck, PlaceTruck,
         tables, ghosts
<1>3. job[h].pc # "complete"
  BY DEF Confirm, Place, MintTruck, ConfirmRequest, AssignTruck, LeaveTruck, PlaceTruck, At
<1>4. ASSUME NEW r, job' = [job EXCEPT ![h] = r], AutoPlacedOnce',
             r.pc \notin {"claim", "retire", "send link"}, Fits(r, Minted)
      PROVE  IInv'
  BY <1>1, <1>2, <1>3, <1>4, QuietJob, QuietStep
<1>5. ASSUME NEW auto \in BOOLEAN, job[h].pc \in {"assign", "place"}, Insert(h, job[h].truck, auto),
             auto => ~Placed(job[h].truck)
      PROVE  IInv'
  <2>1. job[h].truck \in Trucks
    BY <1>1, <1>5 DEF Links, JobsFit, Fits
  <2>2. AutoPlacedOnce'
    BY <1>1, <1>5, <2>1, Placing
  <2>3. PICK a \in Tasks : Filled(h, a, job[h].truck, auto)
    BY <1>1, <1>5, <2>1, InsertRow
  <2> DEFINE r == [job[h] EXCEPT !.pc = "plan", !.task = a]
  <2>4. r.pc = "plan" /\ r.task = a
    BY <1>1 DEF JobType
  <2> QED
    BY <1>4, <2>2, <2>3, <2>4 DEF Fits, Filled
<1>6. CASE MintTruck(h)
  <2> DEFINE k == CHOOSE j \in Trucks : truck[j] = "none"
             r == [job[h] EXCEPT !.pc = "confirm", !.truck = k]
  <2>1. k \in Trucks /\ job' = [job EXCEPT ![h] = r] /\ UNCHANGED task
    BY <1>6 DEF MintTruck
  <2>2. r.pc = "confirm" /\ r.truck = k
    BY <1>1 DEF JobType
  <2>3. AutoPlacedOnce'
    BY <1>1, <2>1, CalmBoard
  <2> QED
    BY <1>4, <2>1, <2>2, <2>3 DEF Fits
<1>7. CASE ConfirmRequest(h)
  <2> DEFINE r == [job[h] EXCEPT !.pc = "assign"]
  <2>1. job' = [job EXCEPT ![h] = r] /\ UNCHANGED task
    BY <1>7 DEF ConfirmRequest, Step
  <2>2. r.pc = "assign" /\ r.truck \in Trucks
    BY <1>1, <1>7 DEF JobType, ConfirmRequest, At, Links, JobsFit, Fits
  <2>3. AutoPlacedOnce'
    BY <1>1, <2>1, CalmBoard
  <2> QED
    BY <1>4, <2>1, <2>2, <2>3 DEF Fits
<1>8. CASE AssignTruck(h)
  BY <1>5, <1>8 DEF AssignTruck, At
<1>9. CASE LeaveTruck(h)
  <2>1. job' = [job EXCEPT ![h] = Idle] /\ UNCHANGED task
    BY <1>9 DEF LeaveTruck, End, tables
  <2>2. AutoPlacedOnce'
    BY <1>1, <2>1, CalmBoard
  <2> QED
    BY <1>4, <2>1, <2>2, IdleFits
<1>10. CASE PlaceTruck(h)
  BY <1>5, <1>10 DEF PlaceTruck, At
<1> QED
  BY <1>6, <1>7, <1>8, <1>9, <1>10 DEF Confirm, Place

\* Planning moves rows and pointers; only MintTrip, below, touches a trip.
LEMMA QuietPlan ==
  ASSUME IInv, TypeOK', NEW h \in Handlers,
         \/ ReadTask(h) \/ ReadRequest(h) \/ Adopt(h) \/ DetachTasks(h) \/ AttachTask(h)
         \/ MoveTrip(h) \/ PointToTrip(h)
  PROVE  IInv'
<1>1. TypeOK /\ Order /\ AutoPlacedOnce /\ Links /\ job[h] \in JobType
  BY Parts DEF TypeOK
<1>2. UNCHANGED <<trip, links, papers, forced, orphans>>
  BY DEF ReadTask, ReadRequest, Adopt, DetachTasks, AttachTask, MoveTrip, PointToTrip,
         tables, ghosts
<1>3. job[h].pc \in {"plan", "request", "adopt", "detach", "attach", "move", "point"}
  BY DEF ReadTask, ReadRequest, Adopt, DetachTasks, AttachTask, MoveTrip, PointToTrip, At
<1>4. Fits(job[h], Minted)
  BY <1>1 DEF Links, JobsFit
<1>5. AutoPlacedOnce'
  <2>1. \A a \in Tasks : task'[a].truck = task[a].truck /\ task'[a].auto = task[a].auto
    <3>1. CASE DetachTasks(h)
      BY <1>1, <3>1 DEF DetachTasks, TypeOK, TaskType
    <3>2. CASE AttachTask(h)
      BY <1>1, <3>2 DEF AttachTask, TypeOK, TaskType
    <3>3. CASE UNCHANGED task
      BY <3>3
    <3> QED
      BY <3>1, <3>2, <3>3 DEF ReadTask, ReadRequest, Adopt, MoveTrip, PointToTrip, tables
  <2> QED
    BY <1>1, <2>1, CalmBoard
<1>6. ASSUME NEW r, job' = [job EXCEPT ![h] = r],
             r.pc \notin {"claim", "retire", "send link"}, Fits(r, Minted)
      PROVE  IInv'
  BY <1>1, <1>2, <1>3, <1>5, <1>6, QuietJob, QuietStep
<1>7. CASE End(h)
  <2>1. job' = [job EXCEPT ![h] = Idle]
    BY <1>7 DEF End
  <2> QED
    BY <1>6, <2>1, IdleFits
<1>8. ASSUME NEW pc \in {"adopt", "attach", "move", "point", "mint trip"}, Step(h, pc),
             Fits([job[h] EXCEPT !.pc = pc], Minted)
      PROVE  IInv'
  <2> DEFINE r == [job[h] EXCEPT !.pc = pc]
  <2>1. job' = [job EXCEPT ![h] = r] /\ r.pc = pc
    BY <1>1, <1>8 DEF Step, JobType
  <2> QED
    BY <1>6, <1>8, <2>1
<1>9. CASE ReadTask(h)
  <2>1. CASE job' = [job EXCEPT ![h].pc = "request", ![h].truck = task[job[h].task].truck,
                                ![h].trip = task[job[h].task].trip]
    <3> DEFINE r == [job[h] EXCEPT !.pc = "request", !.truck = task[job[h].task].truck,
                                   !.trip = task[job[h].task].trip]
    <3>1. job' = [job EXCEPT ![h] = r]
      BY <2>1
    <3>2. r.pc = "request" /\ r.task \in Tasks
      BY <1>1, <1>4, <1>9 DEF JobType, ReadTask, At, Fits
    <3> QED
      BY <1>6, <3>1, <3>2 DEF Fits
  <2> QED
    BY <1>7, <1>9, <2>1 DEF ReadTask
<1>10. CASE ReadRequest(h)
  <2>1. ASSUME NEW pc \in {"adopt", "move"}
        PROVE  Fits([job[h] EXCEPT !.pc = pc], Minted)
    BY <1>1, <1>4, <1>10 DEF ReadRequest, At, Fits, JobType
  <2> QED
    BY <1>7, <1>8, <1>10, <2>1 DEF ReadRequest
<1>11. CASE Adopt(h)
  <2>1. Fits([job[h] EXCEPT !.pc = "mint trip"], Minted)
    BY <1>1, <1>4, <1>11 DEF Adopt, At, Fits, JobType
  <2>2. ASSUME NEW t \in Newest(OpenTrips), job' = [job EXCEPT ![h].pc = "detach", ![h].trip = t]
        PROVE  IInv'
    <3> DEFINE r == [job[h] EXCEPT !.pc = "detach", !.trip = t]
    <3>1. job' = [job EXCEPT ![h] = r]
      BY <2>2
    <3>2. r.pc = "detach" /\ r.trip = t /\ r.task \in Tasks
      BY <1>1, <1>4, <1>11 DEF JobType, Adopt, At, Fits
    <3>3. t \in Minted
      BY DEF Newest, OpenTrips, LiveTrips, Minted
    <3> QED
      BY <1>6, <3>1, <3>2, <3>3 DEF Fits
  <2> QED
    BY <1>8, <1>11, <2>1, <2>2 DEF Adopt
<1>12. CASE DetachTasks(h)
  <2>1. Fits([job[h] EXCEPT !.pc = "attach"], Minted)
    BY <1>1, <1>4, <1>12 DEF DetachTasks, At, Fits, JobType
  <2> QED
    BY <1>8, <1>12, <2>1 DEF DetachTasks
<1>13. CASE AttachTask(h)
  <2>1. Fits([job[h] EXCEPT !.pc = "move"], Minted)
    BY <1>1 DEF Fits, JobType
  <2> QED
    BY <1>8, <1>13, <2>1 DEF AttachTask
<1>14. CASE MoveTrip(h)
  <2>1. Fits([job[h] EXCEPT !.pc = "point"], Minted)
    BY <1>1 DEF Fits, JobType
  <2> QED
    BY <1>7, <1>8, <1>14, <2>1 DEF MoveTrip
<1>15. CASE PointToTrip(h)
  BY <1>7, <1>15 DEF PointToTrip
<1> QED
  BY <1>9, <1>10, <1>11, <1>12, <1>13, <1>14, <1>15
-----------------------------------------------------------------------------
(* The steps that make a trip, load it, link it and close it.               *)

LEMMA OneTrip ==
  ASSUME TypeOK, Order, NEW t \in Minted, NEW r, r.status # "none", trip' = [trip EXCEPT ![t] = r]
  PROVE  /\ Order' /\ Minted' = Minted
         /\ trip'[t] = r /\ \A u \in Trips \ {t} : trip'[u] = trip[u]
<1>1. t \in Trips /\ trip[t].status # "none"
  BY DEF Minted
<1>2. trip'[t] = r /\ \A u \in Trips \ {t} : trip'[u] = trip[u]
  BY <1>1 DEF TypeOK
<1>3. Minted' = Minted
  BY <1>1, <1>2 DEF Minted
<1> QED
  BY <1>1, <1>2, <1>3 DEF Order, MintedInOrder, UnmintedIsEmpty

LEMMA OneJob ==
  ASSUME TypeOK, JobsFit, Minted \subseteq Minted', NEW h \in Handlers, NEW r,
         job' = [job EXCEPT ![h] = r], Fits(r, Minted')
  PROVE  JobsFit' /\ job'[h] = r /\ \A g \in Handlers \ {h} : job'[g] = job[g]
<1>1. job'[h] = r /\ \A g \in Handlers \ {h} : job'[g] = job[g]
  BY DEF TypeOK
<1>2. \A g \in Handlers : Fits(job[g], Minted')
  BY DEF JobsFit, Fits
<1> QED
  BY <1>1, <1>2 DEF JobsFit

\* Ages are dense, so the next trip is one nothing is known about.
LEMMA NextIsFresh ==
  ASSUME TypeOK, Order, Cardinality(Minted) + 1 \in Trips
  PROVE  LET t == Cardinality(Minted) + 1
         IN  /\ trip[t] = NoTrip
             /\ t - 1 \in 0..MaxTrips /\ Minted = 1..(t - 1)
<1> USE AuxTransportAssumption
<1>1. PICK n \in 0..MaxTrips : Minted = 1..n
  BY DEF Order, MintedInOrder
<1>2. Cardinality(1..n) = n
  <2>1. CASE n = 0
    <3>1. 1..n = {}
      BY <2>1
    <3> QED
      BY <2>1, <3>1, FS_EmptySet
  <2>2. CASE n # 0
    <3>1. n \in Nat /\ 1 \in Int /\ n \in Int /\ 1 <= n
      BY <2>2
    <3> QED
      BY <3>1, FS_Interval
  <2> QED
    BY <2>1, <2>2
<1>3. n + 1 \notin Minted /\ n + 1 \in Trips
  BY <1>1, <1>2
<1>4. trip[n + 1] = NoTrip
  BY <1>3 DEF Minted, Order, UnmintedIsEmpty
<1> QED
  BY <1>1, <1>2, <1>4

LEMMA MintStep ==
  ASSUME IInv, TypeOK', NEW h \in Handlers, MintTrip(h)
  PROVE  IInv'
<1> DEFINE t == Cardinality(Minted) + 1
           r == [NoTrip EXCEPT !.status = "planned", !.live = TRUE, !.truck = job[h].truck]
<1>1. TypeOK /\ Order /\ AutoPlacedOnce /\ Links /\ Papers
  BY Parts
<1>2. /\ At(h, "mint trip") /\ t \in Trips
      /\ trip' = [trip EXCEPT ![t] = r] /\ job' = [job EXCEPT ![h] = Idle]
      /\ task' = [task EXCEPT ![job[h].task].trip = t]
      /\ UNCHANGED <<links, papers, forced, orphans>>
  BY DEF MintTrip, Minted, End, ghosts
<1>3. t \in Trips /\ trip[t] = NoTrip /\ t - 1 \in 0..MaxTrips /\ Minted = 1..(t - 1)
  BY <1>1, <1>2, NextIsFresh
<1>4. /\ r.status = "planned" /\ r.token = FALSE /\ r.used = FALSE
      /\ NoTrip.token = FALSE /\ NoTrip.used = FALSE
  BY DEF NoTrip
<1>5. trip'[t] = r /\ \A u \in Trips \ {t} : trip'[u] = trip[u]
  BY <1>1, <1>2 DEF TypeOK
<1> HIDE DEF t, r
<1>6. \A u \in Trips : trip'[u].token = trip[u].token /\ trip'[u].used = trip[u].used
  <2>1. trip'[t].token = trip[t].token /\ trip'[t].used = trip[t].used
    BY <1>3, <1>4, <1>5
  <2> QED
    BY <1>5, <2>1
<1>7. t \in Nat /\ t - 1 \in Nat /\ t <= MaxTrips
  BY <1>3, AuxTransportAssumption DEF Trips
<1>8. Minted' = Minted \cup {t}
  BY <1>2, <1>4, <1>5 DEF Minted
<1>9. Order'
  <2>1. Minted' = 1..t /\ t \in 0..MaxTrips
    BY <1>3, <1>8, <1>7
  <2>2. UnmintedIsEmpty'
    BY <1>1, <1>4, <1>5 DEF Order, UnmintedIsEmpty
  <2> QED
    BY <2>1, <2>2 DEF Order, MintedInOrder
<1>10. JobsFit' /\ job'[h].pc = "idle" /\ \A g \in Handlers \ {h} : job'[g] = job[g]
  <2>1. Fits(Idle, Minted')
    BY DEF Fits, Idle
  <2> QED
    BY <1>1, <1>2, <1>8, <2>1, OneJob, IdleFits DEF Links
<1>11. LoadedBeforeLink'
  <2>1. Reopened' = Reopened
    BY <1>2 DEF Reopened
  <2>2. \A u \in Trips \ Reopened : trip'[u].status = "planned" => ~trip'[u].token /\ ~trip'[u].used
    BY <1>1, <1>4, <1>5 DEF Links, LoadedBeforeLink
  <2>3. ASSUME NEW g \in Handlers, job'[g].pc \in {"claim", "retire", "send link"}
        PROVE  trip'[job'[g].trip].status # "planned" \/ job'[g].trip \in Reopened
    <3>1. job'[g] = job[g] /\ job[g].trip \in Minted
      BY <1>1, <1>10, <2>3 DEF Links, JobsFit, Fits
    <3>2. trip'[job[g].trip] = trip[job[g].trip]
      BY <1>3, <1>5, <3>1 DEF Minted, NoTrip
    <3> QED
      BY <1>1, <2>3, <3>1, <3>2 DEF Links, LoadedBeforeLink
  <2> QED
    BY <2>1, <2>2, <2>3 DEF LoadedBeforeLink
<1>12. OneLink'
  <2>1. \A g \in Handlers, u \in Trips : Sending(g, u)' => Sending(g, u)
    BY <1>10 DEF Sending
  <2> QED
    BY <1>1, <1>2, <1>6, <2>1 DEF Links, OneLink
<1>13. OnePaper'
  BY <1>1, <1>2, <1>6 DEF Papers, OnePaper
<1>14. SignatureCompletes'
  <2>1. \A u \in Trips : trip'[u].status = "loaded" => trip[u].status = "loaded"
    BY <1>4, <1>5
  <2>2. \A g \in Handlers : At(g, "complete") => job'[g] = job[g]
    BY <1>2, <1>10 DEF At
  <2> QED
    <3>1. ASSUME NEW u \in Trips, trip'[u].used, trip'[u].status = "loaded",
                 ~ForcedBack(u)', u \notin orphans'
          PROVE  \E g \in Handlers : /\ job'[g].pc = "complete" /\ job'[g].trip = u
                                     /\ job'[g].status = "loaded"
      <4>1. trip[u].used /\ trip[u].status = "loaded" /\ ~ForcedBack(u) /\ u \notin orphans
        BY <1>2, <1>6, <2>1, <3>1 DEF ForcedBack
      <4>2. PICK g \in Handlers : At(g, "complete") /\ job[g].trip = u /\ job[g].status = "loaded"
        BY <1>1, <4>1 DEF Papers, SignatureCompletes
      <4> QED
        BY <2>2, <4>2 DEF At
    <3> QED
      BY <3>1 DEF SignatureCompletes, At
<1>15. AutoPlacedOnce'
  <2>1. task \in [Tasks -> TaskType]
    BY <1>1 DEF TypeOK
  <2>2. \A a \in Tasks : task'[a].truck = task[a].truck /\ task'[a].auto = task[a].auto
    BY <1>2, <2>1 DEF TaskType
  <2> QED
    BY <1>1, <2>2, CalmBoard
<1> QED
  BY <1>9, <1>10, <1>11, <1>12, <1>13, <1>14, <1>15 DEF IInv, Order

LEMMA LinksKept ==
  ASSUME Links, JobsFit', UNCHANGED links, Recorded,
         \A t \in Trips : /\ trip'[t].token = trip[t].token
                          /\ trip'[t].status = "planned"
                               => trip[t].status = "planned" /\ trip'[t].used = trip[t].used,
         \A g \in Handlers, t \in Trips : Sending(g, t)' => Sending(g, t),
         \A g \in Handlers : job'[g].pc \in {"claim", "retire", "send link"}
                             => trip'[job'[g].trip].status # "planned" \/ job'[g].trip \in Reopened'
  PROVE  Links'
<1>1. LoadedBeforeLink'
  BY RecordKept DEF Links, LoadedBeforeLink
<1>2. OneLink'
  BY DEF Links, OneLink
<1> QED
  BY <1>1, <1>2 DEF Links

LEMMA RegisterStep ==
  ASSUME IInv, TypeOK', NEW h \in Handlers, RegisterLoad(h)
  PROVE  IInv'
<1>1. TypeOK /\ Order /\ AutoPlacedOnce /\ Links /\ Papers
  BY Parts
<1>2. PICK t \in OpenTrips : /\ Begin(h, [Idle EXCEPT !.pc = "claim", !.trip = t])
                             /\ trip' = [trip EXCEPT ![t].status = "loaded"]
  BY DEF RegisterLoad, Newest
<1>3. UNCHANGED <<task, links, papers, forced, orphans>> /\ Recorded
  BY DEF RegisterLoad, ghosts, Recorded
<1> DEFINE r == [trip[t] EXCEPT !.status = "loaded"]
           j == [Idle EXCEPT !.pc = "claim", !.trip = t]
<1>4. t \in Minted /\ trip[t].status = "planned" /\ trip[t] \in TripType
  BY <1>1 DEF OpenTrips, LiveTrips, Minted, TypeOK
<1>5. r.status = "loaded" /\ r.token = trip[t].token /\ r.used = trip[t].used
  BY <1>4 DEF TripType
<1>6. j.pc = "claim" /\ j.trip = t
  BY DEF Idle
<1>7. trip' = [trip EXCEPT ![t] = r] /\ job' = [job EXCEPT ![h] = j] /\ At(h, "idle")
  BY <1>2 DEF Begin
<1> HIDE DEF r, j
<1>8. Order' /\ Minted' = Minted /\ trip'[t] = r /\ \A u \in Trips \ {t} : trip'[u] = trip[u]
  BY <1>1, <1>4, <1>5, <1>7, OneTrip
<1>9. JobsFit' /\ job'[h] = j /\ \A g \in Handlers \ {h} : job'[g] = job[g]
  <2>1. Fits(j, Minted')
    BY <1>4, <1>6, <1>8 DEF Fits
  <2> QED
    BY <1>1, <1>7, <1>8, <2>1, OneJob DEF Links
<1>10. \A u \in Trips : trip'[u].token = trip[u].token /\ trip'[u].used = trip[u].used
  BY <1>5, <1>8
<1>11. Links'
  <2>1. \A g \in Handlers, u \in Trips : Sending(g, u)' => Sending(g, u)
    BY <1>6, <1>9 DEF Sending
  <2>2. \A u \in Trips : trip'[u].status = "planned" => trip[u].status = "planned"
    BY <1>5, <1>8
  <2>3. ASSUME NEW g \in Handlers, job'[g].pc \in {"claim", "retire", "send link"}
        PROVE  trip'[job'[g].trip].status # "planned" \/ job'[g].trip \in Reopened'
    <3>1. CASE g = h
      BY <1>5, <1>6, <1>8, <1>9, <3>1
    <3>2. CASE g # h
      <4>1. job'[g] = job[g] /\ job[g].trip \in Trips
        BY <1>1, <1>9, <2>3, <3>2 DEF Links, JobsFit, Fits, Minted
      <4>2. trip[job[g].trip].status # "planned" \/ job[g].trip \in Reopened
        BY <1>1, <2>3, <4>1 DEF Links, LoadedBeforeLink
      <4> QED
        BY <1>3, <2>2, <4>1, <4>2, RecordKept
    <3> QED
      BY <3>1, <3>2
  <2> QED
    BY <1>1, <1>3, <1>9, <1>10, <2>1, <2>2, <2>3, LinksKept
<1>12. Papers'
  <2>1. ~trip[t].used \/ ForcedBack(t)'
    BY <1>1, <1>3, <1>4, RecordKept DEF Links, LoadedBeforeLink, Minted, Reopened, ForcedBack
  <2>2. \A g \in Handlers : job[g].pc = "complete" => job'[g] = job[g]
    BY <1>7, <1>9 DEF At
  <2>3. \A u \in Trips : trip'[u].status = "loaded"
                           => trip[u].status = "loaded" \/ ~trip[u].used \/ ForcedBack(u)'
    BY <1>8, <2>1
  <2> QED
    BY <1>1, <1>3, <1>10, <2>2, <2>3, PapersKept
<1>13. AutoPlacedOnce'
  BY <1>1, <1>3, CalmBoard
<1> QED
  BY <1>8, <1>11, <1>12, <1>13 DEF IInv, Order, Links, Papers

\* A handler that changes a trip which has been loaded, and its own job.
LEMMA TripStep ==
  ASSUME TypeOK, Order, Links, Recorded, NEW h \in Handlers, NEW t \in Minted, NEW r, NEW j,
         trip' = [trip EXCEPT ![t] = r], r.status # "none",
         r.status = "planned" => t \in Reopened',
         job' = [job EXCEPT ![h] = j], Fits(j, Minted),
         j.pc \in {"claim", "retire", "send link"} => j.trip = t
  PROVE  /\ Order' /\ JobsFit' /\ LoadedBeforeLink'
         /\ trip'[t] = r /\ \A u \in Trips \ {t} : trip'[u] = trip[u]
         /\ job'[h] = j /\ \A g \in Handlers \ {h} : job'[g] = job[g]
<1>1. Order' /\ Minted' = Minted /\ trip'[t] = r /\ \A u \in Trips \ {t} : trip'[u] = trip[u]
  BY OneTrip
<1>2. JobsFit' /\ job'[h] = j /\ \A g \in Handlers \ {h} : job'[g] = job[g]
  BY <1>1, OneJob DEF Links
<1>3. \A u \in Trips : trip'[u].status = "planned" => trip'[u] = trip[u] \/ u \in Reopened'
  BY <1>1
<1>4. ASSUME NEW g \in Handlers, job'[g].pc \in {"claim", "retire", "send link"}
      PROVE  trip'[job'[g].trip].status # "planned" \/ job'[g].trip \in Reopened'
  <2>1. CASE g = h
    <3>1. job'[g] = j
      BY <1>2, <2>1
    <3>2. j.trip = t
      BY <1>4, <3>1
    <3>3. trip'[job'[g].trip] = r
      BY <1>1, <3>1, <3>2
    <3> QED
      BY <3>1, <3>2, <3>3
  <2>2. CASE g # h
    <3>1. job'[g] = job[g] /\ job[g].trip \in Trips
      BY <1>2, <1>4, <2>2 DEF Links, JobsFit, Fits, Minted
    <3>2. trip[job[g].trip].status # "planned" \/ job[g].trip \in Reopened
      BY <1>4, <3>1 DEF Links, LoadedBeforeLink
    <3> QED
      BY <1>3, <3>1, <3>2, RecordKept
  <2> QED
    BY <2>1, <2>2
<1>5. LoadedBeforeLink'
  BY <1>3, <1>4, RecordKept DEF Links, LoadedBeforeLink
<1> QED
  BY <1>1, <1>2, <1>5

LEMMA RefuseStep ==
  ASSUME IInv, TypeOK', NEW h \in Handlers, RefuseForce(h)
  PROVE  IInv'
<1>1. TypeOK /\ AutoPlacedOnce
  BY Parts
<1>2. UNCHANGED <<task, trip, links, papers, forced, orphans>> /\ At(h, "force") /\ End(h)
  BY DEF RefuseForce, tables, ghosts
<1>3. Quiet(h) /\ \A g \in Handlers \ {h} : job'[g] = job[g]
  BY <1>1, <1>2, QuietEnd
<1>4. AutoPlacedOnce'
  BY <1>1, <1>2, CalmBoard
<1> QED
  BY <1>2, <1>3, <1>4, QuietStep DEF At

\* What an override does: a status, on record, and the side effects of "loaded".
Override(h, t, s, j) ==
  /\ trip' = [trip EXCEPT ![t].status = s]
  /\ forced' = [forced EXCEPT ![t] = forced[t] \cup {s}]
  /\ job' = [job EXCEPT ![h] = j]
  /\ \/ s = "loaded" /\ j.pc = "claim" /\ j.trip = t
     \/ s \in {"planned", "completed", "cancelled"} /\ j = Idle

LEMMA ForceIs ==
  ASSUME TypeOK, JobsFit, NEW h \in Handlers, ForceStatus(h)
  PROVE  /\ job[h].pc = "force" /\ UNCHANGED <<request, truck, task, links, papers, orphans, raced>>
         /\ \E t \in Minted, s \in Status, j \in JobType : t = job[h].trip /\ Override(h, t, s, j)
<1>1. job[h].pc = "force" /\ job[h] \in JobType
  BY DEF ForceStatus, At, TypeOK
<1>2. PICK t \in Minted : t = job[h].trip
  BY <1>1 DEF JobsFit, Fits
<1>3. PICK s \in {"planned", "loaded", "completed", "cancelled"} :
        /\ trip' = [trip EXCEPT ![t].status = s]
        /\ forced' = [forced EXCEPT ![t] = forced[t] \cup {s}]
        /\ IF s = "loaded" THEN Step(h, "claim") ELSE End(h)
  BY <1>2 DEF ForceStatus
<1>4. CASE s = "loaded"
  <2> DEFINE j == [job[h] EXCEPT !.pc = "claim"]
  <2>1. job' = [job EXCEPT ![h] = j] /\ j.pc = "claim" /\ j.trip = t
    BY <1>1, <1>2, <1>3, <1>4 DEF Step, JobType
  <2>2. j \in JobType
    BY <1>1 DEF JobType, Pc
  <2>3. Override(h, t, s, j)
    BY <1>3, <1>4, <2>1 DEF Override
  <2> HIDE DEF j
  <2> QED
    BY <1>1, <1>2, <2>2, <2>3 DEF ForceStatus, Status
<1>5. CASE s # "loaded"
  <2>1. Override(h, t, s, Idle)
    BY <1>3, <1>5 DEF Override, End
  <2> QED
    BY <1>1, <1>2, <2>1, IdleType DEF ForceStatus, Status
<1> QED
  BY <1>4, <1>5

LEMMA ForceRecords ==
  ASSUME TypeOK, NEW h \in Handlers, NEW t \in Trips, NEW s, NEW j, Override(h, t, s, j)
  PROVE  Recorded /\ s \in forced'[t]
BY DEF TypeOK, Override, Recorded

LEMMA ForceStep ==
  ASSUME IInv, TypeOK', NEW h \in Handlers, ForceStatus(h)
  PROVE  IInv'
<1>1. TypeOK /\ Order /\ AutoPlacedOnce /\ Links /\ Papers
  BY Parts
<1>2. job[h].pc = "force" /\ UNCHANGED <<task, links, papers, orphans>>
  BY <1>1, ForceIs DEF Links
<1>3. PICK t \in Minted, s \in Status, j \in JobType : Override(h, t, s, j)
  BY <1>1, ForceIs DEF Links
<1> DEFINE r == [trip[t] EXCEPT !.status = s]
<1>4. t \in Trips /\ Recorded /\ s \in forced'[t]
  BY <1>1, <1>3, ForceRecords DEF Minted
<1>5. r.status = s /\ r.token = trip[t].token /\ r.used = trip[t].used
  BY <1>1, <1>4 DEF TypeOK, TripType
<1>6. /\ j.pc = "idle" \/ (j.pc = "claim" /\ j.trip = t)
      /\ Fits(j, Minted) /\ s # "none"
  BY <1>3, IdleFits DEF Override, Fits
<1>7. trip' = [trip EXCEPT ![t] = r] /\ job' = [job EXCEPT ![h] = j]
  BY <1>3 DEF Override
<1> HIDE DEF r
<1>8. /\ Order' /\ JobsFit' /\ LoadedBeforeLink'
      /\ trip'[t] = r /\ \A u \in Trips \ {t} : trip'[u] = trip[u]
      /\ job'[h] = j /\ \A g \in Handlers \ {h} : job'[g] = job[g]
  <2>1. r.status # "none" /\ (r.status = "planned" => t \in Reopened')
    BY <1>4, <1>5, <1>6 DEF Reopened
  <2>2. j.pc \in {"claim", "retire", "send link"} => j.trip = t
    BY <1>6
  <2>3. TypeOK /\ Order /\ Links /\ Recorded /\ t \in Minted
    BY <1>1, <1>4
  <2> QED
    BY <1>6, <1>7, <2>1, <2>2, <2>3, TripStep
<1>9. \A u \in Trips : trip'[u].token = trip[u].token /\ trip'[u].used = trip[u].used
  BY <1>5, <1>8
<1>10. OneLink'
  <2>1. \A g \in Handlers, u \in Trips : Sending(g, u)' => Sending(g, u)
    BY <1>6, <1>8 DEF Sending
  <2> QED
    BY <1>1, <1>2, <1>9, <2>1 DEF Links, OneLink
<1>11. Papers'
  <2>1. \A g \in Handlers : job[g].pc = "complete" => job'[g] = job[g]
    BY <1>2, <1>8
  <2>2. trip'[t].status = "loaded" => ForcedBack(t)'
    BY <1>4, <1>5, <1>8 DEF ForcedBack
  <2>3. \A u \in Trips : trip'[u].status = "loaded"
                           => trip[u].status = "loaded" \/ ~trip[u].used \/ ForcedBack(u)'
    BY <1>8, <2>2
  <2> QED
    BY <1>1, <1>2, <1>4, <1>9, <2>1, <2>3, PapersKept
<1>12. AutoPlacedOnce'
  BY <1>1, <1>2, CalmBoard
<1> QED
  BY <1>8, <1>10, <1>11, <1>12 DEF IInv, Order, Papers

LEMMA ClaimStep ==
  ASSUME IInv, TypeOK', NEW h \in Handlers, ClaimToken(h)
  PROVE  IInv'
<1> DEFINE t == job[h].trip
           r == [trip[t] EXCEPT !.token = TRUE]
           j == [job[h] EXCEPT !.pc = "retire"]
<1>1. TypeOK /\ Order /\ AutoPlacedOnce /\ Links /\ Papers /\ job[h] \in JobType
  BY Parts DEF TypeOK
<1>2. UNCHANGED <<task, links, papers, forced, orphans>>
  BY DEF ClaimToken, ghosts
<1>3. /\ job[h].pc = "claim" /\ t \in Minted /\ trip[t].status # "none"
      /\ trip[t].status = "planned" => t \in Reopened'
  <2>1. Reopened' = Reopened
    BY <1>2 DEF Reopened
  <2> QED
    BY <1>1, <2>1 DEF ClaimToken, At, Links, JobsFit, Fits, LoadedBeforeLink, Minted
<1>4. AutoPlacedOnce'
  BY <1>1, <1>2, CalmBoard
<1>5. CASE trip[t].token
  <2>1. UNCHANGED trip /\ End(h)
    BY <1>5 DEF ClaimToken
  <2>2. Quiet(h) /\ \A g \in Handlers \ {h} : job'[g] = job[g]
    BY <1>1, <2>1, QuietEnd
  <2> QED
    BY <1>2, <1>3, <1>4, <2>1, <2>2, QuietStep
<1>6. CASE ~trip[t].token
  <2>1. trip' = [trip EXCEPT ![t] = r] /\ job' = [job EXCEPT ![h] = j]
    BY <1>6 DEF ClaimToken, Step
  <2>2. r.status = trip[t].status /\ r.token = TRUE /\ r.used = trip[t].used
    BY <1>1, <1>3 DEF TypeOK, TripType, Minted
  <2>3. j.pc = "retire" /\ j.trip = t
    BY <1>1 DEF JobType
  <2>4. Fits(j, Minted)
    BY <1>3, <2>3 DEF Fits
  <2>5. links[t] = 0 /\ \A g \in Handlers : ~Sending(g, t)
    BY <1>1, <1>3, <1>6 DEF Links, OneLink, Minted
  <2> HIDE DEF t, r, j
  <2>6. /\ Order' /\ JobsFit' /\ LoadedBeforeLink'
        /\ trip'[t] = r /\ \A u \in Trips \ {t} : trip'[u] = trip[u]
        /\ job'[h] = j /\ \A g \in Handlers \ {h} : job'[g] = job[g]
    <3>1. r.status # "none" /\ (r.status = "planned" => t \in Reopened')
      BY <1>3, <2>2
    <3>2. j.pc \in {"claim", "retire", "send link"} => j.trip = t
      BY <2>3
    <3>3. TypeOK /\ Order /\ Links /\ Recorded /\ t \in Minted
      BY <1>1, <1>2, <1>3 DEF Recorded
    <3> QED
      BY <2>1, <2>4, <3>1, <3>2, <3>3, TripStep
  <2>7. OneLink'
    <3>1. \A g \in Handlers, u \in Trips : Sending(g, u)' => Sending(g, u) \/ (g = h /\ u = t)
      BY <2>3, <2>6 DEF Sending
    <3>2. ASSUME NEW u \in Trips
          PROVE  /\ links'[u] \in {0, 1}
                 /\ links'[u] = 1 => trip'[u].token /\ \A g \in Handlers : ~Sending(g, u)'
                 /\ \A g \in Handlers : Sending(g, u)' => trip'[u].token
                 /\ \A f, g \in Handlers : Sending(f, u)' /\ Sending(g, u)' => f = g
      <4>1. CASE u = t
        BY <1>2, <2>2, <2>5, <2>6, <3>1, <4>1
      <4>2. CASE u # t
        <5>1. trip'[u] = trip[u] /\ \A g \in Handlers : Sending(g, u)' => Sending(g, u)
          BY <2>6, <3>1, <4>2
        <5> QED
          BY <1>1, <1>2, <5>1 DEF Links, OneLink
      <4> QED
        BY <4>1, <4>2
    <3> QED
      BY <3>2 DEF OneLink
  <2>8. Papers'
    <3>1. \A g \in Handlers : job[g].pc = "complete" => job'[g] = job[g]
      BY <1>3, <2>6
    <3>2. \A u \in Trips : trip'[u].used = trip[u].used /\ trip'[u].status = trip[u].status
      BY <2>2, <2>6
    <3> QED
      BY <1>1, <1>2, <3>1, <3>2, PapersKept DEF Recorded
  <2> QED
    BY <1>4, <2>6, <2>7, <2>8 DEF IInv, Order, Papers
<1> QED
  BY <1>5, <1>6

LEMMA SendStep ==
  ASSUME IInv, TypeOK', NEW h \in Handlers, RetireTruck(h) \/ SendLink(h)
  PROVE  IInv'
<1> DEFINE t == job[h].trip
<1>1. TypeOK /\ Order /\ AutoPlacedOnce /\ Links /\ Papers /\ job[h] \in JobType
  BY Parts DEF TypeOK
<1>2. UNCHANGED <<task, trip, papers, forced, orphans>>
  BY DEF RetireTruck, SendLink, tables, ghosts
<1>3. job[h].pc \in {"retire", "send link"} /\ t \in Minted /\ t \in Trips
  BY <1>1 DEF RetireTruck, SendLink, At, Links, JobsFit, Fits, Minted
<1>4. Order' /\ Minted' = Minted
  BY <1>1, <1>2 DEF Order, MintedInOrder, UnmintedIsEmpty, Minted
<1>5. AutoPlacedOnce'
  BY <1>1, <1>2, CalmBoard
<1>6. ASSUME NEW j, job' = [job EXCEPT ![h] = j], Fits(j, Minted),
             \/ j.pc = "idle"
             \/ j.pc = "send link" /\ j.trip = t /\ UNCHANGED links
      PROVE  /\ JobsFit' /\ LoadedBeforeLink' /\ Papers'
             /\ \A g \in Handlers, u \in Trips : Sending(g, u)' => Sending(g, u)
             /\ job'[h] = j
  <2>1. JobsFit' /\ job'[h] = j /\ \A g \in Handlers \ {h} : job'[g] = job[g]
    BY <1>1, <1>4, <1>6, OneJob DEF Links
  <2>2. \A g \in Handlers : /\ job'[g].pc \in {"claim", "retire", "send link"}
                               => /\ job[g].pc \in {"claim", "retire", "send link"}
                                  /\ job'[g].trip = job[g].trip
                            /\ job[g].pc = "complete" => job'[g] = job[g]
    BY <1>3, <1>6, <2>1
  <2>3. LoadedBeforeLink'
    BY <1>1, <1>2, <2>2 DEF Links, LoadedBeforeLink, Reopened
  <2>4. Papers'
    BY <1>1, <1>2, <2>2, PapersKept DEF Recorded
  <2>5. \A g \in Handlers, u \in Trips : Sending(g, u)' => Sending(g, u)
    BY <1>3, <1>6, <2>1 DEF Sending
  <2> QED
    BY <2>1, <2>3, <2>4, <2>5
<1>7. CASE RetireTruck(h)
  <2> DEFINE j == [job[h] EXCEPT !.pc = "send link"]
  <2>1. job' = [job EXCEPT ![h] = j] /\ UNCHANGED links
    BY <1>7 DEF RetireTruck, Step, ghosts
  <2>2. j.pc = "send link" /\ j.trip = t
    BY <1>1 DEF JobType
  <2>3. Fits(j, Minted)
    BY <1>3, <2>2 DEF Fits
  <2>4. /\ JobsFit' /\ LoadedBeforeLink' /\ Papers'
        /\ \A g \in Handlers, u \in Trips : Sending(g, u)' => Sending(g, u)
    BY <1>6, <2>1, <2>2, <2>3
  <2>5. OneLink'
    BY <1>1, <1>2, <2>1, <2>4 DEF Links, OneLink
  <2> QED
    BY <1>4, <1>5, <2>4, <2>5 DEF IInv, Order, Papers
<1>8. CASE SendLink(h)
  <2>1. job' = [job EXCEPT ![h] = Idle] /\ links' = [links EXCEPT ![t] = links[t] + 1]
    BY <1>8 DEF SendLink, End
  <2>2. /\ JobsFit' /\ LoadedBeforeLink' /\ Papers' /\ job'[h] = Idle
        /\ \A g \in Handlers, u \in Trips : Sending(g, u)' => Sending(g, u)
    BY <1>6, <2>1, IdleFits
  <2>3. Sending(h, t)
    BY <1>3 DEF Sending
  <2>4. links[t] = 0 /\ trip[t].token /\ \A g \in Handlers \ {h} : ~Sending(g, t)
    BY <1>1, <1>3, <2>3 DEF Links, OneLink
  <2>5. links'[t] = 1 /\ \A u \in Trips \ {t} : links'[u] = links[u]
    <3>1. links \in [Trips -> Nat]
      BY <1>1 DEF TypeOK
    <3>2. links' = [links EXCEPT ![t] = 1]
      BY <2>1, <2>4
    <3> QED
      BY <1>3, <3>1, <3>2
  <2>6. job'[h].pc = "idle"
    BY <2>2, IdleFits
  <2>7. ASSUME NEW u \in Trips
        PROVE  /\ links'[u] \in {0, 1}
               /\ links'[u] = 1 => trip'[u].token /\ \A g \in Handlers : ~Sending(g, u)'
               /\ \A g \in Handlers : Sending(g, u)' => trip'[u].token
               /\ \A f, g \in Handlers : Sending(f, u)' /\ Sending(g, u)' => f = g
    <3>1. CASE u = t
      <4>1. \A g \in Handlers : ~Sending(g, u)'
        <5>1. ~Sending(h, u)'
          BY <2>6 DEF Sending
        <5>2. \A g \in Handlers \ {h} : ~Sending(g, u)'
          BY <2>2, <2>4, <3>1
        <5> QED
          BY <5>1, <5>2
      <4>2. links'[u] = 1 /\ trip'[u].token
        BY <1>2, <2>4, <2>5, <3>1
      <4> QED
        BY <4>1, <4>2
    <3>2. CASE u # t
      BY <1>1, <1>2, <2>2, <2>5, <3>2 DEF Links, OneLink
    <3> QED
      BY <3>1, <3>2
  <2>8. OneLink'
    BY <2>7 DEF OneLink
  <2> QED
    BY <1>4, <1>5, <2>2, <2>8 DEF IInv, Order, Papers
<1> QED
  BY <1>7, <1>8

\* The arrival document and the signature: what closes a trip.
LEMMA ArriveStep ==
  ASSUME IInv, TypeOK', NEW h \in Handlers, Arrive(h)
  PROVE  IInv'
<1> DEFINE t == job[h].trip
           r == [trip[t] EXCEPT !.status = "completed", !.used = TRUE]
<1>1. TypeOK /\ Order /\ AutoPlacedOnce /\ Links /\ Papers /\ job[h] \in JobType
  BY Parts DEF TypeOK
<1>2. UNCHANGED <<task, links, forced, orphans>> /\ job' = [job EXCEPT ![h] = Idle]
  BY DEF Arrive, End
<1>3. job[h].pc = "arrive" /\ t \in Minted /\ t \in Trips
  BY <1>1 DEF Arrive, At, Links, JobsFit, Fits, Minted
<1>4. AutoPlacedOnce'
  BY <1>1, <1>2, CalmBoard
<1>5. CASE UNCHANGED <<trip, papers>>
  <2>1. Quiet(h) /\ \A g \in Handlers \ {h} : job'[g] = job[g]
    BY <1>1, <1>5, QuietEnd DEF Arrive
  <2> QED
    BY <1>2, <1>3, <1>4, <1>5, <2>1, QuietStep
<1>6. CASE trip[t].status = "loaded" /\ ~trip[t].used
  <2>1. trip' = [trip EXCEPT ![t] = r] /\ papers' = [papers EXCEPT ![t] = papers[t] + 1]
    BY <1>6 DEF Arrive
  <2>2. r.status = "completed" /\ r.token = trip[t].token /\ r.used = TRUE
    BY <1>1, <1>3 DEF TypeOK, TripType, Minted
  <2>3. papers[t] = 0
    BY <1>1, <1>3, <1>6 DEF Papers, OnePaper
  <2>4. papers'[t] = 1 /\ \A u \in Trips \ {t} : papers'[u] = papers[u]
    BY <1>1, <1>3, <2>1, <2>3 DEF TypeOK
  <2> HIDE DEF t, r
  <2>5. /\ Order' /\ JobsFit' /\ LoadedBeforeLink'
        /\ trip'[t] = r /\ \A u \in Trips \ {t} : trip'[u] = trip[u]
        /\ job'[h] = Idle /\ \A g \in Handlers \ {h} : job'[g] = job[g]
    <3>1. r.status \notin {"none", "planned"}
      BY <2>2
    <3>2. Fits(Idle, Minted) /\ (Idle.pc \in {"claim", "retire", "send link"} => Idle.trip = t)
      BY IdleFits
    <3>3. TypeOK /\ Order /\ Links /\ Recorded /\ t \in Minted
      BY <1>1, <1>2, <1>3 DEF Recorded
    <3>4. job' = [job EXCEPT ![h] = Idle]
      BY <1>2
    <3> QED
      BY <2>1, <3>1, <3>2, <3>3, <3>4, TripStep
  <2>6. job'[h].pc = "idle"
    BY <2>5, IdleFits
  <2>7. OneLink'
    <3>1. \A g \in Handlers, u \in Trips : Sending(g, u)' => Sending(g, u)
      BY <2>5, <2>6 DEF Sending
    <3>2. \A u \in Trips : trip'[u].token = trip[u].token
      BY <2>2, <2>5
    <3> QED
      BY <1>1, <1>2, <3>1, <3>2 DEF Links, OneLink
  <2>8. OnePaper'
    BY <1>1, <2>2, <2>4, <2>5 DEF Papers, OnePaper
  <2>9. SignatureCompletes'
    <3>1. \A g \in Handlers : job[g].pc = "complete" => job'[g] = job[g]
      BY <1>3, <2>5
    <3>2. \A u \in Trips : trip'[u].status = "loaded" => trip'[u] = trip[u]
      BY <2>2, <2>5
    <3> QED
      BY <1>1, <1>2, <3>1, <3>2 DEF Papers, SignatureCompletes, ForcedBack, At
  <2> QED
    BY <1>4, <2>5, <2>7, <2>8, <2>9 DEF IInv, Order
<1> QED
  BY <1>5, <1>6 DEF Arrive

LEMMA SignStep ==
  ASSUME IInv, TypeOK', NEW h \in Handlers, Sign(h)
  PROVE  IInv'
<1>1. TypeOK /\ Order /\ AutoPlacedOnce /\ Links /\ Papers
  BY Parts
<1>2. PICK t \in Trips :
        /\ Signable(t)
        /\ Begin(h, [Idle EXCEPT !.pc = "complete", !.trip = t, !.status = trip[t].status])
        /\ trip' = [trip EXCEPT ![t].used = TRUE]
        /\ papers' = [papers EXCEPT ![t] = @ + 1]
  BY DEF Sign
<1> DEFINE r == [trip[t] EXCEPT !.used = TRUE]
           j == [Idle EXCEPT !.pc = "complete", !.trip = t, !.status = trip[t].status]
<1>3. UNCHANGED <<task, links, forced, orphans>>
  BY DEF Sign
<1>4. AutoPlacedOnce'
  BY <1>1, <1>3, CalmBoard
<1>5. trip' = [trip EXCEPT ![t] = r] /\ job' = [job EXCEPT ![h] = j] /\ At(h, "idle")
  BY <1>2 DEF Begin
<1>6. (trip[t].status = "planned" => t \in Reopened') /\ t \in Minted /\ papers[t] = 0
  <2>1. trip[t].token /\ ~trip[t].used
    BY <1>2 DEF Signable
  <2>2. trip[t].status = "planned" => t \in Reopened'
    BY <1>1, <1>3, <2>1 DEF Links, LoadedBeforeLink, Reopened
  <2>3. trip[t].status # "none"
    BY <1>1, <2>1 DEF Order, UnmintedIsEmpty, NoTrip
  <2>4. papers[t] = 0
    BY <1>1, <2>1 DEF Papers, OnePaper
  <2> QED
    BY <2>2, <2>3, <2>4 DEF Minted
<1>7. r.status = trip[t].status /\ r.token = trip[t].token /\ r.used = TRUE
  BY <1>1 DEF TypeOK, TripType
<1>8. j.pc = "complete" /\ j.trip = t /\ j.status = trip[t].status
  BY DEF Idle
<1>9. papers'[t] = 1 /\ \A u \in Trips \ {t} : papers'[u] = papers[u]
  <2>1. papers \in [Trips -> Nat]
    BY <1>1 DEF TypeOK
  <2>2. papers' = [papers EXCEPT ![t] = 1]
    BY <1>2, <1>6
  <2> QED
    BY <2>1, <2>2
<1> HIDE DEF r, j
<1>10. /\ Order' /\ JobsFit' /\ LoadedBeforeLink'
       /\ trip'[t] = r /\ \A u \in Trips \ {t} : trip'[u] = trip[u]
       /\ job'[h] = j /\ \A g \in Handlers \ {h} : job'[g] = job[g]
  <2>1. r.status # "none" /\ (r.status = "planned" => t \in Reopened')
    BY <1>6, <1>7 DEF Minted
  <2>2. Fits(j, Minted) /\ (j.pc \in {"claim", "retire", "send link"} => j.trip = t)
    BY <1>6, <1>8 DEF Fits
  <2>3. trip' = [trip EXCEPT ![t] = r] /\ job' = [job EXCEPT ![h] = j]
    BY <1>5
  <2>4. TypeOK /\ Order /\ Links /\ Recorded /\ t \in Minted
    BY <1>1, <1>3, <1>6 DEF Recorded
  <2> QED
    BY <2>1, <2>2, <2>3, <2>4, TripStep
<1>11. OneLink'
  <2>1. \A g \in Handlers, u \in Trips : Sending(g, u)' => Sending(g, u)
    BY <1>8, <1>10 DEF Sending
  <2>2. \A u \in Trips : trip'[u].token = trip[u].token
    BY <1>7, <1>10
  <2> QED
    BY <1>1, <1>3, <2>1, <2>2 DEF Links, OneLink
<1>12. OnePaper'
  BY <1>1, <1>7, <1>9, <1>10 DEF Papers, OnePaper
<1>13. SignatureCompletes'
  <2>1. \A g \in Handlers : job[g].pc = "complete" => job'[g] = job[g]
    BY <1>5, <1>10 DEF At
  <2>2. ASSUME NEW u \in Trips, trip'[u].used, trip'[u].status = "loaded",
               ~ForcedBack(u), u \notin orphans
        PROVE  \E g \in Handlers : /\ job'[g].pc = "complete" /\ job'[g].trip = u
                                   /\ job'[g].status = "loaded"
    <3>1. CASE u = t
      BY <1>7, <1>8, <1>10, <2>2, <3>1
    <3>2. CASE u # t
      BY <1>1, <1>10, <2>1, <2>2, <3>2 DEF Papers, SignatureCompletes, At
    <3> QED
      BY <3>1, <3>2
  <2> QED
    BY <1>3, <2>2 DEF SignatureCompletes, ForcedBack, At
<1> QED
  BY <1>4, <1>10, <1>11, <1>12, <1>13 DEF IInv, Order

LEMMA CompleteStep ==
  ASSUME IInv, TypeOK', NEW h \in Handlers, CompleteSigned(h)
  PROVE  IInv'
<1> DEFINE t == job[h].trip
           loaded == job[h].status = "loaded" /\ trip[t].status = "loaded"
           r == [trip[t] EXCEPT !.status = "completed"]
<1>1. TypeOK /\ Order /\ AutoPlacedOnce /\ Links /\ Papers
  BY Parts
<1>2. UNCHANGED <<task, links, papers, forced, orphans>> /\ job' = [job EXCEPT ![h] = Idle]
  BY DEF CompleteSigned, End, ghosts
<1>3. job[h].pc = "complete" /\ t \in Minted /\ t \in Trips
  BY <1>1 DEF CompleteSigned, At, Links, JobsFit, Fits, Minted
<1>4. AutoPlacedOnce'
  BY <1>1, <1>2, CalmBoard
<1>5. JobsFit' /\ job'[h].pc = "idle" /\ \A g \in Handlers \ {h} : job'[g] = job[g]
  <2>1. Minted' = Minted
    BY <1>1, <1>3 DEF CompleteSigned, Minted, TypeOK, TripType
  <2>2. Fits(Idle, Minted')
    BY <2>1, IdleFits
  <2> QED
    BY <1>1, <1>2, <2>1, <2>2, OneJob, IdleFits DEF Links
<1>6. \A u \in Trips : /\ trip'[u].token = trip[u].token /\ trip'[u].used = trip[u].used
                       /\ trip'[u].live = trip[u].live /\ trip'[u].truck = trip[u].truck
                       /\ trip'[u].status = trip[u].status
                          \/ (u = t /\ trip[u].status = "loaded" /\ trip'[u].status = "completed")
                       /\ trip'[u] = trip[u] \/ (u = t /\ trip[u].status = "loaded")
                       /\ u = t /\ loaded => trip'[u].status = "completed"
  BY <1>1, <1>3 DEF CompleteSigned, TypeOK, TripType
<1>7. Order'
  <2>1. Minted' = Minted
    BY <1>6 DEF Minted
  <2>2. \A u \in Trips : trip'[u].status = "none" => trip'[u] = NoTrip
    BY <1>1, <1>6 DEF Order, UnmintedIsEmpty
  <2> QED
    BY <1>1, <2>1, <2>2 DEF Order, MintedInOrder, UnmintedIsEmpty
<1>8. Links'
  <2>1. \A g \in Handlers, u \in Trips : Sending(g, u)' => Sending(g, u)
    BY <1>5 DEF Sending
  <2>2. ASSUME NEW g \in Handlers, job'[g].pc \in {"claim", "retire", "send link"}
        PROVE  trip'[job'[g].trip].status # "planned" \/ job'[g].trip \in Reopened'
    <3>1. job'[g] = job[g] /\ job[g].trip \in Trips
      BY <1>1, <1>5, <2>2 DEF Links, JobsFit, Fits, Minted
    <3>2. trip[job[g].trip].status # "planned" \/ job[g].trip \in Reopened'
      BY <1>1, <1>2, <2>2, <3>1 DEF Links, LoadedBeforeLink, Reopened
    <3> QED
      BY <1>6, <3>1, <3>2
  <2>3. \A u \in Trips : trip'[u].status = "planned" => trip[u].status = "planned"
    BY <1>6
  <2>4. Recorded
    BY <1>2 DEF Recorded
  <2> QED
    BY <1>1, <1>2, <1>5, <1>6, <2>1, <2>2, <2>3, <2>4, LinksKept
<1>9. OnePaper'
  BY <1>1, <1>2, <1>6 DEF Papers, OnePaper
<1>10. SignatureCompletes'
  <2>1. ASSUME NEW u \in Trips, trip'[u].used, trip'[u].status = "loaded",
               ~ForcedBack(u), u \notin orphans
        PROVE  \E g \in Handlers : /\ job'[g].pc = "complete" /\ job'[g].trip = u
                                   /\ job'[g].status = "loaded"
    <3>1. trip[u].used /\ trip[u].status = "loaded"
      BY <1>6, <2>1
    <3>2. PICK g \in Handlers : /\ job[g].pc = "complete" /\ job[g].trip = u
                               /\ job[g].status = "loaded"
      BY <1>1, <2>1, <3>1 DEF Papers, SignatureCompletes, At
    <3>3. g # h
      BY <1>6, <2>1, <3>1, <3>2
    <3> QED
      BY <1>5, <3>2, <3>3
  <2> QED
    BY <1>2, <2>1 DEF SignatureCompletes, ForcedBack, At
<1> QED
  BY <1>4, <1>7, <1>8, <1>9, <1>10 DEF IInv, Order, Links
-----------------------------------------------------------------------------
(* Taking back: trips and rows are only marked as gone.                     *)

LEMMA DeletedIsCalm ==
  ASSUME TypeOK, NEW trips \in SUBSET Minted, trip' = Deleted(trips)
  PROVE  \A u \in Trips : Calm(u)
BY DEF TypeOK, TripType, Deleted, Minted, Calm

LEMMA LiveIsMinted ==
  ASSUME TypeOK, Order
  PROVE  LiveTrips \subseteq Minted
BY DEF LiveTrips, Live, Minted, Order, UnmintedIsEmpty, NoTrip

LEMMA RemovedBoard ==
  ASSUME TypeOK, AutoPlacedOnce, NEW tasks, task' = Removed(tasks) \/ UNCHANGED task
  PROVE  AutoPlacedOnce'
<1>1. \A a \in Tasks : task'[a].truck = task[a].truck /\ task'[a].auto = task[a].auto
  BY DEF TypeOK, TaskType, Removed
<1> QED
  BY <1>1, CalmBoard

LEMMA TakeBackStep ==
  ASSUME IInv, TypeOK', NEW h \in Handlers, TakeBack(h) \/ Die(h)
  PROVE  IInv'
<1>1. TypeOK /\ Order /\ AutoPlacedOnce /\ Links /\ job[h] \in JobType
  BY Parts DEF TypeOK
<1>2. UNCHANGED <<links, papers>> /\ Recorded /\ orphans \subseteq orphans'
  <2>1. UNCHANGED <<links, papers, forced>> /\ orphans \subseteq orphans'
    BY DEF TakeBack, UnplanTrip, RemoveTask, LookForTrip, CancelRequest, DeleteRequest, Die,
           tables, ghosts
  <2> QED
    BY <2>1 DEF Recorded
<1>3. AutoPlacedOnce'
  BY <1>1, RemovedBoard DEF TakeBack, UnplanTrip, RemoveTask, LookForTrip, CancelRequest,
         DeleteRequest, Die, tables
<1>4. \A u \in Trips : Calm(u)
  <2>1. CASE UNCHANGED trip
    BY <2>1 DEF Calm
  <2>2. CASE UnplanTrip(h)
    <3>1. CASE job[h].trip \in OpenTrips
      <4>1. {job[h].trip} \in SUBSET Minted
        BY <3>1 DEF OpenTrips, LiveTrips, Minted
      <4> QED
        BY <1>1, <2>2, <3>1, <4>1, DeletedIsCalm DEF UnplanTrip
    <3> QED
      BY <2>1, <2>2, <3>1 DEF UnplanTrip
  <2>3. CASE DeleteRequest(h)
    BY <1>1, <2>3, LiveIsMinted, DeletedIsCalm DEF DeleteRequest
  <2> QED
    BY <2>1, <2>2, <2>3 DEF TakeBack, RemoveTask, LookForTrip, CancelRequest, Die, tables
<1>5. \/ job' = [job EXCEPT ![h] = Idle]
      \/ \E pc \in {"remove", "cancel"} : job' = [job EXCEPT ![h] = [job[h] EXCEPT !.pc = pc]]
  BY DEF TakeBack, UnplanTrip, RemoveTask, LookForTrip, CancelRequest, DeleteRequest, Die,
         Step, End
<1>6. ASSUME NEW pc \in {"remove", "cancel"}
      PROVE  [job[h] EXCEPT !.pc = pc].pc = pc /\ Fits([job[h] EXCEPT !.pc = pc], Minted)
  BY <1>1 DEF JobType, Fits
<1>7. (\A g \in Handlers \ {h} : job'[g] = job[g]) /\ Quiet(h)
  <2>1. Minted' = Minted
    BY <1>1, <1>4, CalmOrder
  <2>2. PICK r : job' = [job EXCEPT ![h] = r] /\ r.pc \in {"idle", "remove", "cancel"}
                 /\ Fits(r, Minted)
    BY <1>5, <1>6, IdleFits
  <2>3. job'[h] = r /\ \A g \in Handlers \ {h} : job'[g] = job[g]
    BY <1>1, <2>2 DEF TypeOK
  <2> QED
    BY <2>1, <2>2, <2>3 DEF Quiet
<1>8. job[h].pc = "complete" => job[h].trip \in orphans'
  <2>1. CASE TakeBack(h)
    BY <2>1 DEF TakeBack, UnplanTrip, RemoveTask, LookForTrip, CancelRequest, DeleteRequest, At
  <2>2. CASE Die(h)
    BY <2>2 DEF Die, At
  <2> QED
    BY <2>1, <2>2
<1>9. \A g \in Handlers : Quiet(g)
  BY <1>7 DEF Quiet
<1> QED
  BY <1>2, <1>3, <1>4, <1>7, <1>8, <1>9, CalmStep

LEMMA DispatcherStep ==
  ASSUME IInv, TypeOK', NEW t \in Trips, CancelTrip(t) \/ DeleteTrip(t)
  PROVE  IInv'
<1>1. TypeOK /\ Order /\ AutoPlacedOnce
  BY Parts
<1>2. UNCHANGED <<job, links, papers, forced, orphans>>
  BY DEF CancelTrip, DeleteTrip, ghosts
<1>3. \A u \in Trips : Calm(u)
  <2>1. CASE CancelTrip(t)
    BY <1>1, <2>1 DEF CancelTrip, Calm, TypeOK, TripType
  <2>2. CASE DeleteTrip(t)
    <3>1. {t} \in SUBSET Minted
      BY <1>1, <2>2, LiveIsMinted DEF DeleteTrip, LiveTrips
    <3> QED
      BY <1>1, <2>2, <3>1, DeletedIsCalm DEF DeleteTrip
  <2> QED
    BY <2>1, <2>2
<1>4. AutoPlacedOnce'
  BY <1>1, RemovedBoard DEF CancelTrip, DeleteTrip
<1>5. \A g \in Handlers : Quiet(g)
  BY <1>2 DEF Quiet
<1>6. Recorded
  BY <1>2 DEF Recorded
<1> QED
  BY <1>2, <1>3, <1>4, <1>5, <1>6, CalmStep
-----------------------------------------------------------------------------
LEMMA InitIInv == Init => IInv
<1> SUFFICES ASSUME Init
             PROVE  IInv
  OBVIOUS
<1> USE DEF Init
<1>1. TypeOK
  <2>1. request \in RequestType
    BY DEF RequestType
  <2>2. task \in [Tasks -> TaskType]
    BY DEF TaskType, NoTask
  <2>3. trip \in [Trips -> TripType]
    BY DEF TripType, NoTrip, Status
  <2>4. spent \in [jobs : 0..MaxJobs, deaths : 0..MaxDeaths]
    BY AuxTransportAssumption
  <2> QED
    BY <2>1, <2>2, <2>3, <2>4, IdleType DEF TypeOK
<1>2. \A h \in Handlers : job[h].pc = "idle" /\ Fits(job[h], Minted)
  BY IdleFits
<1>3. \A t \in Trips : trip[t] = NoTrip /\ trip[t].status = "none" /\ ~trip[t].token
                       /\ ~trip[t].used /\ links[t] = 0 /\ papers[t] = 0
  BY DEF NoTrip
<1>4. MintedInOrder /\ UnmintedIsEmpty
  <2>1. Minted = 1..0 /\ 0 \in 0..MaxTrips
    BY <1>3, AuxTransportAssumption DEF Minted
  <2> QED
    BY <1>3, <2>1 DEF MintedInOrder, UnmintedIsEmpty
<1>5. JobsFit
  BY <1>2 DEF JobsFit
<1>6. LoadedBeforeLink
  <2>1. \A t \in Trips : trip[t].status # "planned"
    BY <1>3
  <2>2. \A h \in Handlers : job[h].pc \notin {"claim", "retire", "send link"}
    BY <1>2
  <2> QED
    BY <2>1, <2>2 DEF LoadedBeforeLink
<1>7. OneLink
  <2>1. \A h \in Handlers, t \in Trips : ~Sending(h, t)
    BY <1>2 DEF Sending
  <2> QED
    BY <1>3, <2>1 DEF OneLink
<1>8. OnePaper /\ SignatureCompletes
  BY <1>3 DEF OnePaper, SignatureCompletes
<1>9. AutoPlacedOnce
  <2>1. \A a \in Tasks : ~task[a].auto
    BY DEF NoTask
  <2> QED
    BY <2>1 DEF AutoPlacedOnce
<1> QED
  BY <1>1, <1>4, <1>5, <1>6, <1>7, <1>8, <1>9 DEF IInv

LEMMA NextType == TypeOK /\ JobsFit /\ Next => TypeOK'
<1> SUFFICES ASSUME TypeOK, JobsFit, Next
             PROVE  TypeOK'
  OBVIOUS
<1>1. ASSUME NEW h \in Handlers,
             \/ Start(h) \/ Confirm(h) \/ Place(h) \/ Plan(h)
             \/ Load(h) \/ Close(h) \/ TakeBack(h) \/ Die(h)
      PROVE  TypeOK'
  BY <1>1, StartType, PlaceType, PlanType, LoadType, TakeBackType
<1>2. ASSUME NEW t \in Trips, CancelTrip(t) \/ DeleteTrip(t)
      PROVE  TypeOK'
  BY <1>2, DispatcherType
<1> QED
  BY <1>1, <1>2 DEF Next

LEMMA NextIInv == IInv /\ [Next]_vars => IInv'
<1> SUFFICES ASSUME IInv, [Next]_vars
             PROVE  IInv'
  OBVIOUS
<1>1. CASE Next
  <2>1. TypeOK'
    BY <1>1, NextType DEF IInv
  <2>2. ASSUME NEW h \in Handlers, Start(h)
        PROVE  IInv'
    BY <2>1, <2>2, QuietStart, RegisterStep, SignStep DEF Start
  <2>3. ASSUME NEW h \in Handlers, Confirm(h) \/ Place(h)
        PROVE  IInv'
    BY <2>1, <2>3, QuietPlace
  <2>4. ASSUME NEW h \in Handlers, Plan(h)
        PROVE  IInv'
    BY <2>1, <2>4, QuietPlan, MintStep DEF Plan
  <2>5. ASSUME NEW h \in Handlers, Load(h) \/ Close(h)
        PROVE  IInv'
    BY <2>1, <2>5, RefuseStep, ForceStep, ClaimStep, SendStep, ArriveStep, CompleteStep
    DEF Load, Close
  <2>6. ASSUME NEW h \in Handlers, TakeBack(h) \/ Die(h)
        PROVE  IInv'
    BY <2>1, <2>6, TakeBackStep
  <2>7. ASSUME NEW t \in Trips, CancelTrip(t) \/ DeleteTrip(t)
        PROVE  IInv'
    BY <2>1, <2>7, DispatcherStep
  <2> QED
    BY <1>1, <2>2, <2>3, <2>4, <2>5, <2>6, <2>7 DEF Next
<1>2. CASE UNCHANGED vars
  <2>1. UNCHANGED <<request, truck, task, trip, job, links, papers, forced, orphans, raced, spent>>
    BY <1>2 DEF vars, tables, ghosts
  <2>2. TypeOK'
    BY <2>1 DEF IInv, TypeOK
  <2>3. \A t \in Trips : Calm(t)
    BY <2>1 DEF Calm
  <2>4. \A h \in Handlers : Quiet(h)
    BY <2>1 DEF Quiet
  <2>5. AutoPlacedOnce'
    BY <2>1, CalmBoard DEF IInv
  <2>6. Recorded
    BY <2>1 DEF Recorded
  <2> QED
    BY <2>1, <2>2, <2>3, <2>4, <2>5, <2>6, CalmStep
<1> QED
  BY <1>1, <1>2

\* The invariant the properties below rest on.
THEOREM Invariant == Spec => []IInv
BY InitIInv, NextIInv, PTL DEF Spec

\* Every row, every handler and every count keeps its type; an auxiliary trip
\* reaches none of the statuses of the organisation's own (aux-stage.ts 48-51).
THEOREM TypeCorrect == Spec => []TypeOK
<1>1. IInv => TypeOK
  BY DEF IInv
<1> QED
  BY <1>1, Invariant, PTL

\* A trip's driver is sent the link, and its CMR queued, once: of the handlers
\* that load the trip, one claims its token
\* (applyAuxiliaryLoadedSideEffects, "EXACTLY ONCE even if called from several paths").
THEOREM LinkTheorem == Spec => []LinkSentOnce
<1>1. IInv => LinkSentOnce
  BY DEF IInv, OneLink, LinkSentOnce
<1> QED
  BY <1>1, Invariant, PTL

\* A trip's link is spent on one document, whichever page the driver closes the
\* trip from, and however often (completeAuxiliaryOnArrivalCmr, signByPublicToken).
THEOREM PaperTheorem == Spec => []PaperOnce
<1>1. IInv => PaperOnce
  BY DEF IInv, OnePaper, PaperOnce
<1> QED
  BY <1>1, Invariant, PTL

\* The server places a truck at most once, and never after a dispatcher has,
\* however many confirmations and sweeps race (tryAutoAssignAuxTruck).
THEOREM PlacedTheorem == Spec => []AutoPlacedOnce
<1>1. IInv => AutoPlacedOnce
  BY DEF IInv
<1> QED
  BY <1>1, Invariant, PTL

\* A loaded trip whose link is spent is being completed, unless an administrator
\* forced it back or the handler that took the signature died
\* (signByPublicToken, 2811: the signature and the status are two statements).
THEOREM SpentTheorem == Spec => []SpentLinkCloses
<1>1. IInv => SpentLinkCloses
  BY DEF IInv, SignatureCompletes, SpentLinkCloses
<1> QED
  BY <1>1, Invariant, PTL

\* A completed or cancelled trip is given another status by the administrator's
\* override alone, whatever a handler read of it before.
THEOREM ClosedTheorem == Spec => ClosedStaysClosed
<1> DEFINE Kept(t) == trip[t].status \in {"completed", "cancelled"} /\ trip'[t].status # trip[t].status
                        => trip'[t].status \in forced'[t]
<1>1. ASSUME IInv, [Next]_vars, NEW t \in Trips
      PROVE  Kept(t)
  <2>1. TypeOK /\ Order /\ JobsFit /\ trip \in [Trips -> TripType]
    BY <1>1 DEF IInv, Order, TypeOK
  <2>2. CASE UNCHANGED trip
    BY <2>2
  <2>3. ASSUME NEW h \in Handlers, Start(h)
        PROVE  Kept(t)
    <3>1. CASE RegisterLoad(h)
      <4>1. PICK u \in OpenTrips : trip' = [trip EXCEPT ![u].status = "loaded"]
        BY <3>1 DEF RegisterLoad, Newest
      <4>2. trip[u].status = "planned"
        BY DEF OpenTrips
      <4> QED
        BY <2>1, <4>1, <4>2
    <3>2. CASE Sign(h)
      <4>1. PICK u \in Trips : trip' = [trip EXCEPT ![u].used = TRUE]
        BY <3>2 DEF Sign
      <4> QED
        BY <2>1, <4>1 DEF TripType
    <3> QED
      BY <2>2, <2>3, <3>1, <3>2
      DEF Start, BeginConfirm, BeginSweep, BeginPlace, BeginRewire, BeginForce, BeginArrival,
          BeginRemove, BeginCancel, BeginDeleteRequest, tables
  <2>4. ASSUME NEW h \in Handlers, Plan(h)
        PROVE  Kept(t)
    <3>1. CASE MintTrip(h)
      <4> DEFINE n == Cardinality(Minted) + 1
      <4>1. n \in Trips /\ \E r : trip' = [trip EXCEPT ![n] = r]
        BY <3>1 DEF MintTrip, Minted
      <4>2. trip[n].status = "none"
        BY <2>1, <4>1, NextIsFresh DEF NoTrip
      <4> HIDE DEF n
      <4> QED
        BY <2>1, <4>1, <4>2
    <3> QED
      BY <2>2, <2>4, <3>1
      DEF Plan, ReadTask, ReadRequest, Adopt, DetachTasks, AttachTask, MoveTrip, PointToTrip, tables
  <2>5. ASSUME NEW h \in Handlers, Load(h) \/ Close(h)
        PROVE  Kept(t)
    <3>1. CASE ForceStatus(h)
      <4>1. PICK u \in Trips, s \in Status, j \in JobType : Override(h, u, s, j)
        BY <2>1, <3>1, ForceIs DEF Minted
      <4>2. s \in forced'[u] /\ trip' = [trip EXCEPT ![u].status = s]
        BY <2>1, <4>1, ForceRecords DEF Override
      <4>3. trip'[t].status # trip[t].status => t = u /\ trip'[t].status = s
        BY <2>1, <4>2 DEF TripType
      <4> QED
        BY <4>2, <4>3
    <3>2. CASE ClaimToken(h)
      BY <2>1, <3>2 DEF ClaimToken, TripType
    <3>3. CASE Arrive(h)
      BY <2>1, <3>3 DEF Arrive
    <3>4. CASE CompleteSigned(h)
      BY <2>1, <3>4 DEF CompleteSigned
    <3> QED
      BY <2>2, <2>5, <3>1, <3>2, <3>3, <3>4
      DEF Load, Close, RefuseForce, RetireTruck, SendLink, tables
  <2>6. ASSUME NEW trips, trip' = Deleted(trips)
        PROVE  Kept(t)
    BY <2>1, <2>6 DEF Deleted, TripType
  <2>7. ASSUME NEW h \in Handlers,
               Confirm(h) \/ Place(h) \/ TakeBack(h) \/ Die(h)
        PROVE  Kept(t)
    BY <2>2, <2>6, <2>7
    DEF Confirm, MintTruck, ConfirmRequest, Place, AssignTruck, LeaveTruck, PlaceTruck,
        TakeBack, UnplanTrip, RemoveTask, LookForTrip, CancelRequest, DeleteRequest, Die, tables
  <2>8. ASSUME NEW u \in Trips, CancelTrip(u) \/ DeleteTrip(u)
        PROVE  Kept(t)
    BY <2>1, <2>6, <2>8 DEF CancelTrip, DeleteTrip
  <2> QED
    BY <1>1, <2>2, <2>3, <2>4, <2>5, <2>7, <2>8 DEF Next, vars, tables
<1>2. IInv /\ [Next]_vars
        => [\A t \in Trips : trip[t].status \in {"completed", "cancelled"}
              /\ trip'[t].status # trip[t].status => trip'[t].status \in forced'[t]]_vars
  BY <1>1
<1> QED
  BY <1>2, Invariant, PTL DEF Spec, ClosedStaysClosed
-----------------------------------------------------------------------------
(* One open trip, with one row of the board, that the request may point to. *)

\* Trips that are open and were never forced back to be.
Standing == OpenTrips \ Reopened

OnePlanner == \A g, h \in Planning : g = h
OneOpen == /\ \A t, u \in Standing : t = u
           /\ \A h \in Handlers : At(h, "mint trip") => Standing = {}
OneRow == \A a, b \in Tasks : task[a].live /\ task[b].live /\ task[a].trip = task[b].trip
                                => a = b \/ task[a].trip = None
Handed == \A h \in Handlers : At(h, "attach") =>
            \A a \in Tasks \ {job[h].task} : task[a].live => task[a].trip # job[h].trip
Pointed == /\ request.live /\ request.trip # None => request.trip \in LiveTrips
           /\ \A h \in Handlers : At(h, "point") => job[h].trip \in LiveTrips
InTurn == OnePlanner /\ OneOpen /\ OneRow /\ Handed /\ Pointed

LEMMA PlannedParts == TypeOK => (Planned <=> TripsAreMinted /\ (~raced => InTurn))
<1>1. TypeOK => raced \in BOOLEAN /\ request.trip \in Trips \cup {None}
  BY DEF TypeOK, RequestType
<1>2. request.trip \in Trips \cup {None} =>
        ((request.live /\ request.trip # None => request.trip \in LiveTrips)
           <=> (request.live /\ request.trip # None => Live(request.trip)))
  BY DEF LiveTrips
<1>3. OpenTrips \subseteq Reopened <=> Standing = {}
  BY DEF Standing
<1>4. OnePlans <=> (~raced => OnePlanner /\ OneOpen)
  BY <1>3 DEF OnePlans, OnePlanner, OneOpen, Standing
<1> QED
  BY <1>1, <1>2, <1>4 DEF Planned, OneRowEach, PointsToLiveTrip, PointsAhead,
                          InTurn, OneRow, Handed, Pointed

LEMMA PlannedPartsNext == TypeOK' => (Planned' <=> TripsAreMinted' /\ (~raced' => InTurn'))
BY PlannedParts, PTL

\* The steps that plan nothing: no trip is opened, given to a row or taken back, ...
Settled == /\ Standing' \subseteq Standing
           /\ LiveTrips \subseteq LiveTrips'
           /\ request'.live => request.live
           /\ request'.trip = request.trip
           /\ Minted \subseteq Minted'

BoardSettled == \A a \in Tasks :
  \/ task'[a].trip = None
  \/ task'[a].trip = task[a].trip /\ (task'[a].live => task[a].live)

\* ... and a handler that goes on planning had begun to.
Unhurried(h) == \/ job'[h] = job[h]
                \/ /\ job'[h].pc \notin {"mint trip", "attach", "point"}
                   /\ h \in Planning' => h \in Planning

LEMMA TripIsNotNone == None \notin Trips
BY AuxTransportAssumption DEF Trips

LEMMA SettledStep ==
  ASSUME TypeOK, JobsFit, TypeOK', Planned, UNCHANGED raced, Settled, BoardSettled,
         \A h \in Handlers : Unhurried(h)
  PROVE  Planned'
<1>1. TripsAreMinted /\ (~raced => InTurn)
  BY PlannedParts
<1>2. TripsAreMinted'
  BY <1>1 DEF TripsAreMinted, BoardSettled, Settled
<1>3. ASSUME InTurn
      PROVE  InTurn'
  <2>1. OnePlanner'
    BY <1>3 DEF InTurn, OnePlanner, Unhurried, Planning
  <2>2. OneOpen'
    BY <1>3 DEF InTurn, OneOpen, Unhurried, Settled, At
  <2>3. OneRow'
    BY <1>3 DEF InTurn, OneRow, BoardSettled
  <2>4. ASSUME NEW h \in Handlers, job'[h].pc = "attach",
               NEW a \in Tasks, a # job'[h].task, task'[a].live
        PROVE  task'[a].trip # job'[h].trip
    <3>1. job'[h] = job[h]
      BY <2>4 DEF Unhurried
    <3>2. job[h].trip # None
      BY <2>4, <3>1, TripIsNotNone DEF JobsFit, Fits, Minted
    <3> QED
      BY <1>3, <2>4, <3>1, <3>2 DEF InTurn, Handed, BoardSettled, At
  <2>5. Handed'
    BY <2>4 DEF Handed, At
  <2>6. Pointed'
    BY <1>3 DEF InTurn, Pointed, Settled, Unhurried, At
  <2> QED
    BY <2>1, <2>2, <2>3, <2>5, <2>6 DEF InTurn
<1> QED
  BY <1>1, <1>2, <1>3, PlannedPartsNext

\* The same, of one handler's job.
LEMMA UnhurriedJob ==
  ASSUME TypeOK, NEW h \in Handlers, NEW r, job' = [job EXCEPT ![h] = r],
         r.pc \notin {"mint trip", "attach", "point"},
         r.pc \in {"request", "adopt", "detach", "move"} => h \in Planning
  PROVE  \A g \in Handlers : Unhurried(g)
<1>1. job'[h] = r /\ \A g \in Handlers \ {h} : job'[g] = job[g]
  BY DEF TypeOK
<1>2. \A g \in Handlers \ {h} : Unhurried(g)
  BY <1>1 DEF Unhurried
<1>3. Unhurried(h)
  BY <1>1 DEF Unhurried, Planning
<1> QED
  BY <1>2, <1>3

LEMMA UnhurriedStep ==
  ASSUME TypeOK, NEW h \in Handlers, NEW pc \in Pc, Step(h, pc),
         pc \notin {"mint trip", "attach", "point"},
         pc \in {"request", "adopt", "detach", "move"} => h \in Planning
  PROVE  \A g \in Handlers : Unhurried(g)
<1> DEFINE r == [job[h] EXCEPT !.pc = pc]
<1>1. job[h] \in JobType
  BY DEF TypeOK
<1>2. r.pc = pc
  BY <1>1 DEF JobType
<1>3. job' = [job EXCEPT ![h] = r]
  BY DEF Step
<1> HIDE DEF r
<1> QED
  BY <1>2, <1>3, UnhurriedJob

LEMMA UnhurriedEnd ==
  ASSUME TypeOK, NEW h \in Handlers, End(h)
  PROVE  \A g \in Handlers : Unhurried(g)
<1>1. Idle.pc = "idle" /\ job' = [job EXCEPT ![h] = Idle]
  BY DEF End, Idle
<1> QED
  BY <1>1, UnhurriedJob

\* The tables the trips, the rows and the request's pointer are in.
LEMMA SameTrips ==
  ASSUME UNCHANGED <<trip, forced>>
  PROVE  OpenTrips' = OpenTrips /\ LiveTrips' = LiveTrips /\ Standing' = Standing
BY DEF Standing, OpenTrips, LiveTrips, Live, Reopened

LEMMA NothingMoves ==
  ASSUME UNCHANGED <<request, task, trip, forced>>
  PROVE  Settled /\ BoardSettled
BY SameTrips DEF Settled, BoardSettled, Minted

LEMMA TripsSettle ==
  ASSUME UNCHANGED <<request, task>>, Recorded,
         \A t \in Trips : /\ trip'[t].live = trip[t].live
                          /\ trip[t].status # "none" => trip'[t].status # "none"
                          /\ trip'[t].status = "planned"
                               => trip[t].status = "planned" \/ t \in Reopened'
  PROVE  Settled /\ BoardSettled
BY RecordKept DEF Settled, BoardSettled, Standing, OpenTrips, LiveTrips, Live, Minted

LEMMA StartPlanned ==
  ASSUME IInv, TypeOK', Planned, NEW h \in Handlers, Start(h)
  PROVE  Planned'
<1>1. TypeOK /\ JobsFit
  BY DEF IInv
<1>2. UNCHANGED <<request, raced, forced>> /\ Recorded
  BY DEF Start, BeginConfirm, BeginSweep, BeginPlace, BeginRewire, RegisterLoad, BeginForce,
         BeginArrival, Sign, BeginRemove, BeginCancel, BeginDeleteRequest, tables, ghosts, Recorded
<1>3. ASSUME NEW r, Begin(h, r),
             r.pc \notin {"mint trip", "attach", "point", "request", "adopt", "detach", "move"},
             Settled, BoardSettled
      PROVE  Planned'
  <2>1. \A g \in Handlers : Unhurried(g)
    BY <1>1, <1>3, UnhurriedJob DEF Begin
  <2> QED
    BY <1>1, <1>2, <1>3, <2>1, SettledStep
<1>4. UNCHANGED <<task, trip>> => Settled /\ BoardSettled
  BY <1>2, NothingMoves
<1>5. CASE BeginConfirm(h)
  BY <1>3, <1>4, <1>5 DEF BeginConfirm, Idle, tables
<1>6. CASE BeginSweep(h)
  BY <1>3, <1>4, <1>6 DEF BeginSweep, Idle, tables
<1>7. CASE BeginPlace(h)
  BY <1>3, <1>4, <1>7 DEF BeginPlace, Idle, tables
<1>8. CASE BeginRewire(h)
  <2>1. PICK a \in Tasks, k \in Trucks \cup {None} :
          /\ Begin(h, [Idle EXCEPT !.pc = "plan", !.task = a])
          /\ task' = [task EXCEPT ![a].truck = k, ![a].auto = @ /\ k = task[a].truck]
    <3>1. \A b \in Tasks : task[b].truck \in Trucks \cup {None}
      BY <1>1 DEF TypeOK, TaskType
    <3> QED
      BY <1>8, <3>1 DEF BeginRewire
  <2>2. \A b \in Tasks : task'[b].trip = task[b].trip /\ task'[b].live = task[b].live
    BY <1>1, <2>1, Moved DEF TypeOK
  <2>3. UNCHANGED trip
    BY <1>8 DEF BeginRewire
  <2>4. Settled /\ BoardSettled
    BY <1>2, <2>2, <2>3, SameTrips DEF Settled, BoardSettled, Minted
  <2> QED
    BY <1>3, <2>1, <2>4 DEF Idle
<1>9. CASE RegisterLoad(h)
  <2>1. PICK t \in OpenTrips : /\ Begin(h, [Idle EXCEPT !.pc = "claim", !.trip = t])
                               /\ trip' = [trip EXCEPT ![t].status = "loaded"]
    BY <1>9 DEF RegisterLoad, Newest
  <2>2. Settled /\ BoardSettled
    <3>1. trip \in [Trips -> TripType]
      BY <1>1 DEF TypeOK
    <3>2. \A u \in Trips : trip'[u].live = trip[u].live
      BY <2>1, <3>1 DEF TripType
    <3>3. \A u \in Trips : trip'[u].status \in {trip[u].status, "loaded"}
      BY <2>1, <3>1 DEF TripType
    <3>4. UNCHANGED task
      BY <1>9 DEF RegisterLoad
    <3> QED
      BY <1>2, <3>2, <3>3, <3>4, TripsSettle
  <2> QED
    BY <1>3, <2>1, <2>2 DEF Idle
<1>10. CASE BeginForce(h)
  BY <1>3, <1>4, <1>10 DEF BeginForce, Idle, tables
<1>11. CASE BeginArrival(h)
  BY <1>3, <1>4, <1>11 DEF BeginArrival, Idle, tables
<1>12. CASE Sign(h)
  <2>1. PICK t \in Trips :
          /\ Begin(h, [Idle EXCEPT !.pc = "complete", !.trip = t, !.status = trip[t].status])
          /\ trip' = [trip EXCEPT ![t].used = TRUE]
    BY <1>12 DEF Sign
  <2>2. Settled /\ BoardSettled
    <3>1. trip \in [Trips -> TripType]
      BY <1>1 DEF TypeOK
    <3>2. \A u \in Trips : trip'[u].live = trip[u].live /\ trip'[u].status = trip[u].status
      BY <2>1, <3>1 DEF TripType
    <3>3. UNCHANGED task
      BY <1>12 DEF Sign
    <3> QED
      BY <1>2, <3>2, <3>3, TripsSettle
  <2> QED
    BY <1>3, <2>1, <2>2 DEF Idle
<1>13. CASE BeginRemove(h)
  BY <1>3, <1>4, <1>13 DEF BeginRemove, Idle, tables
<1>14. CASE BeginCancel(h)
  BY <1>3, <1>4, <1>14 DEF BeginCancel, Idle, tables
<1>15. CASE BeginDeleteRequest(h)
  BY <1>3, <1>4, <1>15 DEF BeginDeleteRequest, Idle, tables
<1> QED
  BY <1>5, <1>6, <1>7, <1>8, <1>9, <1>10, <1>11, <1>12, <1>13, <1>14, <1>15 DEF Start

LEMMA PlacePlanned ==
  ASSUME IInv, TypeOK', Planned, NEW h \in Handlers, Confirm(h) \/ Place(h)
  PROVE  Planned'
<1>1. TypeOK /\ JobsFit /\ job[h] \in JobType
  BY DEF IInv, TypeOK
<1>2. UNCHANGED <<trip, raced, forced>>
  BY DEF Confirm, Place, MintTruck, ConfirmRequest, AssignTruck, LeaveTruck, PlaceTruck,
         tables, ghosts
<1>3. CASE MintTruck(h)
  <2> DEFINE k == CHOOSE j \in Trucks : truck[j] = "none"
             r == [job[h] EXCEPT !.pc = "confirm", !.truck = k]
  <2>1. job' = [job EXCEPT ![h] = r] /\ UNCHANGED <<request, task>>
    BY <1>3 DEF MintTruck
  <2>2. r.pc = "confirm"
    BY <1>1 DEF JobType
  <2> HIDE DEF r
  <2>3. \A g \in Handlers : Unhurried(g)
    BY <1>1, <2>1, <2>2, UnhurriedJob
  <2> QED
    BY <1>1, <1>2, <2>1, <2>3, NothingMoves, SettledStep
<1>4. CASE ConfirmRequest(h)
  <2>1. Step(h, "assign") /\ UNCHANGED task /\ "assign" \in Pc
        /\ request' = [request EXCEPT !.status = "confirmed", !.truck = job[h].truck]
    BY <1>4 DEF ConfirmRequest, Pc
  <2>2. request'.live = request.live /\ request'.trip = request.trip
    BY <1>1, <2>1 DEF TypeOK, RequestType
  <2>3. Settled /\ BoardSettled
    BY <1>2, <2>1, <2>2, SameTrips DEF Settled, BoardSettled, Minted
  <2>4. \A g \in Handlers : Unhurried(g)
    BY <1>1, <2>1, UnhurriedStep
  <2> QED
    BY <1>1, <1>2, <2>3, <2>4, SettledStep
<1>5. ASSUME NEW auto \in BOOLEAN, job[h].pc \in {"assign", "place"},
             Insert(h, job[h].truck, auto), UNCHANGED request
      PROVE  Planned'
  <2>1. job[h].truck \in Trucks
    BY <1>1, <1>5 DEF JobsFit, Fits
  <2>2. PICK a \in Tasks : Filled(h, a, job[h].truck, auto)
    BY <1>1, <1>5, <2>1, InsertRow
  <2>3. task'[a].trip = None /\ \A b \in Tasks \ {a} : task'[b] = task[b]
    BY <1>1, <2>2 DEF TypeOK, NoTask, Filled
  <2>4. Settled /\ BoardSettled
    BY <1>2, <1>5, <2>3, SameTrips DEF Settled, BoardSettled, Minted
  <2> DEFINE r == [job[h] EXCEPT !.pc = "plan", !.task = a]
  <2>5. job' = [job EXCEPT ![h] = r] /\ r.pc = "plan"
    BY <1>1, <2>2 DEF JobType, Filled
  <2> HIDE DEF r
  <2>6. \A g \in Handlers : Unhurried(g)
    BY <1>1, <2>5, UnhurriedJob
  <2> QED
    BY <1>1, <1>2, <2>4, <2>6, SettledStep
<1>6. CASE AssignTruck(h)
  BY <1>5, <1>6 DEF AssignTruck, At
<1>7. CASE PlaceTruck(h)
  BY <1>5, <1>7 DEF PlaceTruck, At
<1>8. CASE LeaveTruck(h)
  <2>1. End(h) /\ UNCHANGED <<request, task>>
    BY <1>8 DEF LeaveTruck, tables
  <2> QED
    BY <1>1, <1>2, <2>1, UnhurriedEnd, NothingMoves, SettledStep
<1> QED
  BY <1>3, <1>4, <1>6, <1>7, <1>8 DEF Confirm, Place

LEMMA LoadPlanned ==
  ASSUME IInv, TypeOK', Planned, NEW h \in Handlers, Load(h) \/ Close(h)
  PROVE  Planned'
<1> DEFINE t == job[h].trip
<1>1. TypeOK /\ JobsFit /\ {"claim", "retire", "send link"} \subseteq Pc
  BY DEF IInv, Pc
<1>2. UNCHANGED <<request, task, raced>>
  BY DEF Load, Close, RefuseForce, ForceStatus, ClaimToken, RetireTruck, SendLink, Arrive,
         CompleteSigned, tables, ghosts
<1>3. trip \in [Trips -> TripType]
  BY <1>1 DEF TypeOK
<1>4. \A g \in Handlers : Unhurried(g)
  <2>1. \/ End(h)
        \/ \E pc \in {"claim", "retire", "send link"} : Step(h, pc)
    BY DEF Load, Close, RefuseForce, ForceStatus, ClaimToken, RetireTruck, SendLink, Arrive,
           CompleteSigned
  <2> QED
    BY <1>1, <2>1, UnhurriedEnd, UnhurriedStep
<1>5. ASSUME NEW u \in Trips, ~ForceStatus(h)
      PROVE  /\ trip'[u].live = trip[u].live
             /\ trip'[u].status \in {trip[u].status, "loaded", "completed"}
  <2>1. trip[u] \in TripType
    BY <1>3
  <2>2. CASE RefuseForce(h)
    BY <2>2 DEF RefuseForce, tables
  <2>3. CASE ClaimToken(h)
    BY <1>3, <2>1, <2>3 DEF ClaimToken, TripType
  <2>4. CASE Arrive(h)
    BY <1>3, <2>1, <2>4 DEF Arrive, TripType
  <2>5. CASE CompleteSigned(h)
    BY <1>3, <2>1, <2>5 DEF CompleteSigned, TripType
  <2>6. CASE RetireTruck(h) \/ SendLink(h)
    BY <2>6 DEF RetireTruck, SendLink, tables
  <2> QED
    BY <1>5, <2>2, <2>3, <2>4, <2>5, <2>6 DEF Load, Close
<1>6. Settled /\ BoardSettled
  <2>1. CASE ForceStatus(h)
    <3>1. PICK u \in Trips, s \in Status, j \in JobType : Override(h, u, s, j)
      BY <1>1, <2>1, ForceIs DEF Minted
    <3>2. Recorded /\ s \in forced'[u] /\ s # "none"
      BY <1>1, <3>1, ForceRecords DEF Override
    <3>3. \A v \in Trips : /\ trip'[v].live = trip[v].live
                           /\ trip'[v].status = IF v = u THEN s ELSE trip[v].status
      BY <1>3, <3>1 DEF Override, TripType
    <3> QED
      BY <1>2, <3>2, <3>3, TripsSettle DEF Reopened
  <2>2. CASE ~ForceStatus(h)
    <3>1. Recorded
      BY <2>2 DEF Load, Close, RefuseForce, ClaimToken, RetireTruck, SendLink, Arrive,
                  CompleteSigned, ghosts, Recorded
    <3> QED
      BY <1>2, <1>5, <2>2, <3>1, TripsSettle
  <2> QED
    BY <2>1, <2>2
<1> QED
  BY <1>1, <1>2, <1>4, <1>6, SettledStep
-----------------------------------------------------------------------------
(* The steps that plan.                                                     *)

LEMMA ReadTaskPlanned ==
  ASSUME IInv, TypeOK', Planned, NEW h \in Handlers, ReadTask(h)
  PROVE  Planned'
<1> DEFINE a == job[h].task
           r == [job[h] EXCEPT !.pc = "request", !.truck = task[a].truck, !.trip = task[a].trip]
<1>1. TypeOK /\ JobsFit /\ job[h] \in JobType
  BY DEF IInv, TypeOK
<1>2. UNCHANGED <<request, task, trip, forced>>
  BY DEF ReadTask, tables
<1>3. Settled /\ BoardSettled
  BY <1>2, NothingMoves
<1>4. CASE End(h) /\ UNCHANGED raced
  BY <1>1, <1>3, <1>4, UnhurriedEnd, SettledStep
<1>5. CASE job' = [job EXCEPT ![h] = r] /\ Crossed
  <2>1. r.pc = "request"
    BY <1>1 DEF JobType
  <2> HIDE DEF r
  <2>2. TripsAreMinted /\ (~raced => InTurn)
    BY <1>1, PlannedParts
  <2>3. TripsAreMinted'
    BY <1>2, <2>2 DEF TripsAreMinted, Minted
  <2>4. ASSUME ~raced'
        PROVE  InTurn'
    <3>1. InTurn /\ Planning = {}
      BY <1>5, <2>2, <2>4 DEF Crossed
    <3>2. job'[h].pc = "request" /\ \A g \in Handlers \ {h} : job'[g] = job[g]
      BY <1>1, <1>5, <2>1 DEF TypeOK
    <3>3. \A g \in Handlers : job'[g].pc \notin {"mint trip", "attach", "point"}
      BY <3>1, <3>2 DEF Planning
    <3>4. OnePlanner'
      BY <3>1, <3>2 DEF OnePlanner, Planning
    <3>5. Standing' = Standing /\ LiveTrips' = LiveTrips
      BY <1>2, SameTrips
    <3>6. OneOpen' /\ OneRow' /\ Handed' /\ Pointed'
      BY <1>2, <3>1, <3>3, <3>5 DEF InTurn, OneOpen, OneRow, Handed, Pointed, At
    <3> QED
      BY <3>4, <3>6 DEF InTurn
  <2> QED
    BY <2>3, <2>4, PlannedPartsNext
<1> QED
  BY <1>4, <1>5 DEF ReadTask

\* The newest trip is taken over, or minted while none is open.
LEMMA AdoptPlanned ==
  ASSUME IInv, TypeOK', Planned, NEW h \in Handlers, Adopt(h)
  PROVE  Planned'
<1>1. TypeOK /\ JobsFit /\ job[h] \in JobType
  BY DEF IInv, TypeOK
<1>2. UNCHANGED <<request, task, trip, raced, forced>> /\ job[h].pc = "adopt" /\ h \in Planning
  BY DEF Adopt, tables, ghosts, At, Planning
<1>3. ASSUME NEW t \in Newest(OpenTrips), job' = [job EXCEPT ![h].pc = "detach", ![h].trip = t]
      PROVE  Planned'
  <2> DEFINE r == [job[h] EXCEPT !.pc = "detach", !.trip = t]
  <2>1. job' = [job EXCEPT ![h] = r] /\ r.pc = "detach"
    BY <1>1, <1>3 DEF JobType
  <2> HIDE DEF r
  <2>2. \A g \in Handlers : Unhurried(g)
    BY <1>1, <1>2, <2>1, UnhurriedJob
  <2> QED
    BY <1>1, <1>2, <2>2, NothingMoves, SettledStep
<1>4. CASE OpenTrips = {} /\ Step(h, "mint trip")
  <2>1. job'[h].pc = "mint trip" /\ \A g \in Handlers \ {h} : job'[g] = job[g]
    BY <1>1, <1>4 DEF Step, TypeOK, JobType
  <2>2. TripsAreMinted /\ (~raced => InTurn)
    BY <1>1, PlannedParts
  <2>3. TripsAreMinted'
    BY <1>2, <2>2 DEF TripsAreMinted, Minted
  <2>4. ASSUME InTurn
        PROVE  InTurn'
    <3>1. Standing' = Standing /\ LiveTrips' = LiveTrips
      BY <1>2, SameTrips
    <3>2. Planning' = Planning
      BY <1>2, <2>1 DEF Planning
    <3>3. OnePlanner' /\ OneOpen'
      BY <1>4, <2>4, <3>1, <3>2 DEF InTurn, OnePlanner, OneOpen, Standing
    <3>4. OneRow'
      BY <1>2, <2>4 DEF InTurn, OneRow
    <3>5. Handed' /\ Pointed'
      BY <1>2, <2>1, <2>4, <3>1 DEF InTurn, Handed, Pointed, At
    <3> QED
      BY <3>3, <3>4, <3>5 DEF InTurn
  <2> QED
    BY <1>2, <2>2, <2>3, <2>4, PlannedPartsNext
<1> QED
  BY <1>3, <1>4 DEF Adopt

\* No row has the trip but the one it is handed to: the others have been detached.
LEMMA DetachPlanned ==
  ASSUME IInv, TypeOK', Planned, NEW h \in Handlers, DetachTasks(h)
  PROVE  Planned'
<1> DEFINE t == job[h].trip
<1>1. TypeOK /\ JobsFit /\ job[h] \in JobType
  BY DEF IInv, TypeOK
<1>2. UNCHANGED <<request, trip, raced, forced>> /\ job[h].pc = "detach" /\ h \in Planning
  BY DEF DetachTasks, ghosts, At, Planning
<1>3. t \in Trips /\ t # None
  BY <1>1, <1>2, TripIsNotNone DEF JobsFit, Fits, Minted
<1>4. job'[h] = [job[h] EXCEPT !.pc = "attach"] /\ \A g \in Handlers \ {h} : job'[g] = job[g]
  BY <1>1 DEF DetachTasks, Step, TypeOK
<1>5. job'[h].pc = "attach" /\ job'[h].trip = t /\ job'[h].task = job[h].task
  BY <1>1, <1>4 DEF JobType
<1>6. ASSUME NEW a \in Tasks
      PROVE  /\ task'[a].live = task[a].live
             /\ task'[a].trip \in {None, task[a].trip}
             /\ a # job[h].task /\ task'[a].live => task'[a].trip # t
  <2>1. task[a] \in TaskType
    BY <1>1 DEF TypeOK
  <2>2. task'[a] = IF task[a].trip = t /\ a # job[h].task /\ task[a].live
                   THEN [task[a] EXCEPT !.trip = None] ELSE task[a]
    BY DEF DetachTasks
  <2> QED
    BY <1>3, <2>1, <2>2 DEF TaskType
<1>7. TripsAreMinted /\ (~raced => InTurn)
  BY <1>1, PlannedParts
<1>8. TripsAreMinted'
  BY <1>2, <1>6, <1>7 DEF TripsAreMinted, Minted
<1>9. ASSUME InTurn
      PROVE  InTurn'
  <2>1. Standing' = Standing /\ LiveTrips' = LiveTrips
    BY <1>2, SameTrips
  <2>2. Planning' = Planning
    BY <1>2, <1>4, <1>5 DEF Planning
  <2>3. OnePlanner' /\ OneOpen' /\ Pointed'
    BY <1>2, <1>4, <1>5, <1>9, <2>1, <2>2 DEF InTurn, OnePlanner, OneOpen, Pointed, At
  <2>4. OneRow'
    BY <1>6, <1>9 DEF InTurn, OneRow
  <2>5. ASSUME NEW g \in Handlers, job'[g].pc = "attach"
        PROVE  g = h
    BY <1>2, <1>4, <1>5, <1>9, <2>2, <2>5 DEF InTurn, OnePlanner, Planning
  <2>6. Handed'
    BY <1>5, <1>6, <2>5 DEF Handed, At
  <2> QED
    BY <2>3, <2>4, <2>6 DEF InTurn
<1> QED
  BY <1>2, <1>7, <1>8, <1>9, PlannedPartsNext

LEMMA AttachPlanned ==
  ASSUME IInv, TypeOK', Planned, NEW h \in Handlers, AttachTask(h)
  PROVE  Planned'
<1> DEFINE t == job[h].trip
           b == job[h].task
<1>1. TypeOK /\ JobsFit /\ job[h] \in JobType
  BY DEF IInv, TypeOK
<1>2. UNCHANGED <<request, trip, raced, forced>> /\ job[h].pc = "attach" /\ h \in Planning
  BY DEF AttachTask, ghosts, At, Planning
<1>3. t \in Minted /\ b \in Tasks
  BY <1>1, <1>2 DEF JobsFit, Fits
<1>4. job'[h].pc = "move" /\ \A g \in Handlers \ {h} : job'[g] = job[g]
  BY <1>1 DEF AttachTask, Step, TypeOK, JobType
<1>5. task'[b].trip = t /\ task'[b].live = task[b].live
      /\ \A a \in Tasks \ {b} : task'[a] = task[a]
  BY <1>1, <1>3 DEF AttachTask, TypeOK, TaskType
<1>6. TripsAreMinted /\ (~raced => InTurn)
  BY <1>1, PlannedParts
<1>7. TripsAreMinted'
  BY <1>2, <1>3, <1>5, <1>6 DEF TripsAreMinted, Minted
<1>8. ASSUME InTurn
      PROVE  InTurn'
  <2>1. Standing' = Standing /\ LiveTrips' = LiveTrips
    BY <1>2, SameTrips
  <2>2. Planning' = Planning
    BY <1>2, <1>4 DEF Planning
  <2>3. OnePlanner' /\ OneOpen' /\ Pointed'
    BY <1>2, <1>4, <1>8, <2>1, <2>2 DEF InTurn, OnePlanner, OneOpen, Pointed, At
  <2>4. \A a \in Tasks \ {b} : task[a].live => task[a].trip # t
    BY <1>2, <1>8 DEF InTurn, Handed, At
  <2>5. OneRow'
    BY <1>5, <1>8, <2>4 DEF InTurn, OneRow
  <2>6. \A g \in Handlers : job'[g].pc # "attach"
    BY <1>2, <1>4, <1>8 DEF InTurn, OnePlanner, Planning
  <2>7. Handed'
    BY <2>6 DEF Handed, At
  <2> QED
    BY <2>3, <2>5, <2>7 DEF InTurn
<1> QED
  BY <1>2, <1>6, <1>7, <1>8, PlannedPartsNext

\* A trip is minted while none is open but those that are reopened meanwhile, for one row.
LEMMA MintPlanned ==
  ASSUME IInv, TypeOK', Planned, NEW h \in Handlers, MintTrip(h)
  PROVE  Planned'
<1> DEFINE t == Cardinality(Minted) + 1
           b == job[h].task
           r == [NoTrip EXCEPT !.status = "planned", !.live = TRUE, !.truck = job[h].truck]
<1>1. TypeOK /\ JobsFit /\ Order /\ job[h] \in JobType
  BY DEF IInv, TypeOK, Order
<1>2. t \in Trips /\ trip' = [trip EXCEPT ![t] = r] /\ request' = [request EXCEPT !.trip = t]
      /\ task' = [task EXCEPT ![b].trip = t] /\ End(h) /\ UNCHANGED <<raced, forced>>
  BY DEF MintTrip, Minted, ghosts
<1>3. job[h].pc = "mint trip" /\ h \in Planning /\ b \in Tasks
  BY <1>1 DEF MintTrip, At, Planning, JobsFit, Fits
<1>4. trip[t] = NoTrip
  BY <1>1, <1>2, NextIsFresh
<1>5. r.status = "planned" /\ r.live
  BY DEF NoTrip
<1> HIDE DEF t, r
<1>6. trip'[t] = r /\ \A u \in Trips \ {t} : trip'[u] = trip[u]
  <2>1. trip \in [Trips -> TripType]
    BY <1>1 DEF TypeOK
  <2> QED
    BY <1>2, <2>1
<1>7. t \notin Minted /\ t \notin LiveTrips /\ t \in Minted' /\ Minted \subseteq Minted'
  BY <1>2, <1>4, <1>5, <1>6 DEF Minted, LiveTrips, Live, NoTrip
<1>8. Standing' \subseteq Standing \cup {t} /\ LiveTrips' = LiveTrips \cup {t}
  <2>1. OpenTrips' = OpenTrips \cup {t} /\ LiveTrips' = LiveTrips \cup {t}
    BY <1>2, <1>5, <1>6, <1>7 DEF OpenTrips, LiveTrips, Live
  <2>2. Reopened' = Reopened
    BY <1>2 DEF Reopened
  <2> QED
    BY <2>1, <2>2 DEF Standing
<1>9. task'[b].trip = t /\ task'[b].live = task[b].live
      /\ \A a \in Tasks \ {b} : task'[a] = task[a]
  <2>1. task \in [Tasks -> TaskType] /\ task[b] \in TaskType
    BY <1>1, <1>3 DEF TypeOK
  <2>2. task'[b] = [task[b] EXCEPT !.trip = t] /\ \A a \in Tasks \ {b} : task'[a] = task[a]
    BY <1>2, <1>3, <2>1
  <2> QED
    BY <2>1, <2>2 DEF TaskType
<1>10. request'.trip = t
  BY <1>1, <1>2 DEF TypeOK, RequestType
<1>11. job'[h].pc = "idle" /\ \A g \in Handlers \ {h} : job'[g] = job[g]
  BY <1>1, <1>2 DEF End, Idle, TypeOK
<1>12. TripsAreMinted /\ (~raced => InTurn)
  BY <1>1, PlannedParts
<1>13. TripsAreMinted'
  BY <1>7, <1>9, <1>12 DEF TripsAreMinted
<1>14. ASSUME InTurn
       PROVE  InTurn'
  <2>1. Standing = {}
    BY <1>3, <1>14 DEF InTurn, OneOpen, At
  <2>2. Planning' = {}
    BY <1>3, <1>11, <1>14 DEF InTurn, OnePlanner, Planning
  <2>3. \A g \in Handlers : job'[g].pc \notin {"mint trip", "attach", "point"}
    BY <2>2 DEF Planning
  <2>4. OnePlanner' /\ OneOpen'
    BY <1>8, <2>1, <2>2, <2>3 DEF OnePlanner, OneOpen, At
  <2>5. \A a \in Tasks : task[a].trip # t
    BY <1>2, <1>7, <1>12, TripIsNotNone DEF TripsAreMinted
  <2>6. OneRow'
    BY <1>9, <1>14, <2>5 DEF InTurn, OneRow
  <2>7. Handed' /\ Pointed'
    BY <1>8, <1>10, <2>3 DEF Handed, Pointed, At
  <2> QED
    BY <2>4, <2>6, <2>7 DEF InTurn
<1> QED
  BY <1>2, <1>12, <1>13, <1>14, PlannedPartsNext

LEMMA MovePlanned ==
  ASSUME IInv, TypeOK', Planned, NEW h \in Handlers, MoveTrip(h)
  PROVE  Planned'
<1>1. TypeOK /\ JobsFit /\ job[h] \in JobType
  BY DEF IInv, TypeOK
<1>2. UNCHANGED <<request, task, trip, raced, forced>> /\ job[h].pc = "move" /\ h \in Planning
  BY DEF MoveTrip, tables, ghosts, At, Planning
<1>3. CASE End(h)
  BY <1>1, <1>2, <1>3, UnhurriedEnd, NothingMoves, SettledStep
<1>4. CASE job[h].trip \in OpenTrips /\ Step(h, "point")
  <2>1. job'[h].pc = "point" /\ job'[h].trip = job[h].trip
        /\ \A g \in Handlers \ {h} : job'[g] = job[g]
    BY <1>1, <1>4 DEF Step, TypeOK, JobType
  <2>2. TripsAreMinted /\ (~raced => InTurn)
    BY <1>1, PlannedParts
  <2>3. TripsAreMinted'
    BY <1>2, <2>2 DEF TripsAreMinted, Minted
  <2>4. ASSUME InTurn
        PROVE  InTurn'
    <3>1. Standing' = Standing /\ LiveTrips' = LiveTrips /\ OpenTrips \subseteq LiveTrips
      BY <1>2, SameTrips DEF OpenTrips
    <3>2. Planning' = Planning
      BY <1>2, <2>1 DEF Planning
    <3>3. OnePlanner' /\ OneOpen'
      BY <2>1, <2>4, <3>1, <3>2 DEF InTurn, OnePlanner, OneOpen, At
    <3>4. OneRow' /\ Handed'
      BY <1>2, <2>1, <2>4 DEF InTurn, OneRow, Handed, At
    <3>5. Pointed'
      BY <1>2, <1>4, <2>1, <2>4, <3>1 DEF InTurn, Pointed, At
    <3> QED
      BY <3>3, <3>4, <3>5 DEF InTurn
  <2> QED
    BY <1>2, <2>2, <2>3, <2>4, PlannedPartsNext
<1> QED
  BY <1>3, <1>4 DEF MoveTrip

LEMMA PointPlanned ==
  ASSUME IInv, TypeOK', Planned, NEW h \in Handlers, PointToTrip(h)
  PROVE  Planned'
<1>1. TypeOK /\ JobsFit
  BY DEF IInv
<1>2. UNCHANGED <<task, trip, raced, forced>> /\ job[h].pc = "point" /\ End(h)
  BY DEF PointToTrip, ghosts, At
<1>3. request'.trip = job[h].trip /\ request'.live = request.live
  BY <1>1 DEF PointToTrip, TypeOK, RequestType
<1>4. job'[h].pc = "idle" /\ \A g \in Handlers \ {h} : job'[g] = job[g]
  BY <1>1, <1>2 DEF End, Idle, TypeOK
<1>5. TripsAreMinted /\ (~raced => InTurn)
  BY <1>1, PlannedParts
<1>6. TripsAreMinted'
  BY <1>2, <1>5 DEF TripsAreMinted, Minted
<1>7. ASSUME InTurn
      PROVE  InTurn'
  <2>1. Standing' = Standing /\ LiveTrips' = LiveTrips
    BY <1>2, SameTrips
  <2>2. Planning' \subseteq Planning
    BY <1>4 DEF Planning
  <2>3. OnePlanner' /\ OneOpen'
    BY <1>4, <1>7, <2>1, <2>2 DEF InTurn, OnePlanner, OneOpen, At
  <2>4. OneRow' /\ Handed'
    BY <1>2, <1>4, <1>7 DEF InTurn, OneRow, Handed, At
  <2>5. Pointed'
    BY <1>2, <1>3, <1>4, <1>7, <2>1 DEF InTurn, Pointed, At
  <2> QED
    BY <2>3, <2>4, <2>5 DEF InTurn
<1> QED
  BY <1>2, <1>5, <1>6, <1>7, PlannedPartsNext

LEMMA PlanPlanned ==
  ASSUME IInv, TypeOK', Planned, NEW h \in Handlers, Plan(h)
  PROVE  Planned'
<1>1. CASE ReadRequest(h)
  <2>1. TypeOK /\ JobsFit /\ {"adopt", "move"} \subseteq Pc
    BY DEF IInv, Pc
  <2>2. UNCHANGED <<request, task, trip, raced, forced>> /\ h \in Planning
    BY <1>1 DEF ReadRequest, tables, ghosts, At, Planning
  <2>3. End(h) \/ \E pc \in {"adopt", "move"} : Step(h, pc)
    BY <1>1 DEF ReadRequest
  <2>4. \A g \in Handlers : Unhurried(g)
    BY <2>1, <2>2, <2>3, UnhurriedEnd, UnhurriedStep
  <2> QED
    BY <2>1, <2>2, <2>4, NothingMoves, SettledStep
<1> QED
  BY <1>1, ReadTaskPlanned, AdoptPlanned, DetachPlanned, AttachPlanned, MintPlanned,
     MovePlanned, PointPlanned DEF Plan
-----------------------------------------------------------------------------
(* The steps that take back.                                                *)

\* A trip is taken back while nobody plans, and the request forgets it.
LEMMA BackPlanned ==
  ASSUME TypeOK, JobsFit, TypeOK', Planned, NEW trips, trip' = Deleted(trips), Crossed,
         UNCHANGED forced,
         UNCHANGED task \/ \E tasks : task' = Removed(tasks),
         ~request'.live \/ request' = Forget(trips),
         \A g \in Handlers : Unhurried(g)
  PROVE  Planned'
<1>1. TripsAreMinted /\ (~raced => InTurn)
  BY PlannedParts
<1>2. \A t \in Trips : /\ trip'[t].status = trip[t].status
                       /\ trip'[t].live <=> trip[t].live /\ t \notin trips
  BY DEF Deleted, TypeOK, TripType
<1>3. \A a \in Tasks : task'[a].trip = task[a].trip /\ (task'[a].live => task[a].live)
  BY DEF Removed, TypeOK, TaskType
<1>4. TripsAreMinted'
  BY <1>1, <1>2, <1>3 DEF TripsAreMinted, Minted
<1>5. ASSUME ~raced'
      PROVE  InTurn'
  <2>1. InTurn /\ Planning = {}
    BY <1>1, <1>5 DEF Crossed
  <2>2. Planning' = {}
    BY <2>1 DEF Unhurried, Planning
  <2>3. Standing' \subseteq Standing /\ LiveTrips' = LiveTrips \ trips
    BY <1>2 DEF Standing, OpenTrips, LiveTrips, Live, Reopened
  <2>4. OnePlanner' /\ OneOpen' /\ Handed'
    BY <2>1, <2>2, <2>3 DEF InTurn, OnePlanner, OneOpen, Handed, Planning, At
  <2>5. OneRow'
    BY <1>3, <2>1 DEF InTurn, OneRow
  <2>6. request'.live /\ request'.trip # None => request'.trip \in LiveTrips'
    <3>1. CASE request' = Forget(trips)
      <4>1. request'.live = request.live
            /\ request'.trip = IF request.trip \in trips THEN None ELSE request.trip
        BY <3>1 DEF Forget, TypeOK, RequestType
      <4> QED
        BY <2>1, <2>3, <4>1 DEF InTurn, Pointed
    <3> QED
      BY <3>1
  <2>7. Pointed'
    BY <2>2, <2>6 DEF Pointed, Planning, At
  <2> QED
    BY <2>4, <2>5, <2>7 DEF InTurn
<1> QED
  BY <1>4, <1>5, PlannedPartsNext

LEMMA TakeBackPlanned ==
  ASSUME IInv, TypeOK', Planned, NEW h \in Handlers, TakeBack(h) \/ Die(h)
  PROVE  Planned'
<1>1. TypeOK /\ JobsFit /\ {"remove", "cancel"} \subseteq Pc
  BY DEF IInv, Pc
<1>2. \A g \in Handlers : Unhurried(g)
  <2>1. End(h) \/ \E pc \in {"remove", "cancel"} : Step(h, pc)
    BY DEF TakeBack, UnplanTrip, RemoveTask, LookForTrip, CancelRequest, DeleteRequest, Die
  <2> QED
    BY <1>1, <2>1, UnhurriedEnd, UnhurriedStep
<1>3. CASE UnplanTrip(h)
  <2>1. CASE UNCHANGED <<trip, request, raced>>
    <3>1. UNCHANGED <<task, forced>>
      BY <1>3 DEF UnplanTrip
    <3> QED
      BY <1>1, <1>2, <2>1, <3>1, NothingMoves, SettledStep
  <2>2. CASE trip' = Deleted({job[h].trip}) /\ request' = Forget({job[h].trip}) /\ Crossed
    <3>1. UNCHANGED <<task, forced>>
      BY <1>3 DEF UnplanTrip
    <3> QED
      BY <1>1, <1>2, <2>2, <3>1, BackPlanned
  <2> QED
    BY <1>3, <2>1, <2>2 DEF UnplanTrip
<1>4. CASE RemoveTask(h)
  <2>1. UNCHANGED <<request, trip, raced, forced>> /\ task' = Removed({job[h].task})
    BY <1>4 DEF RemoveTask, ghosts
  <2>2. \A a \in Tasks : task'[a].trip = task[a].trip /\ (task'[a].live => task[a].live)
    BY <1>1, <2>1 DEF Removed, TypeOK, TaskType
  <2>3. Settled /\ BoardSettled
    BY <2>1, <2>2, SameTrips DEF Settled, BoardSettled, Minted
  <2> QED
    BY <1>1, <1>2, <2>1, <2>3, SettledStep
<1>5. CASE CancelRequest(h)
  <2>1. UNCHANGED <<task, trip, raced, forced>>
    BY <1>5 DEF CancelRequest, ghosts
  <2>2. request'.live = request.live /\ request'.trip = request.trip
    BY <1>1, <1>5 DEF CancelRequest, TypeOK, RequestType
  <2>3. Settled /\ BoardSettled
    BY <2>1, <2>2, SameTrips DEF Settled, BoardSettled, Minted
  <2> QED
    BY <1>1, <1>2, <2>1, <2>3, SettledStep
<1>6. CASE DeleteRequest(h)
  <2>1. ~request'.live
    BY <1>1, <1>6 DEF DeleteRequest, TypeOK, RequestType
  <2>2. /\ trip' = Deleted(LiveTrips) /\ task' = Removed(TasksOf(LiveTrips)) /\ Crossed
        /\ UNCHANGED forced
    BY <1>6 DEF DeleteRequest
  <2> QED
    BY <1>1, <1>2, <2>1, <2>2, BackPlanned
<1>7. CASE LookForTrip(h) \/ Die(h)
  <2>1. UNCHANGED <<request, task, trip, raced, forced>>
    BY <1>7 DEF LookForTrip, Die, tables, ghosts
  <2> QED
    BY <1>1, <1>2, <2>1, NothingMoves, SettledStep
<1> QED
  BY <1>3, <1>4, <1>5, <1>6, <1>7 DEF TakeBack

LEMMA DispatcherPlanned ==
  ASSUME IInv, TypeOK', Planned, NEW t \in Trips, CancelTrip(t) \/ DeleteTrip(t)
  PROVE  Planned'
<1>1. TypeOK /\ JobsFit
  BY DEF IInv
<1>2. \A g \in Handlers : Unhurried(g)
  BY DEF CancelTrip, DeleteTrip, Unhurried
<1>3. CASE CancelTrip(t)
  <2>1. UNCHANGED <<request, task, raced>> /\ Recorded
    BY <1>3 DEF CancelTrip, ghosts, Recorded
  <2>2. \A u \in Trips : /\ trip'[u].live = trip[u].live
                         /\ trip'[u].status \in {trip[u].status, "cancelled"}
    BY <1>1, <1>3 DEF CancelTrip, TypeOK, TripType
  <2>3. Settled /\ BoardSettled
    BY <2>1, <2>2, TripsSettle
  <2> QED
    BY <1>1, <1>2, <2>1, <2>3, SettledStep
<1>4. CASE DeleteTrip(t)
  BY <1>1, <1>2, <1>4, BackPlanned DEF DeleteTrip
<1> QED
  BY <1>3, <1>4
-----------------------------------------------------------------------------
LEMMA InitPlanned == Init => Planned
<1> SUFFICES ASSUME Init PROVE Planned
  OBVIOUS
<1>1. /\ \A h \in Handlers : job[h].pc = "idle"
      /\ \A t \in Trips : ~trip[t].live
      /\ \A a \in Tasks : task[a].trip = None
      /\ request.trip = None
  BY DEF Init, Idle, NoTrip, NoTask
<1>2. Planning = {} /\ LiveTrips = {} /\ OpenTrips = {} /\ OpenTrips \ Reopened = {}
  BY <1>1 DEF Planning, LiveTrips, OpenTrips, Live
<1> QED
  BY <1>1, <1>2 DEF Planned, OnePlans, TripsAreMinted, OneRowEach, PointsToLiveTrip,
                    PointsAhead, At

LEMMA NextPlanned == IInv /\ TypeOK' /\ Planned /\ [Next]_vars => Planned'
<1> SUFFICES ASSUME IInv, TypeOK', Planned, [Next]_vars PROVE Planned'
  OBVIOUS
<1>1. CASE UNCHANGED vars
  <2>1. UNCHANGED <<request, task, trip, raced, forced, job>> /\ TypeOK /\ JobsFit
    BY <1>1 DEF vars, tables, ghosts, IInv
  <2>2. \A g \in Handlers : Unhurried(g)
    BY <2>1 DEF Unhurried
  <2> QED
    BY <2>1, <2>2, NothingMoves, SettledStep
<1>2. ASSUME NEW h \in Handlers, \/ Start(h) \/ Confirm(h) \/ Place(h) \/ Plan(h)
                                 \/ Load(h) \/ Close(h) \/ TakeBack(h) \/ Die(h)
      PROVE  Planned'
  BY <1>2, StartPlanned, PlacePlanned, PlanPlanned, LoadPlanned, TakeBackPlanned
<1>3. ASSUME NEW t \in Trips, CancelTrip(t) \/ DeleteTrip(t)
      PROVE  Planned'
  BY <1>3, DispatcherPlanned
<1> QED
  BY <1>1, <1>2, <1>3 DEF Next

\* The transport's plan holds together as long as no plan crosses another or a
\* trip that is taken back.
THEOREM PlanInvariant == Spec => []Planned
<1>1. IInv => TypeOK
  BY DEF IInv
<1> QED
  BY <1>1, InitPlanned, NextPlanned, Invariant, PTL DEF Spec

LEMMA AtMostOne ==
  ASSUME NEW S, \A x, y \in S : x = y
  PROVE  Cardinality(S) <= 1
<1>1. CASE S = {}
  BY <1>1, FS_EmptySet
<1>2. ASSUME NEW x \in S
      PROVE  Cardinality(S) <= 1
  <2>1. S = {x}
    OBVIOUS
  <2> QED
    BY <2>1, FS_Singleton
<1> QED
  BY <1>1, <1>2

\* Re-planning a transport moves its trip instead of minting another
\* (autoUpsertAuxiliaryTrip, 3345), whoever dies where: as long as plans are made
\* one after the other.
THEOREM OpenTripTheorem == Spec => []OneOpenTrip
<1>1. Planned => OneOpenTrip
  BY AtMostOne DEF Planned, OnePlans, OneOpenTrip
<1> QED
  BY <1>1, PlanInvariant, PTL

\* A trip is never claimed by two rows of the board (3377): the row that takes it
\* over gets it only once the others have been detached, in two statements.
THEOREM ClaimTheorem == Spec => []OneClaim
<1>1. TypeOK /\ Planned => OneClaim
  <2> SUFFICES ASSUME TypeOK, Planned, ~raced, NEW t \in LiveTrips
               PROVE  Cardinality({a \in TasksOf({t}) : task[a].live}) <= 1
    BY DEF OneClaim
  <2>1. t # None
    BY TripIsNotNone DEF LiveTrips
  <2>2. \A a, b \in {c \in TasksOf({t}) : task[c].live} : a = b
    BY <2>1 DEF TasksOf, Planned, OneRowEach
  <2> QED
    BY <2>2, AtMostOne
<1> QED
  BY <1>1, PlanInvariant, TypeCorrect, PTL

\* The request shows no trip that has been taken back: each of the three ways to
\* delete one clears its pointer, and a plan points to a trip that is there.
THEOREM PointerTheorem == Spec => []PointsToLiveTrip
<1>1. Planned => PointsToLiveTrip
  BY DEF Planned
<1> QED
  BY <1>1, PlanInvariant, PTL
-----------------------------------------------------------------------------
(* The specification of one trip that AuxTransport implements.               *)

\* A step that changes one trip, seen from outside.
LEMMA OneTripSeen ==
  ASSUME NEW t \in Trips, NEW s, NEW l, trip'[t].status = s, trip'[t].live = l,
         \A u \in Trips \ {t} : trip'[u] = trip[u]
  PROVE  /\ StageOf' = [StageOf EXCEPT ![t] = s]
         /\ LiveOf' = [LiveOf EXCEPT ![t] = l]
<1>1. [u \in Trips |-> trip'[u].status] = [[u \in Trips |-> trip[u].status] EXCEPT ![t] = s]
  OBVIOUS
<1>2. [u \in Trips |-> trip'[u].live] = [[u \in Trips |-> trip[u].live] EXCEPT ![t] = l]
  OBVIOUS
<1>3. StageOf' = [StageOf EXCEPT ![t] = s]
  BY <1>1 DEF StageOf
<1>4. LiveOf' = [LiveOf EXCEPT ![t] = l]
  BY <1>2 DEF LiveOf
<1> QED
  BY <1>3, <1>4

\* A step that leaves the status and the presence of a trip alone.
LEMMA SameTripSeen ==
  ASSUME TypeOK, NEW t \in Trips, NEW r, trip' = [trip EXCEPT ![t] = r],
         r.status = trip[t].status, r.live = trip[t].live
  PROVE  StageOf' = StageOf /\ LiveOf' = LiveOf
<1>1. trip'[t] = r /\ \A u \in Trips \ {t} : trip'[u] = trip[u]
  BY DEF TypeOK
<1>2. StageOf' = [StageOf EXCEPT ![t] = trip[t].status] /\ LiveOf' = [LiveOf EXCEPT ![t] = trip[t].live]
  BY <1>1, OneTripSeen
<1> QED
  BY <1>2 DEF StageOf, LiveOf

LEMMA Unseen ==
  ASSUME StageOf' = StageOf, LiveOf' = LiveOf, UNCHANGED <<links, papers, forced>>
  PROVE  UNCHANGED External!vars
BY DEF External!vars

LEMMA UntouchedUnseen ==
  ASSUME UNCHANGED <<trip, links, papers, forced>>
  PROVE  UNCHANGED External!vars
BY DEF External!vars, StageOf, LiveOf

\* What a trip becomes when its status changes and nothing else.
LEMMA NewStatus ==
  ASSUME TypeOK, NEW t \in Trips, NEW s, trip' = [trip EXCEPT ![t].status = s]
  PROVE  StageOf' = [StageOf EXCEPT ![t] = s] /\ LiveOf' = LiveOf
<1> DEFINE r == [trip[t] EXCEPT !.status = s]
<1>1. trip[t] \in TripType
  BY DEF TypeOK
<1>2. r.status = s /\ r.live = trip[t].live
  BY <1>1 DEF TripType
<1>3. trip' = [trip EXCEPT ![t] = r]
  OBVIOUS
<1> HIDE DEF r
<1>4. trip'[t] = r /\ \A u \in Trips \ {t} : trip'[u] = trip[u]
  BY <1>3 DEF TypeOK
<1>5. StageOf' = [StageOf EXCEPT ![t] = s] /\ LiveOf' = [LiveOf EXCEPT ![t] = trip[t].live]
  BY <1>2, <1>4, OneTripSeen
<1> QED
  BY <1>5 DEF LiveOf

LEMMA MintPlans ==
  ASSUME IInv, NEW h \in Handlers, MintTrip(h)
  PROVE  \E t \in Trips : External!Plan(t)
<1>2. PICK t \in Trips : t = Cardinality(Minted) + 1
  BY DEF MintTrip, Minted
<1> DEFINE r == [NoTrip EXCEPT !.status = "planned", !.live = TRUE, !.truck = job[h].truck]
<1>1. TypeOK /\ Order
  BY Parts
<1>3. trip' = [trip EXCEPT ![t] = r] /\ UNCHANGED <<links, papers, forced>>
  BY <1>2 DEF MintTrip, Minted, ghosts
<1>4. trip[t] = NoTrip
  BY <1>1, <1>2, NextIsFresh
<1>5. r.status = "planned" /\ r.live = TRUE /\ NoTrip.status = "none"
  BY DEF NoTrip
<1> HIDE DEF r
<1>6. trip'[t] = r /\ \A u \in Trips \ {t} : trip'[u] = trip[u]
  BY <1>1, <1>3 DEF TypeOK
<1>7. StageOf' = [StageOf EXCEPT ![t] = "planned"] /\ LiveOf' = [LiveOf EXCEPT ![t] = TRUE]
  BY <1>5, <1>6, OneTripSeen
<1>8. StageOf[t] = "none"
  BY <1>4, <1>5 DEF StageOf
<1>9. External!Plan(t)
  BY <1>3, <1>7, <1>8 DEF External!Plan, External!Becomes
<1> QED
  BY <1>9

LEMMA RegisterLoads ==
  ASSUME IInv, NEW h \in Handlers, RegisterLoad(h)
  PROVE  \E t \in Trips : External!Load(t)
<1>1. TypeOK
  BY Parts
<1>2. PICK t \in OpenTrips : trip' = [trip EXCEPT ![t].status = "loaded"]
  BY DEF RegisterLoad, Newest
<1>3. t \in Trips /\ trip[t].live /\ trip[t].status = "planned"
  BY DEF OpenTrips, LiveTrips, Live
<1>4. StageOf' = [StageOf EXCEPT ![t] = "loaded"] /\ LiveOf' = LiveOf
  BY <1>1, <1>2, <1>3, NewStatus
<1>5. UNCHANGED <<links, papers, forced>> /\ StageOf[t] = "planned" /\ LiveOf[t]
  BY <1>3 DEF RegisterLoad, ghosts, StageOf, LiveOf
<1>6. External!Load(t)
  BY <1>4, <1>5 DEF External!Load, External!Becomes
<1> QED
  BY <1>3, <1>6

LEMMA ForceOverrides ==
  ASSUME IInv, NEW h \in Handlers, ForceStatus(h)
  PROVE  \E t \in Trips : External!Override(t)
<1>1. TypeOK /\ Links
  BY Parts
<1>2. PICK t \in Trips, s \in Status, j \in JobType : trip[t].status # "none" /\ Override(h, t, s, j)
  BY <1>1, ForceIs DEF Links, Minted
<1>3. /\ trip' = [trip EXCEPT ![t].status = s] /\ forced' = [forced EXCEPT ![t] = forced[t] \cup {s}]
      /\ s # "none" /\ UNCHANGED <<links, papers>>
  BY <1>1, <1>2, ForceIs DEF Links, Override
<1>4. StageOf' = [StageOf EXCEPT ![t] = s] /\ LiveOf' = LiveOf /\ StageOf[t] # "none"
  BY <1>1, <1>2, <1>3, NewStatus DEF StageOf
<1>5. External!Override(t)
  BY <1>3, <1>4 DEF External!Override, External!Becomes, External!Stage, Status
<1> QED
  BY <1>5

\* The token is the link's secret: nobody sees it before the link is sent.
LEMMA ClaimUnseen ==
  ASSUME IInv, NEW h \in Handlers, ClaimToken(h)
  PROVE  UNCHANGED External!vars
<1> DEFINE t == job[h].trip
           r == [trip[t] EXCEPT !.token = TRUE]
<1>1. TypeOK /\ Links
  BY Parts
<1>2. UNCHANGED <<links, papers, forced>>
  BY DEF ClaimToken, ghosts
<1>3. CASE UNCHANGED trip
  BY <1>2, <1>3, UntouchedUnseen
<1>4. CASE trip' = [trip EXCEPT ![t].token = TRUE]
  <2>1. t \in Trips
    BY <1>1 DEF ClaimToken, At, Links, JobsFit, Fits, Minted
  <2>2. trip[t] \in TripType
    BY <1>1, <2>1 DEF TypeOK
  <2>3. r.status = trip[t].status /\ r.live = trip[t].live
    BY <2>2 DEF TripType
  <2>4. trip' = [trip EXCEPT ![t] = r]
    BY <1>4
  <2> HIDE DEF t, r
  <2> QED
    BY <1>1, <1>2, <2>1, <2>3, <2>4, SameTripSeen, Unseen DEF t
<1> QED
  BY <1>3, <1>4 DEF ClaimToken

\* Of the handlers that load a trip one sends the link, once.
LEMMA SendLinks ==
  ASSUME IInv, NEW h \in Handlers, SendLink(h)
  PROVE  \E t \in Trips : External!SendLink(t)
<1>1. TypeOK /\ Links
  BY Parts
<1>2. At(h, "send link") /\ job[h].pc = "send link"
  BY DEF SendLink, At
<1>3. PICK t \in Trips : t = job[h].trip /\ trip[t].status # "none"
  BY <1>1, <1>2 DEF Links, JobsFit, Fits, Minted
<1>4. trip[t].status \in {"loaded", "completed", "cancelled"} \/ trip[t].status \in forced[t]
  <2>1. trip[t].status \in Status
    BY <1>1 DEF TypeOK, TripType
  <2>2. trip[t].status # "planned" \/ t \in Reopened
    BY <1>1, <1>2, <1>3 DEF Links, LoadedBeforeLink
  <2> QED
    BY <1>3, <2>1, <2>2 DEF Status, Reopened
<1>5. links[t] = 0
  <2>1. Sending(h, t)
    BY <1>2, <1>3 DEF Sending
  <2> QED
    BY <1>1, <2>1 DEF Links, OneLink
<1>6. links' = [links EXCEPT ![t] = links[t] + 1] /\ UNCHANGED <<trip, papers, forced>>
  BY <1>3 DEF SendLink, tables
<1>7. links' = [links EXCEPT ![t] = 1] /\ UNCHANGED <<StageOf, LiveOf>>
  BY <1>5, <1>6 DEF StageOf, LiveOf
<1>8. External!SendLink(t)
  BY <1>3, <1>4, <1>5, <1>6, <1>7 DEF External!SendLink, External!Stands, StageOf
<1> QED
  BY <1>8

LEMMA SignSigns ==
  ASSUME IInv, CompletedOnPaper, NEW h \in Handlers, Sign(h)
  PROVE  \E t \in Trips : /\ External!Sign(t) /\ papers' = [papers EXCEPT ![t] = 1]
                          /\ \A g \in Handlers \ {h} : job'[g] = job[g]
                          /\ job'[h].trip = t
<1>1. TypeOK /\ Order /\ Links /\ Papers
  BY Parts
<1>2. PICK t \in Trips :
        /\ Signable(t)
        /\ Begin(h, [Idle EXCEPT !.pc = "complete", !.trip = t, !.status = trip[t].status])
        /\ trip' = [trip EXCEPT ![t].used = TRUE]
        /\ papers' = [papers EXCEPT ![t] = @ + 1]
  BY DEF Sign
<1>3. UNCHANGED <<links, forced>>
  BY DEF Sign
<1>4. trip[t].live /\ trip[t].token /\ ~trip[t].used
  BY <1>2 DEF Signable, Live
<1>5. papers[t] = 0
  BY <1>1, <1>4 DEF Papers, OnePaper
<1>6. trip[t].status \in {"loaded", "cancelled"} \/ trip[t].status \in forced[t]
  <2>1. trip[t].status \in Status
    BY <1>1 DEF TypeOK, TripType
  <2>2. trip[t].status = "planned" => "planned" \in forced[t]
    BY <1>1, <1>4 DEF Links, LoadedBeforeLink, Reopened
  <2>3. trip[t].status # "none"
    BY <1>1, <1>4 DEF Order, UnmintedIsEmpty, NoTrip
  <2>4. trip[t].status = "completed" => "completed" \in forced[t]
    BY <1>5 DEF CompletedOnPaper
  <2> QED
    BY <2>1, <2>2, <2>3, <2>4 DEF Status
<1>7. StageOf' = StageOf /\ LiveOf' = LiveOf
  <2> DEFINE r == [trip[t] EXCEPT !.used = TRUE]
  <2>1. trip[t] \in TripType
    BY <1>1 DEF TypeOK
  <2>2. r.status = trip[t].status /\ r.live = trip[t].live
    BY <2>1 DEF TripType
  <2>3. trip' = [trip EXCEPT ![t] = r]
    BY <1>2
  <2> HIDE DEF r
  <2> QED
    BY <1>1, <2>2, <2>3, SameTripSeen
<1>8. papers' = [papers EXCEPT ![t] = 1]
  BY <1>2, <1>5
<1>9. External!Sign(t)
  BY <1>3, <1>4, <1>5, <1>6, <1>7, <1>8 DEF External!Sign, External!Stands, StageOf, LiveOf
<1>10. job'[h].trip = t /\ \A g \in Handlers \ {h} : job'[g] = job[g]
  <2> DEFINE j == [Idle EXCEPT !.pc = "complete", !.trip = t, !.status = trip[t].status]
  <2>1. j.trip = t
    BY DEF Idle
  <2>2. job' = [job EXCEPT ![h] = j] /\ job \in [Handlers -> JobType]
    BY <1>1, <1>2 DEF Begin, TypeOK
  <2> HIDE DEF j
  <2> QED
    BY <2>1, <2>2
<1> QED
  BY <1>8, <1>9, <1>10

LEMMA ArriveDelivers ==
  ASSUME IInv, NEW h \in Handlers, Arrive(h)
  PROVE  (\E t \in Trips : External!Deliver(t)) \/ UNCHANGED External!vars
<1>1. TypeOK /\ Links /\ Papers
  BY Parts
<1> DEFINE ready == trip[job[h].trip].status = "loaded" /\ ~trip[job[h].trip].used
<1>2. UNCHANGED <<links, forced>>
  BY DEF Arrive
<1>3. CASE ready
  <2>1. PICK t \in Trips : t = job[h].trip
    BY <1>1 DEF Arrive, At, Links, JobsFit, Fits, Minted
  <2> DEFINE r == [trip[t] EXCEPT !.status = "completed", !.used = TRUE]
  <2>2. trip[t].status = "loaded" /\ papers[t] = 0
    BY <1>1, <1>3, <2>1 DEF Papers, OnePaper
  <2>3. trip' = [trip EXCEPT ![t] = r] /\ papers' = [papers EXCEPT ![t] = papers[t] + 1]
    BY <1>3, <2>1 DEF Arrive
  <2>4. papers' = [papers EXCEPT ![t] = 1]
    BY <2>2, <2>3
  <2>5. r.status = "completed" /\ r.live = trip[t].live
    <3>1. trip[t] \in TripType
      BY <1>1 DEF TypeOK
    <3> QED
      BY <3>1 DEF TripType
  <2> HIDE DEF r
  <2>6. trip'[t] = r /\ \A u \in Trips \ {t} : trip'[u] = trip[u]
    BY <1>1, <2>3 DEF TypeOK
  <2>7. StageOf' = [StageOf EXCEPT ![t] = "completed"] /\ LiveOf' = [LiveOf EXCEPT ![t] = trip[t].live]
    BY <2>5, <2>6, OneTripSeen
  <2>8. LiveOf' = LiveOf /\ StageOf[t] = "loaded"
    BY <2>2, <2>7 DEF LiveOf, StageOf
  <2>9. External!Deliver(t)
    BY <1>2, <2>2, <2>4, <2>7, <2>8 DEF External!Deliver, External!Becomes
  <2> QED
    BY <2>9
<1>4. CASE ~ready
  <2>1. UNCHANGED <<trip, links, papers, forced>>
    BY <1>2, <1>4 DEF Arrive
  <2> QED
    BY <2>1, UntouchedUnseen
<1> QED
  BY <1>3, <1>4

LEMMA SignedCompletes ==
  ASSUME IInv, CompletedOnPaper, NEW h \in Handlers, CompleteSigned(h)
  PROVE  (\E t \in Trips : External!Complete(t)) \/ UNCHANGED External!vars
<1> DEFINE ready == job[h].status = "loaded" /\ trip[job[h].trip].status = "loaded"
<1>1. TypeOK /\ Links
  BY Parts
<1>2. UNCHANGED <<links, papers, forced>>
  BY DEF CompleteSigned, ghosts
<1>3. CASE ready
  <2>1. PICK t \in Trips : t = job[h].trip /\ papers[t] = 1
    BY <1>1 DEF CompleteSigned, At, Links, JobsFit, Fits, Minted, CompletedOnPaper
  <2>2. trip' = [trip EXCEPT ![t].status = "completed"]
    BY <1>3, <2>1 DEF CompleteSigned
  <2>3. StageOf' = [StageOf EXCEPT ![t] = "completed"] /\ LiveOf' = LiveOf
    BY <1>1, <2>1, <2>2, NewStatus
  <2>4. StageOf[t] = "loaded"
    BY <1>3, <2>1 DEF StageOf
  <2>5. External!Complete(t)
    BY <1>2, <2>1, <2>3, <2>4 DEF External!Complete, External!Becomes
  <2> QED
    BY <2>5
<1>4. CASE ~ready
  <2>1. UNCHANGED <<trip, links, papers, forced>>
    BY <1>2, <1>4 DEF CompleteSigned
  <2> QED
    BY <2>1, UntouchedUnseen
<1> QED
  BY <1>3, <1>4

LEMMA CancelCancels ==
  ASSUME IInv, NEW t \in Trips, CancelTrip(t)
  PROVE  External!Cancel(t)
<1>1. TypeOK
  BY Parts
<1>2. /\ trip[t].live /\ trip[t].status \in {"planned", "loaded"}
      /\ trip' = [trip EXCEPT ![t].status = "cancelled"] /\ UNCHANGED <<links, papers, forced>>
  BY DEF CancelTrip, Live, ghosts
<1>3. StageOf' = [StageOf EXCEPT ![t] = "cancelled"] /\ LiveOf' = LiveOf
  BY <1>1, <1>2, NewStatus
<1>4. LiveOf[t] /\ StageOf[t] \in {"planned", "loaded"}
  BY <1>2 DEF LiveOf, StageOf
<1> QED
  BY <1>2, <1>3, <1>4 DEF External!Cancel, External!Becomes

LEMMA DeletedWithdraws ==
  ASSUME IInv, NEW trips \in SUBSET Trips, trip' = Deleted(trips), UNCHANGED <<links, papers, forced>>
  PROVE  External!Withdraw(trips)
<1>1. trip \in [Trips -> TripType]
  BY Parts DEF TypeOK
<1>2. ASSUME NEW t \in Trips
      PROVE  trip'[t].status = trip[t].status /\ trip'[t].live = (trip[t].live /\ t \notin trips)
  <2>1. CASE t \in trips
    <3>1. trip'[t] = [trip[t] EXCEPT !.live = FALSE] /\ trip[t] \in TripType
      BY <1>1, <2>1 DEF Deleted
    <3> QED
      BY <2>1, <3>1 DEF TripType
  <2>2. CASE t \notin trips
    <3>1. trip'[t] = trip[t] /\ trip[t].live \in BOOLEAN
      BY <1>1, <2>2 DEF Deleted, TripType
    <3> QED
      BY <2>2, <3>1
  <2> QED
    BY <2>1, <2>2
<1>3. StageOf' = StageOf /\ LiveOf' = [t \in Trips |-> LiveOf[t] /\ t \notin trips]
  BY <1>2 DEF StageOf, LiveOf
<1> QED
  BY <1>3 DEF External!Withdraw

\* Every step is one of the trip's, or is not seen from outside.
LEMMA ExternalStep ==
  ASSUME IInv, CompletedOnPaper, Next
  PROVE  External!Next \/ UNCHANGED External!vars
<1>1. CASE UNCHANGED <<trip, links, papers, forced>>
  BY <1>1, UntouchedUnseen
<1>2. ASSUME NEW h \in Handlers, Start(h)
      PROVE  External!Next \/ UNCHANGED External!vars
  <2>1. CASE RegisterLoad(h)
    BY <2>1, RegisterLoads DEF External!Next
  <2>2. CASE Sign(h)
    BY <2>2, SignSigns DEF External!Next
  <2> QED
    BY <1>1, <1>2, <2>1, <2>2
    DEF Start, BeginConfirm, BeginSweep, BeginPlace, BeginRewire, BeginForce, BeginArrival,
        BeginRemove, BeginCancel, BeginDeleteRequest, tables, ghosts
<1>3. ASSUME NEW h \in Handlers, Confirm(h) \/ Place(h)
      PROVE  External!Next \/ UNCHANGED External!vars
  BY <1>1, <1>3 DEF Confirm, Place, MintTruck, ConfirmRequest, AssignTruck, LeaveTruck, PlaceTruck,
         tables, ghosts
<1>4. ASSUME NEW h \in Handlers, Plan(h)
      PROVE  External!Next \/ UNCHANGED External!vars
  <2>1. CASE MintTrip(h)
    BY <2>1, MintPlans DEF External!Next
  <2> QED
    BY <1>1, <1>4, <2>1
    DEF Plan, ReadTask, ReadRequest, Adopt, DetachTasks, AttachTask, MoveTrip, PointToTrip, tables, ghosts
<1>5. ASSUME NEW h \in Handlers, Load(h) \/ Close(h)
      PROVE  External!Next \/ UNCHANGED External!vars
  <2>1. CASE RetireTruck(h) \/ RefuseForce(h)
    BY <1>1, <2>1 DEF RetireTruck, RefuseForce, tables, ghosts
  <2> QED
    BY <1>5, <2>1, ForceOverrides, ClaimUnseen, SendLinks, ArriveDelivers, SignedCompletes
    DEF Load, Close, External!Next
<1>6. ASSUME NEW trips \in SUBSET Trips, trip' = Deleted(trips), UNCHANGED <<links, papers, forced>>
      PROVE  External!Next
  BY <1>6, DeletedWithdraws DEF External!Next
<1>7. ASSUME NEW h \in Handlers, TakeBack(h) \/ Die(h)
      PROVE  External!Next \/ UNCHANGED External!vars
  <2>1. UNCHANGED <<links, papers, forced>>
    BY <1>7 DEF TakeBack, UnplanTrip, RemoveTask, LookForTrip, CancelRequest, DeleteRequest, Die,
           tables, ghosts
  <2>2. \/ UNCHANGED trip
        \/ trip' = Deleted({job[h].trip}) /\ job[h].trip \in Trips
        \/ trip' = Deleted(LiveTrips)
    BY <1>7 DEF TakeBack, UnplanTrip, RemoveTask, LookForTrip, CancelRequest, DeleteRequest, Die,
           tables, OpenTrips, LiveTrips
  <2>3. LiveTrips \in SUBSET Trips
    BY DEF LiveTrips
  <2> QED
    BY <1>1, <1>6, <2>1, <2>2, <2>3
<1>8. ASSUME NEW t \in Trips, CancelTrip(t) \/ DeleteTrip(t)
      PROVE  External!Next
  <2>1. CASE CancelTrip(t)
    BY <2>1, CancelCancels DEF External!Next
  <2>2. CASE DeleteTrip(t)
    BY <1>6, <2>2 DEF DeleteTrip
  <2> QED
    BY <1>8, <2>1, <2>2
<1> QED
  BY <1>2, <1>3, <1>4, <1>5, <1>7, <1>8 DEF Next

\* No step takes a document or a record back, and none but an override, which is on
\* record, completes a trip that has no document.
LEMMA PapersStay ==
  ASSUME TypeOK, CompletedOnPaper, External!Next \/ UNCHANGED External!vars, NEW t \in Trips
  PROVE  /\ papers[t] = 1 => papers'[t] = 1
         /\ StageOf'[t] = "completed" => papers'[t] = 1 \/ "completed" \in forced'[t]
<1> DEFINE Stays == /\ papers[t] = 1 => papers'[t] = 1
                    /\ StageOf'[t] = "completed" => papers'[t] = 1 \/ "completed" \in forced'[t]
<1>1. /\ papers \in [Trips -> Nat] /\ forced \in [Trips -> SUBSET Status]
      /\ StageOf = [u \in Trips |-> StageOf[u]]
  BY DEF TypeOK, StageOf
<1>2. StageOf[t] = "completed" => papers[t] = 1 \/ "completed" \in forced[t]
  BY DEF CompletedOnPaper, StageOf
<1>3. CASE UNCHANGED <<StageOf, papers, forced>>
  BY <1>2, <1>3
<1>4. ASSUME NEW u \in Trips, External!Plan(u) \/ External!Load(u) \/ External!Cancel(u)
      PROVE  Stays
  <2>1. PICK s \in {"planned", "loaded", "cancelled"} : StageOf' = [StageOf EXCEPT ![u] = s]
    BY <1>4 DEF External!Plan, External!Load, External!Cancel, External!Becomes
  <2>2. papers' = papers /\ forced' = forced
    BY <1>4 DEF External!Plan, External!Load, External!Cancel
  <2>3. StageOf'[t] \in {StageOf[t], s}
    BY <1>1, <2>1
  <2> QED
    BY <1>2, <2>2, <2>3
<1>5. ASSUME NEW u \in Trips, External!Sign(u)
      PROVE  Stays
  <2>1. papers' = [papers EXCEPT ![u] = 1] /\ StageOf' = StageOf /\ forced' = forced
    BY <1>5 DEF External!Sign
  <2> QED
    BY <1>1, <1>2, <2>1
<1>6. ASSUME NEW u \in Trips, External!Complete(u)
      PROVE  Stays
  <2>1. /\ StageOf' = [StageOf EXCEPT ![u] = "completed"] /\ papers[u] = 1
        /\ papers' = papers /\ forced' = forced
    BY <1>6 DEF External!Complete, External!Becomes
  <2> QED
    BY <1>1, <1>2, <2>1
<1>7. ASSUME NEW u \in Trips, External!Deliver(u)
      PROVE  Stays
  <2>1. /\ StageOf' = [StageOf EXCEPT ![u] = "completed"]
        /\ papers' = [papers EXCEPT ![u] = 1] /\ forced' = forced
    BY <1>7 DEF External!Deliver, External!Becomes
  <2> QED
    BY <1>1, <1>2, <2>1
<1>8. ASSUME NEW u \in Trips, External!Override(u)
      PROVE  Stays
  <2>1. PICK s : /\ StageOf' = [StageOf EXCEPT ![u] = s] /\ papers' = papers
                 /\ forced' = [forced EXCEPT ![u] = forced[u] \cup {s}]
    BY <1>8 DEF External!Override, External!Becomes
  <2>2. CASE t = u
    BY <1>1, <2>1, <2>2
  <2>3. CASE t # u
    BY <1>1, <1>2, <2>1, <2>3
  <2> QED
    BY <2>2, <2>3
<1>9. UNCHANGED External!vars => UNCHANGED <<StageOf, papers, forced>>
  BY DEF External!vars
<1>10. \A u \in Trips : External!SendLink(u) => UNCHANGED <<StageOf, papers, forced>>
  BY DEF External!SendLink
<1>11. \A trips \in SUBSET Trips : External!Withdraw(trips) => UNCHANGED <<StageOf, papers, forced>>
  BY DEF External!Withdraw
<1> QED
  BY <1>3, <1>4, <1>5, <1>6, <1>7, <1>8, <1>9, <1>10, <1>11 DEF External!Next

\* Nobody but the driver's signature puts a handler up to completing a trip.
NoNewCompleter == \A g \in Handlers : job'[g].pc = "complete" => job'[g] = job[g]

LEMMA CompleterJob ==
  ASSUME TypeOK, NEW h \in Handlers, NEW r, job' = [job EXCEPT ![h] = r], r.pc # "complete"
  PROVE  NoNewCompleter
BY DEF TypeOK, NoNewCompleter

LEMMA CompleterStep ==
  ASSUME TypeOK, NEW h \in Handlers, NEW pc, pc # "complete", Step(h, pc)
  PROVE  NoNewCompleter
<1> DEFINE r == [job[h] EXCEPT !.pc = pc]
<1>1. job' = [job EXCEPT ![h] = r] /\ r.pc = pc
  BY DEF Step, TypeOK, JobType
<1> HIDE DEF r
<1> QED
  BY <1>1, CompleterJob

LEMMA CompleterEnd ==
  ASSUME TypeOK, NEW h \in Handlers, End(h)
  PROVE  NoNewCompleter
<1>1. Idle.pc = "idle" /\ job' = [job EXCEPT ![h] = Idle]
  BY DEF End, Idle
<1> QED
  BY <1>1, CompleterJob

LEMMA CompleterBegin ==
  ASSUME TypeOK, NEW h \in Handlers, NEW r, Begin(h, r), r.pc # "complete"
  PROVE  NoNewCompleter
BY CompleterJob DEF Begin

LEMMA CompleterStart ==
  ASSUME TypeOK, NEW h \in Handlers, Start(h), ~Sign(h)
  PROVE  NoNewCompleter
<1>1. CASE BeginConfirm(h)
  BY <1>1, CompleterBegin DEF BeginConfirm, Idle
<1>2. CASE BeginSweep(h)
  BY <1>2, CompleterBegin DEF BeginSweep, Idle
<1>3. CASE BeginPlace(h)
  BY <1>3, CompleterBegin DEF BeginPlace, Idle
<1>4. CASE BeginRewire(h)
  BY <1>4, CompleterBegin DEF BeginRewire, Idle
<1>5. CASE RegisterLoad(h)
  BY <1>5, CompleterBegin DEF RegisterLoad, Idle
<1>6. CASE BeginForce(h)
  BY <1>6, CompleterBegin DEF BeginForce, Idle
<1>7. CASE BeginArrival(h)
  BY <1>7, CompleterBegin DEF BeginArrival, Idle
<1>8. CASE BeginRemove(h)
  BY <1>8, CompleterBegin DEF BeginRemove, Idle
<1>9. CASE BeginCancel(h)
  BY <1>9, CompleterBegin DEF BeginCancel, Idle
<1>10. CASE BeginDeleteRequest(h)
  BY <1>10, CompleterBegin DEF BeginDeleteRequest, Idle
<1> QED
  BY <1>1, <1>2, <1>3, <1>4, <1>5, <1>6, <1>7, <1>8, <1>9, <1>10 DEF Start

LEMMA CompleterPlace ==
  ASSUME TypeOK, NEW h \in Handlers, Confirm(h) \/ Place(h)
  PROVE  NoNewCompleter
<1>1. job[h] \in JobType
  BY DEF TypeOK
<1>2. CASE MintTruck(h)
  <2> DEFINE r == [job[h] EXCEPT !.pc = "confirm", !.truck = CHOOSE j \in Trucks : truck[j] = "none"]
  <2>1. job' = [job EXCEPT ![h] = r]
    BY <1>2 DEF MintTruck
  <2>2. r.pc = "confirm"
    BY <1>1 DEF JobType
  <2> HIDE DEF r
  <2> QED
    BY <2>1, <2>2, CompleterJob
<1>3. ASSUME NEW k, NEW auto, Insert(h, k, auto)
      PROVE  NoNewCompleter
  <2> DEFINE r == [job[h] EXCEPT !.pc = "plan", !.task = CHOOSE b \in Tasks : task[b].truck = None]
  <2>1. job' = [job EXCEPT ![h] = r]
    BY <1>3 DEF Insert
  <2>2. r.pc = "plan"
    BY <1>1 DEF JobType
  <2> HIDE DEF r
  <2> QED
    BY <2>1, <2>2, CompleterJob
<1>4. CASE ConfirmRequest(h)
  BY <1>4, CompleterStep DEF ConfirmRequest
<1>5. CASE LeaveTruck(h)
  BY <1>5, CompleterEnd DEF LeaveTruck
<1>6. CASE AssignTruck(h) \/ PlaceTruck(h)
  BY <1>3, <1>6 DEF AssignTruck, PlaceTruck
<1> QED
  BY <1>2, <1>4, <1>5, <1>6 DEF Confirm, Place

LEMMA CompleterPlan ==
  ASSUME TypeOK, NEW h \in Handlers, Plan(h)
  PROVE  NoNewCompleter
<1>1. job[h] \in JobType
  BY DEF TypeOK
<1>2. ASSUME NEW pc, NEW t, pc # "complete", job' = [job EXCEPT ![h].pc = pc, ![h].trip = t]
      PROVE  NoNewCompleter
  <2> DEFINE r == [job[h] EXCEPT !.pc = pc, !.trip = t]
  <2>1. job' = [job EXCEPT ![h] = r]
    BY <1>2
  <2>2. r.pc = pc
    BY <1>1 DEF JobType
  <2> HIDE DEF r
  <2> QED
    BY <1>2, <2>1, <2>2, CompleterJob
<1>3. CASE ReadTask(h)
  <2> DEFINE a == job[h].task
             r == [job[h] EXCEPT !.pc = "request", !.truck = task[a].truck, !.trip = task[a].trip]
  <2>1. End(h) \/ job' = [job EXCEPT ![h] = r]
    BY <1>3 DEF ReadTask
  <2>2. r.pc = "request"
    BY <1>1 DEF JobType
  <2> HIDE DEF r
  <2> QED
    BY <2>1, <2>2, CompleterEnd, CompleterJob
<1>4. CASE ReadRequest(h)
  <2>1. End(h) \/ \E pc \in {"adopt", "move"} : Step(h, pc)
    BY <1>4 DEF ReadRequest
  <2> QED
    BY <2>1, CompleterEnd, CompleterStep
<1>5. CASE Adopt(h)
  <2>1. \/ Step(h, "mint trip")
        \/ \E t \in Newest(OpenTrips) : job' = [job EXCEPT ![h].pc = "detach", ![h].trip = t]
    BY <1>5 DEF Adopt
  <2> QED
    BY <1>2, <2>1, CompleterStep
<1>6. CASE DetachTasks(h) \/ AttachTask(h)
  BY <1>6, CompleterStep DEF DetachTasks, AttachTask
<1>7. CASE MintTrip(h) \/ PointToTrip(h)
  BY <1>7, CompleterEnd DEF MintTrip, PointToTrip
<1>8. CASE MoveTrip(h)
  BY <1>8, CompleterEnd, CompleterStep DEF MoveTrip
<1> QED
  BY <1>3, <1>4, <1>5, <1>6, <1>7, <1>8 DEF Plan

LEMMA CompleterLoad ==
  ASSUME TypeOK, NEW h \in Handlers, Load(h) \/ Close(h)
  PROVE  NoNewCompleter
<1>1. End(h) \/ \E pc \in {"claim", "retire", "send link"} : Step(h, pc)
  BY DEF Load, Close, RefuseForce, ForceStatus, ClaimToken, RetireTruck, SendLink, Arrive,
         CompleteSigned
<1> QED
  BY <1>1, CompleterEnd, CompleterStep

LEMMA CompleterBack ==
  ASSUME TypeOK, NEW h \in Handlers, TakeBack(h) \/ Die(h)
  PROVE  NoNewCompleter
<1>1. End(h) \/ \E pc \in {"remove", "cancel"} : Step(h, pc)
  BY DEF TakeBack, UnplanTrip, RemoveTask, LookForTrip, CancelRequest, DeleteRequest, Die
<1> QED
  BY <1>1, CompleterEnd, CompleterStep

LEMMA SignerOnly ==
  ASSUME TypeOK, Next, \A h \in Handlers : ~Sign(h)
  PROVE  NoNewCompleter
<1>1. \A t \in Trips : CancelTrip(t) \/ DeleteTrip(t) => NoNewCompleter
  BY DEF CancelTrip, DeleteTrip, NoNewCompleter
<1> QED
  BY <1>1, CompleterStart, CompleterPlace, CompleterPlan, CompleterLoad, CompleterBack DEF Next

LEMMA InitCompletedOnPaper == Init => CompletedOnPaper
BY DEF Init, CompletedOnPaper, At, Idle, NoTrip

LEMMA NextCompletedOnPaper == IInv /\ CompletedOnPaper /\ [Next]_vars => CompletedOnPaper'
<1> SUFFICES ASSUME IInv, CompletedOnPaper, [Next]_vars PROVE CompletedOnPaper'
  OBVIOUS
<1>1. CASE UNCHANGED vars
  BY <1>1 DEF vars, tables, ghosts, CompletedOnPaper, At
<1>2. CASE Next
  <2>1. TypeOK /\ JobsFit
    BY DEF IInv
  <2>2. ASSUME NEW t \in Trips
        PROVE  /\ papers[t] = 1 => papers'[t] = 1
               /\ StageOf'[t] = "completed" => papers'[t] = 1 \/ "completed" \in forced'[t]
    <3>1. External!Next \/ UNCHANGED External!vars
      BY <1>2, ExternalStep
    <3> QED
      BY <2>1, <3>1, PapersStay
  <2>3. \A t \in Trips :
          trip'[t].status = "completed" => papers'[t] = 1 \/ "completed" \in forced'[t]
    BY <2>2 DEF StageOf
  <2>4. ASSUME NEW g \in Handlers, job'[g].pc = "complete", job'[g] = job[g]
        PROVE  papers'[job'[g].trip] = 1
    <3>1. job[g].trip \in Trips /\ papers[job[g].trip] = 1
      BY <2>1, <2>4 DEF CompletedOnPaper, At, JobsFit, Fits, Minted
    <3> QED
      BY <2>2, <2>4, <3>1
  <2>5. ASSUME NEW g \in Handlers, job'[g].pc = "complete"
        PROVE  papers'[job'[g].trip] = 1
    <3>1. CASE \A h \in Handlers : ~Sign(h)
      BY <1>2, <2>1, <2>4, <2>5, <3>1, SignerOnly DEF NoNewCompleter
    <3>2. ASSUME NEW h \in Handlers, Sign(h)
          PROVE  papers'[job'[g].trip] = 1
      <4>1. PICK t \in Trips : /\ papers' = [papers EXCEPT ![t] = 1]
                               /\ \A f \in Handlers \ {h} : job'[f] = job[f]
                               /\ job'[h].trip = t
        BY <3>2, SignSigns
      <4>2. papers'[t] = 1
        BY <2>1, <4>1 DEF TypeOK
      <4> QED
        BY <2>4, <2>5, <4>1, <4>2
    <3> QED
      BY <3>1, <3>2
  <2> QED
    BY <2>3, <2>5 DEF CompletedOnPaper, At
<1> QED
  BY <1>1, <1>2

\* A completed trip has the driver's document, or an administrator forced it there:
\* "besides an admin force-complete" (1577), no handler completes a trip but one that
\* has seen its document handed in (completeAuxiliaryOnArrivalCmr, signByPublicToken),
\* whoever dies and whatever is forced meanwhile.
THEOREM PaperInvariant == Spec => []CompletedOnPaper
BY Invariant, InitCompletedOnPaper, NextCompletedOnPaper, PTL DEF Spec

LEMMA ExternalInit == Init => External!Init
BY DEF Init, External!Init, StageOf, LiveOf, NoTrip

\* Whatever the handlers read, in whatever order their statements fall and whenever
\* they die, each trip is planned, loaded, linked, signed and completed as
\* ExternalTrip says, one step of its at a time; what is not its own step is an
\* administrator's override (forceStatus), to whatever status, and on record.
THEOREM ExternalRefinement == Spec => ImplementsExternalTrip
<1>1. ASSUME IInv, CompletedOnPaper, [Next]_vars
      PROVE  [External!Next]_External!vars
  <2>1. CASE UNCHANGED vars
    BY <2>1, UntouchedUnseen DEF vars, tables, ghosts
  <2> QED
    BY <1>1, <2>1, ExternalStep
<1> QED
  BY <1>1, ExternalInit, Invariant, PaperInvariant, PTL DEF Spec, ImplementsExternalTrip, External!Spec
=============================================================================
