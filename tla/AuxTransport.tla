---------------------------- MODULE AuxTransport ----------------------------
(***************************************************************************)
(* A transport by an external haulier: a request, the one-time truck its    *)
(* confirmation mints, the rows of the truck board that put the truck under *)
(* a loader, and the trip that is planned from such a row, loaded, and      *)
(* closed by the driver over a one-time link.                              *)
(*                                                                         *)
(* "One request, one one-time truck, one trip" (trips.service.ts 3375) is   *)
(* nowhere a constraint of the database: it is what the handlers keep up,   *)
(* each a sequence of statements and transactions that others come between. *)
(* A handler is the server's work on one HTTP request (or the part of it    *)
(* that is left); it may die between two statements.                       *)
(*                                                                         *)
(* One request, one day.  Left out: the loaders and what they are matched   *)
(* by (whether one matches is a choice), corrections of a request's fields, *)
(* the status "loading", in which an auxiliary trip is what it is when      *)
(* planned, and the messages sent.  Also left out are the statuses from     *)
(* in_transit to delivered and "disputed": an auxiliary trip reaches them    *)
(* by a request no screen makes (an override to one, depart, dispute).  A   *)
(* row of the board moves among the trucks of the request.                  *)
(***************************************************************************)
EXTENDS Integers, FiniteSets

CONSTANTS
  Trucks,    \* trucks that may be minted for the request
  Tasks,     \* rows of task_assignments that may be inserted for them
  MaxTrips,  \* bound: the trips there may be, numbered by age
  Handlers,  \* the handlers that may run at once
  MaxJobs,   \* bound: how many handlers are started in all
  MaxDeaths, \* bound: how many handlers die
  None

ASSUME AuxTransportAssumption ==
  /\ None \notin Trucks \cup Tasks \cup Nat
  /\ MaxTrips \in Nat /\ MaxJobs \in Nat /\ MaxDeaths \in Nat

VARIABLES
  request,  \* the row of trip_requests
  truck,    \* machines: "none", "live" or "retired" (soft-deleted)
  task,     \* the rows of task_assignments
  trip,     \* the rows of trips, "none" before the row exists
  job,      \* what each handler is doing
  links,    \* how often a trip's driver was sent the link and its CMR queued
  papers,   \* how many arrival documents and signatures closed a trip
  forced,   \* the statuses an administrator forced on each trip
  orphans,  \* trips whose handler died before it completed them
  raced,    \* whether a plan was begun or taken back while another was made
  spent     \* how much of the bounds is used up

tables == <<request, truck, task, trip>>
ghosts == <<links, papers, forced, orphans, raced>>
vars == <<tables, job, ghosts, spent>>

Trips == 1..MaxTrips
Newest(s) == {n \in s : \A m \in s : m <= n}

NoTask == [truck |-> None, trip |-> None, live |-> FALSE, auto |-> FALSE]
NoTrip == [status |-> "none", live |-> FALSE, truck |-> None, token |-> FALSE, used |-> FALSE]
Idle == [pc |-> "idle", truck |-> None, task |-> None, trip |-> None, status |-> "none"]

Init == /\ request = [status |-> "pending", live |-> TRUE, truck |-> None, trip |-> None]
        /\ truck = [k \in Trucks |-> "none"]
        /\ task = [a \in Tasks |-> NoTask]
        /\ trip = [t \in Trips |-> NoTrip]
        /\ job = [h \in Handlers |-> Idle]
        /\ links = [t \in Trips |-> 0] /\ papers = [t \in Trips |-> 0]
        /\ forced = [t \in Trips |-> {}] /\ orphans = {} /\ raced = FALSE
        /\ spent = [jobs |-> 0, deaths |-> 0]

Live(t) == trip[t].live
LiveTrips == {t \in Trips : Live(t)}
OpenTrips == {t \in LiveTrips : trip[t].status = "planned"}

At(h, pc) == job[h].pc = pc
Step(h, pc) == job' = [job EXCEPT ![h].pc = pc]
End(h) == job' = [job EXCEPT ![h] = Idle]

\* A handler is started (they are places only: any free one will do).
Begin(h, record) ==
  /\ At(h, "idle")
  /\ h = CHOOSE g \in Handlers : At(g, "idle")
  /\ spent.jobs < MaxJobs
  /\ spent' = [spent EXCEPT !.jobs = @ + 1]
  /\ job' = [job EXCEPT ![h] = record]

\* The truck is soft-deleted, if it is not already.
Retired(k) == [j \in Trucks |-> IF j = k /\ truck[j] = "live" THEN "retired" ELSE truck[j]]
-----------------------------------------------------------------------------
(* confirm.                                                                *)

BeginConfirm(h) ==
  /\ request.live /\ request.status = "pending"
  /\ Begin(h, [Idle EXCEPT !.pc = "mint truck"])
  /\ UNCHANGED <<tables, ghosts>>

MintTruck(h) == LET k == CHOOSE j \in Trucks : truck[j] = "none" IN
  /\ At(h, "mint truck")
  /\ \E j \in Trucks : truck[j] = "none"
  /\ truck' = [truck EXCEPT ![k] = "live"]
  /\ job' = [job EXCEPT ![h].pc = "confirm", ![h].truck = k]
  /\ UNCHANGED <<request, task, trip, ghosts, spent>>

\* Whatever the request has become since it was read.
ConfirmRequest(h) ==
  /\ At(h, "confirm")
  /\ request' = [request EXCEPT !.status = "confirmed", !.truck = job[h].truck]
  /\ Step(h, "assign")
  /\ UNCHANGED <<truck, task, trip, ghosts, spent>>
-----------------------------------------------------------------------------
(* The truck board: who inserts a row, and what follows.                    *)

\* A row of the board takes a free place.
Insert(h, k, auto) == LET a == CHOOSE b \in Tasks : task[b].truck = None IN
  /\ \E b \in Tasks : task[b].truck = None
  /\ task' = [task EXCEPT ![a] = [NoTask EXCEPT !.truck = k, !.live = TRUE, !.auto = auto]]
  /\ job' = [job EXCEPT ![h].pc = "plan", ![h].task = a]

\* Rows that were removed count: what the dispatcher took off the board stays off.
Placed(k) == \E a \in Tasks : task[a].truck = k

\* sweepUnassignedAuxTrucks, when a loader gets a field or a depot.
BeginSweep(h) ==
  /\ request.live /\ request.status = "confirmed" /\ request.truck # None
  /\ truck[request.truck] = "live" /\ ~Placed(request.truck)
  /\ Begin(h, [Idle EXCEPT !.pc = "assign", !.truck = request.truck])
  /\ UNCHANGED <<tables, ghosts>>

\* (mutant) The sweep's own look at the board is relied upon.
AssignTruckUnchecked(h) ==
  /\ At(h, "assign")
  /\ Insert(h, job[h].truck, TRUE)
  /\ UNCHANGED <<request, truck, trip, ghosts, spent>>

\* tryAutoAssignAuxTruck: one transaction under the truck's advisory lock.
AssignTruck(h) ==
  /\ At(h, "assign")
  /\ ~Placed(job[h].truck)
  /\ Insert(h, job[h].truck, TRUE)
  /\ UNCHANGED <<request, truck, trip, ghosts, spent>>

\* No loader matches, or the truck has been placed already.
LeaveTruck(h) ==
  /\ At(h, "assign")
  /\ End(h)
  /\ UNCHANGED <<tables, ghosts, spent>>

\* create: the dispatcher places the truck; the machine is looked up first.
BeginPlace(h) == \E k \in Trucks :
  /\ truck[k] = "live"
  /\ Begin(h, [Idle EXCEPT !.pc = "place", !.truck = k])
  /\ UNCHANGED <<tables, ghosts>>

PlaceTruck(h) ==
  /\ At(h, "place")
  /\ Insert(h, job[h].truck, FALSE)
  /\ UNCHANGED <<request, truck, trip, ghosts, spent>>

\* update: the row is put under another loader or given another truck, which may have
\* been retired since it was looked up.  It no longer stands where the server put it.
BeginRewire(h) == \E a \in Tasks : \E k \in {task[a].truck} \cup {j \in Trucks : truck[j] # "none"} :
  /\ task[a].live
  /\ Begin(h, [Idle EXCEPT !.pc = "plan", !.task = a])
  /\ task' = [task EXCEPT ![a].truck = k, ![a].auto = @ /\ k = task[a].truck]
  /\ UNCHANGED <<request, truck, trip, ghosts>>
-----------------------------------------------------------------------------
(* autoUpsertFromTruckTask, autoUpsertAuxiliaryTrip.                        *)

Planning == {h \in Handlers :
  job[h].pc \in {"request", "adopt", "detach", "attach", "mint trip", "move", "point"}}
Crossed == raced' = (raced \/ Planning # {})

ReadTask(h) == LET a == job[h].task IN
  /\ At(h, "plan")
  /\ IF task[a].live
     THEN /\ job' = [job EXCEPT ![h].pc = "request", ![h].truck = task[a].truck,
                                ![h].trip = task[a].trip]
          /\ Crossed
     ELSE End(h) /\ UNCHANGED raced
  /\ UNCHANGED <<tables, links, papers, forced, orphans, spent>>

\* The request is found by its truck, whatever its status is.
ReadRequest(h) ==
  /\ At(h, "request")
  /\ IF request.live /\ request.truck = job[h].truck
     THEN Step(h, IF job[h].trip = None THEN "adopt" ELSE "move")
     ELSE End(h)
  /\ UNCHANGED <<tables, ghosts, spent>>

\* (mutant) Every new row of the board mints a trip.
AdoptNothing(h) ==
  /\ At(h, "adopt")
  /\ Step(h, "mint trip")
  /\ UNCHANGED <<tables, ghosts, spent>>

\* The newest trip of the request that has not been loaded, if there is one.
Adopt(h) ==
  /\ At(h, "adopt")
  /\ \/ OpenTrips = {} /\ Step(h, "mint trip")
     \/ \E t \in Newest(OpenTrips) : job' = [job EXCEPT ![h].pc = "detach", ![h].trip = t]
  /\ UNCHANGED <<tables, ghosts, spent>>

\* (mutant) The old row keeps its trip.
DetachNothing(h) ==
  /\ At(h, "detach")
  /\ Step(h, "attach")
  /\ UNCHANGED <<tables, ghosts, spent>>

DetachTasks(h) ==
  /\ At(h, "detach")
  /\ task' = [a \in Tasks |-> IF task[a].trip = job[h].trip /\ a # job[h].task /\ task[a].live
                              THEN [task[a] EXCEPT !.trip = None] ELSE task[a]]
  /\ Step(h, "attach")
  /\ UNCHANGED <<request, truck, trip, ghosts, spent>>

AttachTask(h) ==
  /\ At(h, "attach")
  /\ task' = [task EXCEPT ![job[h].task].trip = job[h].trip]
  /\ Step(h, "move")
  /\ UNCHANGED <<request, truck, trip, ghosts, spent>>

\* The trip, the row's pointer and the request's are written in one transaction.
MintTrip(h) == LET t == Cardinality({u \in Trips : trip[u].status # "none"}) + 1 IN
  /\ At(h, "mint trip")
  /\ t \in Trips
  /\ trip' = [trip EXCEPT ![t] = [NoTrip EXCEPT !.status = "planned", !.live = TRUE,
                                                !.truck = job[h].truck]]
  /\ task' = [task EXCEPT ![job[h].task].trip = t]
  /\ request' = [request EXCEPT !.trip = t]
  /\ End(h)
  /\ UNCHANGED <<truck, ghosts, spent>>

\* A trip that is still planned gets the new loader (which is not modelled), ...
MoveTrip(h) ==
  /\ At(h, "move")
  /\ IF job[h].trip \in OpenTrips THEN Step(h, "point") ELSE End(h)
  /\ UNCHANGED <<tables, ghosts, spent>>

\* ... and the request points to it.
PointToTrip(h) ==
  /\ At(h, "point")
  /\ request' = [request EXCEPT !.trip = job[h].trip]
  /\ End(h)
  /\ UNCHANGED <<truck, task, trip, ghosts, spent>>
-----------------------------------------------------------------------------
(* Loading.                                                                *)

\* registerAuxiliaryLoad's transaction: the truck's newest open trip is loaded.
RegisterLoad(h) == \E k \in Trucks : \E t \in Newest({u \in OpenTrips : trip[u].truck = k}) :
  /\ Begin(h, [Idle EXCEPT !.pc = "claim", !.trip = t])
  /\ trip' = [trip EXCEPT ![t].status = "loaded"]
  /\ UNCHANGED <<request, truck, task, ghosts>>

\* forceStatus: the trip is read, with its loads and its link, ...
BeginForce(h) == \E t \in LiveTrips :
  /\ Begin(h, [Idle EXCEPT !.pc = "force", !.trip = t])
  /\ UNCHANGED <<tables, ghosts>>

\* ... and refused (goods without a load, a completion without document or reason,
\* another status than the one the administrator saw), ...
RefuseForce(h) ==
  /\ At(h, "force")
  /\ End(h)
  /\ UNCHANGED <<tables, ghosts, spent>>

\* ... or given the status, whatever it has become.  A reason is all that a completion
\* without the arrival document needs; only "loaded" has side effects.
ForceStatus(h) == \E s \in {"planned", "loaded", "completed", "cancelled"} :
  LET t == job[h].trip IN
  /\ At(h, "force")
  /\ trip' = [trip EXCEPT ![t].status = s]
  /\ forced' = [forced EXCEPT ![t] = @ \cup {s}]
  /\ IF s = "loaded" THEN Step(h, "claim") ELSE End(h)
  /\ UNCHANGED <<request, truck, task, links, papers, orphans, raced, spent>>

\* (mutant) The side effects look at the token instead of claiming it.
SetToken(h) ==
  /\ At(h, "claim")
  /\ IF trip[job[h].trip].token THEN End(h) ELSE Step(h, "retire")
  /\ UNCHANGED <<tables, ghosts, spent>>

\* applyAuxiliaryLoadedSideEffects: the link's token is claimed, ...
ClaimToken(h) == LET t == job[h].trip IN
  /\ At(h, "claim")
  /\ IF trip[t].token THEN UNCHANGED trip /\ End(h)
     ELSE trip' = [trip EXCEPT ![t].token = TRUE] /\ Step(h, "retire")
  /\ UNCHANGED <<request, truck, task, ghosts, spent>>

\* ... the truck retired, ...
RetireTruck(h) ==
  /\ At(h, "retire")
  /\ truck' = Retired(trip[job[h].trip].truck)
  /\ Step(h, "send link")
  /\ UNCHANGED <<request, task, trip, ghosts, spent>>

\* ... the CMR queued and the driver sent the link.
SendLink(h) ==
  /\ At(h, "send link")
  /\ links' = [links EXCEPT ![job[h].trip] = @ + 1]
  /\ End(h)
  /\ UNCHANGED <<tables, papers, forced, orphans, raced, spent>>
-----------------------------------------------------------------------------
(* The driver's link.                                                      *)

Signable(t) == Live(t) /\ trip[t].token /\ ~trip[t].used

\* completeAuxiliaryOnArrivalCmr: a first look, then the photographs are rendered.
BeginArrival(h) == \E t \in Trips :
  /\ Signable(t) /\ trip[t].status = "loaded"
  /\ Begin(h, [Idle EXCEPT !.pc = "arrive", !.trip = t])
  /\ UNCHANGED <<tables, ghosts>>

\* The document and the status, in one transaction that fails if it comes too late.
Arrive(h) == LET t == job[h].trip IN
  /\ At(h, "arrive")
  /\ IF trip[t].status = "loaded" /\ ~trip[t].used
     THEN /\ trip' = [trip EXCEPT ![t].status = "completed", ![t].used = TRUE]
          /\ papers' = [papers EXCEPT ![t] = @ + 1]
     ELSE UNCHANGED <<trip, papers>>
  /\ End(h)
  /\ UNCHANGED <<request, truck, task, links, forced, orphans, raced, spent>>

\* (mutant) The link is burnt, and nothing completes the trip.
SignOnly(h) == \E t \in Trips :
  /\ Signable(t)
  /\ Begin(h, [Idle EXCEPT !.pc = "complete", !.trip = t])
  /\ trip' = [trip EXCEPT ![t].used = TRUE]
  /\ papers' = [papers EXCEPT ![t] = @ + 1]
  /\ UNCHANGED <<request, truck, task, links, forced, orphans, raced>>

\* signByPublicToken burns the link with the signature, ...
Sign(h) == \E t \in Trips :
  /\ Signable(t)
  /\ Begin(h, [Idle EXCEPT !.pc = "complete", !.trip = t, !.status = trip[t].status])
  /\ trip' = [trip EXCEPT ![t].used = TRUE]
  /\ papers' = [papers EXCEPT ![t] = @ + 1]
  /\ UNCHANGED <<request, truck, task, links, forced, orphans, raced>>

\* (mutant) The status the signature found is relied upon.
CompleteSignedUnguarded(h) == LET t == job[h].trip IN
  /\ At(h, "complete")
  /\ trip' = IF job[h].status = "loaded" THEN [trip EXCEPT ![t].status = "completed"] ELSE trip
  /\ End(h)
  /\ UNCHANGED <<request, truck, task, ghosts, spent>>

\* (mutant) The trip goes the way of the organisation's own.
CompleteSignedAsDelivered(h) == LET t == job[h].trip IN
  /\ At(h, "complete")
  /\ trip' = IF job[h].status = "loaded" /\ trip[t].status = "loaded"
             THEN [trip EXCEPT ![t].status = "delivered"] ELSE trip
  /\ End(h)
  /\ UNCHANGED <<request, truck, task, ghosts, spent>>

\* ... and then completes the trip, if it was loaded and still is.
CompleteSigned(h) == LET t == job[h].trip IN
  /\ At(h, "complete")
  /\ trip' = IF job[h].status = "loaded" /\ trip[t].status = "loaded"
             THEN [trip EXCEPT ![t].status = "completed"] ELSE trip
  /\ End(h)
  /\ UNCHANGED <<request, truck, task, ghosts, spent>>
-----------------------------------------------------------------------------
(* Taking back.                                                            *)

\* cancel of a trip: compared and set.
CancelTrip(t) ==
  /\ Live(t) /\ trip[t].status \in {"planned", "loaded"}
  /\ trip' = [trip EXCEPT ![t].status = "cancelled"]
  /\ UNCHANGED <<request, truck, task, job, ghosts, spent>>

Forget(trips) == [request EXCEPT !.trip = IF @ \in trips THEN None ELSE @]
Deleted(trips) == [t \in Trips |-> IF t \in trips THEN [trip[t] EXCEPT !.live = FALSE] ELSE trip[t]]
Removed(tasks) == [a \in Tasks |-> IF a \in tasks THEN [task[a] EXCEPT !.live = FALSE] ELSE task[a]]
TasksOf(trips) == {a \in Tasks : task[a].trip \in trips}

\* softDelete of a trip, by an admin: one transaction.
DeleteTrip(t) ==
  /\ Live(t)
  /\ trip' = Deleted({t})
  /\ task' = Removed(TasksOf({t}))
  /\ request' = Forget({t})
  /\ Crossed
  /\ UNCHANGED <<truck, job, links, papers, forced, orphans, spent>>

\* softDelete of a row of the board: what it points to is read, ...
BeginRemove(h) == \E a \in Tasks :
  /\ task[a].live
  /\ Begin(h, [Idle EXCEPT !.pc = IF task[a].trip = None THEN "remove" ELSE "unplan",
                           !.task = a, !.trip = task[a].trip])
  /\ UNCHANGED <<tables, ghosts>>

\* (mutant) The trip goes, the request goes on pointing to it.
UnplanTripOnly(h) == LET t == job[h].trip IN
  /\ At(h, "unplan")
  /\ trip' = IF t \in OpenTrips THEN Deleted({t}) ELSE trip
  /\ Crossed
  /\ Step(h, "remove")
  /\ UNCHANGED <<request, truck, task, links, papers, forced, orphans, spent>>

\* ... the trip un-planned unless it has been loaded, ...
UnplanTrip(h) == LET t == job[h].trip IN
  /\ At(h, "unplan")
  /\ IF t \in OpenTrips
     THEN trip' = Deleted({t}) /\ request' = Forget({t}) /\ Crossed
     ELSE UNCHANGED <<trip, request, raced>>
  /\ Step(h, "remove")
  /\ UNCHANGED <<truck, task, links, papers, forced, orphans, spent>>

\* ... and the row removed.
RemoveTask(h) ==
  /\ At(h, "remove")
  /\ task' = Removed({job[h].task})
  /\ End(h)
  /\ UNCHANGED <<request, truck, trip, ghosts, spent>>

\* cancel of the request: it is read, ...
BeginCancel(h) ==
  /\ request.live /\ request.status # "cancelled"
  /\ Begin(h, [Idle EXCEPT !.pc = IF request.status = "confirmed" THEN "look" ELSE "cancel",
                           !.truck = request.truck])
  /\ UNCHANGED <<tables, ghosts>>

\* ... refused if it has a trip, ...
LookForTrip(h) ==
  /\ At(h, "look")
  /\ IF LiveTrips = {} THEN Step(h, "cancel") ELSE End(h)
  /\ UNCHANGED <<tables, ghosts, spent>>

\* ... and cancelled with its truck.
CancelRequest(h) ==
  /\ At(h, "cancel")
  /\ request' = IF request.live THEN [request EXCEPT !.status = "cancelled"] ELSE request
  /\ truck' = Retired(job[h].truck)
  /\ End(h)
  /\ UNCHANGED <<task, trip, ghosts, spent>>

\* composeAuxStage: a live trip counts before a cancelled one, then the newest.
Stage ==
  LET current == LiveTrips \ {t \in LiveTrips : trip[t].status = "cancelled"}
      shown == Newest(IF current # {} THEN current ELSE LiveTrips)
  IN  IF request.status = "cancelled" THEN {"cancelled"}
      ELSE IF request.status = "pending" \/ shown = {} THEN {"unplanned"}
      ELSE {trip[t].status : t \in shown}

\* deleteAuxRequest: the stage is read, ...
BeginDeleteRequest(h) ==
  /\ request.live
  /\ Stage \subseteq {"cancelled", "unplanned", "planned"}
  /\ Begin(h, [Idle EXCEPT !.pc = "delete", !.truck = request.truck])
  /\ UNCHANGED <<tables, ghosts>>

\* ... and everything goes, whatever it has become.
DeleteRequest(h) ==
  /\ At(h, "delete")
  /\ task' = Removed(TasksOf(LiveTrips))
  /\ trip' = Deleted(LiveTrips)
  /\ truck' = Retired(job[h].truck)
  /\ request' = [request EXCEPT !.live = FALSE]
  /\ End(h)
  /\ Crossed
  /\ UNCHANGED <<links, papers, forced, orphans, spent>>

\* A handler dies between two of its statements.
Die(h) ==
  /\ ~At(h, "idle")
  /\ spent.deaths < MaxDeaths
  /\ spent' = [spent EXCEPT !.deaths = @ + 1]
  /\ orphans' = IF At(h, "complete") THEN orphans \cup {job[h].trip} ELSE orphans
  /\ End(h)
  /\ UNCHANGED <<tables, links, papers, forced, raced>>
-----------------------------------------------------------------------------
Start(h) == \/ BeginConfirm(h) \/ BeginSweep(h) \/ BeginPlace(h) \/ BeginRewire(h)
            \/ RegisterLoad(h) \/ BeginForce(h) \/ BeginArrival(h) \/ Sign(h)
            \/ BeginRemove(h) \/ BeginCancel(h) \/ BeginDeleteRequest(h)

Confirm(h) == MintTruck(h) \/ ConfirmRequest(h)
Place(h) == AssignTruck(h) \/ LeaveTruck(h) \/ PlaceTruck(h)
Plan(h) == \/ ReadTask(h) \/ ReadRequest(h) \/ Adopt(h) \/ DetachTasks(h) \/ AttachTask(h)
           \/ MintTrip(h) \/ MoveTrip(h) \/ PointToTrip(h)
Load(h) == RefuseForce(h) \/ ForceStatus(h) \/ ClaimToken(h) \/ RetireTruck(h) \/ SendLink(h)
Close(h) == Arrive(h) \/ CompleteSigned(h)
TakeBack(h) == \/ UnplanTrip(h) \/ RemoveTask(h) \/ LookForTrip(h) \/ CancelRequest(h)
               \/ DeleteRequest(h)

Next == \/ \E h \in Handlers : \/ Start(h) \/ Confirm(h) \/ Place(h) \/ Plan(h)
                               \/ Load(h) \/ Close(h) \/ TakeBack(h) \/ Die(h)
        \/ \E t \in Trips : CancelTrip(t) \/ DeleteTrip(t)

Spec == Init /\ [][Next]_vars
-----------------------------------------------------------------------------
\* "Auxiliary trips have their own lifecycle": nothing the screens offer gives one
\* another status (aux-stage.ts 48-51, "an auxiliary trip cannot reach them").
Status == {"none", "planned", "loaded", "completed", "cancelled"}
RequestType == [status : {"pending", "confirmed", "cancelled"}, live : BOOLEAN,
                truck : Trucks \cup {None}, trip : Trips \cup {None}]
TaskType == [truck : Trucks \cup {None}, trip : Trips \cup {None}, live : BOOLEAN, auto : BOOLEAN]
TripType == [status : Status, live : BOOLEAN, truck : Trucks \cup {None},
             token : BOOLEAN, used : BOOLEAN]
Pc == {"idle", "mint truck", "confirm", "assign", "place", "plan", "request", "adopt",
       "detach", "attach", "mint trip", "move", "point", "force", "claim", "retire",
       "send link", "arrive", "complete", "unplan", "remove", "look", "cancel", "delete"}
JobType == [pc : Pc, truck : Trucks \cup {None}, task : Tasks \cup {None},
            trip : Trips \cup {None}, status : Status]

TypeOK ==
  /\ request \in RequestType
  /\ truck \in [Trucks -> {"none", "live", "retired"}]
  /\ task \in [Tasks -> TaskType]
  /\ trip \in [Trips -> TripType]
  /\ job \in [Handlers -> JobType]
  /\ links \in [Trips -> Nat] /\ papers \in [Trips -> Nat]
  /\ forced \in [Trips -> SUBSET Status] /\ orphans \subseteq Trips
  /\ raced \in BOOLEAN
  /\ spent \in [jobs : 0..MaxJobs, deaths : 0..MaxDeaths]

\* Loading fires "EXACTLY ONCE even if called from several paths" (1447): two
\* loads, a load and an override, or an override of a trip that has been
\* completed never queue a second CMR or send the driver a second link.
LinkSentOnce == \A t \in Trips : links[t] <= 1

\* The link is spent on one document.  A double tap, and the old page that signs
\* next to the new one that uploads, close a trip with one piece of evidence
\* (completeAuxiliaryOnArrivalCmr, signByPublicToken).
PaperOnce == \A t \in Trips : papers[t] <= 1

\* Re-planning a transport moves its trip instead of minting another (3345), for
\* the rows and the trucks that two confirmations, sweeps and dispatchers make.
\* Nothing holds two handlers apart that plan at once, and a trip an administrator
\* forced back to planned is there next to the one that took its place.
Reopened == {t \in Trips : "planned" \in forced[t]}
OneOpenTrip == raced \/ Cardinality(OpenTrips \ Reopened) <= 1

\* "The trip is never claimed by two tasks at once" (3377), handlers that die
\* between the two UPDATEs of the hand-over included.
OneClaim == raced \/ \A t \in LiveTrips : Cardinality({a \in TasksOf({t}) : task[a].live}) <= 1

\* The request never goes on showing a trip that has been taken back: each of the
\* three ways to delete one clears the pointer, at whatever step a handler dies.
PointsToLiveTrip == raced \/ (request.live /\ request.trip # None => Live(request.trip))

\* A truck is placed by the server once at most, and never again after anyone
\* has: the confirmation and the sweeps race, a row that was removed counts (one
\* that was given another truck does not).
AutoPlacedOnce == \A a, b \in Tasks :
  task[a].truck = task[b].truck /\ task[a].auto /\ task[b].auto => a = b

\* A driver whose link is spent is not left with a trip that nothing completes:
\* as long as nobody forced it back, to be loaded again, and the handler that took
\* the signature lives, it is at work on it.
ForcedBack(t) == forced[t] \cap {"planned", "loaded"} # {}
SpentLinkCloses == \A t \in Trips :
  trip[t].used /\ trip[t].status = "loaded" /\ ~ForcedBack(t) /\ t \notin orphans
    => \E h \in Handlers : At(h, "complete") /\ job[h].trip = t

\* A trip that was completed or cancelled stays so, whichever handler read it
\* before: only the administrator gives it another status.
ClosedStaysClosed == [][\A t \in Trips :
  trip[t].status \in {"completed", "cancelled"} /\ trip'[t].status # trip[t].status
    => trip'[t].status \in forced'[t]]_vars

\* What is seen of the trips from outside.
StageOf == [t \in Trips |-> trip[t].status]
LiveOf == [t \in Trips |-> trip[t].live]
External == INSTANCE ExternalTrip WITH stage <- StageOf, live <- LiveOf, linked <- links

\* What every trip goes through, whatever the handlers read and whenever they die, is
\* what ExternalTrip allows: loaded from planned, one link and after the load, one
\* document, completed on that document; any other change of status is an override
\* of an administrator and on record ("the ONLY thing that completes an auxiliary
\* trip (besides an admin force-complete with a reason)", trips.service.ts 1577).
ImplementsExternalTrip == External!Spec
-----------------------------------------------------------------------------
\* "You can never wipe a commitment out from under a loader who is already
\* working on it" (trip-requests.service.ts 473): a request that is cancelled has
\* no trip.  It is looked for before the request is cancelled, and may be planned
\* in between.
CancelledHasNoLiveTrip == request.live /\ request.status = "cancelled" => LiveTrips = {}
-----------------------------------------------------------------------------
\* Why they hold.  Trips are numbered in order, and a handler is about things that exist.
Minted == {t \in Trips : trip[t].status # "none"}
MintedInOrder == \E n \in 0..MaxTrips : Minted = 1..n
UnmintedIsEmpty == \A t \in Trips : trip[t].status = "none" => trip[t] = NoTrip
Fits(r, trips) ==
  /\ r.pc \in {"confirm", "assign", "place"} => r.truck \in Trucks
  /\ r.pc \in {"plan", "request", "adopt", "detach", "attach", "mint trip"} => r.task \in Tasks
  /\ r.pc \in {"detach", "attach", "force", "claim", "retire", "send link", "arrive", "complete"}
       => r.trip \in trips
JobsFit == \A h \in Handlers : Fits(job[h], Minted)

\* The link comes after the load, its token is claimed by one handler, and the
\* paper after the link.
Sending(h, t) == job[h].pc \in {"retire", "send link"} /\ job[h].trip = t
LoadedBeforeLink ==
  /\ \A t \in Trips \ Reopened : trip[t].status = "planned" => ~trip[t].token /\ ~trip[t].used
  /\ \A h \in Handlers : job[h].pc \in {"claim", "retire", "send link"}
                           => trip[job[h].trip].status # "planned" \/ job[h].trip \in Reopened
OneLink == \A t \in Trips :
  /\ links[t] \in {0, 1}
  /\ links[t] = 1 => trip[t].token /\ \A h \in Handlers : ~Sending(h, t)
  /\ \A h \in Handlers : Sending(h, t) => trip[t].token
  /\ \A g, h \in Handlers : Sending(g, t) /\ Sending(h, t) => g = h
OnePaper == \A t \in Trips : papers[t] = 0 \/ (papers[t] = 1 /\ trip[t].used)
SignatureCompletes == \A t \in Trips :
  trip[t].used /\ trip[t].status = "loaded" /\ ~ForcedBack(t) /\ t \notin orphans
    => \E h \in Handlers : At(h, "complete") /\ job[h].trip = t /\ job[h].status = "loaded"

IInv == /\ TypeOK /\ MintedInOrder /\ UnmintedIsEmpty /\ JobsFit
        /\ LoadedBeforeLink /\ OneLink /\ OnePaper /\ SignatureCompletes /\ AutoPlacedOnce

\* A trip is completed on its document, or by an administrator who forced it: whoever
\* else completes one has seen it signed.
CompletedOnPaper ==
  /\ \A h \in Handlers : At(h, "complete") => papers[job[h].trip] = 1
  /\ \A t \in Trips : trip[t].status = "completed" => papers[t] = 1 \/ "completed" \in forced[t]

\* As long as no plan crosses another, or a trip that is taken back, a trip is minted
\* only while none is open, but for those that are reopened meanwhile, ...
OnePlans == ~raced =>
  /\ \A g, h \in Planning : g = h
  /\ \A t, u \in OpenTrips \ Reopened : t = u
  /\ \A h \in Handlers : At(h, "mint trip") => OpenTrips \subseteq Reopened

\* ... a row takes a trip over only once no other row has it, ...
TripsAreMinted == \A a \in Tasks : task[a].trip \in Minted \cup {None}
OneRowEach == ~raced =>
  /\ \A a, b \in Tasks : task[a].live /\ task[b].live /\ task[a].trip = task[b].trip
                           => a = b \/ task[a].trip = None
  /\ \A h \in Handlers : At(h, "attach") =>
       \A a \in Tasks \ {job[h].task} : task[a].live => task[a].trip # job[h].trip

\* ... and the request is about to point to a trip only while it is there.
PointsAhead == ~raced => \A h \in Handlers : At(h, "point") => job[h].trip \in LiveTrips

Planned == OnePlans /\ TripsAreMinted /\ OneRowEach /\ PointsToLiveTrip /\ PointsAhead
=============================================================================
