-------------------------- MODULE TransitionQueue --------------------------
(***************************************************************************)
(* How one phone carries one trip: the steps its user takes offline, the   *)
(* trip_transition rows of its sync_queue, the sync cycles that post those *)
(* rows to the server and pull the trip back, and the server's trip, which *)
(* other people move too.                                                  *)
(*                                                                         *)
(* A sync cycle is a sequence of awaited SQLite statements and HTTP calls; *)
(* each is one action here, so the user, another cycle, a lost answer or a *)
(* killed app may come between any two.  Several SyncManagers exist at the *)
(* same time: every screen that calls useSync has one, and the background  *)
(* task has another.                                                       *)
(*                                                                         *)
(* The server handles a post in one step: that this is sound is what       *)
(* TripLifecycle shows (ImplementsMachine).  The body of a step, the other *)
(* tables of the queue and the trip's other columns (its pending badge,    *)
(* has_pending_transition, among them) are left out.                       *)
(***************************************************************************)
EXTENDS TripTransitions, Naturals, Sequences

CONSTANTS
  Managers,     \* the SyncManager instances of the app
  Steps,        \* the steps this phone's user takes: the driver's or the depot operator's
  Refusable,    \* the steps the server may refuse on content (TERMINAL_TRANSITION_CODES)
  OtherEvents,  \* the events other users fire on the trip
  Start,        \* the trip's status when the phone first holds it
  MaxLosses,    \* bound: how many posts get no answer
  MaxRetries,   \* bound: how often the user taps retry
  MaxCrashes    \* bound: how often the app is killed

DriverSteps == {"depart", "arrive", "start-delivery", "confirm-delivery", "complete"}
DepotSteps == {"start-depot-unload", "confirm-depot-delivery"}

ASSUME TransitionQueueAssumption ==
  /\ Steps \subseteq DriverSteps \cup DepotSteps
  /\ Refusable \subseteq Steps
  /\ OtherEvents \subseteq Event
  /\ Start \in Status
  /\ MaxLosses \in Nat /\ MaxRetries \in Nat /\ MaxCrashes \in Nat

VARIABLES
  server,     \* the server's trip: its status and sync_version
  local,      \* status of the phone's own copy of the trip
  cursor,     \* the phone's sync cursor for trips
  order,      \* the queue's rows in id order, each named by its step
  row,        \* the status of each step's row, "none" where there is none
  hand,       \* the writes the screen the user tapped on has still to do
  cycle,      \* where each SyncManager is in its sync cycle
  late,       \* posts the phone gave up on that the server has yet to see
  spent,      \* how much of the three bounds is used up
  applied,    \* history: this phone's steps in the order the server applied them
  dropped,    \* history: steps whose row was completed and that no post applied
  moved       \* history: whether somebody else moved the trip

phone == <<local, order, row, hand>>
history == <<applied, dropped, moved>>
vars == <<server, phone, cursor, cycle, late, spent, history>>

\* "refused" is a failed row whose last_error is TERMINAL_REJECTION.
RowStatus == {"none", "pending", "in_flight", "failed", "refused", "completed"}
Failed == {"failed", "refused"}
Unsent == {"pending", "in_flight"} \cup Failed
Rows(s) == {e \in Steps : row[e] \in s}
HasUnsent == Rows(Unsent) # {}

EventOf(e) ==
  CASE e = "depart"             -> "DEPART"
    [] e = "arrive"             -> "ARRIVE"
    [] e = "start-delivery"     -> "START_DELIVERY"
    [] e = "confirm-delivery"   -> "CONFIRM_DELIVERY"
    [] e = "complete"           -> "COMPLETE"
    [] e = "start-depot-unload" -> "START_DEPOT_UNLOAD"
    [] OTHER                    -> "CONFIRM_DELIVERY_AT_DEPOT"

\* TRANSITION_TARGET, and the depot screens' offlineStatus.
Target(e) ==
  CASE e = "depart"             -> "in_transit"
    [] e = "arrive"             -> "arrived"
    [] e \in {"start-delivery", "start-depot-unload"} -> "delivering"
    [] e = "confirm-delivery"   -> "delivered"
    [] OTHER                    -> "completed"

\* A step's place on the trip's way.
Rank(e) ==
  CASE e = "depart" -> 1
    [] e = "arrive" -> 2
    [] e \in {"start-delivery", "start-depot-unload"} -> 3
    [] e = "confirm-delivery" -> 4
    [] OTHER -> 5

Set(s) == {s[i] : i \in DOMAIN s}

\* SelectSeq(s, LAMBDA e : e \in es), in a form that can be reasoned about.
Only(s, es) ==
  LET kept[n \in 0..Len(s)] ==
        IF n = 0 THEN <<>>
        ELSE IF s[n] \in es THEN Append(kept[n - 1], s[n]) ELSE kept[n - 1]
  IN  kept[Len(s)]

NoTrip == [status |-> Start, version |-> 0]
Idle == [pc |-> "idle", batch |-> <<>>, ok |-> {}, bad |-> {}, refused |-> {},
         pulled |-> NoTrip, seen |-> Start, kept |-> FALSE]

Init == /\ server = [status |-> Start, version |-> 1]
        /\ local = Start
        /\ cursor = 1
        /\ order = <<>>
        /\ row = [e \in Steps |-> "none"]
        /\ hand = <<>>
        /\ cycle = [m \in Managers |-> Idle]
        /\ late = {}
        /\ spent = [losses |-> 0, retries |-> 0, crashes |-> 0]
        /\ applied = <<>>
        /\ dropped = {}
        /\ moved = FALSE
-----------------------------------------------------------------------------
(* The server.                                                             *)

Open(s) == s \notin {"completed", "cancelled"}

\* (mutant) The handlers forget validateTransition.
AcceptsAnywhere(e) == Open(server.status)

Accepts(e) == EventOf(e) \in Available(server.status)

Advance(s) == server' = [status |-> s, version |-> server.version + 1]

\* The handler of a post, once it has reached the server.
Handle(e) == /\ Accepts(e)
             /\ Advance(Target(e))
             /\ applied' = Append(applied, e)

\* Somebody else's handler: the dispatcher, the depot operator, the driver.
OtherMoves == /\ \E ev \in OtherEvents \cap Available(server.status) :
                   \E s \in Targets(ev) : Advance(s)
              /\ moved' = TRUE
              /\ UNCHANGED <<phone, cursor, cycle, late, spent, applied, dropped>>

\* A call that gets no answer: it is lost, or the server sees it later.
Unanswered(e) == /\ spent.losses < MaxLosses
                 /\ spent' = [spent EXCEPT !.losses = @ + 1]
                 /\ late' \in {late, late \cup {e}}

\* A post the phone has given up on arrives after all.
LateArrival == \E e \in late :
  /\ late' = late \ {e}
  /\ IF Accepts(e) THEN Handle(e) ELSE UNCHANGED <<server, applied>>
  /\ UNCHANGED <<phone, cursor, cycle, spent, dropped, moved>>
-----------------------------------------------------------------------------
(* The user.                                                               *)

ToTrip(e) == [into |-> "trips", step |-> e]
ToQueue(e) == [into |-> "sync_queue", step |-> e]

\* useTripTransition: the steps it allows from the phone's own status.
DriverTaps == \E e \in {"depart", "arrive"} \cap Steps :
  /\ hand = <<>>
  /\ local = CASE e = "depart" -> "loaded" [] e = "arrive" -> "in_transit"
  /\ hand' = <<ToTrip(e), ToQueue(e)>>
  /\ UNCHANGED <<server, local, order, row, cursor, cycle, late, spent, history>>

\* handleConfirm of the delivery flow: three steps, one after the other.
DriverDelivers ==
  /\ hand = <<>>
  /\ {"start-delivery", "confirm-delivery", "complete"} \subseteq Steps
  /\ local \in {"arrived", "delivering"}
  /\ hand' = <<ToTrip("start-delivery"), ToQueue("start-delivery"),
               ToTrip("confirm-delivery"), ToQueue("confirm-delivery"),
               ToTrip("complete"), ToQueue("complete")>>
  /\ UNCHANGED <<server, local, order, row, cursor, cycle, late, spent, history>>

\* useDepotAction: the depot operator's steps go to the server at once...
DepotOffers(e) == /\ hand = <<>>
                  /\ e \in DepotSteps \cap Steps
                  /\ local \in (IF e = "start-depot-unload" THEN {"in_transit", "arrived"}
                                                            ELSE {"delivering"})

DepotTapsOnline == \E e \in Steps :
  /\ DepotOffers(e)
  /\ Handle(e)
  /\ UNCHANGED <<phone, cursor, cycle, late, spent, dropped, moved>>

\* ... and into the queue only when the call gets no answer.
DepotTapsOffline == \E e \in Steps :
  /\ DepotOffers(e)
  /\ Unanswered(e)
  /\ hand' = <<ToQueue(e), ToTrip(e)>>
  /\ UNCHANGED <<server, local, order, row, cursor, cycle, history>>

ApplyTransitionLocally(e) == /\ local' = Target(e)
                             /\ UNCHANGED <<order, row>>

\* A row that is already on its way, or that has been sent, is left alone.
EnqueueOrUpdate(e) ==
  /\ row' = IF row[e] \notin {"in_flight", "completed"} THEN [row EXCEPT ![e] = "pending"] ELSE row
  /\ order' = IF row[e] = "none" THEN Append(order, e) ELSE order
  /\ UNCHANGED local

\* The next write of the screen the user tapped on.
Record == /\ hand # <<>>
          /\ hand' = Tail(hand)
          /\ IF Head(hand).into = "trips" THEN ApplyTransitionLocally(Head(hand).step)
                                          ELSE EnqueueOrUpdate(Head(hand).step)
          /\ UNCHANGED <<server, cursor, cycle, late, spent, history>>

\* The sync screens' "retry all" and the tap-to-retry of one row.
Retry(es) == /\ es # {}
             /\ spent.retries < MaxRetries
             /\ spent' = [spent EXCEPT !.retries = @ + 1]
             /\ row' = [e \in Steps |-> IF e \in es THEN "pending" ELSE row[e]]
             /\ UNCHANGED <<server, local, order, hand, cursor, cycle, late, history>>

RetryAllFailed == Retry(Rows(Failed))
RetryOne == \E e \in Rows(Failed) : Retry({e})

\* The app is killed: SQLite keeps what was written, the cycles are gone.
Crash == /\ spent.crashes < MaxCrashes
         /\ spent' = [spent EXCEPT !.crashes = @ + 1]
         /\ hand' = <<>>
         /\ cycle' = [m \in Managers |-> Idle]
         /\ late' \in {late} \cup {late \cup {Head(cycle[m].batch)} :
                         m \in {n \in Managers : cycle[n].pc = "send" /\ cycle[n].batch # <<>>}}
         /\ UNCHANGED <<server, local, order, row, cursor, history>>
-----------------------------------------------------------------------------
(* A sync cycle.                                                           *)

At(m, pc) == cycle[m].pc = pc
GoTo(m, pc) == cycle' = [cycle EXCEPT ![m].pc = pc]

\* (mutant) The cycle does not reset what an interrupted one left in flight.
BeginWithoutReset(m) ==
  /\ At(m, "idle")
  /\ row' = [e \in Steps |-> IF row[e] = "completed" THEN "none" ELSE row[e]]
  /\ order' = Only(order, {e \in Steps : row[e] # "completed"})
  /\ cycle' = [cycle EXCEPT ![m] = [Idle EXCEPT !.pc = "dequeue"]]
  /\ UNCHANGED <<server, local, hand, cursor, late, spent, history>>

\* resetInFlight and purgeCompleted, the housekeeping a cycle starts with.
Begin(m) == /\ At(m, "idle")
            /\ row' = [e \in Steps |-> CASE row[e] = "in_flight" -> "pending"
                                         [] row[e] = "completed" -> "none"
                                         [] OTHER                -> row[e]]
            /\ order' = Only(order, {e \in Steps : row[e] # "completed"})
            /\ cycle' = [cycle EXCEPT ![m] = [Idle EXCEPT !.pc = "dequeue"]]
            /\ UNCHANGED <<server, local, hand, cursor, late, spent, history>>

Dequeue(m) == /\ At(m, "dequeue")
              /\ LET due == Only(order, {e \in Steps : row[e] = "pending"}) IN
                 cycle' = [cycle EXCEPT ![m].pc = IF due = <<>> THEN "fetch" ELSE "mark",
                                        ![m].batch = due]
              /\ UNCHANGED <<server, phone, cursor, late, spent, history>>

\* The statements below name their rows by id: a row that is gone is not
\* touched, whatever the other cycles have made of the rest.  (The model names
\* a row by its step, so it does not tell a row from one that replaced it.)
Mark(rows, es, s) == [e \in Steps |-> IF e \in es /\ rows[e] # "none" THEN s ELSE rows[e]]

MarkInFlight(m) == /\ At(m, "mark")
                   /\ row' = Mark(row, Set(cycle[m].batch), "in_flight")
                   /\ GoTo(m, "send")
                   /\ UNCHANGED <<server, local, order, hand, cursor, late, spent, history>>

\* pushMutations takes the batch in order, one awaited post at a time.
Sending(m, e) == /\ At(m, "send")
                 /\ cycle[m].batch # <<>>
                 /\ e = Head(cycle[m].batch)

\* (mutant) A sent row stays at the head of the batch.
SucceedInPlace(m, e) == cycle' = [cycle EXCEPT ![m].ok = @ \cup {e}]

Succeed(m, e) == cycle' = [cycle EXCEPT ![m].batch = Tail(@), ![m].ok = @ \cup {e}]
Fail(m, e) == cycle' = [cycle EXCEPT ![m].batch = Tail(@), ![m].bad = @ \cup {e}]
Refuse(m, e) == cycle' = [cycle EXCEPT ![m].batch = Tail(@), ![m].refused = @ \cup {e}]

\* (mutant) A failure does not hold the rest of the batch back.
BlockedByNothing(m) == FALSE

\* blockedTrips: nothing of this trip is sent past a failure of this cycle.
Blocked(m) == cycle[m].bad \cup cycle[m].refused # {}

Defer(m, e) == /\ Sending(m, e)
               /\ Blocked(m)
               /\ Fail(m, e)
               /\ UNCHANGED <<server, phone, cursor, late, spent, history>>

\* sendTripTransition, by what comes back.
Post(m, e) == Sending(m, e) /\ ~Blocked(m)

PostApplied(m, e) == /\ Post(m, e)
                     /\ Handle(e)
                     /\ Succeed(m, e)
                     /\ UNCHANGED <<local, order, row, hand, cursor, late, spent, dropped, moved>>

\* "not allowed from status" is taken for an earlier retry's success.
PostNotAllowed(m, e) == /\ Post(m, e)
                        /\ ~Accepts(e)
                        /\ Succeed(m, e)
                        /\ dropped' = IF e \in Set(applied) THEN dropped ELSE dropped \cup {e}
                        /\ UNCHANGED <<server, local, order, row, hand, cursor, late, spent, applied, moved>>

PostRefused(m, e) == /\ Post(m, e)
                     /\ e \in Refusable
                     /\ Accepts(e)
                     /\ Refuse(m, e)
                     /\ UNCHANGED <<server, local, order, row, hand, cursor, late, spent, history>>

PostUnanswered(m, e) == /\ Post(m, e)
                        /\ Unanswered(e)
                        /\ Fail(m, e)
                        /\ UNCHANGED <<server, phone, cursor, history>>

MarkCompleted(m) == /\ At(m, "send")
                    /\ cycle[m].batch = <<>>
                    /\ row' = Mark(row, cycle[m].ok, "completed")
                    /\ GoTo(m, "fail")
                    /\ UNCHANGED <<server, local, order, hand, cursor, late, spent, history>>

MarkFailed(m) == /\ At(m, "fail")
                 /\ row' = Mark(Mark(row, cycle[m].bad, "failed"), cycle[m].refused, "refused")
                 /\ cycle' = [cycle EXCEPT ![m] = [Idle EXCEPT !.pc = "fetch"]]
                 /\ UNCHANGED <<server, local, order, hand, cursor, late, spent, history>>

\* The server's pull answers with the trip when it is newer than the cursor,
\* and with an open trip in any case.
DeliveredByVersion == server.version > cursor   \* (mutant) No open trip is forced in.

Delivered == server.version > cursor \/ Open(server.status)

Fetch(m) == /\ At(m, "fetch")
            /\ Delivered
            /\ cycle' = [cycle EXCEPT ![m].pc = "find", ![m].pulled = server]
            /\ UNCHANGED <<server, phone, cursor, late, spent, history>>

FetchNothing(m) == /\ At(m, "fetch")
                   /\ ~Delivered \/ MaxLosses > 0
                   /\ cycle' = [cycle EXCEPT ![m] = Idle]
                   /\ UNCHANGED <<server, phone, cursor, late, spent, history>>

\* applyUpdate reads the phone's trip, then the queue, then writes the trip:
\* while a step is unsent the status it has read stays.
FindLocal(m) == /\ At(m, "find")
                /\ cycle' = [cycle EXCEPT ![m].pc = "check", ![m].seen = local]
                /\ UNCHANGED <<server, phone, cursor, late, spent, history>>

CheckUnsent(m) == /\ At(m, "check")
                  /\ cycle' = [cycle EXCEPT ![m].pc = "upsert", ![m].kept = HasUnsent]
                  /\ UNCHANGED <<server, phone, cursor, late, spent, history>>

Upsert(m) == /\ At(m, "upsert")
             /\ local' = IF cycle[m].kept THEN cycle[m].seen ELSE cycle[m].pulled.status
             /\ cursor' = IF cycle[m].pulled.version > cursor THEN cycle[m].pulled.version ELSE cursor
             /\ cycle' = [cycle EXCEPT ![m] = Idle]
             /\ UNCHANGED <<server, order, row, hand, late, spent, history>>

Push(m) == \E e \in Steps : \/ Defer(m, e)
                            \/ PostApplied(m, e)
                            \/ PostNotAllowed(m, e)
                            \/ PostRefused(m, e)
                            \/ PostUnanswered(m, e)
Sync(m) == \/ Begin(m) \/ Dequeue(m) \/ MarkInFlight(m)
           \/ Push(m) \/ MarkCompleted(m) \/ MarkFailed(m)
           \/ Fetch(m) \/ FetchNothing(m)
           \/ FindLocal(m) \/ CheckUnsent(m) \/ Upsert(m)

Next == \/ DriverTaps \/ DriverDelivers \/ DepotTapsOnline \/ DepotTapsOffline
        \/ Record \/ RetryAllFailed \/ RetryOne \/ Crash
        \/ OtherMoves \/ LateArrival
        \/ \E m \in Managers : Sync(m)

Spec == Init /\ [][Next]_vars

\* A running app finishes the statements it has begun and starts a new cycle
\* from time to time; a post and a pull get through if tried often enough.
Fairness == /\ WF_vars(Record)
            /\ \A m \in Managers : WF_vars(Sync(m)) /\ SF_vars(Fetch(m))
FairSpec == Spec /\ Fairness
-----------------------------------------------------------------------------
Cycle == [pc : {"idle", "dequeue", "mark", "send", "fail", "fetch", "find", "check", "upsert"},
          batch : Seq(Steps), ok : SUBSET Steps, bad : SUBSET Steps, refused : SUBSET Steps,
          pulled : [status : Status, version : Nat], seen : Status, kept : BOOLEAN]
TypeOK ==
  /\ server \in [status : Status, version : Nat]
  /\ local \in Status
  /\ cursor \in Nat
  /\ order \in Seq(Steps)
  /\ row \in [Steps -> RowStatus]
  /\ hand \in Seq([into : {"trips", "sync_queue"}, step : Steps])
  /\ cycle \in [Managers -> Cycle]
  /\ \A m \in Managers : cycle[m].ok \cap cycle[m].bad = {}
  /\ late \subseteq Steps
  /\ spent \in [losses : 0..MaxLosses, retries : 0..MaxRetries, crashes : 0..MaxCrashes]
  /\ applied \in Seq(Steps)
  /\ dropped \subseteq Steps
  /\ moved \in BOOLEAN

\* The server takes this phone's steps in the trip's order and each at most
\* once, whatever the queue, the retries and the late posts do (the server's
\* validateTransition is what makes a replay harmless, push.ts 362-367).
InOrderOnce == \A i, j \in DOMAIN applied : i < j => Rank(applied[i]) < Rank(applied[j])

\* In a driver's app that is not killed, the first step that is taken for sent although
\* the server never applied it sits behind a gap: somebody else moved the trip, or an
\* earlier step was not in the cycle's batch.  Sending in id order and deferring past a
\* failure (push.ts 454-464) cover everything else, however many cycles run.
BatchOf(m) == Set(cycle[m].batch) \cup cycle[m].ok \cup cycle[m].bad \cup cycle[m].refused
DroppedOnlyBehindAGap ==
  [][\A m \in Managers, e \in Steps :
       PostNotAllowed(m, e) /\ e \notin Set(applied) /\ dropped = {} /\ ~moved
            /\ spent.crashes = 0
         => \E d \in Steps \ BatchOf(m) : Rank(d) < Rank(e) /\ d \notin Set(applied)]_vars

\* A row that is due is answered for: no crash and no lost call leaves it
\* pending or in flight for ever (resetInFlight, markFailed on every path).
DueRowsGetAnswered ==
  \A e \in Steps : row[e] \in {"pending", "in_flight"} ~> row[e] \notin {"pending", "in_flight"}

\* A phone with nothing unsent comes to agree with the server about a trip
\* that is still open, even after a step was dropped (the open trips that
\* sync.service's pull sends every time).
PhoneHeals == []<>(local = server.status \/ HasUnsent \/ ~Open(server.status))
-----------------------------------------------------------------------------
\* Why the steps are applied in order: a trip nobody disputes only goes forward, and a
\* step takes it past every step before.  (A resolved dispute may put it back.)
Level(s) ==
  CASE s = "in_transit" -> 1
    [] s = "arrived" -> 2
    [] s = "delivering" -> 3
    [] s = "delivered" -> 4
    [] s \in {"completed", "cancelled"} -> 5
    [] OTHER -> 0
AppliedIsBehind ==
  /\ server \in [status : Status, version : Nat]
  /\ applied \in Seq(Set(applied))
  /\ \A i \in DOMAIN applied : Rank(applied[i]) <= Level(server.status)
IInv == AppliedIsBehind /\ InOrderOnce

\* A step has one row, and one place in a cycle: in its batch until it is answered for.
Once(s) == \A i, j \in DOMAIN s : s[i] = s[j] => i = j
OneRowEach == /\ Once(order)
              /\ Set(order) = Rows(RowStatus \ {"none"})
OneAnswerEach == \A m \in Managers :
  /\ Once(cycle[m].batch)
  /\ Set(cycle[m].batch) \cap (cycle[m].ok \cup cycle[m].bad \cup cycle[m].refused) = {}
  /\ At(m, "dequeue") => cycle[m].ok \cup cycle[m].bad \cup cycle[m].refused = {}
QueueInv == TypeOK /\ OneRowEach /\ OneAnswerEach

\* What the phone knows of the trip's way: the steps in its queue, those it is about to put
\* there, and those it takes for sent.
Ahead == {e \in DriverSteps : Level(Start) < Rank(e)}
InHand == {w.step : w \in {x \in Set(hand) : x.into = "sync_queue"}}
Sent == Set(applied) \cup dropped
Known == Set(order) \cup InHand \cup Sent
KnownUpTo(l) == {e \in Ahead : Rank(e) <= l} \subseteq Known

\* The trip's way, when no one but a driver's phone moves the trip: it is where the last
\* step applied took it.
Road == {"loaded", "in_transit", "arrived", "delivering", "delivered", "completed"}
OnTheWay == /\ server.status \in Road
            /\ Level(Start) <= Level(server.status)
            /\ Set(applied) = {e \in Ahead : Rank(e) <= Level(server.status)}

\* The screen writes a step to the trip and then to the queue, one step after the other.
HandInOrder ==
  /\ \A i \in DOMAIN hand : hand[i].into = "trips" =>
       i + 1 \in DOMAIN hand /\ hand[i + 1] = ToQueue(hand[i].step)
  /\ \A i, j \in DOMAIN hand : i < j /\ hand[i].into = "sync_queue" /\ hand[j].into = "sync_queue" =>
       Rank(hand[i].step) < Rank(hand[j].step)

\* The phone's trip is not past a step the phone does not know, no step is known before
\* those it follows, and a step that goes into the queue goes behind those.
KnowsTheWay ==
  /\ KnownUpTo(Level(local))
  /\ \A e \in Known : KnownUpTo(Rank(e))
  /\ \A e \in InHand : e \in Set(order) \cup Sent \/ \A d \in Set(order) : Rank(d) < Rank(e)

\* The queue is in the trip's order, but for steps that were sent before, and so is what is
\* left of a cycle's batch; what is completed, or about to be, was sent.
Sorted(s) == \A i, j \in DOMAIN s : i < j => Rank(s[i]) < Rank(s[j]) \/ s[j] \in Sent
QueueInOrder == Sorted(order) /\ Rows({"completed"}) \subseteq Sent
InOrder(c) == /\ KnownUpTo(Level(c.seen)) /\ KnownUpTo(Level(c.pulled.status))
              /\ Sorted(c.batch) /\ Set(c.batch) \subseteq Known
              /\ c.ok \subseteq Sent
CyclesInOrder == \A m \in Managers : InOrder(cycle[m])

OneDriver == ~moved /\ spent.crashes = 0
Way == OnTheWay /\ HandInOrder /\ KnowsTheWay /\ QueueInOrder /\ CyclesInOrder
WayInv == OneDriver => Way
\* The server's trip as one of the machine's.
TheTrip == INSTANCE TripMachine WITH
  Trips <- {"trip"},
  status <- [t \in {"trip"} |-> server.status],
  overridden <- [t \in {"trip"} |-> {}]

\* What the server makes of the posts, and what the others do to the trip, are steps of the
\* machine that its handlers implement (TripLifecycle).
ServerTakesMachineSteps == [][TheTrip!Next]_(TheTrip!vars)
-----------------------------------------------------------------------------
(* What the repository's comments say, and the code does not keep.         *)

\* push.ts 454-464: the rest of a trip's steps is deferred after a failure so
\* that none is "silently" dropped: they "recover together".
NoStepDropped == dropped = {}
=============================================================================
