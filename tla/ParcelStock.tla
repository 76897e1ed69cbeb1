---------------------------- MODULE ParcelStock ----------------------------
(***************************************************************************)
(* The bales of one field: the ledger that says how many were pressed and  *)
(* how many have left, the trips that carry them, and the harvest status   *)
(* the loads and deliveries move up the ladder.                            *)
(*                                                                         *)
(* Who takes bales checks first, and what keeps two checks apart differs:  *)
(* a load that opens a trip holds the day's numbering lock from before its *)
(* check until its commit, a load on a trip planned ahead holds that       *)
(* trip's row alone, a transfer to a depot checks before its transaction   *)
(* begins, and administrators, bale_loads posted directly and loads of     *)
(* auxiliary trucks are not checked at all.                                *)
(*                                                                         *)
(* A trip's status is kept as far as a field is concerned (TripLifecycle   *)
(* has the rest).  Trucks are left out: a load opens a trip when its truck *)
(* has none today.  Seasons do not change, and the check of the stock is   *)
(* switched on (STRAWBOSS_BALE_VALIDATION_ENABLED).                        *)
(***************************************************************************)
EXTENDS Integers, FiniteSets

CONSTANTS
  Slots,           \* the handlers that can be at work at once
  Trips,           \* the trips there can be
  NoTrip,          \* the trip of a handler that has none
  Capacity,        \* the most bales a truck takes
  Largest,         \* bound: the most bales one transfer or unchecked load takes
  MaxBales,        \* bound: bales pressed, and the targets an administrator sets
  MaxCorrections   \* bound: unchecked changes of the ledger

ASSUME ParcelStockAssumption ==
  /\ IsFiniteSet(Slots) /\ Slots # {}
  /\ NoTrip \notin Trips
  /\ Capacity \in Nat \ {0} /\ Largest \in Nat /\ Capacity <= Largest
  /\ MaxBales \in Nat /\ MaxCorrections \in Nat

VARIABLES
  produced,   \* bale_productions plus the 'produced' adjustments
  loaded,     \* bale_loads plus the 'loaded' adjustments
  harvest,    \* parcels.harvest_status
  trip,       \* each trip's status
  ours,       \* the trips whose source_parcel_id is this field
  job,        \* the handler in each slot
  unchecked,  \* history: bales taken off the ledger without a check
  serial,     \* history: whether all who take bales have opened their own trip
  bypassed,   \* history: whether bales have left by a way that runs no hook
  spent       \* how many corrections have been made

vars == <<produced, loaded, harvest, trip, ours, job, unchecked, serial, bypassed, spent>>
ledger == <<produced, loaded, unchecked>>

\* harvest_status_rank; the five statuses before any loading are one.
Rank == [standing |-> 0, in_loading |-> 1, loaded |-> 2, completed |-> 3]
Harvest == DOMAIN Rank

TripStatus == {"unused", "planned", "loading", "on_the_road", "done"}
Open == {"planned", "loading"}

Idle == [at |-> "idle", trip |-> NoTrip, count |-> 0, other |-> 0, goal |-> "standing"]
Places == {"idle", "tally", "insert", "recount", "rank", "advance",
           "transfer", "adjust_produced", "adjust_loaded"}
Job == [at : Places, trip : Trips \cup {NoTrip}, count : Int, other : Int, goal : Harvest]

Init == /\ produced = 0 /\ loaded = 0 /\ unchecked = 0
        /\ harvest = "standing"
        /\ trip = [t \in Trips |-> "unused"]
        /\ ours = {}
        /\ job = [h \in Slots |-> Idle]
        /\ serial = TRUE /\ bypassed = FALSE
        /\ spent = 0
-----------------------------------------------------------------------------
At(h, place) == job[h].at = place
Begin(h, place, t, goal) ==
  job' = [job EXCEPT ![h] = [at |-> place, trip |-> t, count |-> 0, other |-> 0, goal |-> goal]]
GoTo(h, place) == job' = [job EXCEPT ![h].at = place]
End(h) == job' = [job EXCEPT ![h] = Idle]

\* parcelBaleTally.
Remaining == IF loaded < produced THEN produced - loaded ELSE 0

\* The transactions of registerLoad: the trip they hold FOR UPDATE, or have
\* inserted and not committed, and with it the day's lock of generateTripNumber.
Loading(h) == job[h].at \in {"tally", "insert"}
Unlocked(t) == \A h \in Slots : Loading(h) => job[h].trip # t
Opening(h) == Loading(h) /\ trip[job[h].trip] = "unused"
DayLockFree == \A h \in Slots : ~Opening(h)
-----------------------------------------------------------------------------
(* registerLoad.                                                           *)

LockTrip(h, t) == /\ At(h, "idle")
                  /\ trip[t] \in Open /\ Unlocked(t)
                  /\ Begin(h, "tally", t, "loaded")
                  /\ serial' = FALSE
                  /\ UNCHANGED <<ledger, harvest, trip, ours, bypassed, spent>>

\* (mutant) The trip is numbered without the day's lock.
OpenTripUnlocked(h, t) == /\ At(h, "idle")
                          /\ trip[t] = "unused" /\ Unlocked(t)
                          /\ Begin(h, "tally", t, "loaded")
                          /\ UNCHANGED <<ledger, harvest, trip, ours, serial, bypassed, spent>>

OpenTrip(h, t) == /\ At(h, "idle")
                  /\ trip[t] = "unused" /\ Unlocked(t)
                  /\ DayLockFree
                  /\ Begin(h, "tally", t, "loaded")
                  /\ UNCHANGED <<ledger, harvest, trip, ours, serial, bypassed, spent>>

\* (mutant) Only an empty field refuses a load.
TallyEmpty(h) == /\ At(h, "tally")
                 /\ \E n \in 1..Capacity :
                      /\ 0 < Remaining
                      /\ job' = [job EXCEPT ![h].at = "insert", ![h].count = n]
                 /\ UNCHANGED <<ledger, harvest, trip, ours, serial, bypassed, spent>>

Tally(h) == /\ At(h, "tally")
            /\ \E n \in 1..Capacity :
                 /\ n <= Remaining
                 /\ job' = [job EXCEPT ![h].at = "insert", ![h].count = n]
            /\ UNCHANGED <<ledger, harvest, trip, ours, serial, bypassed, spent>>

\* The bale_loads row and the trip's move, committed together.
InsertLoad(h) ==
  /\ At(h, "insert")
  /\ loaded' = loaded + job[h].count
  /\ trip' = [trip EXCEPT ![job[h].trip] = "on_the_road"]
  /\ ours' = IF Opening(h) THEN ours \cup {job[h].trip} ELSE ours
  /\ bypassed' = (bypassed \/ job[h].trip \notin ours')
  /\ Begin(h, "recount", NoTrip, "loaded")
  /\ UNCHANGED <<produced, unchecked, harvest, serial, spent>>
-----------------------------------------------------------------------------
(* The hooks that move the field up its ladder, after the commit.          *)

Recount(h) == /\ At(h, "recount")
              /\ IF Remaining <= 0 THEN GoTo(h, "rank") ELSE End(h)
              /\ UNCHANGED <<ledger, harvest, trip, ours, serial, bypassed, spent>>

\* advanceHarvestOnLoadEvent: the status is read and ranked, then written.
CompareRanks(h) == /\ At(h, "rank")
                   /\ IF Rank[job[h].goal] > Rank[harvest] THEN GoTo(h, "advance") ELSE End(h)
                   /\ UNCHANGED <<ledger, harvest, trip, ours, serial, bypassed, spent>>

\* (mutant) There is no trigger.
AdvanceUnguarded(h) == /\ At(h, "advance")
                       /\ harvest' = job[h].goal
                       /\ End(h)
                       /\ UNCHANGED <<ledger, trip, ours, serial, bypassed, spent>>

\* prevent_harvest_status_downgrade refuses a write from behind.
Advance(h) == /\ At(h, "advance")
              /\ harvest' = IF Rank[job[h].goal] < Rank[harvest] THEN harvest ELSE job[h].goal
              /\ End(h)
              /\ UNCHANGED <<ledger, trip, ours, serial, bypassed, spent>>

\* A handler dies: an open transaction is rolled back, a hook does not run.
Die(h) == /\ ~At(h, "idle")
          /\ bypassed' = (bypassed \/ job[h].goal = "completed")
          /\ End(h)
          /\ UNCHANGED <<ledger, harvest, trip, ours, serial, spent>>
-----------------------------------------------------------------------------
(* Trips.                                                                  *)

Set(t, s) == trip' = [trip EXCEPT ![t] = s]

\* create, autoUpsertFromTruckTask, createNextIteration.
Plan(t) == /\ trip[t] = "unused" /\ Unlocked(t)
           /\ DayLockFree
           /\ Set(t, "planned")
           /\ ours' \in {ours, ours \cup {t}}
           /\ UNCHANGED <<ledger, harvest, job, serial, bypassed, spent>>

StartLoading(h, t) ==
  /\ At(h, "idle")
  /\ trip[t] = "planned" /\ Unlocked(t)
  /\ Set(t, "loading")
  /\ IF t \in ours THEN Begin(h, "rank", NoTrip, "in_loading") ELSE UNCHANGED job
  /\ UNCHANGED <<ledger, harvest, ours, serial, bypassed, spent>>

CompleteLoading(t) == /\ trip[t] = "loading" /\ Unlocked(t)
                      /\ Set(t, "on_the_road")
                      /\ UNCHANGED <<ledger, harvest, ours, job, serial, bypassed, spent>>

\* complete, confirmDepotDelivery, each with runPostCompleteHooks.
Complete(h, t) ==
  /\ At(h, "idle")
  /\ trip[t] = "on_the_road"
  /\ Set(t, "done")
  /\ IF t \in ours THEN Begin(h, "recount", NoTrip, "completed") ELSE UNCHANGED job
  /\ UNCHANGED <<ledger, harvest, ours, serial, bypassed, spent>>

\* cancel, softDelete, resolveDispute, forceStatus: no hook runs.
ForceStatus(t) == /\ trip[t] # "unused" /\ Unlocked(t)
                  /\ \E s \in TripStatus \ {"unused"} : Set(t, s)
                  /\ bypassed' = TRUE
                  /\ UNCHANGED <<ledger, harvest, ours, job, serial, spent>>
-----------------------------------------------------------------------------
(* The ledger.                                                             *)

Correct == spent < MaxCorrections /\ spent' = spent + 1

\* bale_productions, from the baler's screen or a confirmed parcel.
Produce == /\ \E n \in 1..MaxBales : produced + n <= MaxBales /\ produced' = produced + n
           /\ UNCHANGED <<loaded, unchecked, harvest, trip, ours, job, serial, bypassed, spent>>

\* BaleProductionsService.softDelete.
DropProduction == /\ Correct
                  /\ \E n \in 1..produced : /\ produced' = produced - n
                                            /\ unchecked' = unchecked + n
                  /\ bypassed' = TRUE
                  /\ UNCHANGED <<loaded, harvest, trip, ours, job, serial>>

\* BaleLoadsService.create, registerAuxiliaryLoad, forceStatus with a load.
AddLoad(t) == /\ Correct
              /\ trip[t] # "unused" /\ Unlocked(t)
              /\ \E n \in 1..Largest : /\ loaded' = loaded + n
                                       /\ unchecked' = unchecked + n
              /\ bypassed' = (bypassed \/ t \notin ours \/ trip[t] = "done")
              /\ UNCHANGED <<produced, harvest, trip, ours, job, serial>>

\* transferToDepot: the availability is read, then the transaction begins.
AskTransfer(h) == /\ At(h, "idle")
                  /\ \E n \in 1..Largest :
                       /\ n <= produced - loaded
                       /\ job' = [job EXCEPT ![h].at = "transfer", ![h].count = n]
                  /\ serial' = FALSE
                  /\ UNCHANGED <<ledger, harvest, trip, ours, bypassed, spent>>

TransferToDepot(h, t) == /\ At(h, "transfer")
                         /\ trip[t] = "unused" /\ Unlocked(t)
                         /\ DayLockFree
                         /\ loaded' = loaded + job[h].count
                         /\ Set(t, "done")
                         /\ ours' = ours \cup {t}
                         /\ bypassed' = TRUE
                         /\ End(h)
                         /\ UNCHANGED <<produced, unchecked, harvest, serial, spent>>

\* overrideBales: the totals are read, then each difference is appended.  A
\* target left out of the request is the total itself.
ReadTotals(h) == /\ At(h, "idle")
                 /\ Correct
                 /\ \E p \in (0..MaxBales) \cup {produced}, l \in (0..MaxBales) \cup {loaded} :
                      job' = [job EXCEPT ![h].at = "adjust_produced",
                                         ![h].count = p - produced, ![h].other = l - loaded]
                 /\ UNCHANGED <<ledger, harvest, trip, ours, serial, bypassed>>

Positive(n) == IF 0 < n THEN n ELSE 0

AdjustProduced(h) == /\ At(h, "adjust_produced")
                     /\ produced' = produced + job[h].count
                     /\ unchecked' = unchecked + Positive(-job[h].count)
                     /\ bypassed' = TRUE
                     /\ job' = [job EXCEPT ![h].at = "adjust_loaded", ![h].count = 0]
                     /\ UNCHANGED <<loaded, harvest, trip, ours, serial, spent>>

AdjustLoaded(h) == /\ At(h, "adjust_loaded")
                   /\ loaded' = loaded + job[h].other
                   /\ unchecked' = unchecked + Positive(job[h].other)
                   /\ End(h)
                   /\ UNCHANGED <<produced, harvest, trip, ours, serial, bypassed, spent>>

\* ParcelsService.update, behind the trigger.  The daily plan and the balers
\* write only statuses before loading, which change nothing here.
SetHarvest == /\ \E s \in Harvest : Rank[harvest] <= Rank[s] /\ harvest' = s
              /\ UNCHANGED <<ledger, trip, ours, job, serial, bypassed, spent>>
-----------------------------------------------------------------------------
Hook(h) == Recount(h) \/ CompareRanks(h) \/ Advance(h)

Take(h) == \/ Tally(h) \/ InsertLoad(h) \/ AskTransfer(h)
           \/ \E t \in Trips : LockTrip(h, t) \/ OpenTrip(h, t) \/ TransferToDepot(h, t)

Move == \E t \in Trips :
          \/ Plan(t) \/ CompleteLoading(t) \/ ForceStatus(t) \/ AddLoad(t)
          \/ \E h \in Slots : StartLoading(h, t) \/ Complete(h, t)

Adjust(h) == ReadTotals(h) \/ AdjustProduced(h) \/ AdjustLoaded(h)

Next == \/ \E h \in Slots : Take(h) \/ Hook(h) \/ Adjust(h) \/ Die(h)
        \/ Move \/ Produce \/ DropProduction \/ SetHarvest

Spec == Init /\ [][Next]_vars
-----------------------------------------------------------------------------
TypeOK ==
  /\ produced \in Int /\ loaded \in Int /\ unchecked \in Nat
  /\ harvest \in Harvest
  /\ trip \in [Trips -> TripStatus]
  /\ ours \subseteq Trips
  /\ job \in [Slots -> Job]
  /\ serial \in BOOLEAN /\ bypassed \in BOOLEAN
  /\ spent \in Nat

\* What checked loads and transfers have left of the bales.
Left == produced - loaded + unchecked

\* As long as every load has opened its own trip, the check of registerLoad and
\* its INSERT are as good as one step: the day's lock, taken to number the trip,
\* keeps the checks apart, and the field is not overdrawn.
SerialLoadsFit == serial => 0 <= Left

\* Whatever interleaves, the field is overdrawn by no more than the others at
\* work beside one loader can take: one truck or transfer each (the checks of
\* registerLoad and transferToDepot).
OverdraftBounded == -(Largest * (Cardinality(Slots) - 1)) <= Left

\* A field whose bales have all left on trips that were completed, and where no
\* hook is still to run, is completed, however the hooks of the loads and of the
\* deliveries overtook each other (runPostCompleteHooks, the trigger).
EmptiedFieldIsCompleted ==
  (/\ 0 < loaded /\ Remaining = 0
   /\ \A h \in Slots : At(h, "idle")
   /\ \A t \in Trips : trip[t] \in {"unused", "done"}
   /\ ~bypassed) => harvest = "completed"
-----------------------------------------------------------------------------
\* The handlers whose check has been passed and whose bales are still to go.
Passed == {h \in Slots : job[h].at \in {"insert", "transfer"}}

\* At most one handler holds the day's lock, and as long as all loads open their
\* trips, only its holder is between its check and its commit.
OneAtATime ==
  /\ \A g, h \in Slots : Opening(g) /\ Opening(h) => g = h
  /\ \A h \in Slots : Loading(h) => job[h].trip \in Trips
  /\ serial => \A h \in Slots :
       /\ job[h].at # "transfer"
       /\ Loading(h) => Opening(h)
       /\ At(h, "insert") => job[h].count <= Left

\* Since the last check that was passed every commit has taken its handler out of
\* Passed; the one that passed it either is still in Passed, its bales covered
\* but for what the others have taken since, or has taken them.
OverdraftCovered ==
  /\ \A h \in Passed : job[h].count \in 1..Largest
  /\ \/ \E h \in Passed :
          job[h].count - Largest * (Cardinality(Slots) - Cardinality(Passed)) <= Left
     \/ -(Largest * (Cardinality(Slots) - 1 - Cardinality(Passed))) <= Left

IInv == TypeOK /\ OneAtATime /\ SerialLoadsFit /\ OverdraftCovered

\* Bales that left by a way that runs the hooks left on a trip of this field that is
\* still to be completed, or whose completion has its hook to run, or has moved the
\* field; and a hook that finds bales left after all is followed by the load of these.
Carrying == {t \in ours : trip[t] \in {"planned", "loading", "on_the_road"}}
Completing == {h \in Slots : job[h].goal = "completed" /\ job[h].at \in {"recount", "rank", "advance"}}
EmptiedIsNoticed ==
  /\ \A h \in Slots : At(h, "adjust_loaded") => bypassed
  /\ ~bypassed /\ 0 < loaded /\ produced <= loaded =>
       harvest = "completed" \/ Carrying # {} \/ Completing # {}
=============================================================================
