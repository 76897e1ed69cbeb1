# Strawboss: a TLA+ verification project

Strawboss runs the logistics of straw bales: balers press bales on field
parcels, loaders put them on trucks, drivers carry them to a depot, a depot
operator confirms the delivery, and a dispatcher plans all of it. The programs
are a NestJS service over PostgreSQL (`src/backend/service`), an offline-first
phone application over SQLite (`src/apps/mobile`), an administration website
(`src/apps/admin-web`) and shared packages (`src/packages`, of which `domain`
holds the trip state machine).

These modules model what happens *between* statements: handlers of one trip that
read it, validate it and write it in separate statements; phones that carry steps
and records in a queue, through lost calls, killed apps and overlapping sync
cycles; what the server makes of their resends, and what a phone makes of the
server's pages; the transport by an outside haulier, which no constraint of the
database holds together; and the fleet, whose phones are handed versions, commands
and text messages in answers that may be lost. TLC checks small instances
and TLAPS proves the safety results for every value of the constants.

Paths below are relative to `src/`. `PROJECT.json` maps every definition to the
lines it models and lists runs, mutants, hazards, findings and theorems.

## Modules

| Module | What it is |
| --- | --- |
| `TripTransitions` | the statuses, the events and the transition table of `packages/domain/src/state-machines/trip.machine.ts` |
| `TripMachine` | abstract specification: one legal event at a time, or a recorded override |
| `TripLifecycle` | the handlers of `TripsService` and `BaleLoadsService.create`, statement by statement |
| `TripLifecycle_proofs` | theorems about `TripLifecycle`, with the refinement of `TripMachine` |
| `TransitionQueue` | a phone's trip steps: screens, `trip_transition` queue rows, sync cycles, pull, and the server's trip |
| `TransitionQueue_proofs` | theorems about `TransitionQueue` |
| `SyncPush` | one inserted record from the phone's queue through `POST /sync/push` to its table |
| `SyncPush_proofs` | theorems about `SyncPush` |
| `ParcelStock` | one field: its ledger of bales, who takes bales and how they are checked, its harvest status |
| `ParcelStock_proofs` | theorems about `ParcelStock` |
| `SyncPull` | the trips of one user from committed row to phone: versions, pages, the cursor |
| `SyncPull_proofs` | theorems about `SyncPull` |
| `AuxTransport` | one external transport: request, minted truck, truck board, trip, driver's link |
| `ExternalTrip` | abstract specification: what the trip of an external haulier promises to those who look at it |
| `AuxTransport_proofs` | theorems about `AuxTransport`, with the refinement of `ExternalTrip` |
| `OtaRollout` | how a version of the app reaches one phone |
| `OtaRollout_proofs` | theorems about `OtaRollout` |
| `SmsGateway` | text messages and debug commands on their way to the gateway phone and back |
| `SmsGateway_proofs` | theorems about `SmsGateway` |
| `MC...` | the sets the runs use |

`TripTransitions` is shared: `TripMachine`, `TripLifecycle` and `TransitionQueue`
extend it. `TripLifecycle` instantiates `TripMachine` (`ImplementsMachine`),
`AuxTransport` instantiates `ExternalTrip` (`ImplementsExternalTrip`), and
`TransitionQueue` relies on that result when it treats the server's handling of
one posted step as a single action; that this action is one of `TripMachine`'s is
`ServerTakesMachineSteps`. `SyncPull` has no queued steps and
`TransitionQueue` one trip and serial commits: the two divide the pull between them,
and neither property relies on what the other leaves out. The remaining modules share
no state: `AuxTransport` and `TripLifecycle` both have handlers of `trips`, for the
auxiliary trips and for the organisation's own.

## Inventory

For each part: the state it keeps, its operations, what is hard about it, and
what makes it correct. The status of each part is in `PROJECT.json`.

### Trips (server)

- **Trip state machine** (`packages/domain/src/state-machines/trip.machine.ts`). Ten
  statuses, thirteen events, a table of the events each status allows. Correct
  when every writer moves a trip along the table. Modelled: `TripTransitions`,
  `TripMachine`.
- **Lifecycle handlers** (`backend/service/src/trips/trips.service.ts`,
  `bale-loads/bale-loads.service.ts`). State: `trips` (status, nine timestamps,
  destination, `bale_count`, `deleted_at`), `bale_loads`, the BullMQ CMR queue.
  Operations: the thirteen events, the administrator's override, set-destination,
  soft delete, the upsert and cancellation that task assignments call, the sweep
  of stale plans, the creation of a load. Hard: every handler reads in one
  statement, validates, and writes in another, guarded by the status it read or
  not at all; sums are read before they are stored; the CMR job is queued after
  the commit. Correct when statuses only make machine steps, timestamps match the
  way a trip took, a completed trip gets its final document, `bale_count` agrees
  with the loads, and no status asserts goods nobody loaded. Modelled:
  `TripLifecycle`.
- **Auxiliary trips and public signing** (`trips.service.ts`, `transporter`). State: the
  trip, its token and whether it is spent, the pointers of the request and of the truck
  board to it. Operations: planning from the board, loading, the one-time link, the
  arrival document, the signature, taking back. Hard: each is several statements, the
  hand-over of a trip between two rows of the board two UPDATEs; a link is used
  twice. Correct when a request comes to one trip, a trip to one link and one
  document, and nothing closes without the document or reopens but by an override on
  record. Modelled: `AuxTransport`.
- **Recall and iterations** (`trips.service.ts`): a truck recalled mid-task gets
  a further trip under an advisory lock. The trips planned ahead are the action `Plan` of
  `ParcelStock`; recall is not modelled.

### Stock and planning (server)

- **Parcels and bale stock** (`parcels`, `bale-productions`, `bale-loads`). State:
  produced bales, loads, overrides, transfers; a parcel's remaining stock is a sum
  over them and its harvest status has a rank. Hard: a check of the remaining
  bales and the insert that takes them are separate statements, and two trucks
  load one parcel. Correct when nothing is taken twice and the harvest status never goes back.
  Modelled: `ParcelStock`.
- **Trip requests** (`trip-requests`): pending, confirmed, cancelled; confirming
  mints a one-time truck. Hard: two confirmations, a confirmation against a
  cancellation, a cancellation against a plan. `confirm`, `cancel` and `deleteAuxRequest`
  are in `AuxTransport`.
- **Task assignments** (`task-assignments`): a tree of placements per day, with an
  advisory lock around automatic ones only. The rows of auxiliary trucks are in
  `AuxTransport`; the loaders' rows and the cascade to *available* are not modelled.
- **Seasons** (`seasons`): closing snapshots and prunes a season while writes
  that passed the season guard are still on their way. Not modelled.

### The phone

- **Trip transition queue** (`apps/mobile/src/hooks/useTripTransition.ts`,
  `useDepotAction.ts`, `db/sync-queue-repo.ts`, `db/trips-repo.ts`, `sync/*`). State: the phone's trips,
  the rows of `sync_queue` (pending, in flight, failed, completed), the sync
  cursor. Operations: take a step, queue it, retry, and the stages of a sync
  cycle. Hard: each stage awaits; `syncInProgress` is a field of one `SyncManager`
  and there are several; a lost answer is not a failed call; the optimistic status
  must yield to the server's in the end. Correct when steps are applied once and
  in order, none is lost silently, and the phone comes to agree with the server.
  Modelled: `TransitionQueue`.
- **Record sync** (`sync/push.ts`, `sync/SyncManager.ts`, backend
  `sync/sync.service.ts`). State: a record's queue row, its table, and
  `sync_idempotency`. Hard: the record and the note that it was applied are two
  statements; a receipt is patched into a row that may have been sent. Correct
  when a row is completed only as a stored record. Modelled: `SyncPush`.
- **Delta pull** (`sync/SyncManager.ts`, `sync/conflict.ts`, backend
  `SyncService.pull`). State: `sync_version` of every row, the phone's copies, a cursor
  per table. Hard: `sync_version` is drawn before the commit, pages are cut, the cursor
  passes rows it could not apply, cycles overlap. Correct when what the server holds
  arrives. Modelled: `SyncPull`, and the merge with queued steps in `TransitionQueue`.

### Fleet and devices

- **Fleet** (`fleet`, `apps/mobile/src/lib/device-checkin.ts`, `SmsGatewayApp`): a device's
  check-in hands out OTA deployments, remote commands and SMS to send. State: deployments and a row of
  progress per device, command and message statuses; on the device a mirror of the
  deployment, queues of reports, the ids of commands run. Hard: a check-in is a dozen
  statements outside any transaction; a call whose connection broke goes on at the
  server beside the next; Android kills the app when it installs; a killed app may
  forget what it knew. Correct when the server believes in no install that did not
  happen, nobody is offered what they run, a message is sent once, a command answered.
  Modelled: `OtaRollout`, `SmsGateway`.
- **Geofence** (`geofence`): enter and exit with two radii, evaluated by a
  repeating job. **Location** (`location`): the phone's report buffer and the batch
  endpoint. **Notifications, alerts, messaging, reconciliation, feature flags**: not
  modelled, see the end.

### Left out for good

CMR rendering and uploads (files), meteo (fetched and displayed), accounts, auth,
organizations, profile and audit (single-statement CRUD behind guards), reports
and dashboard (read-only), the website and the phone's screens (clients; what
their requests do is in the server's modules).

### How the parts interact

```
 website ----REST---->  services  ----SQL---->  PostgreSQL
                          |   ^ \---BullMQ--->  CMR, sweep, geofence, messaging jobs
 phone screens            |   |
   | SQLite               |   | POST /trips/:id/<step>, POST /sync/push, POST /sync/pull
   v                      v   |
 sync_queue, trips  <--  SyncManager (one per screen that syncs, one in the background task)
 device agent  ------ check-in: OTA, commands, SMS, flags ------>  fleet
```

## TripLifecycle: handlers of one trip

A handler is up to four statements with anything in between. `req` holds the
handlers in flight: `Read` is `findById` with the validation, the action named
after the handler is its UPDATE, `QueueCmr` is the `cmrQueue.add` awaited after
the commit, `SumLoads` is the separate sum of `completeLoading`, `InsertBaleLoad`
and `RecountBales` are the two statements of `BaleLoadsService.create`, and
`Abandon` ends a handler early. `Move` is the guarded UPDATE
(`WHERE id = t AND status = from`). The transactions that lock the row first
(`RegisterLoad`) or are one guarded statement (`AutoCancelForTruckTask`,
`SweepStalePlannedTrips`) are single actions.

| Variable | In the code |
| --- | --- |
| `status`, `deleted`, `dest`, `baleCount` | columns of `trips` |
| `stamps` | which of the nine lifecycle timestamps are set |
| `ledger` | `SUM(bale_loads.bale_count)` over the trip's live rows |
| `cmr`, `lostCmr` | CMR jobs queued; jobs owed by a handler that died |
| `depotCount`, `overridden` | history: the count the operator confirmed; the statuses an administrator forced |

Abstracted: weights, signatures, notifications, GPS distances and names. Every
write of a `bale_load` is an insert: a handler that finds its idempotency key
already used answers without writing, so it is a stutter. A handler touches one trip, and the
only state two trips share is parcel stock: the stock check of `registerLoad` and the harvest
hooks of the handlers are in `ParcelStock`; so one trip in the runs
loses no interleaving, and the proofs are for any set of trips. Only own-fleet
trips are modelled.

What it says:

- `ImplementsMachine`: whatever interleaves, a trip's status makes only steps of
  `TripMachine`. `EvidenceComplete`: a trip nobody overrode carries the
  timestamps of every stage of the way, on the driver's path, the depot
  operator's, and any mix of them.
- `CompletedHasDocument`, `FinalDocumentQueued`: the stage-2 CMR of a completed
  trip is queued, owed or lost with a dead handler; and it is queued if handlers
  run to their end.
- `BaleCountCovered`: until the depot confirms a count, `bale_count` never claims
  more than the loads add up to, although `completeLoading` stores a sum it read
  earlier. `NoPhantomLoad`: no status asserts goods that were never loaded unless
  an administrator forced the trip to *disputed*.
- `DestinationFrozen`: once a trip that was never overridden has left, its
  destination does not change, though the depot steps write back one they
  resolved from an earlier read.

## TransitionQueue: a phone's steps

One phone, one trip. A step is named by its endpoint, a queue row by its step.
`hand` holds the writes a screen still has to do (`trips`, then `sync_queue`; the
depot screen the other way round). A `SyncManager`'s cycle is `Begin`
(`resetInFlight`, `purgeCompleted`), `Dequeue`, `MarkInFlight`, one post per row
of the batch (`PostApplied`, `PostNotAllowed`, `PostRefused`, `PostUnanswered`,
or `Defer` behind a failure), `MarkCompleted`, `MarkFailed`, and the pull:
`Fetch`, `FindLocal`, `CheckUnsent`, `Upsert`. `late` holds posts the phone gave
up on that may still reach the server. `Crash` keeps the tables and loses the rest.

Left out: the bodies of the steps, the *pending* badge, set-destination,
`register_load` and the other directly posted types, `clearFailed` and
`clearAll`. `enqueueOrUpdate`'s read and write, and the per-row statements of
`markFailed`, are one action each. A pull may fail as often as it likes when
`MaxLosses > 0`.

What it says:

- `InOrderOnce`: the server applies the phone's steps once each and in order,
  with two overlapping cycles, late posts and a dispatcher who cancels.
- `DroppedOnlyBehindAGap`: as long as nobody else moves the trip and the app is not
  killed, the first step taken for sent without having been applied sits behind an
  earlier step that was not in the batch. The run has one cycle, the theorem any number
  of them. The two ways in which that does happen are findings.
- `DueRowsGetAnswered`, `PhoneHeals`: a due row is answered for, crashes and
  lost calls notwithstanding; a phone with nothing unsent agrees, again and
  again, with the server about an open trip.

## SyncPush: a record's way to the server

One record of the tables the phone inserts into. The phone's cycle is `Begin`,
`FindReceipt` and `Patch` (`uploadPendingReceipts`, `updatePayload` with its bump
of `client_version`), `Dequeue`, `MarkInFlight`, `Post`, and `Settle`. The server's
`applyMutation` is `LookUp` or `Skip`, `Insert` or `Duplicate`, and `Note`: three
statements and no transaction, with `Die` between any two. `GiveUp` leaves the
call lost or running without its client. `Expire` is the cleanup of
`sync_idempotency`. `Undo`, `ClearFailed` and `PurgeStale` delete the row for other reasons than
that it is done; `dropped` records it. (`purgeStale` takes rows that failed more than ten
times, the last time a week ago; neither is counted here, so `PurgeStale` may come earlier.)

Left out: updates and deletes (no screen of the phone sends them), and the checks
that precede the lookup (table, uuid, feature, season, foreign keys): they refuse
every send of a record or none. `backfillMissingMachineIds` is not modelled.

What it says: `DoneMeansStored`, a row is completed, and leaves the queue, only as a stored
record, or it was taken back, cleared or given up, for any number of overlapping cycles; and
`DoneMeansUpToDate`, as long as no two cycles have overlapped a completed row is
stored with the content it has on the phone.

## SyncPull: what comes down to a phone

`Write` is `set_sync_version` drawing the row's version, `Commit` the end of its
transaction: in between, another row may draw a higher version and commit first.
`Matches` is the `versionFilter` with its arm for open trips, `Page` the order and the
limit. A cycle is `Begin` (`getLastVersions`), `Fetch`, one `Apply` or `ApplyFails` per
row of the page, updates before tombstones, and `Save` or `SaveFails`. `Die` kills the
app between any two.

`late`, `unapplied` and `disturbed` are history variables. They name the accidents that
do cost the phone a row: a commit out of order of a trip that is closed, a row
that could not be stored, and two cycles at once (or a first pull cut short, which
leaves the phone to derive a cursor from what it has). The properties say that nothing
else does.

What it says: `NothingPassedOver`, the phone has what its cursor has passed, and a lost
answer, a killed app or a cut page loses nothing; `OpenTripArrives`, an open trip comes
to be as it is on the server whatever happens; `HistoryArrives`, so does any other
that no accident befell, though open trips and tombstones keep coming in every page.
Assumed: a user has fewer open trips than a page has rows (1000). At that many the pinned
rows fill the page and nothing newer arrives.

## AuxTransport: one external transport

One request and what hangs on it. `job` holds the handlers: `confirm` is `BeginConfirm`,
`MintTruck`, `ConfirmRequest` and the automatic placement (`AssignTruck` under its
advisory lock, or `LeaveTruck`); `BeginPlace`, `BeginRewire`, `BeginSweep` are the other
ways to the board. Every placement ends in `autoUpsertFromTruckTask`: `ReadTask`,
`ReadRequest`, `Adopt`, `DetachTasks`, `AttachTask`, or `MintTrip` (one transaction),
`MoveTrip`, `PointToTrip`. Loading is one transaction; its side effects are `ClaimToken`,
`RetireTruck`, `SendLink`. `forceStatus` is `BeginForce` and then `RefuseForce` or
`ForceStatus`, to planned, loaded, completed or cancelled; what was forced on a trip is in
`forced`. `BeginRewire` puts a row under another loader, or under another truck, which may
have been retired since it was looked up. `BeginArrival` and `Arrive` are the new page, `Sign` and
`CompleteSigned` the old one. `Die` ends a handler between any two statements.

Abstracted: whether a loader matches is a choice; the status `loading` is `planned` here,
since every handler treats an auxiliary trip in either alike; whether an override is
refused (a trip without a load, a completion without document and reason, another
*expectedStatus*) is a choice, since loads and reasons are not modelled; the free place a new row,
truck or trip takes is fixed, since nothing tells them apart.

What it says: `LinkSentOnce`; `OneOpenTrip`, `OneClaim`,
`PointsToLiveTrip` (a request has one trip that waits to be loaded, one row claims it,
and the request shows a trip that is there; unless two plans, or a plan and a taking back,
crossed, which `raced` records; a trip that an administrator forced back to planned may be
there next to the one that took its place); `AutoPlacedOnce`; `SpentLinkCloses`, a
driver whose link is spent is not left with an open trip, unless the trip was forced back or
the handler that took the signature died (`orphans`); and `ImplementsExternalTrip`.

`ExternalTrip` is what a transport looks like from outside. It has no handlers: `stage` is
the status, `live` whether the trip is there, `linked` and `papers` how many links and
documents there were, `forced` the statuses an administrator forced. `StageOf` and `LiveOf` read the first two off the
row of the trip; the others are variables of both. It says in one place what several invariants
would say apart: a trip is planned once, loaded once, linked once and only after the load, signed
once, and completed on its document. An `Override` goes to any status, *completed* with no
document among them (the code asks for a reason: `trips.service.ts:2892`, comment at 1577), and
is on record: what the refinement says is that nothing else completes a trip without its document,
reopens a closed one or sends it any other way. `PaperOnce` (one document to a trip)
and `ClosedStaysClosed` follow from it; they have theorems of their own and need no run.
The token, the truck board, the request and who is at work are hidden in it; they are what the
other properties are about.

## OtaRollout: a version on its way to a phone

A deployment is named by its version code. `CreateDeployment`, `CancelDeployment`; the
activation job is `ReadDeployment`, `FlipToActive`, `FanOut`. A check-in at the server is
`Receive`, one `ApplyOtaReport` per report, `PickExisting` and `Settle` or `PickUnreached`
and `InsertRow`, and `Answer`. The phone's side is `Begin` to `WipeMirror`, one action per write
of the mirror or call that takes its time. `ConnectionBreaks` leaves the call to go on at the
server, or not to have reached it; `FinishInstall` and `RejectInstall` are Android,
which answers the app before it installs.

What it says: `InstalledMeansRuns`, the server believes only what the device's version
proves, although the app reports *installed* before Android is done;
`OfferIsNewer`, no phone works on what it runs or has passed, though its
offer may come from a check-in that is older than its install; `RolloutEnds`,
an active deployment ends on the phone and stays ended.

## SmsGateway: messages and commands

Two ways of handing out work, side by side. A message is claimed by the answer that
carries it (`ClaimSms`), a command goes out with every answer (`SelectCommands`, `MarkCommands`) until
it is reported. The app's poll is `Begin` to `SaveCmd`. `prefs` is what the process sees
of its SharedPreferences, `disk` what `apply()` has written (`Flush`): `Kill` falls back to it.
`Restart` starts a second loop beside one that is in the middle of a poll and only ends with it.
`sendSms` inserts a message and then finds out whether its channel is switched off: `Enqueue` and
`MarkFailed`, whose UPDATE looks at no status. `barred` has the messages that are between the two; such a
message may be claimed and sent, and end as *failed* all the same.

What it says: `SentOncePerRequest`, at most once for each time an administrator asked;
`RunAgainOnlyIfForgotten`, a repeated command is run again only by an app that was killed
before the id reached the disk, or two loops; `ReportedIsDone`, the server has no message as
*delivered* that was not handed to the SIM, and no command as *completed* that was not run, but
for one that a killed app noted down and did not get to; `CommandsAnswered`; and `MessagesReported`
where no connection is lost and nobody kills or restarts the app.

## ParcelStock: the bales of a field

One field of one organization. `produced` and `loaded` are the two sums of
`parcelBaleTally` (rows and adjustments); `harvest` is `parcels.harvest_status`,
with the five statuses before loading as one; `trip` has a trip's status as far as
a field is concerned, and `ours` the trips whose `source_parcel_id` the field is (a
load from the field may go on a trip planned for another one). `job` holds the
handlers at work. `registerLoad` is `LockTrip` or `OpenTrip`, `Tally`, `InsertLoad`
(the commit) and its hook; `complete` and `confirmDepotDelivery` are `Complete` and
the hook; a hook is `Recount`, `CompareRanks`, `Advance`, three statements after the
commit. `AskTransfer` and `TransferToDepot`, `ReadTotals`, `AdjustProduced` and
`AdjustLoaded` are the statements of `transferToDepot` and `overrideBales`. What is
locked is derived: a load holds the row of its trip (`Unlocked`), and one that opens
a trip the day's numbering lock (`DayLockFree`), which every other way of making a
trip waits for.

Left out: trucks (a load opens a trip if its truck has none today), seasons, midnight
(the numbering lock is per day), super administrators (they have a lock of their
own), and the rollback switch of the check.

What it says:

- `SerialLoadsFit`: what makes the check of the stock work is the lock taken to number
  a trip. As long as every load opens its trip, a field is not overdrawn.
- `OverdraftBounded`: where loads go on trips planned ahead, or bales are transferred,
  checks do pass side by side; the field is then overdrawn by at most a truck or
  transfer for each handler but one, unchecked changes of the ledger apart.
- `EmptiedFieldIsCompleted`: once all bales of a field have left on trips that were
  completed and every hook has run, the field is *completed*, however hooks overtook
  each other. `bypassed` names the ways out that run no hook: transfers, overrides,
  forced or cancelled trips, trips planned for another field, a hook whose process died.

## Runs

| Run | Instance | Shows |
| --- | --- | --- |
| `trip_lifecycle` | 1 trip, 2 handlers, 2 depots, 2 bales, no override, handlers may die, fair (943 thousand states) | timestamps, document, count and destination under every interleaving of two handlers; the final document is queued |
| `trip_override` | 1 trip, 2 handlers, 1 depot, 1 bale, 1 override; the machine's events, overrides and loads | the refinement, the inductive invariant, no phantom load |
| `transition_queue` | 1 cycle, arrive to complete, 1 loss, 1 retry | the only gap a step falls into |
| `transition_queue_depot` | 2 cycles, depot steps, refusals, 1 loss, 1 crash, a dispatcher, fair (317 thousand) | once and in order; the queue drains, the phone heals |
| `sync_push` | 2 cycles, receipt, 2 losses, 2 deaths, 4 retries; undo, clearing, purging (1.8 million) | completed means stored, and stored as it is on the phone unless cycles have overlapped; the inductive invariant |
| `sync_pull` | 3 trips, 2 cycles, pages of 2, 5 versions, 2 faults, fair (2.1 million) | the cursor passes over nothing; what the server holds arrives; the inductive invariant |
| `parcel_stock` | 2 handlers, 2 trips, loads and transfers of up to 2 bales, 2 bales pressed, 1 correction | what keeps checks of the stock apart, how far a field is overdrawn, emptied fields are completed; the inductive invariant |
| `aux_transport` | 2 trucks, 2 rows, 2 trips, 2 handlers at once and 4 in all, 1 death (2.9 million) | one link, one trip, what is spent closes; the refinement of `ExternalTrip`: one document, a completion without it, or a closed trip that reopens, is an override on record |
| `ota_rollout` | 1 deployment, 2 check-ins at once, 2 attempts, 1 fault, fair (830 thousand) | installed means installed, offers are news, rollouts end |
| `sms_gateway` | 1 message, 1 command, 2 check-ins, 2 loops, 1 retry, 1 toggle, 1 fault, the channel on or off, fair (1.0 million) | sent once, run once, reported only if done, answered |
| `queue_dropped` | as `transition_queue`, from depart | violated: see below |
| `aux_cancelled` | as `aux_transport`, no death | violated: see below |

Bounds, and why they suffice. Two handlers: the guards compare a status read with
the status now, and any interference a third handler could cause, a second one
can cause in several visits (slots are reused). Two depots: an old and a new
destination. `MaxBales = 2`, unit loads: one load to have, one to come in between.
`MaxOverrides = 1`: what an override breaks, one breaks; the proofs are for any.
One loss and one retry let a row fail once, be overtaken and be sent again; two
losses in `SyncPush` let the original and its correction both go unanswered, and
four retries let each be sent again. In `ParcelStock` two handlers are what it takes to
pass a check side by side, and two trips let hooks of two loads or deliveries overtake
each other; the two safety theorems are for any number. In `SyncPull` three trips and pages
of two are the least where a page is cut and the rest matters, five versions let two
trips be written again; two faults are an accident and a second one while the
phone recovers; its safety is proved for any number. In `AuxTransport` two handlers are what a
check and its write are apart by, and four jobs reach the end of the life of a transport (place, load,
sign) with one more to interfere; its properties are proved for any number of both. One deployment and one fault of any
kind are enough for what can hold up a rollout; several versions, and any number of faults, are
what `OtaRollout_proofs` covers. `Ops` restricts `trip_override` to the
commands that race with the machine alone. `CHECK_DEADLOCK FALSE` is said where
the system does stop: a deleted trip has no operation left, a row that is gone is
never sent again, a transport's jobs are used up. The other modules run with deadlock checking.

Fairness, and why the code justifies it. `TripLifecycle`: weak fairness of
`QueueCmr` alone, as the runtime continues an awaited call; nothing obliges a
user to do anything. `TransitionQueue`: weak fairness of `Record` (a screen that
has begun its writes finishes them) and of each manager's `Sync` (timers, network
changes and the background task start cycles, and a begun cycle's awaits return),
strong fairness of `Fetch` (a pull that is tried again and again gets through at
last). No user step, other user's move or loss is fair. `SyncPull`: a transaction ends, and
each cycle's `Sync` goes on and is begun again. `OtaRollout`: the server runs what it has
begun, the job is run by its queue, the phone's four timers keep checking in, Android ends
what it accepted; strong fairness of a check-in without an active trip, as a driver is now and then between trips
(with *forceNow* none is needed). `SmsGateway`: the server runs what it has begun, the poll
loop goes on, and the watchdog starts the service when it is down.

## Where code and comments part

Two `violation` runs find a behaviour of the code that contradicts what the
repository says. Lines and quotations are in `PROJECT.json`.

| Run | What happens |
| --- | --- |
| `queue_dropped` | "not allowed from status" is taken for success of a step the server never applied; with two managers it needs no lost call |
| `aux_cancelled` | a transport planned while its request is being cancelled stays, under a cancelled request and with a retired truck |

Known divergences of the same kind that the models also exhibit, one line each;
no run is spent on them and no property claims the contrary:

- An override refused by its `expectedStatus` commits the load it inserted
  (`trips.service.ts:2982`, comment at 2849).
- A refused step's row stays failed and counts as unsent: every later pull keeps the
  phone's status (`SyncManager.ts:439`, comment at `push.ts:409`).
- Two loads pass the check of the stock for the same bales: the tally takes no lock on the
  parcel (`trips.service.ts:1086`, comment at 1072); `OverdraftBounded` is what does hold.

- `forceStatus` looks for a load before its transaction: an override sent from a
  page without a load doubles the load the loader registered meanwhile
  (`trips.service.ts:2876`, comment at 2857).
- A dispatcher's delete commits on a trip that departed after the status check
  (`trips.service.ts:3971`, comment at 3945).
- A load synced after the depot's confirmation recounts over the operator's count
  (`bale-loads.service.ts:99`, `00053_depot_confirmation.sql:39`).
- A load registered during `completeLoading` is left out of `bale_count`
  (`trips.service.ts:833`); `BaleCountCovered` is what does hold.
- *disputed* needs no load, and resolving it delivers or completes the trip
  (`trips.service.ts:2867`); hence the exception in `NoPhantomLoad`.
- A step taken while a pull is being applied is overwritten by it
  (`SyncManager.ts:457`, comment at 434).
- The closing of a trip passes a phone that had a step unsent: the status is not
  taken, the cursor moves on, and a closed trip is not sent again
  (`SyncManager.ts:449`); hence *open* in `PhoneHeals`.
- A record that was stored when its call died is not noted in
  `sync_idempotency`: every resend fails on the primary key (`sync.service.ts:860`,
  `README.md:401`).
- A corrected payload fails on the primary key of its first version
  (`sync.service.ts:733`, comment at `sync-queue-repo.ts:253`).
- A record undone between a cycle's read and its send is sent
  (`SyncManager.ts:159`, comment at `sync-queue-repo.ts:355`).
- With two managers, a receipt patched into a row in flight never reaches the
  server (`SyncManager.ts:42`); hence `alone` in
  `DoneMeansUpToDate`.
- A transfer to a depot is checked outside its transaction and may overdraw the
  field (`parcels.service.ts:363`, comment at 329); two overrides to one target add
  up (`parcels.service.ts:287`, comment at 256).
- *all_delivered* fires on any completion that finds the stock empty, with other
  loads still on the road (`trips.service.ts:1970`, comment at
  `parcels.service.ts:28`); `EmptiedFieldIsCompleted` is what does hold.
- A completed or cancelled trip that commits after a higher version is never pulled
  (`sync.service.ts:1019`, comments at 885 and 1012); hence `late`. A row that could not be stored is passed by the
  cursor as soon as a later row of its page is stored (`SyncManager.ts:234`); hence `unapplied`.
- A driver taken off a planned trip keeps it on the phone: the pull is by the present
  driver, and no tombstone is sent (`trips.service.ts:3276`, `sync.service.ts:1018`).
- `cancelDeployment` between the job's read and its flip is undone (`fleet.service.ts:1823`).
- A *failed* download ends the deployment at the server at once (`fleet.service.ts:1189`), while the phone
  means to try again (`device-checkin.ts:691`); an install that Android rejects later wipes
  the count of attempts first, so that it may be tried without end (`device-checkin.ts:746`, comment at 656).
- A late report moves the row of an installed version back; the next check-in settles it again
  (`fleet.service.ts:1152`). A trip that begins during a download does not defer the install:
  the flag was read before the POST (`device-checkin.ts:712`).
- A text message whose answer is lost stays *sent*, and so does one whose app is killed between
  sending and `saveSmsReports` (`CheckinClient.kt:78`, `SmsGatewayApp/README.md:39`); hence
  the condition of `MessagesReported`. A command whose app was killed between `addExecutedId` and running it is
  acknowledged as a success (`CheckinClient.kt:88`).
- A record whose sends failed more than ten times is deleted from the queue a week later, stored or not
  (`sync-queue-repo.ts:320`; `season-prune.ts:153` says so); hence `dropped` in `DoneMeansStored`.
- A trip forced back to *loaded* or *planned* after its link was spent has nothing but another override to
  complete it: the link is not renewed (`trips.service.ts:1454`); hence `ForcedBack` in `SpentLinkCloses`.
- A command the app does not know is refused with a failure (`CheckinClient.kt:104`), and a repeat of it is
  acknowledged as a success like any other (`CheckinClient.kt:88`). `Ran` counts it as run once it was refused; the
  run has no such command, the theorem any.
- Two confirmations mint two trucks, and a confirmation revives a request that was cancelled meanwhile
  (`trip-requests.service.ts:417`); a load may be registered on a plan that is being taken back.

## What is proved

`TripLifecycle_proofs`, for any sets of trips, slots, depots and sizes and any bounds,
from `TripLifecycleAssumption` (sizes are positive naturals, bounds are naturals,
NULL is no trip, depot or size, and there is a depot):

- `TypeCorrect`: `Spec => []TypeOK`.
- `InductiveInvariant`: `Spec => []IInv`. `EvidenceComplete`,
  `CompletedHasDocument` and `BaleCountCovered` are not inductive alone: that a
  commit is legal depends on what its handler has read. `InFlightValid` says that
  a handler in flight validated the status it read, and that the load count it
  remembers can only have been outgrown; with the compare-and-set of `Move`, the
  event is then legal at the commit too. `LoadBehindStatus` extends
  `NoPhantomLoad` to *disputed*, which a resolved dispute comes from. TLC checks `IInv` first
  (`trip_override`). The proof has one lemma per group of actions and one step
  per action.
- `EvidenceTheorem`, `DocumentTheorem`, `BaleCountTheorem`, `NoPhantomTheorem`:
  the invariants of the runs, from `IInv`.
- `Refinement`: `Spec => ImplementsMachine`. Initial states map to initial
  states; each commit is a `Fire`, the depot's confirmation a
  `ConfirmAndComplete`, an override an `Override`, and all else stutters.
- `ResolvedTheorem`, `FrozenTheorem`: `DepotResolved` and with it `DestinationFrozen`. A depot's
  handler resolves the depot from one read and writes it under a compare-and-set of the
  status alone. That is enough because a trip does not come back to a status before it is delivered:
  `Progress` only grows without an override, so a trip found in the status that was read has not been
  through another depot's step since.
- `EndsTheorem`: `Spec => EndsHold`. A cancelled trip stays cancelled, and a completed one leaves for a
  dispute only, unless the override is on record. It needs no invariant but the one under the refinement: by
  `MachineStep` every step is a step of `TripMachine`, and `EndsAccept` says what the table has at its ends.
  No run checks it, as the table's ends are in the refinement that `trip_override` checks.

`SyncPush_proofs`, for any managers and bounds, from `SyncPushAssumption`:

- `InductiveInvariant`: `Spec => []IInv`. `DoneMeansStored` needs
  `NotedMeansStored`: a send is in `sync_idempotency`, or about to be, only once
  its record is in the table. That is what makes *skipped* as good as *applied*,
  also when the same row is on its way twice.
- `DoneTheorem`: `Spec => []DoneMeansStored`.
- `UpToDateTheorem`: `Spec => []DoneMeansUpToDate`. Here it matters which contents a send had.
  `SaysWhatItHolds`: a version tells the contents apart, of the row, of what a cycle read, of a call
  and of the server's note, so a *skipped* is about this content and not an earlier one.
  `AwaitedCall`: a cycle waits for one call, with what it read. `Undisturbed`: while no cycles have overlapped,
  what a cycle read is what the row still says, since the one patch there is comes before
  the cycle reads the row, and a row is *completed* only while no cycle runs.

`ParcelStock_proofs`, for any handlers, trips and sizes, from `ParcelStockAssumption`
(finitely many handlers and at least one; a truck takes a positive number of bales and
no more than the largest amount considered):

- `InductiveInvariant`: `Spec => []IInv`. `OneAtATime` ties the day's lock to the
  handlers between check and commit. `OverdraftCovered` counts: since the last check
  that was passed, every commit has taken one handler out of `Passed` and at most
  `Largest` bales off the ledger. `CalmStep` covers all steps of handlers with no
  bales in hand, `PassCovers` and `TakeCovers` the two kinds that have.
- `SerialTheorem`, `OverdraftTheorem`: the two invariants of the run.
- `NoticedTheorem`, `EmptiedTheorem`: `EmptiedFieldIsCompleted`, from `EmptiedIsNoticed`. An empty field is either
  still on a trip's way, or a completion's hook is between its recount and its write, or the field has
  moved; and the write cannot be undone, since the trigger lets no hook take the harvest status back.

`OtaRollout_proofs`, for any deployments, handlers and bounds, from `OtaRolloutAssumption`
(versions are positive naturals, at least one attempt):

- `Invariant`: `Spec => []IInv`. `InstalledMeansRuns` is not inductive alone: the
  server settles rows by the version a check-in was sent with, so `HeardOfNothingNewer`
  says that none is ahead of the phone. For `OfferIsNewer` the offer must still be
  newer when it is received: `AwaitedIsCurrent`, the only call that the phone still waits for was sent
  by the version it runs, since an install kills the app and the call with it, and
  `PicksAreNewer`, a pick is newer than its call's version.
- `TypeCorrect`, `InstalledIsTrue`, `NeverBackwards`: its parts. The type includes that attempts stay
  within `MAX_INSTALL_ATTEMPTS`, which needs `AttemptLeft`.

`SyncPull_proofs`, for any finite set of trips, any cycles, page size and bounds, from
`SyncPullAssumption`:

- `Invariant`: `Spec => []IInv`. The heart is `Owed`: every row the pull is about to pass
  is settled or still in its page. It needs that versions are drawn once
  (`VersionsAreDrawn`), that what a page and a cursor hold was committed (`SeenIsCommitted`, which bounds
  the cursor by the newest row), that pages are cut at the top (`Page` is closed downwards), and that
  a row which changed since it was read is ahead of the cursor again unless it was
  committed late (`PageIsNews`). Fetching needs the most: that a row with a version
  up to some row of the page is in the page, which is the order and the limit of the query.
- `NothingIsPassedOver`, `TypeCorrect`: its consequences.

`AuxTransport_proofs`, for any trucks, rows of the board, handlers and bounds, from
`AuxTransportAssumption` (None is no truck, row or trip; bounds are naturals):

- `Invariant`: `Spec => []IInv`. `OneLink` is why the link is sent once: a trip's token
  is set before anyone is at work on its link, one handler at most is, and none is
  once the link was sent. `LoadedBeforeLink` lets nobody be linked, or sign, before the load (unless an override took the
  trip back to planned), so that a load never meets a spent link; `SignatureCompletes` names the handler that still owes a spent
  link its completion, with the status it read. `MintedInOrder` and `JobsFit` say that trips are
  numbered by age and handlers are about trips that exist, which is what makes a new trip one
  nobody is at work on. The proof covers the steps that touch no link and no signature at once
  (`CalmStep`), and has a lemma for each of the others.
- `LinkTheorem`, `PlacedTheorem`, `SpentTheorem`, `TypeCorrect`: properties of the run. `PaperTheorem`,
  `ClosedTheorem`: `PaperOnce` and `ClosedStaysClosed`, which the run checks as part of the refinement.
- `PaperInvariant`: `Spec => []CompletedOnPaper`. Whoever is about to complete a trip has its document, and
  so has every completed trip on which *completed* was not forced. What makes it inductive is that documents only accumulate (`PapersStay`) and that
  the only handlers that come to be about to complete are those that have just signed (`NextCompletedOnPaper`).
- `ExternalRefinement`: `Spec => ImplementsExternalTrip`, that is, initial states map to initial states and every step
  maps to a step of `ExternalTrip` or a stutter. The arrival document is a `Deliver`, a signature a `Sign` and its
  second statement a `Complete` or nothing; deleting a trip, a request or a row of the board is a `Withdraw`
  of all that were withdrawn at once. The mapped step is legal for different reasons: `SendLink` because of
  `OneLink` and `LoadedBeforeLink`, `Sign` and `Deliver` because a spent link and a document go together, `Complete`
  because of `CompletedOnPaper`, `Plan` because of `MintedInOrder`. An override is an `Override` whatever the
  trip has become; after one, `SendLink` and `Sign` may find the trip in the status that was forced (`Stands`).
- `PlanInvariant`: `Spec => []Planned`, the invariant of the plan, which holds until a plan crosses another
  or a trip that is taken back (`raced`). One planner is at work (`OnePlans`) and is about to mint a
  trip only while none is open but those that were forced back to planned; a row is given a trip only after every other row was detached from it, one
  statement earlier (`OneRowEach`); and the pointer is about to be set only to a trip that is there
  (`PointsAhead`), which is why a planner that dies between any two of its statements leaves nothing that the next plan
  does not put right.
- `OpenTripTheorem`, `ClaimTheorem`, `PointerTheorem`: `OneOpenTrip`, `OneClaim` and `PointsToLiveTrip` from it.

`SmsGateway_proofs`, for any messages, commands, check-ins, loops and bounds, from
`SmsGatewayAssumption` (the app knows some of the commands; bounds are naturals):

- `Invariant`: `Spec => []IInv`, of two halves. `SendsCounted` counts for each message the
  sends made, the answers and the polls it is on its way in, and the claim still due: together
  no more than its requests. `OneWaits` keeps an answer from reaching two loops, which
  would count it twice; `InHand` says that an answer and a poll that are over hold no message.
  `BatchIsFresh` says that a loop alone with its batch has looked up every id the app
  knows of, and that the command it is about to run was not run or is forgotten; `Alone`, that
  without a restart no second loop can note an id in between. The proof
  treats the steps that move no message (`StillKeeps`, `StillCounts`) and those that run nothing
  (`CalmRuns`) at once.
- `SendTheorem`, `RunTheorem`, `TypeCorrect`: its consequences.
- `TruthTheorem`: `Spec => []Truthful`. A success passes through many hands before the server has it: a list
  and a queue in memory, the same on disk, the batch of a loop, a call and its handler, where it may outlive the
  loop that sent it. `SaidSent` and `SaidRun` name all of them at once, and the proof shows that no step says anything that
  was not said before, except `SendSms`, which has sent, and `AddExecuted`, which is about to run. A copy is never
  more than what it copies, and a kill falls back to what was once in memory.
- `ReportedTheorem`: `ReportedIsDone`, its last link. The weaker half, that a command may be *completed* and never
  run once an app was killed, is how the code is: it notes the id before it runs the command.

`TransitionQueue_proofs`, for any SyncManagers, steps, events of other users and
bounds, from `TransitionQueueAssumption`:

- `OrderTheorem`: `Spec => []InOrderOnce`. The invariant, `AppliedIsBehind`, says that the trip is
  at or past every step applied: the queue and its cycles do not matter, since each way to the
  server goes through `Accepts`. A dispute may be resolved back to *delivered*, after
  which a step may rightly be applied again; this is why the theorem supposes there is none.
- `QueueInvariant`, `TypeCorrect`: `Spec => []QueueInv` and with it `TypeOK`. That no cycle answers for a row
  twice needs that the row is in its batch once (`OneAnswerEach`), thus in the queue once (`OneRowEach`): the
  row of a step is looked up by its dedup key and updated, and only a purged one is written anew.
- `WayInvariant`: `Spec => []WayInv`, for a driver's phone that holds the trip before its unloading begins
  (`DriversPhone`), while nobody else moves the trip and the app is not killed. `OnTheWay`: the server is where the
  last step applied took it. `KnowsTheWay`: what the phone knows (rows, writes its screen still owes, steps
  sent) is closed under "comes before", and no status it holds or a cycle has read is ahead of
  that; so a pull that puts an old status back, and a step tapped again because of it, do no
  harm. `QueueInOrder` and `InOrder`: the ids of the rows, and every batch, follow the trip's order, but for
  steps that were sent before.
- `DroppedTheorem`: `Spec => DroppedOnlyBehindAGap`. If all earlier steps are in the batch or applied, those in the
  batch stand before the step, and as nothing of this cycle failed (`Blocked`) they were sent, hence applied; so the
  server is one step before and does not answer "not allowed". That the app is not killed is needed:
  killed between its two writes, the screen leaves *arrive* to be queued without *depart*, and a pull that writes the
  old status back lets the user queue *depart* behind it, in the same batch.

- `MachineTheorem`: `Spec => ServerTakesMachineSteps`, the composition with `TripLifecycle`: its `Refinement`
  shows that the handlers, statement by statement, implement `TripMachine`, and this theorem that what
  `TransitionQueue` lets the server do in one step is a step of `TripMachine`, the depot's confirmation with its
  completion included. (`TripMachine`'s initial state is left out: the phone may first hold a trip in any status.)

The order of a queue under a filter (`Only`, the `WHERE` of the queue's queries) is
defined by a recursive function. `LeastOne`, that a set of naturals has a least one, stands in for
the induction rules that the provers cannot instantiate: `OnlyTakes` looks at the
least prefix on which a claim would fail.

Model-checked only: liveness (`FinalDocumentQueued`, `DueRowsGetAnswered`, `PhoneHeals`, `RolloutEnds`,
`CommandsAnswered`, `MessagesReported`, `OpenTripArrives`, `HistoryArrives`), which is out of the prover's
reach. Every other property of the passing runs is a theorem. No module uses a recursive operator.

## Not modelled

- The own fleet's statuses on an auxiliary trip: a dispute, a departure or an override to one of them,
  which no screen offers; rows of the board moved to a truck of the organisation's own.
- `recallTruck` and the further trips it plans; corrections of a request's fields, and their effect on the
  trip planned from it; how loaders are matched to a transport.
- The other tables of the pull: the same code, most of them without an arm for open rows, so
  that only `HistoryArrives` would hold of them; the seasons the phone prunes.
- Record updates and deletes in `POST /sync/push`, which no screen sends.
- `seasons`: a close copies and prunes some twenty tables under one lock; what could go wrong is which
  rows each query takes, and a model of it would be the queries again.
- `geofence` and `location`: which side of a radius a machine is on, dwell times,
  routes and distances are geometry and clocks.
- Device tokens, registration and Tailscale; the local HTTP server of the gateway app.
- Notifications, alerts, messaging, reconciliation, feature flags: single guarded
  statements, templates, and pure sums with tests of their own.
- The website, the screens, plugins and translations, which are most of the repository's lines: they
  are clients of the API and keep no state the server relies on. This is why
  the map covers the services and the phone's data layer and little of the whole.

## What could follow

Recall and iterations next to `AuxTransport`; the device's token.
