------------------------------ MODULE SyncPull ------------------------------
(***************************************************************************)
(* How the trips of one user come down to the user's phone: the trips table, *)
(* where every write draws the next value of one sequence before it commits, *)
(* POST /sync/pull, which answers with a page of what is newer than the      *)
(* phone's cursor or still open, and the sync cycles of the phone, which     *)
(* apply the page row by row and then save the cursor.                       *)
(*                                                                           *)
(* The screens and the background task have a SyncManager each, so two       *)
(* cycles may be under way at once.  Left out: the other tables (they are    *)
(* pulled by the same code, most of them without the arm for open rows), the *)
(* steps the phone has queued and the statuses it shows ahead of the server  *)
(* (module TransitionQueue), and the seasons the phone prunes.               *)
(***************************************************************************)
EXTENDS Integers, FiniteSets, FiniteSetsExt, Functions

CONSTANTS
  Trips,
  Cycles,        \* the sync cycles that may be under way at once
  Limit,         \* LIMIT 1000
  MaxVersion,    \* bound: how often the sequence is drawn from
  MaxFaults      \* bound: how many cycles begin next to another, pulls are lost,
                 \* rows not applied, cursors not saved, and how often the app is killed

ASSUME SyncPullAssumption ==
  /\ IsFiniteSet(Trips)
  /\ Limit \in Nat \ {0}
  /\ MaxVersion \in Nat /\ MaxVersion >= Cardinality(Trips)
  /\ MaxFaults \in Nat

VARIABLES
  drawn,      \* the last value of sync_version_seq
  table,      \* the trips as committed
  writing,    \* the version of each trip that a transaction has yet to commit
  phone,      \* the phone's trips
  cursor,     \* sync_cursors, 0 before it is first saved
  cycle,      \* the sync cycles of the phone
  late,       \* history: the trips committed after a higher version had been
  unapplied,  \* history: the trips whose last row the phone failed to store
  disturbed,  \* history: two cycles have been under way at once, or a pull was
              \* cut short before the first cursor was saved
  faults

server == <<drawn, table, writing, late>>
local == <<phone, cursor>>
vars == <<server, local, cycle, unapplied, disturbed, faults>>

\* A row of the table; version 0 stands for no row.  "open" is any status but
\* completed and cancelled.
NoRow == [version |-> 0, open |-> FALSE, deleted |-> FALSE]
NoCopy == [version |-> 0, open |-> FALSE]
Resting == [pc |-> "idle", since |-> 0, page |-> {}, highest |-> 0]

\* A fresh install, of a user who may have driven before: which of the trips is
\* the older makes no difference.
Stamps == CHOOSE f \in Bijection(Trips, 1..Cardinality(Trips)) : TRUE
History(old) == [t \in Trips |-> IF t \in old
                  THEN [version |-> Stamps[t], open |-> FALSE, deleted |-> FALSE] ELSE NoRow]

Init == /\ drawn = Cardinality(Trips)
        /\ \E old \in SUBSET Trips : table = History(old)
        /\ writing = [t \in Trips |-> NoRow]
        /\ phone = [t \in Trips |-> NoCopy]
        /\ cursor = 0
        /\ cycle = [c \in Cycles |-> Resting]
        /\ late = {}
        /\ unapplied = {}
        /\ disturbed = FALSE
        /\ faults = 0
-----------------------------------------------------------------------------
(* The table.  A transaction holds its row until it commits or aborts.      *)

\* set_sync_version stamps the row when it is written, not when it commits.  A row
\* is inserted open, and once deleted it is not written again.  The user never has
\* as many open trips as a page has rows (deleted ones count: they are pulled too).
Write(t) ==
  /\ writing[t] = NoRow
  /\ ~table[t].deleted
  /\ drawn < MaxVersion
  /\ \E open, deleted \in BOOLEAN :
       /\ table[t] = NoRow => open /\ ~deleted
       /\ open => Cardinality({u \in Trips \ {t} : table[u].open \/ writing[u].open}) + 1 < Limit
       /\ writing' = [writing EXCEPT ![t] = [version |-> drawn + 1, open |-> open,
                                             deleted |-> deleted]]
  /\ drawn' = drawn + 1
  /\ UNCHANGED <<table, late, local, cycle, unapplied, disturbed, faults>>

Commit(t) ==
  /\ writing[t] # NoRow
  /\ table' = [table EXCEPT ![t] = writing[t]]
  /\ writing' = [writing EXCEPT ![t] = NoRow]
  /\ late' = IF \E u \in Trips : table[u].version > writing[t].version
             THEN late \cup {t} ELSE late \ {t}
  /\ UNCHANGED <<drawn, local, cycle, unapplied, disturbed, faults>>

Abort(t) ==
  /\ writing[t] # NoRow
  /\ writing' = [writing EXCEPT ![t] = NoRow]
  /\ UNCHANGED <<drawn, table, late, local, cycle, unapplied, disturbed, faults>>
-----------------------------------------------------------------------------
(* The pull.                                                                *)

At(c, pc) == cycle[c].pc = pc
Alone(c) == \A d \in Cycles \ {c} : At(d, "idle")

\* getLastVersions: the saved cursor, or else the newest row the phone holds.
Since == IF cursor # 0 THEN cursor ELSE Max({phone[t].version : t \in Trips} \cup {0})

Begin(c) ==
  /\ At(c, "idle")
  /\ ~Alone(c) => faults < MaxFaults
  /\ faults' = IF Alone(c) THEN faults ELSE faults + 1
  /\ disturbed' = (disturbed \/ ~Alone(c))
  /\ cycle' = [cycle EXCEPT ![c] = [Resting EXCEPT !.pc = "ask", !.since = Since]]
  /\ UNCHANGED <<server, local, unapplied>>

\* (mutant) The delta goes by the version alone.
MatchesByVersion(since) == {t \in Trips : table[t].version > since}

\* (mutant) The cursor is taken for the first version not seen yet.
MatchesAfterNext(since) == {t \in Trips : table[t].version > since + 1 \/ table[t].open}

\* (mutant) Deleted rows are filtered out, as they are for a client without
\* tombstones.
MatchesLive(since) ==
  {t \in Trips : ~table[t].deleted /\ (table[t].version > since \/ table[t].open)}

\* The versionFilter.
Matches(since) == {t \in Trips : table[t].version > since \/ table[t].open}

\* (mutant) The page has the newest rows.
PageOfNewest(since) ==
  {t \in Matches(since) :
     Cardinality({u \in Matches(since) : table[u].version > table[t].version}) < Limit}

\* ORDER BY sync_version LIMIT 1000.
Page(since) ==
  {t \in Matches(since) :
     Cardinality({u \in Matches(since) : table[u].version < table[t].version}) < Limit}

\* The answer, updates and tombstones; an empty one ends the cycle.
Fetch(c) ==
  LET page == {[trip |-> t, row |-> table[t]] : t \in Page(cycle[c].since)} IN
  /\ At(c, "ask")
  /\ cycle' = [cycle EXCEPT ![c] = IF page = {} THEN Resting
                                   ELSE [Resting EXCEPT !.pc = "apply", !.page = page]]
  /\ UNCHANGED <<server, local, unapplied, disturbed, faults>>

\* The pull is refused, or its answer is lost.
FetchNothing(c) ==
  /\ At(c, "ask")
  /\ faults < MaxFaults
  /\ faults' = faults + 1
  /\ cycle' = [cycle EXCEPT ![c] = Resting]
  /\ UNCHANGED <<server, local, unapplied, disturbed>>

\* Updates come before tombstones, and each of them in the order of the page.
Before(r, s) == IF r.row.deleted = s.row.deleted THEN r.row.version < s.row.version
                                                 ELSE s.row.deleted
First(page) == {r \in page : \A s \in page \ {r} : Before(r, s)}

Copy(row) == IF row.deleted THEN NoCopy ELSE [version |-> row.version, open |-> row.open]

\* applyUpdate and applyTombstone: the server's row replaces the phone's, whatever
\* version that has, and only then does it count for the cursor.
Apply(c) == \E r \in First(cycle[c].page) :
  /\ At(c, "apply")
  /\ phone' = [phone EXCEPT ![r.trip] = Copy(r.row)]
  /\ unapplied' = unapplied \ {r.trip}
  /\ cycle' = [cycle EXCEPT ![c].page = @ \ {r}, ![c].highest = Max({@, r.row.version})]
  /\ UNCHANGED <<server, cursor, disturbed, faults>>

\* A row that cannot be stored is reported and left behind; the page goes on.
ApplyFails(c) == \E r \in First(cycle[c].page) :
  /\ At(c, "apply")
  /\ faults < MaxFaults
  /\ faults' = faults + 1
  /\ unapplied' = unapplied \cup {r.trip}
  /\ cycle' = [cycle EXCEPT ![c].page = @ \ {r}]
  /\ UNCHANGED <<server, local, disturbed>>

\* The cursor moves to the highest row applied, and never back.
Save(c) ==
  /\ At(c, "apply")
  /\ cycle[c].page = {}
  /\ cursor' = Max({cursor, cycle[c].highest})
  /\ cycle' = [cycle EXCEPT ![c] = Resting]
  /\ UNCHANGED <<server, phone, unapplied, disturbed, faults>>

\* Or it cannot be written, which is "non-fatal".
SaveFails(c) ==
  /\ At(c, "apply")
  /\ cycle[c].page = {}
  /\ faults < MaxFaults
  /\ faults' = faults + 1
  /\ cycle' = [cycle EXCEPT ![c] = Resting]
  /\ disturbed' = (disturbed \/ cursor = 0)
  /\ UNCHANGED <<server, local, unapplied>>

\* The app is killed, and every cycle with it.
Die ==
  /\ faults < MaxFaults
  /\ faults' = faults + 1
  /\ \E c \in Cycles : ~At(c, "idle")
  /\ cycle' = [c \in Cycles |-> Resting]
  /\ disturbed' = (disturbed \/ cursor = 0)
  /\ UNCHANGED <<server, local, unapplied>>
-----------------------------------------------------------------------------
End(t) == Commit(t) \/ Abort(t)
Sync(c) == Begin(c) \/ Fetch(c) \/ Apply(c) \/ Save(c)
Fault(c) == FetchNothing(c) \/ ApplyFails(c) \/ SaveFails(c)

Next == \/ \E t \in Trips : Write(t) \/ End(t)
        \/ \E c \in Cycles : Sync(c) \/ Fault(c)
        \/ Die

Spec == Init /\ [][Next]_vars

\* Transactions end, and the phone keeps syncing.
Fairness == /\ \A t \in Trips : WF_vars(End(t))
            /\ \A c \in Cycles : WF_vars(Sync(c))
FairSpec == Spec /\ Fairness
-----------------------------------------------------------------------------
Row == [version : 0..MaxVersion, open : BOOLEAN, deleted : BOOLEAN]
CycleState == [pc : {"idle", "ask", "apply"}, since : 0..MaxVersion,
               page : SUBSET [trip : Trips, row : Row], highest : 0..MaxVersion]

TypeOK ==
  /\ drawn \in 0..MaxVersion
  /\ table \in [Trips -> Row]
  /\ writing \in [Trips -> Row]
  /\ phone \in [Trips -> [version : 0..MaxVersion, open : BOOLEAN]]
  /\ cursor \in 0..MaxVersion
  /\ cycle \in [Cycles -> CycleState]
  /\ late \subseteq Trips /\ unapplied \subseteq Trips
  /\ disturbed \in BOOLEAN
  /\ faults \in 0..MaxFaults

UpToDate(t) == phone[t] = Copy(table[t])

\* Between two cycles, the phone has every row of the user's that its cursor has
\* passed, unless the row is one the next pull brings anyway, was committed after a
\* higher version, could not be stored, or cycles disturbed each other: a lost answer,
\* a killed app or a page that is cut at LIMIT loses nothing (sync.service.ts
\* 1018-1085, SyncManager.ts 200-265).
Settled(t) == UpToDate(t) \/ table[t].open \/ t \in late \cup unapplied
NothingPassedOver ==
  ~disturbed /\ (\A c \in Cycles : At(c, "idle")) =>
    \A t \in Trips : table[t].version \in 1..Since => Settled(t)

\* An open trip, deleted or not, comes to be on the phone as it is on the server,
\* out-of-order commits, failed rows, overlapping cycles and a killed app
\* notwithstanding (the arm "OR status NOT IN ...", sync.service.ts 1019).
OpenTripArrives ==
  \A t \in Trips : <>[](table[t].open => UpToDate(t))

\* So does any other, unless one of those accidents has befallen it: the pinned rows
\* and the tombstones that keep coming do not hold it up (sync-cursors-repo.ts 1-13).
HistoryArrives ==
  \A t \in Trips :
    <>[](~disturbed /\ t \notin late \cup unapplied => UpToDate(t))
-----------------------------------------------------------------------------
\* Why it holds.  Versions are drawn once, and what the phone has seen was committed.
VersionsAreDrawn ==
  \A t \in Trips :
    /\ table[t].version <= drawn /\ writing[t].version <= drawn
    /\ table[t].version = 0 => table[t] = NoRow
    /\ writing[t] # NoRow => writing[t].version > table[t].version
    /\ \A u \in Trips \ {t} : writing[t] # NoRow =>
         writing[t].version # table[u].version /\ writing[t].version # writing[u].version
Committed(v) == v = 0 \/ \E t \in Trips : v <= table[t].version
SeenIsCommitted ==
  /\ Committed(cursor)
  /\ \A c \in Cycles :
       /\ Committed(cycle[c].highest)
       /\ \A r \in cycle[c].page : r.row.version \in 1..table[r.trip].version
       /\ ~At(c, "apply") => cycle[c].page = {} /\ cycle[c].highest = 0

\* A pull that nothing disturbs has the phone to itself, and starts from its cursor.
Pulls(c) == ~At(c, "idle")
OnePull == \A c, d \in Cycles : Pulls(c) /\ Pulls(d) => c = d
StartsFromCursor == \A c \in Cycles : At(c, "ask") => cycle[c].since = cursor
FirstPullIsFirst ==
  cursor = 0 /\ (\A c \in Cycles : cycle[c].highest = 0) => \A t \in Trips : phone[t] = NoCopy

\* The pull is about to take the cursor past a row only if the row is in its page
\* or settled; and a row that has changed since it was put there is past that again.
Passed(t) == \/ table[t].version <= cursor
             \/ \E c \in Cycles : \/ table[t].version <= cycle[c].highest
                                 \/ \E r \in cycle[c].page : table[t].version <= r.row.version
Owed == \A t \in Trips : table[t].version > 0 /\ Passed(t) =>
          Settled(t) \/ \E c \in Cycles : [trip |-> t, row |-> table[t]] \in cycle[c].page
PageIsNews ==
  \A c \in Cycles : \A r \in cycle[c].page :
    /\ r.row.version > cursor \/ r.row.open
    /\ table[r.trip] = r.row \/ r.trip \in late \/ ~Passed(r.trip)

Undisturbed == OnePull /\ StartsFromCursor /\ FirstPullIsFirst /\ Owed /\ PageIsNews

IInv == TypeOK /\ VersionsAreDrawn /\ SeenIsCommitted /\ (~disturbed => Undisturbed)
=============================================================================
