------------------------------ MODULE SyncPush ------------------------------
(***************************************************************************)
(* One record saved in the field (a fuel log with a receipt photo, a bale  *)
(* production, a consumable log) on its way from the phone's sync_queue to *)
(* its table on the server, where sync_idempotency remembers which sends   *)
(* have been applied.                                                      *)
(*                                                                         *)
(* On the phone a sync cycle resets and purges the queue, uploads a        *)
(* missing receipt and patches the row with its address, then dequeues,    *)
(* posts and marks the row.  On the server applyMutation looks the send    *)
(* up, inserts the record and notes the send, in three statements and no   *)
(* transaction.  Calls are lost or outlive the client's patience, the      *)
(* server dies between statements, idempotency rows expire, the user       *)
(* retries, undoes and clears, and several SyncManagers may be at work.    *)
(*                                                                         *)
(* The phone only sends inserts through this path.  The checks before the  *)
(* lookup (table, uuid, feature, season, foreign keys) either refuse every *)
(* send of a record or none, and are left out.                             *)
(***************************************************************************)
EXTENDS Naturals

CONSTANTS
  Managers,    \* the SyncManager instances of the app
  HasReceipt,  \* whether the record has a photo to upload
  MaxLosses,   \* bound: how many posts get no answer in time
  MaxDeaths,   \* bound: how often a call's server process dies
  MaxRetries,  \* bound: how often the user taps retry
  Nobody       \* the client of a call that has given up waiting

ASSUME SyncPushAssumption ==
  /\ HasReceipt \in BOOLEAN
  /\ MaxLosses \in Nat /\ MaxDeaths \in Nat /\ MaxRetries \in Nat
  /\ Nobody \notin Managers

VARIABLES
  row,      \* the record's row in sync_queue
  dropped,  \* history: whether the row was deleted with no regard to the server
  alone,    \* history: whether no two sync cycles have overlapped
  cycle,    \* where each SyncManager is in its sync cycle
  calls,    \* the POST /sync/push calls the server is working on
  stored,   \* the record in its table on the server
  idem,     \* sync_idempotency: the client_versions of this record noted as applied
  spent     \* how much of the bounds is used up

vars == <<row, dropped, alone, cycle, calls, stored, idem, spent>>

\* What a payload says, as far as a correction changes it.
Content == {"bare", "with_receipt"}
None == "none"

RowStatus == {"pending", "in_flight", "failed", "completed", "gone"}
Call == [by : Managers \cup {Nobody}, at : {"lookup", "insert", "note"},
         content : Content, version : Nat]

Idle == [pc |-> "idle", content |-> "bare", version |-> 0]

Init == /\ row = [status |-> "pending", content |-> "bare", version |-> 0]
        /\ dropped = FALSE
        /\ alone = TRUE
        /\ cycle = [m \in Managers |-> Idle]
        /\ calls = {}
        /\ stored = None
        /\ idem = {}
        /\ spent = [losses |-> 0, deaths |-> 0, retries |-> 0]
-----------------------------------------------------------------------------
(* The user.                                                               *)

\* deletePendingEntry: the undo of a saved record, only while it is pending.
Undo == /\ row.status = "pending"
        /\ row' = [row EXCEPT !.status = "gone"]
        /\ dropped' = TRUE
        /\ UNCHANGED <<alone, cycle, calls, stored, idem, spent>>

\* retry, retryAllFailed.
Retry == /\ row.status = "failed"
         /\ spent.retries < MaxRetries
         /\ spent' = [spent EXCEPT !.retries = @ + 1]
         /\ row' = [row EXCEPT !.status = "pending"]
         /\ UNCHANGED <<dropped, alone, cycle, calls, stored, idem>>
\* clearFailed: the user clears the queue of the rows that have failed, and of those
\* that are done.  (No screen calls clearAll.)
ClearFailed == /\ row.status \in {"failed", "completed"}
               /\ row' = [row EXCEPT !.status = "gone"]
               /\ dropped' = (dropped \/ row.status = "failed")
               /\ UNCHANGED <<alone, cycle, calls, stored, idem, spent>>

\* purgeStale, at the end of a cycle: a row that failed more than ten times, the last
\* time a week ago, is given up.  (Neither is counted here.)
PurgeStale == /\ row.status = "failed"
              /\ row' = [row EXCEPT !.status = "gone"]
              /\ dropped' = TRUE
              /\ UNCHANGED <<alone, cycle, calls, stored, idem, spent>>
-----------------------------------------------------------------------------
(* A sync cycle on the phone.                                              *)

At(m, pc) == cycle[m].pc = pc
GoTo(m, pc) == cycle' = [cycle EXCEPT ![m].pc = pc]

\* A statement that names the row by id does nothing once the row is deleted.
SetStatus(s) == row' = IF row.status = "gone" THEN row ELSE [row EXCEPT !.status = s]

\* resetInFlight, then purgeCompleted.
Begin(m) == /\ At(m, "idle")
            /\ row.status # "gone"
            /\ row' = [row EXCEPT !.status = CASE @ = "completed" -> "gone"
                                               [] @ = "in_flight" -> "pending"
                                               [] OTHER           -> @]
            /\ alone' = (alone /\ \A n \in Managers : At(n, "idle"))
            /\ GoTo(m, "upload")
            /\ UNCHANGED <<dropped, calls, stored, idem, spent>>

\* uploadPendingReceipts: a pending row without a receipt gets its photo
\* uploaded first; a failed upload is tried again in the next cycle.
FindReceipt(m) ==
  /\ At(m, "upload")
  /\ \/ /\ HasReceipt /\ row.status = "pending" /\ row.content = "bare"
        /\ GoTo(m, "patch")
     \/ GoTo(m, "dequeue")
  /\ UNCHANGED <<row, dropped, alone, calls, stored, idem, spent>>

\* (mutant) The patched payload goes out under the version it had.
PatchSameVersion(m) ==
  /\ At(m, "patch")
  /\ row' = IF row.status = "gone" THEN row ELSE [row EXCEPT !.content = "with_receipt"]
  /\ GoTo(m, "dequeue")
  /\ UNCHANGED <<dropped, alone, calls, stored, idem, spent>>

\* updatePayload: by id, whatever the row's status; bumps client_version.
Patch(m) ==
  /\ At(m, "patch")
  /\ row' = IF row.status = "gone" THEN row
            ELSE [row EXCEPT !.content = "with_receipt", !.version = @ + 1]
  /\ GoTo(m, "dequeue")
  /\ UNCHANGED <<dropped, alone, calls, stored, idem, spent>>

\* The cycle holds the row as it was read here to the end.
Dequeue(m) ==
  /\ At(m, "dequeue")
  /\ cycle' = [cycle EXCEPT ![m] = IF row.status = "pending"
                                   THEN [pc |-> "mark", content |-> row.content, version |-> row.version]
                                   ELSE Idle]
  /\ UNCHANGED <<row, dropped, alone, calls, stored, idem, spent>>

MarkInFlight(m) == /\ At(m, "mark")
                   /\ SetStatus("in_flight")
                   /\ GoTo(m, "post")
                   /\ UNCHANGED <<dropped, alone, calls, stored, idem, spent>>

Post(m) == /\ At(m, "post")
           /\ calls' = calls \cup {[by |-> m, at |-> "lookup", content |-> cycle[m].content,
                                    version |-> cycle[m].version]}
           /\ GoTo(m, "wait")
           /\ UNCHANGED <<row, dropped, alone, stored, idem, spent>>

\* The client gives up: the call never got there, or goes on without it.
GiveUp(m) == /\ At(m, "wait")
             /\ spent.losses < MaxLosses
             /\ spent' = [spent EXCEPT !.losses = @ + 1]
             /\ \E c \in calls :
                  /\ c.by = m
                  /\ calls' \in {calls \ {c}, (calls \ {c}) \cup {[c EXCEPT !.by = Nobody]}}
             /\ GoTo(m, "failed")
             /\ UNCHANGED <<row, dropped, alone, stored, idem>>

\* (mutant) Every row of the batch is marked completed.
SettleAsCompleted(m) == /\ cycle[m].pc \in {"completed", "failed"}
                        /\ SetStatus("completed")
                        /\ cycle' = [cycle EXCEPT ![m] = Idle]
                        /\ UNCHANGED <<dropped, alone, calls, stored, idem, spent>>

\* markCompleted or markFailed, by id.
Settle(m) == /\ cycle[m].pc \in {"completed", "failed"}
             /\ SetStatus(cycle[m].pc)
             /\ cycle' = [cycle EXCEPT ![m] = Idle]
             /\ UNCHANGED <<dropped, alone, calls, stored, idem, spent>>
-----------------------------------------------------------------------------
(* applyMutation on the server.                                            *)

Work(c, at) == calls' = (calls \ {c}) \cup {[c EXCEPT !.at = at]}
Answer(c, result) ==
  /\ calls' = calls \ {c}
  /\ cycle' = IF c.by = Nobody THEN cycle ELSE [cycle EXCEPT ![c.by].pc = result]

\* "skipped" completes the row just as "applied" does.
Skip(c) == /\ c.at = "lookup"
           /\ c.version \in idem
           /\ Answer(c, "completed")
           /\ UNCHANGED <<row, dropped, alone, stored, idem, spent>>

\* (mutant) The send is noted before its record is in the table.
LookUpAndNote(c) == /\ c.at = "lookup"
                    /\ c.version \notin idem
                    /\ idem' = idem \cup {c.version}
                    /\ Work(c, "insert")
                    /\ UNCHANGED <<row, dropped, alone, cycle, stored, spent>>

LookUp(c) == /\ c.at = "lookup"
             /\ c.version \notin idem
             /\ Work(c, "insert")
             /\ UNCHANGED <<row, dropped, alone, cycle, stored, idem, spent>>

Insert(c) == /\ c.at = "insert"
             /\ stored = None
             /\ stored' = c.content
             /\ Work(c, "note")
             /\ UNCHANGED <<row, dropped, alone, cycle, idem, spent>>

\* The primary key is taken: the INSERT throws and the send has failed.
Duplicate(c) == /\ c.at = "insert"
                /\ stored # None
                /\ Answer(c, "failed")
                /\ UNCHANGED <<row, dropped, alone, stored, idem, spent>>

Note(c) == /\ c.at = "note"
           /\ idem' = idem \cup {c.version}
           /\ Answer(c, "completed")
           /\ UNCHANGED <<row, dropped, alone, stored, spent>>

\* The process dies between two statements; the client gets no answer.
Die(c) == /\ spent.deaths < MaxDeaths
          /\ spent' = [spent EXCEPT !.deaths = @ + 1]
          /\ Answer(c, "failed")
          /\ UNCHANGED <<row, dropped, alone, stored, idem>>

\* sync-cleanup: rows older than 30 days go.
Expire == /\ idem # {}
          /\ idem' = {}
          /\ UNCHANGED <<row, dropped, alone, cycle, calls, stored, spent>>

Serve(c) == Skip(c) \/ LookUp(c) \/ Insert(c) \/ Duplicate(c) \/ Note(c) \/ Die(c)

Sync(m) == \/ Begin(m) \/ FindReceipt(m) \/ Patch(m) \/ Dequeue(m)
           \/ MarkInFlight(m) \/ Post(m) \/ GiveUp(m) \/ Settle(m)

Discard == Undo \/ ClearFailed \/ PurgeStale

Next == \/ Discard \/ Retry \/ Expire
        \/ \E m \in Managers : Sync(m)
        \/ \E c \in calls : Serve(c)

Spec == Init /\ [][Next]_vars
-----------------------------------------------------------------------------
TypeOK ==
  /\ row \in [status : RowStatus, content : Content, version : Nat]
  /\ dropped \in BOOLEAN
  /\ alone \in BOOLEAN
  /\ cycle \in [Managers -> [pc : {"idle", "upload", "patch", "dequeue", "mark", "post",
                                   "wait", "completed", "failed"},
                             content : Content, version : Nat]]
  /\ calls \subseteq Call
  /\ stored \in Content \cup {None}
  /\ idem \subseteq Nat
  /\ spent \in [losses : 0..MaxLosses, deaths : 0..MaxDeaths, retries : 0..MaxRetries]

\* A row is completed only as a record the server has, and leaves the queue only
\* as such, or because it was taken back, cleared or given up, however many cycles,
\* calls and retries overlap (the results loop of pushMutations, purgeCompleted, the
\* lookup of applyMutation).
DoneMeansStored == row.status \in {"completed", "gone"} => dropped \/ stored # None

\* As long as no two cycles have overlapped, a completed row is on the server
\* with the content it has on the phone: no correction is answered by an older
\* send's idempotency row (the client_version bump of updatePayload).
DoneMeansUpToDate == alone /\ row.status = "completed" => stored = row.content

\* A send is noted only once its record is in the table, and a call is about to
\* note a send only then: what makes "skipped" as good as "applied".
NotedMeansStored ==
  /\ idem # {} => stored # None
  /\ \A c \in calls : c.at = "note" => stored # None
  /\ \A m \in Managers : At(m, "completed") => stored # None

\* Whether a version goes with a content: the one patch there is bumps it.
Says(version, content) == version = 0 <=> content = "bare"

\* The row, what was read of it and what was sent of it go with their versions; so does
\* the record in the table with every send that is noted, or about to be.
SaysWhatItHolds ==
  /\ Says(row.version, row.content)
  /\ \A m \in Managers : Says(cycle[m].version, cycle[m].content)
  /\ \A c \in calls : Says(c.version, c.content)
  /\ \A v \in idem : Says(v, stored)
  /\ \A c \in calls : c.at = "note" => stored = c.content
  /\ \A m \in Managers : At(m, "completed") => stored = cycle[m].content

\* A call that is waited for is the only one its cycle waits for, and its own.
AwaitedCall ==
  /\ \A c \in calls : c.by # Nobody =>
       /\ At(c.by, "wait")
       /\ c.content = cycle[c.by].content /\ c.version = cycle[c.by].version
  /\ \A c, d \in calls : c.by = d.by /\ c.by # Nobody => c = d

\* As long as no two cycles have overlapped, what a cycle has read of the row is what
\* the row says, and a row is completed only between two cycles.
Reading == {"mark", "post", "wait", "completed", "failed"}
Undisturbed == alone =>
  /\ \A m, n \in Managers : ~At(m, "idle") /\ ~At(n, "idle") => m = n
  /\ \A m \in Managers : cycle[m].pc \in Reading => cycle[m].content = row.content
  /\ row.status = "completed" => /\ \A m \in Managers : At(m, "idle")
                                 /\ stored = row.content

Stores == TypeOK /\ NotedMeansStored /\ DoneMeansStored
IInv == Stores /\ SaysWhatItHolds /\ AwaitedCall /\ Undisturbed
=============================================================================
