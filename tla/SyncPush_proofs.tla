--------------------------- MODULE SyncPush_proofs ---------------------------
(***************************************************************************)
(* Proofs about SyncPush, for any number of sync cycles, calls, losses and *)
(* retries.                                                                *)
(***************************************************************************)
EXTENDS SyncPush, TLAPS

\* Marking a row leaves one that is gone alone, and changes nothing else.
LEMMA SetStatusType ==
  ASSUME TypeOK, NEW s \in RowStatus, SetStatus(s)
  PROVE  /\ row' \in [status : RowStatus, content : Content, version : Nat]
         /\ row'.status \in {row.status, s}
BY DEF SetStatus, TypeOK, RowStatus

\* An answer only ever moves the cycle that waits for it.
LEMMA AnswerType ==
  ASSUME TypeOK, NEW c \in calls, NEW r \in {"completed", "failed"}, Answer(c, r)
  PROVE  /\ calls' \subseteq calls
         /\ cycle' \in [Managers -> [pc : {"idle", "upload", "patch", "dequeue", "mark",
                                           "post", "wait", "completed", "failed"},
                                     content : Content, version : Nat]]
         /\ \A m \in Managers : cycle'[m].pc \in {cycle[m].pc, r}
BY DEF Answer, TypeOK, Call

\* A call that goes on to its next statement is still a call, now at it.
LEMMA WorkType ==
  ASSUME TypeOK, NEW c \in calls, NEW at \in {"lookup", "insert", "note"}, Work(c, at)
  PROVE  /\ calls' \subseteq Call
         /\ \A d \in calls' : d \in calls \/ d.at = at
<1>1. c \in Call
  BY DEF TypeOK
<1>2. [c EXCEPT !.at = at] \in Call /\ [c EXCEPT !.at = at].at = at
  BY <1>1 DEF Call
<1> QED
  BY <1>2 DEF Work, TypeOK

\* What is done is stored, at the start and after every step.
LEMMA InitStores == Init => Stores
<1> SUFFICES ASSUME Init PROVE Stores
  OBVIOUS
<1>1. /\ row \in [status : RowStatus, content : Content, version : Nat]
      /\ dropped \in BOOLEAN /\ alone \in BOOLEAN /\ calls \subseteq Call /\ idem \subseteq Nat
      /\ stored \in Content \cup {None}
  BY DEF Init, RowStatus, Content
<1>2. cycle \in [Managers -> [pc : {"idle", "upload", "patch", "dequeue", "mark", "post",
                                   "wait", "completed", "failed"},
                             content : Content, version : Nat]]
  BY DEF Init, Idle, Content
<1>3. spent \in [losses : 0..MaxLosses, deaths : 0..MaxDeaths, retries : 0..MaxRetries]
  BY SyncPushAssumption DEF Init
<1>4. NotedMeansStored /\ DoneMeansStored
  BY DEF Init, NotedMeansStored, DoneMeansStored, Idle, At
<1> QED
  BY <1>1, <1>2, <1>3, <1>4 DEF Stores, TypeOK

LEMMA NextStores == Stores /\ [Next]_vars => Stores'
<1> SUFFICES ASSUME Stores, [Next]_vars PROVE Stores'
  OBVIOUS
<1> USE SyncPushAssumption DEF Stores
<1>1. CASE Discard
  BY <1>1 DEF Discard, Undo, ClearFailed, PurgeStale, TypeOK, NotedMeansStored, DoneMeansStored, RowStatus, At
<1>2. CASE Retry
  BY <1>2 DEF Retry, TypeOK, NotedMeansStored, DoneMeansStored, RowStatus, At
<1>3. CASE Expire
  BY <1>3 DEF Expire, TypeOK, NotedMeansStored, DoneMeansStored, RowStatus, At
<1>4. ASSUME NEW m \in Managers, Sync(m) PROVE Stores'
  <2>1. CASE Begin(m)
    BY <2>1 DEF Begin, GoTo, TypeOK, NotedMeansStored, DoneMeansStored, RowStatus, At
  <2>2. CASE FindReceipt(m)
    BY <2>2 DEF FindReceipt, GoTo, TypeOK, NotedMeansStored, DoneMeansStored, At
  <2>3. CASE Patch(m)
    <3>1. row' \in [status : RowStatus, content : Content, version : Nat] /\ row'.status = row.status
      <4>1. CASE row.status = "gone"
        BY <2>3, <4>1 DEF Patch, TypeOK
      <4>2. CASE row.status # "gone"
        <5>1. row' = [row EXCEPT !.content = "with_receipt", !.version = row.version + 1]
          BY <2>3, <4>2 DEF Patch
        <5>2. row \in [status : RowStatus, content : Content, version : Nat]
          BY DEF TypeOK
        <5>3. row.version + 1 \in Nat /\ "with_receipt" \in Content
          BY <5>2 DEF Content
        <5> QED
          BY <5>1, <5>2, <5>3
      <4> QED
        BY <4>1, <4>2
    <3>2. cycle' = [cycle EXCEPT ![m].pc = "dequeue"]
      BY <2>3 DEF Patch, GoTo
    <3>3. UNCHANGED <<dropped, alone, calls, stored, idem, spent>>
      BY <2>3 DEF Patch
    <3> QED
      BY <3>1, <3>2, <3>3 DEF TypeOK, NotedMeansStored, DoneMeansStored, At
  <2>4. CASE Dequeue(m)
    BY <2>4 DEF Dequeue, Idle, TypeOK, NotedMeansStored, DoneMeansStored, At, Content
  <2>5. CASE MarkInFlight(m)
    BY <2>5, SetStatusType DEF MarkInFlight, GoTo, TypeOK, NotedMeansStored, DoneMeansStored, At, RowStatus
  <2>6. CASE Post(m)
    BY <2>6 DEF Post, GoTo, TypeOK, NotedMeansStored, DoneMeansStored, At, Call
  <2>7. CASE GiveUp(m)
    BY <2>7 DEF GiveUp, GoTo, TypeOK, NotedMeansStored, DoneMeansStored, At, Call
  <2>8. CASE Settle(m)
    BY <2>8, SetStatusType DEF Settle, Idle, TypeOK, NotedMeansStored, DoneMeansStored, At, Content, RowStatus
  <2> QED
    BY <1>4, <2>1, <2>2, <2>3, <2>4, <2>5, <2>6, <2>7, <2>8 DEF Sync
<1>5. ASSUME NEW c \in calls, Serve(c) PROVE Stores'
  <2>1. CASE Skip(c)
    <3>1. TypeOK'
      BY <2>1, AnswerType DEF Skip, TypeOK
    <3>2. NotedMeansStored'
      BY <2>1, AnswerType DEF Skip, TypeOK, NotedMeansStored, At
    <3>3. DoneMeansStored'
      BY <2>1 DEF Skip, TypeOK, DoneMeansStored
    <3> QED
      BY <3>1, <3>2, <3>3
  <2>2. CASE LookUp(c)
    <3>1. TypeOK'
      BY <2>2, WorkType DEF LookUp, TypeOK
    <3>2. NotedMeansStored'
      BY <2>2, WorkType DEF LookUp, NotedMeansStored, At
    <3>3. DoneMeansStored'
      BY <2>2 DEF LookUp, TypeOK, DoneMeansStored
    <3> QED
      BY <3>1, <3>2, <3>3
  <2>3. CASE Insert(c)
    <3>1. TypeOK'
      BY <2>3, WorkType DEF Insert, TypeOK, Call
    <3>2. NotedMeansStored'
      BY <2>3, WorkType DEF Insert, TypeOK, NotedMeansStored, At, Call, Content, None
    <3>3. DoneMeansStored'
      BY <2>3 DEF Insert, TypeOK, DoneMeansStored, None, Content
    <3> QED
      BY <3>1, <3>2, <3>3
  <2>4. CASE Duplicate(c)
    <3>1. TypeOK'
      BY <2>4, AnswerType DEF Duplicate, TypeOK
    <3>2. NotedMeansStored'
      BY <2>4, AnswerType DEF Duplicate, TypeOK, NotedMeansStored, At
    <3>3. DoneMeansStored'
      BY <2>4 DEF Duplicate, TypeOK, DoneMeansStored
    <3> QED
      BY <3>1, <3>2, <3>3
  <2>5. CASE Note(c)
    <3>1. TypeOK'
      <4>1. c.version \in Nat
        BY DEF TypeOK, Call
      <4>2. idem' \subseteq Nat
        BY <2>5, <4>1 DEF Note, TypeOK
      <4>3. /\ calls' \subseteq Call
            /\ cycle' \in [Managers -> [pc : {"idle", "upload", "patch", "dequeue", "mark",
                                              "post", "wait", "completed", "failed"},
                                        content : Content, version : Nat]]
        BY <2>5, AnswerType DEF Note, TypeOK
      <4>4. UNCHANGED <<row, dropped, alone, stored, spent>>
        BY <2>5 DEF Note
      <4> QED
        BY <4>2, <4>3, <4>4 DEF TypeOK
    <3>2. NotedMeansStored'
      BY <2>5, AnswerType DEF Note, TypeOK, NotedMeansStored, At
    <3>3. DoneMeansStored'
      BY <2>5 DEF Note, TypeOK, DoneMeansStored
    <3> QED
      BY <3>1, <3>2, <3>3
  <2>6. CASE Die(c)
    <3>1. TypeOK'
      BY <2>6, AnswerType DEF Die, TypeOK
    <3>2. NotedMeansStored'
      BY <2>6, AnswerType DEF Die, TypeOK, NotedMeansStored, At
    <3>3. DoneMeansStored'
      BY <2>6 DEF Die, TypeOK, DoneMeansStored
    <3> QED
      BY <3>1, <3>2, <3>3
  <2> QED
    BY <1>5, <2>1, <2>2, <2>3, <2>4, <2>5, <2>6 DEF Serve
<1>6. CASE UNCHANGED vars
  BY <1>6 DEF vars, TypeOK, NotedMeansStored, DoneMeansStored, At
<1> QED
  BY <1>1, <1>2, <1>3, <1>4, <1>5, <1>6 DEF Next

-----------------------------------------------------------------------------
(* Contents and versions.                                                  *)

\* A cycle that moves on keeps what it has read.
LEMMA GoToKeeps ==
  ASSUME TypeOK, NEW m \in Managers, NEW pc, GoTo(m, pc)
  PROVE  /\ \A n \in Managers \ {m} : cycle'[n] = cycle[n]
         /\ cycle'[m].pc = pc /\ cycle'[m].content = cycle[m].content
         /\ cycle'[m].version = cycle[m].version
BY DEF GoTo, TypeOK

\* So does one that gets its answer.
LEMMA AnswerKeeps ==
  ASSUME TypeOK, NEW c \in calls, NEW r, Answer(c, r)
  PROVE  /\ calls' = calls \ {c}
         /\ \A n \in Managers : /\ cycle'[n].content = cycle[n].content
                                /\ cycle'[n].version = cycle[n].version
                                /\ n # c.by => cycle'[n] = cycle[n]
                                /\ n = c.by => cycle'[n].pc = r
BY SyncPushAssumption DEF Answer, TypeOK, Call

\* A call that goes on to its next statement is the same but for that.
LEMMA WorkKeeps ==
  ASSUME TypeOK, NEW c \in calls, NEW at, Work(c, at)
  PROVE  \E d : /\ calls' = (calls \ {c}) \cup {d}
                /\ d.at = at /\ d.by = c.by /\ d.content = c.content /\ d.version = c.version
<1>1. c \in Call
  BY DEF TypeOK
<1>2. [c EXCEPT !.at = at].at = at /\ [c EXCEPT !.at = at].by = c.by
      /\ [c EXCEPT !.at = at].content = c.content /\ [c EXCEPT !.at = at].version = c.version
  BY <1>1 DEF Call
<1> QED
  BY <1>2 DEF Work

LEMMA SetStatusKeeps ==
  ASSUME TypeOK, NEW s, SetStatus(s)
  PROVE  row'.content = row.content /\ row'.version = row.version
BY DEF SetStatus, TypeOK

\* A step that touches neither the calls nor the server, nor what was read of the row.
LEMMA CalmSays ==
  ASSUME SaysWhatItHolds, UNCHANGED <<stored, row.content, row.version>>, idem' \subseteq idem,
         \A c \in calls' : c \in calls,
         \A n \in Managers : /\ cycle'[n].content = cycle[n].content
                             /\ cycle'[n].version = cycle[n].version
                             /\ cycle'[n].pc = "completed" => cycle[n].pc = "completed"
  PROVE  SaysWhatItHolds'
BY DEF SaysWhatItHolds, Says, At

LEMMA SyncSays ==
  ASSUME TypeOK, SaysWhatItHolds, NEW m \in Managers, Sync(m)
  PROVE  SaysWhatItHolds'
<1>1. ASSUME NEW pc, GoTo(m, pc), pc # "completed", UNCHANGED <<stored, row.content, row.version, calls, idem>>
      PROVE  SaysWhatItHolds'
  BY <1>1, GoToKeeps, CalmSays
<1>2. CASE Begin(m)
  <2>1. UNCHANGED <<row.content, row.version>>
    BY <1>2 DEF Begin, TypeOK
  <2> QED
    BY <1>1, <1>2, <2>1 DEF Begin
<1>3. CASE FindReceipt(m)
  BY <1>1, <1>3 DEF FindReceipt
<1>4. CASE Patch(m)
  <2>1. UNCHANGED <<stored, calls, idem>> /\ GoTo(m, "dequeue")
    BY <1>4 DEF Patch
  <2>2. CASE row.status = "gone"
    BY <1>1, <1>4, <2>1, <2>2 DEF Patch
  <2>3. CASE row.status # "gone"
    <3>1. row' = [row EXCEPT !.content = "with_receipt", !.version = row.version + 1]
      BY <1>4, <2>3 DEF Patch
    <3>2. row.version \in Nat /\ row'.version = row.version + 1 /\ row'.content = "with_receipt"
      BY <3>1 DEF TypeOK
    <3>3. Says(row'.version, row'.content)
      BY <3>2 DEF Says
    <3> QED
      BY <2>1, <3>3, GoToKeeps DEF SaysWhatItHolds, Says, At
  <2> QED
    BY <2>2, <2>3
<1>5. CASE Dequeue(m)
  <2>1. /\ \A n \in Managers \ {m} : cycle'[n] = cycle[n]
        /\ Says(cycle'[m].version, cycle'[m].content) /\ cycle'[m].pc # "completed"
    BY <1>5 DEF Dequeue, TypeOK, Idle, SaysWhatItHolds, Says
  <2> QED
    BY <1>5, <2>1 DEF Dequeue, SaysWhatItHolds, Says, At
<1>6. CASE MarkInFlight(m)
  BY <1>1, <1>6, SetStatusKeeps DEF MarkInFlight
<1>7. CASE Post(m)
  <2>1. GoTo(m, "wait") /\ UNCHANGED <<row, stored, idem>>
    BY <1>7 DEF Post
  <2> DEFINE c == [by |-> m, at |-> "lookup", content |-> cycle[m].content, version |-> cycle[m].version]
  <2>2. calls' = calls \cup {c} /\ Says(c.version, c.content) /\ c.at # "note"
    BY <1>7 DEF Post, SaysWhatItHolds
  <2> HIDE DEF c
  <2> QED
    BY <2>1, <2>2, GoToKeeps DEF SaysWhatItHolds, Says, At
<1>8. CASE GiveUp(m)
  <2>1. GoTo(m, "failed") /\ UNCHANGED <<row, stored, idem>>
    BY <1>8 DEF GiveUp
  <2>2. PICK c \in calls : calls' \in {calls \ {c}, (calls \ {c}) \cup {[c EXCEPT !.by = Nobody]}}
    BY <1>8 DEF GiveUp
  <2> DEFINE d == [c EXCEPT !.by = Nobody]
  <2>3. d.at = c.at /\ d.content = c.content /\ d.version = c.version
    BY DEF TypeOK, Call
  <2>4. \A e \in calls' : e \in calls \/ e = d
    BY <2>2
  <2> HIDE DEF d
  <2> QED
    BY <2>1, <2>3, <2>4, GoToKeeps DEF SaysWhatItHolds, Says, At
<1>9. CASE Settle(m)
  <2>1. /\ \A n \in Managers \ {m} : cycle'[n] = cycle[n]
        /\ cycle'[m] = Idle
    BY <1>9 DEF Settle, TypeOK
  <2>2. Says(Idle.version, Idle.content) /\ Idle.pc # "completed"
    BY DEF Idle, Says
  <2>3. UNCHANGED <<row.content, row.version, calls, stored, idem>>
    BY <1>9, SetStatusKeeps DEF Settle
  <2> QED
    BY <2>1, <2>2, <2>3 DEF SaysWhatItHolds, Says, At
<1> QED
  BY <1>2, <1>3, <1>4, <1>5, <1>6, <1>7, <1>8, <1>9 DEF Sync

\* Only a send whose version says what is stored is answered "completed".
LEMMA ServeSays ==
  ASSUME Stores, SaysWhatItHolds, AwaitedCall, NEW c \in calls, Serve(c)
  PROVE  SaysWhatItHolds'
<1> USE DEF Stores
<1>0. c \in Call /\ c.content \in Content /\ Says(c.version, c.content)
  BY DEF TypeOK, Call, SaysWhatItHolds
<1>1. ASSUME Answer(c, "completed"), stored = c.content, UNCHANGED <<row, stored>>,
             idem' \subseteq idem \cup {c.version}
      PROVE  SaysWhatItHolds'
  <2>1. c.by \in Managers => c.content = cycle[c.by].content
    BY SyncPushAssumption DEF AwaitedCall
  <2> QED
    BY <1>0, <1>1, <2>1, AnswerKeeps DEF SaysWhatItHolds, Says, At
<1>2. ASSUME Answer(c, "failed"), UNCHANGED <<row, stored, idem>>
      PROVE  SaysWhatItHolds'
  BY <1>2, AnswerKeeps, CalmSays
<1>3. CASE Skip(c)
  <2>1. stored \in Content /\ Says(c.version, stored)
    BY <1>3 DEF Skip, SaysWhatItHolds, NotedMeansStored, TypeOK
  <2>2. stored = c.content
    BY <1>0, <2>1 DEF Says, Content
  <2> QED
    BY <1>1, <1>3, <2>2 DEF Skip
<1>4. CASE LookUp(c)
  <2>1. PICK d : /\ calls' = (calls \ {c}) \cup {d}
                 /\ d.at = "insert" /\ d.content = c.content /\ d.version = c.version
    BY <1>4, WorkKeeps DEF LookUp
  <2> QED
    BY <1>0, <1>4, <2>1 DEF LookUp, SaysWhatItHolds, Says, At
<1>5. CASE Insert(c)
  <2>1. PICK d : /\ calls' = (calls \ {c}) \cup {d}
                 /\ d.at = "note" /\ d.content = c.content /\ d.version = c.version
    BY <1>5, WorkKeeps DEF Insert
  <2>2. /\ idem = {} /\ \A e \in calls : e.at # "note"
        /\ \A n \in Managers : ~At(n, "completed")
    BY <1>5 DEF Insert, NotedMeansStored
  <2> QED
    BY <1>0, <1>5, <2>1, <2>2 DEF Insert, SaysWhatItHolds, Says, At
<1>6. CASE Duplicate(c)
  BY <1>2, <1>6 DEF Duplicate
<1>7. CASE Note(c)
  BY <1>1, <1>7 DEF Note, SaysWhatItHolds
<1>8. CASE Die(c)
  BY <1>2, <1>8 DEF Die
<1> QED
  BY <1>3, <1>4, <1>5, <1>6, <1>7, <1>8 DEF Serve

LEMMA NextSays == Stores /\ SaysWhatItHolds /\ AwaitedCall /\ [Next]_vars => SaysWhatItHolds'
<1> SUFFICES ASSUME Stores, SaysWhatItHolds, AwaitedCall, [Next]_vars
             PROVE  SaysWhatItHolds'
  OBVIOUS
<1>1. CASE Discard \/ Retry \/ Expire
  <2>1. UNCHANGED <<row.content, row.version>>
    BY <1>1 DEF Discard, Undo, ClearFailed, PurgeStale, Retry, Expire, Stores, TypeOK
  <2>2. UNCHANGED <<stored, calls, cycle>> /\ idem' \subseteq idem
    BY <1>1 DEF Discard, Undo, ClearFailed, PurgeStale, Retry, Expire
  <2> QED
    BY <2>1, <2>2, CalmSays
<1>2. CASE UNCHANGED vars
  BY <1>2, CalmSays DEF vars
<1> QED
  BY <1>1, <1>2, SyncSays, ServeSays DEF Next, Stores
-----------------------------------------------------------------------------
(* Calls and the cycles that wait for them.                                *)

LEMMA CalmAwaited ==
  ASSUME AwaitedCall, calls' \subseteq calls,
         \A n \in Managers : (\E c \in calls' : c.by = n) =>
           /\ cycle[n].pc = "wait" => cycle'[n].pc = "wait"
           /\ cycle'[n].content = cycle[n].content
           /\ cycle'[n].version = cycle[n].version,
         TypeOK
  PROVE  AwaitedCall'
<1>1. \A c \in calls' : c \in calls /\ (c.by # Nobody => c.by \in Managers)
  BY DEF TypeOK, Call
<1> QED
  BY <1>1 DEF AwaitedCall, At

LEMMA SyncAwaited ==
  ASSUME TypeOK, AwaitedCall, NEW m \in Managers, Sync(m)
  PROVE  AwaitedCall'
<1>0. \A c \in calls : c.by = m => At(m, "wait")
  BY SyncPushAssumption DEF AwaitedCall
<1>1. CASE Begin(m) \/ FindReceipt(m) \/ Patch(m) \/ Dequeue(m) \/ MarkInFlight(m) \/ Settle(m)
  <2>1. UNCHANGED calls /\ ~At(m, "wait") /\ \A n \in Managers \ {m} : cycle'[n] = cycle[n]
    BY <1>1 DEF Begin, FindReceipt, Patch, Dequeue, MarkInFlight, Settle, GoTo, At, TypeOK
  <2>2. ASSUME NEW n \in Managers, NEW c \in calls', c.by = n
        PROVE  cycle'[n] = cycle[n]
    BY <1>0, <2>1, <2>2
  <2> QED
    BY <2>1, <2>2, CalmAwaited
<1>2. CASE Post(m)
  <2> DEFINE c == [by |-> m, at |-> "lookup", content |-> cycle[m].content, version |-> cycle[m].version]
  <2>1. GoTo(m, "wait") /\ calls' = calls \cup {c} /\ ~At(m, "wait")
    BY <1>2 DEF Post, At
  <2>2. \A d \in calls : d.by # m
    BY <1>0, <2>1
  <2>3. c.by = m /\ c.content = cycle[m].content /\ c.version = cycle[m].version
    OBVIOUS
  <2>4. \A d \in calls : d.by # Nobody => d.by \in Managers \ {m}
    BY <2>2 DEF TypeOK, Call
  <2> HIDE DEF c
  <2>5. \A d \in calls' : d.by # Nobody =>
          /\ cycle'[d.by].pc = "wait"
          /\ d.content = cycle'[d.by].content /\ d.version = cycle'[d.by].version
    BY <2>1, <2>3, <2>4, GoToKeeps DEF AwaitedCall, At
  <2>6. \A d, e \in calls' : d.by = e.by /\ d.by # Nobody => d = e
    BY <2>1, <2>2, <2>3 DEF AwaitedCall
  <2> QED
    BY <2>5, <2>6 DEF AwaitedCall, At
<1>3. CASE GiveUp(m)
  <2>1. PICK c \in calls :
          c.by = m /\ calls' \in {calls \ {c}, (calls \ {c}) \cup {[c EXCEPT !.by = Nobody]}}
    BY <1>3 DEF GiveUp
  <2> DEFINE d == [c EXCEPT !.by = Nobody]
  <2>2. d.by = Nobody
    BY DEF TypeOK, Call
  <2>3. \A e \in calls' : e.by # Nobody => e \in calls /\ e.by \in Managers \ {m}
    <3>1. m # Nobody
      BY SyncPushAssumption
    <3>2. \A e \in calls \ {c} : e.by # m
      BY <2>1, <3>1 DEF AwaitedCall
    <3>3. \A e \in calls' : e \in calls \ {c} \/ e = d
      BY <2>1
    <3> HIDE DEF d
    <3> QED
      BY <2>2, <3>2, <3>3 DEF TypeOK, Call
  <2>4. \A n \in Managers \ {m} : cycle'[n] = cycle[n]
    BY <1>3 DEF GiveUp, GoTo, TypeOK
  <2> QED
    BY <2>3, <2>4 DEF AwaitedCall, At
<1> QED
  BY <1>1, <1>2, <1>3 DEF Sync

LEMMA ServeAwaited ==
  ASSUME TypeOK, AwaitedCall, NEW c \in calls, Serve(c)
  PROVE  AwaitedCall'
<1>1. ASSUME NEW r, Answer(c, r)
      PROVE  AwaitedCall'
  <2>1. calls' = calls \ {c}
    BY <1>1, AnswerKeeps
  <2>2. ASSUME NEW n \in Managers, NEW d \in calls', d.by = n
        PROVE  cycle'[n] = cycle[n]
    <3>1. n # c.by
      BY <2>1, <2>2, SyncPushAssumption DEF AwaitedCall
    <3> QED
      BY <1>1, <3>1, AnswerKeeps
  <2> QED
    BY <2>1, <2>2, CalmAwaited
<1>2. ASSUME NEW at, Work(c, at), UNCHANGED cycle
      PROVE  AwaitedCall'
  <2>1. PICK d : /\ calls' = (calls \ {c}) \cup {d}
                 /\ d.by = c.by /\ d.content = c.content /\ d.version = c.version
    BY <1>2, WorkKeeps
  <2> QED
    BY <1>2, <2>1 DEF AwaitedCall, At
<1> QED
  BY <1>1, <1>2 DEF Serve, Skip, LookUp, Insert, Duplicate, Note, Die

LEMMA NextAwaited == TypeOK /\ AwaitedCall /\ [Next]_vars => AwaitedCall'
<1>1. ASSUME TypeOK, AwaitedCall, (Discard \/ Retry \/ Expire) \/ UNCHANGED vars
      PROVE  AwaitedCall'
  <2>1. UNCHANGED <<calls, cycle>>
    BY <1>1 DEF Discard, Undo, ClearFailed, PurgeStale, Retry, Expire, vars
  <2> QED
    BY <1>1, <2>1, CalmAwaited
<1> QED
  BY <1>1, SyncAwaited, ServeAwaited DEF Next
-----------------------------------------------------------------------------
(* The row and the one cycle that is about it.                             *)

LEMMA CalmUndisturbed ==
  ASSUME Undisturbed, alone' => alone, stored' = stored \/ row.status # "completed",
         row'.content = row.content, row'.status = "completed" => row.status = "completed",
         \A n \in Managers : /\ cycle'[n].content = cycle[n].content
                             /\ cycle[n].pc = "idle" => cycle'[n].pc = "idle"
                             /\ cycle'[n].pc \in Reading => cycle[n].pc \in Reading
  PROVE  Undisturbed'
BY DEF Undisturbed, At

LEMMA SyncUndisturbed ==
  ASSUME IInv, NEW m \in Managers, Sync(m)
  PROVE  Undisturbed'
<1> USE DEF IInv, Stores
<1>1. ASSUME NEW pc, GoTo(m, pc), ~At(m, "idle"), pc \in Reading => cycle[m].pc \in Reading,
             UNCHANGED <<alone, stored, row.content>>,
             row'.status = "completed" => row.status = "completed"
      PROVE  Undisturbed'
  <2>1. \A n \in Managers : /\ cycle'[n].content = cycle[n].content
                            /\ cycle[n].pc = "idle" => cycle'[n].pc = "idle"
                            /\ cycle'[n].pc \in Reading => cycle[n].pc \in Reading
    BY <1>1, GoToKeeps DEF At
  <2> QED
    BY <1>1, <2>1, CalmUndisturbed
<1>2. CASE Begin(m)
  <2>1. row'.content = row.content /\ row'.status # "completed"
    BY <1>2 DEF Begin, TypeOK
  <2>2. /\ \A n \in Managers \ {m} : cycle'[n] = cycle[n]
        /\ cycle'[m].pc = "upload"
    BY <1>2, GoToKeeps DEF Begin
  <2>3. alone' => \A n \in Managers \ {m} : cycle'[n].pc = "idle"
    BY <1>2, <2>2 DEF Begin, At
  <2> QED
    BY <2>1, <2>2, <2>3 DEF Undisturbed, At, Reading
<1>3. CASE FindReceipt(m)
  BY <1>1, <1>3 DEF FindReceipt, At, Reading
<1>4. CASE Patch(m)
  <2>1. row'.status = row.status
    BY <1>4 DEF Patch, TypeOK
  <2>2. /\ \A n \in Managers \ {m} : cycle'[n] = cycle[n]
        /\ cycle'[m].pc = "dequeue" /\ cycle[m].pc = "patch"
        /\ UNCHANGED <<alone, stored>>
    BY <1>4, GoToKeeps DEF Patch, At
  <2>3. alone => row.status # "completed" /\ \A n \in Managers \ {m} : cycle[n].pc = "idle"
    BY <2>2 DEF Undisturbed, At
  <2> QED
    BY <2>1, <2>2, <2>3 DEF Undisturbed, At, Reading
<1>5. CASE Dequeue(m)
  <2>1. /\ \A n \in Managers \ {m} : cycle'[n] = cycle[n]
        /\ cycle'[m].pc \in Reading => cycle'[m].content = row.content
        /\ cycle[m].pc = "dequeue"
    BY <1>5 DEF Dequeue, TypeOK, Idle, Reading, At
  <2>2. UNCHANGED <<row, alone, stored>>
    BY <1>5 DEF Dequeue
  <2> QED
    BY <2>1, <2>2 DEF Undisturbed, At
<1>6. CASE MarkInFlight(m)
  <2>1. row'.status = "completed" => row.status = "completed"
    BY <1>6 DEF MarkInFlight, SetStatus, TypeOK
  <2> QED
    BY <1>1, <1>6, <2>1, SetStatusKeeps DEF MarkInFlight, At, Reading
<1>7. CASE Post(m)
  BY <1>1, <1>7 DEF Post, At, Reading
<1>8. CASE GiveUp(m)
  BY <1>1, <1>8 DEF GiveUp, At, Reading
<1>9. CASE Settle(m)
  <2>1. /\ \A n \in Managers \ {m} : cycle'[n] = cycle[n]
        /\ cycle'[m].pc = "idle"
    BY <1>9 DEF Settle, TypeOK, Idle
  <2>2. row'.content = row.content /\ UNCHANGED <<alone, stored>>
    BY <1>9, SetStatusKeeps DEF Settle
  <2>3. cycle[m].pc \in Reading /\ ~At(m, "idle")
    BY <1>9 DEF Settle, Reading, At
  <2>4. row'.status = "completed" => row.status = "completed" \/ cycle[m].pc = "completed"
    BY <1>9 DEF Settle, SetStatus, TypeOK
  <2>5. cycle[m].pc = "completed" => stored = cycle[m].content
    BY DEF SaysWhatItHolds, At
  <2> QED
    BY <2>1, <2>2, <2>3, <2>4, <2>5 DEF Undisturbed, At, Reading
<1> QED
  BY <1>2, <1>3, <1>4, <1>5, <1>6, <1>7, <1>8, <1>9 DEF Sync

LEMMA ServeUndisturbed ==
  ASSUME IInv, NEW c \in calls, Serve(c)
  PROVE  Undisturbed'
<1> USE DEF IInv, Stores
<1>1. UNCHANGED <<row, alone>>
  BY DEF Serve, Skip, LookUp, Insert, Duplicate, Note, Die
<1>3. \A n \in Managers : /\ cycle'[n].content = cycle[n].content
                          /\ cycle[n].pc = "idle" => cycle'[n].pc = "idle"
                          /\ cycle'[n].pc \in Reading => cycle[n].pc \in Reading
  <2>1. ASSUME NEW r, Answer(c, r)
        PROVE  \A n \in Managers : /\ cycle'[n].content = cycle[n].content
                                   /\ cycle[n].pc = "idle" => cycle'[n].pc = "idle"
                                   /\ cycle'[n].pc \in Reading => cycle[n].pc \in Reading
    <3>1. c.by \in Managers => cycle[c.by].pc = "wait"
      BY SyncPushAssumption DEF AwaitedCall, At
    <3> QED
      BY <2>1, <3>1, AnswerKeeps DEF Reading
  <2> QED
    BY <2>1 DEF Serve, Skip, LookUp, Insert, Duplicate, Note, Die
<1>4. alone /\ row.status = "completed" => stored' = stored
  <2>1. alone /\ row.status = "completed" => stored # None
    BY DEF Undisturbed, TypeOK, Content, None
  <2> QED
    BY <2>1 DEF Serve, Skip, LookUp, Insert, Duplicate, Note, Die
<1> QED
  BY <1>1, <1>3, <1>4 DEF Undisturbed, At

LEMMA NextUndisturbed == IInv /\ [Next]_vars => Undisturbed'
<1> SUFFICES ASSUME IInv, [Next]_vars
             PROVE  Undisturbed'
  OBVIOUS
<1>1. CASE Discard \/ Retry \/ Expire
  <2>1. row'.content = row.content /\ (row'.status = "completed" => row.status = "completed")
    BY <1>1 DEF Discard, Undo, ClearFailed, PurgeStale, Retry, Expire, IInv, Stores, TypeOK
  <2>2. UNCHANGED <<alone, stored, cycle>>
    BY <1>1 DEF Discard, Undo, ClearFailed, PurgeStale, Retry, Expire
  <2> QED
    BY <2>1, <2>2, CalmUndisturbed DEF IInv
<1>2. CASE UNCHANGED vars
  BY <1>2, CalmUndisturbed DEF vars, IInv
<1> QED
  BY <1>1, <1>2, SyncUndisturbed, ServeUndisturbed DEF Next
-----------------------------------------------------------------------------
LEMMA InitIInv == Init => IInv
<1> SUFFICES ASSUME Init
             PROVE  IInv
  OBVIOUS
<1>1. SaysWhatItHolds
  BY DEF Init, Idle, SaysWhatItHolds, Says, At
<1>2. AwaitedCall /\ Undisturbed
  BY DEF Init, Idle, AwaitedCall, Undisturbed, At, Reading
<1> QED
  BY <1>1, <1>2, InitStores DEF IInv

LEMMA NextIInv == IInv /\ [Next]_vars => IInv'
BY NextStores, NextSays, NextAwaited, NextUndisturbed DEF IInv, Stores

\* The inductive invariant: neither sync_idempotency nor a "completed" answer ever runs
\* ahead of the record's table, and versions tell contents apart on the whole way
\* (applyMutation, updatePayload).
THEOREM InductiveInvariant == Spec => []IInv
BY InitIInv, NextIInv, PTL DEF Spec

\* A row is completed, and leaves the phone's queue, only for a record the server has, or
\* it was taken back, cleared or given up (pushMutations, purgeCompleted, purgeStale).
THEOREM DoneTheorem == Spec => []DoneMeansStored
<1>1. IInv => DoneMeansStored
  BY DEF IInv, Stores
<1> QED
  BY <1>1, InductiveInvariant, PTL

\* As long as no two sync cycles have overlapped, a completed row says what the server
\* has, however many calls are lost, outlived, repeated or forgotten: a receipt patched
\* in goes out under a version of its own (updatePayload).
THEOREM UpToDateTheorem == Spec => []DoneMeansUpToDate
<1>1. IInv => DoneMeansUpToDate
  BY DEF IInv, Undisturbed, DoneMeansUpToDate
<1> QED
  BY <1>1, InductiveInvariant, PTL
=============================================================================
