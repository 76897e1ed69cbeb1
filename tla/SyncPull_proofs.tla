--------------------------- MODULE SyncPull_proofs ---------------------------
(***************************************************************************)
(* Proofs about SyncPull, for any trips, sync cycles, page size and faults. *)
(***************************************************************************)
EXTENDS SyncPull, FiniteSetTheorems, FunctionTheorems, WellFoundedInduction, TLAPS

(* Maxima of bounded sets, from the well-foundedness of the order of Nat.   *)

LEMMA LessThanIsWellFounded ==
  \E R : IsWellFoundedOn(R, Nat) /\ \A x, y \in Nat : x < y => <<x, y>> \in R
<1>1. \A x, y \in Nat : x < y => <<x, y>> \in OpToRel(<, Nat)
  BY DEF OpToRel
<1> QED
  BY <1>1, NatLessThanWellFounded, Zenon

LEMMA Smallest ==
  ASSUME NEW S, S \subseteq Nat, S # {}
  PROVE  \E x \in S : \A y \in S : x <= y
<1>1. PICK R : IsWellFoundedOn(R, Nat) /\ \A x, y \in Nat : x < y => <<x, y>> \in R
  BY LessThanIsWellFounded, Zenon
<1>2. PICK x \in S : \A y \in S : <<y, x>> \notin R
  <2>1. IsWellFoundedOn(R, Nat)
    BY <1>1
  <2> QED
    BY <2>1, WFMin
<1>3. ASSUME NEW y \in S PROVE x <= y
  <2>1. x \in Nat /\ y \in Nat /\ ~(y < x)
    BY <1>1, <1>2
  <2> QED
    BY <2>1
<1> QED
  BY <1>3

LEMMA MaxOfBounded ==
  ASSUME NEW N \in Nat, NEW S, S \subseteq 0..N, S # {}
  PROVE  Max(S) \in S /\ \A y \in S : Max(S) >= y
<1> DEFINE T == {N - s : s \in S}
<1>1. T \subseteq Nat
  OBVIOUS
<1>2. T # {}
  OBVIOUS
<1> HIDE DEF T
<1>3. PICK x \in T : \A y \in T : x <= y
  BY <1>1, <1>2, Smallest
<1>4. PICK s \in S : x = N - s
  BY DEF T
<1>5. \A y \in S : N - s <= N - y
  BY <1>3, <1>4 DEF T
<1>6. \A y \in S : s >= y
  BY <1>5
<1> QED
  BY <1>6 DEF Max

LEMMA MaxOfTwo ==
  ASSUME NEW a \in Nat, NEW b \in Nat
  PROVE  /\ Max({a, b}) \in {a, b}
         /\ Max({a, b}) >= a /\ Max({a, b}) >= b
         /\ \A v \in Nat : v <= Max({a, b}) <=> v <= a \/ v <= b
<1>1. \E m \in {a, b} : \A y \in {a, b} : m >= y
  BY a <= b \/ b <= a
<1>2. Max({a, b}) \in {a, b} /\ \A y \in {a, b} : Max({a, b}) >= y
  BY <1>1 DEF Max
<1> QED
  BY <1>2
-----------------------------------------------------------------------------
(* Types.                                                                   *)

LEMMA Numbers == MaxVersion \in Nat /\ MaxFaults \in Nat
BY SyncPullAssumption

LEMMA SinceType == TypeOK => Since \in 0..MaxVersion
<1> SUFFICES ASSUME TypeOK PROVE Since \in 0..MaxVersion
  OBVIOUS
<1> DEFINE held == {phone[t].version : t \in Trips} \cup {0}
<1>1. held \subseteq 0..MaxVersion /\ held # {}
  BY Numbers DEF TypeOK
<1> HIDE DEF held
<1>2. Max(held) \in 0..MaxVersion
  BY <1>1, Numbers, MaxOfBounded
<1> QED
  BY <1>2 DEF Since, held, TypeOK

LEMMA RestingType == Resting \in CycleState
BY Numbers DEF Resting, CycleState

LEMMA RowTypes == NoRow \in Row /\ NoCopy \in [version : 0..MaxVersion, open : BOOLEAN]
BY Numbers DEF NoRow, NoCopy, Row

LEMMA CopyType == \A row \in Row : Copy(row) \in [version : 0..MaxVersion, open : BOOLEAN]
BY RowTypes DEF Copy, Row

LEMMA FirstInPage == \A page : First(page) \subseteq page
BY DEF First

\* Taking a row off the page, applied or not.
LEMMA PageType ==
  ASSUME NEW k \in CycleState, NEW r \in k.page
  PROVE  /\ r \in [trip : Trips, row : Row]
         /\ [k EXCEPT !.page = @ \ {r}] \in CycleState
         /\ [k EXCEPT !.page = @ \ {r}, !.highest = Max({@, r.row.version})] \in CycleState
<1>1. r \in [trip : Trips, row : Row] /\ k.page \ {r} \in SUBSET [trip : Trips, row : Row]
  BY DEF CycleState
<1>2. Max({k.highest, r.row.version}) \in 0..MaxVersion
  <2>1. /\ k.highest \in 0..MaxVersion /\ r.row.version \in 0..MaxVersion
        /\ k.highest \in Nat /\ r.row.version \in Nat
    BY <1>1, Numbers DEF CycleState, Row
  <2>2. Max({k.highest, r.row.version}) \in {k.highest, r.row.version}
    BY <2>1, MaxOfTwo
  <2> QED
    BY <2>1, <2>2
<1> QED
  BY <1>1, <1>2 DEF CycleState

LEMMA StampsType == Stamps \in Bijection(Trips, 1..Cardinality(Trips)) /\ Cardinality(Trips) \in Nat
<1>1. Cardinality(Trips) \in Nat /\ ExistsBijection(1..Cardinality(Trips), Trips)
  BY SyncPullAssumption, FS_CardinalityType
<1>2. Bijection(Trips, 1..Cardinality(Trips)) # {}
  BY <1>1, Fun_ExistsBijSymmetric, Fun_ExistsBij DEF ExistsBijection
<1> QED
  BY <1>1, <1>2 DEF Stamps

LEMMA InitType == Init => TypeOK
<1> SUFFICES ASSUME Init PROVE TypeOK
  OBVIOUS
<1>1. Cardinality(Trips) \in 0..MaxVersion
  BY SyncPullAssumption, StampsType
<1>2. Stamps \in [Trips -> 0..MaxVersion]
  BY <1>1, StampsType, Numbers, Fun_BijectionProperties
<1>3. \A old \in SUBSET Trips : History(old) \in [Trips -> Row]
  BY <1>2, RowTypes DEF History, Row
<1>4. table \in [Trips -> Row]
  BY <1>3 DEF Init
<1>5. drawn \in 0..MaxVersion /\ cursor \in 0..MaxVersion /\ faults \in 0..MaxFaults
  BY <1>1, Numbers DEF Init
<1>6. writing \in [Trips -> Row]
  BY RowTypes DEF Init
<1>7. phone \in [Trips -> [version : 0..MaxVersion, open : BOOLEAN]]
  BY RowTypes DEF Init
<1>8. cycle \in [Cycles -> CycleState]
  BY RestingType DEF Init
<1>9. late \subseteq Trips /\ unapplied \subseteq Trips /\ disturbed \in BOOLEAN
  BY DEF Init
<1> QED
  BY <1>4, <1>5, <1>6, <1>7, <1>8, <1>9 DEF TypeOK

LEMMA TypeStep == TypeOK /\ [Next]_vars => TypeOK'
<1> SUFFICES ASSUME TypeOK, [Next]_vars PROVE TypeOK'
  OBVIOUS
<1> USE Numbers
<1>1. ASSUME NEW t \in Trips, Write(t) PROVE TypeOK'
  <2>1. PICK open \in BOOLEAN, deleted \in BOOLEAN :
          writing' = [writing EXCEPT ![t] = [version |-> drawn + 1, open |-> open,
                                             deleted |-> deleted]]
    BY <1>1 DEF Write
  <2>2. drawn + 1 \in 0..MaxVersion
    BY <1>1 DEF Write, TypeOK
  <2>3. writing' \in [Trips -> Row]
    BY <2>1, <2>2 DEF TypeOK, Row
  <2> QED
    BY <1>1, <2>2, <2>3 DEF Write, TypeOK, local
<1>2. ASSUME NEW t \in Trips, End(t) PROVE TypeOK'
  BY <1>2, RowTypes DEF End, Commit, Abort, TypeOK, local
<1>3. ASSUME NEW c \in Cycles, Begin(c) PROVE TypeOK'
  <2>1. [Resting EXCEPT !.pc = "ask", !.since = Since] \in CycleState
    BY SinceType, RestingType DEF CycleState
  <2> QED
    BY <1>3, <2>1 DEF Begin, TypeOK, server, local
<1>4. ASSUME NEW c \in Cycles, Fetch(c) PROVE TypeOK'
  <2> DEFINE page == {[trip |-> t, row |-> table[t]] : t \in Page(cycle[c].since)}
  <2>1. Page(cycle[c].since) \subseteq Trips
    BY DEF Page, Matches
  <2>2. page \in SUBSET [trip : Trips, row : Row]
    BY <2>1 DEF TypeOK
  <2> HIDE DEF page
  <2>3. [Resting EXCEPT !.pc = "apply", !.page = page] \in CycleState
    BY <2>2, RestingType DEF CycleState
  <2>4. cycle' \in {[cycle EXCEPT ![c] = Resting],
                    [cycle EXCEPT ![c] = [Resting EXCEPT !.pc = "apply", !.page = page]]}
    BY <1>4 DEF Fetch, page
  <2>5. cycle' \in [Cycles -> CycleState]
    BY <2>3, <2>4, RestingType DEF TypeOK
  <2> QED
    BY <1>4, <2>5 DEF Fetch, TypeOK, server, local
<1>5. ASSUME NEW c \in Cycles, Apply(c) \/ ApplyFails(c) PROVE TypeOK'
  <2>1. PICK r \in cycle[c].page :
          /\ cycle' \in {[cycle EXCEPT ![c].page = @ \ {r}],
                         [cycle EXCEPT ![c].page = @ \ {r}, ![c].highest = Max({@, r.row.version})]}
          /\ phone' \in {phone, [phone EXCEPT ![r.trip] = Copy(r.row)]}
          /\ unapplied' \in {unapplied \ {r.trip}, unapplied \cup {r.trip}}
          /\ faults' \in {faults} \cup {f \in {faults + 1} : faults < MaxFaults}
          /\ UNCHANGED <<server, cursor, disturbed>>
    BY <1>5, FirstInPage DEF Apply, ApplyFails, local
  <2>2. /\ r \in [trip : Trips, row : Row]
        /\ [cycle[c] EXCEPT !.page = @ \ {r}] \in CycleState
        /\ [cycle[c] EXCEPT !.page = @ \ {r}, !.highest = Max({@, r.row.version})] \in CycleState
    <3>1. cycle[c] \in CycleState
      BY DEF TypeOK
    <3> QED
      BY <3>1, PageType
  <2>3. cycle' \in [Cycles -> CycleState]
    BY <2>1, <2>2 DEF TypeOK
  <2>4. phone' \in [Trips -> [version : 0..MaxVersion, open : BOOLEAN]]
    BY <2>1, <2>2, CopyType DEF TypeOK
  <2> QED
    BY <2>1, <2>2, <2>3, <2>4 DEF TypeOK, server
<1>6. ASSUME NEW c \in Cycles, Save(c) PROVE TypeOK'
  <2>1. /\ cycle[c].highest \in 0..MaxVersion /\ cursor \in 0..MaxVersion
        /\ cycle[c].highest \in Nat /\ cursor \in Nat
    BY DEF TypeOK, CycleState
  <2>2. cursor' = Max({cursor, cycle[c].highest})
    BY <1>6 DEF Save
  <2>3. cursor' \in {cursor, cycle[c].highest}
    BY <2>1, <2>2, MaxOfTwo
  <2> QED
    BY <1>6, <2>1, <2>3, RestingType DEF Save, TypeOK, server
<1>7. ASSUME NEW c \in Cycles, FetchNothing(c) \/ SaveFails(c) PROVE TypeOK'
  <2>1. disturbed' \in BOOLEAN
    BY <1>7 DEF FetchNothing, SaveFails, TypeOK
  <2> QED
    BY <1>7, <2>1, RestingType DEF FetchNothing, SaveFails, TypeOK, server, local
<1>8. CASE Die
  BY <1>8, RestingType DEF Die, TypeOK, server, local
<1>9. CASE UNCHANGED vars
  BY <1>9 DEF vars, server, local, TypeOK
<1> QED
  BY <1>1, <1>2, <1>3, <1>4, <1>5, <1>6, <1>7, <1>8, <1>9 DEF Next, Sync, Fault
-----------------------------------------------------------------------------
(* What is drawn and what is seen.                                          *)

LEMMA VersionNumbers ==
  ASSUME TypeOK
  PROVE  /\ drawn \in Nat /\ cursor \in Nat
         /\ \A t \in Trips : table[t].version \in Nat /\ writing[t].version \in Nat
         /\ \A c \in Cycles : /\ cycle[c].highest \in Nat /\ cycle[c].since \in Nat
                             /\ \A r \in cycle[c].page : r.trip \in Trips /\ r.row \in Row
                                                        /\ r.row.version \in Nat
BY Numbers DEF TypeOK, Row, CycleState

LEMMA VersionsStep ==
  ASSUME TypeOK, VersionsAreDrawn, [Next]_vars
  PROVE  VersionsAreDrawn'
<1>1. ASSUME NEW t \in Trips, Write(t) PROVE VersionsAreDrawn'
  <2>1. /\ writing' \in [Trips -> Row] /\ writing'[t].version = drawn + 1
        /\ \A u \in Trips \ {t} : writing'[u] = writing[u]
        /\ drawn' = drawn + 1 /\ table' = table
    <3>1. TypeOK'
      BY <1>1, TypeStep DEF Next
    <3> QED
      BY <1>1, <3>1 DEF Write, TypeOK
  <2>2. \A u \in Trips : table[u].version <= drawn /\ writing[u].version <= drawn
    BY DEF VersionsAreDrawn
  <2> QED
    BY <2>1, <2>2, VersionNumbers DEF VersionsAreDrawn
<1>2. ASSUME NEW t \in Trips, Commit(t) PROVE VersionsAreDrawn'
  <2>1. /\ table'[t] = writing[t] /\ writing'[t] = NoRow /\ writing[t] # NoRow
        /\ \A u \in Trips \ {t} : table'[u] = table[u] /\ writing'[u] = writing[u]
        /\ drawn' = drawn
    BY <1>2 DEF Commit, TypeOK
  <2>2. writing[t].version > 0 /\ NoRow.version = 0
    BY <2>1, VersionNumbers DEF VersionsAreDrawn, NoRow
  <2> QED
    BY <2>1, <2>2, VersionNumbers DEF VersionsAreDrawn
<1>3. ASSUME NEW t \in Trips, Abort(t) PROVE VersionsAreDrawn'
  <2>1. /\ writing'[t] = NoRow /\ NoRow.version = 0
        /\ \A u \in Trips \ {t} : writing'[u] = writing[u]
        /\ table' = table /\ drawn' = drawn
    BY <1>3 DEF Abort, TypeOK, NoRow
  <2> QED
    BY <2>1, VersionNumbers DEF VersionsAreDrawn
<1>4. CASE UNCHANGED server
  BY <1>4 DEF VersionsAreDrawn, server
<1> QED
  BY <1>1, <1>2, <1>3, <1>4 DEF Next, End, Sync, Fault, Begin, Fetch, Apply, Save, FetchNothing,
     ApplyFails, SaveFails, Die, vars

LEMMA CommittedStays ==
  ASSUME TypeOK, VersionsAreDrawn, [Next]_vars
  PROVE  \A t \in Trips : table[t].version <= table'[t].version
<1>1. ASSUME NEW t \in Trips, Commit(t) PROVE \A u \in Trips : table[u].version <= table'[u].version
  BY <1>1, VersionNumbers DEF Commit, TypeOK, VersionsAreDrawn
<1>2. CASE UNCHANGED table
  BY <1>2, VersionNumbers
<1> QED
  BY <1>1, <1>2 DEF Next, Write, Abort, End, Sync, Fault, Begin, Fetch, Apply, Save, FetchNothing,
     ApplyFails, SaveFails, Die, vars, server

\* What the sync cycles hold, after the step.
LEMMA PulledRows ==
  ASSUME TypeOK, VersionsAreDrawn, NEW c \in Cycles, Fetch(c)
  PROVE  /\ \A d \in Cycles \ {c} : cycle'[d] = cycle[d]
         /\ cycle'[c].highest = 0
         /\ \A r \in cycle'[c].page : /\ r.trip \in Page(cycle[c].since) /\ r.row = table[r.trip]
                                     /\ r.trip \in Trips /\ r.row.version \in 1..table[r.trip].version
         /\ cycle'[c] = Resting \/ (/\ cycle'[c].pc = "apply"
                                   /\ \A t \in Page(cycle[c].since) :
                                        [trip |-> t, row |-> table[t]] \in cycle'[c].page)
<1> DEFINE page == {[trip |-> t, row |-> table[t]] : t \in Page(cycle[c].since)}
<1>1. cycle' = [cycle EXCEPT ![c] = IF page = {} THEN Resting
                                    ELSE [Resting EXCEPT !.pc = "apply", !.page = page]]
  BY DEF Fetch
<1>2. \A t \in Page(cycle[c].since) : t \in Trips /\ table[t].version \in 1..table[t].version
  <2>1. \A t \in Page(cycle[c].since) : t \in Trips /\ (table[t].version > cycle[c].since \/ table[t].open)
    BY DEF Page, Matches
  <2>2. \A t \in Trips : table[t].version = 0 => ~table[t].open
    BY DEF VersionsAreDrawn, NoRow
  <2> QED
    BY <2>1, <2>2, VersionNumbers
<1> HIDE DEF page
<1>3. \A d \in Cycles \ {c} : cycle'[d] = cycle[d]
  BY <1>1 DEF TypeOK
<1>4. cycle'[c].highest = 0 /\ cycle'[c].page = page
      /\ (cycle'[c] = Resting \/ cycle'[c].pc = "apply")
  BY <1>1 DEF TypeOK, Resting
<1> QED
  BY <1>2, <1>3, <1>4 DEF page

LEMMA CommittedRemains ==
  ASSUME TypeOK, VersionsAreDrawn, [Next]_vars
  PROVE  \A v \in Nat : Committed(v) => v = 0 \/ \E t \in Trips : v <= table'[t].version
<1> SUFFICES ASSUME NEW v \in Nat, NEW t \in Trips, v <= table[t].version
             PROVE  v <= table'[t].version
  BY DEF Committed
<1>1. table[t].version \in Nat /\ table'[t].version \in Nat
  <2>1. TypeOK'
    BY TypeStep
  <2> QED
    BY <2>1, Numbers DEF TypeOK, Row
<1> QED
  BY <1>1, CommittedStays

\* A cycle begins, or ends.
LEMMA OneCycleSet ==
  ASSUME TypeOK, NEW c \in Cycles, NEW k, cycle' = [cycle EXCEPT ![c] = k]
  PROVE  cycle'[c] = k /\ \A d \in Cycles \ {c} : cycle'[d] = cycle[d]
BY DEF TypeOK

LEMMA RestingHolds == Resting.page = {} /\ Resting.highest = 0 /\ Resting.pc = "idle"
BY DEF Resting

LEMMA AskingHolds ==
  /\ [Resting EXCEPT !.pc = "ask", !.since = Since].page = {}
  /\ [Resting EXCEPT !.pc = "ask", !.since = Since].highest = 0
  /\ [Resting EXCEPT !.pc = "ask", !.since = Since].pc = "ask"
  /\ [Resting EXCEPT !.pc = "ask", !.since = Since].since = Since
BY DEF Resting

LEMMA NothingHeld ==
  ASSUME TypeOK, NEW c \in Cycles, NEW k, k.page = {}, k.highest = 0,
         cycle' = [cycle EXCEPT ![c] = k]
  PROVE  \A d \in Cycles : cycle'[d] = cycle[d] \/ (cycle'[d].page = {} /\ cycle'[d].highest = 0)
<1>1. cycle'[c] = k /\ \A d \in Cycles \ {c} : cycle'[d] = cycle[d]
  BY DEF TypeOK
<1> QED
  BY <1>1

\* A cycle takes a row off its page, and counts it or does not.
LEMMA PageShrinks ==
  ASSUME TypeOK, NEW c \in Cycles, NEW r \in cycle[c].page,
         cycle' \in {[cycle EXCEPT ![c].page = @ \ {r}],
                     [cycle EXCEPT ![c].page = @ \ {r}, ![c].highest = Max({@, r.row.version})]}
  PROVE  /\ \A d \in Cycles \ {c} : cycle'[d] = cycle[d]
         /\ cycle'[c].page = cycle[c].page \ {r}
         /\ cycle'[c].pc = cycle[c].pc
         /\ cycle'[c].highest \in {cycle[c].highest, Max({cycle[c].highest, r.row.version})}
         /\ cycle'[c].highest \in {cycle[c].highest, r.row.version}
<1>1. /\ \A d \in Cycles \ {c} : cycle'[d] = cycle[d]
      /\ cycle'[c].page = cycle[c].page \ {r}
      /\ cycle'[c].pc = cycle[c].pc
      /\ cycle'[c].highest \in {cycle[c].highest, Max({cycle[c].highest, r.row.version})}
  BY DEF TypeOK, CycleState
<1>2. cycle[c].highest \in Nat /\ r.row.version \in Nat
  BY VersionNumbers
<1>3. Max({cycle[c].highest, r.row.version}) \in {cycle[c].highest, r.row.version}
  BY <1>2, MaxOfTwo
<1> QED
  BY <1>1, <1>3

LEMMA SeenStep ==
  ASSUME TypeOK, VersionsAreDrawn, SeenIsCommitted, [Next]_vars
  PROVE  SeenIsCommitted'
<1>1. /\ Committed(cursor)
      /\ \A c \in Cycles :
           /\ Committed(cycle[c].highest)
           /\ \A r \in cycle[c].page : r.row.version \in 1..table[r.trip].version
           /\ ~At(c, "apply") => cycle[c].page = {} /\ cycle[c].highest = 0
  BY DEF SeenIsCommitted
<1>2. \A t \in Trips : /\ table[t].version \in Nat /\ table'[t].version \in Nat
                       /\ table[t].version <= table'[t].version
  <2>1. TypeOK'
    BY TypeStep
  <2> QED
    BY <2>1, CommittedStays, Numbers DEF TypeOK, Row
<1>3. /\ cursor = 0 \/ \E t \in Trips : cursor <= table'[t].version
      /\ \A c \in Cycles :
           /\ cycle[c].highest = 0 \/ \E t \in Trips : cycle[c].highest <= table'[t].version
           /\ \A r \in cycle[c].page :
                /\ r.row.version \in 1..table'[r.trip].version
                /\ \E t \in Trips : r.row.version <= table'[t].version
  <2>1. \A c \in Cycles : \A r \in cycle[c].page :
          /\ r.row.version \in 1..table'[r.trip].version
          /\ \E t \in Trips : r.row.version <= table'[t].version
    BY <1>1, <1>2, VersionNumbers
  <2> QED
    BY <1>1, <2>1, CommittedRemains, VersionNumbers
<1> DEFINE Seen(d) ==
      /\ cycle'[d].highest = 0 \/ \E t \in Trips : cycle'[d].highest <= table'[t].version
      /\ \A r \in cycle'[d].page : r.row.version \in 1..table'[r.trip].version
      /\ cycle'[d].pc # "apply" => cycle'[d].page = {} /\ cycle'[d].highest = 0
<1>4. ASSUME NEW d \in Cycles, cycle'[d] = cycle[d] PROVE Seen(d)
  BY <1>1, <1>3, <1>4 DEF At
<1>5. ASSUME NEW d \in Cycles, cycle'[d].page = {}, cycle'[d].highest = 0 PROVE Seen(d)
  BY <1>5
<1>6. ASSUME cursor' = cursor, \A d \in Cycles : Seen(d) PROVE SeenIsCommitted'
  BY <1>3, <1>6 DEF SeenIsCommitted, Committed, At
<1> HIDE DEF Seen
<1>7. CASE UNCHANGED <<cursor, cycle>>
  BY <1>4, <1>6, <1>7
<1>8. ASSUME NEW c \in Cycles, Begin(c) PROVE SeenIsCommitted'
  <2>1. \A d \in Cycles : cycle'[d] = cycle[d] \/ (cycle'[d].page = {} /\ cycle'[d].highest = 0)
    BY <1>8, NothingHeld, AskingHolds DEF Begin
  <2> QED
    BY <1>4, <1>5, <1>6, <1>8, <2>1 DEF Begin, local
<1>9. ASSUME NEW c \in Cycles, Fetch(c) PROVE SeenIsCommitted'
  <2>1. Seen(c)
    <3>1. cycle'[c] = Resting \/ cycle'[c].pc = "apply"
      BY <1>9, PulledRows
    <3>2. \A r \in cycle'[c].page : r.row.version \in 1..table'[r.trip].version
      BY <1>2, <1>9, PulledRows
    <3>3. cycle'[c].highest = 0
      BY <1>9, PulledRows
    <3> QED
      BY <3>1, <3>2, <3>3 DEF Seen, Resting
  <2> QED
    BY <1>4, <1>6, <1>9, <2>1, PulledRows DEF Fetch, local
<1>10. ASSUME NEW c \in Cycles, Apply(c) \/ ApplyFails(c) PROVE SeenIsCommitted'
  <2>1. PICK r \in cycle[c].page :
          cycle' \in {[cycle EXCEPT ![c].page = @ \ {r}],
                      [cycle EXCEPT ![c].page = @ \ {r}, ![c].highest = Max({@, r.row.version})]}
    BY <1>10, FirstInPage DEF Apply, ApplyFails
  <2>2. /\ \A d \in Cycles \ {c} : cycle'[d] = cycle[d]
        /\ cycle'[c].page = cycle[c].page \ {r}
        /\ cycle'[c].pc = "apply"
        /\ cycle'[c].highest \in {cycle[c].highest, r.row.version}
    BY <1>10, <2>1, PageShrinks DEF Apply, ApplyFails, At
  <2>3. Seen(c)
    BY <1>3, <2>2 DEF Seen
  <2> QED
    BY <1>4, <1>6, <1>10, <2>2, <2>3 DEF Apply, ApplyFails, local
<1>11. ASSUME NEW c \in Cycles, Save(c) PROVE SeenIsCommitted'
  <2>1. cursor' \in {cursor, cycle[c].highest}
    BY <1>11, MaxOfTwo, VersionNumbers DEF Save
  <2>2. \A d \in Cycles : Seen(d)
    <3>1. \A d \in Cycles : cycle'[d] = cycle[d] \/ (cycle'[d].page = {} /\ cycle'[d].highest = 0)
      BY <1>11, NothingHeld, RestingHolds DEF Save
    <3> QED
      BY <1>4, <1>5, <3>1
  <2> QED
    BY <1>3, <2>1, <2>2 DEF SeenIsCommitted, Committed, At, Seen
<1>12. ASSUME NEW c \in Cycles, FetchNothing(c) \/ SaveFails(c) PROVE SeenIsCommitted'
  <2>1. \A d \in Cycles : cycle'[d] = cycle[d] \/ (cycle'[d].page = {} /\ cycle'[d].highest = 0)
    BY <1>12, NothingHeld, RestingHolds DEF FetchNothing, SaveFails
  <2> QED
    BY <1>4, <1>5, <1>6, <1>12, <2>1 DEF FetchNothing, SaveFails, local
<1>13. CASE Die
  <2>1. \A d \in Cycles : cycle'[d].page = {} /\ cycle'[d].highest = 0
    BY <1>13 DEF Die, Resting
  <2> QED
    BY <1>5, <1>6, <1>13, <2>1 DEF Die, local
<1> QED
  BY <1>7, <1>8, <1>9, <1>10, <1>11, <1>12, <1>13 DEF Next, Write, End, Commit, Abort, Sync, Fault,
     vars, local
-----------------------------------------------------------------------------
(* A pull that nothing disturbs.                                            *)

LEMMA OthersRest ==
  ASSUME SeenIsCommitted, OnePull, NEW c \in Cycles, ~At(c, "idle")
  PROVE  \A d \in Cycles \ {c} : /\ cycle[d].pc = "idle"
                                 /\ cycle[d].page = {} /\ cycle[d].highest = 0
<1>1. \A d \in Cycles \ {c} : cycle[d].pc = "idle"
  BY DEF OnePull, Pulls, At
<1> QED
  BY <1>1 DEF SeenIsCommitted, At

\* The server draws a version, or a transaction aborts.
LEMMA UndisturbedServer ==
  ASSUME Undisturbed, UNCHANGED <<table, late, local, cycle, unapplied>>
  PROVE  Undisturbed'
<1>1. UNCHANGED <<table, late, phone, cursor, cycle, unapplied>>
  BY DEF local
<1> QED
  BY <1>1 DEF Undisturbed, OnePull, StartsFromCursor, FirstPullIsFirst, Owed, PageIsNews, Passed,
     Settled, UpToDate, Pulls, At

\* A row committed is ahead of all the phone has seen, or late.
LEMMA UndisturbedCommit ==
  ASSUME TypeOK, VersionsAreDrawn, SeenIsCommitted, Undisturbed, NEW t \in Trips, Commit(t)
  PROVE  Undisturbed'
<1>1. /\ table'[t] = writing[t]
      /\ \A u \in Trips \ {t} : table'[u] = table[u]
      /\ \A u \in Trips \ {t} : u \in late' <=> u \in late
      /\ UNCHANGED <<phone, cursor, cycle, unapplied>>
  BY DEF Commit, TypeOK, local
<1>2. t \in late' \/ ~Passed(t)'
  <2> SUFFICES ASSUME t \notin late' PROVE ~Passed(t)'
    OBVIOUS
  <2>1. \A u \in Trips : table[u].version < writing[t].version
    <3>1. \A u \in Trips : ~(table[u].version > writing[t].version)
      BY DEF Commit
    <3>2. writing[t].version > table[t].version
      BY DEF Commit, VersionsAreDrawn
    <3>3. \A u \in Trips \ {t} : writing[t].version # table[u].version
      BY DEF Commit, VersionsAreDrawn
    <3> QED
      BY <3>1, <3>2, <3>3, VersionNumbers
  <2>2. \A v \in Nat : Committed(v) => v < writing[t].version
    BY <2>1, VersionNumbers DEF Committed
  <2>3. cursor < writing[t].version
    BY <2>2, VersionNumbers DEF SeenIsCommitted
  <2>4. \A c \in Cycles : cycle[c].highest < writing[t].version
    BY <2>2, VersionNumbers DEF SeenIsCommitted
  <2>5. \A c \in Cycles : \A r \in cycle[c].page : r.row.version < writing[t].version
    <3>1. \A c \in Cycles : \A r \in cycle[c].page :
            r.trip \in Trips /\ r.row.version \in Nat /\ r.row.version <= table[r.trip].version
      BY VersionNumbers DEF SeenIsCommitted
    <3> QED
      BY <2>1, <3>1, VersionNumbers
  <2> QED
    BY <1>1, <2>3, <2>4, <2>5, VersionNumbers DEF Passed
<1>3. \A u \in Trips \ {t} : (Passed(u)' <=> Passed(u)) /\ (Settled(u)' <=> Settled(u))
  BY <1>1 DEF Passed, Settled, UpToDate
<1>4. OnePull' /\ StartsFromCursor' /\ FirstPullIsFirst'
  BY <1>1 DEF Undisturbed, OnePull, StartsFromCursor, FirstPullIsFirst, Pulls, At
<1>5. Owed'
  <2> SUFFICES ASSUME NEW u \in Trips, table'[u].version > 0, Passed(u)'
               PROVE  Settled(u)' \/ \E c \in Cycles : [trip |-> u, row |-> table'[u]] \in cycle'[c].page
    BY DEF Owed
  <2>1. CASE u = t
    BY <1>2, <2>1 DEF Settled
  <2>2. CASE u # t
    BY <1>1, <1>3, <2>2 DEF Undisturbed, Owed
  <2> QED
    BY <2>1, <2>2
<1>6. PageIsNews'
  <2> SUFFICES ASSUME NEW c \in Cycles, NEW r \in cycle'[c].page
               PROVE  /\ r.row.version > cursor' \/ r.row.open
                      /\ table'[r.trip] = r.row \/ r.trip \in late' \/ ~Passed(r.trip)'
    BY DEF PageIsNews
  <2>1. /\ r \in cycle[c].page /\ r.trip \in Trips
        /\ r.row.version > cursor \/ r.row.open
        /\ table[r.trip] = r.row \/ r.trip \in late \/ ~Passed(r.trip)
    BY <1>1, VersionNumbers DEF Undisturbed, PageIsNews
  <2>2. CASE r.trip = t
    BY <1>1, <1>2, <2>1, <2>2
  <2>3. CASE r.trip # t
    BY <1>1, <1>3, <2>1, <2>3
  <2> QED
    BY <2>2, <2>3
<1> QED
  BY <1>4, <1>5, <1>6 DEF Undisturbed

\* A pull begins alone, at the cursor.
LEMMA UndisturbedBegin ==
  ASSUME TypeOK, SeenIsCommitted, Undisturbed, NEW c \in Cycles, Begin(c), Alone(c)
  PROVE  Undisturbed'
<1>1. \A d \in Cycles : /\ cycle[d].pc = "idle"
                        /\ cycle[d].page = {} /\ cycle[d].highest = 0
  BY DEF Begin, Alone, SeenIsCommitted, At
<1>2. Since = cursor
  <2>1. CASE cursor # 0
    BY <2>1 DEF Since
  <2>2. CASE cursor = 0
    <3>1. \A t \in Trips : phone[t].version = 0
      BY <1>1, <2>2 DEF Undisturbed, FirstPullIsFirst, NoCopy
    <3>2. {phone[t].version : t \in Trips} \cup {0} = {0}
      BY <3>1
    <3>3. Max({0}) = 0
      BY DEF Max
    <3> QED
      BY <2>2, <3>2, <3>3 DEF Since
  <2> QED
    BY <2>1, <2>2
<1>3. UNCHANGED <<table, late, phone, cursor, unapplied>>
  BY DEF Begin, server, local
<1>4. /\ \A d \in Cycles \ {c} : cycle'[d] = cycle[d]
      /\ cycle'[c].pc = "ask" /\ cycle'[c].since = cursor
      /\ cycle'[c].page = {} /\ cycle'[c].highest = 0
  BY <1>2, OneCycleSet, AskingHolds DEF Begin
<1>5. \A d \in Cycles : cycle'[d].page = {} /\ cycle'[d].highest = 0
  BY <1>1, <1>4
<1>6. OnePull' /\ StartsFromCursor'
  BY <1>1, <1>3, <1>4 DEF OnePull, StartsFromCursor, Pulls, At
<1>7. FirstPullIsFirst'
  BY <1>1, <1>3 DEF Undisturbed, FirstPullIsFirst
<1>8. \A t \in Trips : (Passed(t)' => Passed(t)) /\ (Settled(t)' <=> Settled(t))
  BY <1>1, <1>3, <1>5 DEF Passed, Settled, UpToDate
<1>9. Owed' /\ PageIsNews'
  BY <1>1, <1>3, <1>5, <1>8 DEF Undisturbed, Owed, PageIsNews
<1> QED
  BY <1>6, <1>7, <1>9 DEF Undisturbed

\* Every cycle has ended, and the rows still on a page were not passed, or are open.
LEMMA UndisturbedEnd ==
  ASSUME TypeOK, SeenIsCommitted, Undisturbed,
         UNCHANGED <<table, late, phone, cursor, unapplied>>,
         cursor # 0 \/ \A c \in Cycles : cycle[c].highest = 0,
         \A c \in Cycles : /\ cycle'[c].pc = "idle"
                           /\ cycle'[c].page = {} /\ cycle'[c].highest = 0
  PROVE  Undisturbed'
<1>1. OnePull' /\ StartsFromCursor' /\ PageIsNews'
  BY DEF OnePull, StartsFromCursor, PageIsNews, Pulls, At
<1>2. FirstPullIsFirst'
  BY DEF Undisturbed, FirstPullIsFirst
<1>3. Owed'
  <2> SUFFICES ASSUME NEW t \in Trips, table'[t].version > 0, Passed(t)'
               PROVE  Settled(t)'
    BY DEF Owed
  <2>1. table[t].version <= cursor /\ Passed(t) /\ table[t].version > 0
    BY VersionNumbers DEF Passed
  <2>2. Settled(t)' <=> Settled(t)
    BY DEF Settled, UpToDate
  <2>3. Settled(t) \/ \E c \in Cycles : [trip |-> t, row |-> table[t]] \in cycle[c].page
    BY <2>1 DEF Undisturbed, Owed
  <2>4. ASSUME NEW c \in Cycles, [trip |-> t, row |-> table[t]] \in cycle[c].page
        PROVE  Settled(t)
    <3>1. table[t].version > cursor \/ table[t].open
      BY <2>4 DEF Undisturbed, PageIsNews
    <3> QED
      BY <2>1, <3>1, VersionNumbers DEF Settled
  <2> QED
    BY <2>2, <2>3, <2>4
<1> QED
  BY <1>1, <1>2, <1>3 DEF Undisturbed

\* Of the rows that match, a page has all up to its last one.
LEMMA PageIsPrefix ==
  ASSUME TypeOK, NEW since \in Nat, NEW u \in Page(since), NEW t \in Matches(since),
         table[t].version <= table[u].version
  PROVE  t \in Page(since)
<1> DEFINE Below(w) == {x \in Matches(since) : table[x].version < table[w].version}
<1>1. u \in Matches(since) /\ Cardinality(Below(u)) < Limit
  BY DEF Page
<1>2. Below(t) \subseteq Below(u)
  <2>1. Matches(since) \subseteq Trips
    BY DEF Matches
  <2> QED
    BY <1>1, <2>1, VersionNumbers
<1>3. IsFiniteSet(Below(u))
  <2>1. Below(u) \subseteq Trips
    BY DEF Matches
  <2> QED
    BY <2>1, SyncPullAssumption, FS_Subset
<1> HIDE DEF Below
<1>4. /\ Cardinality(Below(t)) <= Cardinality(Below(u))
      /\ IsFiniteSet(Below(t))
  BY <1>2, <1>3, FS_Subset
<1>5. Cardinality(Below(t)) \in Nat /\ Cardinality(Below(u)) \in Nat
  BY <1>3, <1>4, FS_CardinalityType
<1>6. Cardinality(Below(t)) < Limit
  BY <1>1, <1>4, <1>5, SyncPullAssumption
<1> QED
  BY <1>6 DEF Page, Below

\* The answer: what it leaves out below its last row, the cursor had passed.
LEMMA UndisturbedFetch ==
  ASSUME TypeOK, VersionsAreDrawn, SeenIsCommitted, Undisturbed, NEW c \in Cycles, Fetch(c)
  PROVE  Undisturbed'
<1>1. UNCHANGED <<table, late, phone, cursor, unapplied>> /\ cycle[c].pc = "ask"
  BY DEF Fetch, server, local, At
<1>2. /\ cycle[c].page = {} /\ cycle[c].highest = 0 /\ cycle[c].since = cursor
      /\ cursor \in Nat
  BY <1>1, VersionNumbers DEF SeenIsCommitted, Undisturbed, StartsFromCursor, At
<1>3. \A d \in Cycles \ {c} : /\ cycle[d].pc = "idle"
                              /\ cycle[d].page = {} /\ cycle[d].highest = 0
  BY <1>1, OthersRest DEF Undisturbed, At
<1>4. \A d \in Cycles \ {c} : cycle'[d] = cycle[d]
  BY PulledRows
<1>5. CASE cycle'[c] = Resting
  <2>1. \A d \in Cycles : /\ cycle'[d].pc = "idle"
                          /\ cycle'[d].page = {} /\ cycle'[d].highest = 0
    BY <1>3, <1>4, <1>5, RestingHolds
  <2> QED
    BY <1>1, <1>2, <1>3, <2>1, UndisturbedEnd
<1>6. CASE cycle'[c] # Resting
  <2>1. /\ cycle'[c].highest = 0 /\ cycle'[c].pc = "apply"
        /\ \A t \in Page(cursor) : [trip |-> t, row |-> table[t]] \in cycle'[c].page
        /\ \A r \in cycle'[c].page : /\ r.trip \in Page(cursor) /\ r.row = table[r.trip]
                                    /\ r.trip \in Trips
    BY <1>2, <1>6, PulledRows
  <2>2. OnePull' /\ StartsFromCursor'
    BY <1>3, <1>4, <2>1 DEF OnePull, StartsFromCursor, Pulls, At
  <2>3. FirstPullIsFirst'
    BY <1>1, <1>2, <1>3 DEF Undisturbed, FirstPullIsFirst
  <2>4. PageIsNews'
    <3>1. \A t \in Page(cursor) : table[t].version > cursor \/ table[t].open
      BY DEF Page, Matches
    <3> QED
      BY <1>1, <1>3, <1>4, <2>1, <3>1 DEF PageIsNews
  <2>5. Owed'
    <3> SUFFICES ASSUME NEW t \in Trips, table'[t].version > 0, Passed(t)'
                 PROVE  Settled(t)' \/ [trip |-> t, row |-> table[t]] \in cycle'[c].page
      BY <1>1 DEF Owed
    <3>1. \/ table[t].version <= cursor
          \/ \E r \in cycle'[c].page : table[t].version <= r.row.version
      BY <1>1, <1>3, <1>4, <2>1, VersionNumbers DEF Passed
    <3>2. Settled(t)' <=> Settled(t)
      BY <1>1 DEF Settled, UpToDate
    <3>3. CASE table[t].version <= cursor
      <4>1. Passed(t)
        BY <3>3 DEF Passed
      <4> QED
        BY <1>1, <1>2, <1>3, <3>2, <4>1 DEF Undisturbed, Owed
    <3>4. CASE ~(table[t].version <= cursor)
      <4>1. PICK r \in cycle'[c].page : table[t].version <= r.row.version
        BY <3>1, <3>4
      <4>2. t \in Matches(cursor)
        BY <1>2, <3>4, VersionNumbers DEF Matches
      <4>3. r.trip \in Page(cursor) /\ table[t].version <= table[r.trip].version
        BY <2>1, <4>1
      <4>4. t \in Page(cursor)
        BY <1>2, <4>2, <4>3, PageIsPrefix
      <4> QED
        BY <2>1, <4>4
    <3> QED
      BY <3>3, <3>4
  <2> QED
    BY <2>2, <2>3, <2>4, <2>5 DEF Undisturbed
<1> QED
  BY <1>5, <1>6

\* A row is stored, or cannot be.
LEMMA UndisturbedApply ==
  ASSUME TypeOK, SeenIsCommitted, Undisturbed, NEW c \in Cycles, NEW r \in cycle[c].page,
         At(c, "apply"), UNCHANGED <<table, late, cursor>>,
         \/ /\ cycle' = [cycle EXCEPT ![c].page = @ \ {r},
                                      ![c].highest = Max({@, r.row.version})]
            /\ phone' = [phone EXCEPT ![r.trip] = Copy(r.row)]
            /\ unapplied' = unapplied \ {r.trip}
         \/ /\ cycle' = [cycle EXCEPT ![c].page = @ \ {r}]
            /\ phone' = phone
            /\ unapplied' = unapplied \cup {r.trip}
  PROVE  Undisturbed'
<1>1. /\ \A d \in Cycles \ {c} : cycle'[d] = cycle[d]
      /\ cycle'[c].page = cycle[c].page \ {r}
      /\ cycle'[c].pc = "apply"
      /\ cycle'[c].highest \in {cycle[c].highest, r.row.version}
  BY PageShrinks DEF At
<1>2. \A d \in Cycles \ {c} : /\ cycle[d].pc = "idle"
                              /\ cycle[d].page = {} /\ cycle[d].highest = 0
  BY OthersRest DEF Undisturbed, At
<1>3. r.trip \in Trips /\ r.row.version \in Nat /\ r.row.version > 0
  BY VersionNumbers DEF SeenIsCommitted
<1>4. \A t \in Trips : Passed(t)' => Passed(t)
  BY <1>1, VersionNumbers DEF Passed
<1>5. /\ \A t \in Trips \ {r.trip} : /\ phone'[t] = phone[t]
                                     /\ t \in unapplied' <=> t \in unapplied
      /\ r.trip \in unapplied' \/ phone'[r.trip] = Copy(r.row)
  BY <1>3 DEF TypeOK
<1>6. OnePull' /\ StartsFromCursor'
  BY <1>1, <1>2 DEF OnePull, StartsFromCursor, Pulls, At
<1>7. FirstPullIsFirst'
  <2>1. CASE cycle' = [cycle EXCEPT ![c].page = @ \ {r},
                                    ![c].highest = Max({@, r.row.version})]
    <3>1. cycle'[c].highest = Max({cycle[c].highest, r.row.version})
      BY <2>1 DEF TypeOK, CycleState
    <3>2. Max({cycle[c].highest, r.row.version}) >= r.row.version
      BY <1>3, MaxOfTwo, VersionNumbers
    <3>3. cycle'[c].highest # 0
      BY <1>3, <3>1, <3>2
    <3> QED
      BY <3>3 DEF FirstPullIsFirst
  <2>2. CASE cycle' = [cycle EXCEPT ![c].page = @ \ {r}] /\ phone' = phone
    <3>1. \A d \in Cycles : cycle'[d].highest = cycle[d].highest
      BY <2>2 DEF TypeOK, CycleState
    <3> QED
      BY <2>2, <3>1 DEF Undisturbed, FirstPullIsFirst
  <2> QED
    BY <2>1, <2>2
<1>8. PageIsNews'
  <2> SUFFICES ASSUME NEW d \in Cycles, NEW s \in cycle'[d].page
               PROVE  /\ s.row.version > cursor \/ s.row.open
                      /\ table[s.trip] = s.row \/ s.trip \in late \/ ~Passed(s.trip)'
    BY DEF PageIsNews
  <2>1. s \in cycle[d].page
    BY <1>1
  <2> QED
    BY <1>4, <2>1, VersionNumbers DEF Undisturbed, PageIsNews
<1>9. Owed'
  <2> SUFFICES ASSUME NEW t \in Trips, table[t].version > 0, Passed(t)'
               PROVE  Settled(t)' \/ [trip |-> t, row |-> table[t]] \in cycle'[c].page
    BY DEF Owed
  <2>1. Settled(t) \/ [trip |-> t, row |-> table[t]] \in cycle[c].page
    BY <1>2, <1>4 DEF Undisturbed, Owed
  <2>2. CASE t = r.trip
    <3>1. table[t] = r.row \/ t \in late
      BY <1>4, <2>2 DEF Undisturbed, PageIsNews
    <3> QED
      BY <1>5, <2>2, <3>1 DEF Settled, UpToDate
  <2>3. CASE t # r.trip
    <3>1. Settled(t)' <=> Settled(t)
      BY <1>5, <2>3 DEF Settled, UpToDate
    <3> QED
      BY <1>1, <2>1, <2>3, <3>1
  <2> QED
    BY <2>2, <2>3
<1> QED
  BY <1>6, <1>7, <1>8, <1>9 DEF Undisturbed

\* The page has been dealt with, and the cursor goes to its last row.
LEMMA UndisturbedSave ==
  ASSUME TypeOK, SeenIsCommitted, Undisturbed, NEW c \in Cycles, Save(c)
  PROVE  Undisturbed'
<1>1. /\ UNCHANGED <<table, late, phone, unapplied>>
      /\ cycle[c].pc = "apply" /\ cycle[c].page = {}
      /\ cursor' = Max({cursor, cycle[c].highest})
  BY DEF Save, server, At
<1>2. \A d \in Cycles \ {c} : /\ cycle[d].pc = "idle"
                              /\ cycle[d].page = {} /\ cycle[d].highest = 0
  BY <1>1, OthersRest DEF Undisturbed, At
<1>3. \A d \in Cycles : /\ cycle'[d].pc = "idle"
                        /\ cycle'[d].page = {} /\ cycle'[d].highest = 0
  <2>1. cycle'[c] = Resting /\ \A d \in Cycles \ {c} : cycle'[d] = cycle[d]
    BY OneCycleSet DEF Save
  <2> QED
    BY <1>2, <2>1, RestingHolds
<1>4. /\ cursor' \in {cursor, cycle[c].highest}
      /\ cursor' >= cursor /\ cursor' >= cycle[c].highest
      /\ cursor \in Nat /\ cycle[c].highest \in Nat
  BY <1>1, MaxOfTwo, VersionNumbers
<1>5. OnePull' /\ StartsFromCursor' /\ PageIsNews'
  BY <1>3 DEF OnePull, StartsFromCursor, PageIsNews, Pulls, At
<1>6. FirstPullIsFirst'
  <2> SUFFICES ASSUME cursor' = 0 PROVE \A t \in Trips : phone[t] = NoCopy
    BY <1>1 DEF FirstPullIsFirst
  <2>1. cursor = 0 /\ cycle[c].highest = 0
    BY <1>4
  <2> QED
    BY <1>2, <2>1 DEF Undisturbed, FirstPullIsFirst
<1>7. Owed'
  <2> SUFFICES ASSUME NEW t \in Trips, table[t].version > 0, Passed(t)' PROVE Settled(t)'
    BY <1>1 DEF Owed
  <2>1. table[t].version <= cursor'
    BY <1>1, <1>3, VersionNumbers DEF Passed
  <2>2. Passed(t)
    BY <1>4, <2>1 DEF Passed
  <2>3. Settled(t)
    BY <1>1, <1>2, <2>2 DEF Undisturbed, Owed
  <2> QED
    BY <1>1, <2>3 DEF Settled, UpToDate
<1> QED
  BY <1>5, <1>6, <1>7 DEF Undisturbed

LEMMA UndisturbedStep ==
  ASSUME TypeOK, VersionsAreDrawn, SeenIsCommitted, Undisturbed, ~disturbed, ~disturbed',
         [Next]_vars
  PROVE  Undisturbed'
<1>1. ASSUME NEW t \in Trips, Write(t) \/ End(t) PROVE Undisturbed'
  BY <1>1, UndisturbedServer, UndisturbedCommit DEF Write, End, Abort
<1>2. ASSUME NEW c \in Cycles, Begin(c) PROVE Undisturbed'
  BY <1>2, UndisturbedBegin DEF Begin
<1>3. ASSUME NEW c \in Cycles, Fetch(c) PROVE Undisturbed'
  BY <1>3, UndisturbedFetch
<1>4. ASSUME NEW c \in Cycles, Apply(c) PROVE Undisturbed'
  <2>1. PICK r \in cycle[c].page :
          /\ phone' = [phone EXCEPT ![r.trip] = Copy(r.row)]
          /\ unapplied' = unapplied \ {r.trip}
          /\ cycle' = [cycle EXCEPT ![c].page = @ \ {r}, ![c].highest = Max({@, r.row.version})]
    BY <1>4, FirstInPage DEF Apply
  <2> QED
    BY <1>4, <2>1, UndisturbedApply DEF Apply, server
<1>5. ASSUME NEW c \in Cycles, ApplyFails(c) PROVE Undisturbed'
  <2>1. PICK r \in cycle[c].page :
          /\ unapplied' = unapplied \cup {r.trip}
          /\ cycle' = [cycle EXCEPT ![c].page = @ \ {r}]
    BY <1>5, FirstInPage DEF ApplyFails
  <2> QED
    BY <1>5, <2>1, UndisturbedApply DEF ApplyFails, server, local
<1>6. ASSUME NEW c \in Cycles, Save(c) PROVE Undisturbed'
  BY <1>6, UndisturbedSave
<1>7. ASSUME NEW c \in Cycles, FetchNothing(c) \/ SaveFails(c) PROVE Undisturbed'
  <2>1. /\ UNCHANGED <<table, late, phone, cursor, unapplied>>
        /\ cycle' = [cycle EXCEPT ![c] = Resting]
        /\ ~At(c, "idle")
    BY <1>7 DEF FetchNothing, SaveFails, server, local, At
  <2>2. \A d \in Cycles \ {c} : /\ cycle[d].pc = "idle"
                                /\ cycle[d].page = {} /\ cycle[d].highest = 0
    BY <2>1, OthersRest DEF Undisturbed
  <2>3. cycle'[c] = Resting /\ \A d \in Cycles \ {c} : cycle'[d] = cycle[d]
    BY <2>1, OneCycleSet
  <2>4. \A d \in Cycles : /\ cycle'[d].pc = "idle"
                          /\ cycle'[d].page = {} /\ cycle'[d].highest = 0
    BY <2>2, <2>3, RestingHolds
  <2>5. cursor # 0 \/ \A d \in Cycles : cycle[d].highest = 0
    <3>1. CASE FetchNothing(c)
      <4>1. cycle[c].highest = 0
        BY <3>1 DEF FetchNothing, SeenIsCommitted, At
      <4> QED
        BY <2>2, <4>1
    <3>2. CASE SaveFails(c)
      BY <3>2 DEF SaveFails
    <3> QED
      BY <1>7, <3>1, <3>2
  <2> QED
    BY <2>1, <2>4, <2>5, UndisturbedEnd
<1>8. CASE Die
  <2>1. \A d \in Cycles : /\ cycle'[d].pc = "idle"
                          /\ cycle'[d].page = {} /\ cycle'[d].highest = 0
    BY <1>8, RestingHolds DEF Die
  <2>2. UNCHANGED <<table, late, phone, cursor, unapplied>> /\ cursor # 0
    BY <1>8 DEF Die, server, local
  <2> QED
    BY <2>1, <2>2, UndisturbedEnd
<1>9. CASE UNCHANGED vars
  BY <1>9, UndisturbedServer DEF vars, server
<1> QED
  BY <1>1, <1>2, <1>3, <1>4, <1>5, <1>6, <1>7, <1>8, <1>9 DEF Next, Sync, Fault

LEMMA InitIInv == Init => IInv
<1> SUFFICES ASSUME Init PROVE IInv
  OBVIOUS
<1>1. TypeOK
  BY InitType
<1>2. /\ writing = [t \in Trips |-> NoRow] /\ phone = [t \in Trips |-> NoCopy]
      /\ cursor = 0 /\ drawn = Cardinality(Trips)
      /\ \A c \in Cycles : cycle[c] = Resting
  BY DEF Init
<1>3. \A t \in Trips : /\ table[t] # NoRow => table[t].version \in 1..Cardinality(Trips)
                       /\ NoRow.version = 0
  <2>1. PICK old \in SUBSET Trips : table = History(old)
    BY DEF Init
  <2>2. Stamps \in [Trips -> 1..Cardinality(Trips)]
    BY StampsType, Fun_BijectionProperties
  <2> QED
    BY <2>1, <2>2 DEF History, NoRow
<1>4. VersionsAreDrawn
  BY <1>1, <1>2, <1>3, StampsType, VersionNumbers DEF VersionsAreDrawn
<1>5. SeenIsCommitted
  BY <1>2, RestingHolds DEF SeenIsCommitted, Committed, At
<1>6. OnePull /\ StartsFromCursor /\ FirstPullIsFirst /\ PageIsNews
  BY <1>2, RestingHolds DEF OnePull, StartsFromCursor, FirstPullIsFirst, PageIsNews, Pulls, At
<1>7. Owed
  BY <1>2, <1>1, RestingHolds, VersionNumbers DEF Owed, Passed
<1> QED
  BY <1>1, <1>4, <1>5, <1>6, <1>7 DEF IInv, Undisturbed

LEMMA StepIInv == IInv /\ [Next]_vars => IInv'
<1> SUFFICES ASSUME IInv, [Next]_vars PROVE IInv'
  OBVIOUS
<1>1. TypeOK' /\ VersionsAreDrawn' /\ SeenIsCommitted'
  BY TypeStep, VersionsStep, SeenStep DEF IInv
<1>2. disturbed => disturbed'
  BY DEF Next, Write, End, Commit, Abort, Sync, Fault, Begin, Fetch, Apply, Save, FetchNothing,
     ApplyFails, SaveFails, Die, vars
<1>3. ~disturbed' => Undisturbed'
  BY <1>2, UndisturbedStep DEF IInv
<1> QED
  BY <1>1, <1>3 DEF IInv

LEMMA NothingPassedOverHolds == IInv => NothingPassedOver
<1> SUFFICES ASSUME IInv, ~disturbed, \A c \in Cycles : At(c, "idle"),
                    NEW t \in Trips, table[t].version \in 1..Since
             PROVE  Settled(t)
  BY DEF NothingPassedOver
<1>1. TypeOK /\ SeenIsCommitted /\ Undisturbed
  BY DEF IInv
<1>2. \A c \in Cycles : cycle[c].page = {} /\ cycle[c].highest = 0
  BY <1>1 DEF SeenIsCommitted, At
<1>3. Since = cursor
  <2>1. CASE cursor = 0
    <3>1. \A u \in Trips : phone[u].version = 0
      BY <1>1, <1>2, <2>1 DEF Undisturbed, FirstPullIsFirst, NoCopy
    <3>2. {phone[u].version : u \in Trips} \cup {0} = {0}
      BY <3>1
    <3>3. Max({0}) = 0
      BY DEF Max
    <3> QED
      BY <2>1, <3>2, <3>3 DEF Since
  <2> QED
    BY <2>1 DEF Since
<1>4. Passed(t) /\ table[t].version > 0
  BY <1>1, <1>3, VersionNumbers DEF Passed
<1> QED
  BY <1>1, <1>2, <1>4 DEF Undisturbed, Owed
-----------------------------------------------------------------------------
\* The invariant of the trips table and the cycles, at every step.
THEOREM Invariant == Spec => []IInv
BY InitIInv, StepIInv, PTL DEF Spec

\* Every variable keeps its type.
THEOREM TypeCorrect == Spec => []TypeOK
BY Invariant, PTL DEF IInv

\* Between two cycles nothing disturbed, the phone has every row its cursor has passed
\* (sync.service.ts 1018-1085, SyncManager.ts 200-265): however many trips there are,
\* however long a page and whatever fails.
THEOREM NothingIsPassedOver == Spec => []NothingPassedOver
BY Invariant, NothingPassedOverHolds, PTL
=============================================================================
