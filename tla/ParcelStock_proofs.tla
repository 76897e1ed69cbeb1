------------------------- MODULE ParcelStock_proofs -------------------------
(***************************************************************************)
(* Proofs about ParcelStock, for any number of handlers and trips and any  *)
(* sizes: what the check of the stock is worth against loads and transfers *)
(* that were checked at the same time.                                     *)
(***************************************************************************)
EXTENDS ParcelStock, FiniteSetTheorems, TLAPS

-----------------------------------------------------------------------------
(* Types.                                                                  *)

LEMMA HarvestStatuses == Harvest = {"standing", "in_loading", "loaded", "completed"}
BY DEF Harvest, Rank

LEMMA IdleType == Idle \in Job
BY HarvestStatuses DEF Idle, Job, Places

\* The three ways a handler moves keep the jobs in their type, and touch no other.
LEMMA JobMoves ==
  ASSUME TypeOK, NEW h \in Slots
  PROVE  /\ End(h) => /\ job' \in [Slots -> Job] /\ job'[h] = Idle
                      /\ \A g \in Slots \ {h} : job'[g] = job[g]
         /\ \A place \in Places : GoTo(h, place) =>
              /\ job' \in [Slots -> Job] /\ job'[h] = [job[h] EXCEPT !.at = place]
              /\ \A g \in Slots \ {h} : job'[g] = job[g]
         /\ \A place \in Places, t \in Trips \cup {NoTrip}, goal \in Harvest :
              Begin(h, place, t, goal) =>
                /\ job' \in [Slots -> Job]
                /\ job'[h] = [at |-> place, trip |-> t, count |-> 0, other |-> 0, goal |-> goal]
                /\ \A g \in Slots \ {h} : job'[g] = job[g]
<1>1. End(h) => /\ job' \in [Slots -> Job] /\ job'[h] = Idle
                /\ \A g \in Slots \ {h} : job'[g] = job[g]
  BY IdleType DEF End, TypeOK
<1>2. ASSUME NEW place \in Places, GoTo(h, place)
      PROVE  /\ job' \in [Slots -> Job] /\ job'[h] = [job[h] EXCEPT !.at = place]
             /\ \A g \in Slots \ {h} : job'[g] = job[g]
  <2>1. [job[h] EXCEPT !.at = place] \in Job
    BY DEF TypeOK, Job
  <2> QED
    BY <1>2, <2>1 DEF GoTo, TypeOK
<1>3. ASSUME NEW place \in Places, NEW t \in Trips \cup {NoTrip}, NEW goal \in Harvest,
             Begin(h, place, t, goal)
      PROVE  /\ job' \in [Slots -> Job]
             /\ job'[h] = [at |-> place, trip |-> t, count |-> 0, other |-> 0, goal |-> goal]
             /\ \A g \in Slots \ {h} : job'[g] = job[g]
  <2>1. [at |-> place, trip |-> t, count |-> 0, other |-> 0, goal |-> goal] \in Job
    BY DEF Job
  <2> QED
    BY <1>3, <2>1 DEF Begin, TypeOK
<1> QED
  BY <1>1, <1>2, <1>3

\* A handler that has read an amount goes on with it.
LEMMA JobCounts ==
  ASSUME TypeOK, NEW h \in Slots, NEW place \in Places, NEW n \in Int,
         job' = [job EXCEPT ![h].at = place, ![h].count = n]
  PROVE  /\ job' \in [Slots -> Job]
         /\ job'[h] = [job[h] EXCEPT !.at = place, !.count = n]
         /\ \A g \in Slots \ {h} : job'[g] = job[g]
<1>1. [job[h] EXCEPT !.at = place, !.count = n] \in Job
  BY DEF TypeOK, Job
<1> QED
  BY <1>1 DEF TypeOK

LEMMA ConstantTypes ==
  /\ Capacity \in Nat \ {0} /\ Largest \in Nat \ {0} /\ Capacity <= Largest
  /\ MaxBales \in Nat /\ MaxCorrections \in Nat /\ NoTrip \notin Trips
  /\ IsFiniteSet(Slots) /\ Cardinality(Slots) \in Nat \ {0}
<1>1. Cardinality(Slots) \in Nat /\ Cardinality(Slots) # 0
  BY ParcelStockAssumption, FS_CardinalityType, FS_EmptySet
<1> QED
  BY <1>1, ParcelStockAssumption

-----------------------------------------------------------------------------
(* The handlers that have passed their check.                              *)

LEMMA PassedFinite ==
  /\ IsFiniteSet(Passed) /\ Cardinality(Passed) \in Nat
  /\ Cardinality(Passed) <= Cardinality(Slots)
<1>1. Passed \in SUBSET Slots
  BY DEF Passed
<1> QED
  BY <1>1, ConstantTypes, FS_Subset, FS_CardinalityType

\* The bound, from the covering of the handlers.
LEMMA CoveredIsBounded ==
  ASSUME TypeOK, OverdraftCovered
  PROVE  OverdraftBounded
<1> DEFINE K == Cardinality(Slots)
           P == Cardinality(Passed)
<1>1. K \in Nat /\ P \in Nat /\ P <= K /\ Largest \in Nat /\ Left \in Int
  BY PassedFinite, ConstantTypes DEF TypeOK, Left
<1>2. ASSUME NEW h \in Passed, job[h].count - Largest * (K - P) <= Left
      PROVE  OverdraftBounded
  <2>1. job[h].count \in 1..Largest
    BY DEF OverdraftCovered
  <2>2. P # 0
    BY <1>2, PassedFinite, FS_EmptySet
  <2>3. Largest * (K - P) <= Largest * (K - 1)
    <3> HIDE DEF K, P
    <3>1. K - P \in Int /\ K - 1 \in Int /\ K - P <= K - 1
      BY <1>1, <2>2
    <3>2. \A a, b \in Int : a <= b => Largest * a <= Largest * b
      BY <1>1
    <3> QED
      BY <3>1, <3>2
  <2>4. Largest * (K - P) \in Int /\ Largest * (K - 1) \in Int
    BY <1>1
  <2> HIDE DEF K, P
  <2>5. -(Largest * (K - 1)) <= Left
    BY <1>1, <1>2, <2>1, <2>3, <2>4
  <2> QED
    BY <2>5 DEF OverdraftBounded, K
<1>3. ASSUME -(Largest * (K - 1 - P)) <= Left
      PROVE  OverdraftBounded
  <2>1. Largest * (K - 1 - P) <= Largest * (K - 1)
    <3> HIDE DEF K, P
    <3>1. K - 1 - P \in Int /\ K - 1 \in Int /\ K - 1 - P <= K - 1
      BY <1>1
    <3>2. \A a, b \in Int : a <= b => Largest * a <= Largest * b
      BY <1>1
    <3> QED
      BY <3>1, <3>2
  <2>2. Largest * (K - 1 - P) \in Int /\ Largest * (K - 1) \in Int
    BY <1>1
  <2> HIDE DEF K, P
  <2>3. -(Largest * (K - 1)) <= Left
    BY <1>1, <1>3, <2>1, <2>2
  <2> QED
    BY <2>3 DEF OverdraftBounded, K
<1> QED
  BY <1>2, <1>3 DEF OverdraftCovered

-----------------------------------------------------------------------------
(* Steps of handlers that have no amount in hand.                          *)

InHand == {"tally", "insert", "transfer"}

\* A step that leaves the handlers with bales in hand alone, uses up no number of
\* a trip that is locked, and takes no checked bales off the ledger.
LEMMA CalmStep ==
  ASSUME IInv, TypeOK',
         \A g \in Slots : \/ job'[g] = job[g]
                          \/ job[g].at \notin InHand /\ job'[g].at \notin InHand,
         \A t \in Trips : Unlocked(t) \/ (trip'[t] = "unused" <=> trip[t] = "unused"),
         Left <= Left', serial' => serial
  PROVE  IInv'
<1>1. Left \in Int /\ Left' \in Int
  BY DEF IInv, TypeOK, Left
<1>2. \A g \in Slots : Loading(g)' => /\ Loading(g) /\ job'[g] = job[g]
                                      /\ Opening(g)' <=> Opening(g)
  <2> SUFFICES ASSUME NEW g \in Slots, Loading(g)'
               PROVE  Loading(g) /\ job'[g] = job[g] /\ (Opening(g)' <=> Opening(g))
    OBVIOUS
  <2>1. job'[g] = job[g] /\ Loading(g)
    BY DEF Loading, InHand
  <2>2. job[g].trip \in Trips /\ ~Unlocked(job[g].trip)
    BY <2>1 DEF IInv, OneAtATime, Unlocked
  <2> QED
    BY <2>1, <2>2 DEF Opening
<1>3. OneAtATime' /\ SerialLoadsFit'
  <2>1. \A g \in Slots : At(g, "insert")' => job'[g].count = job[g].count /\ At(g, "insert")
    BY DEF At, InHand
  <2>2. serial' => \A g \in Slots : job'[g].at # "transfer"
    BY DEF IInv, OneAtATime, InHand
  <2>3. \A g \in Slots : Opening(g)' => Opening(g)
    BY <1>2 DEF Opening
  <2>4. \A g \in Slots : Loading(g)' => job'[g].trip \in Trips
    BY <1>2 DEF IInv, OneAtATime
  <2>5. ASSUME serial', NEW g \in Slots, At(g, "insert")'
        PROVE  job'[g].count <= Left'
    <3>1. job[g].count <= Left /\ job'[g].count = job[g].count
      BY <2>1, <2>5 DEF IInv, OneAtATime
    <3>2. job[g].count \in Int
      BY DEF IInv, TypeOK, Job
    <3> QED
      BY <3>1, <3>2, <1>1
  <2>6. serial' => \A g \in Slots : Loading(g)' => Opening(g)'
    BY <1>2 DEF IInv, OneAtATime
  <2>7. SerialLoadsFit'
    BY <1>1 DEF IInv, SerialLoadsFit
  <2> QED
    BY <2>2, <2>3, <2>4, <2>5, <2>6, <2>7 DEF IInv, OneAtATime
<1>4. Passed' = Passed /\ \A g \in Passed : job'[g].count = job[g].count
  BY DEF Passed, InHand
<1>5. OverdraftCovered'
  <2> DEFINE K == Cardinality(Slots)
             P == Cardinality(Passed)
  <2>1. /\ Largest * (K - P) \in Int /\ Largest * (K - 1 - P) \in Int
        /\ \A g \in Passed : job[g].count \in Int
    <3>1. K \in Nat /\ P \in Nat /\ Largest \in Nat
      BY ConstantTypes, PassedFinite
    <3>2. \A g \in Passed : job[g].count \in Int
      BY DEF IInv, OverdraftCovered
    <3> HIDE DEF K, P
    <3> QED
      BY <3>1, <3>2
  <2>2. CASE \E g \in Passed : job[g].count - Largest * (K - P) <= Left
    <3>1. \E g \in Passed : job'[g].count - Largest * (K - P) <= Left'
      <4> HIDE DEF K, P
      <4> QED
        BY <1>1, <1>4, <2>1, <2>2
    <3> QED
      BY <1>4, <3>1 DEF IInv, OverdraftCovered
  <2>3. CASE -(Largest * (K - 1 - P)) <= Left
    <3>1. -(Largest * (K - 1 - P)) <= Left'
      <4> HIDE DEF K, P
      <4> QED
        BY <1>1, <2>1, <2>3
    <3> QED
      BY <1>4, <3>1 DEF IInv, OverdraftCovered
  <2> QED
    BY <2>2, <2>3 DEF IInv, OverdraftCovered
<1> QED
  BY <1>3, <1>5 DEF IInv

-----------------------------------------------------------------------------
(* Steps of handlers that have.                                            *)

\* A handler passes its check.
LEMMA PassCovers ==
  ASSUME IInv, NEW h \in Slots, h \notin Passed, Passed' = Passed \cup {h},
         job'[h].count \in 1..Largest, job'[h].count <= Left, Left' = Left,
         \A g \in Slots \ {h} : job'[g] = job[g]
  PROVE  OverdraftCovered'
<1> DEFINE K == Cardinality(Slots)
           Q == Cardinality(Passed')
<1>1. Passed' \in SUBSET Slots
  BY DEF Passed
<1>2. K \in Nat /\ Q \in Nat /\ Q <= K /\ Largest \in Nat
  BY <1>1, ConstantTypes, FS_Subset, FS_CardinalityType
<1>3. Largest * (K - Q) \in Nat
  <2> HIDE DEF K, Q
  <2>1. \A a, b \in Nat : a * b \in Nat
    OBVIOUS
  <2> QED
    BY <1>2, <2>1
<1>4. job'[h].count - Largest * (K - Q) <= Left'
  <2>1. Left \in Int
    BY DEF IInv, TypeOK, Left
  <2> HIDE DEF K, Q
  <2> QED
    BY <1>3, <2>1
<1>5. \A g \in Passed' : job'[g].count \in 1..Largest
  BY DEF IInv, OverdraftCovered, Passed
<1> QED
  BY <1>4, <1>5 DEF OverdraftCovered

\* A handler that had passed its check takes its bales, or gives up.
LEMMA TakeCovers ==
  ASSUME IInv, NEW h \in Passed, Passed' = Passed \ {h},
         Left' \in Int, Left - job[h].count <= Left',
         \A g \in Slots \ {h} : job'[g] = job[g]
  PROVE  OverdraftCovered'
<1> DEFINE K == Cardinality(Slots)
           P == Cardinality(Passed)
           Q == Cardinality(Passed')
<1>1. K \in Nat /\ P \in Nat /\ Q = P - 1 /\ Largest \in Nat /\ Left \in Int
  <2>1. K \in Nat /\ P \in Nat /\ Largest \in Nat
    BY ConstantTypes, PassedFinite
  <2>2. Q = P - 1
    BY PassedFinite, FS_RemoveElement
  <2>3. Left \in Int
    BY DEF IInv, TypeOK, Left
  <2> QED
    BY <2>1, <2>2, <2>3
<1>2. /\ Largest * (K - Q) = Largest * (K - P) + Largest
      /\ Largest * (K - 1 - Q) = Largest * (K - P)
      /\ Largest * (K - P) = Largest * (K - 1 - P) + Largest
      /\ Largest * (K - P) \in Int /\ Largest * (K - 1 - P) \in Int
  <2> HIDE DEF K, P, Q
  <2>1. \A a, b \in Int : a * b \in Int /\ a * (b + 1) = a * b + a
    OBVIOUS
  <2>2. K - P \in Int /\ K - 1 - P \in Int /\ K - P = (K - 1 - P) + 1
    BY <1>1
  <2>3. K - Q = (K - P) + 1 /\ K - 1 - Q = K - P
    BY <1>1
  <2> QED
    BY <1>1, <2>1, <2>2, <2>3
<1>3. \A g \in Passed : job[g].count \in 1..Largest
  BY DEF IInv, OverdraftCovered
<1>4. Passed' \subseteq Passed /\ \A g \in Passed' : job'[g] = job[g]
  BY DEF Passed
<1>5. CASE \E g \in Passed \ {h} : job[g].count - Largest * (K - P) <= Left
  <2>1. \E g \in Passed' : job'[g].count - Largest * (K - Q) <= Left'
    <3> HIDE DEF K, P, Q
    <3> QED
      BY <1>1, <1>2, <1>3, <1>4, <1>5
  <2> QED
    BY <1>3, <1>4, <2>1 DEF OverdraftCovered
<1>6. CASE job[h].count - Largest * (K - P) <= Left
  <2>1. -(Largest * (K - 1 - Q)) <= Left'
    <3> HIDE DEF K, P, Q
    <3> QED
      BY <1>1, <1>2, <1>3, <1>6
  <2> QED
    BY <1>3, <1>4, <2>1 DEF OverdraftCovered
<1>7. CASE -(Largest * (K - 1 - P)) <= Left
  <2>1. -(Largest * (K - 1 - Q)) <= Left'
    <3> HIDE DEF K, P, Q
    <3> QED
      BY <1>1, <1>2, <1>3, <1>7
  <2> QED
    BY <1>3, <1>4, <2>1 DEF OverdraftCovered
<1> QED
  BY <1>5, <1>6, <1>7 DEF IInv, OverdraftCovered

-----------------------------------------------------------------------------
(* Every step keeps the types.                                             *)

LEMMA TypeStep == TypeOK /\ OneAtATime /\ [Next]_vars => TypeOK'
<1> SUFFICES ASSUME TypeOK, OneAtATime, [Next]_vars PROVE TypeOK'
  OBVIOUS
<1> USE ConstantTypes
<1>0. /\ {"idle", "tally", "insert", "recount", "rank", "advance",
          "transfer", "adjust_produced", "adjust_loaded"} = Places
      /\ \A h \in Slots : /\ job[h].trip \in Trips \cup {NoTrip}
                          /\ job[h].count \in Int /\ job[h].other \in Int
                          /\ job[h].goal \in Harvest
  BY DEF Places, TypeOK, Job
<1>1. ASSUME NEW h \in Slots, Take(h) PROVE TypeOK'
  <2>1. CASE Tally(h)
    <3> PICK n \in 1..Capacity : job' = [job EXCEPT ![h].at = "insert", ![h].count = n]
      BY <2>1 DEF Tally
    <3>1. job' \in [Slots -> Job]
      <4>1. "insert" \in Places /\ n \in Int
        BY <1>0
      <4> QED
        BY <4>1, JobCounts
    <3> QED
      BY <2>1, <3>1 DEF Tally, ledger, TypeOK
  <2>2. CASE InsertLoad(h)
    <3>1. job' \in [Slots -> Job]
      BY <1>0, <2>2, JobMoves, HarvestStatuses DEF InsertLoad
    <3>2. loaded' \in Int /\ bypassed' \in BOOLEAN /\ ours' \subseteq Trips
      <4>1. job[h].trip \in Trips
        BY <2>2 DEF InsertLoad, At, Loading, OneAtATime
      <4> QED
        BY <1>0, <2>2, <4>1 DEF InsertLoad, TypeOK
    <3>3. trip' \in [Trips -> TripStatus]
      BY <2>2 DEF InsertLoad, TypeOK, TripStatus
    <3> QED
      BY <2>2, <3>1, <3>2, <3>3 DEF InsertLoad, TypeOK
  <2>3. CASE AskTransfer(h)
    <3> PICK n \in 1..Largest : job' = [job EXCEPT ![h].at = "transfer", ![h].count = n]
      BY <2>3 DEF AskTransfer
    <3>1. job' \in [Slots -> Job]
      <4>1. "transfer" \in Places /\ n \in Int
        BY <1>0
      <4> QED
        BY <4>1, JobCounts
    <3> QED
      BY <2>3, <3>1 DEF AskTransfer, ledger, TypeOK
  <2>4. ASSUME NEW t \in Trips, LockTrip(h, t) \/ OpenTrip(h, t) PROVE TypeOK'
    <3>1. job' \in [Slots -> Job]
      BY <1>0, <2>4, JobMoves, HarvestStatuses DEF LockTrip, OpenTrip
    <3> QED
      BY <2>4, <3>1 DEF LockTrip, OpenTrip, ledger, TypeOK
  <2>5. ASSUME NEW t \in Trips, TransferToDepot(h, t) PROVE TypeOK'
    <3>1. job' \in [Slots -> Job]
      BY <2>5, JobMoves DEF TransferToDepot
    <3>2. trip' \in [Trips -> TripStatus] /\ ours' \subseteq Trips /\ loaded' \in Int
      BY <1>0, <2>5 DEF TransferToDepot, Set, TypeOK, TripStatus
    <3> QED
      BY <2>5, <3>1, <3>2 DEF TransferToDepot, TypeOK
  <2> QED
    BY <1>1, <2>1, <2>2, <2>3, <2>4, <2>5 DEF Take
<1>2. ASSUME NEW h \in Slots, Hook(h) \/ Die(h) PROVE TypeOK'
  <2>1. job' \in [Slots -> Job]
    BY <1>0, <1>2, JobMoves DEF Hook, Recount, CompareRanks, Advance, Die
  <2>2. harvest' \in Harvest /\ bypassed' \in BOOLEAN
    BY <1>0, <1>2 DEF Hook, Recount, CompareRanks, Advance, Die, TypeOK
  <2> QED
    BY <1>2, <2>1, <2>2 DEF Hook, Recount, CompareRanks, Advance, Die, ledger, TypeOK
<1>3. ASSUME NEW h \in Slots, Adjust(h) PROVE TypeOK'
  <2>1. CASE ReadTotals(h)
    <3> PICK p \in (0..MaxBales) \cup {produced}, l \in (0..MaxBales) \cup {loaded} :
          job' = [job EXCEPT ![h].at = "adjust_produced",
                             ![h].count = p - produced, ![h].other = l - loaded]
      BY <2>1 DEF ReadTotals
    <3>1. p - produced \in Int /\ l - loaded \in Int
      BY DEF TypeOK
    <3>2. [job[h] EXCEPT !.at = "adjust_produced", !.count = p - produced, !.other = l - loaded]
            \in Job
      <4>1. job[h] \in Job /\ "adjust_produced" \in Places
        BY <1>0 DEF TypeOK, Places
      <4> QED
        BY <3>1, <4>1 DEF Job
    <3>3. job' \in [Slots -> Job]
      BY <3>2 DEF TypeOK
    <3> QED
      BY <2>1, <3>3 DEF ReadTotals, Correct, ledger, TypeOK
  <2>2. CASE AdjustProduced(h)
    <3>1. job' \in [Slots -> Job]
      <4>1. "adjust_loaded" \in Places /\ 0 \in Int
        BY <1>0
      <4>2. job' = [job EXCEPT ![h].at = "adjust_loaded", ![h].count = 0]
        BY <2>2 DEF AdjustProduced
      <4> QED
        BY <4>1, <4>2, JobCounts
    <3>2. produced' \in Int /\ unchecked' \in Nat
      BY <1>0, <2>2 DEF AdjustProduced, Positive, TypeOK
    <3> QED
      BY <2>2, <3>1, <3>2 DEF AdjustProduced, TypeOK
  <2>3. CASE AdjustLoaded(h)
    <3>1. job' \in [Slots -> Job]
      BY <2>3, JobMoves DEF AdjustLoaded
    <3>2. loaded' \in Int /\ unchecked' \in Nat
      BY <1>0, <2>3 DEF AdjustLoaded, Positive, TypeOK
    <3> QED
      BY <2>3, <3>1, <3>2 DEF AdjustLoaded, TypeOK
  <2> QED
    BY <1>3, <2>1, <2>2, <2>3 DEF Adjust
<1>4. CASE Move
  <2>1. ASSUME NEW t \in Trips, NEW h \in Slots, StartLoading(h, t) \/ Complete(h, t) PROVE TypeOK'
    <3>1. job' \in [Slots -> Job]
      BY <1>0, <2>1, JobMoves, HarvestStatuses DEF StartLoading, Complete, TypeOK
    <3> QED
      BY <2>1, <3>1 DEF StartLoading, Complete, Set, ledger, TypeOK, TripStatus
  <2>2. ASSUME NEW t \in Trips, Plan(t) PROVE TypeOK'
    BY <2>2 DEF Plan, Set, ledger, TypeOK, TripStatus
  <2>3. ASSUME NEW t \in Trips, CompleteLoading(t) PROVE TypeOK'
    BY <2>3 DEF CompleteLoading, Set, ledger, TypeOK, TripStatus
  <2>4. ASSUME NEW t \in Trips, ForceStatus(t) PROVE TypeOK'
    BY <2>4 DEF ForceStatus, Set, ledger, TypeOK, TripStatus
  <2>5. ASSUME NEW t \in Trips, AddLoad(t) PROVE TypeOK'
    BY <2>5 DEF AddLoad, Correct, TypeOK
  <2> QED
    BY <1>4, <2>1, <2>2, <2>3, <2>4, <2>5 DEF Move
<1>5. CASE Produce
  BY <1>5 DEF Produce, TypeOK
<1>6. CASE DropProduction
  BY <1>6 DEF DropProduction, Correct, TypeOK
<1>7. CASE SetHarvest
  BY <1>7 DEF SetHarvest, ledger, TypeOK
<1>8. CASE UNCHANGED vars
  BY <1>8 DEF vars, TypeOK
<1> QED
  BY <1>1, <1>2, <1>3, <1>4, <1>5, <1>6, <1>7, <1>8 DEF Next

-----------------------------------------------------------------------------
(* The inductive invariant.                                                *)

LEMMA InitIInv == Init => IInv
<1> SUFFICES ASSUME Init PROVE IInv
  OBVIOUS
<1>1. TypeOK
  <2>1. job \in [Slots -> Job] /\ trip \in [Trips -> TripStatus] /\ harvest \in Harvest
    BY HarvestStatuses, IdleType DEF Init, TripStatus
  <2>2. produced \in Int /\ loaded \in Int /\ unchecked \in Nat /\ spent \in Nat
    BY DEF Init
  <2>3. serial \in BOOLEAN /\ bypassed \in BOOLEAN /\ ours \subseteq Trips
    BY Zenon DEF Init
  <2> QED
    BY <2>1, <2>2, <2>3 DEF TypeOK
<1>2. OneAtATime /\ SerialLoadsFit
  BY DEF Init, OneAtATime, SerialLoadsFit, Opening, Loading, At, Left, Idle
<1>3. OverdraftCovered
  <2>1. Passed = {}
    BY DEF Init, Passed, Idle
  <2>2. Cardinality(Passed) = 0
    BY <2>1, FS_EmptySet
  <2>3. Left = 0
    BY DEF Init, Left
  <2> DEFINE K == Cardinality(Slots)
  <2>4. -(Largest * (K - 1 - 0)) <= 0
    <3>1. K \in Nat \ {0} /\ Largest \in Nat
      BY ConstantTypes
    <3> HIDE DEF K
    <3>2. K - 1 - 0 \in Nat
      BY <3>1
    <3>3. \A a, b \in Nat : a * b \in Nat
      OBVIOUS
    <3>4. Largest * (K - 1 - 0) \in Nat
      BY <3>1, <3>2, <3>3
    <3> QED
      BY <3>4
  <2> QED
    BY <2>1, <2>2, <2>3, <2>4 DEF OverdraftCovered
<1> QED
  BY <1>1, <1>2, <1>3 DEF IInv

\* What the tally leaves in a handler's hands.
LEMMA TalliedJob ==
  ASSUME NEW h \in Slots, NEW n, job[h] \in Job, job'[h] = [job[h] EXCEPT !.at = "insert", !.count = n]
  PROVE  job'[h].at = "insert" /\ job'[h].trip = job[h].trip /\ job'[h].count = n
BY DEF Job

\* The steps of registerLoad and transferToDepot.
LEMMA TakeStep ==
  ASSUME IInv, TypeOK', NEW h \in Slots, Take(h)
  PROVE  IInv'
<1>0. Left \in Int /\ Left' \in Int /\ \A g \in Slots : job[g].count \in Int
  BY DEF IInv, TypeOK, Left, Job
<1>1. CASE Tally(h)
  <2> PICK n \in 1..Capacity : /\ n <= Remaining
                               /\ job' = [job EXCEPT ![h].at = "insert", ![h].count = n]
    BY <1>1 DEF Tally
  <2>1. /\ job'[h] = [job[h] EXCEPT !.at = "insert", !.count = n]
        /\ \A g \in Slots \ {h} : job'[g] = job[g]
        /\ job[h] \in Job /\ At(h, "tally")
        /\ UNCHANGED <<produced, loaded, unchecked, trip, serial>>
    BY <1>1 DEF Tally, IInv, TypeOK, ledger
  <2>2. job'[h].at = "insert" /\ job'[h].trip = job[h].trip /\ job'[h].count = n
    BY <2>1, TalliedJob
  <2>3. n \in 1..Largest /\ n <= Left /\ Left' = Left
    BY <2>1, ConstantTypes DEF Remaining, Left, IInv, TypeOK
  <2>4. h \notin Passed /\ Passed' = Passed \cup {h}
    BY <2>1, <2>2 DEF Passed, At
  <2>5. OverdraftCovered'
    BY <2>1, <2>2, <2>3, <2>4, PassCovers
  <2>6. \A g \in Slots : /\ Loading(g)' <=> Loading(g)
                         /\ job'[g].trip = job[g].trip
                         /\ Opening(g)' <=> Opening(g)
    BY <2>1, <2>2 DEF Loading, Opening, At
  <2>7. OneAtATime'
    <3>1. ASSUME serial', NEW g \in Slots, At(g, "insert")' PROVE job'[g].count <= Left'
      <4>1. CASE g = h
        BY <2>2, <2>3, <4>1
      <4>2. CASE g # h
        <5>1. job'[g] = job[g] /\ serial /\ At(g, "insert")
          BY <2>1, <3>1, <4>2 DEF At
        <5>2. job[g].count <= Left
          BY <5>1 DEF IInv, OneAtATime
        <5> QED
          BY <2>3, <5>1, <5>2
      <4> QED
        BY <4>1, <4>2
    <3>2. serial' => \A g \in Slots : job'[g].at # "transfer"
      BY <2>1, <2>2 DEF IInv, OneAtATime
    <3> QED
      BY <2>1, <2>6, <3>1, <3>2 DEF IInv, OneAtATime
  <2>8. SerialLoadsFit'
    BY <2>1, <2>3 DEF IInv, SerialLoadsFit
  <2> QED
    BY <2>5, <2>7, <2>8 DEF IInv
<1>2. CASE InsertLoad(h)
  <2>1. /\ job'[h].at = "recount" /\ \A g \in Slots \ {h} : job'[g] = job[g]
        /\ At(h, "insert") /\ Left' = Left - job[h].count /\ serial' = serial
        /\ trip' = [trip EXCEPT ![job[h].trip] = "on_the_road"]
    <3>1. "recount" \in Places /\ "loaded" \in Harvest
      BY HarvestStatuses DEF Places
    <3>2. Begin(h, "recount", NoTrip, "loaded")
      BY <1>2 DEF InsertLoad
    <3>3. job'[h].at = "recount" /\ \A g \in Slots \ {h} : job'[g] = job[g]
      <4>1. /\ job'[h] = [at |-> "recount", trip |-> NoTrip, count |-> 0, other |-> 0,
                          goal |-> "loaded"]
            /\ \A g \in Slots \ {h} : job'[g] = job[g]
        BY <3>1, <3>2, JobMoves DEF IInv
      <4> QED
        BY <4>1
    <3>4. /\ At(h, "insert") /\ serial' = serial
          /\ loaded' = loaded + job[h].count /\ UNCHANGED <<produced, unchecked>>
          /\ trip' = [trip EXCEPT ![job[h].trip] = "on_the_road"]
      BY <1>2 DEF InsertLoad
    <3>5. Left' = Left - job[h].count
      BY <1>0, <3>4 DEF Left, IInv, TypeOK
    <3> QED
      BY <3>3, <3>4, <3>5
  <2>2. h \in Passed /\ Passed' = Passed \ {h}
    BY <2>1 DEF Passed, At
  <2>3. OverdraftCovered'
    BY <1>0, <2>1, <2>2, TakeCovers
  <2>4. \A g \in Slots : Loading(g)' => g # h /\ Loading(g) /\ job'[g] = job[g]
    BY <2>1 DEF Loading
  <2>5. \A g \in Slots : Opening(g)' => Opening(g)
    BY <2>1, <2>4 DEF Opening, IInv, OneAtATime, TypeOK
  <2>6. serial' => \A g \in Slots : ~Loading(g)'
    <3> SUFFICES ASSUME serial', NEW g \in Slots, Loading(g)' PROVE FALSE
      OBVIOUS
    <3>1. Loading(h) /\ Loading(g) /\ g # h
      BY <2>1, <2>4 DEF Loading, At
    <3>2. Opening(h) /\ Opening(g)
      BY <2>1, <3>1 DEF IInv, OneAtATime
    <3> QED
      BY <3>1, <3>2 DEF IInv, OneAtATime
  <2>7. SerialLoadsFit'
    <3> SUFFICES ASSUME serial' PROVE 0 <= Left'
      BY DEF SerialLoadsFit
    <3>1. job[h].count <= Left
      BY <2>1 DEF IInv, OneAtATime
    <3> QED
      BY <1>0, <2>1, <3>1
  <2>8. OneAtATime'
    <3>1. \A g \in Slots : Loading(g)' => job'[g].trip \in Trips
      BY <2>4 DEF IInv, OneAtATime
    <3>2. serial' => \A g \in Slots : job'[g].at # "transfer"
      BY <2>1 DEF IInv, OneAtATime
    <3>3. serial' => \A g \in Slots : ~At(g, "insert")'
      BY <2>6 DEF Loading, At
    <3> QED
      BY <2>5, <2>6, <3>1, <3>2, <3>3 DEF IInv, OneAtATime
  <2> QED
    BY <2>3, <2>7, <2>8 DEF IInv
<1>3. CASE AskTransfer(h)
  <2> PICK n \in 1..Largest : /\ n <= produced - loaded
                              /\ job' = [job EXCEPT ![h].at = "transfer", ![h].count = n]
    BY <1>3 DEF AskTransfer
  <2>1. /\ job'[h] = [job[h] EXCEPT !.at = "transfer", !.count = n]
        /\ \A g \in Slots \ {h} : job'[g] = job[g]
        /\ job[h] \in Job /\ At(h, "idle")
        /\ UNCHANGED <<produced, loaded, unchecked, trip>> /\ serial' = FALSE
    BY <1>3 DEF AskTransfer, IInv, TypeOK, ledger
  <2>2. job'[h].at = "transfer" /\ job'[h].count = n
    BY <2>1 DEF Job
  <2>3. n <= Left /\ Left' = Left
    BY <2>1, ConstantTypes DEF Left, IInv, TypeOK
  <2>4. h \notin Passed /\ Passed' = Passed \cup {h}
    BY <2>1, <2>2 DEF Passed, At
  <2>5. OverdraftCovered'
    BY <2>1, <2>2, <2>3, <2>4, PassCovers
  <2>6. \A g \in Slots : Loading(g)' => Loading(g) /\ job'[g] = job[g]
    BY <2>1, <2>2 DEF Loading
  <2>7. OneAtATime' /\ SerialLoadsFit'
    BY <2>1, <2>6 DEF IInv, OneAtATime, SerialLoadsFit, Opening
  <2> QED
    BY <2>5, <2>7 DEF IInv
<1>4. ASSUME NEW t \in Trips, LockTrip(h, t) \/ OpenTrip(h, t) PROVE IInv'
  <2>1. /\ job'[h].at = "tally" /\ job'[h].trip = t
        /\ \A g \in Slots \ {h} : job'[g] = job[g]
        /\ At(h, "idle") /\ UNCHANGED <<produced, loaded, unchecked, trip>>
    <3>1. "tally" \in Places /\ "loaded" \in Harvest /\ Begin(h, "tally", t, "loaded")
      BY <1>4, HarvestStatuses DEF Places, LockTrip, OpenTrip
    <3>2. /\ job'[h] = [at |-> "tally", trip |-> t, count |-> 0, other |-> 0, goal |-> "loaded"]
          /\ \A g \in Slots \ {h} : job'[g] = job[g]
      BY <3>1, JobMoves DEF IInv
    <3> QED
      BY <1>4, <3>2 DEF LockTrip, OpenTrip, ledger
  <2>2. Left' = Left /\ Passed' = Passed /\ \A g \in Passed : job'[g] = job[g]
    BY <2>1 DEF Left, Passed, At
  <2>3. OverdraftCovered'
    BY <2>2 DEF IInv, OverdraftCovered
  <2>4. \A g \in Slots \ {h} : /\ Loading(g)' <=> Loading(g)
                               /\ Opening(g)' <=> Opening(g)
    BY <2>1 DEF Loading, Opening
  <2>5. \A g \in Slots : Loading(g)' => job'[g].trip \in Trips
    BY <2>1, <2>4 DEF IInv, OneAtATime
  <2>6. CASE LockTrip(h, t)
    <3>1. serial' = FALSE /\ trip[t] # "unused"
      BY <2>6 DEF LockTrip, Open
    <3>2. ~Opening(h)'
      BY <2>1, <3>1 DEF Opening
    <3>3. OneAtATime' /\ SerialLoadsFit'
      BY <2>4, <2>5, <3>1, <3>2 DEF IInv, OneAtATime, SerialLoadsFit
    <3> QED
      BY <2>3, <3>3 DEF IInv
  <2>7. CASE OpenTrip(h, t)
    <3>1. serial' = serial /\ trip[t] = "unused" /\ \A g \in Slots : ~Opening(g)
      BY <2>7 DEF OpenTrip, DayLockFree
    <3>2. Opening(h)' /\ \A g \in Slots \ {h} : ~Opening(g)'
      BY <2>1, <2>4, <3>1 DEF Opening, Loading
    <3>3. serial' => \A g \in Slots : ~At(g, "insert")' /\ job'[g].at # "transfer"
      BY <2>1, <3>1 DEF IInv, OneAtATime, At, Loading
    <3>4. serial' => \A g \in Slots : Loading(g)' => Opening(g)'
      BY <2>4, <3>1, <3>2 DEF IInv, OneAtATime
    <3>5. OneAtATime'
      BY <2>5, <3>2, <3>3, <3>4 DEF OneAtATime
    <3>6. SerialLoadsFit'
      BY <2>2, <3>1 DEF IInv, SerialLoadsFit
    <3> QED
      BY <2>3, <3>5, <3>6 DEF IInv
  <2> QED
    BY <1>4, <2>6, <2>7
<1>5. ASSUME NEW t \in Trips, TransferToDepot(h, t) PROVE IInv'
  <2>1. /\ job'[h] = Idle /\ \A g \in Slots \ {h} : job'[g] = job[g]
        /\ At(h, "transfer") /\ Left' = Left - job[h].count /\ serial' = serial
        /\ trip' = [trip EXCEPT ![t] = "done"]
    BY <1>0, <1>5, JobMoves DEF TransferToDepot, Set, Left, IInv, TypeOK
  <2>2. h \in Passed /\ Passed' = Passed \ {h}
    BY <2>1 DEF Passed, At, Idle
  <2>3. OverdraftCovered'
    BY <1>0, <2>1, <2>2, TakeCovers
  <2>4. serial' = FALSE
    BY <2>1 DEF IInv, TypeOK, OneAtATime, At
  <2>5. \A g \in Slots : Loading(g)' => Loading(g) /\ job'[g] = job[g]
    BY <2>1 DEF Loading, Idle
  <2>6. \A g \in Slots : Opening(g)' => Opening(g)
    BY <2>1, <2>5 DEF Opening, IInv, OneAtATime, TypeOK
  <2>7. OneAtATime' /\ SerialLoadsFit'
    BY <2>4, <2>5, <2>6 DEF IInv, OneAtATime, SerialLoadsFit
  <2> QED
    BY <2>3, <2>7 DEF IInv
<1> QED
  BY <1>1, <1>2, <1>3, <1>4, <1>5 DEF Take

\* A handler that dies.
LEMMA DieStep ==
  ASSUME IInv, TypeOK', NEW h \in Slots, Die(h)
  PROVE  IInv'
<1>1. /\ job'[h] = Idle /\ \A g \in Slots \ {h} : job'[g] = job[g]
      /\ UNCHANGED <<produced, loaded, unchecked, trip, serial>>
  BY JobMoves DEF Die, ledger, IInv
<1>2. Left' = Left /\ Left \in Int
  BY <1>1 DEF Left, IInv, TypeOK
<1>3. CASE h \in Passed
  <2>1. Passed' = Passed \ {h}
    BY <1>1 DEF Passed, Idle
  <2>2. job[h].count \in 1..Largest
    BY <1>3 DEF IInv, OverdraftCovered
  <2>3. Left - job[h].count <= Left'
    BY <1>2, <2>2, ConstantTypes
  <2>4. OverdraftCovered'
    BY <1>1, <1>2, <1>3, <2>1, <2>3, TakeCovers
  <2>5. \A g \in Slots : Loading(g)' => g # h /\ Loading(g) /\ job'[g] = job[g]
    BY <1>1 DEF Loading, Idle
  <2>6. \A g \in Slots : Loading(g)' => (Opening(g)' <=> Opening(g))
    BY <1>1, <2>5 DEF Opening
  <2>7. \A g \in Slots : Opening(g)' => Opening(g)
    BY <2>6 DEF Opening
  <2>8. serial' => \A g \in Slots : /\ job'[g].at # "transfer"
                                    /\ At(g, "insert")' => job'[g].count <= Left'
    BY <1>1, <1>2 DEF IInv, OneAtATime, At, Idle
  <2>9. OneAtATime' /\ SerialLoadsFit'
    BY <1>1, <1>2, <2>5, <2>6, <2>7, <2>8 DEF IInv, OneAtATime, SerialLoadsFit
  <2> QED
    BY <2>4, <2>9 DEF IInv
<1>4. CASE h \notin Passed
  <2>1. Passed' = Passed /\ \A g \in Passed : job'[g] = job[g]
    BY <1>1, <1>4 DEF Passed, Idle
  <2>2. OverdraftCovered'
    BY <1>2, <2>1 DEF IInv, OverdraftCovered
  <2>3. \A g \in Slots : Loading(g)' => g # h /\ Loading(g) /\ job'[g] = job[g]
    BY <1>1 DEF Loading, Idle
  <2>4. \A g \in Slots : Loading(g)' => (Opening(g)' <=> Opening(g))
    BY <1>1, <2>3 DEF Opening
  <2>5. \A g \in Slots : Opening(g)' => Opening(g)
    BY <2>4 DEF Opening
  <2>6. serial' => \A g \in Slots : /\ job'[g].at # "transfer"
                                    /\ At(g, "insert")' => job'[g].count <= Left'
    BY <1>1, <1>2 DEF IInv, OneAtATime, At, Idle
  <2>7. OneAtATime' /\ SerialLoadsFit'
    BY <1>1, <1>2, <2>3, <2>4, <2>5, <2>6 DEF IInv, OneAtATime, SerialLoadsFit
  <2> QED
    BY <2>2, <2>7 DEF IInv
<1> QED
  BY <1>3, <1>4

-----------------------------------------------------------------------------
(* The theorems.                                                           *)

LEMMA StepIInv == IInv /\ [Next]_vars => IInv'
<1> SUFFICES ASSUME IInv, [Next]_vars PROVE IInv'
  OBVIOUS
<1>1. TypeOK'
  BY TypeStep DEF IInv
<1>2. Left \in Int /\ Left' \in Int
  BY <1>1 DEF IInv, TypeOK, Left
<1>3. ASSUME NEW h \in Slots, Take(h) PROVE IInv'
  BY <1>1, <1>3, TakeStep
<1>4. ASSUME NEW h \in Slots, Die(h) PROVE IInv'
  BY <1>1, <1>4, DieStep
<1>5. ASSUME NEW h \in Slots, Hook(h) PROVE IInv'
  <2>1. /\ job[h].at \notin InHand /\ job'[h].at \notin InHand
        /\ \A g \in Slots \ {h} : job'[g] = job[g]
    <3>1. job[h] \in Job /\ job \in [Slots -> Job] /\ "rank" \in Places /\ "advance" \in Places
      BY DEF IInv, TypeOK, Places
    <3>2. job[h].at \in {"recount", "rank", "advance"}
      BY <1>5 DEF Hook, Recount, CompareRanks, Advance, At
    <3>3. GoTo(h, "rank") \/ GoTo(h, "advance") \/ End(h)
      BY <1>5 DEF Hook, Recount, CompareRanks, Advance
    <3>4. CASE GoTo(h, "rank")
      BY <3>1, <3>2, <3>4 DEF GoTo, InHand, Job
    <3>5. CASE GoTo(h, "advance")
      BY <3>1, <3>2, <3>5 DEF GoTo, InHand, Job
    <3>6. CASE End(h)
      BY <3>1, <3>2, <3>6 DEF End, InHand, Idle
    <3> QED
      BY <3>3, <3>4, <3>5, <3>6
  <2>2. UNCHANGED <<produced, loaded, unchecked, trip, serial>>
    BY <1>5 DEF Hook, Recount, CompareRanks, Advance, ledger
  <2>3. Left' = Left
    BY <2>2 DEF Left
  <2> QED
    BY <1>1, <1>2, <2>1, <2>2, <2>3, CalmStep
<1>6. ASSUME NEW h \in Slots, Adjust(h) PROVE IInv'
  <2>1. /\ job[h].at \notin InHand /\ job'[h].at \notin InHand
        /\ \A g \in Slots \ {h} : job'[g] = job[g]
    <3>1. job[h] \in Job /\ job \in [Slots -> Job]
      BY DEF IInv, TypeOK
    <3>2. job[h].at \in {"idle", "adjust_produced", "adjust_loaded"}
      BY <1>6 DEF Adjust, ReadTotals, AdjustProduced, AdjustLoaded, At
    <3>3. CASE ReadTotals(h)
      BY <3>1, <3>2, <3>3 DEF ReadTotals, InHand, Job
    <3>4. CASE AdjustProduced(h)
      BY <3>1, <3>2, <3>4 DEF AdjustProduced, InHand, Job
    <3>5. CASE AdjustLoaded(h)
      BY <3>1, <3>2, <3>5 DEF AdjustLoaded, End, InHand, Idle
    <3> QED
      BY <1>6, <3>3, <3>4, <3>5 DEF Adjust
  <2>2. UNCHANGED <<trip, serial>>
    BY <1>6 DEF Adjust, ReadTotals, AdjustProduced, AdjustLoaded
  <2>3. Left <= Left'
    <3>1. job[h].count \in Int /\ job[h].other \in Int
      BY DEF IInv, TypeOK, Job
    <3>2. CASE ReadTotals(h)
      BY <1>2, <3>2 DEF ReadTotals, ledger, Left
    <3>3. CASE AdjustProduced(h)
      BY <3>1, <3>3 DEF AdjustProduced, Positive, Left, IInv, TypeOK
    <3>4. CASE AdjustLoaded(h)
      BY <3>1, <3>4 DEF AdjustLoaded, Positive, Left, IInv, TypeOK
    <3> QED
      BY <1>6, <3>2, <3>3, <3>4 DEF Adjust
  <2> QED
    BY <1>1, <2>1, <2>2, <2>3, CalmStep
<1>7. CASE Move
  <2>1. ASSUME NEW t \in Trips, NEW h \in Slots, StartLoading(h, t) \/ Complete(h, t) PROVE IInv'
    <3>1. /\ At(h, "idle") /\ UNCHANGED <<produced, loaded, unchecked, serial>>
          /\ trip[t] # "unused" /\ \E s \in TripStatus \ {"unused"} : Set(t, s)
      BY <2>1 DEF StartLoading, Complete, ledger, TripStatus
    <3>2. \/ job' = job
          \/ \E place \in {"rank", "recount"}, goal \in Harvest : Begin(h, place, NoTrip, goal)
      BY <2>1, HarvestStatuses DEF StartLoading, Complete
    <3>3. \A g \in Slots : \/ job'[g] = job[g]
                           \/ job[g].at \notin InHand /\ job'[g].at \notin InHand
      <4>1. CASE \E place \in {"rank", "recount"}, goal \in Harvest : Begin(h, place, NoTrip, goal)
        BY <3>1, <4>1 DEF Begin, At, InHand, IInv, TypeOK
      <4> QED
        BY <3>2, <4>1
    <3>4. \A u \in Trips : trip'[u] = "unused" <=> trip[u] = "unused"
      BY <3>1 DEF Set, IInv, TypeOK
    <3>5. Left' = Left
      BY <3>1 DEF Left
    <3> QED
      BY <1>1, <1>2, <3>1, <3>3, <3>4, <3>5, CalmStep
  <2>2. ASSUME NEW t \in Trips, Plan(t) \/ CompleteLoading(t) \/ ForceStatus(t) PROVE IInv'
    <3>1. /\ Unlocked(t) /\ UNCHANGED <<produced, loaded, unchecked, serial, job>>
          /\ \E s \in TripStatus : Set(t, s)
      BY <2>2 DEF Plan, CompleteLoading, ForceStatus, ledger, TripStatus
    <3>2. \A u \in Trips : Unlocked(u) \/ (trip'[u] = "unused" <=> trip[u] = "unused")
      BY <3>1 DEF Set, IInv, TypeOK
    <3>3. Left' = Left
      BY <3>1 DEF Left
    <3> QED
      BY <1>1, <1>2, <3>1, <3>2, <3>3, CalmStep
  <2>3. ASSUME NEW t \in Trips, AddLoad(t) PROVE IInv'
    <3>1. /\ UNCHANGED <<produced, trip, job, serial>>
          /\ \E n \in 1..Largest : loaded' = loaded + n /\ unchecked' = unchecked + n
      BY <2>3 DEF AddLoad
    <3>2. Left' = Left
      BY <3>1, ConstantTypes DEF Left, IInv, TypeOK
    <3> QED
      BY <1>1, <1>2, <3>1, <3>2, CalmStep
  <2> QED
    BY <1>7, <2>1, <2>2, <2>3 DEF Move
<1>8. CASE Produce
  <2>1. Left <= Left' /\ UNCHANGED <<trip, job, serial>>
    BY <1>8, ConstantTypes DEF Produce, Left, IInv, TypeOK
  <2> QED
    BY <1>1, <2>1, CalmStep
<1>9. CASE DropProduction
  <2>1. Left' = Left /\ UNCHANGED <<trip, job, serial>>
    BY <1>9 DEF DropProduction, Left, IInv, TypeOK
  <2> QED
    BY <1>1, <1>2, <2>1, CalmStep
<1>10. CASE SetHarvest \/ UNCHANGED vars
  <2>1. Left' = Left /\ UNCHANGED <<trip, job, serial>>
    BY <1>10 DEF SetHarvest, vars, ledger, Left
  <2> QED
    BY <1>1, <1>2, <2>1, CalmStep
<1> QED
  BY <1>3, <1>4, <1>5, <1>6, <1>7, <1>8, <1>9, <1>10 DEF Next

\* The strengthened invariant holds in every reachable state: every variable in
\* its type, one holder of the day's lock, and every amount in hand covered by the
\* ledger but for what the others have taken since it was checked.
THEOREM InductiveInvariant == Spec => []IInv
BY InitIInv, StepIInv, PTL DEF Spec

\* As long as every load opens its own trip, registerLoad's check and INSERT are
\* as good as one step, for any number of loaders: the field is not overdrawn.
THEOREM SerialTheorem == Spec => []SerialLoadsFit
<1>1. IInv => SerialLoadsFit
  BY DEF IInv
<1> QED
  BY <1>1, InductiveInvariant, PTL

\* However loads on planned trips, loads that open trips and transfers interleave,
\* the field is overdrawn by at most one truck or transfer per handler but one.
THEOREM OverdraftTheorem == Spec => []OverdraftBounded
<1>1. IInv => OverdraftBounded
  BY CoveredIsBounded DEF IInv
<1> QED
  BY <1>1, InductiveInvariant, PTL
-----------------------------------------------------------------------------
(* The emptied field.                                                       *)

\* The steps that take no bales by a hooked way and complete no trip.
LEMMA NoticedKept ==
  ASSUME TypeOK, EmptiedIsNoticed, bypassed => bypassed',
         \A h \in Slots : job'[h].at = "adjust_loaded" => bypassed',
         ~bypassed' => /\ produced' >= produced /\ loaded' = loaded /\ produced' \in Int
                       /\ harvest = "completed" => harvest' = "completed"
                       /\ Carrying \subseteq Carrying'
                       /\ Completing # {} =>
                            \/ Completing' # {} \/ harvest' = "completed" \/ loaded < produced
  PROVE  EmptiedIsNoticed'
<1>1. produced \in Int /\ loaded \in Int
  BY DEF TypeOK
<1> QED
  BY <1>1 DEF EmptiedIsNoticed, At

\* A handler that is no hook of a completion may do anything else.
LEMMA OthersComplete ==
  ASSUME NEW h \in Slots, \A g \in Slots \ {h} : job'[g] = job[g],
         h \notin Completing
  PROVE  Completing \subseteq Completing'
BY DEF Completing

LEMMA NoneAdjusts ==
  ASSUME EmptiedIsNoticed, NEW h \in Slots, \A g \in Slots \ {h} : job'[g] = job[g],
         bypassed => bypassed', job'[h].at # "adjust_loaded" \/ bypassed'
  PROVE  \A g \in Slots : job'[g].at = "adjust_loaded" => bypassed'
BY DEF EmptiedIsNoticed, At

\* The same, of a handler's step that leaves the ledger, the harvest and the trips alone.
LEMMA NoticedJob ==
  ASSUME TypeOK, EmptiedIsNoticed, NEW h \in Slots, \A g \in Slots \ {h} : job'[g] = job[g],
         UNCHANGED <<produced, loaded, harvest, trip, ours>>,
         h \notin Completing \/ bypassed' \/ h \in Completing' \/ harvest = "completed"
           \/ loaded < produced,
         bypassed => bypassed', job'[h].at # "adjust_loaded" \/ bypassed'
  PROVE  EmptiedIsNoticed'
<1>1. \A g \in Slots : job'[g].at = "adjust_loaded" => bypassed'
  BY NoneAdjusts
<1>2. Carrying' = Carrying
  BY DEF Carrying
<1>3. produced \in Int /\ loaded \in Int
  BY DEF TypeOK
<1>4. ~bypassed' /\ Completing # {} =>
        Completing' # {} \/ harvest' = "completed" \/ loaded < produced
  BY DEF Completing
<1> QED
  BY <1>1, <1>2, <1>3, <1>4, NoticedKept

LEMMA NoticedTake ==
  ASSUME IInv, EmptiedIsNoticed, NEW h \in Slots, Take(h)
  PROVE  EmptiedIsNoticed'
<1>1. TypeOK /\ OneAtATime
  BY DEF IInv
<1>2. ASSUME NEW place \in {"tally", "transfer", "insert"}, job[h].at \in {"idle", "tally"},
             \/ \E t, goal : Begin(h, place, t, goal)
             \/ \E n : job' = [job EXCEPT ![h].at = place, ![h].count = n],
             UNCHANGED <<produced, loaded, harvest, trip, ours, bypassed>>
      PROVE  EmptiedIsNoticed'
  <2>1. job[h] \in Job
    BY <1>1 DEF TypeOK
  <2>2. job'[h].at = place /\ \A g \in Slots \ {h} : job'[g] = job[g]
    BY <1>1, <1>2, <2>1 DEF Begin, TypeOK, Job
  <2>3. h \notin Completing
    BY <1>2 DEF Completing
  <2> QED
    BY <1>1, <1>2, <2>2, <2>3, NoticedJob
<1>3. CASE Tally(h)
  BY <1>2, <1>3 DEF Tally, ledger, At
<1>4. CASE AskTransfer(h)
  BY <1>2, <1>4 DEF AskTransfer, ledger, At
<1>5. ASSUME NEW t \in Trips, LockTrip(h, t) \/ OpenTrip(h, t)
      PROVE  EmptiedIsNoticed'
  BY <1>2, <1>5 DEF LockTrip, OpenTrip, ledger, At
<1>6. CASE InsertLoad(h)
  <2> DEFINE t == job[h].trip
  <2>1. t \in Trips
    BY <1>1, <1>6 DEF InsertLoad, At, OneAtATime, Loading
  <2>2. trip'[t] = "on_the_road" /\ (bypassed \/ t \notin ours' => bypassed')
    BY <1>1, <1>6, <2>1 DEF InsertLoad, TypeOK
  <2>3. ~bypassed' => Carrying' # {}
    BY <2>2 DEF Carrying
  <2>4. job'[h].at = "recount" /\ \A g \in Slots \ {h} : job'[g] = job[g]
    BY <1>1, <1>6 DEF InsertLoad, Begin, TypeOK
  <2>5. \A g \in Slots : job'[g].at = "adjust_loaded" => bypassed'
    BY <2>2, <2>4, NoneAdjusts
  <2> QED
    BY <2>3, <2>5 DEF EmptiedIsNoticed, At
<1>7. ASSUME NEW t \in Trips, TransferToDepot(h, t)
      PROVE  EmptiedIsNoticed'
  BY <1>7 DEF TransferToDepot, EmptiedIsNoticed
<1> QED
  BY <1>3, <1>4, <1>5, <1>6, <1>7 DEF Take

\* A completion's hook finds the field empty and ahead of nothing, or is not needed.
LEMMA NoticedHook ==
  ASSUME IInv, EmptiedIsNoticed, NEW h \in Slots, Hook(h)
  PROVE  EmptiedIsNoticed'
<1>1. TypeOK /\ job[h] \in Job /\ harvest \in Harvest /\ produced \in Int /\ loaded \in Int
  BY DEF IInv, TypeOK
<1>2. UNCHANGED <<produced, loaded, trip, ours, bypassed>>
  BY DEF Hook, Recount, CompareRanks, Advance, ledger
<1>3. job' = [job EXCEPT ![h] = Idle] =>
        job'[h] = Idle /\ \A g \in Slots \ {h} : job'[g] = job[g]
  BY <1>1 DEF TypeOK
<1>4. \A place : job' = [job EXCEPT ![h].at = place] =>
        /\ job'[h].at = place /\ job'[h].goal = job[h].goal
        /\ \A g \in Slots \ {h} : job'[g] = job[g]
  BY <1>1 DEF TypeOK, Job
<1>5. Idle.at = "idle"
  BY DEF Idle
<1>6. CASE Recount(h)
  <2>1. UNCHANGED harvest
    BY <1>6 DEF Recount
  <2>2. CASE GoTo(h, "rank")
    <3>1. job'[h].at = "rank" /\ job'[h].goal = job[h].goal
          /\ \A g \in Slots \ {h} : job'[g] = job[g]
      BY <1>4, <2>2 DEF GoTo
    <3>2. h \in Completing => h \in Completing'
      BY <3>1 DEF Completing
    <3> QED
      BY <1>1, <1>2, <2>1, <3>1, <3>2, NoticedJob
  <2>3. CASE ~(Remaining <= 0) /\ End(h)
    <3>1. loaded < produced
      BY <1>1, <2>3 DEF Remaining
    <3> QED
      BY <1>1, <1>2, <1>3, <1>5, <2>1, <2>3, <3>1, NoticedJob DEF End
  <2> QED
    BY <1>6, <2>2, <2>3 DEF Recount
<1>7. CASE CompareRanks(h)
  <2>1. UNCHANGED harvest
    BY <1>7 DEF CompareRanks
  <2>2. CASE GoTo(h, "advance")
    <3>1. job'[h].at = "advance" /\ job'[h].goal = job[h].goal
          /\ \A g \in Slots \ {h} : job'[g] = job[g]
      BY <1>4, <2>2 DEF GoTo
    <3>2. h \in Completing => h \in Completing'
      BY <3>1 DEF Completing
    <3> QED
      BY <1>1, <1>2, <2>1, <3>1, <3>2, NoticedJob
  <2>3. CASE ~(Rank[job[h].goal] > Rank[harvest]) /\ End(h)
    <3>1. h \in Completing => harvest = "completed"
      BY <1>1, <2>3, HarvestStatuses DEF Completing, Rank
    <3> QED
      BY <1>1, <1>2, <1>3, <1>5, <2>1, <2>3, <3>1, NoticedJob DEF End
  <2> QED
    BY <1>7, <2>2, <2>3 DEF CompareRanks
<1>8. CASE Advance(h)
  <2>1. job'[h] = Idle /\ \A g \in Slots \ {h} : job'[g] = job[g]
    BY <1>3, <1>8 DEF Advance, End
  <2>2. harvest = "completed" => harvest' = "completed"
    BY <1>1, <1>8, HarvestStatuses DEF Advance, Rank, Job
  <2>3. h \in Completing => harvest' = "completed"
    BY <1>1, <1>8, HarvestStatuses DEF Advance, Rank, Completing
  <2>4. h \notin Completing => Completing \subseteq Completing'
    BY <2>1, OthersComplete
  <2>5. \A g \in Slots : job'[g].at = "adjust_loaded" => bypassed'
    BY <1>2, <1>5, <2>1, NoneAdjusts
  <2>6. Carrying' = Carrying
    BY <1>2 DEF Carrying
  <2> QED
    BY <1>1, <1>2, <2>2, <2>3, <2>4, <2>5, <2>6, NoticedKept
<1> QED
  BY <1>6, <1>7, <1>8 DEF Hook

LEMMA NoticedAdjust ==
  ASSUME IInv, EmptiedIsNoticed, NEW h \in Slots, Adjust(h) \/ Die(h)
  PROVE  EmptiedIsNoticed'
<1>1. TypeOK /\ job[h] \in Job
  BY DEF IInv, TypeOK
<1>2. CASE ReadTotals(h)
  <2>1. UNCHANGED <<produced, loaded, harvest, trip, ours, bypassed>> /\ job[h].at = "idle"
    BY <1>2 DEF ReadTotals, ledger, At
  <2>2. PICK p, l : job' = [job EXCEPT ![h].at = "adjust_produced",
                                       ![h].count = p - produced, ![h].other = l - loaded]
    BY <1>2 DEF ReadTotals
  <2>3. job'[h].at = "adjust_produced" /\ \A g \in Slots \ {h} : job'[g] = job[g]
    BY <1>1, <2>2 DEF TypeOK, Job
  <2>4. h \notin Completing
    BY <2>1 DEF Completing
  <2> QED
    BY <1>1, <2>1, <2>3, <2>4, NoticedJob
<1>3. CASE AdjustProduced(h)
  BY <1>3 DEF AdjustProduced, EmptiedIsNoticed
<1>4. CASE AdjustLoaded(h)
  <2>1. bypassed /\ bypassed'
    BY <1>4 DEF AdjustLoaded, EmptiedIsNoticed
  <2> QED
    BY <2>1 DEF EmptiedIsNoticed
<1>5. CASE Die(h)
  <2>1. UNCHANGED <<produced, loaded, harvest, trip, ours>>
        /\ bypassed' = (bypassed \/ job[h].goal = "completed")
    BY <1>5 DEF Die, ledger
  <2>2. job'[h].at = "idle" /\ \A g \in Slots \ {h} : job'[g] = job[g]
    BY <1>1, <1>5 DEF Die, End, Idle, TypeOK
  <2>3. h \notin Completing \/ bypassed'
    BY <2>1 DEF Completing
  <2> QED
    BY <1>1, <2>1, <2>2, <2>3, NoticedJob
<1> QED
  BY <1>2, <1>3, <1>4, <1>5 DEF Adjust

LEMMA NoticedMove ==
  ASSUME IInv, EmptiedIsNoticed, Move \/ Produce \/ DropProduction \/ SetHarvest
  PROVE  EmptiedIsNoticed'
<1>1. TypeOK /\ produced \in Int /\ loaded \in Int /\ harvest \in Harvest
  BY DEF IInv, TypeOK
<1>2. ASSUME UNCHANGED <<job, bypassed, loaded>>, Carrying \subseteq Carrying',
             produced' \in Int, produced' >= produced,
             harvest = "completed" => harvest' = "completed"
      PROVE  EmptiedIsNoticed'
  <2>1. \A g \in Slots : job'[g].at = "adjust_loaded" => bypassed'
    BY <1>2 DEF EmptiedIsNoticed, At
  <2>2. Completing' = Completing
    BY <1>2 DEF Completing
  <2> QED
    BY <1>1, <1>2, <2>1, <2>2, NoticedKept
<1>3. ASSUME NEW t \in Trips, Plan(t) \/ CompleteLoading(t)
      PROVE  EmptiedIsNoticed'
  <2>1. UNCHANGED <<produced, loaded, harvest, job, bypassed>>
    BY <1>3 DEF Plan, CompleteLoading, ledger
  <2>2. ours \subseteq ours' /\ \E s \in {"planned", "on_the_road"} : Set(t, s)
    BY <1>3 DEF Plan, CompleteLoading
  <2>3. Carrying \subseteq Carrying'
    BY <1>1, <2>2 DEF Set, Carrying, TypeOK
  <2> QED
    BY <1>1, <1>2, <2>1, <2>3
<1>4. ASSUME NEW t \in Trips, ForceStatus(t)
      PROVE  EmptiedIsNoticed'
  BY <1>4 DEF ForceStatus, EmptiedIsNoticed
<1>5. ASSUME NEW t \in Trips, AddLoad(t)
      PROVE  EmptiedIsNoticed'
  <2>1. UNCHANGED <<trip, ours, job>> /\ trip[t] # "unused"
        /\ bypassed' = (bypassed \/ t \notin ours \/ trip[t] = "done")
    BY <1>5 DEF AddLoad
  <2>2. ~bypassed' => Carrying' # {}
    BY <1>1, <2>1 DEF Carrying, TypeOK, TripStatus
  <2>3. \A g \in Slots : job'[g].at = "adjust_loaded" => bypassed'
    BY <2>1 DEF EmptiedIsNoticed, At
  <2> QED
    BY <2>2, <2>3 DEF EmptiedIsNoticed, At
<1>6. ASSUME NEW t \in Trips, NEW h \in Slots, StartLoading(h, t) \/ Complete(h, t)
      PROVE  EmptiedIsNoticed'
  <2>1. UNCHANGED <<produced, loaded, harvest, ours, bypassed>> /\ job[h].at = "idle"
    BY <1>6 DEF StartLoading, Complete, ledger, At
  <2>2. UNCHANGED job \/ \E place \in {"rank", "recount"} : \E goal : Begin(h, place, NoTrip, goal)
    BY <1>6 DEF StartLoading, Complete
  <2>3. job'[h].at # "adjust_loaded" /\ \A g \in Slots \ {h} : job'[g] = job[g]
    BY <1>1, <2>1, <2>2 DEF Begin, TypeOK
  <2>4. \A g \in Slots : job'[g].at = "adjust_loaded" => bypassed'
    BY <2>1, <2>3, NoneAdjusts
  <2>5. h \notin Completing
    BY <2>1 DEF Completing
  <2>6. Completing \subseteq Completing'
    BY <2>3, <2>5, OthersComplete
  <2>7. CASE StartLoading(h, t)
    <3>1. Carrying \subseteq Carrying'
      BY <1>1, <2>1, <2>7 DEF StartLoading, Set, Carrying, TypeOK
    <3> QED
      BY <1>1, <2>1, <2>4, <2>6, <3>1, NoticedKept
  <2>8. CASE Complete(h, t)
    <3>1. CASE t \in ours
      <4>1. h \in Completing'
        BY <1>1, <2>8, <3>1 DEF Complete, Begin, Completing, TypeOK
      <4> QED
        BY <2>4, <4>1 DEF EmptiedIsNoticed, At
    <3>2. CASE t \notin ours
      <4>1. Carrying \subseteq Carrying'
        BY <1>1, <2>1, <2>8, <3>2 DEF Complete, Set, Carrying, TypeOK
      <4> QED
        BY <1>1, <2>1, <2>4, <2>6, <4>1, NoticedKept
    <3> QED
      BY <3>1, <3>2
  <2> QED
    BY <1>6, <2>7, <2>8
<1>7. CASE Produce
  <2>1. UNCHANGED <<loaded, harvest, trip, ours, job, bypassed>>
    BY <1>7 DEF Produce
  <2>2. produced' \in Int /\ produced' >= produced
    BY <1>1, <1>7, ConstantTypes DEF Produce
  <2>3. Carrying' = Carrying
    BY <2>1 DEF Carrying
  <2> QED
    BY <1>2, <2>1, <2>2, <2>3
<1>8. CASE DropProduction
  BY <1>8 DEF DropProduction, EmptiedIsNoticed
<1>9. CASE SetHarvest
  <2>1. UNCHANGED <<produced, loaded, trip, ours, job, bypassed>>
    BY <1>9 DEF SetHarvest, ledger
  <2>2. harvest = "completed" => harvest' = "completed"
    BY <1>9, HarvestStatuses DEF SetHarvest, Rank
  <2>3. Carrying' = Carrying
    BY <2>1 DEF Carrying
  <2> QED
    BY <1>1, <1>2, <2>1, <2>2, <2>3
<1> QED
  BY <1>3, <1>4, <1>5, <1>6, <1>7, <1>8, <1>9 DEF Move

LEMMA NextNoticed == IInv /\ EmptiedIsNoticed /\ [Next]_vars => EmptiedIsNoticed'
<1> SUFFICES ASSUME IInv, EmptiedIsNoticed, [Next]_vars PROVE EmptiedIsNoticed'
  OBVIOUS
<1>1. CASE UNCHANGED vars
  BY <1>1 DEF vars, ledger, EmptiedIsNoticed, Carrying, Completing, At
<1>2. ASSUME NEW h \in Slots, Take(h) \/ Hook(h) \/ Adjust(h) \/ Die(h)
      PROVE  EmptiedIsNoticed'
  BY <1>2, NoticedTake, NoticedHook, NoticedAdjust
<1> QED
  BY <1>1, <1>2, NoticedMove DEF Next

\* Bales that left on a trip of the field's are on it still, or its completion's hook
\* runs, or has moved the field.
THEOREM NoticedTheorem == Spec => []EmptiedIsNoticed
<1>1. Init => EmptiedIsNoticed
  BY DEF Init, EmptiedIsNoticed, At, Idle
<1> QED
  BY <1>1, NextNoticed, InductiveInvariant, PTL DEF Spec

\* However the hooks of loads and deliveries overtook each other, a field whose bales
\* have all left on completed trips ends as completed: no hook takes it back
\* (runPostCompleteHooks, prevent_harvest_status_downgrade).
THEOREM EmptiedTheorem == Spec => []EmptiedFieldIsCompleted
<1>1. IInv /\ EmptiedIsNoticed => EmptiedFieldIsCompleted
  <2> SUFFICES ASSUME IInv, EmptiedIsNoticed, 0 < loaded, Remaining = 0, ~bypassed,
                      \A h \in Slots : At(h, "idle"),
                      \A t \in Trips : trip[t] \in {"unused", "done"}
               PROVE  harvest = "completed"
    BY DEF EmptiedFieldIsCompleted
  <2>1. produced <= loaded
    BY DEF Remaining, IInv, TypeOK
  <2>2. Carrying = {} /\ Completing = {}
    BY DEF Carrying, Completing, At, IInv, TypeOK
  <2> QED
    BY <2>1, <2>2 DEF EmptiedIsNoticed
<1> QED
  BY <1>1, NoticedTheorem, InductiveInvariant, PTL
=============================================================================
