----------------------- MODULE TransitionQueue_proofs -----------------------
(***************************************************************************)
(* Proofs about TransitionQueue, for any SyncManagers, steps and bounds:   *)
(* the order the server takes the steps in, the types, and what a step     *)
(* that was dropped was behind.                                            *)
(***************************************************************************)
EXTENDS TransitionQueue, NaturalsInduction, WellFoundedInduction, TLAPS

\* A step leads from below its rank to its rank.
LEMMA StepAdvances ==
  ASSUME NEW e, NEW s \in Status, EventOf(e) \in Available(s)
  PROVE  Level(s) < Rank(e) /\ Level(Target(e)) = Rank(e) /\ Target(e) \in Status
BY DEF EventOf, Available, Level, Rank, Target, Status

\* An event of somebody else's leads forward too, the dispute apart.
LEMMA EventAdvances ==
  ASSUME NEW s \in Status, NEW ev \in Available(s), ev # "DISPUTE", NEW t \in Targets(ev)
  PROVE  Level(s) <= Level(t) /\ t \in Status
BY DEF Available, Targets, Level, Status

LEMMA Levels == /\ \A s : Level(s) \in Nat
                /\ \A e : Rank(e) \in Nat
BY DEF Level, Rank

LEMMA HandleInv ==
  ASSUME IInv, NEW e, Handle(e)
  PROVE  IInv'
<1>1. server \in [status : Status, version : Nat] /\ applied \in Seq(Set(applied))
  BY DEF IInv, AppliedIsBehind
<1>2. Level(server.status) < Rank(e) /\ Level(Target(e)) = Rank(e) /\ Target(e) \in Status
  BY <1>1, StepAdvances DEF Handle, Accepts
<1>3. server' = [status |-> Target(e), version |-> server.version + 1]
  BY DEF Handle, Advance
<1>4. server' \in [status : Status, version : Nat] /\ server'.status = Target(e)
  BY <1>1, <1>2, <1>3
<1> DEFINE S == Set(applied) \cup {e}
<1>5. applied \in Seq(S) /\ e \in S
  BY <1>1
<1>6. /\ applied' = Append(applied, e) /\ applied' \in Seq(S)
      /\ DOMAIN applied' = DOMAIN applied \cup {Len(applied) + 1}
      /\ Len(applied) \in Nat /\ DOMAIN applied = 1..Len(applied)
      /\ applied'[Len(applied) + 1] = e
      /\ \A i \in DOMAIN applied : applied'[i] = applied[i]
  BY <1>5 DEF Handle
<1>7. applied' \in Seq(Set(applied)')
  <2>1. \A i \in 1..Len(applied') : applied'[i] \in Set(applied)'
    BY <1>6 DEF Set
  <2> QED
    BY <1>6, <2>1
<1>8. \A i \in DOMAIN applied' : Rank(applied'[i]) <= Level(server'.status)
  <2>1. ASSUME NEW i \in DOMAIN applied
        PROVE  Rank(applied[i]) < Rank(e)
    <3>1. Rank(applied[i]) <= Level(server.status)
      BY DEF IInv, AppliedIsBehind
    <3> QED
      BY <1>2, <3>1, Levels
  <2> QED
    BY <1>2, <1>4, <1>6, <2>1, Levels
<1>9. InOrderOnce'
  <2> SUFFICES ASSUME NEW i \in DOMAIN applied', NEW j \in DOMAIN applied', i < j
               PROVE  Rank(applied'[i]) < Rank(applied'[j])
    BY DEF InOrderOnce
  <2>1. i \in DOMAIN applied
    BY <1>6
  <2>2. CASE j \in DOMAIN applied
    BY <1>6, <2>1, <2>2 DEF IInv, InOrderOnce
  <2>3. CASE j = Len(applied) + 1
    <3>1. Rank(applied[i]) <= Level(server.status)
      BY <2>1 DEF IInv, AppliedIsBehind
    <3> QED
      BY <1>2, <1>6, <2>1, <2>3, <3>1, Levels
  <2> QED
    BY <1>6, <2>2, <2>3
<1> QED
  BY <1>4, <1>7, <1>8, <1>9 DEF IInv, AppliedIsBehind

LEMMA SameInv ==
  ASSUME IInv, UNCHANGED <<server, applied>>
  PROVE  IInv'
BY DEF IInv, AppliedIsBehind, InOrderOnce, Set

LEMMA OtherInv ==
  ASSUME IInv, OtherMoves, "DISPUTE" \notin OtherEvents
  PROVE  IInv'
<1>1. PICK ev \in OtherEvents \cap Available(server.status) : \E s \in Targets(ev) : Advance(s)
  BY DEF OtherMoves
<1>2. PICK s \in Targets(ev) : Advance(s)
  BY <1>1
<1>3. server \in [status : Status, version : Nat] /\ applied' = applied
  BY DEF IInv, AppliedIsBehind, OtherMoves
<1>4. ev # "DISPUTE"
  OBVIOUS
<1>5. Level(server.status) <= Level(s) /\ s \in Status
  BY <1>3, <1>4, EventAdvances
<1>6. server' \in [status : Status, version : Nat] /\ server'.status = s
  BY <1>2, <1>3, <1>5 DEF Advance
<1>7. ASSUME NEW i \in DOMAIN applied
      PROVE  Rank(applied[i]) <= Level(s)
  <2>1. Rank(applied[i]) <= Level(server.status)
    BY DEF IInv, AppliedIsBehind
  <2> QED
    BY <1>5, <2>1, Levels
<1> QED
  BY <1>3, <1>6, <1>7 DEF IInv, AppliedIsBehind, InOrderOnce, Set

LEMMA NextInv ==
  ASSUME IInv, [Next]_vars, "DISPUTE" \notin OtherEvents
  PROVE  IInv'
<1>1. CASE UNCHANGED vars
  BY <1>1, SameInv DEF vars, history
<1>2. CASE DriverTaps \/ DriverDelivers \/ DepotTapsOffline \/ Record \/ RetryAllFailed \/ RetryOne
           \/ Crash
  BY <1>2, SameInv
  DEF DriverTaps, DriverDelivers, DepotTapsOffline, Record, RetryAllFailed, RetryOne, Retry, Crash,
      history
<1>3. CASE DepotTapsOnline
  BY <1>3, HandleInv DEF DepotTapsOnline
<1>4. CASE LateArrival
  BY <1>4, HandleInv, SameInv DEF LateArrival
<1>5. ASSUME NEW m \in Managers, Sync(m)
      PROVE  IInv'
  <2>1. ASSUME NEW e \in Steps, PostApplied(m, e)
        PROVE  IInv'
    BY <2>1, HandleInv DEF PostApplied
  <2>2. CASE UNCHANGED <<server, applied>>
    BY <2>2, SameInv
  <2> QED
    BY <1>5, <2>1, <2>2
    DEF Sync, Push, Begin, Dequeue, MarkInFlight, Defer, PostNotAllowed, PostRefused, PostUnanswered,
        MarkCompleted, MarkFailed, Fetch, FetchNothing, FindLocal, CheckUnsent, Upsert, history
<1> QED
  BY <1>1, <1>2, <1>3, <1>4, <1>5, OtherInv DEF Next

LEMMA InitInv == Init => IInv
<1> SUFFICES ASSUME Init
             PROVE  IInv
  OBVIOUS
<1>1. server \in [status : Status, version : Nat]
  BY TransitionQueueAssumption DEF Init
<1>2. applied = <<>> /\ DOMAIN applied = {}
  BY DEF Init
<1> QED
  BY <1>1, <1>2 DEF IInv, AppliedIsBehind, InOrderOnce

\* However many cycles, retries, killed apps and late posts there are, the server takes
\* this phone's steps in the trip's order and each at most once, on a trip nobody
\* disputes: what a replay meets is a trip that is past it (validateTransition).
THEOREM OrderTheorem ==
  ASSUME "DISPUTE" \notin OtherEvents
  PROVE  Spec => []InOrderOnce
<1>1. Init => IInv
  BY InitInv
<1>2. IInv /\ [Next]_vars => IInv'
  BY NextInv
<1>3. IInv => InOrderOnce
  BY DEF IInv
<1> QED
  BY <1>1, <1>2, <1>3, PTL DEF Spec
-----------------------------------------------------------------------------
(* Only.  What it computes is shown by the least prefix on which it would not. *)

Less == {p \in Nat \X Nat : p[1] < p[2]}

\* A set of naturals has a least one.
LEMMA LeastOne ==
  ASSUME NEW T \in SUBSET Nat, T # {}
  PROVE  \E n \in T : \A m \in T : n <= m
<1>1. IsWellFoundedOn(Less, Nat)
  BY NatLessThanWellFounded DEF OpToRel, Less
<1>2. PICK n \in T : \A m \in T : <<m, n>> \notin Less
  BY <1>1, WFMin
<1>3. \A m \in T : ~(m < n)
  <2> SUFFICES ASSUME NEW m \in T, m < n
               PROVE  FALSE
    OBVIOUS
  <2>1. <<m, n>> \in Nat \X Nat /\ <<m, n>>[1] = m /\ <<m, n>>[2] = n
    OBVIOUS
  <2>2. <<m, n>> \in Less
    BY <2>1, Zenon DEF Less
  <2> QED
    BY <1>2, <2>2
<1> QED
  BY <1>3

\* What Only computes, prefix by prefix.
Prefixes(f, s, es, m) ==
  /\ f = [n \in 0..m |-> f[n]]
  /\ f[0] = <<>>
  /\ \A n \in 1..m : f[n] = IF s[n] \in es THEN Append(f[n - 1], s[n]) ELSE f[n - 1]

LEMMA PrefixesExist ==
  ASSUME NEW s, NEW es, NEW l \in Nat
  PROVE  \E f : Prefixes(f, s, es, l)
<1> DEFINE T == {m \in Nat : ~\E f : Prefixes(f, s, es, m)}
<1> SUFFICES ASSUME T # {}
             PROVE  FALSE
  OBVIOUS
<1>1. PICK m \in T : \A k \in T : m <= k
  BY LeastOne
<1>2. CASE m = 0
  <2> DEFINE f == [n \in 0..0 |-> <<>>]
  <2>1. Prefixes(f, s, es, 0)
    BY DEF Prefixes
  <2> QED
    BY <1>2, <2>1
<1>3. CASE m # 0
  <2>1. m - 1 \in Nat /\ m - 1 \notin T
    BY <1>1, <1>3
  <2>2. PICK f : Prefixes(f, s, es, m - 1)
    BY <2>1
  <2> DEFINE last == IF s[m] \in es THEN Append(f[m - 1], s[m]) ELSE f[m - 1]
             g == [n \in 0..m |-> IF n = m THEN last ELSE f[n]]
  <2>3. \A n \in 0..(m - 1) : g[n] = f[n]
    BY <2>1
  <2>4. g[m] = last
    BY <2>1
  <2>5. g[0] = <<>>
    BY <2>1, <2>2, <2>3 DEF Prefixes
  <2>6. \A n \in 1..m : g[n] = IF s[n] \in es THEN Append(g[n - 1], s[n]) ELSE g[n - 1]
    <3> SUFFICES ASSUME NEW n \in 1..m
                 PROVE  g[n] = IF s[n] \in es THEN Append(g[n - 1], s[n]) ELSE g[n - 1]
      OBVIOUS
    <3>1. g[n - 1] = f[n - 1]
      BY <2>1, <2>3
    <3>2. CASE n = m
      BY <3>1, <3>2, <2>4
    <3>3. CASE n # m
      <4>1. n \in 1..(m - 1) /\ n \in 0..(m - 1)
        BY <3>3, <2>1
      <4>2. f[n] = IF s[n] \in es THEN Append(f[n - 1], s[n]) ELSE f[n - 1]
        BY <4>1, <2>2 DEF Prefixes
      <4> QED
        BY <4>1, <4>2, <3>1, <2>3
    <3> QED
      BY <3>2, <3>3
  <2>7. g = [n \in 0..m |-> g[n]]
    OBVIOUS
  <2> HIDE DEF g
  <2>8. Prefixes(g, s, es, m)
    BY <2>5, <2>6, <2>7 DEF Prefixes
  <2> QED
    BY <2>8
<1> QED
  BY <1>2, <1>3

LEMMA OnlyByPrefixes ==
  ASSUME NEW S, NEW s \in Seq(S), NEW es
  PROVE  \E f : Prefixes(f, s, es, Len(s)) /\ Only(s, es) = f[Len(s)]
<1> DEFINE Kept(f) == [n \in 0..Len(s) |->
                         IF n = 0 THEN <<>>
                         ELSE IF s[n] \in es THEN Append(f[n - 1], s[n]) ELSE f[n - 1]]
           kept == CHOOSE f : f = Kept(f)
<1>0. Len(s) \in Nat
  OBVIOUS
<1>1. PICK f : Prefixes(f, s, es, Len(s))
  BY <1>0, PrefixesExist
<1>2. f = Kept(f)
  <2>1. ASSUME NEW n \in 0..Len(s) PROVE f[n] = Kept(f)[n]
    <3>1. Kept(f)[n] = IF n = 0 THEN <<>>
                       ELSE IF s[n] \in es THEN Append(f[n - 1], s[n]) ELSE f[n - 1]
      OBVIOUS
    <3>2. n = 0 \/ n \in 1..Len(s)
      BY <1>0
    <3> HIDE DEF Kept
    <3> QED
      BY <1>1, <3>1, <3>2, Zenon DEF Prefixes
  <2>2. f = [n \in 0..Len(s) |-> f[n]]
    BY <1>1, Zenon DEF Prefixes
  <2> QED
    BY <2>1, <2>2
<1>3. kept = Kept(kept)
  BY <1>2
<1>4. Prefixes(kept, s, es, Len(s))
  <2>1. \A n \in 0..Len(s) : kept[n] = IF n = 0 THEN <<>>
                         ELSE IF s[n] \in es THEN Append(kept[n - 1], s[n]) ELSE kept[n - 1]
    BY <1>3
  <2>2. kept = [n \in 0..Len(s) |-> kept[n]]
    BY <1>3
  <2> HIDE DEF kept
  <2> QED
    BY <2>1, <2>2 DEF Prefixes
<1>5. Only(s, es) = kept[Len(s)]
  BY DEF Only
<1> QED
  BY <1>4, <1>5

\* One sequence takes elements of another one, in their order.
Takes(t, s, es, n) ==
  /\ \A j \in DOMAIN t : \E l \in 1..n : s[l] \in es /\ t[j] = s[l]
  /\ \A i, j \in DOMAIN t : i < j => \E k, l \in 1..n : k < l /\ t[i] = s[k] /\ t[j] = s[l]
  /\ \A l \in 1..n : s[l] \in es => \E j \in DOMAIN t : t[j] = s[l]

LEMMA AppendTakes ==
  ASSUME NEW S, NEW t \in Seq(S), NEW s, NEW es, NEW n \in Nat, Takes(t, s, es, n),
         s[n + 1] \in S, s[n + 1] \in es
  PROVE  Takes(Append(t, s[n + 1]), s, es, n + 1)
<1> DEFINE u == Append(t, s[n + 1])
<1>1. /\ Len(t) \in Nat /\ DOMAIN t = 1..Len(t) /\ DOMAIN u = 1..(Len(t) + 1)
      /\ u[Len(t) + 1] = s[n + 1] /\ \A i \in DOMAIN t : u[i] = t[i]
  OBVIOUS
<1> HIDE DEF u
<1>2. ASSUME NEW j \in DOMAIN u
      PROVE  \E l \in 1..(n + 1) : s[l] \in es /\ u[j] = s[l]
  <2>1. CASE j \in DOMAIN t
    <3>1. PICK l \in 1..n : s[l] \in es /\ t[j] = s[l]
      BY <2>1 DEF Takes
    <3> QED
      BY <1>1, <2>1, <3>1
  <2>2. CASE j = Len(t) + 1
    <3>1. n + 1 \in 1..(n + 1)
      OBVIOUS
    <3> QED
      BY <1>1, <2>2, <3>1
  <2> QED
    BY <1>1, <2>1, <2>2
<1>3. ASSUME NEW i \in DOMAIN u, NEW j \in DOMAIN u, i < j
      PROVE  \E k, l \in 1..(n + 1) : k < l /\ u[i] = s[k] /\ u[j] = s[l]
  <2>1. i \in DOMAIN t
    BY <1>1, <1>3
  <2>2. CASE j \in DOMAIN t
    <3>1. PICK k \in 1..n, l \in 1..n : k < l /\ t[i] = s[k] /\ t[j] = s[l]
      BY <1>3, <2>1, <2>2 DEF Takes
    <3> QED
      BY <1>1, <2>1, <2>2, <3>1
  <2>3. CASE j = Len(t) + 1
    <3>1. PICK k \in 1..n : t[i] = s[k]
      BY <2>1 DEF Takes
    <3>2. n + 1 \in 1..(n + 1) /\ k \in 1..(n + 1) /\ k < n + 1
      OBVIOUS
    <3> QED
      BY <1>1, <2>1, <2>3, <3>1, <3>2
  <2> QED
    BY <1>1, <2>2, <2>3
<1>4. ASSUME NEW l \in 1..(n + 1), s[l] \in es
      PROVE  \E j \in DOMAIN u : u[j] = s[l]
  <2>1. CASE l \in 1..n
    <3>1. PICK j \in DOMAIN t : t[j] = s[l]
      BY <1>4, <2>1 DEF Takes
    <3> QED
      BY <1>1, <3>1
  <2>2. CASE l = n + 1
    BY <1>1, <2>2
  <2> QED
    BY <2>1, <2>2
<1> QED
  BY <1>2, <1>3, <1>4 DEF Takes, u

LEMMA SameTakes ==
  ASSUME NEW t, NEW s, NEW es, NEW n \in Nat, Takes(t, s, es, n), s[n + 1] \notin es
  PROVE  Takes(t, s, es, n + 1)
<1>1. \A l \in 1..(n + 1) : l \in 1..n \/ l = n + 1
  OBVIOUS
<1>2. \A l \in 1..n : l \in 1..(n + 1)
  OBVIOUS
<1> QED
  BY <1>1, <1>2 DEF Takes

LEMMA OnlyTakes ==
  ASSUME NEW S, NEW s \in Seq(S), NEW es
  PROVE  Only(s, es) \in Seq(S) /\ Takes(Only(s, es), s, es, Len(s))
<1>1. PICK f : Prefixes(f, s, es, Len(s)) /\ Only(s, es) = f[Len(s)]
  BY OnlyByPrefixes
<1>2. Len(s) \in Nat /\ \A i \in 1..Len(s) : s[i] \in S
  OBVIOUS
<1> DEFINE Good(n) == f[n] \in Seq(S) /\ Takes(f[n], s, es, n)
           T == {n \in 0..Len(s) : ~Good(n)}
<1>3. T = {}
  <2> SUFFICES ASSUME T # {}
               PROVE  FALSE
    OBVIOUS
  <2> HIDE DEF Good
  <2>0. T \in SUBSET Nat
    BY <1>2
  <2>1. PICK n \in T : \A m \in T : n <= m
    BY <2>0, LeastOne, Zenon
  <2>2. CASE n = 0
    <3>1. f[0] = <<>> /\ f[0] \in Seq(S) /\ DOMAIN f[0] = {} /\ 1..0 = {}
      <4>1. f[0] = <<>>
        BY <1>1, Zenon DEF Prefixes
      <4> QED
        BY <4>1
    <3>2. Takes(f[0], s, es, 0)
      BY <3>1, Zenon DEF Takes
    <3> QED
      BY <2>1, <2>2, <3>1, <3>2 DEF Good
  <2>3. CASE n # 0
    <3> DEFINE p == n - 1
    <3>1. p \in 0..Len(s) /\ p \in Nat /\ p + 1 = n /\ n \in 1..Len(s)
      BY <1>2, <2>1, <2>3
    <3>2. Good(p)
      BY <2>1, <3>1
    <3>3. f[n] = IF s[n] \in es THEN Append(f[p], s[n]) ELSE f[p]
      BY <1>1, <3>1 DEF Prefixes
    <3> HIDE DEF p
    <3>4. CASE s[n] \in es
      <4>1. f[n] = Append(f[p], s[p + 1]) /\ s[p + 1] \in S /\ s[p + 1] \in es
        BY <1>2, <3>1, <3>3, <3>4
      <4>2. Takes(f[n], s, es, p + 1)
        BY <3>1, <3>2, <4>1, AppendTakes DEF Good
      <4>3. f[n] \in Seq(S)
        BY <3>2, <4>1 DEF Good
      <4> QED
        BY <2>1, <3>1, <4>2, <4>3 DEF Good
    <3>5. CASE s[n] \notin es
      <4>1. f[n] = f[p] /\ s[p + 1] \notin es
        BY <3>1, <3>3, <3>5
      <4>2. Takes(f[n], s, es, p + 1)
        BY <3>1, <3>2, <4>1, SameTakes DEF Good
      <4> QED
        BY <2>1, <3>1, <3>2, <4>1, <4>2 DEF Good
    <3> QED
      BY <3>4, <3>5
  <2> QED
    BY <2>2, <2>3
<1>4. Good(Len(s))
  BY <1>2, <1>3
<1> QED
  BY <1>1, <1>4

\* Only takes out the elements that are in a set, ...
LEMMA OnlySet ==
  ASSUME NEW S, NEW s \in Seq(S), NEW es
  PROVE  Set(Only(s, es)) = Set(s) \cap es
<1>1. Takes(Only(s, es), s, es, Len(s)) /\ DOMAIN s = 1..Len(s)
  BY OnlyTakes
<1> DEFINE t == Only(s, es)
<1> HIDE DEF t
<1>2. ASSUME NEW x \in Set(t)
      PROVE  x \in Set(s) \cap es
  <2>1. PICK j \in DOMAIN t : x = t[j]
    BY DEF Set
  <2>2. PICK l \in DOMAIN s : s[l] \in es /\ t[j] = s[l]
    BY <1>1, Zenon DEF Takes, t
  <2> QED
    BY <2>1, <2>2 DEF Set
<1>3. ASSUME NEW x \in Set(s) \cap es
      PROVE  x \in Set(t)
  <2>1. PICK l \in DOMAIN s : x = s[l]
    BY DEF Set
  <2>2. \E j \in DOMAIN t : t[j] = s[l]
    BY <1>1, <2>1, Zenon DEF Takes, t
  <2> QED
    BY <2>1, <2>2 DEF Set
<1> QED
  BY <1>2, <1>3 DEF t

\* ... each as often as before, ...
LEMMA OnlyOnce ==
  ASSUME NEW S, NEW s \in Seq(S), NEW es, Once(s)
  PROVE  Once(Only(s, es))
<1>1. Takes(Only(s, es), s, es, Len(s)) /\ DOMAIN s = 1..Len(s) /\ Len(s) \in Nat
  BY OnlyTakes
<1> DEFINE t == Only(s, es)
<1>2. t \in Seq(S) /\ DOMAIN t = 1..Len(t) /\ Len(t) \in Nat
  BY OnlyTakes
<1> HIDE DEF t
<1>3. ASSUME NEW i \in DOMAIN t, NEW j \in DOMAIN t, i < j, t[i] = t[j]
      PROVE  FALSE
  <2>1. PICK k \in 1..Len(s), l \in 1..Len(s) : k < l /\ t[i] = s[k] /\ t[j] = s[l]
    BY <1>1, <1>3 DEF Takes, t
  <2>2. k = l
    BY <1>1, <1>3, <2>1, Zenon DEF Once
  <2> QED
    BY <2>1, <2>2
<1>4. \A i, j \in DOMAIN t : t[i] = t[j] => i = j
  BY <1>2, <1>3
<1> QED
  BY <1>4 DEF Once, t

\* ... in their order.
LEMMA OnlySorted ==
  ASSUME NEW S, NEW s \in Seq(S), NEW es, Sorted(s)
  PROVE  Sorted(Only(s, es))
<1>1. Takes(Only(s, es), s, es, Len(s)) /\ DOMAIN s = 1..Len(s)
  BY OnlyTakes
<1> DEFINE t == Only(s, es)
<1> HIDE DEF t
<1>2. ASSUME NEW i \in DOMAIN t, NEW j \in DOMAIN t, i < j
      PROVE  Rank(t[i]) < Rank(t[j]) \/ t[j] \in Sent
  <2>1. PICK k \in 1..Len(s), l \in 1..Len(s) : k < l /\ t[i] = s[k] /\ t[j] = s[l]
    BY <1>1, <1>2 DEF Takes, t
  <2> QED
    BY <1>1, <2>1 DEF Sorted
<1> QED
  BY <1>2 DEF Sorted, t
-----------------------------------------------------------------------------
(* Types, and a step's one place in the queue and in a cycle.              *)

\* What is asked of a cycle.
Answers(c) == /\ Once(c.batch)
              /\ Set(c.batch) \cap (c.ok \cup c.bad \cup c.refused) = {}
              /\ c.pc = "dequeue" => c.ok \cup c.bad \cup c.refused = {}
              /\ c.ok \cap c.bad = {}

LEMMA CycleMoves ==
  ASSUME QueueInv, NEW m \in Managers, NEW c \in Cycle, Answers(c),
         cycle' = [cycle EXCEPT ![m] = c]
  PROVE  /\ cycle' \in [Managers -> Cycle]
         /\ \A n \in Managers : cycle'[n].ok \cap cycle'[n].bad = {}
         /\ OneAnswerEach'
<1>1. cycle \in [Managers -> Cycle]
  BY DEF QueueInv, TypeOK
<1>2. \A n \in Managers : cycle'[n] = IF n = m THEN c ELSE cycle[n]
  BY <1>1
<1>3. cycle' \in [Managers -> Cycle]
  BY <1>1
<1>4. \A n \in Managers : Answers(cycle'[n])
  BY <1>2 DEF QueueInv, TypeOK, OneAnswerEach, Answers, At
<1> QED
  BY <1>3, <1>4 DEF OneAnswerEach, Answers, At

LEMMA QueueIdle == Answers(Idle) /\ Idle \in Cycle
<1>1. NoTrip \in [status : Status, version : Nat] /\ Start \in Status
  BY TransitionQueueAssumption DEF NoTrip
<1>2. <<>> \in Seq(Steps) /\ DOMAIN <<>> = {}
  OBVIOUS
<1>3. Idle \in Cycle
  BY <1>1, <1>2 DEF Idle, Cycle
<1>4. Idle.batch = <<>> /\ Idle.ok = {} /\ Idle.bad = {} /\ Idle.refused = {}
  BY DEF Idle
<1>5. Answers(Idle)
  BY <1>2, <1>4 DEF Answers, Once, Set
<1> QED
  BY <1>3, <1>5

\* A cycle that only changes its place, or what it has of the trip.
LEMMA SameAnswers ==
  ASSUME QueueInv, NEW m \in Managers, NEW c \in Cycle,
         c.batch = cycle[m].batch, c.ok = cycle[m].ok, c.bad = cycle[m].bad,
         c.refused = cycle[m].refused, c.pc # "dequeue"
  PROVE  Answers(c)
BY DEF QueueInv, TypeOK, OneAnswerEach, Answers, At

\* A step that leaves the rows and the cycles alone.
LEMMA QueueCalm ==
  ASSUME QueueInv, UNCHANGED <<order, row, cycle>>, TypeOK'
  PROVE  QueueInv'
BY DEF QueueInv, OneRowEach, OneAnswerEach, Once, Set, Rows, At

LEMMA AcceptsTyped ==
  ASSUME NEW e, NEW s \in Status, EventOf(e) \in Available(s)
  PROVE  Target(e) \in Status
BY StepAdvances

LEMMA QueueHandle ==
  ASSUME QueueInv, NEW e \in Steps, Handle(e)
  PROVE  server' \in [status : Status, version : Nat] /\ applied' \in Seq(Steps)
<1>1. server \in [status : Status, version : Nat] /\ applied \in Seq(Steps)
  BY DEF QueueInv, TypeOK
<1>2. Target(e) \in Status
  BY <1>1, StepAdvances DEF Handle, Accepts
<1> QED
  BY <1>1, <1>2 DEF Handle, Advance

LEMMA TargetTyped == \A e \in Steps : Target(e) \in Status
BY DEF Target, Status

LEMMA UnansweredTyped ==
  ASSUME TypeOK, NEW e \in Steps, Unanswered(e)
  PROVE  /\ spent' \in [losses : 0..MaxLosses, retries : 0..MaxRetries, crashes : 0..MaxCrashes]
         /\ late' \subseteq Steps
<1>1. spent \in [losses : 0..MaxLosses, retries : 0..MaxRetries, crashes : 0..MaxCrashes]
  BY DEF TypeOK
<1>2. spent.losses + 1 \in 0..MaxLosses
  BY <1>1, TransitionQueueAssumption DEF Unanswered
<1>3. late' \subseteq Steps
  BY DEF TypeOK, Unanswered
<1> QED
  BY <1>1, <1>2, <1>3 DEF Unanswered

Writes == [into : {"trips", "sync_queue"}, step : Steps]

LEMMA QueueUser ==
  ASSUME QueueInv, DriverTaps \/ DriverDelivers \/ DepotTapsOnline \/ DepotTapsOffline
  PROVE  QueueInv'
<1>1. \A e \in Steps : ToTrip(e) \in Writes /\ ToQueue(e) \in Writes
  BY DEF ToTrip, ToQueue, Writes
<1>2. CASE DriverTaps
  <2>1. PICK e \in Steps : hand' = <<ToTrip(e), ToQueue(e)>>
    BY <1>2 DEF DriverTaps
  <2>2. hand' \in Seq(Writes)
    BY <1>1, <2>1
  <2>3. TypeOK'
    BY <1>2, <2>2 DEF DriverTaps, QueueInv, TypeOK, Writes, history
  <2> QED
    BY <1>2, <2>3, QueueCalm DEF DriverTaps
<1>3. CASE DriverDelivers
  <2>1. hand' \in Seq(Writes)
    BY <1>1, <1>3 DEF DriverDelivers
  <2>2. TypeOK'
    BY <1>3, <2>1 DEF DriverDelivers, QueueInv, TypeOK, Writes, history
  <2> QED
    BY <1>3, <2>2, QueueCalm DEF DriverDelivers
<1>4. CASE DepotTapsOnline
  <2>1. PICK e \in Steps : Handle(e)
    BY <1>4 DEF DepotTapsOnline
  <2>2. server' \in [status : Status, version : Nat] /\ applied' \in Seq(Steps)
    BY <2>1, QueueHandle
  <2>3. TypeOK'
    BY <1>4, <2>2 DEF DepotTapsOnline, phone, QueueInv, TypeOK
  <2> QED
    BY <1>4, <2>3, QueueCalm DEF DepotTapsOnline, phone
<1>5. CASE DepotTapsOffline
  <2>1. PICK e \in Steps : /\ hand' = <<ToQueue(e), ToTrip(e)>>
                           /\ Unanswered(e)
    BY <1>5 DEF DepotTapsOffline
  <2>2. hand' \in Seq(Writes)
    BY <1>1, <2>1
  <2>3. /\ spent' \in [losses : 0..MaxLosses, retries : 0..MaxRetries, crashes : 0..MaxCrashes]
        /\ late' \subseteq Steps
    BY <2>1, UnansweredTyped DEF QueueInv
  <2>4. TypeOK'
    BY <1>5, <2>2, <2>3 DEF DepotTapsOffline, history, QueueInv, TypeOK, Writes
  <2> QED
    BY <1>5, <2>4, QueueCalm DEF DepotTapsOffline
<1> QED
  BY <1>2, <1>3, <1>4, <1>5

LEMMA QueueServer ==
  ASSUME QueueInv, OtherMoves \/ LateArrival
  PROVE  QueueInv'
<1>1. server \in [status : Status, version : Nat]
  BY DEF QueueInv, TypeOK
<1>2. CASE OtherMoves
  <2>0. PICK ev \in OtherEvents : \E s \in Targets(ev) : Advance(s)
    BY <1>2 DEF OtherMoves
  <2>1. PICK s \in Targets(ev) : Advance(s)
    BY <2>0
  <2>2. s \in Status
    BY DEF Targets, Status
  <2>3. server' \in [status : Status, version : Nat]
    BY <1>1, <2>1, <2>2 DEF Advance
  <2>4. TypeOK'
    BY <1>2, <2>3 DEF OtherMoves, phone, QueueInv, TypeOK
  <2> QED
    BY <1>2, <2>4, QueueCalm DEF OtherMoves, phone
<1>3. CASE LateArrival
  <2>1. PICK e \in late : /\ late' = late \ {e}
                          /\ IF Accepts(e) THEN Handle(e) ELSE UNCHANGED <<server, applied>>
    BY <1>3 DEF LateArrival
  <2>2. late \subseteq Steps /\ e \in Steps
    BY DEF QueueInv, TypeOK
  <2>3. server' \in [status : Status, version : Nat] /\ applied' \in Seq(Steps)
    <3>1. CASE Handle(e)
      BY <2>2, <3>1, QueueHandle
    <3>2. CASE UNCHANGED <<server, applied>>
      BY <3>2 DEF QueueInv, TypeOK
    <3> QED
      BY <2>1, <3>1, <3>2
  <2>4. TypeOK'
    BY <1>3, <2>1, <2>2, <2>3 DEF LateArrival, phone, QueueInv, TypeOK
  <2> QED
    BY <1>3, <2>4, QueueCalm DEF LateArrival, phone
<1> QED
  BY <1>2, <1>3

\* Rows that change their status and stay.
LEMMA SameRows ==
  ASSUME QueueInv, row' \in [Steps -> RowStatus], UNCHANGED order,
         \A e \in Steps : row[e] = "none" <=> row'[e] = "none"
  PROVE  OneRowEach'
<1>1. \A e \in Steps : row[e] \in RowStatus /\ row'[e] \in RowStatus
  BY DEF QueueInv, TypeOK
<1>2. Rows(RowStatus \ {"none"})' = Rows(RowStatus \ {"none"})
  BY <1>1 DEF Rows
<1> QED
  BY <1>2 DEF QueueInv, OneRowEach, Once, Set

LEMMA QueueEnqueue ==
  ASSUME QueueInv, NEW e \in Steps, EnqueueOrUpdate(e)
  PROVE  /\ row' \in [Steps -> RowStatus] /\ order' \in Seq(Steps)
         /\ Set(order)' = Set(order) \cup {e}
         /\ OneRowEach'
<1>1. row \in [Steps -> RowStatus] /\ order \in Seq(Steps)
  BY DEF QueueInv, TypeOK
<1>2. row' \in [Steps -> RowStatus]
  BY <1>1 DEF EnqueueOrUpdate, RowStatus
<1>3. \A d \in Steps : d \in Set(order) <=> row[d] # "none"
  BY <1>1 DEF QueueInv, OneRowEach, Rows
<1>4. CASE row[e] # "none"
  <2>1. UNCHANGED order /\ \A d \in Steps : row[d] = "none" <=> row'[d] = "none"
    BY <1>1, <1>4 DEF EnqueueOrUpdate
  <2> QED
    BY <1>1, <1>2, <1>3, <1>4, <2>1, SameRows DEF Set
<1>5. CASE row[e] = "none"
  <2>1. order' = Append(order, e) /\ row' = [row EXCEPT ![e] = "pending"]
    BY <1>5 DEF EnqueueOrUpdate
  <2>2. /\ order' \in Seq(Steps) /\ Len(order) \in Nat /\ DOMAIN order = 1..Len(order)
        /\ DOMAIN order' = DOMAIN order \cup {Len(order) + 1}
        /\ order'[Len(order) + 1] = e /\ \A i \in DOMAIN order : order'[i] = order[i]
    BY <1>1, <2>1
  <2>3. Set(order)' = Set(order) \cup {e}
    BY <2>2 DEF Set
  <2>4. \A i \in DOMAIN order : order[i] # e
    BY <1>3, <1>5 DEF Set
  <2>5. Once(order)'
    <3>1. Once(order)
      BY DEF QueueInv, OneRowEach
    <3> QED
      BY <2>2, <2>4, <3>1 DEF Once
  <2>6. \A d \in Steps : row'[d] # "none" <=> d = e \/ row[d] # "none"
    BY <1>1, <2>1
  <2>7. Set(order)' = Rows(RowStatus \ {"none"})'
    <3>1. \A d \in Steps : row'[d] \in RowStatus
      BY <1>2
    <3>2. Rows(RowStatus \ {"none"})' = {d \in Steps : row'[d] # "none"}
      BY <3>1 DEF Rows
    <3>3. Set(order) = {d \in Steps : row[d] # "none"}
      BY <1>1 DEF QueueInv, OneRowEach, Rows
    <3> QED
      BY <2>3, <2>6, <3>2, <3>3
  <2> QED
    BY <1>2, <2>2, <2>3, <2>5, <2>7 DEF OneRowEach
<1> QED
  BY <1>4, <1>5

LEMMA QueueRecord ==
  ASSUME QueueInv, Record
  PROVE  QueueInv'
<1>1. hand \in Seq(Writes) /\ hand # <<>>
  BY DEF QueueInv, TypeOK, Record, Writes
<1>2. Head(hand) \in Writes /\ hand' \in Seq(Writes)
  BY <1>1 DEF Record
<1>3. Head(hand).step \in Steps
  BY <1>2 DEF Writes
<1>4. /\ row' \in [Steps -> RowStatus] /\ order' \in Seq(Steps) /\ OneRowEach'
      /\ local' \in Status
  <2>1. CASE ApplyTransitionLocally(Head(hand).step)
    BY <1>3, <2>1, TargetTyped DEF ApplyTransitionLocally, QueueInv, TypeOK, OneRowEach, Rows, Once, Set
  <2>2. CASE EnqueueOrUpdate(Head(hand).step)
    <3>1. local' = local
      BY <2>2 DEF EnqueueOrUpdate
    <3> QED
      BY <1>3, <2>2, <3>1, QueueEnqueue DEF QueueInv, TypeOK
  <2> QED
    BY <2>1, <2>2 DEF Record
<1>5. TypeOK'
  BY <1>2, <1>4 DEF Record, QueueInv, TypeOK, Writes, history
<1>6. OneAnswerEach'
  BY DEF Record, QueueInv, OneAnswerEach, Once, Set, At
<1> QED
  BY <1>4, <1>5, <1>6 DEF QueueInv

LEMMA QueueRetry ==
  ASSUME QueueInv, NEW es \in SUBSET Rows(Failed), Retry(es)
  PROVE  QueueInv'
<1>1. row \in [Steps -> RowStatus] /\ \A e \in es : row[e] # "none"
  BY DEF QueueInv, TypeOK, Rows, Failed
<1>2. row' = [e \in Steps |-> IF e \in es THEN "pending" ELSE row[e]]
  BY DEF Retry
<1>3. row' \in [Steps -> RowStatus] /\ \A e \in Steps : row[e] = "none" <=> row'[e] = "none"
  BY <1>1, <1>2 DEF RowStatus
<1>4. spent' \in [losses : 0..MaxLosses, retries : 0..MaxRetries, crashes : 0..MaxCrashes]
  <2>1. spent \in [losses : 0..MaxLosses, retries : 0..MaxRetries, crashes : 0..MaxCrashes]
    BY DEF QueueInv, TypeOK
  <2>2. spent.retries + 1 \in 0..MaxRetries
    BY <2>1, TransitionQueueAssumption DEF Retry
  <2> QED
    BY <2>1, <2>2 DEF Retry
<1>5. TypeOK'
  BY <1>3, <1>4 DEF Retry, QueueInv, TypeOK, history
<1>6. OneRowEach'
  BY <1>3, SameRows DEF Retry
<1>7. OneAnswerEach'
  BY DEF Retry, QueueInv, OneAnswerEach, Once, Set, At
<1> QED
  BY <1>5, <1>6, <1>7 DEF QueueInv

LEMMA QueueCrash ==
  ASSUME QueueInv, Crash
  PROVE  QueueInv'
<1>1. \A m \in Managers : cycle[m].batch # <<>> => Head(cycle[m].batch) \in Steps
  BY DEF QueueInv, TypeOK, Cycle
<1>2. late' \subseteq Steps
  <2>1. late \subseteq Steps
    BY DEF QueueInv, TypeOK
  <2>2. late' = late \/ \E m \in Managers :
          cycle[m].batch # <<>> /\ late' = late \cup {Head(cycle[m].batch)}
    BY DEF Crash
  <2> QED
    BY <1>1, <2>1, <2>2
<1>3. spent' \in [losses : 0..MaxLosses, retries : 0..MaxRetries, crashes : 0..MaxCrashes]
  <2>1. spent \in [losses : 0..MaxLosses, retries : 0..MaxRetries, crashes : 0..MaxCrashes]
    BY DEF QueueInv, TypeOK
  <2>2. spent.crashes + 1 \in 0..MaxCrashes
    BY <2>1, TransitionQueueAssumption DEF Crash
  <2> QED
    BY <2>1, <2>2 DEF Crash
<1>4. /\ cycle' = [m \in Managers |-> Idle] /\ hand' = <<>>
      /\ UNCHANGED <<server, local, order, row, cursor, history>>
  BY DEF Crash
<1>5. cycle' \in [Managers -> Cycle] /\ \A m \in Managers : cycle'[m] = Idle
  BY <1>4, QueueIdle
<1>6. \A m \in Managers : cycle'[m].ok \cap cycle'[m].bad = {}
  BY <1>5, QueueIdle DEF Answers
<1>7. TypeOK'
  BY <1>2, <1>3, <1>4, <1>5, <1>6 DEF QueueInv, TypeOK, history
<1>8. OneAnswerEach'
  BY <1>5, QueueIdle DEF OneAnswerEach, Answers, At
<1>9. OneRowEach'
  BY <1>4 DEF QueueInv, OneRowEach, Once, Set, Rows
<1> QED
  BY <1>7, <1>8, <1>9 DEF QueueInv

\* What is left of the invariant once the cycle that moved is in order.
LEMMA QueueCycle ==
  ASSUME QueueInv, NEW m \in Managers, NEW c \in Cycle, Answers(c),
         cycle' = [cycle EXCEPT ![m] = c],
         server' \in [status : Status, version : Nat], local' \in Status, cursor' \in Nat,
         order' \in Seq(Steps), row' \in [Steps -> RowStatus], OneRowEach', late' \subseteq Steps,
         spent' \in [losses : 0..MaxLosses, retries : 0..MaxRetries, crashes : 0..MaxCrashes],
         applied' \in Seq(Steps), dropped' \subseteq Steps, UNCHANGED <<hand, moved>>
  PROVE  QueueInv'
<1>1. /\ cycle' \in [Managers -> Cycle]
      /\ \A n \in Managers : cycle'[n].ok \cap cycle'[n].bad = {}
      /\ OneAnswerEach'
  BY CycleMoves
<1>2. hand' \in Seq([into : {"trips", "sync_queue"}, step : Steps]) /\ moved' \in BOOLEAN
  BY DEF QueueInv, TypeOK
<1>3. TypeOK'
  BY <1>1, <1>2 DEF TypeOK
<1> QED
  BY <1>1, <1>3 DEF QueueInv

\* The same where nothing but the cycle, the copy of the trip and the cursor change.
LEMMA QueueReads ==
  ASSUME QueueInv, NEW m \in Managers, NEW c \in Cycle, Answers(c),
         cycle' = [cycle EXCEPT ![m] = c], local' \in Status, cursor' \in Nat,
         UNCHANGED <<server, order, row, hand, late, spent, history>>
  PROVE  QueueInv'
<1>1. OneRowEach'
  BY DEF QueueInv, OneRowEach, Once, Set, Rows
<1> QED
  BY <1>1, QueueCycle DEF QueueInv, TypeOK, history

LEMMA CycleTyped ==
  ASSUME QueueInv, NEW m \in Managers
  PROVE  cycle[m] \in Cycle /\ Answers(cycle[m])
BY DEF QueueInv, TypeOK, OneAnswerEach, Answers, At

LEMMA QueueBegin ==
  ASSUME QueueInv, NEW m \in Managers, Begin(m)
  PROVE  QueueInv'
<1> DEFINE done == {e \in Steps : row[e] # "completed"}
           c == [Idle EXCEPT !.pc = "dequeue"]
<1>1. row \in [Steps -> RowStatus] /\ order \in Seq(Steps) /\ Once(order)
  BY DEF QueueInv, TypeOK, OneRowEach
<1>2. /\ row' = [e \in Steps |-> CASE row[e] = "in_flight" -> "pending"
                                   [] row[e] = "completed" -> "none"
                                   [] OTHER                -> row[e]]
      /\ order' = Only(order, done)
      /\ cycle' = [cycle EXCEPT ![m] = c]
  BY DEF Begin
<1>3. order' \in Seq(Steps) /\ Set(Only(order, done)) = Set(order) \cap done /\ Once(Only(order, done))
  BY <1>1, <1>2, OnlyTakes, OnlySet, OnlyOnce
<1>4. row' \in [Steps -> RowStatus]
  BY <1>1, <1>2 DEF RowStatus
<1>5. \A e \in Steps : row'[e] # "none" <=> row[e] # "none" /\ e \in done
  BY <1>1, <1>2
<1>6. Rows(RowStatus \ {"none"})' = Rows(RowStatus \ {"none"}) \cap done
  <2>1. Rows(RowStatus \ {"none"})' = {e \in Steps : row'[e] # "none"}
    BY <1>4 DEF Rows
  <2>2. Rows(RowStatus \ {"none"}) = {e \in Steps : row[e] # "none"}
    BY <1>1 DEF Rows
  <2> QED
    BY <1>5, <2>1, <2>2
<1>7. Set(order) = Rows(RowStatus \ {"none"})
  BY DEF QueueInv, OneRowEach
<1>8. OneRowEach'
  <2>1. Once(order)' /\ Set(order)' = Set(Only(order, done))
    BY <1>2, <1>3 DEF Once, Set
  <2> QED
    BY <1>3, <1>6, <1>7, <2>1 DEF OneRowEach
<1>9. c \in Cycle /\ Answers(c)
  <2>1. c \in Cycle
    BY QueueIdle DEF Cycle
  <2>2. c.batch = <<>> /\ c.ok = {} /\ c.bad = {} /\ c.refused = {}
    BY DEF Idle
  <2> QED
    BY <2>1, <2>2 DEF Answers, Once, Set
<1> HIDE DEF c
<1> QED
  BY <1>2, <1>3, <1>4, <1>8, <1>9, QueueCycle DEF Begin, QueueInv, TypeOK, history

LEMMA QueueDequeue ==
  ASSUME QueueInv, NEW m \in Managers, Dequeue(m)
  PROVE  QueueInv'
<1> DEFINE due == Only(order, {e \in Steps : row[e] = "pending"})
           c == [cycle[m] EXCEPT !.pc = IF due = <<>> THEN "fetch" ELSE "mark", !.batch = due]
<1>1. order \in Seq(Steps) /\ Once(order)
  BY DEF QueueInv, TypeOK, OneRowEach
<1>2. due \in Seq(Steps) /\ Once(due)
  BY <1>1, OnlyTakes, OnlyOnce
<1>3. cycle' = [cycle EXCEPT ![m] = c]
  BY DEF Dequeue
<1> HIDE DEF due
<1>4. c \in Cycle
  BY <1>2, CycleTyped DEF Cycle
<1>5. c.batch = due /\ c.ok = {} /\ c.bad = {} /\ c.refused = {}
  BY CycleTyped DEF Cycle, Answers, Dequeue, At
<1>6. Answers(c)
  BY <1>2, <1>5 DEF Answers
<1> HIDE DEF c
<1> QED
  BY <1>3, <1>4, <1>6, QueueReads DEF Dequeue, phone, QueueInv, TypeOK

\* An answer takes the step at the head of the batch to one of the three sets.
LEMMA QueueTail ==
  ASSUME QueueInv, NEW m \in Managers, NEW e, Sending(m, e)
  PROVE  /\ e \in Steps /\ Tail(cycle[m].batch) \in Seq(Steps)
         /\ Once(Tail(cycle[m].batch))
         /\ Set(Tail(cycle[m].batch)) \subseteq Set(cycle[m].batch) \ {e}
         /\ e \in Set(cycle[m].batch)
<1> DEFINE b == cycle[m].batch
           t == Tail(b)
<1>1. b \in Seq(Steps) /\ b # <<>> /\ e = Head(b) /\ Once(b)
  BY CycleTyped DEF Sending, Cycle, Answers
<1> HIDE DEF b
<1>2. /\ Len(b) \in Nat /\ Len(b) # 0 /\ DOMAIN b = 1..Len(b) /\ DOMAIN t = 1..(Len(b) - 1)
      /\ e = b[1] /\ e \in Steps /\ t \in Seq(Steps) /\ \A i \in DOMAIN t : t[i] = b[i + 1]
  BY <1>1
<1> HIDE DEF t
<1>3. \A i \in DOMAIN t : i + 1 \in DOMAIN b /\ i + 1 # 1
  BY <1>2
<1>4. Once(t)
  <2> SUFFICES ASSUME NEW i \in DOMAIN t, NEW j \in DOMAIN t, t[i] = t[j]
               PROVE  i = j
    BY DEF Once
  <2>1. i + 1 = j + 1
    BY <1>1, <1>2, <1>3 DEF Once
  <2> QED
    BY <1>2, <2>1
<1>5. Set(t) \subseteq Set(b) \ {e}
  <2> SUFFICES ASSUME NEW i \in DOMAIN t
               PROVE  t[i] \in Set(b) \ {e}
    BY DEF Set
  <2>1. t[i] = b[i + 1] /\ b[i + 1] \in Set(b)
    BY <1>2, <1>3 DEF Set
  <2>2. 1 \in DOMAIN b
    BY <1>2
  <2>3. b[i + 1] # b[1]
    BY <1>1, <1>3, <2>2 DEF Once
  <2> QED
    BY <1>2, <2>1, <2>3
<1>6. e \in Set(b)
  BY <1>2 DEF Set
<1> QED
  BY <1>2, <1>4, <1>5, <1>6 DEF b, t

LEMMA QueuePush ==
  ASSUME QueueInv, NEW m \in Managers, Push(m)
  PROVE  QueueInv'
<1> SUFFICES ASSUME NEW e \in Steps,
                    \/ Defer(m, e) \/ PostApplied(m, e) \/ PostNotAllowed(m, e)
                    \/ PostRefused(m, e) \/ PostUnanswered(m, e)
             PROVE  QueueInv'
  BY DEF Push
<1> DEFINE b == cycle[m].batch
           s == [cycle[m] EXCEPT !.batch = Tail(@), !.ok = @ \cup {e}]
           f == [cycle[m] EXCEPT !.batch = Tail(@), !.bad = @ \cup {e}]
           r == [cycle[m] EXCEPT !.batch = Tail(@), !.refused = @ \cup {e}]
<1>1. Sending(m, e) /\ At(m, "send")
  BY DEF Defer, PostApplied, PostNotAllowed, PostRefused, PostUnanswered, Post, Sending
<1>2. /\ Tail(b) \in Seq(Steps) /\ Once(Tail(b)) /\ Set(Tail(b)) \subseteq Set(b) \ {e}
      /\ e \in Set(b)
  BY <1>1, QueueTail
<1>3. /\ cycle[m] \in Cycle /\ cycle[m].pc = "send"
      /\ Set(b) \cap (cycle[m].ok \cup cycle[m].bad \cup cycle[m].refused) = {}
      /\ cycle[m].ok \cap cycle[m].bad = {}
  BY <1>1, CycleTyped DEF Answers, At
<1>4. s \in Cycle /\ f \in Cycle /\ r \in Cycle
  BY <1>2, <1>3 DEF Cycle
<1>5. /\ s.pc = "send" /\ s.batch = Tail(b) /\ s.ok = cycle[m].ok \cup {e}
      /\ s.bad = cycle[m].bad /\ s.refused = cycle[m].refused
      /\ f.pc = "send" /\ f.batch = Tail(b) /\ f.ok = cycle[m].ok
      /\ f.bad = cycle[m].bad \cup {e} /\ f.refused = cycle[m].refused
      /\ r.pc = "send" /\ r.batch = Tail(b) /\ r.ok = cycle[m].ok
      /\ r.bad = cycle[m].bad /\ r.refused = cycle[m].refused \cup {e}
  BY <1>3 DEF Cycle
<1>6. Succeed(m, e) => cycle' = [cycle EXCEPT ![m] = s]
  BY DEF Succeed
<1>7. Fail(m, e) => cycle' = [cycle EXCEPT ![m] = f]
  BY DEF Fail
<1>8. Refuse(m, e) => cycle' = [cycle EXCEPT ![m] = r]
  BY DEF Refuse
<1> HIDE DEF s, f, r
<1>9. Answers(s) /\ Answers(f) /\ Answers(r)
  BY <1>2, <1>3, <1>5 DEF Answers
<1>10. OneRowEach /\ TypeOK
  BY DEF QueueInv
<1>11. CASE UNCHANGED <<order, row>>
  <2>1. OneRowEach'
    BY <1>10, <1>11 DEF OneRowEach, Once, Set, Rows
  <2>2. CASE Defer(m, e)
    BY <1>4, <1>7, <1>9, <2>1, <2>2, QueueCycle DEF Defer, phone, QueueInv, TypeOK, history
  <2>3. CASE PostApplied(m, e)
    <3>1. server' \in [status : Status, version : Nat] /\ applied' \in Seq(Steps)
      BY <2>3, QueueHandle DEF PostApplied
    <3> QED
      BY <1>4, <1>6, <1>9, <2>1, <2>3, <3>1, QueueCycle DEF PostApplied, QueueInv, TypeOK
  <2>4. CASE PostNotAllowed(m, e)
    <3>1. dropped' \subseteq Steps
      BY <1>10, <2>4 DEF PostNotAllowed, TypeOK
    <3> QED
      BY <1>4, <1>6, <1>9, <2>1, <2>4, <3>1, QueueCycle DEF PostNotAllowed, QueueInv, TypeOK
  <2>5. CASE PostRefused(m, e)
    BY <1>4, <1>8, <1>9, <2>1, <2>5, QueueCycle DEF PostRefused, QueueInv, TypeOK, history
  <2>6. CASE PostUnanswered(m, e)
    <3>1. /\ spent' \in [losses : 0..MaxLosses, retries : 0..MaxRetries, crashes : 0..MaxCrashes]
          /\ late' \subseteq Steps
      BY <1>10, <2>6, UnansweredTyped DEF PostUnanswered
    <3> QED
      BY <1>4, <1>7, <1>9, <2>1, <2>6, <3>1, QueueCycle
      DEF PostUnanswered, phone, QueueInv, TypeOK, history
  <2> QED
    BY <2>2, <2>3, <2>4, <2>5, <2>6
<1> QED
  BY <1>11 DEF Defer, PostApplied, PostNotAllowed, PostRefused, PostUnanswered, phone

LEMMA MarkTyped ==
  ASSUME NEW rows \in [Steps -> RowStatus], NEW es, NEW s \in RowStatus \ {"none"}
  PROVE  /\ Mark(rows, es, s) \in [Steps -> RowStatus]
         /\ \A e \in Steps : rows[e] = "none" <=> Mark(rows, es, s)[e] = "none"
BY DEF Mark

LEMMA QueueMarks ==
  ASSUME QueueInv, NEW m \in Managers, MarkInFlight(m) \/ MarkCompleted(m) \/ MarkFailed(m)
  PROVE  QueueInv'
<1>1. row \in [Steps -> RowStatus] /\ cycle[m] \in Cycle
  BY CycleTyped DEF QueueInv, TypeOK
<1>2. /\ row' \in [Steps -> RowStatus]
      /\ \A e \in Steps : row[e] = "none" <=> row'[e] = "none"
  <2>1. "in_flight" \in RowStatus \ {"none"} /\ "completed" \in RowStatus \ {"none"}
        /\ "failed" \in RowStatus \ {"none"} /\ "refused" \in RowStatus \ {"none"}
    BY DEF RowStatus
  <2>2. CASE MarkInFlight(m)
    BY <1>1, <2>1, <2>2, MarkTyped DEF MarkInFlight
  <2>3. CASE MarkCompleted(m)
    BY <1>1, <2>1, <2>3, MarkTyped DEF MarkCompleted
  <2>4. CASE MarkFailed(m)
    <3> DEFINE once == Mark(row, cycle[m].bad, "failed")
    <3>1. once \in [Steps -> RowStatus] /\ \A e \in Steps : row[e] = "none" <=> once[e] = "none"
      BY <1>1, <2>1, MarkTyped
    <3>2. row' = Mark(once, cycle[m].refused, "refused")
      BY <2>4 DEF MarkFailed
    <3> HIDE DEF once
    <3> QED
      BY <2>1, <3>1, <3>2, MarkTyped
  <2> QED
    BY <2>2, <2>3, <2>4
<1>3. OneRowEach'
  BY <1>2, SameRows DEF MarkInFlight, MarkCompleted, MarkFailed
<1>4. CASE MarkInFlight(m) \/ MarkCompleted(m)
  <2>1. PICK pc \in {"send", "fail"} : GoTo(m, pc)
    BY <1>4 DEF MarkInFlight, MarkCompleted
  <2> DEFINE c == [cycle[m] EXCEPT !.pc = pc]
  <2>2. cycle' = [cycle EXCEPT ![m] = c]
    BY <2>1 DEF GoTo
  <2>3. c \in Cycle /\ Answers(c)
    BY <1>1, SameAnswers DEF Cycle
  <2> HIDE DEF c
  <2> QED
    BY <1>2, <1>3, <1>4, <2>2, <2>3, QueueCycle
    DEF MarkInFlight, MarkCompleted, QueueInv, TypeOK, history
<1>5. CASE MarkFailed(m)
  <2> DEFINE c == [Idle EXCEPT !.pc = "fetch"]
  <2>1. cycle' = [cycle EXCEPT ![m] = c]
    BY <1>5 DEF MarkFailed
  <2>2. c \in Cycle /\ Answers(c)
    BY QueueIdle DEF Cycle, Answers
  <2> HIDE DEF c
  <2> QED
    BY <1>2, <1>3, <1>5, <2>1, <2>2, QueueCycle DEF MarkFailed, QueueInv, TypeOK, history
<1> QED
  BY <1>4, <1>5

LEMMA QueuePull ==
  ASSUME QueueInv, NEW m \in Managers,
         Fetch(m) \/ FetchNothing(m) \/ FindLocal(m) \/ CheckUnsent(m) \/ Upsert(m)
  PROVE  QueueInv'
<1>1. /\ server \in [status : Status, version : Nat] /\ local \in Status /\ cursor \in Nat
      /\ cycle[m] \in Cycle
  BY CycleTyped DEF QueueInv, TypeOK
<1>2. CASE Fetch(m)
  <2> DEFINE c == [cycle[m] EXCEPT !.pc = "find", !.pulled = server]
  <2>1. c \in Cycle /\ Answers(c)
    BY <1>1, SameAnswers DEF Cycle
  <2>2. cycle' = [cycle EXCEPT ![m] = c]
    BY <1>2 DEF Fetch
  <2> HIDE DEF c
  <2> QED
    BY <1>1, <1>2, <2>1, <2>2, QueueReads DEF Fetch, phone
<1>3. CASE FetchNothing(m)
  BY <1>1, <1>3, QueueIdle, QueueReads DEF FetchNothing, phone
<1>4. CASE FindLocal(m)
  <2> DEFINE c == [cycle[m] EXCEPT !.pc = "check", !.seen = local]
  <2>1. c \in Cycle /\ Answers(c)
    BY <1>1, SameAnswers DEF Cycle
  <2>2. cycle' = [cycle EXCEPT ![m] = c]
    BY <1>4 DEF FindLocal
  <2> HIDE DEF c
  <2> QED
    BY <1>1, <1>4, <2>1, <2>2, QueueReads DEF FindLocal, phone
<1>5. CASE CheckUnsent(m)
  <2> DEFINE c == [cycle[m] EXCEPT !.pc = "upsert", !.kept = HasUnsent]
  <2>1. HasUnsent \in BOOLEAN
    BY DEF HasUnsent
  <2>2. c \in Cycle /\ Answers(c)
    BY <1>1, <2>1, SameAnswers DEF Cycle
  <2>3. cycle' = [cycle EXCEPT ![m] = c]
    BY <1>5 DEF CheckUnsent
  <2> HIDE DEF c
  <2> QED
    BY <1>1, <1>5, <2>2, <2>3, QueueReads DEF CheckUnsent, phone
<1>6. CASE Upsert(m)
  <2>1. local' \in Status /\ cursor' \in Nat
    BY <1>1, <1>6 DEF Upsert, Cycle
  <2> QED
    BY <1>6, <2>1, QueueIdle, QueueReads DEF Upsert
<1> QED
  BY <1>2, <1>3, <1>4, <1>5, <1>6

LEMMA QueueStep ==
  ASSUME QueueInv, [Next]_vars
  PROVE  QueueInv'
<1>1. CASE UNCHANGED vars
  <2>1. UNCHANGED <<server, local, order, row, hand, cursor, cycle, late, spent, applied, dropped, moved>>
    BY <1>1 DEF vars, phone, history
  <2>2. TypeOK'
    BY <2>1 DEF QueueInv, TypeOK
  <2> QED
    BY <2>1, <2>2, QueueCalm
<1>2. CASE RetryAllFailed \/ RetryOne
  <2>1. PICK es \in SUBSET Rows(Failed) : Retry(es)
    BY <1>2 DEF RetryAllFailed, RetryOne
  <2> QED
    BY <2>1, QueueRetry
<1>3. ASSUME NEW m \in Managers, Sync(m)
      PROVE  QueueInv'
  BY <1>3, QueueBegin, QueueDequeue, QueuePush, QueueMarks, QueuePull DEF Sync
<1> QED
  BY <1>1, <1>2, <1>3, QueueUser, QueueServer, QueueRecord, QueueCrash DEF Next

LEMMA QueueStart == Init => QueueInv
<1> SUFFICES ASSUME Init
             PROVE  QueueInv
  OBVIOUS
<1>1. /\ server = [status |-> Start, version |-> 1] /\ local = Start /\ cursor = 1
      /\ order = <<>> /\ row = [e \in Steps |-> "none"] /\ hand = <<>>
      /\ cycle = [m \in Managers |-> Idle] /\ late = {} /\ applied = <<>> /\ dropped = {}
      /\ moved = FALSE /\ spent = [losses |-> 0, retries |-> 0, crashes |-> 0]
  BY DEF Init
<1>2. Start \in Status /\ 0 \in 0..MaxLosses /\ 0 \in 0..MaxRetries /\ 0 \in 0..MaxCrashes
  BY TransitionQueueAssumption
<1>3. cycle \in [Managers -> Cycle] /\ \A m \in Managers : cycle[m] = Idle
  BY <1>1, QueueIdle
<1>4. row \in [Steps -> RowStatus] /\ \A e \in Steps : row[e] = "none"
  BY <1>1 DEF RowStatus
<1>5. TypeOK
  <2>1. server \in [status : Status, version : Nat]
    BY <1>1, <1>2
  <2>2. spent \in [losses : 0..MaxLosses, retries : 0..MaxRetries, crashes : 0..MaxCrashes]
    BY <1>1, <1>2
  <2>3. \A m \in Managers : cycle[m].ok \cap cycle[m].bad = {}
    BY <1>3, QueueIdle DEF Answers
  <2>4. order \in Seq(Steps) /\ applied \in Seq(Steps)
        /\ hand \in Seq([into : {"trips", "sync_queue"}, step : Steps])
    BY <1>1
  <2>5. late \subseteq Steps /\ dropped \subseteq Steps /\ moved \in BOOLEAN /\ cursor \in Nat
        /\ local \in Status
    BY <1>1, <1>2
  <2> QED
    BY <1>3, <1>4, <2>1, <2>2, <2>3, <2>4, <2>5, Zenon DEF TypeOK
<1>6. OneRowEach
  BY <1>1, <1>4 DEF OneRowEach, Once, Set, Rows
<1>7. OneAnswerEach
  BY <1>3, QueueIdle DEF OneAnswerEach, Answers, At
<1> QED
  BY <1>5, <1>6, <1>7 DEF QueueInv

\* Every step has one row of the queue, and every cycle answers for each of its rows once,
\* whatever cycles, users and killed apps come between (upsert by dedup key, pushMutations).
THEOREM QueueInvariant == Spec => []QueueInv
<1>1. QueueInv /\ [Next]_vars => QueueInv'
  BY QueueStep
<1> QED
  BY <1>1, QueueStart, PTL DEF Spec

\* Every variable keeps its type, and no cycle marks a row both completed and failed.
THEOREM TypeCorrect == Spec => []TypeOK
<1>1. QueueInv => TypeOK
  BY DEF QueueInv
<1> QED
  BY <1>1, QueueInvariant, PTL
-----------------------------------------------------------------------------
(* The trip's way, as a driver's phone knows it.                            *)

LEMMA RankOne ==
  /\ \A d, e \in DriverSteps : Rank(d) = Rank(e) => d = e
  /\ \A d, e \in DriverSteps : Rank(d) < Rank(e) \/ Rank(d) = Rank(e) \/ Rank(e) < Rank(d)
<1>1. /\ Rank("depart") = 1 /\ Rank("arrive") = 2 /\ Rank("start-delivery") = 3
      /\ Rank("confirm-delivery") = 4 /\ Rank("complete") = 5
  BY DEF Rank
<1>2. \A d, e \in DriverSteps : Rank(d) = Rank(e) => d = e
  BY <1>1 DEF DriverSteps
<1>3. \A d, e : Rank(d) < Rank(e) \/ Rank(d) = Rank(e) \/ Rank(e) < Rank(d)
  BY Levels
<1> QED
  BY <1>2, <1>3

\* More is known and more is sent: what was in order stays so.
LEMMA KnowsMore ==
  ASSUME Known \subseteq Known', NEW l, KnownUpTo(l)
  PROVE  {e \in Ahead : Rank(e) <= l} \subseteq Known'
BY DEF KnownUpTo

LEMMA SortedStays ==
  ASSUME NEW s, Sorted(s), Sent \subseteq Sent'
  PROVE  \A i, j \in DOMAIN s : i < j => Rank(s[i]) < Rank(s[j]) \/ s[j] \in Sent'
BY DEF Sorted

\* The cycle c as it stands after a step.
InOrderNext(c) ==
  /\ {e \in Ahead : Rank(e) <= Level(c.seen)} \subseteq Known'
  /\ {e \in Ahead : Rank(e) <= Level(c.pulled.status)} \subseteq Known'
  /\ \A i, j \in DOMAIN c.batch : i < j => Rank(c.batch[i]) < Rank(c.batch[j]) \/ c.batch[j] \in Sent'
  /\ Set(c.batch) \subseteq Known'
  /\ c.ok \subseteq Sent'

LEMMA InOrderStays ==
  ASSUME Known \subseteq Known', Sent \subseteq Sent', NEW c, InOrder(c)
  PROVE  InOrderNext(c)
BY KnowsMore, SortedStays, Zenon DEF InOrder, InOrderNext

LEMMA CyclesNext ==
  ASSUME \A m \in Managers : InOrderNext(cycle'[m])
  PROVE  CyclesInOrder'
BY DEF CyclesInOrder, InOrder, InOrderNext, KnownUpTo, Sorted, Ahead, Set

LEMMA OthersStay ==
  ASSUME QueueInv, CyclesInOrder, Known \subseteq Known', Sent \subseteq Sent',
         NEW m \in Managers, NEW c, InOrderNext(c), cycle' = [cycle EXCEPT ![m] = c]
  PROVE  CyclesInOrder'
<1>1. cycle \in [Managers -> Cycle]
  BY DEF QueueInv, TypeOK
<1>2. \A n \in Managers : cycle'[n] = IF n = m THEN c ELSE cycle[n]
  BY <1>1
<1>3. \A n \in Managers : InOrderNext(cycle[n])
  BY InOrderStays DEF CyclesInOrder
<1>4. \A n \in Managers : InOrderNext(cycle'[n])
  BY <1>2, <1>3
<1> QED
  BY <1>4, CyclesNext

LEMMA AllStay ==
  ASSUME CyclesInOrder, Known \subseteq Known', Sent \subseteq Sent', UNCHANGED cycle
  PROVE  CyclesInOrder'
<1>1. \A n \in Managers : InOrderNext(cycle'[n])
  BY InOrderStays DEF CyclesInOrder
<1> QED
  BY <1>1, CyclesNext

\* The steps that leave the queue's order and the user's writes alone.
LEMMA WayKeeps ==
  ASSUME Way, UNCHANGED <<order, hand>>, Sent \subseteq Sent',
         \A x \in Sent' : x \in Sent \/ {e \in Ahead : Rank(e) <= Rank(x)} \subseteq Known',
         OnTheWay', {e \in Ahead : Rank(e) <= Level(local')} \subseteq Known',
         Rows({"completed"})' \subseteq Sent', CyclesInOrder'
  PROVE  Way'
<1>1. Known \subseteq Known' /\ Set(order)' = Set(order) /\ InHand' = InHand
  BY DEF Known, InHand, Set
<1>2. HandInOrder'
  BY DEF Way, HandInOrder
<1>3. KnowsTheWay'
  <2>1. KnownUpTo(Level(local))'
    BY DEF KnownUpTo, Ahead
  <2>2. ASSUME NEW x \in Known'
        PROVE  KnownUpTo(Rank(x))'
    <3>1. CASE x \in Known
      <4>1. KnownUpTo(Rank(x))
        BY <3>1 DEF Way, KnowsTheWay
      <4> QED
        BY <1>1, <4>1 DEF KnownUpTo, Ahead
    <3>2. CASE x \notin Known
      <4>1. x \in Sent' /\ x \notin Sent
        BY <1>1, <3>2 DEF Known
      <4> QED
        BY <4>1 DEF KnownUpTo, Ahead
    <3> QED
      BY <3>1, <3>2
  <2>3. \A e \in InHand' : e \in Set(order)' \cup Sent' \/ \A d \in Set(order)' : Rank(d) < Rank(e)
    BY <1>1 DEF Way, KnowsTheWay
  <2> QED
    BY <2>1, <2>2, <2>3 DEF KnowsTheWay
<1>4. QueueInOrder'
  <2>1. Sorted(order)'
    BY SortedStays DEF Way, QueueInOrder, Sorted
  <2> QED
    BY <2>1 DEF QueueInOrder
<1> QED
  BY <1>2, <1>3, <1>4 DEF Way

LEMMA KnownStays ==
  ASSUME UNCHANGED <<order, hand>>, Sent \subseteq Sent'
  PROVE  Known \subseteq Known'
BY DEF Known, InHand, Set

LEMMA WaySame ==
  ASSUME Way, UNCHANGED <<server, order, hand, applied, dropped>>,
         KnownUpTo(Level(local')), Rows({"completed"})' \subseteq Sent, CyclesInOrder'
  PROVE  Way'
<1>1. Sent' = Sent /\ OnTheWay'
  BY DEF Sent, Set, Way, OnTheWay, Ahead
<1>2. Known \subseteq Known'
  BY <1>1, KnownStays
<1>3. {e \in Ahead : Rank(e) <= Level(local')} \subseteq Known'
  BY <1>2 DEF KnownUpTo
<1> QED
  BY <1>1, <1>3, WayKeeps

\* No row becomes completed.
LEMMA WayRows ==
  ASSUME Way, Rows({"completed"})' \subseteq Rows({"completed"})
  PROVE  Rows({"completed"})' \subseteq Sent
BY DEF Way, QueueInOrder

LEMMA LocalKnown ==
  ASSUME Way, UNCHANGED local
  PROVE  KnownUpTo(Level(local'))
BY DEF Way, KnowsTheWay

\* A step of a cycle that sends nothing, touches no row and does not write the trip.
LEMMA WayReads ==
  ASSUME QueueInv, Way, NEW m \in Managers, NEW c, InOrder(c), cycle' = [cycle EXCEPT ![m] = c],
         UNCHANGED <<server, order, hand, applied, dropped>>,
         Rows({"completed"})' \subseteq Sent, KnownUpTo(Level(local'))
  PROVE  Way'
<1>1. Known \subseteq Known' /\ Sent \subseteq Sent'
  BY KnownStays DEF Sent, Set
<1>2. InOrderNext(c)
  BY <1>1, InOrderStays
<1>3. CyclesInOrder'
  BY <1>1, <1>2, OthersStay DEF Way
<1> QED
  BY <1>3, WaySame

LEMMA CycleInOrder ==
  ASSUME QueueInv, Way, NEW m \in Managers
  PROVE  InOrder(cycle[m]) /\ cycle[m] \in Cycle
BY CycleTyped DEF Way, CyclesInOrder

LEMMA IdleInOrder == Way => InOrder(Idle)
<1> SUFFICES ASSUME Way
             PROVE  InOrder(Idle)
  OBVIOUS
<1>1. /\ Idle.seen = Start /\ Idle.pulled = NoTrip /\ NoTrip.status = Start
      /\ Idle.batch = <<>> /\ Idle.ok = {} /\ DOMAIN <<>> = {}
  BY DEF Idle, NoTrip
<1>2. KnownUpTo(Level(Start))
  BY Levels DEF KnownUpTo, Ahead
<1> QED
  BY <1>1, <1>2 DEF InOrder, Sorted, Set

\* A cycle that changes its place only, or what it has of the trip.
LEMMA PlaceInOrder ==
  ASSUME NEW c, NEW d, InOrder(c), d.batch = c.batch, d.ok = c.ok,
         KnownUpTo(Level(d.seen)), KnownUpTo(Level(d.pulled.status))
  PROVE  InOrder(d)
BY DEF InOrder

LEMMA WayPull ==
  ASSUME QueueInv, Way, NEW m \in Managers,
         Fetch(m) \/ FetchNothing(m) \/ FindLocal(m) \/ CheckUnsent(m) \/ Upsert(m)
  PROVE  Way'
<1>1. /\ InOrder(cycle[m]) /\ cycle[m] \in Cycle /\ InOrder(Idle)
      /\ KnownUpTo(Level(cycle[m].seen)) /\ KnownUpTo(Level(cycle[m].pulled.status))
      /\ KnownUpTo(Level(local))
  BY CycleInOrder, IdleInOrder DEF InOrder, Way, KnowsTheWay
<1>2. UNCHANGED <<server, order, hand, applied, dropped, row>> 
  BY DEF Fetch, FetchNothing, FindLocal, CheckUnsent, Upsert, phone, history
<1>3. Rows({"completed"})' \subseteq Sent
  BY <1>2, WayRows DEF Rows
<1>4. KnownUpTo(Level(local'))
  BY <1>1 DEF Fetch, FetchNothing, FindLocal, CheckUnsent, Upsert, phone
<1>5. CASE Fetch(m)
  <2> DEFINE c == [cycle[m] EXCEPT !.pc = "find", !.pulled = server]
  <2>1. KnownUpTo(Level(server.status))
    BY DEF Way, OnTheWay, KnownUpTo, Known, Sent
  <2>2. c.batch = cycle[m].batch /\ c.ok = cycle[m].ok /\ c.seen = cycle[m].seen /\ c.pulled = server
    BY <1>1 DEF Cycle
  <2>3. cycle' = [cycle EXCEPT ![m] = c]
    BY <1>5 DEF Fetch
  <2> HIDE DEF c
  <2>4. InOrder(c)
    BY <1>1, <2>1, <2>2, PlaceInOrder
  <2> QED
    BY <1>2, <1>3, <1>4, <2>3, <2>4, WayReads
<1>6. CASE FetchNothing(m) \/ Upsert(m)
  <2>1. cycle' = [cycle EXCEPT ![m] = Idle]
    BY <1>6 DEF FetchNothing, Upsert
  <2> QED
    BY <1>1, <1>2, <1>3, <1>4, <2>1, WayReads
<1>7. CASE FindLocal(m)
  <2> DEFINE c == [cycle[m] EXCEPT !.pc = "check", !.seen = local]
  <2>1. c.batch = cycle[m].batch /\ c.ok = cycle[m].ok /\ c.seen = local /\ c.pulled = cycle[m].pulled
    BY <1>1 DEF Cycle
  <2>2. cycle' = [cycle EXCEPT ![m] = c]
    BY <1>7 DEF FindLocal
  <2> HIDE DEF c
  <2>3. InOrder(c)
    BY <1>1, <2>1, PlaceInOrder
  <2> QED
    BY <1>2, <1>3, <1>4, <2>2, <2>3, WayReads
<1>8. CASE CheckUnsent(m)
  <2> DEFINE c == [cycle[m] EXCEPT !.pc = "upsert", !.kept = HasUnsent]
  <2>1. c.batch = cycle[m].batch /\ c.ok = cycle[m].ok /\ c.seen = cycle[m].seen
        /\ c.pulled = cycle[m].pulled
    BY <1>1 DEF Cycle
  <2>2. cycle' = [cycle EXCEPT ![m] = c]
    BY <1>8 DEF CheckUnsent
  <2> HIDE DEF c
  <2>3. InOrder(c)
    BY <1>1, <2>1, PlaceInOrder
  <2> QED
    BY <1>2, <1>3, <1>4, <2>2, <2>3, WayReads
<1> QED
  BY <1>5, <1>6, <1>7, <1>8

LEMMA WayDequeue ==
  ASSUME QueueInv, Way, NEW m \in Managers, Dequeue(m)
  PROVE  Way'
<1> DEFINE due == Only(order, {e \in Steps : row[e] = "pending"})
           c == [cycle[m] EXCEPT !.pc = IF due = <<>> THEN "fetch" ELSE "mark", !.batch = due]
<1>1. cycle[m] \in Cycle /\ InOrder(cycle[m]) /\ order \in Seq(Steps) /\ Sorted(order)
  BY CycleInOrder DEF QueueInv, TypeOK, Way, QueueInOrder
<1>2. Sorted(due) /\ Set(due) \subseteq Set(order)
  BY <1>1, OnlySorted, OnlySet
<1>3. cycle' = [cycle EXCEPT ![m] = c]
  BY DEF Dequeue
<1> HIDE DEF due
<1>4. c.batch = due /\ c.ok = cycle[m].ok /\ c.seen = cycle[m].seen /\ c.pulled = cycle[m].pulled
  BY <1>1 DEF Cycle
<1> HIDE DEF c
<1>5. Set(due) \subseteq Known
  BY <1>2 DEF Known
<1>6. InOrder(c)
  BY <1>1, <1>2, <1>4, <1>5 DEF InOrder
<1>7. UNCHANGED <<server, order, hand, applied, dropped, row, local>>
  BY DEF Dequeue, phone, history
<1>8. Rows({"completed"})' \subseteq Sent
  BY <1>7, WayRows DEF Rows
<1> QED
  BY <1>3, <1>6, <1>7, <1>8, LocalKnown, WayReads

LEMMA WayMarks ==
  ASSUME QueueInv, Way, NEW m \in Managers, MarkInFlight(m) \/ MarkCompleted(m) \/ MarkFailed(m)
  PROVE  Way'
<1>1. cycle[m] \in Cycle /\ InOrder(cycle[m]) /\ InOrder(Idle) /\ row \in [Steps -> RowStatus]
  BY CycleInOrder, IdleInOrder DEF QueueInv, TypeOK
<1>2. UNCHANGED <<server, order, hand, applied, dropped, local>>
  BY DEF MarkInFlight, MarkCompleted, MarkFailed, history
<1>3. Rows({"completed"})' \subseteq Sent
  <2>1. Rows({"completed"}) \subseteq Sent /\ cycle[m].ok \subseteq Sent
    BY <1>1 DEF Way, QueueInOrder, InOrder
  <2>2. \A e \in Steps : row'[e] = "completed" => row[e] = "completed" \/ e \in cycle[m].ok
    BY DEF MarkInFlight, MarkCompleted, MarkFailed, Mark
  <2> QED
    BY <2>1, <2>2 DEF Rows
<1>4. CASE MarkInFlight(m) \/ MarkCompleted(m)
  <2>1. PICK pc \in {"send", "fail"} : GoTo(m, pc)
    BY <1>4 DEF MarkInFlight, MarkCompleted
  <2> DEFINE c == [cycle[m] EXCEPT !.pc = pc]
  <2>2. cycle' = [cycle EXCEPT ![m] = c]
    BY <2>1 DEF GoTo
  <2>3. c.batch = cycle[m].batch /\ c.ok = cycle[m].ok /\ c.seen = cycle[m].seen
        /\ c.pulled = cycle[m].pulled
    BY <1>1 DEF Cycle
  <2> HIDE DEF c
  <2>4. InOrder(c)
    BY <1>1, <2>3 DEF InOrder
  <2> QED
    BY <1>2, <1>3, <2>2, <2>4, LocalKnown, WayReads
<1>5. CASE MarkFailed(m)
  <2> DEFINE c == [Idle EXCEPT !.pc = "fetch"]
  <2>1. cycle' = [cycle EXCEPT ![m] = c]
    BY <1>5 DEF MarkFailed
  <2>2. c.batch = Idle.batch /\ c.ok = Idle.ok /\ c.seen = Idle.seen /\ c.pulled = Idle.pulled
    BY DEF Idle
  <2> HIDE DEF c
  <2>3. InOrder(c)
    BY <1>1, <2>2 DEF InOrder
  <2> QED
    BY <1>2, <1>3, <2>1, <2>3, LocalKnown, WayReads
<1> QED
  BY <1>4, <1>5

LEMMA WayBegin ==
  ASSUME QueueInv, Way, NEW m \in Managers, Begin(m)
  PROVE  Way'
<1> DEFINE done == {e \in Steps : row[e] # "completed"}
           c == [Idle EXCEPT !.pc = "dequeue"]
<1>1. row \in [Steps -> RowStatus] /\ order \in Seq(Steps) /\ Sorted(order) /\ InOrder(Idle)
  BY IdleInOrder DEF QueueInv, TypeOK, Way, QueueInOrder
<1>2. Set(Only(order, done)) = Set(order) \cap done /\ Sorted(Only(order, done))
  BY <1>1, OnlySet, OnlySorted
<1>3. order' = Only(order, done) /\ cycle' = [cycle EXCEPT ![m] = c]
      /\ UNCHANGED <<server, local, hand, cursor, late, spent, history>>
  BY DEF Begin
<1>4. Sent' = Sent /\ InHand' = InHand /\ Set(order)' = Set(order) \cap done
  BY <1>2, <1>3 DEF Sent, InHand, Set, history
<1>5. Set(order) \ done \subseteq Sent
  <2>1. Set(order) \subseteq Steps
    BY <1>1 DEF Set
  <2>2. \A e \in Steps \ done : e \in Sent
    BY DEF Way, QueueInOrder, Rows
  <2> QED
    BY <2>1, <2>2
<1>6. Known' = Known
  BY <1>4, <1>5 DEF Known
<1>7. OnTheWay' /\ HandInOrder'
  BY <1>3 DEF Way, OnTheWay, HandInOrder, Ahead, Set, history
<1>8. KnowsTheWay'
  <2>1. KnownUpTo(Level(local))' /\ \A e \in Known' : KnownUpTo(Rank(e))'
    BY <1>3, <1>6 DEF Way, KnowsTheWay, KnownUpTo, Ahead
  <2>2. \A e \in InHand' : e \in Set(order)' \cup Sent' \/ \A d \in Set(order)' : Rank(d) < Rank(e)
    BY <1>4, <1>5 DEF Way, KnowsTheWay
  <2> QED
    BY <2>1, <2>2 DEF KnowsTheWay
<1>9. QueueInOrder'
  <2>1. Sorted(order)'
    BY <1>2, <1>3, <1>4 DEF Sorted
  <2>2. \A e \in Steps : row'[e] # "completed"
    BY <1>1 DEF Begin
  <2> QED
    BY <2>1, <2>2 DEF QueueInOrder, Rows
<1>10. CyclesInOrder'
  <2>1. c.batch = Idle.batch /\ c.ok = Idle.ok /\ c.seen = Idle.seen /\ c.pulled = Idle.pulled
    BY DEF Idle
  <2> HIDE DEF c
  <2>2. InOrder(c)
    BY <1>1, <2>1 DEF InOrder
  <2>3. InOrderNext(c)
    BY <1>4, <1>6, <2>2, InOrderStays
  <2> QED
    BY <1>3, <1>4, <1>6, <2>3, OthersStay DEF Way
<1> QED
  BY <1>7, <1>8, <1>9, <1>10 DEF Way

\* A driver's phone that holds the trip before the unloading begins.
DriversPhone == Start \in {"loaded", "in_transit", "arrived"} /\ Steps \subseteq Ahead

LEMMA DriverStep ==
  ASSUME NEW e \in DriverSteps, NEW s \in Status
  PROVE  /\ EventOf(e) \in Available(s) => Level(s) + 1 = Rank(e)
         /\ s \in Road /\ Level(s) + 1 = Rank(e) => EventOf(e) \in Available(s)
         /\ Target(e) \in Road /\ Level(Target(e)) = Rank(e)
<1>1. CASE e = "depart"
  BY <1>1 DEF EventOf, Available, Level, Rank, Target, Status, Road
<1>2. CASE e = "arrive"
  BY <1>2 DEF EventOf, Available, Level, Rank, Target, Status, Road
<1>3. CASE e = "start-delivery"
  BY <1>3 DEF EventOf, Available, Level, Rank, Target, Status, Road
<1>4. CASE e = "confirm-delivery"
  BY <1>4 DEF EventOf, Available, Level, Rank, Target, Status, Road
<1>5. CASE e = "complete"
  BY <1>5 DEF EventOf, Available, Level, Rank, Target, Status, Road
<1> QED
  BY <1>1, <1>2, <1>3, <1>4, <1>5 DEF DriverSteps

LEMMA HandleOnTheWay ==
  ASSUME QueueInv, Way, DriversPhone, NEW e \in Steps, Handle(e)
  PROVE  /\ OnTheWay' /\ Set(applied)' = Set(applied) \cup {e}
         /\ {d \in Ahead : Rank(d) <= Rank(e)} \subseteq Set(applied)'
<1>1. /\ server \in [status : Status, version : Nat] /\ applied \in Seq(Steps)
      /\ e \in DriverSteps /\ e \in Ahead
  BY DEF QueueInv, TypeOK, DriversPhone, Ahead
<1>2. server'.status = Target(e)
  BY DEF Handle, Advance
<1>3. /\ Level(server.status) + 1 = Rank(e) /\ Target(e) \in Road /\ Level(Target(e)) = Rank(e)
  BY <1>1, DriverStep DEF Handle, Accepts
<1>4. applied' = Append(applied, e)
  BY DEF Handle
<1>5. Set(applied)' = Set(applied) \cup {e}
  <2>1. /\ DOMAIN applied' = DOMAIN applied \cup {Len(applied) + 1}
        /\ applied'[Len(applied) + 1] = e /\ \A i \in DOMAIN applied : applied'[i] = applied[i]
    BY <1>1, <1>4
  <2> QED
    BY <2>1 DEF Set
<1>6. Set(applied)' = {d \in Ahead : Rank(d) <= Rank(e)}
  <2>1. Set(applied) = {d \in Ahead : Rank(d) <= Level(server.status)}
    BY DEF Way, OnTheWay
  <2>2. \A d \in Ahead : Rank(d) <= Rank(e) <=> Rank(d) <= Level(server.status) \/ d = e
    <3> SUFFICES ASSUME NEW d \in Ahead
                 PROVE  Rank(d) <= Rank(e) <=> Rank(d) <= Level(server.status) \/ d = e
      OBVIOUS
    <3>1. d \in DriverSteps /\ (Rank(d) = Rank(e) => d = e)
      BY <1>1, RankOne DEF Ahead
    <3> QED
      BY <1>3, <3>1, Levels
  <2> QED
    BY <1>1, <1>5, <2>1, <2>2
<1>7. OnTheWay'
  <2>1. Level(Start) <= Level(server.status)
    BY DEF Way, OnTheWay
  <2>2. Level(Start) <= Rank(e)
    BY <1>3, <2>1, Levels
  <2> QED
    BY <1>2, <1>3, <1>6, <2>2 DEF OnTheWay, Ahead
<1> QED
  BY <1>5, <1>6, <1>7

LEMMA RowsStay ==
  ASSUME Way, UNCHANGED row, Sent \subseteq Sent'
  PROVE  Rows({"completed"})' \subseteq Sent'
BY DEF Way, QueueInOrder, Rows

\* The head of a batch was known, and the rest of the batch is in order.
LEMMA TailInOrder ==
  ASSUME QueueInv, Way, NEW m \in Managers, NEW e, Sending(m, e)
  PROVE  /\ e \in Known /\ Sorted(Tail(cycle[m].batch)) /\ Set(Tail(cycle[m].batch)) \subseteq Known
<1>1. cycle[m] \in Cycle /\ InOrder(cycle[m])
  BY CycleInOrder
<1>2. /\ cycle[m].batch \in Seq(Steps) /\ cycle[m].batch # <<>>
      /\ Sorted(cycle[m].batch) /\ Set(cycle[m].batch) \subseteq Known
  BY <1>1 DEF Cycle, InOrder, Sending
<1>3. e \in Set(cycle[m].batch) /\ Set(Tail(cycle[m].batch)) \subseteq Set(cycle[m].batch)
  BY QueueTail
<1> DEFINE b == cycle[m].batch
           t == Tail(b)
<1> HIDE DEF b
<1>4. b \in Seq(Steps) /\ b # <<>> /\ Sorted(b)
  BY <1>2 DEF b
<1>5. /\ Len(b) \in Nat /\ Len(b) # 0 /\ DOMAIN b = 1..Len(b) /\ DOMAIN t = 1..(Len(b) - 1)
      /\ \A i \in DOMAIN t : t[i] = b[i + 1]
  BY <1>4
<1> HIDE DEF t
<1>6. Sorted(t)
  <2> SUFFICES ASSUME NEW i \in DOMAIN t, NEW j \in DOMAIN t, i < j
               PROVE  Rank(t[i]) < Rank(t[j]) \/ t[j] \in Sent
    BY DEF Sorted
  <2>1. i + 1 \in DOMAIN b /\ j + 1 \in DOMAIN b /\ i + 1 < j + 1
    BY <1>5
  <2> QED
    BY <1>4, <1>5, <2>1 DEF Sorted
<1> QED
  BY <1>2, <1>3, <1>6 DEF b, t

LEMMA WayPush ==
  ASSUME QueueInv, Way, DriversPhone, NEW m \in Managers, Push(m)
  PROVE  Way'
<1> SUFFICES ASSUME NEW e \in Steps,
                    \/ Defer(m, e) \/ PostApplied(m, e) \/ PostNotAllowed(m, e)
                    \/ PostRefused(m, e) \/ PostUnanswered(m, e)
             PROVE  Way'
  BY DEF Push
<1> DEFINE s == [cycle[m] EXCEPT !.batch = Tail(@), !.ok = @ \cup {e}]
           f == [cycle[m] EXCEPT !.batch = Tail(@), !.bad = @ \cup {e}]
           r == [cycle[m] EXCEPT !.batch = Tail(@), !.refused = @ \cup {e}]
<1>1. Sending(m, e)
  BY DEF Defer, PostApplied, PostNotAllowed, PostRefused, PostUnanswered, Post
<1>2. /\ e \in Known /\ Sorted(Tail(cycle[m].batch)) /\ Set(Tail(cycle[m].batch)) \subseteq Known
      /\ cycle[m] \in Cycle /\ InOrder(cycle[m])
  BY <1>1, TailInOrder, CycleInOrder
<1>3. /\ s.batch = Tail(cycle[m].batch) /\ s.ok = cycle[m].ok \cup {e}
      /\ s.seen = cycle[m].seen /\ s.pulled = cycle[m].pulled
      /\ f.batch = Tail(cycle[m].batch) /\ f.ok = cycle[m].ok
      /\ f.seen = cycle[m].seen /\ f.pulled = cycle[m].pulled
      /\ r.batch = Tail(cycle[m].batch) /\ r.ok = cycle[m].ok
      /\ r.seen = cycle[m].seen /\ r.pulled = cycle[m].pulled
  BY <1>2 DEF Cycle
<1>4. Succeed(m, e) => cycle' = [cycle EXCEPT ![m] = s]
  BY DEF Succeed
<1>5. Fail(m, e) => cycle' = [cycle EXCEPT ![m] = f]
  BY DEF Fail
<1>6. Refuse(m, e) => cycle' = [cycle EXCEPT ![m] = r]
  BY DEF Refuse
<1> HIDE DEF s, f, r
<1>7. UNCHANGED <<local, order, row, hand>>
  BY DEF Defer, PostApplied, PostNotAllowed, PostRefused, PostUnanswered, phone
<1>8. CASE Defer(m, e) \/ PostRefused(m, e) \/ PostUnanswered(m, e)
  <2>1. InOrder(f) /\ InOrder(r)
    BY <1>2, <1>3 DEF InOrder
  <2>2. PICK c \in {f, r} : cycle' = [cycle EXCEPT ![m] = c]
    BY <1>5, <1>6, <1>8 DEF Defer, PostRefused, PostUnanswered
  <2>3. UNCHANGED <<server, applied, dropped>>
    BY <1>8 DEF Defer, PostRefused, PostUnanswered, history
  <2>4. Rows({"completed"})' \subseteq Sent
    BY <1>7, WayRows DEF Rows
  <2> QED
    BY <1>7, <2>1, <2>2, <2>3, <2>4, LocalKnown, WayReads
<1>9. CASE PostApplied(m, e) \/ PostNotAllowed(m, e)
  <2>1. cycle' = [cycle EXCEPT ![m] = s]
    BY <1>4, <1>9 DEF PostApplied, PostNotAllowed
  <2>2. /\ Sent \subseteq Sent' /\ e \in Sent' /\ OnTheWay'
        /\ \A x \in Sent' : x \in Sent \/ x = e
    <3>1. CASE PostApplied(m, e)
      <4>1. Handle(e) /\ dropped' = dropped
        BY <3>1 DEF PostApplied
      <4> QED
        BY <4>1, HandleOnTheWay DEF Sent
    <3>2. CASE PostNotAllowed(m, e)
      <4>1. /\ UNCHANGED <<server, applied>>
            /\ dropped' = IF e \in Set(applied) THEN dropped ELSE dropped \cup {e}
        BY <3>2 DEF PostNotAllowed
      <4>2. Set(applied)' = Set(applied) /\ OnTheWay'
        BY <4>1 DEF Way, OnTheWay, Ahead, Set
      <4> QED
        BY <4>1, <4>2 DEF Sent
    <3> QED
      BY <1>9, <3>1, <3>2
  <2>3. Known \subseteq Known'
    BY <1>7, <2>2, KnownStays
  <2>4. {d \in Ahead : Rank(d) <= Rank(e)} \subseteq Known'
    BY <1>2, <2>3, KnowsMore DEF Way, KnowsTheWay
  <2>5. {d \in Ahead : Rank(d) <= Level(local')} \subseteq Known'
    BY <1>7, <2>3, KnowsMore DEF Way, KnowsTheWay
  <2>6. Rows({"completed"})' \subseteq Sent'
    BY <1>7, <2>2, RowsStay
  <2>7. InOrderNext(s)
    <3>1. InOrderNext(cycle[m])
      BY <1>2, <2>2, <2>3, InOrderStays
    <3>2. \A i, j \in DOMAIN s.batch : i < j => Rank(s.batch[i]) < Rank(s.batch[j]) \/ s.batch[j] \in Sent'
      BY <1>2, <1>3, <2>2, SortedStays
    <3> QED
      BY <1>2, <1>3, <2>2, <2>3, <3>1, <3>2 DEF InOrderNext
  <2>8. CyclesInOrder'
    BY <2>1, <2>2, <2>3, <2>7, OthersStay DEF Way
  <2> QED
    BY <1>7, <2>2, <2>4, <2>5, <2>6, <2>8, WayKeeps
<1> QED
  BY <1>8, <1>9

LEMMA WayLate ==
  ASSUME QueueInv, Way, DriversPhone, LateArrival
  PROVE  Way'
<1>1. PICK e \in late : IF Accepts(e) THEN Handle(e) ELSE UNCHANGED <<server, applied>>
  BY DEF LateArrival
<1>2. UNCHANGED <<local, order, row, hand, cycle, dropped>> /\ e \in Steps
  BY DEF LateArrival, phone, QueueInv, TypeOK
<1>3. CASE Handle(e)
  <2>1. /\ Sent \subseteq Sent' /\ OnTheWay' /\ \A x \in Sent' : x \in Sent \/ x = e
        /\ {d \in Ahead : Rank(d) <= Rank(e)} \subseteq Sent'
    BY <1>2, <1>3, HandleOnTheWay DEF Sent
  <2>2. Known \subseteq Known' /\ Sent' \subseteq Known'
    BY <1>2, <2>1, KnownStays DEF Known
  <2>3. {d \in Ahead : Rank(d) <= Level(local')} \subseteq Known'
    BY <1>2, <2>2, KnowsMore DEF Way, KnowsTheWay
  <2>4. \A x \in Sent' : x \in Sent \/ {d \in Ahead : Rank(d) <= Rank(x)} \subseteq Known'
    BY <2>1, <2>2
  <2>5. Rows({"completed"})' \subseteq Sent'
    BY <1>2, <2>1, RowsStay
  <2>6. CyclesInOrder'
    BY <1>2, <2>1, <2>2, AllStay DEF Way
  <2> QED
    BY <1>2, <2>1, <2>3, <2>4, <2>5, <2>6, WayKeeps
<1>4. CASE UNCHANGED <<server, applied>>
  <2>1. Known \subseteq Known' /\ Sent \subseteq Sent'
    BY <1>2, <1>4, KnownStays DEF Sent, Set
  <2>2. CyclesInOrder'
    BY <1>2, <2>1, AllStay DEF Way
  <2>3. Rows({"completed"})' \subseteq Sent
    BY <1>2, WayRows DEF Rows
  <2> QED
    BY <1>2, <1>4, <2>2, <2>3, LocalKnown, WaySame
<1> QED
  BY <1>1, <1>3, <1>4

LEMMA WayRetry ==
  ASSUME QueueInv, Way, NEW es \in SUBSET Rows(Failed), Retry(es)
  PROVE  Way'
<1>1. UNCHANGED <<server, local, order, hand, cycle, applied, dropped>>
  BY DEF Retry, history
<1>2. Known \subseteq Known' /\ Sent \subseteq Sent'
  BY <1>1, KnownStays DEF Sent, Set
<1>3. CyclesInOrder'
  BY <1>1, <1>2, AllStay DEF Way
<1>4. Rows({"completed"})' \subseteq Sent
  <2>1. \A e \in Steps : row'[e] = "completed" => row[e] = "completed"
    BY DEF Retry
  <2> QED
    BY <2>1, WayRows DEF Rows
<1> QED
  BY <1>1, <1>3, <1>4, LocalKnown, WaySame

\* The user's tap: the steps it is about to record follow what the phone knows.
LEMMA WayTaps ==
  ASSUME QueueInv, Way, DriversPhone, hand = <<>>, HandInOrder', InHand' \subseteq Steps,
         UNCHANGED <<server, local, order, row, cycle, applied, dropped>>,
         \A e \in InHand', d \in Ahead : Rank(d) <= Rank(e) => d \in InHand' \/ Rank(d) <= Level(local)
  PROVE  Way'
<1>1. InHand = {}
  BY DEF InHand, Set
<1>2. Set(order)' = Set(order) /\ Sent' = Sent /\ Known = Set(order) \cup Sent
      /\ Known' = Known \cup InHand'
  BY <1>1 DEF Sent, Set, Known
<1>3. OnTheWay'
  BY DEF Way, OnTheWay, Ahead, Set
<1>4. CyclesInOrder'
  BY <1>2, AllStay DEF Way
<1>5. QueueInOrder'
  BY <1>2 DEF Way, QueueInOrder, Sorted, Rows
<1>6. KnowsTheWay'
  <2>1. KnownUpTo(Level(local))'
    BY <1>2 DEF Way, KnowsTheWay, KnownUpTo, Ahead
  <2>2. ASSUME NEW x \in Known'
        PROVE  KnownUpTo(Rank(x))'
    <3>1. CASE x \in Known
      <4>1. KnownUpTo(Rank(x))
        BY <3>1 DEF Way, KnowsTheWay
      <4> QED
        BY <1>2, <4>1 DEF KnownUpTo, Ahead
    <3>2. CASE x \in InHand'
      <4>1. KnownUpTo(Level(local))
        BY DEF Way, KnowsTheWay
      <4>2. ASSUME NEW d \in Ahead, Rank(d) <= Rank(x)
            PROVE  d \in Known'
        BY <1>2, <3>2, <4>1, <4>2 DEF KnownUpTo
      <4> QED
        BY <4>2 DEF KnownUpTo, Ahead
    <3> QED
      BY <1>2, <3>1, <3>2
  <2>3. ASSUME NEW e \in InHand', e \notin Set(order)' \cup Sent', NEW d \in Set(order)'
        PROVE  Rank(d) < Rank(e)
    <3>1. d \in Known /\ e \notin Known /\ e \in Ahead
      BY <1>2, <2>3 DEF DriversPhone
    <3>2. ~(Rank(e) <= Rank(d))
      BY <3>1 DEF Way, KnowsTheWay, KnownUpTo
    <3> QED
      BY <3>2, Levels
  <2> QED
    BY <2>1, <2>2, <2>3 DEF KnowsTheWay
<1> QED
  BY <1>3, <1>4, <1>5, <1>6 DEF Way

LEMMA WayDriverTaps ==
  ASSUME QueueInv, Way, DriversPhone, DriverTaps
  PROVE  Way'
<1>1. PICK e \in {"depart", "arrive"} \cap Steps :
        /\ local = CASE e = "depart" -> "loaded" [] e = "arrive" -> "in_transit"
        /\ hand' = <<ToTrip(e), ToQueue(e)>>
  BY DEF DriverTaps
<1>2. /\ DOMAIN hand' = {1, 2} /\ hand'[1] = ToTrip(e) /\ hand'[2] = ToQueue(e)
  BY <1>1
<1>3. /\ ToTrip(e).into = "trips" /\ ToTrip(e).step = e
      /\ ToQueue(e).into = "sync_queue" /\ ToQueue(e).step = e
  BY DEF ToTrip, ToQueue
<1>4. InHand' = {e}
  BY <1>2, <1>3 DEF InHand, Set
<1>5. HandInOrder'
  BY <1>2, <1>3 DEF HandInOrder, ToQueue
<1>6. Level(local) + 1 = Rank(e)
  BY <1>1 DEF Level, Rank
<1>7. e \in DriverSteps
  BY DEF DriverSteps
<1>8. ASSUME NEW d \in Ahead, Rank(d) <= Rank(e)
      PROVE  d = e \/ Rank(d) <= Level(local)
  <2>1. d \in DriverSteps /\ (Rank(d) = Rank(e) => d = e)
    BY <1>7, RankOne DEF Ahead
  <2> QED
    BY <1>6, <1>8, <2>1, Levels
<1>9. hand = <<>> /\ UNCHANGED <<server, local, order, row, cycle, applied, dropped>>
  BY DEF DriverTaps, history
<1> QED
  BY <1>4, <1>5, <1>8, <1>9, WayTaps

LEMMA WayDriverDelivers ==
  ASSUME QueueInv, Way, DriversPhone, DriverDelivers
  PROVE  Way'
<1> DEFINE E == {"start-delivery", "confirm-delivery", "complete"}
<1>1. /\ hand = <<>> /\ E \subseteq Steps /\ local \in {"arrived", "delivering"}
      /\ UNCHANGED <<server, local, order, row, cycle, applied, dropped>>
      /\ hand' = <<ToTrip("start-delivery"), ToQueue("start-delivery"),
                   ToTrip("confirm-delivery"), ToQueue("confirm-delivery"),
                   ToTrip("complete"), ToQueue("complete")>>
  BY DEF DriverDelivers, history
<1>2. /\ DOMAIN hand' = {1, 2, 3, 4, 5, 6}
      /\ hand'[1] = ToTrip("start-delivery") /\ hand'[2] = ToQueue("start-delivery")
      /\ hand'[3] = ToTrip("confirm-delivery") /\ hand'[4] = ToQueue("confirm-delivery")
      /\ hand'[5] = ToTrip("complete") /\ hand'[6] = ToQueue("complete")
  BY <1>1
<1>3. \A e : /\ ToTrip(e).into = "trips" /\ ToTrip(e).step = e
             /\ ToQueue(e).into = "sync_queue" /\ ToQueue(e).step = e
  BY DEF ToTrip, ToQueue
<1>4. Rank("start-delivery") = 3 /\ Rank("confirm-delivery") = 4 /\ Rank("complete") = 5
  BY DEF Rank
<1>5. InHand' = E
  BY <1>2, <1>3 DEF InHand, Set
<1>6. HandInOrder'
  <2>1. \A i \in DOMAIN hand' : hand'[i].into = "trips" =>
          i + 1 \in DOMAIN hand' /\ hand'[i + 1] = ToQueue(hand'[i].step)
    BY <1>2, <1>3
  <2>2. \A i \in DOMAIN hand' : hand'[i].into = "sync_queue" => i \in {2, 4, 6}
    BY <1>2, <1>3
  <2>3. Rank(hand'[2].step) = 3 /\ Rank(hand'[4].step) = 4 /\ Rank(hand'[6].step) = 5
    BY <1>2, <1>3, <1>4
  <2>4. \A i, j \in DOMAIN hand' :
          i < j /\ hand'[i].into = "sync_queue" /\ hand'[j].into = "sync_queue" =>
            Rank(hand'[i].step) < Rank(hand'[j].step)
    BY <2>2, <2>3
  <2> QED
    BY <2>1, <2>4 DEF HandInOrder, ToQueue
<1>7. Level(local) >= 2
  BY <1>1 DEF Level
<1>8. ASSUME NEW d \in Ahead
      PROVE  d \in E \/ Rank(d) <= Level(local)
  <2>1. d \in E \/ d \in {"depart", "arrive"}
    BY DEF Ahead, DriverSteps
  <2>2. Rank("depart") = 1 /\ Rank("arrive") = 2
    BY DEF Rank
  <2> QED
    BY <1>7, <2>1, <2>2, Levels
<1> QED
  BY <1>1, <1>5, <1>6, <1>8, WayTaps

\* What is in hand after the first of the writes is done.
LEMMA HandTail ==
  ASSUME QueueInv, HandInOrder, hand # <<>>, hand' = Tail(hand)
  PROVE  /\ HandInOrder' /\ Head(hand) \in Writes
         /\ Head(hand).into = "trips" => InHand' = InHand /\ Head(hand).step \in InHand
         /\ Head(hand).into = "sync_queue" =>
              /\ InHand = InHand' \cup {Head(hand).step}
              /\ \A e \in InHand' : Rank(Head(hand).step) < Rank(e)
<1>1. hand \in Seq(Writes)
  BY DEF QueueInv, TypeOK, Writes
<1>2. /\ Len(hand) \in Nat /\ Len(hand) # 0 /\ DOMAIN hand = 1..Len(hand)
      /\ DOMAIN hand' = 1..(Len(hand) - 1) /\ Head(hand) = hand[1] /\ Head(hand) \in Writes
      /\ \A i \in DOMAIN hand' : hand'[i] = hand[i + 1]
  BY <1>1
<1>3. \A i \in DOMAIN hand' : i + 1 \in DOMAIN hand
  BY <1>2
<1>4. HandInOrder'
  <2>1. ASSUME NEW i \in DOMAIN hand', hand'[i].into = "trips"
        PROVE  i + 1 \in DOMAIN hand' /\ hand'[i + 1] = ToQueue(hand'[i].step)
    <3>1. i + 1 \in DOMAIN hand /\ hand[i + 1].into = "trips"
      BY <1>2, <1>3, <2>1
    <3>2. (i + 1) + 1 \in DOMAIN hand /\ hand[(i + 1) + 1] = ToQueue(hand[i + 1].step)
      BY <3>1 DEF HandInOrder
    <3>3. i + 1 \in DOMAIN hand'
      BY <1>2, <3>2
    <3> QED
      BY <1>2, <3>2, <3>3
  <2>2. ASSUME NEW i \in DOMAIN hand', NEW j \in DOMAIN hand', i < j,
               hand'[i].into = "sync_queue", hand'[j].into = "sync_queue"
        PROVE  Rank(hand'[i].step) < Rank(hand'[j].step)
    <3>1. i + 1 \in DOMAIN hand /\ j + 1 \in DOMAIN hand /\ i + 1 < j + 1
      BY <1>2, <1>3, <2>2
    <3> QED
      BY <1>2, <2>2, <3>1 DEF HandInOrder
  <2> QED
    BY <2>1, <2>2 DEF HandInOrder, ToQueue
<1>5. ASSUME NEW e
      PROVE  e \in InHand <=> \E i \in DOMAIN hand : hand[i].into = "sync_queue" /\ e = hand[i].step
  BY DEF InHand, Set
<1>6. ASSUME NEW e
      PROVE  e \in InHand' <=> \E i \in DOMAIN hand' : hand'[i].into = "sync_queue" /\ e = hand'[i].step
  BY DEF InHand, Set
<1>7. ASSUME NEW e \in InHand'
      PROVE  e \in InHand
  BY <1>2, <1>3, <1>5, <1>6
<1>8. ASSUME NEW e \in InHand
      PROVE  e \in InHand' \/ (Head(hand).into = "sync_queue" /\ e = Head(hand).step)
  <2>1. PICK i \in DOMAIN hand : hand[i].into = "sync_queue" /\ e = hand[i].step
    BY <1>5
  <2>2. CASE i = 1
    BY <1>2, <2>1, <2>2
  <2>3. CASE i # 1
    <3>1. i - 1 \in DOMAIN hand' /\ hand'[i - 1] = hand[i]
      BY <1>2, <2>3
    <3> QED
      BY <1>6, <2>1, <3>1
  <2> QED
    BY <2>2, <2>3
<1>9. ASSUME Head(hand).into = "trips"
      PROVE  InHand' = InHand /\ Head(hand).step \in InHand
  <2>1. InHand' = InHand
    BY <1>7, <1>8, <1>9
  <2>2. 1 \in DOMAIN hand
    BY <1>2
  <2>3. 1 + 1 \in DOMAIN hand /\ hand[1 + 1] = ToQueue(hand[1].step)
    BY <1>2, <1>9, <2>2 DEF HandInOrder
  <2>4. hand[2].into = "sync_queue" /\ hand[2].step = Head(hand).step /\ 2 \in DOMAIN hand
    BY <1>2, <2>3 DEF ToQueue
  <2> QED
    BY <1>5, <2>1, <2>4
<1>10. ASSUME Head(hand).into = "sync_queue"
       PROVE  /\ InHand = InHand' \cup {Head(hand).step}
              /\ \A e \in InHand' : Rank(Head(hand).step) < Rank(e)
  <2>1. 1 \in DOMAIN hand
    BY <1>2
  <2>2. Head(hand).step \in InHand
    BY <1>2, <1>5, <1>10, <2>1
  <2>3. ASSUME NEW e \in InHand'
        PROVE  Rank(Head(hand).step) < Rank(e)
    <3>1. PICK i \in DOMAIN hand' : hand'[i].into = "sync_queue" /\ e = hand'[i].step
      BY <1>6
    <3>2. i + 1 \in DOMAIN hand /\ 1 < i + 1 /\ hand'[i] = hand[i + 1]
      BY <1>2, <1>3
    <3> QED
      BY <1>2, <1>10, <2>1, <3>1, <3>2 DEF HandInOrder
  <2> QED
    BY <1>7, <1>8, <2>2, <2>3
<1> QED
  BY <1>2, <1>4, <1>9, <1>10

LEMMA WayRecord ==
  ASSUME QueueInv, Way, Record
  PROVE  Way'
<1> DEFINE e == Head(hand).step
<1>1. hand # <<>> /\ hand' = Tail(hand) /\ UNCHANGED <<server, cycle, applied, dropped>>
  BY DEF Record, history
<1>2. /\ HandInOrder' /\ Head(hand) \in Writes
      /\ Head(hand).into = "trips" => InHand' = InHand /\ e \in InHand
      /\ Head(hand).into = "sync_queue" =>
           InHand = InHand' \cup {e} /\ \A d \in InHand' : Rank(e) < Rank(d)
  BY <1>1, HandTail DEF Way
<1>3. e \in Steps /\ Head(hand).into \in {"trips", "sync_queue"}
  BY <1>2 DEF Writes
<1>4. Sent' = Sent /\ OnTheWay'
  BY <1>1 DEF Sent, Set, Way, OnTheWay, Ahead
<1>5. CASE Head(hand).into = "trips"
  <2>1. local' = Target(e) /\ UNCHANGED <<order, row>>
    BY <1>5 DEF Record, ApplyTransitionLocally
  <2>2. Known' = Known /\ Set(order)' = Set(order)
    BY <1>2, <1>4, <1>5, <2>1 DEF Known, Set
  <2>3. KnowsTheWay'
    <3>1. KnownUpTo(Level(local))'
      <4>1. e \in Known
        BY <1>2, <1>5 DEF Known
      <4>2. KnownUpTo(Rank(e))
        BY <4>1 DEF Way, KnowsTheWay
      <4>3. Level(Target(e)) <= Rank(e)
        BY DEF Level, Target, Rank
      <4>4. \A d : Rank(d) <= Level(Target(e)) => Rank(d) <= Rank(e)
        BY <4>3, Levels
      <4> QED
        BY <2>1, <2>2, <4>2, <4>4 DEF KnownUpTo, Ahead
    <3>2. \A x \in Known' : KnownUpTo(Rank(x))'
      BY <2>2 DEF Way, KnowsTheWay, KnownUpTo, Ahead
    <3>3. \A x \in InHand' : x \in Set(order)' \cup Sent' \/ \A d \in Set(order)' : Rank(d) < Rank(x)
      BY <1>2, <1>4, <1>5, <2>2 DEF Way, KnowsTheWay
    <3> QED
      BY <3>1, <3>2, <3>3 DEF KnowsTheWay
  <2>4. QueueInOrder'
    BY <1>4, <2>1 DEF Way, QueueInOrder, Sorted, Rows
  <2>5. CyclesInOrder'
    BY <1>1, <1>4, <2>2, AllStay DEF Way
  <2> QED
    BY <1>2, <1>4, <2>3, <2>4, <2>5 DEF Way
<1>6. CASE Head(hand).into = "sync_queue"
  <2>1. EnqueueOrUpdate(e) /\ UNCHANGED local
    BY <1>6 DEF Record, EnqueueOrUpdate
  <2>2. Set(order)' = Set(order) \cup {e}
    BY <1>3, <2>1, QueueEnqueue
  <2>3. Known' = Known
    BY <1>2, <1>4, <1>6, <2>2 DEF Known
  <2>4. e \in Set(order) \cup Sent \/ \A d \in Set(order) : Rank(d) < Rank(e)
    BY <1>2, <1>6 DEF Way, KnowsTheWay
  <2>5. KnowsTheWay'
    <3>1. KnownUpTo(Level(local))' /\ \A x \in Known' : KnownUpTo(Rank(x))'
      BY <2>1, <2>3 DEF Way, KnowsTheWay, KnownUpTo, Ahead
    <3>2. ASSUME NEW x \in InHand'
          PROVE  x \in Set(order)' \cup Sent' \/ \A d \in Set(order)' : Rank(d) < Rank(x)
      <4>1. Rank(e) < Rank(x) /\ x \in InHand
        BY <1>2, <1>6
      <4>2. x \in Set(order) \cup Sent \/ \A d \in Set(order) : Rank(d) < Rank(x)
        BY <4>1 DEF Way, KnowsTheWay
      <4> QED
        BY <1>4, <2>2, <4>1, <4>2
    <3> QED
      BY <3>1, <3>2 DEF KnowsTheWay
  <2>6. QueueInOrder'
    <3>1. Sorted(order) /\ Rows({"completed"}) \subseteq Sent
      BY DEF Way, QueueInOrder
    <3>2. order \in Seq(Steps) /\ row \in [Steps -> RowStatus]
      BY DEF QueueInv, TypeOK
    <3>3. Rows({"completed"})' \subseteq Sent'
      <4>1. \A d \in Steps : row'[d] = "completed" => row[d] = "completed"
        BY <2>1, <3>2 DEF EnqueueOrUpdate
      <4> QED
        BY <1>4, <3>1, <4>1 DEF Rows
    <3>4. CASE row[e] # "none"
      <4>1. order' = order
        BY <2>1, <3>4 DEF EnqueueOrUpdate
      <4> QED
        BY <1>4, <3>1, <3>3, <4>1 DEF QueueInOrder, Sorted
    <3>5. CASE row[e] = "none"
      <4>1. order' = Append(order, e)
        BY <2>1, <3>5 DEF EnqueueOrUpdate
      <4>2. /\ Len(order) \in Nat /\ DOMAIN order = 1..Len(order)
            /\ DOMAIN order' = DOMAIN order \cup {Len(order) + 1}
            /\ order'[Len(order) + 1] = e /\ \A i \in DOMAIN order : order'[i] = order[i]
        BY <1>3, <3>2, <4>1
      <4>3. e \notin Set(order)
        BY <3>5 DEF QueueInv, OneRowEach, Rows
      <4>4. e \in Sent \/ \A i \in DOMAIN order : Rank(order[i]) < Rank(e)
        BY <2>4, <4>3 DEF Set
      <4>5. ASSUME NEW i \in DOMAIN order', NEW j \in DOMAIN order', i < j
            PROVE  Rank(order'[i]) < Rank(order'[j]) \/ order'[j] \in Sent
        <5>1. i \in DOMAIN order
          BY <4>2, <4>5
        <5>2. CASE j \in DOMAIN order
          BY <3>1, <4>2, <4>5, <5>1, <5>2 DEF Sorted
        <5>3. CASE j = Len(order) + 1
          BY <4>2, <4>4, <5>1, <5>3
        <5> QED
          BY <4>2, <5>2, <5>3
      <4>6. Sorted(order)'
        BY <1>4, <4>5 DEF Sorted
      <4> QED
        BY <3>3, <4>6 DEF QueueInOrder
    <3> QED
      BY <3>4, <3>5
  <2>7. CyclesInOrder'
    BY <1>1, <1>4, <2>3, AllStay DEF Way
  <2> QED
    BY <1>2, <1>4, <2>5, <2>6, <2>7 DEF Way
<1> QED
  BY <1>3, <1>5, <1>6

LEMMA NoDepot ==
  ASSUME DriversPhone, DepotTapsOnline \/ DepotTapsOffline
  PROVE  FALSE
<1>1. PICK e \in Steps : DepotOffers(e)
  BY DEF DepotTapsOnline, DepotTapsOffline
<1>2. e \in DepotSteps /\ e \in DriverSteps
  BY <1>1 DEF DepotOffers, DriversPhone, Ahead
<1> QED
  BY <1>2 DEF DepotSteps, DriverSteps

\* The order of ids, the deferring past a failure and the screens' own order keep what
\* the phone knows in the trip's order.
LEMMA WayStep ==
  ASSUME QueueInv, WayInv, DriversPhone, [Next]_vars
  PROVE  WayInv'
<1> SUFFICES ASSUME OneDriver'
             PROVE  Way'
  BY DEF WayInv
<1>1. ~OtherMoves
  BY DEF OtherMoves, OneDriver
<1>2. ~Crash
  <2> SUFFICES ASSUME Crash
               PROVE  FALSE
    OBVIOUS
  <2>1. spent \in [losses : 0..MaxLosses, retries : 0..MaxRetries, crashes : 0..MaxCrashes]
    BY DEF QueueInv, TypeOK
  <2>2. spent'.crashes = spent.crashes + 1 /\ spent.crashes \in Nat
    BY <2>1, TransitionQueueAssumption DEF Crash
  <2> QED
    BY <2>2 DEF OneDriver
<1>3. OneDriver
  <2>1. spent \in [losses : 0..MaxLosses, retries : 0..MaxRetries, crashes : 0..MaxCrashes]
    BY DEF QueueInv, TypeOK
  <2>2. moved' = moved /\ spent'.crashes = spent.crashes
    <3>1. CASE UNCHANGED <<spent, moved>>
      BY <3>1
    <3>2. CASE moved' = moved /\ \E e \in Steps : Unanswered(e)
      BY <2>1, <3>2 DEF Unanswered
    <3>3. CASE moved' = moved /\ \E es \in SUBSET Steps : Retry(es)
      BY <2>1, <3>3 DEF Retry
    <3>4. CASE RetryAllFailed \/ RetryOne
      <4>1. \E es \in SUBSET Steps : Retry(es)
        BY <3>4 DEF RetryAllFailed, RetryOne, Rows
      <4> QED
        BY <3>3, <4>1 DEF Retry, history
    <3>5. CASE DriverTaps \/ DriverDelivers \/ DepotTapsOnline \/ DepotTapsOffline \/ Record \/ LateArrival
      BY <3>1, <3>2, <3>5
      DEF DriverTaps, DriverDelivers, DepotTapsOnline, DepotTapsOffline, Record, LateArrival, history
    <3>6. ASSUME NEW m \in Managers, Sync(m)
          PROVE  moved' = moved /\ spent'.crashes = spent.crashes
      BY <3>1, <3>2, <3>6
      DEF Sync, Begin, Dequeue, MarkInFlight, Push, Defer, PostApplied, PostNotAllowed, PostRefused,
          PostUnanswered, MarkCompleted, MarkFailed, Fetch, FetchNothing, FindLocal, CheckUnsent,
          Upsert, history
    <3>7. CASE UNCHANGED vars
      BY <3>1, <3>7 DEF vars, history
    <3> QED
      BY <1>1, <1>2, <3>4, <3>5, <3>6, <3>7 DEF Next
  <2> QED
    BY <2>2 DEF OneDriver
<1>4. Way
  BY <1>3 DEF WayInv
<1>5. CASE UNCHANGED vars
  <2>1. UNCHANGED <<server, local, order, row, hand, cycle, applied, dropped>>
    BY <1>5 DEF vars, phone, history
  <2>2. CyclesInOrder'
    BY <1>4, <2>1, KnownStays, AllStay DEF Way, Sent, Set
  <2>3. Rows({"completed"})' \subseteq Sent
    BY <1>4, <2>1, WayRows DEF Rows
  <2> QED
    BY <1>4, <2>1, <2>2, <2>3, LocalKnown, WaySame
<1>6. CASE RetryAllFailed \/ RetryOne
  <2>1. PICK es \in SUBSET Rows(Failed) : Retry(es)
    BY <1>6 DEF RetryAllFailed, RetryOne
  <2> QED
    BY <1>4, <2>1, WayRetry
<1>7. ASSUME NEW m \in Managers, Sync(m)
      PROVE  Way'
  BY <1>4, <1>7, WayBegin, WayDequeue, WayPush, WayMarks, WayPull DEF Sync
<1> QED
  BY <1>1, <1>2, <1>4, <1>5, <1>6, <1>7, NoDepot, WayDriverTaps, WayDriverDelivers, WayRecord, WayLate
  DEF Next

LEMMA WayStart == Init /\ DriversPhone => WayInv
<1> SUFFICES ASSUME Init, DriversPhone
             PROVE  Way
  BY DEF WayInv
<1>1. /\ server.status = Start /\ local = Start /\ order = <<>> /\ hand = <<>>
      /\ applied = <<>> /\ dropped = {} /\ DOMAIN <<>> = {}
      /\ cycle = [m \in Managers |-> Idle] /\ row = [e \in Steps |-> "none"]
  BY DEF Init
<1>2. InHand = {} /\ Set(order) = {} /\ Sent = {} /\ Known = {}
  BY <1>1 DEF InHand, Set, Sent, Known
<1>3. KnownUpTo(Level(Start)) /\ {e \in Ahead : Rank(e) <= Level(Start)} = {}
  BY Levels DEF KnownUpTo, Ahead
<1>4. OnTheWay
  BY <1>1, <1>3, Levels DEF OnTheWay, Road, DriversPhone, Set
<1>5. HandInOrder
  BY <1>1 DEF HandInOrder
<1>6. KnowsTheWay
  BY <1>1, <1>2, <1>3 DEF KnowsTheWay
<1>7. QueueInOrder
  BY <1>1 DEF QueueInOrder, Sorted, Rows
<1>8. CyclesInOrder
  <2>1. /\ Idle.seen = Start /\ Idle.pulled.status = Start /\ Idle.batch = <<>> /\ Idle.ok = {}
    BY DEF Idle, NoTrip
  <2>2. InOrder(Idle)
    BY <1>1, <1>3, <2>1 DEF InOrder, Sorted, Set
  <2> QED
    BY <1>1, <2>2 DEF CyclesInOrder
<1> QED
  BY <1>4, <1>5, <1>6, <1>7, <1>8 DEF Way

\* A driver's phone knows of no step before those it follows, and sends its queue in the
\* trip's order, however many cycles run, as long as nobody else moves the trip and the
\* app is not killed between the two writes of a screen.
THEOREM WayInvariant ==
  ASSUME DriversPhone
  PROVE  Spec => []WayInv
<1>1. Init => WayInv
  BY WayStart
<1>2. QueueInv /\ WayInv /\ [Next]_vars => WayInv'
  BY WayStep
<1> QED
  BY <1>1, <1>2, QueueInvariant, PTL DEF Spec

\* A step that is not allowed, with every earlier one in its batch or applied, would be
\* allowed after all.
LEMMA DropIsAGap ==
  ASSUME QueueInv, WayInv, DriversPhone, NEW m \in Managers, NEW e \in Steps,
         PostNotAllowed(m, e), e \notin Set(applied), dropped = {}, OneDriver
  PROVE  \E d \in Steps \ BatchOf(m) : Rank(d) < Rank(e) /\ d \notin Set(applied)
<1> SUFFICES ASSUME \A d \in Steps \ BatchOf(m) : Rank(d) < Rank(e) => d \in Set(applied)
             PROVE  FALSE
  OBVIOUS
<1>1. /\ Way /\ Sent = Set(applied) /\ InOrder(cycle[m]) /\ cycle[m] \in Cycle
      /\ Sending(m, e) /\ ~Blocked(m) /\ ~Accepts(e)
  BY CycleInOrder DEF WayInv, PostNotAllowed, Post, Sent
<1>2. server \in [status : Status, version : Nat] /\ e \in DriverSteps /\ e \in Ahead
  BY DEF QueueInv, TypeOK, DriversPhone, Ahead
\* What is behind e in the batch comes after it on the way, or was applied.
<1>3. ASSUME NEW d \in Set(cycle[m].batch), Rank(d) < Rank(e)
      PROVE  d \in Set(applied)
  <2> DEFINE b == cycle[m].batch
  <2>1. b \in Seq(Steps) /\ b # <<>> /\ e = Head(b) /\ Sorted(b)
    BY <1>1 DEF Sending, Cycle, InOrder
  <2>2. PICK j \in DOMAIN b : d = b[j]
    BY <1>3 DEF Set
  <2> HIDE DEF b
  <2>3. 1 \in DOMAIN b /\ e = b[1] /\ (j = 1 \/ 1 < j)
    BY <2>1
  <2>4. 1 < j
    BY <1>3, <2>2, <2>3, Levels
  <2>5. Rank(e) < Rank(d) \/ d \in Sent
    BY <2>1, <2>2, <2>3, <2>4 DEF Sorted
  <2> QED
    BY <1>1, <1>3, <2>5, Levels
<1>4. ASSUME NEW d \in Ahead, Rank(d) < Rank(e)
      PROVE  d \in Set(applied)
  <2>1. d \in Steps
    <3>1. e \in Known
      BY <1>1, TailInOrder
    <3>2. KnownUpTo(Rank(e))
      BY <1>1, <3>1 DEF Way, KnowsTheWay
    <3>3. d \in Known
      BY <1>4, <3>2, Levels DEF KnownUpTo
    <3>4. Known \subseteq Steps
      <4>1. order \in Seq(Steps) /\ applied \in Seq(Steps) /\ hand \in Seq(Writes)
        BY DEF QueueInv, TypeOK, Writes
      <4>2. Set(order) \subseteq Steps /\ Set(applied) \subseteq Steps /\ Set(hand) \subseteq Writes
        BY <4>1 DEF Set
      <4>3. InHand \subseteq Steps
        BY <4>2 DEF InHand, Writes
      <4> QED
        BY <1>1, <4>2, <4>3 DEF Known
    <3> QED
      BY <3>3, <3>4
  <2>2. CASE d \notin BatchOf(m)
    BY <1>4, <2>1, <2>2
  <2>3. CASE d \in BatchOf(m)
    <3>1. cycle[m].bad = {} /\ cycle[m].refused = {} /\ cycle[m].ok \subseteq Set(applied)
      BY <1>1 DEF Blocked, InOrder
    <3> QED
      BY <1>3, <1>4, <2>3, <3>1 DEF BatchOf
  <2> QED
    BY <2>2, <2>3
\* So the server is right before e, and accepts it.
<1>5. /\ server.status \in Road /\ Level(Start) <= Level(server.status)
      /\ Set(applied) = {d \in Ahead : Rank(d) <= Level(server.status)}
  BY <1>1 DEF Way, OnTheWay
<1>6. Level(server.status) < Rank(e)
  BY <1>2, <1>5, Levels
<1>7. Rank(e) <= Level(server.status) + 1
  <2> SUFFICES ASSUME Level(server.status) + 1 < Rank(e)
               PROVE  FALSE
    BY Levels
  <2> DEFINE n == Level(server.status) + 1
  <2>1. n \in 1..4
    BY <1>6, Levels DEF Rank, Level
  <2>2. PICK d \in DriverSteps : Rank(d) = n
    <3>1. /\ Rank("depart") = 1 /\ Rank("arrive") = 2 /\ Rank("start-delivery") = 3
          /\ Rank("confirm-delivery") = 4
      BY DEF Rank
    <3>2. {"depart", "arrive", "start-delivery", "confirm-delivery"} \subseteq DriverSteps
      BY DEF DriverSteps
    <3>3. n = 1 \/ n = 2 \/ n = 3 \/ n = 4
      BY <2>1
    <3> HIDE DEF n
    <3> QED
      BY <3>1, <3>2, <3>3
  <2>3. d \in Ahead
    BY <1>5, <2>2, Levels DEF Ahead
  <2>4. d \in Set(applied)
    BY <1>4, <2>2, <2>3
  <2> QED
    BY <1>5, <2>2, <2>4, Levels
<1>8. Level(server.status) + 1 = Rank(e)
  BY <1>6, <1>7, Levels
<1> QED
  BY <1>1, <1>2, <1>5, <1>8, DriverStep DEF Accepts

\* The first step that is taken for sent although the server never applied it sits behind an
\* earlier one that was not in its cycle's batch: sending in id order and deferring past
\* a failure (push.ts 454-464) cover all else.
THEOREM DroppedTheorem ==
  ASSUME DriversPhone
  PROVE  Spec => DroppedOnlyBehindAGap
<1> DEFINE A == \A m \in Managers, e \in Steps :
                  PostNotAllowed(m, e) /\ e \notin Set(applied) /\ dropped = {} /\ ~moved
                       /\ spent.crashes = 0
                    => \E d \in Steps \ BatchOf(m) : Rank(d) < Rank(e) /\ d \notin Set(applied)
<1>1. QueueInv /\ WayInv => A
  BY DropIsAGap DEF OneDriver
<1>2. QueueInv /\ WayInv => [A]_vars
  BY <1>1
<1>3. DroppedOnlyBehindAGap <=> [][A]_vars
  BY DEF DroppedOnlyBehindAGap
<1> HIDE DEF A
<1> QED
  BY <1>2, <1>3, QueueInvariant, WayInvariant, PTL
-----------------------------------------------------------------------------
(* The server's trip is one that the handlers of TripLifecycle can carry.      *)

\* A step leads where the machine leads, or the depot's confirmation closes the trip.
LEMMA StepOfTheMachine ==
  ASSUME NEW e \in Steps, NEW s \in Status, EventOf(e) \in Available(s)
  PROVE  \/ EventOf(e) \in Event /\ Target(e) \in Targets(EventOf(e))
         \/ /\ Target(e) = "completed" /\ "CONFIRM_DELIVERY_AT_DEPOT" \in Available(s)
            /\ "COMPLETE" \in Available("delivered")
            /\ "delivered" \in Targets("CONFIRM_DELIVERY_AT_DEPOT")
<1>1. e \in DriverSteps \cup DepotSteps
  BY TransitionQueueAssumption
<1>2. CASE e = "confirm-depot-delivery"
  BY <1>2 DEF EventOf, Target, Available, Targets
<1>3. CASE e # "confirm-depot-delivery"
  BY <1>1, <1>3 DEF DriverSteps, DepotSteps, EventOf, Target, Targets, Event
<1> QED
  BY <1>2, <1>3

\* The machine's table is the one the queue's model reads.
LEMMA OneTable == /\ \A s : TheTrip!Available(s) = Available(s)
                  /\ \A e : TheTrip!Targets(e) = Targets(e)
                  /\ TheTrip!Event = Event
BY DEF TheTrip!Available, Available, TheTrip!Targets, Targets, TheTrip!Event, Event

LEMMA TheTripFires ==
  ASSUME NEW ev \in Event, ev \in Available(server.status), NEW s \in Targets(ev),
         server'.status = s
  PROVE  TheTrip!Next
<1>1. [t \in {"trip"} |-> server.status]["trip"] = server.status
  OBVIOUS
<1>2. [t \in {"trip"} |-> server.status]' = [[t \in {"trip"} |-> server.status] EXCEPT !["trip"] = s]
  OBVIOUS
<1>3. TheTrip!Fire("trip", ev)
  BY <1>1, <1>2, OneTable DEF TheTrip!Fire
<1> QED
  BY <1>3, OneTable DEF TheTrip!Next

LEMMA HandleOfTheMachine ==
  ASSUME QueueInv, NEW e \in Steps, Handle(e)
  PROVE  TheTrip!Next
<1>1. /\ server.status \in Status /\ EventOf(e) \in Available(server.status)
      /\ server'.status = Target(e)
  BY DEF QueueInv, TypeOK, Handle, Accepts, Advance
<1>2. CASE EventOf(e) \in Event /\ Target(e) \in Targets(EventOf(e))
  BY <1>1, <1>2, TheTripFires
<1>3. CASE /\ Target(e) = "completed" /\ "CONFIRM_DELIVERY_AT_DEPOT" \in Available(server.status)
           /\ "COMPLETE" \in Available("delivered")
           /\ "delivered" \in Targets("CONFIRM_DELIVERY_AT_DEPOT")
  <2>1. [t \in {"trip"} |-> server.status]["trip"] = server.status
    OBVIOUS
  <2>2. [t \in {"trip"} |-> server.status]'
          = [[t \in {"trip"} |-> server.status] EXCEPT !["trip"] = "completed"]
    BY <1>1, <1>3
  <2>3. TheTrip!ConfirmAndComplete("trip")
    BY <1>3, <2>1, <2>2, OneTable DEF TheTrip!ConfirmAndComplete
  <2> QED
    BY <2>3 DEF TheTrip!Next
<1> QED
  BY <1>1, <1>2, <1>3, StepOfTheMachine

LEMMA StepOfTheTrip ==
  ASSUME QueueInv, [Next]_vars
  PROVE  [TheTrip!Next]_(TheTrip!vars)
<1>1. CASE UNCHANGED server
  BY <1>1 DEF TheTrip!vars
<1>2. CASE OtherMoves
  <2>1. PICK ev \in OtherEvents \cap Available(server.status) : \E s \in Targets(ev) : Advance(s)
    BY <1>2 DEF OtherMoves
  <2>2. PICK s \in Targets(ev) : Advance(s)
    BY <2>1
  <2>3. ev \in Event /\ ev \in Available(server.status) /\ server'.status = s
    BY <2>2, TransitionQueueAssumption DEF Advance
  <2> QED
    BY <2>3, TheTripFires
<1>3. CASE DepotTapsOnline
  BY <1>3, HandleOfTheMachine DEF DepotTapsOnline
<1>4. CASE LateArrival
  BY <1>1, <1>4, HandleOfTheMachine DEF LateArrival, QueueInv, TypeOK
<1>5. ASSUME NEW m \in Managers, Sync(m)
      PROVE  UNCHANGED server \/ \E e \in Steps : Handle(e)
  BY <1>5
  DEF Sync, Push, Begin, Dequeue, MarkInFlight, Defer, PostApplied, PostNotAllowed, PostRefused,
      PostUnanswered, MarkCompleted, MarkFailed, Fetch, FetchNothing, FindLocal, CheckUnsent, Upsert
<1>6. CASE \/ DriverTaps \/ DriverDelivers \/ DepotTapsOffline \/ Record \/ RetryAllFailed
           \/ RetryOne \/ Crash \/ UNCHANGED vars
  BY <1>1, <1>6
  DEF DriverTaps, DriverDelivers, DepotTapsOffline, Record, RetryAllFailed, RetryOne, Retry, Crash, vars
<1> QED
  BY <1>1, <1>2, <1>3, <1>4, <1>5, <1>6, HandleOfTheMachine DEF Next

\* The trip that a phone's posts and other users' handlers move takes steps of the state machine
\* only: what the queue's model supposes of the server is what TripLifecycle implements.
THEOREM MachineTheorem == Spec => ServerTakesMachineSteps
<1>1. QueueInv /\ [Next]_vars => [TheTrip!Next]_(TheTrip!vars)
  BY StepOfTheTrip
<1> QED
  BY <1>1, QueueInvariant, PTL DEF Spec, ServerTakesMachineSteps
=============================================================================
