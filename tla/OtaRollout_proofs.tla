-------------------------- MODULE OtaRollout_proofs --------------------------
(***************************************************************************)
(* Proofs about OtaRollout, for any deployments, check-ins and faults.     *)
(***************************************************************************)
EXTENDS OtaRollout, TLAPS

\* Versions are numbers, the one before any deployment among them.
LEMMA Numbers == Deployments \subseteq Nat /\ Deployments \cup {0} \subseteq Nat
BY OtaRolloutAssumption

LEMMA CallNumbers == \A c \in Call : c.version \in Nat /\ c.of \in Nat /\ c.pick \in Nat
BY Numbers DEF Call, NoDeployment

LEMMA Newer == ASSUME NEW a \in Nat, NEW b \in Nat, NEW c \in Nat, b <= c, b >= a
               PROVE  c >= a
OBVIOUS

\* A report joins the ones owed, and nothing else of the mirror changes.
LEMMA AppendReport ==
  ASSUME NEW m \in Mirror, NEW s \in OtaState
  PROVE  Append1(m, s) \in Mirror /\ Append1(m, s).attempt = m.attempt
<1> DEFINE owed == IF \E i \in DOMAIN m.reports : m.reports[i] = s
                   THEN m.reports ELSE Append(m.reports, s)
<1>1. owed \in Seq(OtaState)
  BY DEF Mirror
<1>2. Append1(m, s) = [m EXCEPT !.state = s, !.reports = owed]
  BY DEF Append1
<1> HIDE DEF owed
<1> QED
  BY <1>1, <1>2 DEF Mirror

\* The states the code names are states of the enumeration.
LEMMA States == {"pending", "notified", "downloading", "downloaded", "awaiting_idle",
                 "installing", "installed", "failed"} \subseteq OtaState
BY DEF OtaState

Server == /\ plan \in [Deployments -> {"none", "pending", "active", "cancelled"}]
          /\ job \in [Deployments -> {"none", "due", "flip", "fan out", "done"}]
          /\ row \in [Deployments -> OtaState \cup {"none"}]
          /\ known \in Deployments \cup {0}
          /\ handler \in [Handlers -> Call]
          /\ InstalledMeansRuns /\ HeardOfNothingNewer /\ PicksAreNewer

Device == /\ version \in Deployments \cup {0}
          /\ mirror \in Mirror
          /\ phone \in Phone
          /\ sessions \subseteq Deployments
          /\ faults \in 0..MaxFaults
          /\ OfferIsNewer /\ AwaitedIsCurrent /\ ClearsNewer /\ AttemptLeft

LEMMA Halves == IInv <=> Server /\ Device
BY DEF IInv, TypeOK, Server, Device

LEMMA InitIInv == Init => IInv
<1> SUFFICES ASSUME Init PROVE Server /\ Device
  BY Halves
<1> USE OtaRolloutAssumption DEF NoDeployment
<1>1. handler \in [Handlers -> Call]
  BY States DEF Init, NoCall, Call, NoDeployment
<1>2. mirror \in Mirror /\ phone \in Phone
  BY States DEF Init, NoMirror, Resting, NoDeployment, Mirror, Phone
<1>3. Server
  BY <1>1 DEF Init, Server, InstalledMeansRuns, HeardOfNothingNewer, PicksAreNewer, PickFits, NoCall,
     NoDeployment
<1>4. Device
  BY <1>2 DEF Init, Device, OfferIsNewer, AwaitedIsCurrent, ClearsNewer, AttemptLeft, Awaited,
     Doing, Resting, NoDeployment
<1> QED
  BY <1>3, <1>4

\* A row that is set to "installed" only of a version the phone has keeps the promise.
LEMMA RowKept ==
  ASSUME Server, Device, NEW d \in Nat, NEW s \in OtaState, s = "installed" => version >= d,
         UNCHANGED version, row' = row \/ row' = [row EXCEPT ![d] = s]
  PROVE  row' \in [Deployments -> OtaState \cup {"none"}] /\ InstalledMeansRuns'
BY Numbers DEF Server, InstalledMeansRuns

Alone(h) == \A g \in Handlers \ {h} : handler'[g] = handler[g]

\* A check-in keeps its type, whatever step it comes to and whatever it has picked.
LEMMA PickedCall ==
  ASSUME handler \in [Handlers -> Call], NEW h \in Handlers, NEW pc \in {"insert", "answer"},
         NEW p \in Deployments \cup {NoDeployment}
  PROVE  [handler EXCEPT ![h].pc = pc, ![h].pick = p] \in [Handlers -> Call]
<1>1. [handler[h] EXCEPT !.pc = pc, !.pick = p] \in Call
  BY DEF Call
<1> QED
  BY <1>1

LEMMA PickedRow ==
  ASSUME handler \in [Handlers -> Call], NEW h \in Handlers, NEW d \in Deployments, NEW s \in OtaState
  PROVE  [handler EXCEPT ![h].pc = "settle", ![h].pick = d, ![h].state = s] \in [Handlers -> Call]
<1>1. [handler[h] EXCEPT !.pc = "settle", !.pick = d, !.state = s] \in Call
  BY DEF Call
<1> QED
  BY <1>1

LEMMA PickSettled ==
  ASSUME handler \in [Handlers -> Call], NEW h \in Handlers, InsertRow(h) \/ Settle(h),
         handler[h].pick \in Deployments
  PROVE  /\ handler' \in [Handlers -> Call] /\ Alone(h)
         /\ handler'[h].version = handler[h].version /\ handler'[h].pc = "answer"
         /\ \/ handler'[h].pick = NoDeployment
            \/ handler'[h].pick = handler[h].pick /\ ~(handler[h].version >= handler[h].pick)
<1> DEFINE d == handler[h].pick
       Picked(p) == handler' = [handler EXCEPT ![h].pc = "answer", ![h].pick = p]
<1>1. Picked(NoDeployment) \/ (Picked(d) /\ ~(handler[h].version >= d))
  <2>1. CASE InsertRow(h)
    BY <2>1 DEF InsertRow
  <2>2. CASE Settle(h)
    BY <2>2 DEF Settle
  <2> QED
    BY <2>1, <2>2
<1>2. ASSUME NEW p \in Deployments \cup {NoDeployment}, Picked(p)
      PROVE  /\ handler' \in [Handlers -> Call] /\ Alone(h)
             /\ handler'[h].pc = "answer" /\ handler'[h].pick = p
             /\ handler'[h].version = handler[h].version
  <2>1. handler' \in [Handlers -> Call]
    BY <1>2, PickedCall
  <2>2. handler'[h] = [handler[h] EXCEPT !.pc = "answer", !.pick = p] /\ handler[h] \in Call /\ Alone(h)
    BY <1>2 DEF Alone
  <2> QED
    BY <2>1, <2>2 DEF Call
<1> HIDE DEF Picked
<1> QED
  BY <1>1, <1>2

\* Where each step leaves its check-in: with the version that sent it, and with a
\* deployment in hand only while that is newer.
LEMMA Moves ==
  ASSUME handler \in [Handlers -> Call], PicksAreNewer, row \in [Deployments -> OtaState \cup {"none"}],
         NEW h \in Handlers, Handle(h), ~Answer(h)
  PROVE  /\ handler' \in [Handlers -> Call] /\ Alone(h)
         /\ handler'[h].version = handler[h].version /\ handler[h].pc # "idle"
         /\ PickFits(handler'[h])
<1> USE Numbers, CallNumbers DEF NoDeployment
<1>0. PickFits(handler[h])
  BY DEF PicksAreNewer
<1>1. CASE Receive(h)
  <2>1. /\ handler' \in [Handlers -> Call] /\ Alone(h)
        /\ handler'[h].version = handler[h].version /\ handler'[h].pick = handler[h].pick
        /\ handler'[h].pc = "apply" /\ handler[h].pc = "receive"
    BY <1>1 DEF Receive, Call, Alone, At
  <2> QED
    BY <1>0, <2>1 DEF PickFits
<1>2. CASE ApplyOtaReport(h)
  <2>0. Tail(handler[h].reports) \in Seq(OtaState)
    BY <1>2 DEF Call, ApplyOtaReport
  <2>1. /\ handler' \in [Handlers -> Call] /\ Alone(h)
        /\ handler'[h].version = handler[h].version /\ handler'[h].pick = handler[h].pick
        /\ handler'[h].pc = "apply" /\ handler[h].pc = "apply"
    BY <1>2, <2>0 DEF ApplyOtaReport, Call, Alone, At
  <2> QED
    BY <1>0, <2>1 DEF PickFits
<1>3. CASE PickExisting(h)
  <2>1. handler[h].pc = "apply"
    BY <1>3 DEF PickExisting, At
  <2>2. CASE handler' = [handler EXCEPT ![h].pc = "fan"]
    <3>1. /\ handler' \in [Handlers -> Call] /\ Alone(h)
          /\ handler'[h].version = handler[h].version /\ handler'[h].pick = handler[h].pick
          /\ handler'[h].pc = "fan"
      BY <2>2 DEF Call, Alone
    <3> QED
      BY <1>0, <2>1, <3>1 DEF PickFits
  <2>3. ASSUME NEW d \in Newest(Offerable),
               handler' = [handler EXCEPT ![h].pc = "settle", ![h].pick = d, ![h].state = row[d]]
        PROVE  /\ handler' \in [Handlers -> Call] /\ Alone(h)
               /\ handler'[h].version = handler[h].version
               /\ handler'[h].pc = "settle" /\ handler'[h].pick \in Deployments
    <3>1. d \in Deployments /\ row[d] \in OtaState
      BY DEF Newest, Offerable
    <3>2. handler' \in [Handlers -> Call]
      BY <2>3, <3>1, PickedRow
    <3>3. /\ handler'[h].version = handler[h].version /\ handler'[h].pc = "settle"
          /\ handler'[h].pick = d
      BY <2>3 DEF Call
    <3>4. Alone(h)
      BY <2>3 DEF Alone
    <3> QED
      BY <3>1, <3>2, <3>3, <3>4
  <2> QED
    BY <1>3, <2>1, <2>2, <2>3 DEF PickExisting, PickFits
<1>4. CASE PickUnreached(h)
  <2>1. handler[h].pc = "fan"
    BY <1>4 DEF PickUnreached, At
  <2>2. CASE handler' = [handler EXCEPT ![h].pc = "answer"]
    <3>1. /\ handler' \in [Handlers -> Call] /\ Alone(h)
          /\ handler'[h].version = handler[h].version /\ handler'[h].pick = handler[h].pick
          /\ handler'[h].pc = "answer"
      BY <2>2 DEF Call, Alone
    <3> QED
      BY <1>0, <2>1, <3>1 DEF PickFits
  <2>3. ASSUME NEW d \in Newest(Unreached),
               handler' = [handler EXCEPT ![h].pc = "insert", ![h].pick = d]
        PROVE  /\ handler' \in [Handlers -> Call] /\ Alone(h)
               /\ handler'[h].version = handler[h].version
               /\ handler'[h].pc = "insert" /\ handler'[h].pick \in Deployments
    <3>1. d \in Deployments
      BY DEF Newest, Unreached
    <3>2. handler' \in [Handlers -> Call]
      BY <2>3, <3>1, PickedCall
    <3>3. /\ handler'[h].version = handler[h].version /\ handler'[h].pc = "insert"
          /\ handler'[h].pick = d
      BY <2>3 DEF Call
    <3>4. Alone(h)
      BY <2>3 DEF Alone
    <3> QED
      BY <3>1, <3>2, <3>3, <3>4
  <2> QED
    BY <1>4, <2>1, <2>2, <2>3 DEF PickUnreached, PickFits
<1>5. CASE InsertRow(h) \/ Settle(h)
  <2>0. handler[h].pc \in {"insert", "settle"} /\ handler[h].pick \in Deployments
    BY <1>0, <1>5 DEF InsertRow, Settle, At, PickFits
  <2>1. /\ handler' \in [Handlers -> Call] /\ Alone(h)
        /\ handler'[h].version = handler[h].version
        /\ \/ handler'[h].pick = NoDeployment
           \/ handler'[h].pick = handler[h].pick /\ ~(handler[h].version >= handler[h].pick)
        /\ handler'[h].pc = "answer"
    BY <1>5, <2>0, PickSettled
  <2>2. handler[h].pick \in Nat /\ handler[h].version \in Nat
    BY <2>0 DEF Call
  <2> QED
    BY <2>0, <2>1, <2>2 DEF PickFits
<1> QED
  BY <1>1, <1>2, <1>3, <1>4, <1>5 DEF Handle

\* The administrator and the activation job touch no check-in, and record
\* "installed" of a version the server has heard of.
LEMMA ActivationStep ==
  ASSUME IInv, NEW d \in Deployments,
         CreateDeployment(d) \/ CancelDeployment(d) \/ Activate(d)
  PROVE  IInv'
<1> SUFFICES Server' /\ Device'
  BY DEF IInv, TypeOK, Server, Device
<1> USE Numbers, CallNumbers DEF NoDeployment
<1>0. Server /\ Device
  BY Halves
<1>1. UNCHANGED <<known, handler, device, phone, faults>>
  BY DEF CreateDeployment, CancelDeployment, Activate, ReadDeployment, FlipToActive, FanOut
<1>2. Device'
  BY <1>0, <1>1 DEF Device, device, OfferIsNewer, AwaitedIsCurrent, ClearsNewer, AttemptLeft,
     Awaited, Doing
<1>3. /\ plan' \in [Deployments -> {"none", "pending", "active", "cancelled"}]
      /\ job' \in [Deployments -> {"none", "due", "flip", "fan out", "done"}]
  BY <1>0 DEF Server, CreateDeployment, CancelDeployment, Activate, ReadDeployment,
     FlipToActive, FanOut
<1>4. row' \in [Deployments -> OtaState \cup {"none"}] /\ InstalledMeansRuns'
  <2>0. UNCHANGED version
    BY <1>1 DEF device
  <2>1. CASE UNCHANGED row
    BY <1>0, <2>0, <2>1 DEF Server, InstalledMeansRuns
  <2>2. CASE FanOut(d)
    <3>1. \E s \in {"installed", "pending"} :
            (s = "installed" => known >= d) /\ Insert(d, s)
      BY <2>2 DEF FanOut
    <3>2. known \in Nat /\ known <= version /\ version \in Nat /\ d \in Nat
      BY <1>0 DEF Server, Device, HeardOfNothingNewer
    <3>3. \A s : (s = "installed" => known >= d) => (s = "installed" => version >= d)
      BY <3>2, Newer
    <3> QED
      BY <1>0, <2>0, <3>1, <3>2, <3>3, RowKept, States DEF Insert
  <2> QED
    BY <2>1, <2>2 DEF CreateDeployment, CancelDeployment, Activate, ReadDeployment, FlipToActive
<1>5. HeardOfNothingNewer' /\ PicksAreNewer'
  BY <1>0, <1>1 DEF Server, HeardOfNothingNewer, PicksAreNewer, device
<1> QED
  BY <1>0, <1>1, <1>2, <1>3, <1>4, <1>5 DEF Server

\* The server's half of a check-in.  Whatever else has run since, it offers what
\* is newer than the version that sent it, and believes no report without proof.
LEMMA HandlerStep ==
  ASSUME IInv, NEW h \in Handlers, Handle(h)
  PROVE  IInv'
<1> SUFFICES Server' /\ Device'
  BY DEF IInv, TypeOK, Server, Device
<1> USE Numbers, CallNumbers DEF NoDeployment
<1>0. Server /\ Device
  BY Halves
<1>1. UNCHANGED <<plan, job, device, faults>>
  BY DEF Handle, Receive, ApplyOtaReport, PickExisting, PickUnreached, InsertRow, Settle, Answer,
     server
<1>2. row' \in [Deployments -> OtaState \cup {"none"}] /\ InstalledMeansRuns'
  <2>0. UNCHANGED version
    BY <1>1 DEF device
  <2>1. CASE UNCHANGED row
    BY <1>0, <2>0, <2>1 DEF Server, InstalledMeansRuns
  <2>2. ASSUME ~UNCHANGED row
        PROVE  \E d \in Nat, s \in OtaState :
            (s = "installed" => handler[h].version >= d) /\ (row' = row \/ row' = [row EXCEPT ![d] = s])
    <3>1. CASE ApplyOtaReport(h)
      <4> DEFINE of == handler[h].of
                 s == Effective(handler[h].version, of, Head(handler[h].reports))
      <4>1. /\ handler[h].version \in Nat /\ of \in Nat
            /\ Head(handler[h].reports) \in OtaState
        <5>1. handler[h] \in Call /\ handler[h].reports # <<>>
          BY <1>0, <3>1 DEF Server, ApplyOtaReport
        <5>2. handler[h].reports \in Seq(OtaState)
          BY <5>1 DEF Call
        <5> QED
          BY <5>1, <5>2
      <4>2. s \in OtaState /\ (s = "installed" => handler[h].version >= of)
        BY <4>1, States DEF Effective
      <4>3. row' = row \/ row' = [row EXCEPT ![of] = s]
        BY <3>1 DEF ApplyOtaReport
      <4> HIDE DEF of, s
      <4> QED
        BY <4>1, <4>2, <4>3
    <3>2. CASE InsertRow(h) \/ Settle(h)
      <4>1. handler[h].pick \in Nat
        BY <1>0 DEF Server, Call, NoDeployment
      <4> QED
        BY <3>2, <4>1, States DEF InsertRow, Insert, Settle
    <3> QED
      BY <2>2, <3>1, <3>2 DEF Handle, Receive, PickExisting, PickUnreached, Answer, server
  <2>3. handler[h].version \in Nat /\ handler[h].version <= version /\ version \in Nat
    BY <1>0 DEF Server, Device, Call, HeardOfNothingNewer
  <2>4. CASE ~UNCHANGED row
    <3>1. PICK d \in Nat, s \in OtaState :
            (s = "installed" => handler[h].version >= d) /\ (row' = row \/ row' = [row EXCEPT ![d] = s])
      BY <2>2, <2>4
    <3>2. s = "installed" => version >= d
      BY <2>3, <3>1, Newer
    <3> QED
      BY <1>0, <2>0, <3>1, <3>2, RowKept
  <2> QED
    BY <2>1, <2>4
<1>3. known' \in Deployments \cup {0} /\ known' \in {known, handler[h].version}
  <2>1. known' \in {known, handler[h].version}
    BY DEF Handle, Receive, ApplyOtaReport, PickExisting, PickUnreached, InsertRow, Settle, Answer,
       server
  <2> QED
    BY <1>0, <2>1 DEF Server, Call
<1>4. CASE ~Answer(h)
  <2>1. /\ handler' \in [Handlers -> Call] /\ Alone(h)
        /\ handler'[h].version = handler[h].version
        /\ PickFits(handler'[h])
    BY <1>0, <1>4, Moves DEF Server
  <2>2. UNCHANGED phone /\ UNCHANGED <<version, mirror, sessions>>
    BY <1>1, <1>4 DEF Handle, Receive, ApplyOtaReport, PickExisting, PickUnreached, InsertRow,
       Settle, device
  <2>3. PicksAreNewer'
    BY <1>0, <2>1 DEF Server, PicksAreNewer, Alone
  <2>4. HeardOfNothingNewer'
    BY <1>0, <1>3, <2>1, <2>2 DEF Server, HeardOfNothingNewer, Alone
  <2>5. AwaitedIsCurrent'
    BY <1>0, <2>1, <2>2 DEF Device, AwaitedIsCurrent, Awaited, Alone
  <2>6. Device'
    BY <1>0, <1>1, <2>2, <2>5 DEF Device, OfferIsNewer, ClearsNewer, AttemptLeft, Doing
  <2> QED
    BY <1>0, <1>1, <1>2, <1>3, <2>1, <2>3, <2>4, <2>6 DEF Server
<1>5. CASE Answer(h)
  <2>1. handler' \in [Handlers -> Call] /\ Alone(h) /\ handler'[h] = NoCall
    <3>1. NoCall \in Call
      BY States DEF NoCall, Call
    <3> QED
      BY <1>0, <1>5, <3>1 DEF Server, Answer, Alone
  <2>2. UNCHANGED <<version, mirror, sessions>>
    BY <1>1 DEF device
  <2>3. PicksAreNewer'
    <3>1. PickFits(NoCall)
      BY DEF PickFits, NoCall
    <3> QED
      BY <1>0, <2>1, <3>1 DEF Server, PicksAreNewer, Alone
  <2>4. HeardOfNothingNewer'
    <3>1. NoCall.version = 0 /\ 0 <= version
      BY <1>0 DEF NoCall, Device
    <3> QED
      BY <1>0, <1>3, <2>1, <2>2, <3>1 DEF Server, HeardOfNothingNewer, Alone
  <2>5. CASE ~Awaited(h)
    <3>1. UNCHANGED phone
      BY <1>5, <2>5 DEF Answer
    <3>2. AwaitedIsCurrent'
      BY <1>0, <2>1, <2>2, <2>5, <3>1 DEF Device, AwaitedIsCurrent, Awaited, Alone
    <3>3. Device'
      BY <1>0, <1>1, <2>2, <3>1, <3>2 DEF Device, OfferIsNewer, ClearsNewer, AttemptLeft, Doing
    <3> QED
      BY <1>0, <1>1, <1>2, <1>3, <2>1, <2>3, <2>4, <3>3 DEF Server
  <2>6. CASE Awaited(h)
    <3>1. phone' = [phone EXCEPT !.pc = "clear", !.call = {}, !.offer = handler[h].pick]
      BY <1>5, <2>6 DEF Answer
    <3>2. /\ handler[h].pick \in Deployments \cup {NoDeployment}
          /\ handler[h].pick = NoDeployment \/ handler[h].pick > version
      BY <1>0, <1>5, <2>6 DEF Server, Device, Call, PicksAreNewer, PickFits, AwaitedIsCurrent, Answer, At
    <3>3. /\ phone' \in Phone
          /\ phone'.pc = "clear" /\ phone'.call = {} /\ phone'.offer = handler[h].pick
      BY <1>0, <3>1, <3>2 DEF Device, Phone
    <3>4. Device'
      BY <1>0, <1>1, <2>2, <3>2, <3>3 DEF Device, OfferIsNewer, ClearsNewer, AttemptLeft, Doing,
         AwaitedIsCurrent, Awaited
    <3> QED
      BY <1>0, <1>1, <1>2, <1>3, <2>1, <2>3, <2>4, <3>4 DEF Server
  <2> QED
    BY <2>5, <2>6
<1> QED
  BY <1>4, <1>5

LEMMA RestingPhone == Resting \in Phone /\ Resting.pc = "idle"
BY DEF Resting, Phone

\* One more attempt, while one is left.
LEMMA Attempted ==
  ASSUME mirror \in Mirror, mirror.attempt < MaxAttempts
  PROVE  [mirror EXCEPT !.attempt = @ + 1] \in Mirror
BY OtaRolloutAssumption DEF Mirror

\* A step of the phone's that goes on with the deployment it has in hand.
Busy == {"track", "gate", "download", "report", "downloaded", "install", "survive", "wipe"}
MovesOn(pc) ==
  /\ phone' = [phone EXCEPT !.pc = pc]
  /\ pc \in {"track", "gate", "download", "report", "downloaded", "install"} =>
       /\ phone.pc \in {"clear", "track", "gate", "download", "report", "downloaded"}
       /\ phone.pc = "clear" => phone.offer # NoDeployment
  /\ pc \in {"download", "report", "downloaded"} =>
       /\ mirror.attempt < MaxAttempts
       /\ mirror'.attempt = mirror.attempt

\* The phone's own steps.  The server hears of none of them before the next
\* check-in, and none of them changes the version.
LEMMA CheckinStep ==
  ASSUME IInv, Checkin
  PROVE  IInv'
<1> SUFFICES Server' /\ Device'
  BY DEF IInv, TypeOK, Server, Device
<1> USE Numbers DEF NoDeployment
<1>0. Server /\ Device
  BY Halves
<1>1. UNCHANGED <<plan, job, row, known, handler, version, faults>>
  BY DEF Checkin, ClearReports, Track, GiveUp, StartDownload, KeepDownload, StoreDownload,
     ReportDownload, FailDownload, AwaitIdle, StartInstall, CommitInstall, RefuseInstall,
     ReportInstalled, WipeMirror, server, device
<1>2. Server'
  BY <1>0, <1>1 DEF Server, InstalledMeansRuns, HeardOfNothingNewer, PicksAreNewer
<1>3. \A s \in OtaState : Append1(mirror, s) \in Mirror /\ Append1(mirror, s).attempt = mirror.attempt
  BY <1>0, AppendReport DEF Device
<1>4. \/ phone' = Resting
      \/ \E pc \in Busy : MovesOn(pc)
  <2>1. CASE ClearReports \/ Track
    BY <1>0, <2>1 DEF ClearReports, Track, Doing, GoTo, MovesOn, Busy
  <2>2. CASE StartDownload \/ KeepDownload
    BY <1>0, <1>3, <2>2, States DEF StartDownload, KeepDownload, Doing, GoTo, Report, TriesLeft, device,
       MovesOn, Busy
  <2>3. CASE StoreDownload
    BY <1>0, <2>3 DEF StoreDownload, Doing, GoTo, Device, AttemptLeft, Mirror, MovesOn, Busy
  <2>4. CASE ReportDownload
    BY <1>0, <1>3, <2>4, States DEF ReportDownload, Doing, GoTo, Report, Device, AttemptLeft,
       MovesOn, Busy
  <2>5. CASE StartInstall \/ CommitInstall \/ ReportInstalled
    BY <2>5 DEF StartInstall, CommitInstall, ReportInstalled, Doing, GoTo, MovesOn, Busy
  <2>6. CASE GiveUp \/ FailDownload \/ AwaitIdle \/ RefuseInstall \/ WipeMirror
    BY <2>6 DEF GiveUp, FailDownload, AwaitIdle, RefuseInstall, WipeMirror
  <2> QED
    BY <2>1, <2>2, <2>3, <2>4, <2>5, <2>6 DEF Checkin
<1>5. mirror' \in Mirror
  <2>1. CASE ClearReports
    <3>1. <<>> \in Seq(OtaState) /\ mirror' = [mirror EXCEPT !.reports = <<>>]
      BY <2>1 DEF ClearReports
    <3> QED
      BY <1>0, <3>1 DEF Device, Mirror
  <2>2. CASE Track
    <3>1. phone.offer \in Deployments \cup {NoDeployment}
      BY <1>0 DEF Device, Phone
    <3>2. <<>> \in Seq(OtaState) /\ 0 \in 0..MaxAttempts /\ "pending" \in OtaState
      BY States, OtaRolloutAssumption
    <3>3. NoMirror \in Mirror
      BY <3>2 DEF NoMirror, Mirror
    <3>4. Fresh(phone.offer) \in Mirror
      BY <3>1, <3>3 DEF Fresh, Mirror
    <3> QED
      BY <1>0, <2>2, <3>4 DEF Device, Track
  <2>3. CASE GiveUp \/ StartDownload \/ KeepDownload \/ ReportDownload \/ AwaitIdle \/ ReportInstalled
             \/ CommitInstall
    BY <1>0, <1>3, <2>3, States DEF Device, device, Report, GiveUp, StartDownload, KeepDownload,
       ReportDownload, AwaitIdle, ReportInstalled, CommitInstall
  <2>4. CASE StoreDownload
    BY <1>0, <2>4 DEF Device, StoreDownload, Mirror
  <2>5. CASE FailDownload \/ StartInstall
    <3>1. mirror.attempt < MaxAttempts
      BY <1>0, <2>5 DEF Device, AttemptLeft, FailDownload, StartInstall, Doing
    <3>2. [mirror EXCEPT !.attempt = @ + 1] \in Mirror
      BY <1>0, <3>1, Attempted DEF Device
    <3> QED
      BY <2>5, <3>2, AppendReport, States DEF FailDownload, StartInstall
  <2>6. CASE RefuseInstall
    <3>1. [mirror EXCEPT !.file = FALSE] \in Mirror
      BY <1>0 DEF Device, Mirror
    <3> QED
      BY <2>6, <3>1, AppendReport, States DEF RefuseInstall
  <2>7. CASE WipeMirror
    BY <2>7, States, OtaRolloutAssumption DEF WipeMirror, NoMirror, Mirror
  <2> QED
    BY <2>1, <2>2, <2>3, <2>4, <2>5, <2>6, <2>7 DEF Checkin
<1>6. sessions' \subseteq Deployments
  <2>1. CASE CommitInstall
    <3>1. phone.offer \in Deployments \cup {NoDeployment} /\ phone.offer > version /\ version \in Nat
      BY <1>0, <2>1 DEF Device, Phone, CommitInstall, OfferIsNewer, Doing
    <3>2. phone.offer \in Deployments
      BY <3>1
    <3>3. sessions \subseteq Deployments /\ sessions' = sessions \cup {phone.offer}
      BY <1>0, <2>1 DEF Device, CommitInstall
    <3> QED
      BY <3>2, <3>3
  <2>2. CASE ~CommitInstall
    BY <1>0, <2>2 DEF Device, device, Checkin, ClearReports, Track, GiveUp, StartDownload,
       KeepDownload, StoreDownload, ReportDownload, FailDownload, AwaitIdle, StartInstall,
       RefuseInstall, ReportInstalled, WipeMirror
  <2> QED
    BY <2>1, <2>2
<1>7. CASE phone' = Resting
  <2>1. phone' \in Phone /\ phone'.pc = "idle"
    BY <1>7, RestingPhone
  <2>2. OfferIsNewer' /\ ClearsNewer' /\ AttemptLeft' /\ AwaitedIsCurrent'
    BY <2>1 DEF OfferIsNewer, ClearsNewer, AttemptLeft, AwaitedIsCurrent, Awaited, Doing
  <2> QED
    BY <1>0, <1>1, <1>2, <1>5, <1>6, <2>1, <2>2 DEF Device
<1>8. CASE phone' # Resting
  <2>1. PICK pc \in Busy : MovesOn(pc)
    BY <1>4, <1>8
  <2>2. phone' \in Phone /\ phone'.pc = pc /\ phone'.offer = phone.offer
    <3>1. phone \in Phone
      BY <1>0 DEF Device
    <3>2. phone' = [phone EXCEPT !.pc = pc]
      BY <2>1 DEF MovesOn
    <3> QED
      BY <3>1, <3>2 DEF Phone, Busy
  <2>3. OfferIsNewer'
    BY <1>0, <1>1, <2>1, <2>2 DEF Device, OfferIsNewer, ClearsNewer, Doing, MovesOn
  <2>4. AttemptLeft'
    BY <2>1, <2>2 DEF AttemptLeft, MovesOn
  <2> QED
    BY <1>0, <1>1, <1>2, <1>5, <1>6, <2>2, <2>3, <2>4 DEF Device, AwaitedIsCurrent, ClearsNewer,
       Awaited, Doing, Busy
<1> QED
  BY <1>2, <1>7, <1>8

\* The phone at rest owes nobody anything: what is left to check of a step that
\* puts it there.
LEMMA AtRest ==
  ASSUME Server', phone' = Resting, version' \in Deployments \cup {0}, mirror' \in Mirror,
         sessions' \subseteq Deployments, faults' \in 0..MaxFaults
  PROVE  Server' /\ Device'
<1>1. phone' \in Phone /\ phone'.pc = "idle"
  BY RestingPhone
<1> QED
  BY <1>1 DEF Device, OfferIsNewer, ClearsNewer, AttemptLeft, AwaitedIsCurrent, Awaited, Doing

\* A call that got lost leaves the others where they are.
LEMMA AbandonedStep ==
  ASSUME Server, Device, Abandoned, UNCHANGED server, version' \in Nat, version' >= version
  PROVE  Server'
<1> USE Numbers, CallNumbers DEF NoDeployment
<1>1. NoCall \in Call /\ NoCall.version = 0 /\ PickFits(NoCall)
  BY States DEF NoCall, Call, PickFits
<1>2. /\ handler' \in [Handlers -> Call]
      /\ \A g \in Handlers : handler'[g] = handler[g] \/ handler'[g] = NoCall
  BY <1>1 DEF Abandoned, Server
<1>3. \A a \in Nat : a <= version => a <= version'
  BY DEF Device
<1>4. known' \in Nat /\ known' <= version'
  BY <1>3 DEF Server, HeardOfNothingNewer, server
<1>5. HeardOfNothingNewer'
  <2>1. SUFFICES ASSUME NEW g \in Handlers PROVE handler'[g].version <= version'
    BY <1>4 DEF HeardOfNothingNewer
  <2>2. handler[g].version \in Nat /\ handler[g].version <= version
    BY DEF Server, HeardOfNothingNewer
  <2> QED
    BY <1>1, <1>2, <1>3, <2>2
<1>6. PicksAreNewer'
  BY <1>1, <1>2 DEF PicksAreNewer, Server
<1>7. InstalledMeansRuns'
  <2>1. \A d \in Deployments : version >= d => version' >= d
    BY DEF Device
  <2> QED
    BY <2>1 DEF Server, server, InstalledMeansRuns
<1> QED
  BY <1>2, <1>5, <1>6, <1>7 DEF Server, server

\* The check-in the phone begins carries the version it runs.
LEMMA BeginStep ==
  ASSUME IInv, Begin
  PROVE  IInv'
<1> SUFFICES Server' /\ Device'
  BY DEF IInv, TypeOK, Server, Device
<1> USE Numbers, CallNumbers DEF NoDeployment
<1>0. Server /\ Device
  BY Halves
<1> DEFINE new == [NoCall EXCEPT !.pc = "receive", !.version = version,
                                 !.of = mirror.of, !.reports = mirror.reports]
<1>1. PICK h \in Handlers, active \in BOOLEAN :
        /\ handler' = [handler EXCEPT ![h] = new]
        /\ phone' = [Resting EXCEPT !.pc = "await", !.call = {h}, !.active = active]
        /\ UNCHANGED <<server, device, faults>>
  BY DEF Begin
<1>2. new \in Call /\ new.version = version /\ PickFits(new)
  <2>1. version \in Deployments \cup {0} /\ mirror \in Mirror
    BY <1>0 DEF Device
  <2> QED
    BY <2>1, States DEF NoCall, Call, Mirror, PickFits
<1> HIDE DEF new
<1>3. handler' \in [Handlers -> Call] /\ handler'[h] = new /\ Alone(h)
  BY <1>0, <1>1, <1>2 DEF Server, Alone
<1>4. HeardOfNothingNewer'
  <2>1. version' = version /\ known' = known /\ version <= version
    BY <1>0, <1>1 DEF server, device, Device
  <2> QED
    BY <1>0, <1>2, <1>3, <2>1 DEF Server, HeardOfNothingNewer, Alone
<1>5. PicksAreNewer'
  BY <1>0, <1>2, <1>3 DEF Server, PicksAreNewer, Alone
<1>6. Server'
  BY <1>0, <1>1, <1>3, <1>4, <1>5 DEF Server, server, device, InstalledMeansRuns
<1>7. phone' \in Phone /\ phone'.pc = "await" /\ phone'.call = {h}
  BY <1>1 DEF Resting, Phone
<1>8. AwaitedIsCurrent'
  BY <1>1, <1>2, <1>3, <1>7 DEF AwaitedIsCurrent, Awaited, device
<1>9. Device'
  BY <1>0, <1>1, <1>7, <1>8 DEF Device, device, OfferIsNewer, ClearsNewer, AttemptLeft, Doing
<1> QED
  BY <1>6, <1>9

\* Faults, and what Android does with an install.
LEMMA AndroidStep ==
  ASSUME IInv, ConnectionBreaks \/ AppDies \/ FinishInstall \/ RejectInstall
  PROVE  IInv'
<1> SUFFICES Server' /\ Device'
  BY DEF IInv, TypeOK, Server, Device
<1> USE Numbers DEF NoDeployment
<1>0. Server /\ Device
  BY Halves
<1>1. version \in Nat /\ version >= version
  BY <1>0 DEF Device
<1>2. CASE ConnectionBreaks \/ AppDies
  <2>1. faults' \in 0..MaxFaults
    BY <1>0, <1>2, OtaRolloutAssumption DEF Device, ConnectionBreaks, AppDies
  <2>2. UNCHANGED <<server, device>> /\ Abandoned /\ phone' = Resting
    BY <1>2 DEF ConnectionBreaks, AppDies
  <2>3. Server'
    BY <1>0, <1>1, <2>2, AbandonedStep DEF device
  <2> QED
    BY <1>0, <2>1, <2>2, <2>3, AtRest DEF Device, device
<1>3. CASE FinishInstall
  <2>1. PICK v \in sessions :
          /\ v >= version /\ version' = v /\ sessions' = sessions \ {v}
          /\ Abandoned /\ phone' = Resting /\ UNCHANGED <<server, mirror, faults>>
    BY <1>3 DEF FinishInstall
  <2>2. v \in Deployments /\ version' \in Nat /\ version' >= version
    BY <1>0, <2>1 DEF Device
  <2>3. Server'
    BY <1>0, <2>1, <2>2, AbandonedStep
  <2> QED
    BY <1>0, <2>1, <2>2, <2>3, AtRest DEF Device
<1>4. CASE RejectInstall
  <2>1. PICK v \in sessions :
          /\ v >= version => faults < MaxFaults
          /\ faults' = IF v >= version THEN faults + 1 ELSE faults
          /\ sessions' = sessions \ {v}
          /\ UNCHANGED <<server, handler, version, mirror, phone>>
    BY <1>4 DEF RejectInstall
  <2>2. faults' \in 0..MaxFaults /\ sessions' \subseteq Deployments
    BY <1>0, <2>1, OtaRolloutAssumption DEF Device
  <2>3. Server'
    BY <1>0, <2>1 DEF Server, server, InstalledMeansRuns, HeardOfNothingNewer, PicksAreNewer
  <2> QED
    BY <1>0, <2>1, <2>2, <2>3 DEF Device, OfferIsNewer, ClearsNewer, AttemptLeft,
       AwaitedIsCurrent, Awaited, Doing
<1> QED
  BY <1>2, <1>3, <1>4

LEMMA StepIInv == IInv /\ [Next]_vars => IInv'
<1> SUFFICES ASSUME IInv, [Next]_vars PROVE IInv'
  OBVIOUS
<1>1. CASE UNCHANGED vars
  BY <1>1 DEF IInv, TypeOK, InstalledMeansRuns, OfferIsNewer, HeardOfNothingNewer,
     AwaitedIsCurrent, PicksAreNewer, ClearsNewer, AttemptLeft, Awaited, Doing, vars, server, device
<1>2. CASE Next
  BY <1>2, ActivationStep, HandlerStep, CheckinStep, BeginStep, AndroidStep DEF Next
<1> QED
  BY <1>1, <1>2

\* In every reachable state, whatever the deployments and however many faults.
THEOREM Invariant == Spec => []IInv
BY InitIInv, StepIInv, PTL DEF Spec

\* The state of the rollout stays well formed; in particular the phone begins no
\* more than MaxAttempts attempts at a deployment (device-checkin.ts 609-776).
THEOREM TypeCorrect == Spec => []TypeOK
<1>1. IInv => TypeOK
  BY DEF IInv
<1> QED
  BY <1>1, Invariant, PTL

\* The server's "installed" is true: applyOtaReport's anti-skew holds for reports
\* that are late, repeated or mistaken (fleet.service.ts 1121-1179).
THEOREM InstalledIsTrue == Spec => []InstalledMeansRuns
<1>1. IInv => InstalledMeansRuns
  BY DEF IInv
<1> QED
  BY <1>1, Invariant, PTL

\* The phone never works at a version it runs or has passed
\* (computePendingDeployment, fleet.service.ts 1181-1335).
THEOREM NeverBackwards == Spec => []OfferIsNewer
<1>1. IInv => OfferIsNewer
  BY DEF IInv
<1> QED
  BY <1>1, Invariant, PTL
=============================================================================
