----------------------------- MODULE OtaRollout -----------------------------
(***************************************************************************)
(* How a new version of the app reaches one phone: the deployments an      *)
(* administrator creates and cancels, the job that activates them, the     *)
(* phone's row in device_ota_status for each of them, and the phone, which *)
(* checks in, is offered a version, downloads it and has Android install   *)
(* it, keeping its progress (the "mirror") and the reports it owes in      *)
(* SecureStore.                                                            *)
(*                                                                         *)
(* A check-in is a handler of several statements, and none of them share a *)
(* transaction: other handlers run in between.  The phone has one check-in *)
(* at a time (checkinInFlight), but one whose connection broke goes on at  *)
(* the server, next to the one the phone sends after it.                   *)
(*                                                                         *)
(* A deployment is named by the version_code of its release, and every     *)
(* deployment targets the phone.  Left out: tokens and registration,       *)
(* remote commands, Tailscale, push messages, the signed APK address, and  *)
(* the downloads the phone keeps for three days.                           *)
(***************************************************************************)
EXTENDS Integers, Sequences, FiniteSets

CONSTANTS
  Deployments,   \* the version codes deployed
  Forced,        \* the deployments with forceNow
  Handlers,      \* the check-in handlers that may run at once at the server
  MaxAttempts,   \* MAX_INSTALL_ATTEMPTS
  MaxFaults      \* bound: how many connections break under a check-in, how often
                 \* the app is killed and how many installs Android does not finish

ASSUME OtaRolloutAssumption ==
  /\ Deployments \subseteq Nat \ {0}
  /\ Forced \subseteq Deployments
  /\ MaxAttempts \in Nat \ {0}
  /\ MaxFaults \in Nat

VARIABLES
  plan,      \* ota_deployments.status, "none" before the deployment exists
  job,       \* where the activation of each deployment is
  row,       \* device_ota_status.state of the phone, "none" without a row
  known,     \* devices.version_code: the version the server has heard of
  handler,   \* the check-ins in progress at the server
  version,   \* the version_code of the app that is installed
  mirror,    \* the phone's OTA_MIRROR_KEY
  phone,     \* what the running app is doing (lost when it is killed)
  sessions,  \* the versions whose install Android has accepted and not finished
  faults     \* how many faults there have been

server == <<plan, job, row, known>>
device == <<version, mirror, sessions>>
vars == <<server, handler, device, phone, faults>>

OtaState == {"pending", "notified", "downloading", "downloaded",
             "awaiting_idle", "installing", "installed", "failed"}
Terminal == {"installed", "failed"}
NoDeployment == 0

Newest(s) == {d \in s : \A e \in s : e <= d}

NoMirror == [of |-> NoDeployment, state |-> "pending", attempt |-> 0,
             file |-> FALSE, reports |-> <<>>]
Fresh(d) == [NoMirror EXCEPT !.of = d]
NoCall == [pc |-> "idle", version |-> 0, of |-> NoDeployment, reports |-> <<>>,
           pick |-> NoDeployment, state |-> "pending"]
Resting == [pc |-> "idle", call |-> {}, active |-> FALSE, offer |-> NoDeployment]

Init == /\ plan = [d \in Deployments |-> "none"]
        /\ job = [d \in Deployments |-> "none"]
        /\ row = [d \in Deployments |-> "none"]
        /\ known = 0
        /\ handler = [h \in Handlers |-> NoCall]
        /\ version = 0
        /\ mirror = NoMirror
        /\ phone = Resting
        /\ sessions = {}
        /\ faults = 0
-----------------------------------------------------------------------------
(* The administrator and the activation job.                               *)

\* createDeployment: active at once, or pending until its delayed job runs.
\* Either way activateDeployment follows.
CreateDeployment(d) ==
  /\ plan[d] = "none"
  /\ \E s \in {"active", "pending"} : plan' = [plan EXCEPT ![d] = s]
  /\ job' = [job EXCEPT ![d] = "due"]
  /\ UNCHANGED <<row, known, handler, device, phone, faults>>

CancelDeployment(d) ==
  /\ plan[d] \in {"pending", "active"}
  /\ plan' = [plan EXCEPT ![d] = "cancelled"]
  /\ UNCHANGED <<job, row, known, handler, device, phone, faults>>

\* activateDeployment reads the status, ...
ReadDeployment(d) ==
  /\ job[d] = "due"
  /\ job' = [job EXCEPT ![d] = IF plan[d] = "cancelled" THEN "done" ELSE "flip"]
  /\ UNCHANGED <<plan, row, known, handler, device, phone, faults>>

\* ... sets it to active, whatever it has become, ...
FlipToActive(d) ==
  /\ job[d] = "flip"
  /\ plan' = [plan EXCEPT ![d] = "active"]
  /\ job' = [job EXCEPT ![d] = "fan out"]
  /\ UNCHANGED <<row, known, handler, device, phone, faults>>

\* ... and inserts the phone's row, ON CONFLICT DO NOTHING.
Insert(d, s) == row' = IF row[d] = "none" THEN [row EXCEPT ![d] = s] ELSE row

FanOut(d) ==
  /\ job[d] = "fan out"
  /\ Insert(d, IF known >= d THEN "installed" ELSE "pending")
  /\ job' = [job EXCEPT ![d] = "done"]
  /\ UNCHANGED <<plan, known, handler, device, phone, faults>>
-----------------------------------------------------------------------------
(* A check-in at the server.                                               *)

At(h, pc) == handler[h].pc = pc
Awaited(h) == phone.pc = "await" /\ h \in phone.call

\* The token is checked and the device's columns are written.
Receive(h) ==
  /\ At(h, "receive")
  /\ known' = handler[h].version
  /\ handler' = [handler EXCEPT ![h].pc = "apply"]
  /\ UNCHANGED <<plan, job, row, device, phone, faults>>

\* (mutant) The report is believed.
Believed(v, d, s) == s

\* applyOtaReport's anti-skew: "installed" counts on proof of the version only.
Effective(v, d, s) == IF s = "installed" /\ v < d THEN "installing" ELSE s

ApplyOtaReport(h) ==
  /\ At(h, "apply")
  /\ handler[h].reports # <<>>
  /\ LET d == handler[h].of IN
     row' = IF row[d] = "none" THEN row
            ELSE [row EXCEPT ![d] = Effective(handler[h].version, d, Head(handler[h].reports))]
  /\ handler' = [handler EXCEPT ![h].reports = Tail(@)]
  /\ UNCHANGED <<plan, job, known, device, phone, faults>>

\* (mutant) A row that was offered once is not offered again.
OfferableOnce == {d \in Deployments : row[d] = "pending" /\ plan[d] = "active"}

Offerable == {d \in Deployments : row[d] \notin Terminal \cup {"none"} /\ plan[d] = "active"}

\* computePendingDeployment: the newest of the phone's unfinished rows, ...
PickExisting(h) ==
  /\ At(h, "apply")
  /\ handler[h].reports = <<>>
  /\ \/ /\ Offerable = {}
        /\ handler' = [handler EXCEPT ![h].pc = "fan"]
     \/ \E d \in Newest(Offerable) :
          handler' = [handler EXCEPT ![h].pc = "settle", ![h].pick = d, ![h].state = row[d]]
  /\ UNCHANGED <<server, device, phone, faults>>

\* ... or else the newest active deployment that has no row for the phone yet.
Unreached == {d \in Deployments : row[d] = "none" /\ plan[d] = "active"}

PickUnreached(h) ==
  /\ At(h, "fan")
  /\ \/ /\ Unreached = {}
        /\ handler' = [handler EXCEPT ![h].pc = "answer"]
     \/ \E d \in Newest(Unreached) :
          handler' = [handler EXCEPT ![h].pc = "insert", ![h].pick = d]
  /\ UNCHANGED <<server, device, phone, faults>>

InsertRow(h) ==
  LET d == handler[h].pick
      upToDate == handler[h].version >= d IN
  /\ At(h, "insert")
  /\ Insert(d, IF upToDate THEN "installed" ELSE "notified")
  /\ handler' = [handler EXCEPT ![h].pc = "answer",
                                ![h].pick = IF upToDate \/ row[d] # "none" THEN NoDeployment ELSE d]
  /\ UNCHANGED <<plan, job, known, device, phone, faults>>

\* (mutant) An unfinished row is offered whatever the phone runs.
SettleUnguarded(h) ==
  LET d == handler[h].pick IN
  /\ At(h, "settle")
  /\ row' = IF handler[h].state = "pending" THEN [row EXCEPT ![d] = "notified"] ELSE row
  /\ handler' = [handler EXCEPT ![h].pc = "answer"]
  /\ UNCHANGED <<plan, job, known, device, phone, faults>>

\* The downgrade guard, and pending becomes notified by the state read above.
Settle(h) ==
  LET d == handler[h].pick
      upToDate == handler[h].version >= d IN
  /\ At(h, "settle")
  /\ row' = CASE upToDate                      -> [row EXCEPT ![d] = "installed"]
              [] handler[h].state = "pending"  -> [row EXCEPT ![d] = "notified"]
              [] OTHER                         -> row
  /\ handler' = [handler EXCEPT ![h].pc = "answer",
                                ![h].pick = IF upToDate THEN NoDeployment ELSE d]
  /\ UNCHANGED <<plan, job, known, device, phone, faults>>

\* The answer reaches the phone if it is still waiting for it.
Answer(h) ==
  /\ At(h, "answer")
  /\ phone' = IF Awaited(h)
              THEN [phone EXCEPT !.pc = "clear", !.call = {}, !.offer = handler[h].pick]
              ELSE phone
  /\ handler' = [handler EXCEPT ![h] = NoCall]
  /\ UNCHANGED <<server, device, faults>>
-----------------------------------------------------------------------------
(* A check-in on the phone.                                                *)

Doing(pc) == phone.pc = pc
GoTo(pc) == phone' = [phone EXCEPT !.pc = pc]

\* appendOtaReport: one report for each state, in the order of their first.
Append1(m, s) == [m EXCEPT !.state = s,
                           !.reports = IF \E i \in DOMAIN @ : @[i] = s THEN @ ELSE Append(@, s)]
Report(s) == mirror' = Append1(mirror, s)

\* runDeviceCheckin up to its POST: what it sends, it has read before, and whether
\* the phone's database holds an active trip as well.
Begin == LET h == CHOOSE g \in Handlers : At(g, "idle") IN \E active \in BOOLEAN :
  /\ Doing("idle")
  /\ \E g \in Handlers : At(g, "idle")
  /\ handler' = [handler EXCEPT ![h] = [NoCall EXCEPT !.pc = "receive", !.version = version,
                                                      !.of = mirror.of, !.reports = mirror.reports]]
  /\ phone' = [Resting EXCEPT !.pc = "await", !.call = {h}, !.active = active]
  /\ UNCHANGED <<server, device, faults>>

\* A call nobody waits for any more either never got to the server or goes on.
Abandoned == handler' \in {handler} \cup
               {[handler EXCEPT ![h] = NoCall] : h \in {g \in phone.call : At(g, "receive")}}

ConnectionBreaks == /\ Doing("await")
                    /\ faults < MaxFaults
                    /\ faults' = faults + 1
                    /\ Abandoned
                    /\ phone' = Resting
                    /\ UNCHANGED <<server, device>>

\* What was delivered is cleared, and the offer, if there is one, looked at.
ClearReports == /\ Doing("clear")
                /\ mirror' = [mirror EXCEPT !.reports = <<>>]
                /\ IF phone.offer = NoDeployment THEN phone' = Resting ELSE GoTo("track")
                /\ UNCHANGED <<server, handler, version, sessions, faults>>

\* handlePendingDeployment.  Its first branch, the phone being up to date, is
\* never taken: see OfferIsNewer.
Track == /\ Doing("track")
         /\ mirror' = IF mirror.of = phone.offer THEN mirror ELSE Fresh(phone.offer)
         /\ GoTo("gate")
         /\ UNCHANGED <<server, handler, version, sessions, faults>>

TriesLeft == mirror.attempt < MaxAttempts
Downloads == ~mirror.file \/ mirror.state \in {"pending", "notified"}

GiveUp == /\ Doing("gate")
          /\ ~TriesLeft
          /\ IF mirror.state = "failed" THEN UNCHANGED mirror ELSE Report("failed")
          /\ phone' = Resting
          /\ UNCHANGED <<server, handler, version, sessions, faults>>

StartDownload == /\ Doing("gate")
                 /\ TriesLeft /\ Downloads
                 /\ Report("downloading")
                 /\ GoTo("download")
                 /\ UNCHANGED <<server, handler, version, sessions, faults>>

KeepDownload == /\ Doing("gate")
                /\ TriesLeft /\ ~Downloads
                /\ GoTo("downloaded")
                /\ UNCHANGED <<server, handler, device, faults>>

StoreDownload == /\ Doing("download")
                 /\ mirror' = [mirror EXCEPT !.file = TRUE]
                 /\ GoTo("report")
                 /\ UNCHANGED <<server, handler, version, sessions, faults>>

ReportDownload == /\ Doing("report")
                  /\ Report("downloaded")
                  /\ GoTo("downloaded")
                  /\ UNCHANGED <<server, handler, version, sessions, faults>>

FailDownload == /\ Doing("download")
                /\ mirror' = Append1([mirror EXCEPT !.attempt = @ + 1], "failed")
                /\ phone' = Resting
                /\ UNCHANGED <<server, handler, version, sessions, faults>>

\* The idle gate, on the flag read before the POST.
Deferred == phone.active /\ phone.offer \notin Forced

AwaitIdle == /\ Doing("downloaded")
             /\ Deferred
             /\ Report("awaiting_idle")
             /\ phone' = Resting
             /\ UNCHANGED <<server, handler, version, sessions, faults>>

StartInstall == /\ Doing("downloaded")
                /\ ~Deferred
                /\ mirror' = Append1([mirror EXCEPT !.attempt = @ + 1], "installing")
                /\ GoTo("install")
                /\ UNCHANGED <<server, handler, version, sessions, faults>>

\* installApkSilent answers once Android has the session, not once it is done:
\* the app goes on, and wipes its mirror, until the install kills it.
CommitInstall == /\ Doing("install")
                 /\ sessions' = sessions \cup {phone.offer}
                 /\ GoTo("survive")
                 /\ UNCHANGED <<server, handler, version, mirror, faults>>

RefuseInstall == /\ Doing("install")
                 /\ mirror' = Append1([mirror EXCEPT !.file = FALSE], "failed")
                 /\ phone' = Resting
                 /\ UNCHANGED <<server, handler, version, sessions, faults>>

ReportInstalled == /\ Doing("survive")
                   /\ Report("installed")
                   /\ GoTo("wipe")
                   /\ UNCHANGED <<server, handler, version, sessions, faults>>

WipeMirror == /\ Doing("wipe")
              /\ mirror' = NoMirror
              /\ phone' = Resting
              /\ UNCHANGED <<server, handler, version, sessions, faults>>
-----------------------------------------------------------------------------
(* Around it.                                                              *)

\* Android finishes an install by replacing the app, which kills it.
FinishInstall == \E v \in sessions :
  /\ v >= version
  /\ version' = v
  /\ sessions' = sessions \ {v}
  /\ Abandoned
  /\ phone' = Resting
  /\ UNCHANGED <<server, mirror, faults>>

\* Or it does not: no space, a signature, a downgrade.  Nobody tells the app.
RejectInstall == \E v \in sessions :
  /\ v >= version => faults < MaxFaults
  /\ faults' = IF v >= version THEN faults + 1 ELSE faults
  /\ sessions' = sessions \ {v}
  /\ UNCHANGED <<server, handler, version, mirror, phone>>

AppDies == /\ ~Doing("idle")
           /\ faults < MaxFaults
           /\ faults' = faults + 1
           /\ Abandoned
           /\ phone' = Resting
           /\ UNCHANGED <<server, device>>
-----------------------------------------------------------------------------
Activate(d) == ReadDeployment(d) \/ FlipToActive(d) \/ FanOut(d)

Handle(h) == \/ Receive(h) \/ ApplyOtaReport(h) \/ PickExisting(h) \/ PickUnreached(h)
             \/ InsertRow(h) \/ Settle(h) \/ Answer(h)

Checkin == \/ ClearReports \/ Track \/ GiveUp
           \/ StartDownload \/ KeepDownload \/ StoreDownload \/ ReportDownload \/ FailDownload
           \/ AwaitIdle \/ StartInstall \/ CommitInstall \/ RefuseInstall
           \/ ReportInstalled \/ WipeMirror

Next == \/ \E d \in Deployments : CreateDeployment(d) \/ CancelDeployment(d) \/ Activate(d)
        \/ \E h \in Handlers : Handle(h)
        \/ Begin \/ Checkin \/ ConnectionBreaks
        \/ FinishInstall \/ RejectInstall \/ AppDies

Spec == Init /\ [][Next]_vars

\* The server runs what it has begun, Android ends the installs it has accepted, the
\* phone keeps checking in (four timers see to that), and now and then it does so
\* while no trip is active.
Fairness == /\ \A d \in Deployments : WF_vars(Activate(d))
            /\ \A h \in Handlers : WF_vars(Handle(h))
            /\ WF_vars(Begin) /\ WF_vars(Checkin)
            /\ WF_vars(FinishInstall \/ RejectInstall)
            /\ SF_vars(Begin /\ ~phone'.active)
FairSpec == Spec /\ Fairness
-----------------------------------------------------------------------------
Call == [pc : {"idle", "receive", "apply", "fan", "insert", "settle", "answer"},
         version : Deployments \cup {0}, of : Deployments \cup {NoDeployment},
         reports : Seq(OtaState), pick : Deployments \cup {NoDeployment},
         state : OtaState]

Mirror == [of : Deployments \cup {NoDeployment}, state : OtaState,
           attempt : 0..MaxAttempts, file : BOOLEAN, reports : Seq(OtaState)]
Phone == [pc : {"idle", "await", "clear", "track", "gate", "download", "report",
                "downloaded", "install", "survive", "wipe"},
          call : SUBSET Handlers, active : BOOLEAN, offer : Deployments \cup {NoDeployment}]

TypeOK ==
  /\ plan \in [Deployments -> {"none", "pending", "active", "cancelled"}]
  /\ job \in [Deployments -> {"none", "due", "flip", "fan out", "done"}]
  /\ row \in [Deployments -> OtaState \cup {"none"}]
  /\ known \in Deployments \cup {0}
  /\ handler \in [Handlers -> Call]
  /\ version \in Deployments \cup {0}
  /\ mirror \in Mirror
  /\ phone \in Phone
  /\ sessions \subseteq Deployments
  /\ faults \in 0..MaxFaults

\* A row says "installed" only of a version the phone runs or has passed, though
\* the app reports an install Android has yet to finish, and may not finish, and
\* reports arrive late and twice (applyOtaReport's anti-skew, fleet.service.ts 1152).
InstalledMeansRuns == \A d \in Deployments : row[d] = "installed" => version >= d

\* What the phone is working on is newer than what it runs: an offer computed by
\* a slow check-in, or next to an install that ends at last, never has it install
\* the same version again or an older one (computePendingDeployment's downgrade
\* guards, fleet.service.ts 1252 and 1296).
OfferIsNewer ==
  phone.pc \in {"track", "gate", "download", "report", "downloaded", "install"} =>
    phone.offer > version

\* A deployment that stays active comes to an end on this phone, and stays
\* ended: its row is terminal, or the phone has used up its attempts at the newest
\* one.  Broken connections, a killed app and rejected installs only delay it.
GaveUp == mirror.state = "failed" /\ mirror.attempt >= MaxAttempts
RolloutEnds ==
  \A d \in Deployments : <>[](plan[d] = "active" => row[d] \in Terminal \/ GaveUp)
-----------------------------------------------------------------------------
\* Why they hold: the server knows no version the phone has not reached, the
\* check-in the phone waits for was sent by the version it runs, what a check-in
\* is about to answer is newer than the version that sent it, and an attempt is
\* begun only while one is left.
HeardOfNothingNewer == known <= version /\ \A h \in Handlers : handler[h].version <= version
AwaitedIsCurrent == \A h \in Handlers : Awaited(h) => handler[h].version = version
PickFits(c) ==
  /\ c.pc \in {"settle", "insert"} => c.pick \in Deployments
  /\ c.pc = "answer" => c.pick = NoDeployment \/ c.pick > c.version
  /\ c.pc \notin {"settle", "insert", "answer"} => c.pick = NoDeployment
PicksAreNewer == \A h \in Handlers : PickFits(handler[h])
ClearsNewer == Doing("clear") => phone.offer = NoDeployment \/ phone.offer > version
AttemptLeft == phone.pc \in {"download", "report", "downloaded"} => mirror.attempt < MaxAttempts

IInv == /\ TypeOK /\ InstalledMeansRuns /\ OfferIsNewer
        /\ HeardOfNothingNewer /\ AwaitedIsCurrent /\ PicksAreNewer
        /\ ClearsNewer /\ AttemptLeft
=============================================================================
