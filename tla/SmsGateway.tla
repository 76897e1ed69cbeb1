----------------------------- MODULE SmsGateway -----------------------------
(***************************************************************************)
(* The SMS gateway: text messages wait in outbound_messages and debug       *)
(* commands in device_remote_commands until the gateway phone's app         *)
(* (SmsGatewayApp) checks in.  The answer hands them out; the app sends the *)
(* messages, runs the commands, and reports both with its next check-in.    *)
(*                                                                         *)
(* The two are handed out differently.  A message is claimed: it goes out   *)
(* in one answer and never again, unless an administrator retries it.  A    *)
(* command goes out with every answer until it has been reported, and the   *)
(* app keeps the ids of those it has run.                                   *)
(*                                                                         *)
(* The app's queues are SharedPreferences: apply() changes what the process *)
(* sees at once and reaches the disk later, so a killed app may forget what *)
(* it knew.  Its poll loop cannot be interrupted in a poll: stopped and     *)
(* started again, the service polls next to the loop it has stopped.        *)
(*                                                                         *)
(* A variable of a check-in or of a poll is dropped once it is not used     *)
(* again.  Left out: device tokens, OTA and Tailscale (which this app does  *)
(* not do), the local HTTP server (off by default), and the limits of an    *)
(* answer, 20 messages and 10 commands.                                     *)
(***************************************************************************)
EXTENDS Integers, FiniteSets

CONSTANTS
  Messages,   \* rows of outbound_messages with channel 'sms'
  Commands,   \* rows of device_remote_commands for the phone
  Runnable,   \* the commands the app knows (report_state, fetch_logs)
  Loops,      \* the app's poll loops
  Handlers,   \* the check-ins that may run at once at the server
  MaxRetries, \* bound: how often a message is retried
  MaxToggles, \* bound: how often the phone is made the gateway, or unmade
  MaxFaults   \* bound: connections lost, apps killed and services restarted

ASSUME SmsGatewayAssumption ==
  /\ Runnable \subseteq Commands
  /\ MaxRetries \in Nat /\ MaxToggles \in Nat /\ MaxFaults \in Nat

VARIABLES
  message,   \* outbound_messages.status, "none" before the row exists
  command,   \* device_remote_commands.status
  gateway,   \* devices.is_sms_gateway
  barred,    \* messages that sendSms is yet to mark as failed: their channel is off
  handler,   \* the check-ins in progress at the server
  loop,      \* the poll loops of the running app
  prefs,     \* the app's SharedPreferences, as the process sees them
  disk,      \* the same, as a killed app finds them again
  sends,     \* how often each message was handed to the SIM
  runs,      \* how often each command was run
  forgotten, \* the commands whose run a killed app no longer knew of
  retries,   \* how often each message was retried
  spent      \* how much of the bounds is used up

server == <<message, command, gateway, barred>>
store == <<prefs, disk>>
ghosts == <<sends, runs, forgotten>>
vars == <<server, handler, loop, store, ghosts, retries, spent>>

\* Reports: the ids of the successes and of the failures.
NoReports == [ok |-> {}, failed |-> {}]
Ids(r) == r.ok \cup r.failed

NoCall == [pc |-> "idle", sms |-> NoReports, cmd |-> NoReports,
           gateway |-> FALSE, commands |-> {}, messages |-> {}]
Off == [pc |-> "off", stopped |-> FALSE, call |-> {}, hadSms |-> FALSE, hadCmd |-> FALSE,
        messages |-> {}, commands |-> {}, now |-> {}, executed |-> {},
        sms |-> NoReports, cmd |-> NoReports]
Asleep == [Off EXCEPT !.pc = "asleep"]
Empty == [sms |-> NoReports, cmd |-> NoReports, executed |-> {}]

Init == /\ message = [m \in Messages |-> "none"]
        /\ command = [c \in Commands |-> "none"]
        /\ gateway = FALSE
        /\ barred = {}
        /\ handler = [h \in Handlers |-> NoCall]
        /\ loop = [l \in Loops |-> Off]
        /\ prefs = Empty /\ disk = Empty
        /\ sends = [m \in Messages |-> 0]
        /\ runs = [c \in Commands |-> 0]
        /\ forgotten = {}
        /\ retries = [m \in Messages |-> 0]
        /\ spent = [losses |-> 0, kills |-> 0, restarts |-> 0, toggles |-> 0]
-----------------------------------------------------------------------------
(* The administrator, and the services that send messages.                 *)

\* sendSms inserts the message even if its organisation has text messages switched
\* off (the test message of the gateway's page does not ask), ...
Enqueue(m) == \E off \in SUBSET {m} :
  /\ message[m] = "none"
  /\ message' = [message EXCEPT ![m] = "pending"]
  /\ barred' = barred \cup off
  /\ UNCHANGED <<command, gateway, handler, loop, store, ghosts, retries, spent>>

\* ... finds that out and marks it as failed, whatever has become of it meanwhile.
MarkFailed(m) ==
  /\ m \in barred
  /\ message' = [message EXCEPT ![m] = "failed"]
  /\ barred' = barred \ {m}
  /\ UNCHANGED <<command, gateway, handler, loop, store, ghosts, retries, spent>>

\* retryMessage: whatever has become of the message, it is pending again.
RetryMessage(m) ==
  /\ message[m] # "none"
  /\ retries[m] < MaxRetries
  /\ retries' = [retries EXCEPT ![m] = @ + 1]
  /\ message' = [message EXCEPT ![m] = "pending"]
  /\ UNCHANGED <<command, gateway, barred, handler, loop, store, ghosts, spent>>

EnqueueCommand(c) ==
  /\ command[c] = "none"
  /\ command' = [command EXCEPT ![c] = "pending"]
  /\ UNCHANGED <<message, gateway, barred, handler, loop, store, ghosts, retries, spent>>

SetDeviceSmsGateway ==
  /\ spent.toggles < MaxToggles
  /\ spent' = [spent EXCEPT !.toggles = @ + 1]
  /\ gateway' = ~gateway
  /\ UNCHANGED <<message, command, barred, handler, loop, store, ghosts, retries>>
-----------------------------------------------------------------------------
(* A check-in at the server.                                               *)

At(h, pc) == handler[h].pc = pc

\* The device is looked up, with the flag that step 8 goes by.
Receive(h) ==
  /\ At(h, "receive")
  /\ handler' = [handler EXCEPT ![h].pc = "commands", ![h].gateway = gateway]
  /\ UNCHANGED <<server, loop, store, ghosts, retries, spent>>

ApplyRemoteCommandReport(h) == \E c \in Ids(handler[h].cmd) :
  /\ At(h, "commands")
  /\ command' = [command EXCEPT ![c] = IF c \in handler[h].cmd.ok THEN "completed" ELSE "failed"]
  /\ handler' = [handler EXCEPT ![h].cmd = [ok |-> @.ok \ {c}, failed |-> @.failed \ {c}]]
  /\ UNCHANGED <<message, gateway, barred, loop, store, ghosts, retries, spent>>

\* A report counts for a message this phone has claimed: not a pending one.
Claimed(m) == message[m] \in {"sent", "delivered", "failed"}

ApplySmsReport(h) == \E m \in Ids(handler[h].sms) :
  /\ At(h, "commands")
  /\ handler[h].cmd = NoReports
  /\ message' = IF Claimed(m)
                THEN [message EXCEPT ![m] = IF m \in handler[h].sms.ok THEN "delivered" ELSE "failed"]
                ELSE message
  /\ handler' = [handler EXCEPT ![h].sms = [ok |-> @.ok \ {m}, failed |-> @.failed \ {m}]]
  /\ UNCHANGED <<command, gateway, barred, loop, store, ghosts, retries, spent>>

\* (mutant) Commands go out once, as messages do.
PendingOnly == {c \in Commands : command[c] = "pending"}

\* computePendingRemoteCommands hands out what has not been reported, ...
Outstanding == {c \in Commands : command[c] \in {"pending", "sent"}}

SelectCommands(h) ==
  /\ At(h, "commands")
  /\ handler[h].cmd = NoReports /\ handler[h].sms = NoReports
  /\ handler' = [handler EXCEPT ![h].pc = "mark", ![h].commands = Outstanding]
  /\ UNCHANGED <<server, loop, store, ghosts, retries, spent>>

\* ... and marks those that are still pending.
MarkCommands(h) ==
  /\ At(h, "mark")
  /\ command' = [c \in Commands |->
                   IF c \in handler[h].commands /\ command[c] = "pending" THEN "sent" ELSE command[c]]
  /\ handler' = [handler EXCEPT ![h].pc = "claim"]
  /\ UNCHANGED <<message, gateway, barred, loop, store, ghosts, retries, spent>>

\* (mutant) What was claimed and not reported goes out again, as commands do.
ClaimableAgain == {m \in Messages : message[m] \in {"pending", "sent"}}

\* computePendingSms claims and returns the pending messages in one statement, ...
Claimable == {m \in Messages : message[m] = "pending"}

ClaimSms(h) ==
  /\ At(h, "claim")
  /\ handler[h].gateway /\ gateway
  /\ message' = [m \in Messages |-> IF m \in Claimable THEN "sent" ELSE message[m]]
  /\ handler' = [handler EXCEPT ![h].pc = "answer", ![h].gateway = FALSE, ![h].messages = Claimable]
  /\ UNCHANGED <<command, gateway, barred, loop, store, ghosts, retries, spent>>

\* (mutant) The flag is looked at once the messages have been claimed.
SkipSmsTooLate(h) ==
  /\ At(h, "claim")
  /\ ~(handler[h].gateway /\ gateway)
  /\ message' = [m \in Messages |-> IF m \in Claimable THEN "sent" ELSE message[m]]
  /\ handler' = [handler EXCEPT ![h].pc = "answer", ![h].gateway = FALSE]
  /\ UNCHANGED <<command, gateway, barred, loop, store, ghosts, retries, spent>>

\* ... for a gateway only.
SkipSms(h) ==
  /\ At(h, "claim")
  /\ ~(handler[h].gateway /\ gateway)
  /\ handler' = [handler EXCEPT ![h].pc = "answer", ![h].gateway = FALSE]
  /\ UNCHANGED <<server, loop, store, ghosts, retries, spent>>

\* The answer reaches the loop that still waits for it.
Answer(h) ==
  /\ At(h, "answer")
  /\ loop' = [l \in Loops |->
                IF h \in loop[l].call
                THEN [loop[l] EXCEPT !.pc = "clear sms", !.call = {},
                                     !.messages = handler[h].messages,
                                     !.commands = handler[h].commands]
                ELSE loop[l]]
  /\ handler' = [handler EXCEPT ![h] = NoCall]
  /\ UNCHANGED <<server, store, ghosts, retries, spent>>
-----------------------------------------------------------------------------
(* A poll of the app.                                                      *)

Doing(l, pc) == loop[l].pc = pc

\* What a loop is after a poll: it goes to sleep, or ends if it was stopped.
Done(l) == IF loop[l].stopped THEN Off ELSE Asleep
EndPoll(l) == loop' = [loop EXCEPT ![l] = Done(l)]

\* poll: the reports queued are sent.  (Handlers and loops are places only: it does
\* not matter which of the free ones is taken.)
Begin(l) == LET h == CHOOSE g \in Handlers : At(g, "idle") IN
  /\ Doing(l, "asleep")
  /\ \E g \in Handlers : At(g, "idle")
  /\ handler' = [handler EXCEPT ![h] = [NoCall EXCEPT !.pc = "receive",
                                                      !.sms = prefs.sms, !.cmd = prefs.cmd]]
  /\ loop' = [loop EXCEPT ![l] = [@ EXCEPT !.pc = "await", !.call = {h},
                                           !.hadSms = prefs.sms # NoReports,
                                           !.hadCmd = prefs.cmd # NoReports]]
  /\ UNCHANGED <<server, store, ghosts, retries, spent>>

\* What was delivered is cleared: whatever the queues have become.
ClearSms(l) ==
  /\ Doing(l, "clear sms")
  /\ prefs' = IF loop[l].hadSms THEN [prefs EXCEPT !.sms = NoReports] ELSE prefs
  /\ loop' = [loop EXCEPT ![l].pc = "clear cmd", ![l].hadSms = FALSE]
  /\ UNCHANGED <<server, handler, disk, ghosts, retries, spent>>

ClearCmd(l) ==
  /\ Doing(l, "clear cmd")
  /\ prefs' = IF loop[l].hadCmd THEN [prefs EXCEPT !.cmd = NoReports] ELSE prefs
  /\ loop' = [loop EXCEPT ![l].pc = IF loop[l].messages = {} THEN "look up" ELSE "send",
                          ![l].hadCmd = FALSE]
  /\ UNCHANGED <<server, handler, disk, ghosts, retries, spent>>

\* sendSms hands the message to the SIM, which takes it or does not.
SendSms(l) == \E m \in loop[l].messages :
  /\ Doing(l, "send")
  /\ sends' = [sends EXCEPT ![m] = @ + 1]
  /\ loop' = [loop EXCEPT ![l].messages = @ \ {m}, ![l].sms.ok = @ \cup {m}]
  /\ UNCHANGED <<server, handler, store, runs, forgotten, retries, spent>>

\* (mutant) What the SIM refused is reported with the rest.
RefuseSmsAsSent(l) == \E m \in loop[l].messages :
  /\ Doing(l, "send")
  /\ loop' = [loop EXCEPT ![l].messages = @ \ {m}, ![l].sms.ok = @ \cup {m}]
  /\ UNCHANGED <<server, handler, store, ghosts, retries, spent>>

RefuseSms(l) == \E m \in loop[l].messages :
  /\ Doing(l, "send")
  /\ loop' = [loop EXCEPT ![l].messages = @ \ {m}, ![l].sms.failed = @ \cup {m}]
  /\ UNCHANGED <<server, handler, store, ghosts, retries, spent>>

\* The batch's reports replace what was queued.
SaveSms(l) ==
  /\ Doing(l, "send")
  /\ loop[l].messages = {}
  /\ prefs' = [prefs EXCEPT !.sms = loop[l].sms]
  /\ loop' = [loop EXCEPT ![l].pc = "look up", ![l].sms = NoReports]
  /\ UNCHANGED <<server, handler, disk, ghosts, retries, spent>>

\* (mutant) Nobody looks whether a command was run.
LookUpNothing(l) ==
  /\ Doing(l, "look up")
  /\ loop' = IF loop[l].commands = {} THEN [loop EXCEPT ![l] = Done(l)]
             ELSE [loop EXCEPT ![l].pc = "execute"]
  /\ UNCHANGED <<server, handler, store, ghosts, retries, spent>>

\* The ids that were run are read once for the batch.
LookUp(l) ==
  /\ Doing(l, "look up")
  /\ loop' = IF loop[l].commands = {} THEN [loop EXCEPT ![l] = Done(l)]
             ELSE [loop EXCEPT ![l].pc = "execute", ![l].executed = prefs.executed]
  /\ UNCHANGED <<server, handler, store, ghosts, retries, spent>>

\* One that was run is acknowledged again.
Reack(l) == \E c \in loop[l].commands :
  /\ Doing(l, "execute")
  /\ c \in loop[l].executed
  /\ loop' = [loop EXCEPT ![l].commands = @ \ {c}, ![l].cmd.ok = @ \cup {c}]
  /\ UNCHANGED <<server, handler, store, ghosts, retries, spent>>

\* addExecutedId, before the command is run.
AddExecuted(l) == \E c \in loop[l].commands :
  /\ Doing(l, "execute")
  /\ c \notin loop[l].executed
  /\ prefs' = [prefs EXCEPT !.executed = @ \cup {c}]
  /\ loop' = [loop EXCEPT ![l].pc = "run", ![l].commands = @ \ {c}, ![l].now = {c}]
  /\ UNCHANGED <<server, handler, disk, ghosts, retries, spent>>

\* A command the app does not know is reported as failed.
Reported(r, c) == IF c \in Runnable THEN [r EXCEPT !.ok = @ \cup {c}]
                  ELSE [r EXCEPT !.failed = @ \cup {c}]

HandleCommand(l) == \E c \in loop[l].now :
  /\ Doing(l, "run")
  /\ runs' = [runs EXCEPT ![c] = @ + 1]
  /\ loop' = [loop EXCEPT ![l].pc = "execute", ![l].now = {}, ![l].cmd = Reported(@, c)]
  /\ UNCHANGED <<server, handler, store, sends, forgotten, retries, spent>>

SaveCmd(l) ==
  /\ Doing(l, "execute")
  /\ loop[l].commands = {}
  /\ prefs' = [prefs EXCEPT !.cmd = loop[l].cmd]
  /\ EndPoll(l)
  /\ UNCHANGED <<server, handler, disk, ghosts, retries, spent>>
-----------------------------------------------------------------------------
(* The app around its loops.                                               *)

\* apply() reaches the disk.
Flush == /\ disk # prefs
         /\ disk' = prefs
         /\ UNCHANGED <<server, handler, loop, prefs, ghosts, retries, spent>>

\* The service is started: at boot, by the watchdog, by the operator.
Free == {l \in Loops : Doing(l, "off")}
Opened(loops) == [loops EXCEPT ![CHOOSE l \in Free : TRUE] = Asleep]

Start ==
  /\ \A l \in Loops : Doing(l, "off") \/ loop[l].stopped
  /\ Free # {}
  /\ loop' = Opened(loop)
  /\ UNCHANGED <<server, handler, store, ghosts, retries, spent>>

Faults == spent.losses + spent.kills + spent.restarts
CanFail == Faults < MaxFaults

\* The operator stops and starts the service while a loop is in the middle of a poll.
Restart == \E l \in Loops :
  /\ loop[l].pc \notin {"off", "asleep"} /\ ~loop[l].stopped
  /\ Free # {}
  /\ CanFail
  /\ spent' = [spent EXCEPT !.restarts = @ + 1]
  /\ loop' = Opened([loop EXCEPT ![l].stopped = TRUE])
  /\ UNCHANGED <<server, handler, store, ghosts, retries>>

\* A call nobody waits for any more either never got to the server or goes on.
Abandoned(calls) == handler' \in {handler} \cup
  {[handler EXCEPT ![h] = NoCall] : h \in {g \in calls : At(g, "receive")}}

\* Any answer but a good one leaves the queues as they are.
ConnectionLost(l) ==
  /\ Doing(l, "await")
  /\ CanFail
  /\ spent' = [spent EXCEPT !.losses = @ + 1]
  /\ Abandoned(loop[l].call)
  /\ EndPoll(l)
  /\ UNCHANGED <<server, store, ghosts, retries>>

Kill ==
  /\ \E l \in Loops : ~Doing(l, "off")
  /\ CanFail
  /\ spent' = [spent EXCEPT !.kills = @ + 1]
  /\ Abandoned(UNION {loop[l].call : l \in Loops})
  /\ loop' = [l \in Loops |-> Off]
  /\ prefs' = disk
  /\ forgotten' = forgotten \cup (prefs.executed \ disk.executed)
  /\ UNCHANGED <<server, disk, sends, runs, retries>>
-----------------------------------------------------------------------------
Admin == \/ \E m \in Messages : Enqueue(m) \/ MarkFailed(m) \/ RetryMessage(m)
         \/ \E c \in Commands : EnqueueCommand(c)
         \/ SetDeviceSmsGateway

Handle(h) == \/ Receive(h) \/ ApplyRemoteCommandReport(h) \/ ApplySmsReport(h)
             \/ SelectCommands(h) \/ MarkCommands(h) \/ ClaimSms(h) \/ SkipSms(h) \/ Answer(h)

Poll(l) == \/ ClearSms(l) \/ ClearCmd(l) \/ SendSms(l) \/ RefuseSms(l) \/ SaveSms(l)
           \/ LookUp(l) \/ Reack(l) \/ AddExecuted(l) \/ HandleCommand(l) \/ SaveCmd(l)

Next == \/ Admin
        \/ \E h \in Handlers : Handle(h)
        \/ \E l \in Loops : Begin(l) \/ Poll(l) \/ ConnectionLost(l)
        \/ Flush \/ Start \/ Restart \/ Kill

Spec == Init /\ [][Next]_vars

\* The server runs what it has begun; the app's loop goes on, and is started again
\* by the watchdog when there is none.
Fairness == /\ \A h \in Handlers : WF_vars(Handle(h))
            /\ \A l \in Loops : WF_vars(Begin(l)) /\ WF_vars(Poll(l))
            /\ WF_vars(Start)
FairSpec == Spec /\ Fairness
-----------------------------------------------------------------------------
SmsReports == [ok : SUBSET Messages, failed : SUBSET Messages]
CmdReports == [ok : SUBSET Commands, failed : SUBSET Commands]
Prefs == [sms : SmsReports, cmd : CmdReports, executed : SUBSET Commands]
Call == [pc : {"idle", "receive", "commands", "mark", "claim", "answer"},
         sms : SmsReports, cmd : CmdReports, gateway : BOOLEAN,
         commands : SUBSET Commands, messages : SUBSET Messages]
LoopPc == {"off", "asleep", "await", "clear sms", "clear cmd", "send", "look up", "execute", "run"}
LoopState == [pc : LoopPc, stopped : BOOLEAN, call : SUBSET Handlers,
              hadSms : BOOLEAN, hadCmd : BOOLEAN,
              messages : SUBSET Messages, commands : SUBSET Commands, now : SUBSET Commands,
              executed : SUBSET Commands, sms : SmsReports, cmd : CmdReports]

TypeOK ==
  /\ message \in [Messages -> {"none", "pending", "sent", "delivered", "failed"}]
  /\ command \in [Commands -> {"none", "pending", "sent", "completed", "failed"}]
  /\ gateway \in BOOLEAN
  /\ barred \subseteq Messages
  /\ handler \in [Handlers -> Call]
  /\ loop \in [Loops -> LoopState]
  /\ prefs \in Prefs /\ disk \in Prefs
  /\ sends \in [Messages -> Nat] /\ runs \in [Commands -> Nat]
  /\ forgotten \subseteq Commands
  /\ retries \in [Messages -> 0..MaxRetries]
  /\ spent \in [losses : 0..MaxFaults, kills : 0..MaxFaults, restarts : 0..MaxFaults,
              toggles : 0..MaxToggles]

\* A message is handed to the SIM once, and once more for every time an administrator
\* retried it: lost answers, killed apps and overlapping polls never have it sent
\* twice (computePendingSms claims and returns in one statement, fleet.service.ts 712).
SentOncePerRequest == \A m \in Messages : sends[m] <= 1 + retries[m]

\* A command handed out again, as every unreported one is, is not run again, unless
\* the app was killed before the id was on the disk, or two loops overlapped
\* (addExecutedId, CheckinClient.kt 86).
RunAgainOnlyIfForgotten ==
  \A c \in Commands : runs[c] > 1 => c \in forgotten \/ spent.restarts > 0

\* A command was run, or is being run, or an app that noted it down was killed.  One the
\* app does not know counts as run once it was refused: a repeat of it is acknowledged.
Ran(c) == runs[c] > 0 \/ spent.kills > 0 \/ \E l \in Loops : c \in loop[l].now

\* What the server has as done was done: a message "delivered" was handed to the SIM,
\* whatever report was queued, lost, sent again or came late, and a command "completed"
\* was run.  But the app acknowledges as "already ran" what it only noted down
\* (CheckinClient.kt 86): another loop may be running it still, or an app have been
\* killed before it did.
ReportedIsDone ==
  /\ \A m \in Messages : message[m] = "delivered" => sends[m] > 0
  /\ \A c \in Commands : command[c] = "completed" => Ran(c)

\* Every command is answered in the end, whatever is lost or killed on the way: until
\* it is, it goes out with every answer (computePendingRemoteCommands).
CommandsAnswered ==
  \A c \in Commands : command[c] \in {"pending", "sent"} ~> command[c] \in {"completed", "failed"}

\* A message the gateway is there for is sent, or refused, and reported, as long as
\* no connection breaks and nobody kills or restarts the app.
MessagesReported ==
  \A m \in Messages : message[m] \in {"pending", "sent"} /\ gateway
                        ~> message[m] \in {"delivered", "failed"} \/ ~gateway \/ Faults > 0
-----------------------------------------------------------------------------
\* Why they hold.  A call is awaited by one loop at most, and messages are on their way
\* from the claim to the SIM in one place each.
OneWaits ==
  /\ \A l \in Loops : loop[l].call # {} => Doing(l, "await")
  /\ \A l \in Loops : \A h \in loop[l].call : ~At(h, "idle")
  /\ \A k, l \in Loops : loop[k].call \cap loop[l].call # {} => k = l
InHand ==
  /\ \A h \in Handlers : handler[h].messages # {} => At(h, "answer")
  /\ \A l \in Loops : loop[l].messages # {} => loop[l].pc \in {"clear sms", "clear cmd", "send"}

\* Every send that was made or may still come has been asked for.
Calls(m) == {h \in Handlers : m \in handler[h].messages}
Polls(m) == {l \in Loops : m \in loop[l].messages}
Due(m) == IF message[m] \in {"none", "pending"} THEN 1 ELSE 0
SendsCounted == \A m \in Messages :
  /\ IsFiniteSet(Calls(m)) /\ IsFiniteSet(Polls(m))
  /\ sends[m] + Due(m) + Cardinality(Calls(m)) + Cardinality(Polls(m)) <= 1 + retries[m]

\* The ids that were run are known or forgotten, and a loop that is alone with its
\* batch has looked up all of them.
Alone == spent.restarts = 0 =>
  /\ \A l \in Loops : ~loop[l].stopped
  /\ \A k, l \in Loops : ~Doing(k, "off") /\ ~Doing(l, "off") => k = l
RunsAreKnown ==
  /\ \A l \in Loops : loop[l].now # {} => Doing(l, "run")
  /\ \A l \in Loops : loop[l].now \subseteq prefs.executed
  /\ \A c \in Commands : runs[c] > 0 => c \in prefs.executed \cup forgotten
BatchIsFresh == spent.restarts = 0 => \A l \in Loops :
  /\ loop[l].pc \in {"execute", "run"} => loop[l].commands \cap prefs.executed \subseteq loop[l].executed
  /\ \A c \in loop[l].now : runs[c] > 0 => c \in forgotten

\* Whatever is said to be done, in a queue, a batch or a call on the way to the server.
SaidSent(m) == \/ m \in prefs.sms.ok \cup disk.sms.ok
               \/ \E l \in Loops : m \in loop[l].sms.ok
               \/ \E h \in Handlers : m \in handler[h].sms.ok
               \/ message[m] = "delivered"
SaidRun(c) == \/ c \in prefs.executed \cup disk.executed \cup prefs.cmd.ok \cup disk.cmd.ok
              \/ \E l \in Loops : c \in loop[l].executed \cup loop[l].cmd.ok
              \/ \E h \in Handlers : c \in handler[h].cmd.ok
              \/ command[c] = "completed"
Truthful == /\ \A m \in Messages : SaidSent(m) => sends[m] > 0
            /\ \A c \in Commands : SaidRun(c) => Ran(c)
            /\ \A l \in Loops : \A c, d \in loop[l].now : c = d

Sending == OneWaits /\ InHand /\ SendsCounted
Running == Alone /\ RunsAreKnown /\ BatchIsFresh /\ RunAgainOnlyIfForgotten
IInv == TypeOK /\ Sending /\ Running
=============================================================================
