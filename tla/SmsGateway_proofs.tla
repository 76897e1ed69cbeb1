------------------------- MODULE SmsGateway_proofs -------------------------
(***************************************************************************)
(* Proofs about SmsGateway, for any messages, commands, check-ins, loops   *)
(* and bounds.                                                             *)
(***************************************************************************)
EXTENDS SmsGateway, FiniteSetTheorems, TLAPS

LEMMA Constants ==
  /\ NoReports \in SmsReports /\ NoReports \in CmdReports
  /\ NoCall \in Call /\ Off \in LoopState /\ Asleep \in LoopState /\ Empty \in Prefs
BY DEF NoReports, SmsReports, CmdReports, NoCall, Call, Off, LoopState, LoopPc, Asleep, Empty, Prefs

LEMMA CountType ==
  ASSUME NEW S, NEW f \in [S -> Nat], NEW x \in S
  PROVE  [f EXCEPT ![x] = f[x] + 1] \in [S -> Nat]
<1>1. f[x] \in Nat
  OBVIOUS
<1> QED
  BY <1>1

\* A loop that goes on, or is told to stop, is still a loop.
LEMMA LoopFields ==
  ASSUME NEW r \in LoopState, NEW pc \in LoopPc
  PROVE  [r EXCEPT !.pc = pc] \in LoopState /\ [r EXCEPT !.stopped = TRUE] \in LoopState
<1>1. [r EXCEPT !.pc = pc] \in LoopState
  BY DEF LoopState
<1>2. [r EXCEPT !.stopped = TRUE] \in LoopState
  BY DEF LoopState
<1> QED
  BY <1>1, <1>2

\* What the loop is after it has cleared or saved a queue: it goes on, and what it no
\* longer needs is dropped.
Onward(l, p) ==
  /\ loop' = [loop EXCEPT ![l] = p]
  /\ p \in LoopState /\ p.pc \in {"clear cmd", "send", "look up"}
  /\ p.pc = "look up" => loop[l].messages = {}
  /\ p.stopped = loop[l].stopped /\ p.call = loop[l].call /\ p.messages = loop[l].messages
  /\ p.commands = loop[l].commands /\ p.now = loop[l].now /\ p.executed = loop[l].executed
  /\ p.cmd = loop[l].cmd /\ p.sms \in {loop[l].sms, NoReports}

LEMMA GoesOn ==
  ASSUME TypeOK, NEW l \in Loops, ClearSms(l) \/ ClearCmd(l) \/ SaveSms(l)
  PROVE  \E p : Onward(l, p)
<1>1. loop[l] \in LoopState /\ NoReports \in SmsReports
  BY Constants DEF TypeOK
<1>2. CASE ClearSms(l)
  <2> DEFINE p == [loop[l] EXCEPT !.pc = "clear cmd", !.hadSms = FALSE]
  <2>1. loop' = [loop EXCEPT ![l] = p]
    BY <1>2 DEF ClearSms
  <2>2. /\ p \in LoopState /\ p.pc = "clear cmd" /\ p.sms = loop[l].sms
        /\ p.stopped = loop[l].stopped /\ p.call = loop[l].call /\ p.messages = loop[l].messages
        /\ p.commands = loop[l].commands /\ p.now = loop[l].now /\ p.executed = loop[l].executed
        /\ p.cmd = loop[l].cmd
    BY <1>1 DEF LoopState, LoopPc
  <2> HIDE DEF p
  <2> QED
    BY <2>1, <2>2 DEF Onward
<1>3. CASE ClearCmd(l)
  <2>1. PICK pc \in {"look up", "send"} :
          /\ loop' = [loop EXCEPT ![l].pc = pc, ![l].hadCmd = FALSE]
          /\ pc = "look up" => loop[l].messages = {}
    BY <1>3 DEF ClearCmd
  <2> DEFINE p == [loop[l] EXCEPT !.pc = pc, !.hadCmd = FALSE]
  <2>2. loop' = [loop EXCEPT ![l] = p]
    BY <2>1
  <2>3. /\ p \in LoopState /\ p.pc = pc /\ p.sms = loop[l].sms
        /\ p.stopped = loop[l].stopped /\ p.call = loop[l].call /\ p.messages = loop[l].messages
        /\ p.commands = loop[l].commands /\ p.now = loop[l].now /\ p.executed = loop[l].executed
        /\ p.cmd = loop[l].cmd
    BY <1>1, <2>1 DEF LoopState, LoopPc
  <2> HIDE DEF p
  <2> QED
    BY <2>1, <2>2, <2>3 DEF Onward
<1>4. CASE SaveSms(l)
  <2> DEFINE p == [loop[l] EXCEPT !.pc = "look up", !.sms = NoReports]
  <2>1. loop' = [loop EXCEPT ![l] = p] /\ loop[l].messages = {}
    BY <1>4 DEF SaveSms
  <2>2. /\ p \in LoopState /\ p.pc = "look up" /\ p.sms = NoReports
        /\ p.stopped = loop[l].stopped /\ p.call = loop[l].call /\ p.messages = loop[l].messages
        /\ p.commands = loop[l].commands /\ p.now = loop[l].now /\ p.executed = loop[l].executed
        /\ p.cmd = loop[l].cmd
    BY <1>1 DEF LoopState, LoopPc
  <2> HIDE DEF p
  <2> QED
    BY <2>1, <2>2 DEF Onward
<1> QED
  BY <1>2, <1>3, <1>4

LEMMA OnwardType ==
  ASSUME TypeOK, NEW l \in Loops, ClearSms(l) \/ ClearCmd(l) \/ SaveSms(l)
  PROVE  loop' \in [Loops -> LoopState]
<1>1. PICK p : Onward(l, p)
  BY GoesOn
<1> QED
  BY <1>1 DEF Onward, TypeOK

LEMMA DoneType == \A l \in Loops : Done(l) \in LoopState
BY Constants DEF Done
-----------------------------------------------------------------------------
(* Type correctness, one group of actions at a time.                        *)

LEMMA AdminType ==
  ASSUME TypeOK, Admin
  PROVE  TypeOK'
<1> USE DEF TypeOK
<1>1. ASSUME NEW m \in Messages, Enqueue(m)
      PROVE  TypeOK'
  BY <1>1 DEF Enqueue, ghosts, store
<1>2. ASSUME NEW m \in Messages, RetryMessage(m)
      PROVE  TypeOK'
  <2>1. retries' \in [Messages -> 0..MaxRetries]
    BY <1>2, SmsGatewayAssumption DEF RetryMessage
  <2> QED
    BY <1>2, <2>1 DEF RetryMessage, ghosts, store
<1>3. ASSUME NEW c \in Commands, EnqueueCommand(c)
      PROVE  TypeOK'
  BY <1>3 DEF EnqueueCommand, ghosts, store
<1>4. CASE SetDeviceSmsGateway
  <2>1. spent' \in [losses : 0..MaxFaults, kills : 0..MaxFaults, restarts : 0..MaxFaults,
                    toggles : 0..MaxToggles]
    BY <1>4, SmsGatewayAssumption DEF SetDeviceSmsGateway
  <2> QED
    BY <1>4, <2>1 DEF SetDeviceSmsGateway, ghosts, store
<1>5. ASSUME NEW m \in Messages, MarkFailed(m)
      PROVE  TypeOK'
  BY <1>5 DEF MarkFailed, ghosts, store
<1> QED
  BY <1>1, <1>2, <1>3, <1>4, <1>5 DEF Admin

LEMMA HandleType ==
  ASSUME TypeOK, NEW h \in Handlers, Handle(h)
  PROVE  TypeOK'
<1> USE DEF TypeOK
<1>0. handler[h] \in Call
  OBVIOUS
<1>1. CASE Receive(h)
  <2>1. [handler[h] EXCEPT !.pc = "commands", !.gateway = gateway] \in Call
    BY <1>0 DEF Call
  <2>2. handler' \in [Handlers -> Call]
    BY <1>1, <2>1 DEF Receive
  <2> QED
    BY <1>1, <2>2 DEF Receive, server, ghosts, store
<1>2. CASE ApplyRemoteCommandReport(h)
  <2>1. PICK c \in Ids(handler[h].cmd) :
          /\ command' = [command EXCEPT ![c] = IF c \in handler[h].cmd.ok THEN "completed" ELSE "failed"]
          /\ handler' = [handler EXCEPT ![h].cmd = [ok |-> @.ok \ {c}, failed |-> @.failed \ {c}]]
    BY <1>2 DEF ApplyRemoteCommandReport
  <2> DEFINE r == [ok |-> handler[h].cmd.ok \ {c}, failed |-> handler[h].cmd.failed \ {c}]
  <2>2. r \in CmdReports
    BY <1>0 DEF Call, CmdReports
  <2>3. [handler[h] EXCEPT !.cmd = r] \in Call
    BY <1>0, <2>2 DEF Call
  <2>4. handler' = [handler EXCEPT ![h] = [handler[h] EXCEPT !.cmd = r]]
    BY <2>1
  <2>5. handler' \in [Handlers -> Call]
    BY <2>3, <2>4
  <2> QED
    BY <1>2, <2>1, <2>5 DEF ApplyRemoteCommandReport, ghosts, store
<1>3. CASE ApplySmsReport(h)
  <2>1. PICK m \in Ids(handler[h].sms) :
          /\ message' = IF Claimed(m)
                        THEN [message EXCEPT ![m] = IF m \in handler[h].sms.ok THEN "delivered"
                                                    ELSE "failed"]
                        ELSE message
          /\ handler' = [handler EXCEPT ![h].sms = [ok |-> @.ok \ {m}, failed |-> @.failed \ {m}]]
    BY <1>3 DEF ApplySmsReport
  <2> DEFINE r == [ok |-> handler[h].sms.ok \ {m}, failed |-> handler[h].sms.failed \ {m}]
  <2>2. r \in SmsReports
    BY <1>0 DEF Call, SmsReports
  <2>3. [handler[h] EXCEPT !.sms = r] \in Call
    BY <1>0, <2>2 DEF Call
  <2>4. handler' = [handler EXCEPT ![h] = [handler[h] EXCEPT !.sms = r]]
    BY <2>1
  <2>5. handler' \in [Handlers -> Call]
    BY <2>3, <2>4
  <2>6. message' \in [Messages -> {"none", "pending", "sent", "delivered", "failed"}]
    BY <2>1
  <2> QED
    BY <1>3, <2>5, <2>6 DEF ApplySmsReport, ghosts, store
<1>4. CASE SelectCommands(h)
  <2>1. [handler[h] EXCEPT !.pc = "mark", !.commands = Outstanding] \in Call
    BY <1>0 DEF Call, Outstanding
  <2>2. handler' \in [Handlers -> Call]
    BY <1>4, <2>1 DEF SelectCommands
  <2> QED
    BY <1>4, <2>2 DEF SelectCommands, server, ghosts, store
<1>5. CASE MarkCommands(h)
  <2>1. [handler[h] EXCEPT !.pc = "claim"] \in Call
    BY <1>0 DEF Call
  <2>2. handler' \in [Handlers -> Call]
    BY <1>5, <2>1 DEF MarkCommands
  <2>3. command' \in [Commands -> {"none", "pending", "sent", "completed", "failed"}]
    BY <1>5 DEF MarkCommands
  <2> QED
    BY <1>5, <2>2, <2>3 DEF MarkCommands, ghosts, store
<1>6. CASE ClaimSms(h)
  <2>1. [handler[h] EXCEPT !.pc = "answer", !.gateway = FALSE, !.messages = Claimable] \in Call
    BY <1>0 DEF Call, Claimable
  <2>2. handler' \in [Handlers -> Call]
    BY <1>6, <2>1 DEF ClaimSms
  <2>3. message' \in [Messages -> {"none", "pending", "sent", "delivered", "failed"}]
    BY <1>6 DEF ClaimSms
  <2> QED
    BY <1>6, <2>2, <2>3 DEF ClaimSms, ghosts, store
<1>7. CASE SkipSms(h)
  <2>1. [handler[h] EXCEPT !.pc = "answer", !.gateway = FALSE] \in Call
    BY <1>0 DEF Call
  <2>2. handler' \in [Handlers -> Call]
    BY <1>7, <2>1 DEF SkipSms
  <2> QED
    BY <1>7, <2>2 DEF SkipSms, server, ghosts, store
<1>8. CASE Answer(h)
  <2>1. ASSUME NEW l \in Loops
        PROVE  [loop[l] EXCEPT !.pc = "clear sms", !.call = {}, !.messages = handler[h].messages,
                               !.commands = handler[h].commands] \in LoopState
    <3>1. loop[l] \in LoopState
      OBVIOUS
    <3> QED
      BY <1>0, <3>1 DEF Call, LoopState, LoopPc
  <2>2. loop' \in [Loops -> LoopState]
    BY <1>8, <2>1 DEF Answer
  <2>3. handler' \in [Handlers -> Call]
    BY <1>8, Constants DEF Answer
  <2> QED
    BY <1>8, <2>2, <2>3 DEF Answer, server, ghosts, store
<1> QED
  BY <1>1, <1>2, <1>3, <1>4, <1>5, <1>6, <1>7, <1>8 DEF Handle

LEMMA PollType ==
  ASSUME TypeOK, NEW l \in Loops, Poll(l)
  PROVE  TypeOK'
<1> USE DEF TypeOK
<1>0. /\ loop[l] \in LoopState /\ NoReports \in SmsReports /\ NoReports \in CmdReports
      /\ LoopPc = {"off", "asleep", "await", "clear sms", "clear cmd", "send", "look up",
                   "execute", "run"}
  BY Constants DEF LoopPc
<1>1. CASE ClearSms(l)
  <2>1. prefs' \in Prefs
    BY <1>0, <1>1 DEF ClearSms, Prefs
  <2>2. loop' \in [Loops -> LoopState]
    BY <1>1, OnwardType
  <2> QED
    BY <1>1, <2>1, <2>2 DEF ClearSms, server, ghosts
<1>2. CASE ClearCmd(l)
  <2>1. prefs' \in Prefs
    BY <1>0, <1>2 DEF ClearCmd, Prefs
  <2>2. loop' \in [Loops -> LoopState]
    BY <1>2, OnwardType
  <2> QED
    BY <1>2, <2>1, <2>2 DEF ClearCmd, server, ghosts
<1>3. CASE SendSms(l)
  <2>1. PICK m \in loop[l].messages :
          /\ sends' = [sends EXCEPT ![m] = @ + 1]
          /\ loop' = [loop EXCEPT ![l].messages = @ \ {m}, ![l].sms.ok = @ \cup {m}]
    BY <1>3 DEF SendSms
  <2>2. m \in Messages
    BY <1>0 DEF LoopState
  <2> DEFINE r == [loop[l].sms EXCEPT !.ok = loop[l].sms.ok \cup {m}]
             p == [loop[l] EXCEPT !.messages = loop[l].messages \ {m}, !.sms = r]
  <2>3. r \in SmsReports
    BY <1>0, <2>2 DEF LoopState, SmsReports
  <2>4. p \in LoopState
    BY <1>0, <2>3 DEF LoopState
  <2>5. loop' = [loop EXCEPT ![l] = p]
    BY <1>0, <2>1 DEF LoopState
  <2>6. loop' \in [Loops -> LoopState]
    BY <2>4, <2>5
  <2>7. sends' \in [Messages -> Nat]
    BY <2>1, <2>2, CountType
  <2> QED
    BY <1>3, <2>6, <2>7 DEF SendSms, server, store
<1>4. CASE RefuseSms(l)
  <2>1. PICK m \in loop[l].messages :
          loop' = [loop EXCEPT ![l].messages = @ \ {m}, ![l].sms.failed = @ \cup {m}]
    BY <1>4 DEF RefuseSms
  <2>2. m \in Messages
    BY <1>0 DEF LoopState
  <2> DEFINE r == [loop[l].sms EXCEPT !.failed = loop[l].sms.failed \cup {m}]
             p == [loop[l] EXCEPT !.messages = loop[l].messages \ {m}, !.sms = r]
  <2>3. r \in SmsReports
    BY <1>0, <2>2 DEF LoopState, SmsReports
  <2>4. p \in LoopState
    BY <1>0, <2>3 DEF LoopState
  <2>5. loop' = [loop EXCEPT ![l] = p]
    BY <1>0, <2>1 DEF LoopState
  <2> QED
    BY <1>4, <2>4, <2>5 DEF RefuseSms, server, store, ghosts
<1>5. CASE SaveSms(l)
  <2>1. prefs' \in Prefs
    BY <1>0, <1>5 DEF SaveSms, Prefs, LoopState
  <2>2. loop' \in [Loops -> LoopState]
    BY <1>5, OnwardType
  <2> QED
    BY <1>5, <2>1, <2>2 DEF SaveSms, server, ghosts
<1>6. CASE LookUp(l)
  <2>1. [loop[l] EXCEPT !.pc = "execute", !.executed = prefs.executed] \in LoopState
    BY <1>0 DEF LoopState, Prefs
  <2>2. loop' \in [Loops -> LoopState]
    BY <1>6, <2>1, DoneType DEF LookUp
  <2> QED
    BY <1>6, <2>2 DEF LookUp, server, store, ghosts
<1>7. CASE Reack(l)
  <2>1. PICK c \in loop[l].commands :
          loop' = [loop EXCEPT ![l].commands = @ \ {c}, ![l].cmd.ok = @ \cup {c}]
    BY <1>7 DEF Reack
  <2>2. c \in Commands
    BY <1>0 DEF LoopState
  <2> DEFINE r == [loop[l].cmd EXCEPT !.ok = loop[l].cmd.ok \cup {c}]
             p == [loop[l] EXCEPT !.commands = loop[l].commands \ {c}, !.cmd = r]
  <2>3. r \in CmdReports
    BY <1>0, <2>2 DEF LoopState, CmdReports
  <2>4. p \in LoopState
    BY <1>0, <2>3 DEF LoopState
  <2>5. loop' = [loop EXCEPT ![l] = p]
    BY <1>0, <2>1 DEF LoopState
  <2> QED
    BY <1>7, <2>4, <2>5 DEF Reack, server, store, ghosts
<1>8. CASE AddExecuted(l)
  <2>1. PICK c \in loop[l].commands :
          /\ prefs' = [prefs EXCEPT !.executed = @ \cup {c}]
          /\ loop' = [loop EXCEPT ![l].pc = "run", ![l].commands = @ \ {c}, ![l].now = {c}]
    BY <1>8 DEF AddExecuted
  <2>2. c \in Commands
    BY <1>0 DEF LoopState
  <2>3. prefs' \in Prefs
    BY <2>1, <2>2 DEF Prefs
  <2> DEFINE p == [loop[l] EXCEPT !.pc = "run", !.commands = loop[l].commands \ {c}, !.now = {c}]
  <2>4. p \in LoopState
    BY <1>0, <2>2 DEF LoopState
  <2>5. loop' = [loop EXCEPT ![l] = p]
    BY <1>0, <2>1 DEF LoopState
  <2> QED
    BY <1>8, <2>3, <2>4, <2>5 DEF AddExecuted, server, ghosts
<1>9. CASE HandleCommand(l)
  <2>1. PICK c \in loop[l].now :
          /\ runs' = [runs EXCEPT ![c] = @ + 1]
          /\ loop' = [loop EXCEPT ![l].pc = "execute", ![l].now = {}, ![l].cmd = Reported(@, c)]
    BY <1>9 DEF HandleCommand
  <2>2. c \in Commands
    BY <1>0 DEF LoopState
  <2> DEFINE r == Reported(loop[l].cmd, c)
             p == [loop[l] EXCEPT !.pc = "execute", !.now = {}, !.cmd = r]
  <2>3. r \in CmdReports
    BY <1>0, <2>2 DEF LoopState, CmdReports, Reported
  <2>4. p \in LoopState
    BY <1>0, <2>3 DEF LoopState
  <2>5. loop' = [loop EXCEPT ![l] = p]
    BY <1>0, <2>1 DEF LoopState
  <2>6. runs' \in [Commands -> Nat]
    BY <2>1, <2>2, CountType
  <2> QED
    BY <1>9, <2>4, <2>5, <2>6 DEF HandleCommand, server, store
<1>10. CASE SaveCmd(l)
  <2>1. prefs' \in Prefs
    BY <1>0, <1>10 DEF SaveCmd, Prefs, LoopState
  <2>2. loop' \in [Loops -> LoopState]
    BY <1>10, DoneType DEF SaveCmd, EndPoll
  <2> QED
    BY <1>10, <2>1, <2>2 DEF SaveCmd, server, ghosts
<1> QED
  BY <1>1, <1>2, <1>3, <1>4, <1>5, <1>6, <1>7, <1>8, <1>9, <1>10 DEF Poll

\* A loop is opened at a place that is free.
LEMMA OpenedLoop ==
  ASSUME TypeOK, NEW loops \in [Loops -> LoopState], Free # {}
  PROVE  \E k \in Loops : /\ Doing(k, "off") /\ Opened(loops) = [loops EXCEPT ![k] = Asleep]
                          /\ Opened(loops) \in [Loops -> LoopState]
BY Constants DEF Free, Opened

LEMMA AbandonedType ==
  ASSUME TypeOK, NEW calls \in SUBSET Handlers, Abandoned(calls)
  PROVE  handler' \in [Handlers -> Call]
BY Constants DEF TypeOK, Abandoned

LEMMA SpentType ==
  ASSUME TypeOK, CanFail
  PROVE  LET Spent == [losses : 0..MaxFaults, kills : 0..MaxFaults, restarts : 0..MaxFaults,
                       toggles : 0..MaxToggles]
         IN  /\ [spent EXCEPT !.losses = @ + 1] \in Spent
             /\ [spent EXCEPT !.kills = @ + 1] \in Spent
             /\ [spent EXCEPT !.restarts = @ + 1] \in Spent
BY SmsGatewayAssumption DEF TypeOK, CanFail, Faults

LEMMA AppType ==
  ASSUME TypeOK,
         \/ \E l \in Loops : Begin(l) \/ ConnectionLost(l)
         \/ Flush \/ Start \/ Restart \/ Kill
  PROVE  TypeOK'
<1> USE DEF TypeOK
<1>1. ASSUME NEW l \in Loops, Begin(l)
      PROVE  TypeOK'
  <2>1. PICK h \in Handlers :
          /\ handler' = [handler EXCEPT ![h] = [NoCall EXCEPT !.pc = "receive",
                                                              !.sms = prefs.sms, !.cmd = prefs.cmd]]
          /\ loop' = [loop EXCEPT ![l] = [@ EXCEPT !.pc = "await", !.call = {h},
                                                   !.hadSms = prefs.sms # NoReports,
                                                   !.hadCmd = prefs.cmd # NoReports]]
    BY <1>1 DEF Begin
  <2>2. [NoCall EXCEPT !.pc = "receive", !.sms = prefs.sms, !.cmd = prefs.cmd] \in Call
    BY Constants DEF Call, Prefs
  <2>3. loop[l] \in LoopState
    OBVIOUS
  <2>4. [loop[l] EXCEPT !.pc = "await", !.call = {h}, !.hadSms = prefs.sms # NoReports,
                        !.hadCmd = prefs.cmd # NoReports] \in LoopState
    BY <2>3 DEF LoopState, LoopPc
  <2>5. handler' \in [Handlers -> Call]
    BY <2>1, <2>2
  <2>6. loop' \in [Loops -> LoopState]
    BY <2>1, <2>4
  <2> QED
    BY <1>1, <2>5, <2>6 DEF Begin, server, store, ghosts
<1>2. ASSUME NEW l \in Loops, ConnectionLost(l)
      PROVE  TypeOK'
  <2>1. loop[l].call \in SUBSET Handlers
    BY DEF LoopState
  <2>2. handler' \in [Handlers -> Call]
    BY <1>2, <2>1, AbandonedType DEF ConnectionLost
  <2>3. loop' \in [Loops -> LoopState]
    BY <1>2, DoneType DEF ConnectionLost, EndPoll
  <2> QED
    BY <1>2, <2>2, <2>3, SpentType DEF ConnectionLost, server, store, ghosts
<1>3. CASE Flush
  BY <1>3 DEF Flush, server, ghosts
<1>4. CASE Start
  <2>1. loop' \in [Loops -> LoopState]
    BY <1>4, OpenedLoop DEF Start
  <2> QED
    BY <1>4, <2>1 DEF Start, server, store, ghosts
<1>5. CASE Restart
  <2>1. PICK l \in Loops : /\ loop' = Opened([loop EXCEPT ![l].stopped = TRUE])
                           /\ Free # {} /\ CanFail
                           /\ spent' = [spent EXCEPT !.restarts = @ + 1]
    BY <1>5 DEF Restart
  <2>2. [loop[l] EXCEPT !.stopped = TRUE] \in LoopState
    BY LoopFields DEF LoopPc
  <2>3. [loop EXCEPT ![l].stopped = TRUE] \in [Loops -> LoopState]
    BY <2>2
  <2>4. loop' \in [Loops -> LoopState]
    BY <2>1, <2>3, OpenedLoop
  <2>5. spent' \in [losses : 0..MaxFaults, kills : 0..MaxFaults, restarts : 0..MaxFaults,
                    toggles : 0..MaxToggles]
    BY <2>1, SpentType
  <2>6. UNCHANGED <<message, command, gateway, barred, handler, prefs, disk, sends, runs, forgotten,
                  retries>>
    BY <1>5 DEF Restart, server, store, ghosts
  <2> QED
    BY <2>4, <2>5, <2>6
<1>6. CASE Kill
  <2>1. UNION {loop[l].call : l \in Loops} \in SUBSET Handlers
    BY DEF LoopState
  <2>2. handler' \in [Handlers -> Call]
    BY <1>6, <2>1, AbandonedType DEF Kill
  <2>3. forgotten' \subseteq Commands
    BY <1>6 DEF Kill, Prefs
  <2>4. loop' \in [Loops -> LoopState]
    BY <1>6, Constants DEF Kill
  <2> QED
    BY <1>6, <2>2, <2>3, <2>4, SpentType DEF Kill, server
<1> QED
  BY <1>1, <1>2, <1>3, <1>4, <1>5, <1>6

LEMMA NextType == TypeOK /\ Next => TypeOK'
BY AdminType, HandleType, PollType, AppType DEF Next
-----------------------------------------------------------------------------
(* Messages: who waits for what, and what is on its way to the SIM.         *)

\* Steps that touch no call and no message: loops go on, handlers work.
Still(l) == /\ loop'[l].messages = loop[l].messages /\ loop'[l].call = loop[l].call
            /\ loop[l].call # {} => Doing(l, "await")'
            /\ loop[l].messages # {} => loop'[l].pc \in {"clear sms", "clear cmd", "send"}
Working(h) == /\ handler'[h].messages = handler[h].messages
              /\ handler[h].messages # {} => At(h, "answer")'
              /\ At(h, "idle")' => At(h, "idle")

LEMMA StillKeeps ==
  ASSUME TypeOK, OneWaits, InHand, \A l \in Loops : Still(l), \A h \in Handlers : Working(h)
  PROVE  OneWaits' /\ InHand'
<1>1. OneWaits'
  <2>1. \A l \in Loops : loop[l].call \subseteq Handlers
    BY DEF TypeOK, LoopState
  <2> QED
    BY <2>1 DEF OneWaits, Still, Working
<1>2. InHand'
  BY DEF InHand, Still, Working
<1> QED
  BY <1>1, <1>2

LEMMA StillCounts ==
  ASSUME SendsCounted, UNCHANGED <<sends, retries>>,
         \A m \in Messages : Due(m)' = Due(m),
         \A l \in Loops : loop'[l].messages = loop[l].messages,
         \A h \in Handlers : handler'[h].messages = handler[h].messages
  PROVE  SendsCounted'
<1>1. ASSUME NEW m \in Messages
      PROVE  Calls(m)' = Calls(m) /\ Polls(m)' = Polls(m)
  BY DEF Calls, Polls
<1> QED
  BY <1>1 DEF SendsCounted

\* What is counted are numbers.
LEMMA Numbers ==
  ASSUME TypeOK, SendsCounted, NEW m \in Messages
  PROVE  /\ sends[m] \in Nat /\ retries[m] \in Nat /\ Due(m) \in {0, 1}
         /\ Cardinality(Calls(m)) \in Nat /\ Cardinality(Polls(m)) \in Nat
BY FS_CardinalityType DEF TypeOK, SendsCounted, Due

LEMMA AdminSends ==
  ASSUME TypeOK, Sending, Admin
  PROVE  Sending'
<1>1. UNCHANGED <<handler, loop, sends>>
  BY DEF Admin, Enqueue, MarkFailed, RetryMessage, EnqueueCommand, SetDeviceSmsGateway, ghosts
<1>2. OneWaits' /\ InHand'
  BY <1>1 DEF Sending, OneWaits, InHand, At, Doing
<1>3. \A m \in Messages : Calls(m)' = Calls(m) /\ Polls(m)' = Polls(m)
  BY <1>1 DEF Calls, Polls
<1>4. ASSUME NEW m \in Messages
      PROVE  Due(m)' - retries'[m] <= Due(m) - retries[m] /\ Due(m)' \in Nat /\ retries'[m] \in Nat
  <2>1. retries[m] \in Nat /\ Due(m) \in {0, 1}
    BY DEF TypeOK, Due
  <2>2. ASSUME NEW n \in Messages, Enqueue(n)
        PROVE  Due(m)' = Due(m) /\ retries' = retries
    BY <2>2 DEF Enqueue, Due, TypeOK
  <2>3. ASSUME NEW n \in Messages, RetryMessage(n)
        PROVE  Due(m)' - retries'[m] <= Due(m) - retries[m] /\ Due(m)' \in Nat /\ retries'[m] \in Nat
    <3>1. /\ retries' = [retries EXCEPT ![n] = retries[n] + 1]
          /\ message' = [message EXCEPT ![n] = "pending"]
      BY <2>3 DEF RetryMessage
    <3>2. CASE n = m
      BY <2>1, <3>1, <3>2 DEF TypeOK, Due
    <3>3. CASE n # m
      <4>1. message'[m] = message[m] /\ retries'[m] = retries[m]
        BY <3>1, <3>3 DEF TypeOK
      <4> QED
        BY <2>1, <4>1 DEF Due
    <3> QED
      BY <3>2, <3>3
  <2>4. CASE UNCHANGED <<message, retries>>
    BY <2>1, <2>4 DEF Due
  <2>5. ASSUME NEW n \in Messages, MarkFailed(n)
        PROVE  Due(m)' - retries'[m] <= Due(m) - retries[m] /\ Due(m)' \in Nat /\ retries'[m] \in Nat
    <3>1. message' = [message EXCEPT ![n] = "failed"] /\ retries' = retries
      BY <2>5 DEF MarkFailed
    <3>2. message'[m] \in {message[m], "failed"}
      BY <3>1 DEF TypeOK
    <3> QED
      BY <2>1, <3>1, <3>2 DEF Due
  <2> QED
    BY <2>1, <2>2, <2>3, <2>4, <2>5 DEF Admin, EnqueueCommand, SetDeviceSmsGateway
<1>5. SendsCounted'
  <2>1. ASSUME NEW m \in Messages
        PROVE  /\ IsFiniteSet(Calls(m))' /\ IsFiniteSet(Polls(m))'
               /\ sends'[m] + Due(m)' + Cardinality(Calls(m))' + Cardinality(Polls(m))' <= 1 + retries'[m]
    <3>1. IsFiniteSet(Calls(m)) /\ IsFiniteSet(Polls(m))
          /\ sends[m] + Due(m) + Cardinality(Calls(m)) + Cardinality(Polls(m)) <= 1 + retries[m]
      BY DEF Sending, SendsCounted
    <3>2. /\ sends[m] \in Nat /\ retries[m] \in Nat /\ Due(m) \in {0, 1}
          /\ Cardinality(Calls(m)) \in Nat /\ Cardinality(Polls(m)) \in Nat
      BY Numbers DEF Sending
    <3> QED
      BY <1>1, <1>3, <1>4, <3>1, <3>2
  <2> QED
    BY <2>1 DEF SendsCounted
<1> QED
  BY <1>2, <1>5 DEF Sending

\* A step of a handler that hands out no message.
LEMMA WorkingStep ==
  ASSUME TypeOK, Sending, NEW h \in Handlers, NEW r, handler' = [handler EXCEPT ![h] = r],
         handler[h].pc \notin {"idle", "answer"}, r.pc # "idle", r.messages = handler[h].messages,
         UNCHANGED <<loop, sends, retries>>, \A m \in Messages : Due(m)' = Due(m)
  PROVE  Sending'
<1>1. handler'[h] = r /\ \A g \in Handlers \ {h} : handler'[g] = handler[g]
  BY DEF TypeOK
<1>2. handler[h].messages = {}
  BY DEF Sending, InHand, At
<1>3. \A g \in Handlers : Working(g)
  BY <1>1, <1>2 DEF Working, Sending, InHand, At
<1>4. \A l \in Loops : Still(l)
  BY DEF Still, Sending, OneWaits, InHand, Doing
<1>5. OneWaits' /\ InHand'
  BY <1>3, <1>4, StillKeeps DEF Sending
<1>6. SendsCounted'
  BY <1>3, <1>4, StillCounts DEF Sending, Working, Still
<1> QED
  BY <1>5, <1>6 DEF Sending

LEMMA HandlerSends ==
  ASSUME TypeOK, Sending, NEW h \in Handlers,
         \/ Receive(h) \/ ApplyRemoteCommandReport(h) \/ ApplySmsReport(h)
         \/ SelectCommands(h) \/ MarkCommands(h) \/ SkipSms(h)
  PROVE  Sending'
<1>1. handler[h] \in Call
  BY DEF TypeOK
<1>2. UNCHANGED <<loop, sends, retries>>
  BY DEF Receive, ApplyRemoteCommandReport, ApplySmsReport, SelectCommands, MarkCommands, SkipSms,
         ghosts
<1>3. handler[h].pc \in {"receive", "commands", "mark", "claim"}
  BY DEF Receive, ApplyRemoteCommandReport, ApplySmsReport, SelectCommands, MarkCommands, SkipSms, At
<1>4. \A m \in Messages : Due(m)' = Due(m)
  <2>1. CASE UNCHANGED message
    BY <2>1 DEF Due
  <2>2. CASE ApplySmsReport(h)
    <3>1. PICK n \in Ids(handler[h].sms) :
            message' = IF Claimed(n)
                       THEN [message EXCEPT ![n] = IF n \in handler[h].sms.ok THEN "delivered"
                                                   ELSE "failed"]
                       ELSE message
      BY <2>2 DEF ApplySmsReport
    <3>2. \A m \in Messages : \/ message'[m] = message[m]
                              \/ /\ message[m] \in {"sent", "delivered", "failed"}
                                 /\ message'[m] \in {"delivered", "failed"}
      BY <3>1 DEF TypeOK, Claimed
    <3> QED
      BY <3>2 DEF Due
  <2> QED
    BY <2>1, <2>2
    DEF Receive, ApplyRemoteCommandReport, SelectCommands, MarkCommands, SkipSms, server
<1>5. \E r : /\ handler' = [handler EXCEPT ![h] = r]
             /\ r.pc # "idle" /\ r.messages = handler[h].messages
  <2>1. CASE Receive(h)
    <3> DEFINE r == [handler[h] EXCEPT !.pc = "commands", !.gateway = gateway]
    <3>1. handler' = [handler EXCEPT ![h] = r]
      BY <2>1 DEF Receive
    <3>2. r.pc = "commands" /\ r.messages = handler[h].messages
      BY <1>1 DEF Call
    <3> QED
      BY <3>1, <3>2
  <2>2. CASE ApplyRemoteCommandReport(h)
    <3>1. PICK c : handler' = [handler EXCEPT ![h].cmd = [ok |-> @.ok \ {c}, failed |-> @.failed \ {c}]]
      BY <2>2 DEF ApplyRemoteCommandReport
    <3> DEFINE r == [handler[h] EXCEPT !.cmd = [ok |-> handler[h].cmd.ok \ {c},
                                                failed |-> handler[h].cmd.failed \ {c}]]
    <3>2. handler' = [handler EXCEPT ![h] = r]
      BY <3>1
    <3>3. r.pc = handler[h].pc /\ r.messages = handler[h].messages
      BY <1>1 DEF Call
    <3> QED
      BY <1>3, <3>2, <3>3
  <2>3. CASE ApplySmsReport(h)
    <3>1. PICK m : handler' = [handler EXCEPT ![h].sms = [ok |-> @.ok \ {m}, failed |-> @.failed \ {m}]]
      BY <2>3 DEF ApplySmsReport
    <3> DEFINE r == [handler[h] EXCEPT !.sms = [ok |-> handler[h].sms.ok \ {m},
                                                failed |-> handler[h].sms.failed \ {m}]]
    <3>2. handler' = [handler EXCEPT ![h] = r]
      BY <3>1
    <3>3. r.pc = handler[h].pc /\ r.messages = handler[h].messages
      BY <1>1 DEF Call
    <3> QED
      BY <1>3, <3>2, <3>3
  <2>4. CASE SelectCommands(h)
    <3> DEFINE r == [handler[h] EXCEPT !.pc = "mark", !.commands = Outstanding]
    <3>1. handler' = [handler EXCEPT ![h] = r]
      BY <2>4 DEF SelectCommands
    <3>2. r.pc = "mark" /\ r.messages = handler[h].messages
      BY <1>1 DEF Call
    <3> QED
      BY <3>1, <3>2
  <2>5. CASE MarkCommands(h)
    <3> DEFINE r == [handler[h] EXCEPT !.pc = "claim"]
    <3>1. handler' = [handler EXCEPT ![h] = r]
      BY <2>5 DEF MarkCommands
    <3>2. r.pc = "claim" /\ r.messages = handler[h].messages
      BY <1>1 DEF Call
    <3> QED
      BY <3>1, <3>2
  <2>6. CASE SkipSms(h)
    <3> DEFINE r == [handler[h] EXCEPT !.pc = "answer", !.gateway = FALSE]
    <3>1. handler' = [handler EXCEPT ![h] = r]
      BY <2>6 DEF SkipSms
    <3>2. r.pc = "answer" /\ r.messages = handler[h].messages
      BY <1>1 DEF Call
    <3> QED
      BY <3>1, <3>2
  <2> QED
    BY <2>1, <2>2, <2>3, <2>4, <2>5, <2>6
<1> QED
  BY <1>2, <1>3, <1>4, <1>5, WorkingStep

\* The claim: what was due is in one answer.
LEMMA ClaimSends ==
  ASSUME TypeOK, Sending, NEW h \in Handlers, ClaimSms(h)
  PROVE  Sending'
<1> DEFINE r == [handler[h] EXCEPT !.pc = "answer", !.gateway = FALSE, !.messages = Claimable]
<1>1. handler' = [handler EXCEPT ![h] = r] /\ UNCHANGED <<loop, sends, retries>>
      /\ message' = [m \in Messages |-> IF m \in Claimable THEN "sent" ELSE message[m]]
      /\ handler[h].pc = "claim"
  BY DEF ClaimSms, ghosts, At
<1>2. r.pc = "answer" /\ r.messages = Claimable
  BY DEF TypeOK, Call
<1> HIDE DEF r
<1>3. handler'[h] = r /\ \A g \in Handlers \ {h} : handler'[g] = handler[g]
  BY <1>1 DEF TypeOK
<1>4. handler[h].messages = {}
  BY <1>1 DEF Sending, InHand, At
<1>5. InHand'
  BY <1>1, <1>2, <1>3 DEF Sending, InHand, At
<1>6. OneWaits'
  <2>1. \A l \in Loops : loop[l].call \subseteq Handlers
    BY DEF TypeOK, LoopState
  <2>2. \A g \in Handlers : At(g, "idle")' => At(g, "idle")
    BY <1>2, <1>3 DEF At
  <2> QED
    BY <1>1, <2>1, <2>2 DEF Sending, OneWaits, Doing
<1>7. ASSUME NEW m \in Messages
      PROVE  /\ IsFiniteSet(Calls(m))' /\ IsFiniteSet(Polls(m))'
             /\ sends'[m] + Due(m)' + Cardinality(Calls(m))' + Cardinality(Polls(m))' <= 1 + retries'[m]
  <2>1. /\ IsFiniteSet(Calls(m)) /\ IsFiniteSet(Polls(m))
        /\ sends[m] + Due(m) + Cardinality(Calls(m)) + Cardinality(Polls(m)) <= 1 + retries[m]
    BY DEF Sending, SendsCounted
  <2>2. /\ sends[m] \in Nat /\ retries[m] \in Nat /\ Due(m) \in {0, 1}
        /\ Cardinality(Calls(m)) \in Nat /\ Cardinality(Polls(m)) \in Nat
    BY Numbers DEF Sending
  <2>3. Polls(m)' = Polls(m) /\ sends'[m] = sends[m] /\ retries'[m] = retries[m]
    BY <1>1 DEF Polls
  <2>4. CASE m \in Claimable
    <3>1. Due(m) = 1 /\ Due(m)' = 0
      BY <1>1, <2>4 DEF Due, Claimable
    <3>2. Calls(m)' = Calls(m) \cup {h} /\ h \notin Calls(m)
      BY <1>2, <1>3, <1>4, <2>4 DEF Calls
    <3>3. IsFiniteSet(Calls(m))' /\ Cardinality(Calls(m))' = Cardinality(Calls(m)) + 1
      BY <2>1, <3>2, FS_AddElement
    <3> QED
      BY <2>1, <2>2, <2>3, <3>1, <3>3
  <2>5. CASE m \notin Claimable
    <3>1. Due(m)' = Due(m)
      BY <1>1, <2>5 DEF Due
    <3>2. Calls(m)' = Calls(m)
      BY <1>2, <1>3, <1>4, <2>5 DEF Calls
    <3> QED
      BY <2>1, <2>3, <3>1, <3>2
  <2> QED
    BY <2>4, <2>5
<1> QED
  BY <1>5, <1>6, <1>7 DEF Sending, SendsCounted

\* The answer: from the handler to the loop that waits for it, if there is one.
LEMMA AnswerSends ==
  ASSUME TypeOK, Sending, NEW h \in Handlers, Answer(h)
  PROVE  Sending'
<1>1. /\ handler' = [handler EXCEPT ![h] = NoCall] /\ handler[h].pc = "answer"
      /\ UNCHANGED <<message, sends, retries>>
      /\ loop' = [l \in Loops |->
                    IF h \in loop[l].call
                    THEN [loop[l] EXCEPT !.pc = "clear sms", !.call = {},
                                         !.messages = handler[h].messages,
                                         !.commands = handler[h].commands]
                    ELSE loop[l]]
  BY DEF Answer, server, ghosts, At
<1>2. handler'[h] = NoCall /\ \A g \in Handlers \ {h} : handler'[g] = handler[g]
  BY <1>1 DEF TypeOK
<1>3. NoCall.messages = {} /\ NoCall.pc = "idle"
  BY DEF NoCall
<1>4. \A l \in Loops : h \notin loop[l].call => loop'[l] = loop[l]
  BY <1>1
<1>5. ASSUME NEW l \in Loops, h \in loop[l].call
      PROVE  /\ loop'[l].pc = "clear sms" /\ loop'[l].call = {}
             /\ loop'[l].messages = handler[h].messages
             /\ loop[l].messages = {}
  <2>1. loop[l] \in LoopState
    BY DEF TypeOK
  <2>2. loop'[l] = [loop[l] EXCEPT !.pc = "clear sms", !.call = {},
                                   !.messages = handler[h].messages,
                                   !.commands = handler[h].commands]
    BY <1>1, <1>5
  <2>3. loop[l].pc = "await"
    BY <1>5 DEF Sending, OneWaits, Doing
  <2> QED
    BY <2>1, <2>2, <2>3 DEF LoopState, Sending, InHand
<1>6. InHand'
  <2>1. \A g \in Handlers : handler'[g].messages # {} => At(g, "answer")'
    BY <1>2, <1>3 DEF Sending, InHand, At
  <2>2. \A l \in Loops : loop'[l].messages # {} => loop'[l].pc \in {"clear sms", "clear cmd", "send"}
    BY <1>4, <1>5 DEF Sending, InHand
  <2> QED
    BY <2>1, <2>2 DEF InHand
<1>7. OneWaits'
  <2>1. \A l \in Loops : loop'[l].call # {} => loop'[l] = loop[l] /\ h \notin loop[l].call
    BY <1>4, <1>5
  <2>2. \A l \in Loops : loop[l].call \subseteq Handlers
    BY DEF TypeOK, LoopState
  <2>3. \A l \in Loops : \A g \in loop'[l].call : handler'[g] = handler[g]
    BY <1>2, <2>1, <2>2
  <2> QED
    BY <2>1, <2>3 DEF Sending, OneWaits, Doing, At
<1>8. ASSUME NEW m \in Messages
      PROVE  /\ IsFiniteSet(Calls(m))' /\ IsFiniteSet(Polls(m))'
             /\ sends'[m] + Due(m)' + Cardinality(Calls(m))' + Cardinality(Polls(m))' <= 1 + retries'[m]
  <2>1. /\ IsFiniteSet(Calls(m)) /\ IsFiniteSet(Polls(m))
        /\ sends[m] + Due(m) + Cardinality(Calls(m)) + Cardinality(Polls(m)) <= 1 + retries[m]
    BY DEF Sending, SendsCounted
  <2>2. /\ sends[m] \in Nat /\ retries[m] \in Nat /\ Due(m) \in {0, 1}
        /\ Cardinality(Calls(m)) \in Nat /\ Cardinality(Polls(m)) \in Nat
    BY Numbers DEF Sending
  <2>3. Due(m)' = Due(m) /\ sends'[m] = sends[m] /\ retries'[m] = retries[m]
    BY <1>1 DEF Due
  <2>4. Calls(m)' = Calls(m) \ {h}
    BY <1>2, <1>3 DEF Calls
  <2>5. CASE m \notin handler[h].messages
    <3>1. Calls(m)' = Calls(m)
      BY <2>4, <2>5 DEF Calls
    <3>2. Polls(m)' = Polls(m)
      BY <1>4, <1>5, <2>5 DEF Polls
    <3> QED
      BY <2>1, <2>3, <3>1, <3>2
  <2>6. CASE m \in handler[h].messages
    <3>1. h \in Calls(m)
      BY <2>6 DEF Calls
    <3>2. IsFiniteSet(Calls(m))' /\ Cardinality(Calls(m))' = Cardinality(Calls(m)) - 1
      BY <2>1, <2>4, <3>1, FS_RemoveElement
    <3>3. CASE \A l \in Loops : h \notin loop[l].call
      <4>1. Polls(m)' = Polls(m)
        BY <1>4, <3>3 DEF Polls
      <4> QED
        BY <2>1, <2>2, <2>3, <3>2, <4>1
    <3>4. ASSUME NEW l \in Loops, h \in loop[l].call
          PROVE  /\ IsFiniteSet(Calls(m))' /\ IsFiniteSet(Polls(m))'
                 /\ sends'[m] + Due(m)' + Cardinality(Calls(m))' + Cardinality(Polls(m))' <= 1 + retries'[m]
      <4>1. \A k \in Loops \ {l} : loop'[k] = loop[k]
        BY <1>4, <3>4 DEF Sending, OneWaits
      <4>2. l \notin Polls(m) /\ Polls(m)' = Polls(m) \cup {l}
        BY <1>5, <2>6, <3>4, <4>1 DEF Polls
      <4>3. IsFiniteSet(Polls(m))' /\ Cardinality(Polls(m))' = Cardinality(Polls(m)) + 1
        BY <2>1, <4>2, FS_AddElement
      <4> QED
        BY <2>1, <2>2, <2>3, <3>2, <4>3
    <3> QED
      BY <3>3, <3>4
  <2> QED
    BY <2>5, <2>6
<1> QED
  BY <1>6, <1>7, <1>8 DEF Sending, SendsCounted

\* A step of a loop that sends nothing and awaits nothing.
LEMMA LoopStep ==
  ASSUME TypeOK, Sending, NEW l \in Loops, NEW p, loop' = [loop EXCEPT ![l] = p],
         loop[l].pc # "await", p.call = {}, p.messages = loop[l].messages,
         p.messages # {} => p.pc \in {"clear sms", "clear cmd", "send"},
         UNCHANGED <<handler, message, sends, retries>>
  PROVE  Sending'
<1>1. loop'[l] = p /\ \A k \in Loops \ {l} : loop'[k] = loop[k]
  BY DEF TypeOK
<1>2. loop[l].call = {}
  BY DEF Sending, OneWaits, Doing
<1>3. \A k \in Loops : Still(k)
  BY <1>1, <1>2 DEF Still, Sending, OneWaits, InHand, Doing
<1>4. \A h \in Handlers : Working(h)
  BY DEF Working, Sending, InHand, At
<1>5. OneWaits' /\ InHand'
  BY <1>3, <1>4, StillKeeps DEF Sending
<1>6. \A m \in Messages : Due(m)' = Due(m)
  BY DEF Due
<1>7. SendsCounted'
  BY <1>3, <1>6, StillCounts DEF Sending, Still
<1> QED
  BY <1>5, <1>7 DEF Sending

LEMMA DoneEmpty == \A l \in Loops : Done(l).call = {} /\ Done(l).messages = {}
BY DEF Done, Off, Asleep

LEMMA QuietPollSends ==
  ASSUME TypeOK, Sending, NEW l \in Loops,
         \/ ClearSms(l) \/ ClearCmd(l) \/ SaveSms(l) \/ LookUp(l) \/ Reack(l)
         \/ AddExecuted(l) \/ HandleCommand(l) \/ SaveCmd(l)
  PROVE  Sending'
<1>1. loop[l] \in LoopState
  BY DEF TypeOK
<1>2. UNCHANGED <<handler, message, sends, retries>>
  BY DEF ClearSms, ClearCmd, SaveSms, LookUp, Reack, AddExecuted, HandleCommand, SaveCmd,
         server, ghosts
<1>3. loop[l].pc \in {"clear sms", "clear cmd", "send", "look up", "execute", "run"}
  BY DEF ClearSms, ClearCmd, SaveSms, LookUp, Reack, AddExecuted, HandleCommand, SaveCmd, Doing
<1>4. loop[l].call = {}
  BY <1>3 DEF Sending, OneWaits, Doing
<1>5. loop[l].messages # {} => loop[l].pc \in {"clear sms", "clear cmd", "send"}
  BY DEF Sending, InHand
<1>6. ASSUME NEW p, loop' = [loop EXCEPT ![l] = p], p.call = {}, p.messages = loop[l].messages,
             p.messages # {} => p.pc \in {"clear sms", "clear cmd", "send"}
      PROVE  Sending'
  BY <1>2, <1>3, <1>6, LoopStep
<1>7. CASE ClearSms(l) \/ ClearCmd(l) \/ SaveSms(l)
  <2>1. PICK p : Onward(l, p)
    BY <1>7, GoesOn
  <2> QED
    BY <1>4, <1>6, <2>1 DEF Onward
<1>8. ASSUME loop' = [loop EXCEPT ![l] = Done(l)], loop[l].messages = {}
      PROVE  Sending'
  BY <1>6, <1>8, DoneEmpty
<1>12. CASE LookUp(l)
  <2>1. loop[l].messages = {}
    BY <1>5, <1>12 DEF LookUp, Doing
  <2>2. CASE loop[l].commands # {}
    <3> DEFINE p == [loop[l] EXCEPT !.pc = "execute", !.executed = prefs.executed]
    <3>1. loop' = [loop EXCEPT ![l] = p]
      BY <1>12, <2>2 DEF LookUp
    <3>2. p.call = {} /\ p.messages = loop[l].messages
      BY <1>1, <1>4 DEF LoopState
    <3> QED
      BY <1>6, <2>1, <3>1, <3>2
  <2> QED
    BY <1>8, <1>12, <2>1, <2>2 DEF LookUp
<1>13. CASE Reack(l)
  <2>1. PICK c : loop' = [loop EXCEPT ![l].commands = @ \ {c}, ![l].cmd.ok = @ \cup {c}]
    BY <1>13 DEF Reack
  <2> DEFINE r == [loop[l].cmd EXCEPT !.ok = loop[l].cmd.ok \cup {c}]
             p == [loop[l] EXCEPT !.commands = loop[l].commands \ {c}, !.cmd = r]
  <2>2. loop' = [loop EXCEPT ![l] = p]
    BY <1>1, <2>1 DEF LoopState
  <2>3. p.call = {} /\ p.messages = loop[l].messages /\ p.messages = {}
    BY <1>1, <1>4, <1>5, <1>13 DEF LoopState, Reack, Doing
  <2> QED
    BY <1>6, <2>2, <2>3
<1>14. CASE AddExecuted(l)
  <2>1. PICK c : loop' = [loop EXCEPT ![l].pc = "run", ![l].commands = @ \ {c}, ![l].now = {c}]
    BY <1>14 DEF AddExecuted
  <2> DEFINE p == [loop[l] EXCEPT !.pc = "run", !.commands = loop[l].commands \ {c}, !.now = {c}]
  <2>2. loop' = [loop EXCEPT ![l] = p]
    BY <1>1, <2>1 DEF LoopState
  <2>3. p.call = {} /\ p.messages = loop[l].messages /\ p.messages = {}
    BY <1>1, <1>4, <1>5, <1>14 DEF LoopState, AddExecuted, Doing
  <2> QED
    BY <1>6, <2>2, <2>3
<1>15. CASE HandleCommand(l)
  <2>1. PICK c : loop' = [loop EXCEPT ![l].pc = "execute", ![l].now = {}, ![l].cmd = Reported(@, c)]
    BY <1>15 DEF HandleCommand
  <2> DEFINE p == [loop[l] EXCEPT !.pc = "execute", !.now = {}, !.cmd = Reported(loop[l].cmd, c)]
  <2>2. loop' = [loop EXCEPT ![l] = p]
    BY <1>1, <2>1 DEF LoopState
  <2>3. p.call = {} /\ p.messages = loop[l].messages /\ p.messages = {}
    BY <1>1, <1>4, <1>5, <1>15 DEF LoopState, HandleCommand, Doing
  <2> QED
    BY <1>6, <2>2, <2>3
<1>16. CASE SaveCmd(l)
  BY <1>5, <1>8, <1>16 DEF SaveCmd, Doing, EndPoll
<1> QED
  BY <1>7, <1>12, <1>13, <1>14, <1>15, <1>16

\* A message leaves the loop for the SIM, or is refused by it.
LEMMA SimSends ==
  ASSUME TypeOK, Sending, NEW l \in Loops, SendSms(l) \/ RefuseSms(l)
  PROVE  Sending'
<1>1. UNCHANGED <<handler, message, retries>> /\ loop[l].pc = "send" /\ loop[l] \in LoopState
  BY DEF SendSms, RefuseSms, server, ghosts, Doing, TypeOK
<1>2. PICK m \in Messages :
        /\ m \in loop[l].messages
        /\ \E r : loop' = [loop EXCEPT ![l] = [loop[l] EXCEPT !.messages = loop[l].messages \ {m},
                                                               !.sms = r]]
        /\ sends' = [sends EXCEPT ![m] = sends[m] + 1] \/ sends' = sends
  <2>1. CASE SendSms(l)
    <3>1. PICK m \in loop[l].messages :
            /\ sends' = [sends EXCEPT ![m] = @ + 1]
            /\ loop' = [loop EXCEPT ![l].messages = @ \ {m}, ![l].sms.ok = @ \cup {m}]
      BY <2>1 DEF SendSms
    <3> DEFINE r == [loop[l].sms EXCEPT !.ok = loop[l].sms.ok \cup {m}]
    <3>2. loop' = [loop EXCEPT ![l] = [loop[l] EXCEPT !.messages = loop[l].messages \ {m}, !.sms = r]]
      BY <1>1, <3>1 DEF LoopState
    <3>3. sends' = [sends EXCEPT ![m] = sends[m] + 1]
      BY <3>1
    <3>4. m \in Messages
      BY <1>1 DEF LoopState
    <3> HIDE DEF r
    <3> QED
      BY <3>2, <3>3, <3>4
  <2>2. CASE RefuseSms(l)
    <3>1. PICK m \in loop[l].messages :
            loop' = [loop EXCEPT ![l].messages = @ \ {m}, ![l].sms.failed = @ \cup {m}]
      BY <2>2 DEF RefuseSms
    <3> DEFINE r == [loop[l].sms EXCEPT !.failed = loop[l].sms.failed \cup {m}]
    <3>2. loop' = [loop EXCEPT ![l] = [loop[l] EXCEPT !.messages = loop[l].messages \ {m}, !.sms = r]]
      BY <1>1, <3>1 DEF LoopState
    <3>3. sends' = sends
      BY <2>2 DEF RefuseSms, ghosts
    <3>4. m \in Messages
      BY <1>1 DEF LoopState
    <3> HIDE DEF r
    <3> QED
      BY <3>2, <3>3, <3>4
  <2> QED
    BY <2>1, <2>2
<1>3. /\ loop'[l].pc = "send" /\ loop'[l].call = loop[l].call
      /\ loop'[l].messages = loop[l].messages \ {m}
      /\ \A k \in Loops \ {l} : loop'[k] = loop[k]
  BY <1>1, <1>2 DEF TypeOK, LoopState
<1>4. InHand'
  BY <1>1, <1>3 DEF Sending, InHand, At
<1>5. OneWaits'
  <2>1. \A k \in Loops : loop'[k].call = loop[k].call
    BY <1>3
  <2>2. loop[l].call = {}
    BY <1>1 DEF Sending, OneWaits, Doing
  <2>3. \A k \in Loops : loop[k].call # {} => loop'[k] = loop[k]
    BY <1>3, <2>2
  <2> QED
    BY <1>1, <2>1, <2>3 DEF Sending, OneWaits, Doing, At
<1>6. ASSUME NEW n \in Messages
      PROVE  /\ IsFiniteSet(Calls(n))' /\ IsFiniteSet(Polls(n))'
             /\ sends'[n] + Due(n)' + Cardinality(Calls(n))' + Cardinality(Polls(n))' <= 1 + retries'[n]
  <2>1. /\ IsFiniteSet(Calls(n)) /\ IsFiniteSet(Polls(n))
        /\ sends[n] + Due(n) + Cardinality(Calls(n)) + Cardinality(Polls(n)) <= 1 + retries[n]
    BY DEF Sending, SendsCounted
  <2>2. /\ sends[n] \in Nat /\ retries[n] \in Nat /\ Due(n) \in {0, 1}
        /\ Cardinality(Calls(n)) \in Nat /\ Cardinality(Polls(n)) \in Nat
    BY Numbers DEF Sending
  <2>3. Due(n)' = Due(n) /\ Calls(n)' = Calls(n) /\ retries'[n] = retries[n]
    BY <1>1 DEF Due, Calls
  <2>4. CASE n = m
    <3>1. l \in Polls(n) /\ Polls(n)' = Polls(n) \ {l}
      BY <1>2, <1>3, <2>4 DEF Polls
    <3>2. IsFiniteSet(Polls(n))' /\ Cardinality(Polls(n))' = Cardinality(Polls(n)) - 1
      BY <2>1, <3>1, FS_RemoveElement
    <3>3. sends \in [Messages -> Nat]
      BY DEF TypeOK
    <3>4. sends'[n] = sends[n] + 1 \/ sends'[n] = sends[n]
      BY <1>2, <2>4, <3>3
    <3> QED
      BY <2>1, <2>2, <2>3, <3>2, <3>4
  <2>5. CASE n # m
    <3>1. Polls(n)' = Polls(n)
      BY <1>3, <2>5 DEF Polls
    <3>2. sends \in [Messages -> Nat]
      BY DEF TypeOK
    <3>3. sends'[n] = sends[n]
      BY <1>2, <2>5, <3>2
    <3> QED
      BY <2>1, <2>3, <3>1, <3>3
  <2> QED
    BY <2>4, <2>5
<1> QED
  BY <1>4, <1>5, <1>6 DEF Sending, SendsCounted

LEMMA BeginSends ==
  ASSUME TypeOK, Sending, NEW l \in Loops, Begin(l)
  PROVE  Sending'
<1>1. PICK h \in Handlers :
        /\ At(h, "idle")
        /\ handler' = [handler EXCEPT ![h] = [NoCall EXCEPT !.pc = "receive",
                                                            !.sms = prefs.sms, !.cmd = prefs.cmd]]
        /\ loop' = [loop EXCEPT ![l] = [@ EXCEPT !.pc = "await", !.call = {h},
                                                 !.hadSms = prefs.sms # NoReports,
                                                 !.hadCmd = prefs.cmd # NoReports]]
  BY DEF Begin
<1>2. UNCHANGED <<message, sends, retries>> /\ loop[l].pc = "asleep" /\ loop[l] \in LoopState
  BY DEF Begin, server, ghosts, Doing, TypeOK
<1>3. handler'[h].pc = "receive" /\ handler'[h].messages = {}
      /\ \A g \in Handlers \ {h} : handler'[g] = handler[g]
  BY <1>1 DEF NoCall, TypeOK
<1>4. loop'[l].pc = "await" /\ loop'[l].call = {h} /\ loop'[l].messages = loop[l].messages
      /\ \A k \in Loops \ {l} : loop'[k] = loop[k]
  BY <1>1, <1>2 DEF LoopState, TypeOK
<1>5. loop[l].messages = {} /\ handler[h].messages = {}
  BY <1>1, <1>2 DEF Sending, InHand, At
<1>6. InHand'
  <2>1. InHand
    BY DEF Sending
  <2>2. \A g \in Handlers : handler'[g].messages # {} => handler'[g].pc = "answer"
    BY <1>3, <2>1 DEF InHand, At
  <2>3. \A k \in Loops : loop'[k].messages # {} => loop'[k].pc \in {"clear sms", "clear cmd", "send"}
    BY <1>4, <1>5, <2>1 DEF InHand
  <2> QED
    BY <2>2, <2>3 DEF InHand, At
<1>7. OneWaits'
  <2>1. \A k \in Loops : h \notin loop[k].call /\ loop[k].call \subseteq Handlers
    BY <1>1 DEF Sending, OneWaits, TypeOK, LoopState
  <2>2. \A k \in Loops : loop'[k].call # {} => Doing(k, "await")'
    BY <1>4 DEF Sending, OneWaits, Doing
  <2>3. \A k \in Loops : \A g \in loop'[k].call : ~At(g, "idle")'
    BY <1>3, <1>4, <2>1 DEF Sending, OneWaits, At
  <2>4. \A j, k \in Loops : loop'[j].call \cap loop'[k].call # {} => j = k
    BY <1>4, <2>1 DEF Sending, OneWaits
  <2> QED
    BY <2>2, <2>3, <2>4 DEF OneWaits
<1>8. \A m \in Messages : Due(m)' = Due(m)
  BY <1>2 DEF Due
<1>9. SendsCounted'
  BY <1>2, <1>3, <1>4, <1>5, <1>8, StillCounts DEF Sending
<1> QED
  BY <1>6, <1>7, <1>9 DEF Sending

\* Loops that are thrown away take what they had in hand with them.
LEMMA LostSends ==
  ASSUME TypeOK, Sending, NEW gone \in SUBSET Loops, NEW calls \in SUBSET Handlers,
         calls \cap UNION {loop[l].call : l \in Loops \ gone} = {},
         Abandoned(calls), UNCHANGED <<message, sends, retries>>,
         \A l \in Loops : IF l \in gone THEN loop'[l].call = {} /\ loop'[l].messages = {}
                          ELSE loop'[l] = loop[l]
  PROVE  Sending'
<1>1. \A h \in Handlers : handler'[h] = handler[h]
                           \/ (h \in calls /\ handler[h].pc = "receive" /\ handler'[h] = NoCall)
  BY DEF Abandoned, TypeOK, At
<1>2. \A h \in Handlers : handler'[h].messages = handler[h].messages
                           /\ (handler'[h].messages # {} => At(h, "answer")')
  <2>1. NoCall.messages = {}
    BY DEF NoCall
  <2>2. \A h \in Handlers : handler[h].pc = "receive" => handler[h].messages = {}
    BY DEF Sending, InHand, At
  <2>3. \A h \in Handlers : handler'[h].messages = handler[h].messages
                             /\ (handler'[h].messages # {} => handler'[h] = handler[h])
    BY <1>1, <2>1, <2>2
  <2> QED
    BY <2>3 DEF Sending, InHand, At
<1>3. InHand'
  BY <1>2 DEF Sending, InHand
<1>4. OneWaits'
  <2>1. \A l \in Loops : loop'[l].call # {} => l \notin gone /\ loop'[l] = loop[l]
    OBVIOUS
  <2>2. \A l \in Loops : \A h \in loop'[l].call : handler'[h] = handler[h]
    <3>1. \A l \in Loops : loop[l].call \subseteq Handlers
      BY DEF TypeOK, LoopState
    <3> QED
      BY <1>1, <2>1, <3>1
  <2> QED
    BY <2>1, <2>2 DEF Sending, OneWaits, At, Doing
<1>5. ASSUME NEW m \in Messages
      PROVE  /\ IsFiniteSet(Calls(m))' /\ IsFiniteSet(Polls(m))'
             /\ sends'[m] + Due(m)' + Cardinality(Calls(m))' + Cardinality(Polls(m))' <= 1 + retries'[m]
  <2>1. /\ IsFiniteSet(Calls(m)) /\ IsFiniteSet(Polls(m))
        /\ sends[m] + Due(m) + Cardinality(Calls(m)) + Cardinality(Polls(m)) <= 1 + retries[m]
    BY DEF Sending, SendsCounted
  <2>2. /\ sends[m] \in Nat /\ retries[m] \in Nat /\ Due(m) \in {0, 1}
        /\ Cardinality(Calls(m)) \in Nat /\ Cardinality(Polls(m)) \in Nat
    BY Numbers DEF Sending
  <2>3. Due(m)' = Due(m) /\ Calls(m)' = Calls(m)
    BY <1>2 DEF Due, Calls
  <2>4. Polls(m)' \subseteq Polls(m)
    BY DEF Polls
  <2>5. IsFiniteSet(Polls(m))' /\ Cardinality(Polls(m))' <= Cardinality(Polls(m))
        /\ Cardinality(Polls(m))' \in Nat
    BY <2>1, <2>4, FS_Subset, FS_CardinalityType
  <2> QED
    BY <2>1, <2>2, <2>3, <2>5
<1> QED
  BY <1>3, <1>4, <1>5 DEF Sending, SendsCounted

LEMMA OpenedSends ==
  ASSUME TypeOK, Sending, Start \/ Restart
  PROVE  Sending'
<1>1. UNCHANGED <<handler, message, sends, retries>>
  BY DEF Start, Restart, server, ghosts
<1>2. \A k \in Loops : Still(k)
  <2>1. ASSUME NEW loops \in [Loops -> LoopState], Free # {}, loop' = Opened(loops),
               \A k \in Loops : /\ loops[k].pc = loop[k].pc /\ loops[k].call = loop[k].call
                                /\ loops[k].messages = loop[k].messages
        PROVE  \A k \in Loops : Still(k)
    <3>1. PICK n \in Loops : Doing(n, "off") /\ loop' = [loops EXCEPT ![n] = Asleep]
      BY <2>1, OpenedLoop
    <3>2. loop[n].call = {} /\ loop[n].messages = {}
      BY <3>1 DEF Sending, OneWaits, InHand, Doing
    <3>3. Asleep.call = {} /\ Asleep.messages = {}
      BY DEF Asleep, Off
    <3>4. loop'[n] = Asleep /\ \A k \in Loops \ {n} : loop'[k] = loops[k]
      BY <2>1, <3>1
    <3>5. Still(n)
      BY <3>2, <3>3, <3>4 DEF Still
    <3>6. \A k \in Loops \ {n} : Still(k)
      BY <2>1, <3>4 DEF Still, Sending, OneWaits, InHand, Doing
    <3> QED
      BY <3>5, <3>6
  <2>2. CASE Start
    BY <2>1, <2>2 DEF Start, TypeOK
  <2>3. CASE Restart
    <3>1. PICK l \in Loops : loop' = Opened([loop EXCEPT ![l].stopped = TRUE]) /\ Free # {}
      BY <2>3 DEF Restart
    <3> DEFINE loops == [loop EXCEPT ![l].stopped = TRUE]
    <3>2. [loop[l] EXCEPT !.stopped = TRUE] \in LoopState
      BY LoopFields DEF TypeOK, LoopPc
    <3>3. loops \in [Loops -> LoopState]
      BY <3>2 DEF TypeOK
    <3>4. \A k \in Loops : /\ loops[k].pc = loop[k].pc /\ loops[k].call = loop[k].call
                           /\ loops[k].messages = loop[k].messages
      BY DEF TypeOK, LoopState
    <3> QED
      BY <2>1, <3>1, <3>3, <3>4
  <2> QED
    BY <2>2, <2>3
<1>3. \A h \in Handlers : Working(h)
  BY <1>1 DEF Working, Sending, InHand, At
<1>4. \A m \in Messages : Due(m)' = Due(m)
  BY <1>1 DEF Due
<1>5. OneWaits' /\ InHand'
  BY <1>2, <1>3, StillKeeps DEF Sending
<1>6. SendsCounted'
  BY <1>1, <1>2, <1>3, <1>4, StillCounts DEF Sending, Still, Working
<1> QED
  BY <1>5, <1>6 DEF Sending

LEMMA AppSends ==
  ASSUME TypeOK, Sending,
         \/ \E l \in Loops : Begin(l) \/ ConnectionLost(l)
         \/ Flush \/ Start \/ Restart \/ Kill
  PROVE  Sending'
<1>1. ASSUME NEW l \in Loops, ConnectionLost(l)
      PROVE  Sending'
  <2>1. /\ loop' = [loop EXCEPT ![l] = Done(l)] /\ Abandoned(loop[l].call)
        /\ UNCHANGED <<message, sends, retries>>
    BY <1>1 DEF ConnectionLost, EndPoll, server, ghosts
  <2> DEFINE gone == {l}
  <2>2. \A k \in Loops : IF k \in gone THEN loop'[k].call = {} /\ loop'[k].messages = {}
                         ELSE loop'[k] = loop[k]
    BY <2>1, DoneEmpty DEF TypeOK
  <2>3. loop[l].call \in SUBSET Handlers /\ gone \in SUBSET Loops
    BY DEF TypeOK, LoopState
  <2>4. loop[l].call \cap UNION {loop[k].call : k \in Loops \ gone} = {}
    BY DEF Sending, OneWaits
  <2> HIDE DEF gone
  <2> QED
    BY <2>1, <2>2, <2>3, <2>4, LostSends
<1>2. CASE Kill
  <2>1. /\ loop' = [l \in Loops |-> Off] /\ Abandoned(UNION {loop[l].call : l \in Loops})
        /\ UNCHANGED <<message, sends, retries>>
    BY <1>2 DEF Kill, server
  <2>2. \A k \in Loops : IF k \in Loops THEN loop'[k].call = {} /\ loop'[k].messages = {}
                         ELSE loop'[k] = loop[k]
    BY <2>1 DEF Off
  <2>3. UNION {loop[l].call : l \in Loops} \in SUBSET Handlers
    BY DEF TypeOK, LoopState
  <2>4. UNION {loop[l].call : l \in Loops} \cap UNION {loop[k].call : k \in Loops \ Loops} = {}
    OBVIOUS
  <2> QED
    BY <2>1, <2>2, <2>3, <2>4, LostSends
<1>3. CASE Flush
  <2>1. UNCHANGED <<handler, loop, message, sends, retries>>
    BY <1>3 DEF Flush, server, ghosts
  <2> QED
    BY <2>1 DEF Sending, OneWaits, InHand, SendsCounted, Calls, Polls, Due, At, Doing
<1> QED
  BY <1>1, <1>2, <1>3, BeginSends, OpenedSends

LEMMA NextSends == TypeOK /\ Sending /\ Next => Sending'
<1> SUFFICES ASSUME TypeOK, Sending, Next
             PROVE  Sending'
  OBVIOUS
<1>1. ASSUME NEW h \in Handlers, Handle(h)
      PROVE  Sending'
  BY <1>1, HandlerSends, ClaimSends, AnswerSends DEF Handle
<1>2. ASSUME NEW l \in Loops, Poll(l)
      PROVE  Sending'
  BY <1>2, QuietPollSends, SimSends DEF Poll
<1> QED
  BY <1>1, <1>2, AdminSends, AppSends DEF Next
-----------------------------------------------------------------------------
(* Commands: what was run, what is known to have been run.                  *)

\* A loop that goes from q to p begins no batch and runs nothing.
Calm(q, p) ==
  /\ p.stopped => q.stopped
  /\ p.pc # "off" => q.pc # "off"
  /\ p.now = q.now /\ (p.now # {} => p.pc = "run")
  /\ p.pc \in {"execute", "run"} => /\ q.pc \in {"execute", "run"}
                                    /\ p.commands \subseteq q.commands /\ p.executed = q.executed

LEMMA CalmRuns ==
  ASSUME Running, \A l \in Loops : Calm(loop[l], loop'[l]),
         UNCHANGED <<prefs.executed, runs, forgotten, spent.restarts>>
  PROVE  Running'
<1>1. Alone'
  BY DEF Running, Alone, Calm, Doing
<1>2. RunsAreKnown'
  BY DEF Running, RunsAreKnown, Calm, Doing
<1>3. BatchIsFresh'
  BY DEF Running, BatchIsFresh, Calm
<1>4. RunAgainOnlyIfForgotten'
  BY DEF Running, RunAgainOnlyIfForgotten
<1> QED
  BY <1>1, <1>2, <1>3, <1>4 DEF Running

LEMMA SameLoops ==
  ASSUME Running, UNCHANGED loop
  PROVE  \A l \in Loops : Calm(loop[l], loop'[l])
BY DEF Calm, Running, RunsAreKnown, Doing

LEMMA CalmLoop ==
  ASSUME TypeOK, Running, NEW l \in Loops, NEW p, loop' = [loop EXCEPT ![l] = p], Calm(loop[l], p),
         UNCHANGED <<prefs.executed, runs, forgotten, spent.restarts>>
  PROVE  Running'
<1>1. loop'[l] = p /\ \A k \in Loops \ {l} : loop'[k] = loop[k]
  BY DEF TypeOK
<1>2. \A k \in Loops \ {l} : Calm(loop[k], loop'[k])
  BY <1>1 DEF Calm, Running, RunsAreKnown, Doing
<1> QED
  BY <1>1, <1>2, CalmRuns

LEMMA ServerRuns ==
  ASSUME TypeOK, OneWaits, Running, Admin \/ (\E h \in Handlers : Handle(h)) \/ Flush
  PROVE  Running'
<1>1. UNCHANGED <<prefs, runs, forgotten>> /\ spent'.restarts = spent.restarts
  BY DEF Admin, Enqueue, MarkFailed, RetryMessage, EnqueueCommand, SetDeviceSmsGateway, Handle, Receive,
         ApplyRemoteCommandReport, ApplySmsReport, SelectCommands, MarkCommands, ClaimSms, SkipSms,
         Answer, Flush, store, ghosts, TypeOK
<1>2. CASE UNCHANGED loop
  BY <1>1, <1>2, SameLoops, CalmRuns
<1>3. ASSUME NEW h \in Handlers, Answer(h)
      PROVE  Running'
  <2>1. ASSUME NEW l \in Loops
        PROVE  Calm(loop[l], loop'[l])
    <3>1. CASE h \notin loop[l].call
      <4>1. loop'[l] = loop[l]
        BY <1>3, <3>1 DEF Answer
      <4> QED
        BY <4>1 DEF Calm, Running, RunsAreKnown, Doing
    <3>2. CASE h \in loop[l].call
      <4>1. loop'[l] = [loop[l] EXCEPT !.pc = "clear sms", !.call = {},
                                       !.messages = handler[h].messages,
                                       !.commands = handler[h].commands]
        BY <1>3, <3>2 DEF Answer
      <4>2. loop[l].pc = "await" /\ loop[l] \in LoopState
        BY <3>2 DEF OneWaits, Doing, TypeOK
      <4>3. loop[l].now = {}
        BY <4>2 DEF Running, RunsAreKnown, Doing
      <4>4. /\ loop'[l].pc = "clear sms" /\ loop'[l].stopped = loop[l].stopped
            /\ loop'[l].now = loop[l].now
        BY <4>1, <4>2 DEF LoopState
      <4> QED
        BY <4>2, <4>3, <4>4 DEF Calm
    <3> QED
      BY <3>1, <3>2
  <2> QED
    BY <1>1, <2>1, CalmRuns
<1> QED
  BY <1>2, <1>3
  DEF Admin, Enqueue, MarkFailed, RetryMessage, EnqueueCommand, SetDeviceSmsGateway, Handle, Receive,
      ApplyRemoteCommandReport, ApplySmsReport, SelectCommands, MarkCommands, ClaimSms, SkipSms, Flush

\* Between two polls, and in one up to the look at what was run.
LEMMA QuietRuns ==
  ASSUME TypeOK, Running, NEW l \in Loops,
         \/ Begin(l) \/ ConnectionLost(l) \/ ClearSms(l) \/ ClearCmd(l) \/ SendSms(l)
         \/ RefuseSms(l) \/ SaveSms(l) \/ Reack(l) \/ SaveCmd(l)
  PROVE  Running'
<1>1. loop[l] \in LoopState /\ prefs \in Prefs
  BY DEF TypeOK
<1>2. UNCHANGED <<runs, forgotten>> /\ spent'.restarts = spent.restarts
      /\ prefs'.executed = prefs.executed
  BY <1>1 DEF Begin, ConnectionLost, ClearSms, ClearCmd, SendSms, RefuseSms, SaveSms, Reack, SaveCmd,
         server, store, ghosts, TypeOK, Prefs
<1>3. loop[l].pc \notin {"off", "run"}
  BY DEF Begin, ConnectionLost, ClearSms, ClearCmd, SendSms, RefuseSms, SaveSms, Reack, SaveCmd, Doing
<1>4. loop[l].now = {}
  BY <1>3 DEF Running, RunsAreKnown, Doing
<1>5. ASSUME NEW p, loop' = [loop EXCEPT ![l] = p], p.stopped => loop[l].stopped, p.now = {},
             \/ p.pc \notin {"execute", "run"}
             \/ /\ p.pc = loop[l].pc /\ p.commands \subseteq loop[l].commands
                /\ p.executed = loop[l].executed
      PROVE  Running'
  <2>1. Calm(loop[l], p)
    BY <1>3, <1>4, <1>5 DEF Calm
  <2> QED
    BY <1>2, <1>5, <2>1, CalmLoop
<1>6. CASE ClearSms(l) \/ ClearCmd(l) \/ SaveSms(l)
  <2>1. PICK p : Onward(l, p)
    BY <1>6, GoesOn
  <2> QED
    BY <1>4, <1>5, <2>1 DEF Onward
<1>7. ASSUME EndPoll(l)
      PROVE  Running'
  <2>1. loop' = [loop EXCEPT ![l] = Done(l)]
    BY <1>7 DEF EndPoll
  <2>2. ~Done(l).stopped /\ Done(l).now = {} /\ Done(l).pc \notin {"execute", "run"}
    BY DEF Done, Off, Asleep
  <2> QED
    BY <1>5, <2>1, <2>2
<1>8. CASE Begin(l)
  <2>1. PICK h : loop' = [loop EXCEPT ![l] = [@ EXCEPT !.pc = "await", !.call = {h},
                                                      !.hadSms = prefs.sms # NoReports,
                                                      !.hadCmd = prefs.cmd # NoReports]]
    BY <1>8 DEF Begin
  <2> DEFINE p == [loop[l] EXCEPT !.pc = "await", !.call = {h}, !.hadSms = prefs.sms # NoReports,
                                  !.hadCmd = prefs.cmd # NoReports]
  <2>2. loop' = [loop EXCEPT ![l] = p]
    BY <2>1
  <2>3. p.pc = "await" /\ p.stopped = loop[l].stopped /\ p.now = {}
    BY <1>1, <1>4 DEF LoopState
  <2> HIDE DEF p
  <2> QED
    BY <1>5, <2>2, <2>3
<1>9. CASE ConnectionLost(l)
  BY <1>7, <1>9 DEF ConnectionLost
<1>12. CASE SendSms(l) \/ RefuseSms(l)
  <2>1. PICK m, r : loop' = [loop EXCEPT ![l] = [loop[l] EXCEPT !.messages = loop[l].messages \ {m},
                                                               !.sms = r]]
    <3>1. CASE SendSms(l)
      <4>1. PICK m \in loop[l].messages :
              loop' = [loop EXCEPT ![l].messages = @ \ {m}, ![l].sms.ok = @ \cup {m}]
        BY <3>1 DEF SendSms
      <4> DEFINE r == [loop[l].sms EXCEPT !.ok = loop[l].sms.ok \cup {m}]
      <4>2. loop' = [loop EXCEPT ![l] = [loop[l] EXCEPT !.messages = loop[l].messages \ {m}, !.sms = r]]
        BY <1>1, <4>1 DEF LoopState
      <4> HIDE DEF r
      <4> QED
        BY <4>2
    <3>2. CASE RefuseSms(l)
      <4>1. PICK m \in loop[l].messages :
              loop' = [loop EXCEPT ![l].messages = @ \ {m}, ![l].sms.failed = @ \cup {m}]
        BY <3>2 DEF RefuseSms
      <4> DEFINE r == [loop[l].sms EXCEPT !.failed = loop[l].sms.failed \cup {m}]
      <4>2. loop' = [loop EXCEPT ![l] = [loop[l] EXCEPT !.messages = loop[l].messages \ {m}, !.sms = r]]
        BY <1>1, <4>1 DEF LoopState
      <4> HIDE DEF r
      <4> QED
        BY <4>2
    <3> QED
      BY <1>12, <3>1, <3>2
  <2> DEFINE p == [loop[l] EXCEPT !.messages = loop[l].messages \ {m}, !.sms = r]
  <2>2. p.pc = loop[l].pc /\ p.stopped = loop[l].stopped /\ p.now = {}
        /\ p.commands = loop[l].commands /\ p.executed = loop[l].executed
    BY <1>1, <1>4 DEF LoopState
  <2> QED
    BY <1>5, <2>1, <2>2
<1>14. CASE Reack(l)
  <2>1. PICK c : loop' = [loop EXCEPT ![l].commands = @ \ {c}, ![l].cmd.ok = @ \cup {c}]
    BY <1>14 DEF Reack
  <2> DEFINE r == [loop[l].cmd EXCEPT !.ok = loop[l].cmd.ok \cup {c}]
             p == [loop[l] EXCEPT !.commands = loop[l].commands \ {c}, !.cmd = r]
  <2>2. loop' = [loop EXCEPT ![l] = p]
    BY <1>1, <2>1 DEF LoopState
  <2>3. p.pc = loop[l].pc /\ p.stopped = loop[l].stopped /\ p.now = {}
        /\ p.commands \subseteq loop[l].commands /\ p.executed = loop[l].executed
    BY <1>1, <1>4 DEF LoopState
  <2> QED
    BY <1>5, <2>2, <2>3
<1>15. CASE SaveCmd(l)
  BY <1>7, <1>15 DEF SaveCmd
<1> QED
  BY <1>6, <1>8, <1>9, <1>12, <1>14, <1>15

\* A loop in the middle of its batch: unless the service was restarted, it is alone.
LEMMA SoloRuns ==
  ASSUME TypeOK, Running, NEW l \in Loops, NEW p, loop' = [loop EXCEPT ![l] = p], ~Doing(l, "off"),
         p.stopped = loop[l].stopped, p.now # {} => p.pc = "run", p.now \subseteq prefs'.executed,
         prefs.executed \subseteq prefs'.executed, UNCHANGED <<forgotten, spent.restarts>>,
         \A c \in Commands : runs'[c] > 0 => c \in prefs'.executed \cup forgotten,
         spent.restarts = 0 =>
           /\ p.pc \in {"execute", "run"} => p.commands \cap prefs'.executed \subseteq p.executed
           /\ \A c \in p.now : runs'[c] > 0 => c \in forgotten,
         RunAgainOnlyIfForgotten'
  PROVE  Running'
<1>1. loop'[l] = p /\ \A k \in Loops \ {l} : loop'[k] = loop[k]
  BY DEF TypeOK
<1>2. Alone'
  BY <1>1 DEF Running, Alone, Doing
<1>3. RunsAreKnown'
  BY <1>1 DEF Running, RunsAreKnown, Doing
<1>4. BatchIsFresh'
  <2> SUFFICES ASSUME spent'.restarts = 0, NEW k \in Loops
               PROVE  /\ loop'[k].pc \in {"execute", "run"} =>
                           loop'[k].commands \cap prefs'.executed \subseteq loop'[k].executed
                      /\ \A c \in loop'[k].now : runs'[c] > 0 => c \in forgotten'
    BY DEF BatchIsFresh
  <2>1. CASE k = l
    BY <1>1, <2>1
  <2>2. CASE k # l
    <3>1. loop'[k] = loop[k]
      BY <1>1, <2>2
    <3>2. loop[k].pc = "off"
      BY <2>2 DEF Running, Alone, Doing
    <3>3. loop[k].now = {}
      BY <3>2 DEF Running, RunsAreKnown, Doing
    <3> QED
      BY <3>1, <3>2, <3>3
  <2> QED
    BY <2>1, <2>2
<1> QED
  BY <1>2, <1>3, <1>4 DEF Running

LEMMA LookUpRuns ==
  ASSUME TypeOK, Running, NEW l \in Loops, LookUp(l)
  PROVE  Running'
<1>1. loop[l] \in LoopState /\ loop[l].pc = "look up"
  BY DEF TypeOK, LookUp, Doing
<1>2. UNCHANGED <<prefs, runs, forgotten, spent>>
  BY DEF LookUp, store, ghosts
<1>3. CASE loop[l].commands = {}
  <2> DEFINE p == Done(l)
  <2>1. loop' = [loop EXCEPT ![l] = p]
    BY <1>3 DEF LookUp
  <2>2. ~p.stopped /\ p.now = {} /\ p.pc \notin {"execute", "run"}
    BY DEF Done, Off, Asleep
  <2>3. loop[l].now = {}
    BY <1>1 DEF Running, RunsAreKnown, Doing
  <2>4. Calm(loop[l], p)
    BY <1>1, <2>2, <2>3 DEF Calm
  <2>5. UNCHANGED <<prefs.executed, runs, forgotten, spent.restarts>>
    BY <1>2
  <2> HIDE DEF p
  <2> QED
    BY <2>1, <2>4, <2>5, CalmLoop
<1>4. CASE loop[l].commands # {}
  <2> DEFINE p == [loop[l] EXCEPT !.pc = "execute", !.executed = prefs.executed]
  <2>1. loop' = [loop EXCEPT ![l] = p]
    BY <1>1, <1>4 DEF LookUp, LoopState
  <2>2. loop[l].now = {} /\ ~Doing(l, "off")
    BY <1>1 DEF Running, RunsAreKnown, Doing
  <2>3. p.stopped = loop[l].stopped /\ p.now = {} /\ p.executed = prefs.executed
    BY <1>1, <2>2 DEF LoopState
  <2>4. \A c \in Commands : runs'[c] > 0 => c \in prefs'.executed \cup forgotten
    BY <1>2 DEF Running, RunsAreKnown
  <2>5. RunAgainOnlyIfForgotten'
    BY <1>2 DEF Running, RunAgainOnlyIfForgotten
  <2>6. UNCHANGED <<forgotten, spent.restarts>> /\ prefs' = prefs
    BY <1>2
  <2> HIDE DEF p
  <2> QED
    BY <2>1, <2>2, <2>3, <2>4, <2>5, <2>6, SoloRuns
<1> QED
  BY <1>3, <1>4

\* The id is noted before the command is run: what the batch did not find was not run,
\* or is forgotten.
LEMMA AddRuns ==
  ASSUME TypeOK, Running, NEW l \in Loops, AddExecuted(l)
  PROVE  Running'
<1>1. PICK c \in loop[l].commands :
        /\ c \notin loop[l].executed
        /\ prefs' = [prefs EXCEPT !.executed = @ \cup {c}]
        /\ loop' = [loop EXCEPT ![l].pc = "run", ![l].commands = @ \ {c}, ![l].now = {c}]
  BY DEF AddExecuted
<1>2. loop[l] \in LoopState /\ loop[l].pc = "execute" /\ prefs \in Prefs
  BY DEF TypeOK, AddExecuted, Doing
<1>3. UNCHANGED <<runs, forgotten, spent>>
  BY DEF AddExecuted, ghosts
<1>4. prefs'.executed = prefs.executed \cup {c}
  BY <1>1, <1>2 DEF Prefs
<1> DEFINE p == [loop[l] EXCEPT !.pc = "run", !.commands = loop[l].commands \ {c}, !.now = {c}]
<1>5. loop' = [loop EXCEPT ![l] = p]
  BY <1>1, <1>2 DEF LoopState
<1>6. /\ p.pc = "run" /\ p.stopped = loop[l].stopped /\ p.now = {c}
      /\ p.commands = loop[l].commands \ {c} /\ p.executed = loop[l].executed
  BY <1>2 DEF LoopState
<1>7. c \in Commands
  BY <1>1, <1>2 DEF LoopState
<1>8. \A d \in Commands : runs'[d] > 0 => d \in prefs'.executed \cup forgotten
  BY <1>3, <1>4 DEF Running, RunsAreKnown
<1>9. RunAgainOnlyIfForgotten'
  BY <1>3 DEF Running, RunAgainOnlyIfForgotten
<1>10. ASSUME spent.restarts = 0
       PROVE  /\ p.commands \cap prefs'.executed \subseteq p.executed
              /\ \A d \in p.now : runs'[d] > 0 => d \in forgotten
  <2>1. loop[l].commands \cap prefs.executed \subseteq loop[l].executed
    BY <1>2, <1>10 DEF Running, BatchIsFresh
  <2>2. c \notin prefs.executed
    BY <1>1, <2>1
  <2>3. runs[c] > 0 => c \in forgotten
    BY <1>7, <2>2 DEF Running, RunsAreKnown
  <2> QED
    BY <1>3, <1>4, <1>6, <2>1, <2>3
<1>11. ~Doing(l, "off") /\ UNCHANGED <<forgotten, spent.restarts>>
       /\ prefs.executed \subseteq prefs'.executed /\ p.now \subseteq prefs'.executed
  BY <1>2, <1>3, <1>4, <1>6 DEF Doing
<1> HIDE DEF p
<1> QED
  BY <1>5, <1>6, <1>8, <1>9, <1>10, <1>11, SoloRuns

LEMMA CommandRuns ==
  ASSUME TypeOK, Running, NEW l \in Loops, HandleCommand(l)
  PROVE  Running'
<1>1. PICK c \in loop[l].now :
        /\ runs' = [runs EXCEPT ![c] = @ + 1]
        /\ loop' = [loop EXCEPT ![l].pc = "execute", ![l].now = {}, ![l].cmd = Reported(@, c)]
  BY DEF HandleCommand
<1>2. loop[l] \in LoopState /\ loop[l].pc = "run" /\ runs \in [Commands -> Nat]
  BY DEF TypeOK, HandleCommand, Doing
<1>3. UNCHANGED <<prefs, forgotten, spent>>
  BY DEF HandleCommand, store
<1> DEFINE r == Reported(loop[l].cmd, c)
           p == [loop[l] EXCEPT !.pc = "execute", !.now = {}, !.cmd = r]
<1> HIDE DEF r
<1>4. loop' = [loop EXCEPT ![l] = p]
  BY <1>1, <1>2 DEF LoopState, r
<1>5. /\ p.pc = "execute" /\ p.stopped = loop[l].stopped /\ p.now = {}
      /\ p.commands = loop[l].commands /\ p.executed = loop[l].executed
  BY <1>2 DEF LoopState
<1>6. c \in Commands /\ c \in prefs.executed
  BY <1>1, <1>2 DEF LoopState, Running, RunsAreKnown
<1>7. runs'[c] = runs[c] + 1 /\ \A d \in Commands \ {c} : runs'[d] = runs[d]
  BY <1>1, <1>2, <1>6
<1>8. \A d \in Commands : runs'[d] > 0 => d \in prefs'.executed \cup forgotten
  BY <1>3, <1>6, <1>7 DEF Running, RunsAreKnown
<1>9. RunAgainOnlyIfForgotten'
  <2> SUFFICES ASSUME NEW d \in Commands, runs'[d] > 1, spent.restarts = 0
               PROVE  d \in forgotten
    <3>1. spent.restarts \in Nat /\ spent' = spent /\ forgotten' = forgotten
      BY <1>3, SmsGatewayAssumption DEF TypeOK
    <3> QED
      BY <3>1 DEF RunAgainOnlyIfForgotten
  <2>1. CASE d = c
    <3>1. runs[c] > 0
      BY <1>2, <1>6, <1>7, <2>1
    <3> QED
      BY <1>1, <2>1, <3>1 DEF Running, BatchIsFresh
  <2>2. CASE d # c
    BY <1>7, <2>2 DEF Running, RunAgainOnlyIfForgotten
  <2> QED
    BY <2>1, <2>2
<1>10. ASSUME spent.restarts = 0
       PROVE  p.commands \cap prefs'.executed \subseteq p.executed
  BY <1>2, <1>3, <1>5, <1>10 DEF Running, BatchIsFresh
<1>11. ~Doing(l, "off") /\ UNCHANGED <<forgotten, spent.restarts>> /\ prefs' = prefs
  BY <1>2, <1>3 DEF Doing
<1> HIDE DEF p
<1> QED
  BY <1>4, <1>5, <1>8, <1>9, <1>10, <1>11, SoloRuns

LEMMA StartRuns ==
  ASSUME TypeOK, Running, Start
  PROVE  Running'
<1>1. UNCHANGED <<prefs, runs, forgotten, spent>>
  BY DEF Start, store, ghosts
<1>2. PICK n \in Loops : Doing(n, "off") /\ loop' = [loop EXCEPT ![n] = Asleep]
  BY OpenedLoop DEF Start, TypeOK
<1>3. loop'[n] = Asleep /\ \A k \in Loops \ {n} : loop'[k] = loop[k]
  BY <1>2 DEF TypeOK
<1>4. Asleep.pc = "asleep" /\ ~Asleep.stopped /\ Asleep.now = {}
  BY DEF Asleep, Off
<1>5. Alone'
  <2> SUFFICES ASSUME spent.restarts = 0
               PROVE  /\ \A l \in Loops : ~loop'[l].stopped
                      /\ \A k, l \in Loops : loop'[k].pc # "off" /\ loop'[l].pc # "off" => k = l
    BY <1>1 DEF Alone, Doing
  <2>1. \A l \in Loops : ~loop[l].stopped
    BY DEF Running, Alone
  <2>2. \A l \in Loops : loop[l].pc = "off"
    BY <2>1 DEF Start, Doing
  <2> QED
    BY <1>3, <1>4, <2>1, <2>2
<1>6. RunsAreKnown'
  BY <1>1, <1>3, <1>4 DEF Running, RunsAreKnown, Doing
<1>7. BatchIsFresh'
  BY <1>1, <1>3, <1>4 DEF Running, BatchIsFresh
<1>8. RunAgainOnlyIfForgotten'
  BY <1>1 DEF Running, RunAgainOnlyIfForgotten
<1> QED
  BY <1>5, <1>6, <1>7, <1>8 DEF Running

LEMMA RestartRuns ==
  ASSUME TypeOK, Running, Restart
  PROVE  Running'
<1>1. UNCHANGED <<prefs, runs, forgotten>>
  BY DEF Restart, store, ghosts
<1>2. PICK l \in Loops : loop' = Opened([loop EXCEPT ![l].stopped = TRUE]) /\ Free # {}
  BY DEF Restart
<1> DEFINE loops == [loop EXCEPT ![l].stopped = TRUE]
<1>3. loops \in [Loops -> LoopState]
  <2>1. [loop[l] EXCEPT !.stopped = TRUE] \in LoopState
    BY LoopFields DEF TypeOK, LoopPc
  <2> QED
    BY <2>1 DEF TypeOK
<1>4. \A k \in Loops : loops[k].pc = loop[k].pc /\ loops[k].now = loop[k].now
  BY DEF TypeOK, LoopState
<1> HIDE DEF loops
<1>5. PICK n \in Loops : loop' = [loops EXCEPT ![n] = Asleep]
  BY <1>2, <1>3, OpenedLoop DEF loops
<1>6. loop'[n] = Asleep /\ \A k \in Loops \ {n} : loop'[k] = loops[k]
  BY <1>3, <1>5
<1>7. spent'.restarts # 0
  <2>1. spent \in [losses : 0..MaxFaults, kills : 0..MaxFaults, restarts : 0..MaxFaults,
                   toggles : 0..MaxToggles]
    BY DEF TypeOK
  <2>2. spent'.restarts = spent.restarts + 1
    BY <2>1 DEF Restart
  <2>3. spent.restarts \in Nat
    BY <2>1, SmsGatewayAssumption
  <2> QED
    BY <2>2, <2>3
<1>8. Alone' /\ BatchIsFresh'
  BY <1>7 DEF Alone, BatchIsFresh
<1>9. RunsAreKnown'
  <2>1. Asleep.now = {}
    BY DEF Asleep, Off
  <2> QED
    BY <1>1, <1>4, <1>6, <2>1 DEF Running, RunsAreKnown, Doing
<1>10. RunAgainOnlyIfForgotten'
  <2>1. spent'.restarts > 0
    BY <1>7, NextType, SmsGatewayAssumption DEF Next, TypeOK
  <2> QED
    BY <2>1 DEF RunAgainOnlyIfForgotten
<1> QED
  BY <1>8, <1>9, <1>10 DEF Running

LEMMA KillRuns ==
  ASSUME TypeOK, Running, Kill
  PROVE  Running'
<1>1. /\ loop' = [l \in Loops |-> Off] /\ prefs' = disk /\ UNCHANGED runs
      /\ forgotten' = forgotten \cup (prefs.executed \ disk.executed)
  BY DEF Kill
<1>2. Off.pc = "off" /\ ~Off.stopped /\ Off.now = {}
  BY DEF Off
<1>3. spent'.restarts = spent.restarts
  <2>1. spent' = [spent EXCEPT !.kills = @ + 1] /\ DOMAIN spent = {"losses", "kills", "restarts", "toggles"}
    BY DEF Kill, TypeOK
  <2> QED
    BY <2>1 DEF TypeOK
<1>4. Alone' /\ BatchIsFresh'
  BY <1>1, <1>2 DEF Alone, BatchIsFresh, Doing
<1>5. RunsAreKnown'
  BY <1>1, <1>2 DEF Running, RunsAreKnown
<1>6. RunAgainOnlyIfForgotten'
  BY <1>1, <1>3 DEF Running, RunAgainOnlyIfForgotten
<1> QED
  BY <1>4, <1>5, <1>6 DEF Running

LEMMA NextRuns == TypeOK /\ OneWaits /\ Running /\ Next => Running'
<1> SUFFICES ASSUME TypeOK, OneWaits, Running, Next
             PROVE  Running'
  OBVIOUS
<1>1. ASSUME NEW l \in Loops, Poll(l)
      PROVE  Running'
  BY <1>1, QuietRuns, LookUpRuns, AddRuns, CommandRuns DEF Poll
<1>2. ASSUME NEW l \in Loops, Begin(l) \/ ConnectionLost(l)
      PROVE  Running'
  BY <1>2, QuietRuns
<1> QED
  BY <1>1, <1>2, ServerRuns, StartRuns, RestartRuns, KillRuns DEF Next
-----------------------------------------------------------------------------
LEMMA InitInv == Init => IInv
<1> SUFFICES ASSUME Init
             PROVE  IInv
  OBVIOUS
<1>1. TypeOK
  <2>1. /\ loop \in [Loops -> LoopState] /\ handler \in [Handlers -> Call]
        /\ prefs \in Prefs /\ disk \in Prefs
    BY Constants DEF Init
  <2>2. /\ sends \in [Messages -> Nat] /\ runs \in [Commands -> Nat]
        /\ retries \in [Messages -> 0..MaxRetries]
        /\ spent \in [losses : 0..MaxFaults, kills : 0..MaxFaults, restarts : 0..MaxFaults,
                      toggles : 0..MaxToggles]
    BY SmsGatewayAssumption DEF Init
  <2> QED
    BY <2>1, <2>2 DEF Init, TypeOK
<1>2. \A l \in Loops : /\ loop[l].pc = "off" /\ ~loop[l].stopped /\ loop[l].call = {}
                       /\ loop[l].messages = {} /\ loop[l].now = {}
  BY DEF Init, Off
<1>3. \A h \in Handlers : handler[h].messages = {}
  BY DEF Init, NoCall
<1>4. OneWaits /\ InHand
  BY <1>2, <1>3 DEF OneWaits, InHand
<1>5. SendsCounted
  <2> SUFFICES ASSUME NEW m \in Messages
               PROVE  /\ IsFiniteSet(Calls(m)) /\ IsFiniteSet(Polls(m))
                      /\ sends[m] + Due(m) + Cardinality(Calls(m)) + Cardinality(Polls(m)) <= 1 + retries[m]
    BY DEF SendsCounted
  <2>1. Calls(m) = {} /\ Polls(m) = {}
    BY <1>2, <1>3 DEF Calls, Polls
  <2>2. sends[m] = 0 /\ retries[m] = 0 /\ Due(m) = 1
    BY DEF Init, Due
  <2> QED
    BY <2>1, <2>2, FS_EmptySet
<1>6. Alone /\ BatchIsFresh
  BY <1>2 DEF Alone, BatchIsFresh, Doing
<1>7. RunsAreKnown
  BY <1>2 DEF RunsAreKnown, Init
<1>8. RunAgainOnlyIfForgotten
  BY DEF RunAgainOnlyIfForgotten, Init
<1> QED
  BY <1>1, <1>4, <1>5, <1>6, <1>7, <1>8 DEF IInv, Sending, Running

LEMMA NextInv == IInv /\ [Next]_vars => IInv'
<1> SUFFICES ASSUME IInv, [Next]_vars
             PROVE  IInv'
  OBVIOUS
<1>1. CASE Next
  BY <1>1, NextType, NextSends, NextRuns DEF IInv, Sending
<1>2. CASE UNCHANGED vars
  <2>1. UNCHANGED <<message, command, gateway, barred, handler, loop, prefs, disk, sends, runs,
                    forgotten, retries, spent>>
    BY <1>2 DEF vars, server, store, ghosts
  <2>2. TypeOK'
    BY <2>1 DEF IInv, TypeOK
  <2>3. Sending'
    BY <2>1 DEF IInv, Sending, OneWaits, InHand, SendsCounted, Calls, Polls, Due, At, Doing
  <2>4. Running'
    BY <2>1 DEF IInv, Running, Alone, RunsAreKnown, BatchIsFresh, RunAgainOnlyIfForgotten, Doing
  <2> QED
    BY <2>2, <2>3, <2>4 DEF IInv
<1> QED
  BY <1>1, <1>2

\* The inductive invariant: where each message and each id of a command that was run
\* can be found.
THEOREM Invariant == Spec => []IInv
BY InitInv, NextInv, PTL DEF Spec

\* Every variable keeps its type.
THEOREM TypeCorrect == Spec => []TypeOK
<1>1. IInv => TypeOK
  BY DEF IInv
<1> QED
  BY <1>1, Invariant, PTL

\* However many check-ins, loops, retries and faults there are, a message is handed to
\* the SIM once and once more for each retry: it is claimed and returned in one
\* statement (computePendingSms), and the claim is in one place until it is sent.
THEOREM SendTheorem == Spec => []SentOncePerRequest
<1>1. IInv => SentOncePerRequest
  <2> SUFFICES ASSUME IInv, NEW m \in Messages
               PROVE  sends[m] <= 1 + retries[m]
    BY DEF SentOncePerRequest
  <2>1. /\ IsFiniteSet(Calls(m)) /\ IsFiniteSet(Polls(m))
        /\ sends[m] + Due(m) + Cardinality(Calls(m)) + Cardinality(Polls(m)) <= 1 + retries[m]
    BY DEF IInv, Sending, SendsCounted
  <2>2. /\ sends[m] \in Nat /\ retries[m] \in Nat /\ Due(m) \in {0, 1}
        /\ Cardinality(Calls(m)) \in Nat /\ Cardinality(Polls(m)) \in Nat
    BY Numbers DEF IInv, Sending
  <2> QED
    BY <2>1, <2>2
<1> QED
  BY <1>1, Invariant, PTL

\* A command is run a second time only if a killed app had lost its id, or the service
\* was restarted in a poll (addExecutedId comes before handleCommand).
THEOREM RunTheorem == Spec => []RunAgainOnlyIfForgotten
<1>1. IInv => RunAgainOnlyIfForgotten
  BY DEF IInv, Running
<1> QED
  BY <1>1, Invariant, PTL
-----------------------------------------------------------------------------
(* What is said to be done was done.                                        *)

LEMMA NothingSaid ==
  /\ NoReports.ok = {} /\ NoCall.sms.ok = {} /\ NoCall.cmd.ok = {}
  /\ Off.sms.ok = {} /\ Off.cmd.ok = {} /\ Off.executed = {} /\ Off.now = {}
  /\ \A l \in Loops : /\ Done(l).sms.ok = {} /\ Done(l).cmd.ok = {}
                      /\ Done(l).executed = {} /\ Done(l).now = {}
BY DEF NoReports, NoCall, Off, Asleep, Done

\* What a step makes a loop, a call, the store or the tables say was said before, or is
\* done now.
SentNow(m) == SaidSent(m) \/ sends'[m] > 0
RunNow(c) == SaidRun(c) \/ Ran(c)'
LoopSays(l) == /\ \A m \in Messages : m \in loop'[l].sms.ok => SentNow(m)
               /\ \A c \in Commands : c \in loop'[l].executed \cup loop'[l].cmd.ok => RunNow(c)
CallSays(h) == /\ \A m \in Messages : m \in handler'[h].sms.ok => SaidSent(m)
               /\ \A c \in Commands : c \in handler'[h].cmd.ok => SaidRun(c)
StoreSays(s) == /\ \A m \in Messages : m \in s.sms.ok => SentNow(m)
                /\ \A c \in Commands : c \in s.executed \cup s.cmd.ok => RunNow(c)
TablesSay == /\ \A m \in Messages : message'[m] = "delivered" => SaidSent(m)
             /\ \A c \in Commands : command'[c] = "completed" => SaidRun(c)

LEMMA SaidIsDone ==
  ASSUME Truthful, sends \in [Messages -> Nat], sends' \in [Messages -> Nat],
         \A m \in Messages : sends[m] <= sends'[m], \A c \in Commands : Ran(c) => Ran(c)',
         \A l \in Loops : LoopSays(l), \A h \in Handlers : CallSays(h),
         StoreSays(prefs'), StoreSays(disk'), TablesSay,
         \A l \in Loops : \A c, d \in loop'[l].now : c = d
  PROVE  Truthful'
<1>1. ASSUME NEW m \in Messages, SaidSent(m)'
      PROVE  sends'[m] > 0
  <2>1. SentNow(m)
    <3>1. CASE m \in prefs'.sms.ok \cup disk'.sms.ok
      BY <3>1 DEF StoreSays
    <3>2. CASE \E l \in Loops : m \in loop'[l].sms.ok
      BY <3>2 DEF LoopSays
    <3>3. CASE (\E h \in Handlers : m \in handler'[h].sms.ok) \/ message'[m] = "delivered"
      BY <3>3 DEF CallSays, TablesSay, SentNow
    <3> QED
      BY <1>1, <3>1, <3>2, <3>3 DEF SaidSent
  <2>2. SaidSent(m) => sends[m] > 0
    BY DEF Truthful
  <2>3. sends[m] \in Nat /\ sends'[m] \in Nat /\ sends[m] <= sends'[m]
    OBVIOUS
  <2> QED
    BY <2>1, <2>2, <2>3 DEF SentNow
<1>2. ASSUME NEW c \in Commands, SaidRun(c)'
      PROVE  Ran(c)'
  <2>1. RunNow(c)
    <3>1. CASE c \in prefs'.executed \cup disk'.executed \cup prefs'.cmd.ok \cup disk'.cmd.ok
      <4>1. CASE c \in prefs'.executed \cup prefs'.cmd.ok
        BY <4>1 DEF StoreSays
      <4>2. CASE c \in disk'.executed \cup disk'.cmd.ok
        BY <4>2 DEF StoreSays
      <4> QED
        BY <3>1, <4>1, <4>2
    <3>2. CASE \E l \in Loops : c \in loop'[l].executed \cup loop'[l].cmd.ok
      BY <3>2 DEF LoopSays
    <3>3. CASE (\E h \in Handlers : c \in handler'[h].cmd.ok) \/ command'[c] = "completed"
      BY <3>3 DEF CallSays, TablesSay, RunNow
    <3> QED
      BY <1>2, <3>1, <3>2, <3>3 DEF SaidRun
  <2>2. SaidRun(c) => Ran(c)
    BY DEF Truthful
  <2> QED
    BY <2>1, <2>2 DEF RunNow
<1> QED
  BY <1>1, <1>2 DEF Truthful

\* What is said already, where it is said.
LEMMA Said ==
  /\ \A l \in Loops : /\ \A m \in loop[l].sms.ok : SaidSent(m)
                      /\ \A c \in loop[l].executed \cup loop[l].cmd.ok : SaidRun(c)
  /\ \A h \in Handlers : /\ \A m \in handler[h].sms.ok : SaidSent(m)
                         /\ \A c \in handler[h].cmd.ok : SaidRun(c)
  /\ \A m \in prefs.sms.ok \cup disk.sms.ok : SaidSent(m)
  /\ \A c \in prefs.executed \cup disk.executed \cup prefs.cmd.ok \cup disk.cmd.ok : SaidRun(c)
BY DEF SaidSent, SaidRun

\* A step of one loop.
LEMMA OneLoopSays ==
  ASSUME TypeOK, TypeOK', Truthful, NEW l \in Loops, NEW p, loop' = [loop EXCEPT ![l] = p],
         UNCHANGED <<message, command, disk, spent.kills>>, \A h \in Handlers : CallSays(h),
         \A m \in Messages : sends[m] <= sends'[m], \A c \in Commands : runs[c] <= runs'[c],
         \A c \in loop[l].now : c \in p.now \/ runs'[c] > 0, \A c, d \in p.now : c = d,
         \A m \in Messages : m \in p.sms.ok \cup prefs'.sms.ok => SentNow(m),
         \A c \in Commands : c \in p.executed \cup p.cmd.ok \cup prefs'.executed \cup prefs'.cmd.ok
                               => SaidRun(c) \/ runs'[c] > 0 \/ c \in p.now
  PROVE  Truthful'
<1>1. loop'[l] = p /\ \A k \in Loops \ {l} : loop'[k] = loop[k]
  BY DEF TypeOK
<1>2. \A c \in Commands : runs[c] \in Nat /\ runs'[c] \in Nat
  BY DEF TypeOK
<1>3. ASSUME NEW c \in Commands, Ran(c)
      PROVE  Ran(c)'
  <2>1. CASE runs[c] > 0
    BY <1>2, <2>1 DEF Ran
  <2>2. CASE spent.kills > 0
    BY <2>2 DEF Ran
  <2>3. CASE \E k \in Loops : c \in loop[k].now
    <3>1. PICK k \in Loops : c \in loop[k].now
      BY <2>3
    <3>2. CASE k = l
      BY <1>1, <3>1, <3>2 DEF Ran
    <3>3. CASE k # l
      BY <1>1, <3>1, <3>3 DEF Ran
    <3> QED
      BY <3>2, <3>3
  <2> QED
    BY <1>3, <2>1, <2>2, <2>3 DEF Ran
<1>4. \A c \in Commands : runs'[c] > 0 \/ c \in p.now => Ran(c)'
  BY <1>1 DEF Ran
<1>5. ASSUME NEW k \in Loops
      PROVE  LoopSays(k)
  <2>1. CASE k = l
    BY <1>1, <1>4, <2>1 DEF LoopSays, RunNow
  <2>2. CASE k # l
    <3>1. loop'[k] = loop[k]
      BY <1>1, <2>2
    <3> QED
      BY <3>1, Said DEF LoopSays, SentNow, RunNow
  <2> QED
    BY <2>1, <2>2
<1>6. StoreSays(prefs')
  BY <1>4 DEF StoreSays, RunNow
<1>7. StoreSays(disk')
  BY Said DEF StoreSays, SentNow, RunNow
<1>8. TablesSay
  BY DEF TablesSay, SaidSent, SaidRun
<1>9. sends \in [Messages -> Nat] /\ sends' \in [Messages -> Nat]
  BY DEF TypeOK
<1>10. \A k \in Loops : \A c, d \in loop'[k].now : c = d
  BY <1>1 DEF Truthful
<1> QED
  BY <1>3, <1>5, <1>6, <1>7, <1>8, <1>9, <1>10, SaidIsDone

\* The server passes on what it is told, and the disk what it is given.
LEMMA ServerTruthful ==
  ASSUME TypeOK, TypeOK', Truthful, Admin \/ (\E h \in Handlers : Handle(h)) \/ Flush
  PROVE  Truthful'
<1>1. UNCHANGED <<prefs, sends, runs>> /\ disk' \in {disk, prefs}
  BY DEF Admin, Enqueue, MarkFailed, RetryMessage, EnqueueCommand, SetDeviceSmsGateway, Handle, Receive,
         ApplyRemoteCommandReport, ApplySmsReport, SelectCommands, MarkCommands, ClaimSms, SkipSms,
         Answer, Flush, store, ghosts
<1>2. spent'.kills = spent.kills
  <2>1. spent' = spent \/ spent' = [spent EXCEPT !.toggles = @ + 1]
    BY DEF Admin, Enqueue, MarkFailed, RetryMessage, EnqueueCommand, SetDeviceSmsGateway, Handle, Receive,
           ApplyRemoteCommandReport, ApplySmsReport, SelectCommands, MarkCommands, ClaimSms, SkipSms,
           Answer, Flush
  <2> QED
    BY <2>1 DEF TypeOK
<1>3. ASSUME NEW l \in Loops
      PROVE  /\ loop'[l].sms = loop[l].sms /\ loop'[l].cmd = loop[l].cmd
             /\ loop'[l].executed = loop[l].executed /\ loop'[l].now = loop[l].now
  <2>1. CASE UNCHANGED loop
    BY <2>1
  <2>2. ASSUME NEW h \in Handlers, Answer(h)
        PROVE  /\ loop'[l].sms = loop[l].sms /\ loop'[l].cmd = loop[l].cmd
               /\ loop'[l].executed = loop[l].executed /\ loop'[l].now = loop[l].now
    <3>1. \/ loop'[l] = loop[l]
          \/ loop'[l] = [loop[l] EXCEPT !.pc = "clear sms", !.call = {},
                                        !.messages = handler[h].messages,
                                        !.commands = handler[h].commands]
      BY <2>2 DEF Answer
    <3>2. loop[l] \in LoopState
      BY DEF TypeOK
    <3> QED
      BY <3>1, <3>2 DEF LoopState
  <2> QED
    BY <2>1, <2>2
    DEF Admin, Enqueue, MarkFailed, RetryMessage, EnqueueCommand, SetDeviceSmsGateway, Handle, Receive,
        ApplyRemoteCommandReport, ApplySmsReport, SelectCommands, MarkCommands, ClaimSms, SkipSms, Flush
<1>4. ASSUME NEW h \in Handlers
      PROVE  handler'[h].sms.ok \subseteq handler[h].sms.ok /\ handler'[h].cmd.ok \subseteq handler[h].cmd.ok
  <2> DEFINE Less(r) == r.sms.ok \subseteq handler[h].sms.ok /\ r.cmd.ok \subseteq handler[h].cmd.ok
  <2>1. handler[h] \in Call /\ handler \in [Handlers -> Call]
    BY DEF TypeOK
  <2>2. CASE UNCHANGED handler
    BY <2>2
  <2>3. ASSUME NEW g \in Handlers, Handle(g)
        PROVE  Less(handler'[h])
    <3>1. CASE g # h
      <4>1. handler'[h] = handler[h]
        BY <2>1, <2>3, <3>1 DEF Handle, Receive, ApplyRemoteCommandReport, ApplySmsReport, SelectCommands,
               MarkCommands, ClaimSms, SkipSms, Answer
      <4> QED
        BY <4>1
    <3>2. CASE g = h
      <4>1. CASE Receive(h)
        <5>1. handler'[h] = [handler[h] EXCEPT !.pc = "commands", !.gateway = gateway]
          BY <2>1, <4>1 DEF Receive
        <5> QED
          BY <2>1, <5>1 DEF Call
      <4>2. CASE ApplyRemoteCommandReport(h)
        <5>1. PICK c \in Ids(handler[h].cmd) :
                handler' = [handler EXCEPT ![h].cmd = [ok |-> @.ok \ {c}, failed |-> @.failed \ {c}]]
          BY <4>2 DEF ApplyRemoteCommandReport
        <5> DEFINE r == [ok |-> handler[h].cmd.ok \ {c}, failed |-> handler[h].cmd.failed \ {c}]
        <5>2. handler'[h] = [handler[h] EXCEPT !.cmd = r]
          BY <2>1, <5>1
        <5>3. r.ok \subseteq handler[h].cmd.ok
          OBVIOUS
        <5> HIDE DEF r
        <5>4. handler'[h].cmd = r /\ handler'[h].sms = handler[h].sms
          BY <2>1, <5>2 DEF Call
        <5> QED
          BY <5>3, <5>4
      <4>3. CASE ApplySmsReport(h)
        <5>1. PICK m \in Ids(handler[h].sms) :
                handler' = [handler EXCEPT ![h].sms = [ok |-> @.ok \ {m}, failed |-> @.failed \ {m}]]
          BY <4>3 DEF ApplySmsReport
        <5> DEFINE r == [ok |-> handler[h].sms.ok \ {m}, failed |-> handler[h].sms.failed \ {m}]
        <5>2. handler'[h] = [handler[h] EXCEPT !.sms = r]
          BY <2>1, <5>1
        <5>3. r.ok \subseteq handler[h].sms.ok
          OBVIOUS
        <5> HIDE DEF r
        <5>4. handler'[h].sms = r /\ handler'[h].cmd = handler[h].cmd
          BY <2>1, <5>2 DEF Call
        <5> QED
          BY <5>3, <5>4
      <4>4. CASE SelectCommands(h)
        <5>1. handler'[h] = [handler[h] EXCEPT !.pc = "mark", !.commands = Outstanding]
          BY <2>1, <4>4 DEF SelectCommands
        <5> QED
          BY <2>1, <5>1 DEF Call
      <4>5. CASE MarkCommands(h)
        <5>1. handler'[h] = [handler[h] EXCEPT !.pc = "claim"]
          BY <2>1, <4>5 DEF MarkCommands
        <5> QED
          BY <2>1, <5>1 DEF Call
      <4>8. CASE SkipSms(h)
        <5>1. handler'[h] = [handler[h] EXCEPT !.pc = "answer", !.gateway = FALSE]
          BY <2>1, <4>8 DEF SkipSms
        <5> QED
          BY <2>1, <5>1 DEF Call
      <4>6. CASE ClaimSms(h)
        <5>1. handler'[h] = [handler[h] EXCEPT !.pc = "answer", !.gateway = FALSE, !.messages = Claimable]
          BY <2>1, <4>6 DEF ClaimSms
        <5> QED
          BY <2>1, <5>1 DEF Call
      <4>7. CASE Answer(h)
        <5>1. handler'[h] = NoCall
          BY <2>1, <4>7 DEF Answer
        <5> QED
          BY <5>1, NothingSaid
      <4> QED
        BY <2>3, <3>2, <4>1, <4>2, <4>3, <4>4, <4>5, <4>6, <4>7, <4>8 DEF Handle
    <3> QED
      BY <3>1, <3>2
  <2> QED
    BY <2>2, <2>3 DEF Admin, Enqueue, MarkFailed, RetryMessage, EnqueueCommand, SetDeviceSmsGateway, Flush
<1>5. \A h \in Handlers : CallSays(h)
  BY <1>4, Said DEF CallSays
<1>6. \A l \in Loops : LoopSays(l)
  BY <1>3, Said DEF LoopSays, SentNow, RunNow
<1>7. StoreSays(prefs') /\ StoreSays(disk')
  BY <1>1, Said DEF StoreSays, SentNow, RunNow
<1>8. \A c \in Commands : Ran(c) => Ran(c)'
  BY <1>1, <1>2, <1>3 DEF Ran
<1>9. ASSUME NEW m \in Messages, message'[m] = "delivered"
      PROVE  SaidSent(m)
  <2>1. message \in [Messages -> {"none", "pending", "sent", "delivered", "failed"}]
    BY DEF TypeOK
  <2>2. CASE message[m] = "delivered"
    BY <2>2 DEF SaidSent
  <2>3. CASE message[m] # "delivered"
    <3>1. \A n \in Messages : ~Enqueue(n) /\ ~MarkFailed(n) /\ ~RetryMessage(n)
      BY <1>9, <2>1, <2>3 DEF Enqueue, MarkFailed, RetryMessage
    <3>2. \A h \in Handlers : ~ClaimSms(h)
      BY <1>9, <2>1, <2>3 DEF ClaimSms
    <3>3. PICK h \in Handlers : ApplySmsReport(h)
      BY <1>9, <2>3, <3>1, <3>2
      DEF Admin, EnqueueCommand, SetDeviceSmsGateway, Handle, Receive, ApplyRemoteCommandReport,
          SelectCommands, MarkCommands, SkipSms, Answer, Flush, server
    <3>4. m \in handler[h].sms.ok
      BY <1>9, <2>1, <2>3, <3>3 DEF ApplySmsReport
    <3> QED
      BY <3>4, Said
  <2> QED
    BY <2>2, <2>3
<1>10. ASSUME NEW c \in Commands, command'[c] = "completed"
       PROVE  SaidRun(c)
  <2>1. command \in [Commands -> {"none", "pending", "sent", "completed", "failed"}]
    BY DEF TypeOK
  <2>2. CASE command[c] = "completed"
    BY <2>2 DEF SaidRun
  <2>3. CASE command[c] # "completed"
    <3>1. \A d \in Commands : ~EnqueueCommand(d)
      BY <1>10, <2>1, <2>3 DEF EnqueueCommand
    <3>2. \A h \in Handlers : ~MarkCommands(h)
      BY <1>10, <2>1, <2>3 DEF MarkCommands
    <3>3. PICK h \in Handlers : ApplyRemoteCommandReport(h)
      BY <1>10, <2>3, <3>1, <3>2
      DEF Admin, Enqueue, MarkFailed, RetryMessage, SetDeviceSmsGateway, Handle, Receive, ApplySmsReport,
          SelectCommands, ClaimSms, SkipSms, Answer, Flush, server
    <3>4. c \in handler[h].cmd.ok
      BY <1>10, <2>1, <2>3, <3>3 DEF ApplyRemoteCommandReport
    <3> QED
      BY <3>4, Said
  <2> QED
    BY <2>2, <2>3
<1>11. /\ sends \in [Messages -> Nat] /\ sends' \in [Messages -> Nat]
       /\ \A m \in Messages : sends[m] <= sends'[m]
  BY <1>1 DEF TypeOK
<1>12. \A l \in Loops : \A c, d \in loop'[l].now : c = d
  BY <1>3 DEF Truthful
<1> QED
  BY <1>5, <1>6, <1>7, <1>8, <1>9, <1>10, <1>11, <1>12, SaidIsDone DEF TablesSay

\* A call that is abandoned says nothing.
LEMMA AbandonedSays ==
  ASSUME TypeOK, NEW calls \in SUBSET Handlers, Abandoned(calls)
  PROVE  \A h \in Handlers : CallSays(h)
<1>1. ASSUME NEW h \in Handlers
      PROVE  handler'[h] \in {handler[h], NoCall}
  BY DEF TypeOK, Abandoned
<1>2. ASSUME NEW h \in Handlers
      PROVE  CallSays(h)
  BY <1>1, NothingSaid, Said DEF CallSays
<1> QED
  BY <1>2

\* A poll says what was queued; it clears the queues, or saves its reports over them.
LEMMA PollTruthful ==
  ASSUME TypeOK, TypeOK', RunsAreKnown, Truthful, NEW l \in Loops,
         Poll(l) \/ Begin(l) \/ ConnectionLost(l)
  PROVE  Truthful'
<1>1. loop[l] \in LoopState /\ loop \in [Loops -> LoopState] /\ prefs \in Prefs
  BY DEF TypeOK
<1>2. UNCHANGED <<message, command, disk>> /\ spent'.kills = spent.kills
  BY DEF Poll, Begin, ConnectionLost, ClearSms, ClearCmd, SendSms, RefuseSms, SaveSms, LookUp, Reack,
         AddExecuted, HandleCommand, SaveCmd, server, store, TypeOK
<1>3. loop[l].pc # "run" => loop[l].now = {}
  BY DEF RunsAreKnown, Doing
<1>4. /\ \A m \in loop[l].sms.ok \cup prefs.sms.ok : SentNow(m)
      /\ \A c \in loop[l].executed \cup loop[l].cmd.ok \cup prefs.executed \cup prefs.cmd.ok : SaidRun(c)
  BY Said DEF SentNow
<1>5. UNCHANGED handler => \A h \in Handlers : CallSays(h)
  BY Said DEF CallSays
<1>6. /\ UNCHANGED sends => \A m \in Messages : sends[m] <= sends'[m]
      /\ UNCHANGED runs => \A c \in Commands : runs[c] <= runs'[c]
  BY DEF TypeOK
\* The loop goes on, without anything being sent or run.
<1>7. ASSUME NEW p, loop' = [loop EXCEPT ![l] = p], UNCHANGED <<sends, runs>>,
             loop[l].pc # "run", p.now \in {{}, loop[l].now},
             \A h \in Handlers : CallSays(h),
             p.sms.ok \cup prefs'.sms.ok \subseteq loop[l].sms.ok \cup prefs.sms.ok,
             p.executed \cup p.cmd.ok \cup prefs'.executed \cup prefs'.cmd.ok
               \subseteq loop[l].executed \cup loop[l].cmd.ok \cup prefs.executed \cup prefs.cmd.ok
      PROVE  Truthful'
  <2>1. loop[l].now = {} /\ p.now = {}
    BY <1>3, <1>7
  <2> QED
    BY <1>2, <1>4, <1>6, <1>7, <2>1, OneLoopSays
<1>8. ASSUME NEW p, Onward(l, p), UNCHANGED <<handler, sends, runs>>, loop[l].pc # "run",
             prefs'.sms.ok \subseteq loop[l].sms.ok \cup prefs.sms.ok,
             prefs'.executed \cup prefs'.cmd.ok \subseteq loop[l].cmd.ok \cup prefs.executed \cup prefs.cmd.ok
      PROVE  Truthful'
  <2>1. /\ loop' = [loop EXCEPT ![l] = p] /\ p.now = loop[l].now
        /\ p.executed = loop[l].executed /\ p.cmd = loop[l].cmd
        /\ p.sms.ok \subseteq loop[l].sms.ok
    BY <1>8, NothingSaid DEF Onward
  <2> QED
    BY <1>5, <1>7, <1>8, <2>1
<1>9. ASSUME EndPoll(l), UNCHANGED <<sends, runs>>, loop[l].pc # "run", \A h \in Handlers : CallSays(h),
             prefs'.sms.ok \subseteq prefs.sms.ok,
             prefs'.executed \cup prefs'.cmd.ok \subseteq loop[l].cmd.ok \cup prefs.executed \cup prefs.cmd.ok
      PROVE  Truthful'
  <2> DEFINE p == Done(l)
  <2>1. loop' = [loop EXCEPT ![l] = p] /\ p.sms.ok = {} /\ p.executed = {} /\ p.cmd.ok = {} /\ p.now = {}
    BY <1>9, NothingSaid DEF EndPoll
  <2> HIDE DEF p
  <2> QED
    BY <1>7, <1>9, <2>1
<1>10. CASE Begin(l)
  <2>1. PICK h \in Handlers :
          /\ handler' = [handler EXCEPT ![h] = [NoCall EXCEPT !.pc = "receive",
                                                              !.sms = prefs.sms, !.cmd = prefs.cmd]]
          /\ loop' = [loop EXCEPT ![l] = [@ EXCEPT !.pc = "await", !.call = {h},
                                                   !.hadSms = prefs.sms # NoReports,
                                                   !.hadCmd = prefs.cmd # NoReports]]
    BY <1>10 DEF Begin
  <2> DEFINE p == [loop[l] EXCEPT !.pc = "await", !.call = {h}, !.hadSms = prefs.sms # NoReports,
                                  !.hadCmd = prefs.cmd # NoReports]
             q == [NoCall EXCEPT !.pc = "receive", !.sms = prefs.sms, !.cmd = prefs.cmd]
  <2>2. loop' = [loop EXCEPT ![l] = p] /\ handler' = [handler EXCEPT ![h] = q]
    BY <2>1
  <2>3. p.sms = loop[l].sms /\ p.executed = loop[l].executed /\ p.cmd = loop[l].cmd /\ p.now = loop[l].now
    BY <1>1 DEF LoopState
  <2>4. q.sms = prefs.sms /\ q.cmd = prefs.cmd
    BY Constants DEF Call
  <2> HIDE DEF p, q
  <2>5. \A g \in Handlers : handler'[g] \in {handler[g], q}
    BY <2>2 DEF TypeOK
  <2>6. ASSUME NEW g \in Handlers
        PROVE  CallSays(g)
    BY <2>4, <2>5, Said DEF CallSays
  <2>7. UNCHANGED <<sends, runs, prefs>> /\ loop[l].pc # "run"
    BY <1>10 DEF Begin, ghosts, store, Doing
  <2> QED
    BY <1>7, <2>2, <2>3, <2>6, <2>7
<1>11. CASE ConnectionLost(l)
  <2>1. \A h \in Handlers : CallSays(h)
    BY <1>1, <1>11, AbandonedSays DEF ConnectionLost, LoopState
  <2>2. EndPoll(l) /\ UNCHANGED <<sends, runs, prefs>> /\ loop[l].pc # "run"
    BY <1>11 DEF ConnectionLost, ghosts, store, Doing
  <2> QED
    BY <1>9, <2>1, <2>2
<1>12. CASE ClearSms(l) \/ ClearCmd(l)
  <2>1. PICK p : Onward(l, p)
    BY <1>12, GoesOn
  <2>2. /\ prefs'.sms \in {prefs.sms, NoReports} /\ prefs'.cmd \in {prefs.cmd, NoReports}
        /\ prefs'.executed = prefs.executed
    BY <1>1, <1>12 DEF ClearSms, ClearCmd, Prefs
  <2>3. UNCHANGED <<handler, sends, runs>> /\ loop[l].pc # "run"
    BY <1>12 DEF ClearSms, ClearCmd, ghosts, Doing
  <2> QED
    BY <1>8, <2>1, <2>2, <2>3, NothingSaid
<1>13. CASE SendSms(l)
  <2>1. PICK m \in loop[l].messages :
          /\ sends' = [sends EXCEPT ![m] = @ + 1]
          /\ loop' = [loop EXCEPT ![l].messages = @ \ {m}, ![l].sms.ok = @ \cup {m}]
    BY <1>13 DEF SendSms
  <2>2. m \in Messages /\ sends \in [Messages -> Nat] /\ sends[m] \in Nat
    BY <1>1, <2>1 DEF LoopState, TypeOK
  <2>3. sends'[m] > 0 /\ \A n \in Messages : sends[n] <= sends'[n]
    <3>1. sends'[m] = sends[m] + 1 /\ \A n \in Messages \ {m} : sends'[n] = sends[n] /\ sends[n] \in Nat
      BY <2>1, <2>2
    <3> QED
      BY <2>2, <3>1
  <2> DEFINE r == [loop[l].sms EXCEPT !.ok = loop[l].sms.ok \cup {m}]
             p == [loop[l] EXCEPT !.messages = loop[l].messages \ {m}, !.sms = r]
  <2>4. loop' = [loop EXCEPT ![l] = p]
    BY <1>1, <2>1 DEF LoopState
  <2>5. r.ok = loop[l].sms.ok \cup {m}
    BY <1>1 DEF LoopState, SmsReports
  <2> HIDE DEF r
  <2>6. p.sms = r /\ p.executed = loop[l].executed /\ p.cmd = loop[l].cmd /\ p.now = loop[l].now
    BY <1>1 DEF LoopState
  <2> HIDE DEF p
  <2>7. UNCHANGED <<handler, runs, prefs>>
    BY <1>13 DEF SendSms, store
  <2>8. \A n \in Messages : n \in p.sms.ok \cup prefs'.sms.ok => SentNow(n)
    BY <1>4, <2>3, <2>5, <2>6, <2>7 DEF SentNow
  <2>9. \A c, d \in p.now : c = d
    BY <2>6 DEF Truthful
  <2> QED
    BY <1>2, <1>4, <1>5, <1>6, <2>3, <2>4, <2>6, <2>7, <2>8, <2>9, OneLoopSays
<1>14. CASE RefuseSms(l)
  <2>1. PICK m \in loop[l].messages :
          loop' = [loop EXCEPT ![l].messages = @ \ {m}, ![l].sms.failed = @ \cup {m}]
    BY <1>14 DEF RefuseSms
  <2> DEFINE r == [loop[l].sms EXCEPT !.failed = loop[l].sms.failed \cup {m}]
             p == [loop[l] EXCEPT !.messages = loop[l].messages \ {m}, !.sms = r]
  <2>2. loop' = [loop EXCEPT ![l] = p]
    BY <1>1, <2>1 DEF LoopState
  <2>3. r.ok = loop[l].sms.ok
    BY <1>1 DEF LoopState, SmsReports
  <2> HIDE DEF r
  <2>4. p.sms = r /\ p.executed = loop[l].executed /\ p.cmd = loop[l].cmd /\ p.now = loop[l].now
    BY <1>1 DEF LoopState
  <2> HIDE DEF p
  <2>5. UNCHANGED <<handler, sends, runs, prefs>> /\ loop[l].pc # "run"
    BY <1>14 DEF RefuseSms, ghosts, store, Doing
  <2> QED
    BY <1>5, <1>7, <2>2, <2>3, <2>4, <2>5
<1>15. CASE SaveSms(l)
  <2>1. UNCHANGED <<handler, sends, runs>> /\ loop[l].pc # "run"
    BY <1>15 DEF SaveSms, ghosts, Doing
  <2>2. prefs'.sms = loop[l].sms /\ prefs'.executed = prefs.executed /\ prefs'.cmd = prefs.cmd
    BY <1>1, <1>15 DEF SaveSms, Prefs
  <2>3. PICK p : Onward(l, p)
    BY <1>15, GoesOn
  <2> QED
    BY <1>8, <2>1, <2>2, <2>3
<1>16. CASE LookUp(l)
  <2>1. UNCHANGED <<handler, sends, runs, prefs>> /\ loop[l].pc # "run"
    BY <1>16 DEF LookUp, ghosts, store, Doing
  <2>2. CASE loop[l].commands = {}
    <3>1. EndPoll(l)
      BY <1>16, <2>2 DEF LookUp, EndPoll
    <3> QED
      BY <1>5, <1>9, <2>1, <3>1
  <2>3. CASE loop[l].commands # {}
    <3> DEFINE p == [loop[l] EXCEPT !.pc = "execute", !.executed = prefs.executed]
    <3>1. loop' = [loop EXCEPT ![l] = p]
      BY <1>1, <1>16, <2>3 DEF LookUp, LoopState
    <3>2. p.sms = loop[l].sms /\ p.executed = prefs.executed /\ p.cmd = loop[l].cmd /\ p.now = loop[l].now
      BY <1>1 DEF LoopState
    <3> HIDE DEF p
    <3> QED
      BY <1>5, <1>7, <2>1, <3>1, <3>2
  <2> QED
    BY <2>2, <2>3
<1>17. CASE Reack(l)
  <2>1. PICK c \in loop[l].commands :
          /\ c \in loop[l].executed
          /\ loop' = [loop EXCEPT ![l].commands = @ \ {c}, ![l].cmd.ok = @ \cup {c}]
    BY <1>17 DEF Reack
  <2> DEFINE r == [loop[l].cmd EXCEPT !.ok = loop[l].cmd.ok \cup {c}]
             p == [loop[l] EXCEPT !.commands = loop[l].commands \ {c}, !.cmd = r]
  <2>2. loop' = [loop EXCEPT ![l] = p]
    BY <1>1, <2>1 DEF LoopState
  <2>3. r.ok = loop[l].cmd.ok \cup {c}
    BY <1>1 DEF LoopState, CmdReports
  <2> HIDE DEF r
  <2>4. p.sms = loop[l].sms /\ p.executed = loop[l].executed /\ p.cmd = r /\ p.now = loop[l].now
    BY <1>1 DEF LoopState
  <2> HIDE DEF p
  <2>5. UNCHANGED <<handler, sends, runs, prefs>> /\ loop[l].pc # "run"
    BY <1>17 DEF Reack, ghosts, store, Doing
  <2> QED
    BY <1>5, <1>7, <2>1, <2>2, <2>3, <2>4, <2>5
<1>18. CASE AddExecuted(l)
  <2>1. PICK c \in loop[l].commands :
          /\ prefs' = [prefs EXCEPT !.executed = @ \cup {c}]
          /\ loop' = [loop EXCEPT ![l].pc = "run", ![l].commands = @ \ {c}, ![l].now = {c}]
    BY <1>18 DEF AddExecuted
  <2> DEFINE p == [loop[l] EXCEPT !.pc = "run", !.commands = loop[l].commands \ {c}, !.now = {c}]
  <2>2. loop' = [loop EXCEPT ![l] = p]
    BY <1>1, <2>1 DEF LoopState
  <2>3. p.sms = loop[l].sms /\ p.executed = loop[l].executed /\ p.cmd = loop[l].cmd /\ p.now = {c}
    BY <1>1 DEF LoopState
  <2>4. /\ prefs'.executed = prefs.executed \cup {c}
        /\ prefs'.sms = prefs.sms /\ prefs'.cmd = prefs.cmd
    BY <1>1, <2>1 DEF Prefs
  <2> HIDE DEF p
  <2>5. UNCHANGED <<handler, sends, runs>> /\ loop[l].now = {}
    BY <1>3, <1>18 DEF AddExecuted, ghosts, Doing
  <2>6. \A d \in Commands : d \in p.executed \cup p.cmd.ok \cup prefs'.executed \cup prefs'.cmd.ok
                              => SaidRun(d) \/ d \in p.now
    BY <1>4, <2>3, <2>4
  <2>7. \A m \in Messages : m \in p.sms.ok \cup prefs'.sms.ok => SentNow(m)
    BY <1>4, <2>3, <2>4
  <2>8. \A d, f \in p.now : d = f
    BY <2>3
  <2> QED
    BY <1>2, <1>5, <1>6, <2>2, <2>5, <2>6, <2>7, <2>8, OneLoopSays
<1>19. CASE HandleCommand(l)
  <2>1. PICK c \in loop[l].now :
          /\ runs' = [runs EXCEPT ![c] = @ + 1]
          /\ loop' = [loop EXCEPT ![l].pc = "execute", ![l].now = {}, ![l].cmd = Reported(@, c)]
    BY <1>19 DEF HandleCommand
  <2>2. c \in Commands /\ runs \in [Commands -> Nat] /\ runs[c] \in Nat
    BY <1>1, <2>1 DEF LoopState, TypeOK
  <2>3. runs'[c] > 0 /\ \A d \in Commands : runs[d] <= runs'[d]
    <3>1. runs'[c] = runs[c] + 1 /\ \A d \in Commands \ {c} : runs'[d] = runs[d] /\ runs[d] \in Nat
      BY <2>1, <2>2
    <3> QED
      BY <2>2, <3>1
  <2> DEFINE r == Reported(loop[l].cmd, c)
             p == [loop[l] EXCEPT !.pc = "execute", !.now = {}, !.cmd = r]
  <2>4. r.ok \subseteq loop[l].cmd.ok \cup {c}
    BY <1>1 DEF Reported, LoopState, CmdReports
  <2> HIDE DEF r
  <2>5. loop' = [loop EXCEPT ![l] = p]
    BY <1>1, <2>1 DEF LoopState, r
  <2>6. p.sms = loop[l].sms /\ p.executed = loop[l].executed /\ p.cmd = r /\ p.now = {}
    BY <1>1 DEF LoopState
  <2> HIDE DEF p
  <2>7. UNCHANGED <<handler, sends, prefs>>
    BY <1>19 DEF HandleCommand, store
  <2>8. \A d \in loop[l].now : runs'[d] > 0
    <3>1. loop[l].now \subseteq {c}
      BY <2>1 DEF Truthful
    <3> QED
      BY <2>3, <3>1
  <2> QED
    BY <1>2, <1>4, <1>5, <1>6, <2>3, <2>4, <2>5, <2>6, <2>7, <2>8, OneLoopSays
<1>20. CASE SaveCmd(l)
  <2>1. EndPoll(l) /\ UNCHANGED <<handler, sends, runs>> /\ loop[l].pc # "run"
    BY <1>20 DEF SaveCmd, ghosts, Doing
  <2>2. prefs'.cmd = loop[l].cmd /\ prefs'.executed = prefs.executed /\ prefs'.sms = prefs.sms
    BY <1>1, <1>20 DEF SaveCmd, Prefs
  <2> QED
    BY <1>5, <1>9, <2>1, <2>2
<1> QED
  BY <1>10, <1>11, <1>12, <1>13, <1>14, <1>15, <1>16, <1>17, <1>18, <1>19, <1>20 DEF Poll

\* Loops that are opened say nothing; an app that is killed has only what is on the disk.
LEMMA AppTruthful ==
  ASSUME TypeOK, RunsAreKnown, Truthful, Start \/ Restart \/ Kill
  PROVE  Truthful'
<1>1. sends \in [Messages -> Nat] /\ sends' = sends /\ \A m \in Messages : sends[m] <= sends'[m]
  <2>1. sends' = sends
    BY DEF Start, Restart, Kill, ghosts
  <2>2. sends \in [Messages -> Nat]
    BY DEF TypeOK
  <2> QED
    BY <2>1, <2>2
<1>2. UNCHANGED <<message, command, runs, disk>> /\ prefs' \in {prefs, disk}
  BY DEF Start, Restart, Kill, server, store, ghosts
<1>3. StoreSays(prefs') /\ StoreSays(disk')
  BY <1>2, Said DEF StoreSays, SentNow, RunNow
<1>4. TablesSay
  BY <1>2 DEF TablesSay, SaidSent, SaidRun
<1>5. \A h \in Handlers : CallSays(h)
  <2>1. CASE UNCHANGED handler
    BY <2>1, Said DEF CallSays
  <2>2. CASE Kill
    <3>1. UNION {loop[l].call : l \in Loops} \in SUBSET Handlers
      BY DEF TypeOK, LoopState
    <3> QED
      BY <2>2, <3>1, AbandonedSays DEF Kill
  <2> QED
    BY <2>1, <2>2 DEF Start, Restart
<1>6. ASSUME NEW loops \in [Loops -> LoopState], Free # {}, loop' = Opened(loops),
             \A l \in Loops : /\ loops[l].sms = loop[l].sms /\ loops[l].cmd = loop[l].cmd
                              /\ loops[l].executed = loop[l].executed /\ loops[l].now = loop[l].now,
             spent'.kills = spent.kills
      PROVE  Truthful'
  <2>1. PICK k \in Loops : loop[k].now = {} /\ loop' = [loops EXCEPT ![k] = Asleep]
    BY <1>6, OpenedLoop DEF Doing, RunsAreKnown
  <2>2. Asleep.sms.ok = {} /\ Asleep.cmd.ok = {} /\ Asleep.executed = {} /\ Asleep.now = {}
    BY NothingSaid DEF Asleep, Off
  <2>3. loop'[k] = Asleep /\ \A l \in Loops \ {k} : loop'[l] = loops[l]
    BY <1>6, <2>1
  <2>4. ASSUME NEW l \in Loops
        PROVE  LoopSays(l) /\ loop'[l].now = loop[l].now
    <3>1. CASE l = k
      BY <1>6, <2>1, <2>2, <2>3, <3>1 DEF LoopSays
    <3>2. CASE l # k
      BY <1>6, <2>3, <3>2, Said DEF LoopSays, SentNow, RunNow
    <3> QED
      BY <3>1, <3>2
  <2>5. \A c \in Commands : Ran(c) => Ran(c)'
    BY <1>2, <1>6, <2>4 DEF Ran
  <2>6. \A l \in Loops : \A c, d \in loop'[l].now : c = d
    BY <2>4 DEF Truthful
  <2> QED
    BY <1>1, <1>3, <1>4, <1>5, <2>4, <2>5, <2>6, SaidIsDone
<1>7. CASE Start
  BY <1>6, <1>7 DEF Start, TypeOK
<1>8. CASE Restart
  <2>1. PICK l \in Loops : loop' = Opened([loop EXCEPT ![l].stopped = TRUE]) /\ Free # {}
    BY <1>8 DEF Restart
  <2> DEFINE loops == [loop EXCEPT ![l].stopped = TRUE]
  <2>2. loops \in [Loops -> LoopState]
    <3>1. [loop[l] EXCEPT !.stopped = TRUE] \in LoopState
      BY LoopFields DEF TypeOK, LoopPc
    <3> QED
      BY <3>1 DEF TypeOK
  <2>3. \A k \in Loops : /\ loops[k].sms = loop[k].sms /\ loops[k].cmd = loop[k].cmd
                         /\ loops[k].executed = loop[k].executed /\ loops[k].now = loop[k].now
    BY DEF TypeOK, LoopState
  <2>4. spent'.kills = spent.kills
    BY <1>8 DEF Restart, TypeOK
  <2>5. loop' = Opened(loops)
    BY <2>1
  <2> HIDE DEF loops
  <2> QED
    BY <1>6, <2>1, <2>2, <2>3, <2>4, <2>5
<1>9. CASE Kill
  <2>1. \A l \in Loops : loop'[l] = Off
    BY <1>9 DEF Kill
  <2>2. \A l \in Loops : LoopSays(l)
    BY <2>1, NothingSaid DEF LoopSays
  <2>3. spent'.kills > 0
    <3>1. spent.kills \in Nat /\ spent'.kills = spent.kills + 1
      BY <1>9, SmsGatewayAssumption DEF Kill, TypeOK
    <3> QED
      BY <3>1
  <2>4. \A c \in Commands : Ran(c)'
    BY <2>3 DEF Ran
  <2>5. \A l \in Loops : \A c, d \in loop'[l].now : c = d
    BY <2>1, NothingSaid
  <2> QED
    BY <1>1, <1>3, <1>4, <1>5, <2>2, <2>4, <2>5, SaidIsDone
<1> QED
  BY <1>7, <1>8, <1>9

LEMMA InitTruthful == Init => Truthful
<1> SUFFICES ASSUME Init PROVE Truthful
  OBVIOUS
<1>1. \A l \in Loops : loop[l] = Off
  BY DEF Init
<1>2. \A h \in Handlers : handler[h] = NoCall
  BY DEF Init
<1>3. Empty.sms.ok = {} /\ Empty.cmd.ok = {} /\ Empty.executed = {} /\ prefs = Empty /\ disk = Empty
  BY NothingSaid DEF Init, Empty
<1>4. \A m \in Messages : ~SaidSent(m)
  BY <1>1, <1>2, <1>3, NothingSaid DEF Init, SaidSent
<1>5. \A c \in Commands : ~SaidRun(c)
  BY <1>1, <1>2, <1>3, NothingSaid DEF Init, SaidRun
<1> QED
  BY <1>1, <1>4, <1>5, NothingSaid DEF Truthful

LEMMA NextTruthful == IInv /\ TypeOK' /\ Truthful /\ [Next]_vars => Truthful'
<1> SUFFICES ASSUME IInv, TypeOK', Truthful, [Next]_vars PROVE Truthful'
  OBVIOUS
<1>1. TypeOK /\ RunsAreKnown
  BY DEF IInv, Running
<1>2. CASE UNCHANGED vars
  <2>1. UNCHANGED <<message, command, handler, loop, prefs, disk, sends, runs, spent>>
    BY <1>2 DEF vars, server, store, ghosts
  <2> QED
    BY <2>1 DEF Truthful, SaidSent, SaidRun, Ran
<1>3. ASSUME NEW l \in Loops, Poll(l) \/ Begin(l) \/ ConnectionLost(l)
      PROVE  Truthful'
  BY <1>1, <1>3, PollTruthful
<1> QED
  BY <1>1, <1>2, <1>3, ServerTruthful, AppTruthful DEF Next

\* Every report, wherever it is on its way, tells the truth.
THEOREM TruthTheorem == Spec => []Truthful
BY InitTruthful, NextTruthful, Invariant, TypeCorrect, PTL DEF Spec

\* What the server shows as delivered was handed to the SIM, and what it shows as
\* completed was run, is being run, or was noted down by an app that was killed
\* (handleResponse acknowledges any id it finds noted as "already ran").
THEOREM ReportedTheorem == Spec => []ReportedIsDone
<1>1. Truthful => ReportedIsDone
  BY DEF Truthful, SaidSent, SaidRun, ReportedIsDone
<1> QED
  BY <1>1, TruthTheorem, PTL
=============================================================================
