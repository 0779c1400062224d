------------------------------- MODULE RadApp -------------------------------
(***************************************************************************)
(* RAD_APP, the flight application that turns radiation readings into      *)
(* telemetry and closes the solar panels when a reading exceeds the limit  *)
(* (FDIR).  Source: firmware/apps/rad_app/fsw/src/rad_app.c.               *)
(*                                                                         *)
(* The application is one cFE task.  Every call by which other tasks can   *)
(* see it (CFE_SB_TransmitMsg, CFE_EVS_SendEvent, the registration calls)  *)
(* is a step of its own, because tasks of higher priority (CI_LAB, TO_LAB, *)
(* see firmware/defs/cpu1_cfe_es_startup.scr) run between two of them.     *)
(*                                                                         *)
(* The software bus and Executive Services are external: a command         *)
(* published on MID 0x1882 is queued on the application's pipe, or lost    *)
(* when nobody has subscribed yet or the pipe is full; any bus call may    *)
(* return an error; the application may be restarted (exception action 0   *)
(* of the startup script) at any point, which discards its pipe.           *)
(***************************************************************************)
EXTENDS Integers, Sequences, FiniteSets

CONSTANTS
  Levels,        \* the radiation readings a sensor command can carry
  FcnCodes,      \* the function codes a command on MID 0x1882 can carry
  PipeDepth,     \* RAD_APP_PIPE_DEPTH (10 in rad_app.h)
  TransmitOk,    \* the outcomes of CFE_SB_TransmitMsg: {TRUE}, or BOOLEAN when it can fail
  MaxPublished,  \* bound: commands published on MID 0x1882
  MaxRestarts    \* bound: restarts of the application

ASSUME LevelsAssumption       == Levels \subseteq Int
ASSUME FcnCodesAssumption     == FcnCodes \subseteq Nat
ASSUME TransmitOkAssumption   == TransmitOk \subseteq BOOLEAN /\ TransmitOk # {}
ASSUME PipeDepthAssumption    == PipeDepth \in Nat \ {0}
ASSUME MaxPublishedAssumption == MaxPublished \in Nat
ASSUME MaxRestartsAssumption  == MaxRestarts \in Nat

VARIABLES
  pc,               \* where RAD_APP_Main / RAD_APP_ProcessSensorData is
  RunStatus,        \* RAD_APP_Data.RunStatus
  PacketCount,      \* RAD_APP_Data.PacketCount
  FdirTriggerCount, \* RAD_APP_Data.FdirTriggerCount
  pipe,             \* RAD_APP_Data.CommandPipe, oldest message first
  msg,              \* what SBBufPtr points at
  subscribed,       \* bus: CommandPipe exists and MID 0x1882 is routed to it
  published,        \* history: commands published on MID 0x1882 so far
  lost,             \* history: the commands that never reached the application's code
  calls,            \* history: its CFE_SB_TransmitMsg and CFE_EVS_SendEvent calls
  restarts          \* history: restarts so far

appVars == <<pc, RunStatus, PacketCount, FdirTriggerCount, msg>>
vars    == <<appVars, subscribed, pipe, published, lost, calls, restarts>>

-----------------------------------------------------------------------------
(* Constants of rad_app.h.                                                  *)
FC_SEND_DATA == 2
RAD_LIMIT    == 150
RAD_WARNING  == 100

APP_RUN   == "run"
APP_ERROR == "error"

(* Every command carries an id, the place of its publication; the code has  *)
(* no such field, it lets the properties name a command.                    *)
Msgs  == [id : 1..MaxPublished, fc : FcnCodes, level : Levels]
NoMsg == [id |-> 0, fc |-> 0, level |-> 0]

(* The calls by which the application is seen from outside: the close       *)
(* command, the telemetry packet and the event messages, with the command   *)
(* being processed.  ok is the outcome of the call, which rad_app.c ignores.*)
CallKinds == {"initEvent", "solarClose", "fdirEvent", "warnEvent", "tlm", "infEvent"}
Calls     == [kind : CallKinds, msg : Msgs \union {NoMsg}, ok : BOOLEAN]

PCs == {"register", "createPipe", "subscribe", "initTlm", "runLoop", "receive", "dispatch",
        "solarClose", "fdirEvent", "warnEvent", "sendTlm", "infEvent", "exited"}

(* Faulty variants, for the sensitivity checks of PROJECT.json: in the      *)
(* first chain the warning test first, in the second an inclusive limit.    *)
HealthOfWarningFirst(level) == CASE level > RAD_WARNING -> "warning"
                                 [] level > RAD_LIMIT /\ ~(level > RAD_WARNING) -> "critical"
                                 [] OTHER -> "nominal"
ResponseToInclusive(level) == CASE level >= RAD_LIMIT -> "solarClose"
                                [] level > RAD_WARNING /\ level < RAD_LIMIT -> "warnEvent"
                                [] OTHER -> "sendTlm"

(* The if / else if / else that sets Health, which the telemetry reports.   *)
HealthOf(level) == CASE level > RAD_LIMIT   -> "critical"
                     [] level > RAD_WARNING /\ ~(level > RAD_LIMIT) -> "warning"
                     [] OTHER               -> "nominal"

(* The second one compares RadLevel again: what is done before telemetry.   *)
ResponseTo(level) == CASE level > RAD_LIMIT   -> "solarClose"
                       [] level > RAD_WARNING /\ ~(level > RAD_LIMIT) -> "warnEvent"
                       [] OTHER               -> "sendTlm"

Ids(queue) == {queue[k].id : k \in DOMAIN queue}

-----------------------------------------------------------------------------
Init ==
  /\ pc = "register"
  /\ RunStatus = APP_RUN
  /\ PacketCount = 0
  /\ FdirTriggerCount = 0
  /\ subscribed = FALSE
  /\ pipe = <<>>
  /\ msg = NoMsg
  /\ published = 0
  /\ lost = {}
  /\ calls = <<>>
  /\ restarts = 0

-----------------------------------------------------------------------------
(* The software bus, and the tasks that publish on MID 0x1882.              *)

Publish ==
  /\ published < MaxPublished
  /\ published' = published + 1
  /\ \E fc \in FcnCodes, level \in Levels :
       IF subscribed /\ Len(pipe) < PipeDepth
         THEN /\ pipe' = Append(pipe, [id |-> published + 1, fc |-> fc, level |-> level])
              /\ lost' = lost
         ELSE /\ lost' = lost \union {published + 1}
              /\ pipe' = pipe
  /\ UNCHANGED <<appVars, subscribed, calls, restarts>>

-----------------------------------------------------------------------------
(* RAD_APP_Main before its loop.  A failed call sets RunStatus, and every   *)
(* later step of the initialisation is skipped.                             *)

(* Faulty variant: the return code is stored in RunStatus.                  *)
InitCallStoresCode(here, next) ==
  /\ pc = here
  /\ pc' = next
  /\ RunStatus' \in {APP_RUN, "return code"}
  /\ UNCHANGED <<PacketCount, FdirTriggerCount, msg, pipe, published, lost, calls, restarts>>

InitCall(here, next) ==
  /\ pc = here
  /\ pc' = next
  /\ RunStatus' \in IF RunStatus = APP_RUN THEN {APP_RUN, APP_ERROR} ELSE {RunStatus}
  /\ UNCHANGED <<PacketCount, FdirTriggerCount, msg, pipe, published, lost, calls, restarts>>

Register   == InitCall("register", "createPipe") /\ UNCHANGED subscribed
CreatePipe == InitCall("createPipe", "subscribe") /\ UNCHANGED subscribed
Subscribe  == InitCall("subscribe", "initTlm") /\ subscribed' = (RunStatus' = APP_RUN)

(* A call seen from outside: it moves the task from here to next.           *)
Call(kind, here, next) ==
  /\ pc = here
  /\ pc' = next
  /\ \E ok \in IF kind \in {"solarClose", "tlm"} THEN TransmitOk ELSE {TRUE} :
       calls' = Append(calls, [kind |-> kind, msg |-> msg, ok |-> ok])
  /\ UNCHANGED <<RunStatus, PacketCount, FdirTriggerCount, msg,
                 subscribed, pipe, published, lost, restarts>>

(* Faulty variant: the last step does not look at RunStatus.                *)
InitTlmUnguarded == Call("initEvent", "initTlm", "runLoop")

InitTlm ==
  \/ RunStatus = APP_RUN /\ Call("initEvent", "initTlm", "runLoop")
  \/ /\ pc = "initTlm" /\ RunStatus # APP_RUN
     /\ pc' = "runLoop"
     /\ UNCHANGED <<RunStatus, PacketCount, FdirTriggerCount, msg,
                    subscribed, pipe, published, lost, calls, restarts>>

-----------------------------------------------------------------------------
(* The main loop.                                                           *)

(* CFE_ES_RunLoop continues while RunStatus is APP_RUN.  Otherwise          *)
(* CFE_ES_ExitApp gives up the pipe, with what is still queued on it.       *)
RunLoop ==
  /\ pc = "runLoop"
  /\ IF RunStatus = APP_RUN
       THEN pc' = "receive" /\ UNCHANGED <<subscribed, pipe, lost>>
       ELSE /\ pc' = "exited"
            /\ subscribed' = FALSE
            /\ pipe' = <<>>
            /\ lost' = lost \union Ids(pipe)
  /\ UNCHANGED <<RunStatus, PacketCount, FdirTriggerCount, msg, published, calls, restarts>>

(* CFE_SB_ReceiveBuffer returns the oldest message, waiting for one ...     *)
Receive ==
  /\ pc = "receive"
  /\ pipe # <<>>
  /\ msg' = Head(pipe)
  /\ pipe' = Tail(pipe)
  /\ pc' = "dispatch"
  /\ UNCHANGED <<RunStatus, PacketCount, FdirTriggerCount, subscribed, published, lost, calls, restarts>>

(* ... or an error, after which the loop ends.                              *)
ReceiveError ==
  /\ pc = "receive"
  /\ RunStatus' = APP_ERROR
  /\ pc' = "runLoop"
  /\ UNCHANGED <<PacketCount, FdirTriggerCount, msg, subscribed, pipe, published, lost, calls, restarts>>

(* A command with another function code is only logged.                     *)
Unexpected ==
  /\ pc = "dispatch"
  /\ msg.fc # FC_SEND_DATA
  /\ pc' = "runLoop"
  /\ UNCHANGED <<RunStatus, PacketCount, FdirTriggerCount, msg, subscribed, pipe, published, lost, calls, restarts>>

(* RAD_APP_ProcessSensorData up to its first call: count and classify.      *)
ProcessSensorData ==
  /\ pc = "dispatch"
  /\ msg.fc = FC_SEND_DATA
  /\ PacketCount' = PacketCount + 1
  /\ pc' = ResponseTo(msg.level)
  /\ FdirTriggerCount' = IF pc' = "solarClose" THEN FdirTriggerCount + 1 ELSE FdirTriggerCount
  /\ UNCHANGED <<RunStatus, msg, subscribed, pipe, published, lost, calls, restarts>>

(* Faulty variants: the close command is not sent, the warning branch skips *)
(* the telemetry, and the buffer is processed once more.                    *)
SolarCloseLeftOut == Call("fdirEvent", "solarClose", "sendTlm")
WarnEventReturns  == Call("warnEvent", "warnEvent", "infEvent")
InfEventAgain     == Call("infEvent", "infEvent", "dispatch")

SolarClose == Call("solarClose", "solarClose", "fdirEvent")
FdirEvent  == Call("fdirEvent", "fdirEvent", "sendTlm")
WarnEvent  == Call("warnEvent", "warnEvent", "sendTlm")
SendTlm    == Call("tlm", "sendTlm", "infEvent")
InfEvent   == Call("infEvent", "infEvent", "runLoop")

-----------------------------------------------------------------------------
(* Executive Services restart the application: its data is cleared by the   *)
(* memset of RAD_APP_Main, its pipe and the command in hand are gone.       *)

InHand == IF pc \in {"dispatch", "solarClose", "fdirEvent", "warnEvent", "sendTlm"}
            THEN {msg.id} ELSE {}

Restart ==
  /\ restarts < MaxRestarts
  /\ restarts' = restarts + 1
  /\ pc' = "register"
  /\ RunStatus' = APP_RUN
  /\ PacketCount' = 0
  /\ FdirTriggerCount' = 0
  /\ msg' = NoMsg
  /\ subscribed' = FALSE
  /\ pipe' = <<>>
  /\ lost' = lost \union Ids(pipe) \union InHand
  /\ UNCHANGED <<published, calls>>

AppStep ==
  \/ Register \/ CreatePipe \/ Subscribe \/ InitTlm
  \/ RunLoop \/ Receive \/ Unexpected
  \/ ProcessSensorData \/ SolarClose \/ FdirEvent \/ WarnEvent \/ SendTlm \/ InfEvent

Next == Publish \/ AppStep \/ ReceiveError \/ Restart

Spec == Init /\ [][Next]_vars

(* The task is scheduled whenever it can run: cFE tasks are preemptive and  *)
(* no task above it runs for ever.  Nothing forces an error or a restart.   *)
FairSpec == Spec /\ WF_vars(AppStep)

-----------------------------------------------------------------------------
(* Properties.                                                              *)

TypeOK ==
  /\ pc \in PCs
  /\ RunStatus \in {APP_RUN, APP_ERROR}
  /\ PacketCount \in Nat
  /\ FdirTriggerCount \in Nat
  /\ subscribed \in BOOLEAN
  /\ pipe \in Seq(Msgs)
  /\ msg \in Msgs \union {NoMsg}
  /\ published \in 0..MaxPublished
  /\ lost \subseteq 1..MaxPublished
  /\ calls \in Seq(Calls)
  /\ restarts \in 0..MaxRestarts

(* The sensor commands that FDIR must answer by closing the panels: the     *)
(* limit of rad_app.h is exclusive.                                         *)
Critical == {m \in Msgs : m.fc = 2 /\ m.level > 150}

CallsOf(kind) == {i \in DOMAIN calls : calls[i].kind = kind}
ReadingsOf(kind) == {calls[i].msg : i \in CallsOf(kind)}

(* rad_app.c:63-117.  Whatever the interleaving, errors and restarts, a     *)
(* telemetry packet that reports CRITICAL comes right after the close       *)
(* command and the FDIR event for the same reading; it is sent for every    *)
(* critical reading, and neither for any other: the two tests of the limit  *)
(* agree.                                                                   *)
CriticalTlmFollowsClose ==
  /\ \A i \in CallsOf("tlm") :
       calls[i].msg \in Critical => HealthOf(calls[i].msg.level) = "critical"
  /\ \A i \in CallsOf("tlm") :
       HealthOf(calls[i].msg.level) = "critical" =>
         /\ i > 2
         /\ calls[i - 1].kind = "fdirEvent"  /\ calls[i - 1].msg = calls[i].msg
         /\ calls[i - 2].kind = "solarClose" /\ calls[i - 2].msg = calls[i].msg
  /\ ReadingsOf("solarClose") \subseteq Critical

(* The telemetry is the stream of the accepted readings: in the order they  *)
(* were published, none reported twice, also across restarts.               *)
TlmInOrder ==
  \A i, j \in CallsOf("tlm") : i < j => calls[i].msg.id < calls[j].msg.id

(* The calls the present incarnation made: those after the last INIT event. *)
ThisRun == {i \in DOMAIN calls : \A j \in CallsOf("initEvent") : j < i}

(* The counters an operator reads in the log are those of what was sent:    *)
(* between two commands PacketCount is the number of telemetry packets and  *)
(* FdirTriggerCount the number of close commands since the last start.      *)
CountersMatchCalls ==
  pc = "receive" =>
    /\ PacketCount = Cardinality(CallsOf("tlm") \intersect ThisRun)
    /\ FdirTriggerCount = Cardinality(CallsOf("solarClose") \intersect ThisRun)

(* An application whose initialisation failed, or that has left its loop,   *)
(* never sends anything: no event, no telemetry and no close command.       *)
OnlyInitialisedAppSpeaks ==
  [][calls' # calls => RunStatus = APP_RUN /\ subscribed]_vars

(* Every critical reading that reached the pipe is answered by a close      *)
(* command, unless the application stopped or was restarted first.          *)
CriticalIsClosed ==
  \A m \in Critical :
    (\E k \in DOMAIN pipe : pipe[k] = m) ~> (m \in ReadingsOf("solarClose") \/ m.id \in lost)

(* RAD_APP implements the promise of module Fdir: the queue of readings it  *)
(* has accepted is the command in hand followed by the pipe.                *)
FdirQueue == (IF InHand = {} THEN <<>> ELSE <<msg>>) \o pipe

FdirPromise == INSTANCE Fdir WITH
  Readings <- Msgs, CriticalReadings <- Critical, queue <- FdirQueue,
  closed <- ReadingsOf("solarClose"), reported <- ReadingsOf("tlm")

ImplementsFdir == FdirPromise!Spec

=============================================================================
