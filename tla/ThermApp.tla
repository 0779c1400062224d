------------------------------ MODULE ThermApp ------------------------------
(***************************************************************************)
(* THERM_APP, the flight application that turns temperature readings into  *)
(* telemetry and reports one above the limit in a CRITICAL event.          *)
(* Source: firmware/apps/therm_app/fsw/src/therm_app.c.  Like RadApp, one  *)
(* cFE task whose outside calls are steps of their own; unlike RAD_APP it  *)
(* commands nothing, and its event tells how many there were.              *)
(*                                                                         *)
(* External, as in RadApp: the software bus, and Executive Services, which *)
(* may restart the application.                                            *)
(***************************************************************************)
EXTENDS Integers, Sequences, FiniteSets

CONSTANTS
  Levels,        \* the temperatures a sensor command can carry
  FcnCodes,      \* the function codes a command on MID 0x1883 can carry
  PipeDepth,     \* THERM_APP_PIPE_DEPTH (10)
  MaxPublished,  \* bound: commands published on MID 0x1883
  MaxRestarts    \* bound: restarts of the application

ASSUME LevelsAssumption       == Levels \subseteq Int
ASSUME FcnCodesAssumption     == FcnCodes \subseteq Nat
ASSUME PipeDepthAssumption    == PipeDepth \in Nat \ {0}
ASSUME MaxPublishedAssumption == MaxPublished \in Nat
ASSUME MaxRestartsAssumption  == MaxRestarts \in Nat

VARIABLES
  pc,               \* where THERM_APP_Main / THERM_APP_ProcessSensorData is
  RunStatus, PacketCount, FdirTriggerCount,  \* THERM_APP_Data
  pipe,             \* THERM_APP_Data.CommandPipe, oldest message first
  msg,              \* what SBBufPtr points at
  subscribed,       \* bus: CommandPipe exists and MID 0x1883 is routed to it
  published,        \* history: commands published so far
  calls,            \* history: the event and telemetry calls, with FdirTriggerCount
  restarts          \* history: restarts so far

dataVars == <<RunStatus, PacketCount, FdirTriggerCount, msg>>
busVars  == <<subscribed, pipe, published>>
vars     == <<pc, dataVars, busVars, calls, restarts>>

FC_SEND_DATA == 2     \* THERM_APP_FC_SEND_DATA
TEMP_LIMIT   == 100   \* THERM_APP_TEMP_LIMIT
TEMP_WARNING == 80    \* THERM_APP_TEMP_WARNING

Msgs  == [id : 1..MaxPublished, fc : FcnCodes, level : Levels]
NoMsg == [id |-> 0, fc |-> 0, level |-> 0]
Kinds == {"initEvent", "critEvent", "warnEvent", "tlm", "infEvent"}
PCs   == {"register", "createPipe", "subscribe", "initTlm", "runLoop", "receive", "dispatch",
          "critEvent", "warnEvent", "sendTlm", "infEvent", "exited"}

(* Faulty variant: the critical test uses the warning threshold.            *)
HealthOfWarningLimit(level) == IF level > TEMP_WARNING THEN "critical" ELSE "nominal"

(* Health from Temperature.  The same comparisons, made again, choose the   *)
(* event; RadApp has the two apart.                                         *)
HealthOf(level) == IF level > TEMP_LIMIT THEN "critical"
                   ELSE IF level > TEMP_WARNING THEN "warning" ELSE "nominal"

-----------------------------------------------------------------------------
Init ==
  /\ pc = "register"
  /\ RunStatus = "run" /\ PacketCount = 0 /\ FdirTriggerCount = 0 /\ msg = NoMsg
  /\ subscribed = FALSE /\ pipe = <<>> /\ published = 0
  /\ calls = <<>>
  /\ restarts = 0

Goes(here, next) == pc = here /\ pc' = next

(* The bus: a command nobody has subscribed to, or that finds the pipe      *)
(* full, is lost.                                                           *)
Publish(fc, level) ==
  /\ published < MaxPublished
  /\ published' = published + 1
  /\ pipe' = IF subscribed /\ Len(pipe) < PipeDepth
                THEN Append(pipe, [id |-> published + 1, fc |-> fc, level |-> level])
                ELSE pipe
  /\ UNCHANGED <<pc, dataVars, subscribed, calls, restarts>>

(* THERM_APP_Main before its loop: a failed call sets RunStatus, and what   *)
(* follows is skipped.                                                      *)
InitCall(here, next) ==
  /\ Goes(here, next)
  /\ RunStatus' \in IF RunStatus = "run" THEN {"run", "error"} ELSE {RunStatus}
  /\ UNCHANGED <<PacketCount, FdirTriggerCount, msg, pipe, published, calls, restarts>>

Register   == InitCall("register", "createPipe") /\ UNCHANGED subscribed
CreatePipe == InitCall("createPipe", "subscribe") /\ UNCHANGED subscribed
Subscribe  == InitCall("subscribe", "initTlm") /\ subscribed' = (RunStatus' = "run")

Call(kind, here, next) ==
  /\ Goes(here, next)
  /\ calls' = Append(calls, [kind |-> kind, msg |-> msg, count |-> FdirTriggerCount])
  /\ UNCHANGED <<dataVars, busVars, restarts>>

InitTlm ==
  \/ RunStatus = "run" /\ Call("initEvent", "initTlm", "runLoop")
  \/ RunStatus # "run" /\ Goes("initTlm", "runLoop")
       /\ UNCHANGED <<dataVars, busVars, calls, restarts>>

(* The main loop; leaving it gives up the pipe.                             *)
RunLoop ==
  /\ pc = "runLoop"
  /\ IF RunStatus = "run"
       THEN pc' = "receive" /\ UNCHANGED <<subscribed, pipe>>
       ELSE pc' = "exited" /\ subscribed' = FALSE /\ pipe' = <<>>
  /\ UNCHANGED <<dataVars, published, calls, restarts>>

Receive ==
  /\ Goes("receive", "dispatch")
  /\ pipe # <<>>
  /\ msg' = Head(pipe)
  /\ pipe' = Tail(pipe)
  /\ UNCHANGED <<RunStatus, PacketCount, FdirTriggerCount, subscribed, published, calls, restarts>>

ReceiveError ==
  /\ Goes("receive", "runLoop")
  /\ RunStatus' = "error"
  /\ UNCHANGED <<PacketCount, FdirTriggerCount, msg, busVars, calls, restarts>>

Unexpected ==
  /\ Goes("dispatch", "runLoop")
  /\ msg.fc # FC_SEND_DATA
  /\ UNCHANGED <<dataVars, busVars, calls, restarts>>

(* Faulty variant: every reading counts as a trigger.                       *)
TriggersAlways(health) == 1

TriggersOf(health) == IF health = "critical" THEN 1 ELSE 0

ProcessSensorData ==
  /\ pc = "dispatch" /\ msg.fc = FC_SEND_DATA
  /\ PacketCount' = PacketCount + 1
  /\ LET health == HealthOf(msg.level) IN
       /\ FdirTriggerCount' = FdirTriggerCount + TriggersOf(health)
       /\ \/ health = "critical" /\ pc' = "critEvent"
          \/ health = "warning"  /\ pc' = "warnEvent"
          \/ health = "nominal"  /\ pc' = "sendTlm"
  /\ UNCHANGED <<RunStatus, msg, busVars, calls, restarts>>

CritEvent == Call("critEvent", "critEvent", "sendTlm")
WarnEvent == Call("warnEvent", "warnEvent", "sendTlm")
SendTlm   == Call("tlm", "sendTlm", "infEvent")
InfEvent  == Call("infEvent", "infEvent", "runLoop")

(* Executive Services: the memset of THERM_APP_Main, and a new pipe.        *)
Restart ==
  /\ restarts < MaxRestarts
  /\ restarts' = restarts + 1
  /\ pc' = "register"
  /\ RunStatus' = "run" /\ PacketCount' = 0 /\ FdirTriggerCount' = 0 /\ msg' = NoMsg
  /\ subscribed' = FALSE /\ pipe' = <<>>
  /\ UNCHANGED <<published, calls>>

AppStep ==
  \/ Register \/ CreatePipe \/ Subscribe \/ InitTlm \/ RunLoop \/ Receive \/ Unexpected
  \/ ProcessSensorData \/ CritEvent \/ WarnEvent \/ SendTlm \/ InfEvent

Next ==
  \/ \E fc \in FcnCodes, level \in Levels : Publish(fc, level)
  \/ AppStep \/ ReceiveError \/ Restart

Spec == Init /\ [][Next]_vars

-----------------------------------------------------------------------------
(* Properties.                                                              *)

TypeOK ==
  /\ pc \in PCs
  /\ RunStatus \in {"run", "error"}
  /\ PacketCount \in Nat /\ FdirTriggerCount \in 0..PacketCount
  /\ pipe \in Seq(Msgs) /\ Len(pipe) <= PipeDepth
  /\ msg \in Msgs \union {NoMsg}
  /\ subscribed \in BOOLEAN
  /\ published \in 0..MaxPublished
  /\ calls \in Seq([kind : Kinds, msg : Msgs \union {NoMsg}, count : Nat])
  /\ restarts \in 0..MaxRestarts

CallsOf(kind) == {i \in DOMAIN calls : calls[i].kind = kind}

(* The trigger counts in the CRITICAL events number them 1, 2, 3, ... from  *)
(* the last initialisation on, so that one missing from the log shows       *)
(* (therm_app.c:78-89), whatever was processed or lost in between.          *)
TriggerCountsAreConsecutive ==
  \A i \in CallsOf("critEvent") :
    LET start == {k \in CallsOf("initEvent") : k < i} IN
    calls[i].count =
      Cardinality({j \in CallsOf("critEvent") : j <= i /\ \A k \in start : k < j})

(* THERM_APP implements the promise of module Fdir, with the CRITICAL event *)
(* in the place of the close command: a temperature above the limit is      *)
(* logged before it is reported, only then, and readings are served in      *)
(* order.                                                                   *)
Critical == {m \in Msgs : m.fc = 2 /\ m.level > 100}
MsgsOf(kind) == {calls[i].msg : i \in CallsOf(kind)}

FdirPromise == INSTANCE Fdir WITH
  Readings <- Msgs, CriticalReadings <- Critical,
  queue <- (IF pc \in {"dispatch", "critEvent", "warnEvent", "sendTlm"} THEN <<msg>> ELSE <<>>) \o pipe,
  closed <- MsgsOf("critEvent"), reported <- MsgsOf("tlm")

ImplementsFdir == FdirPromise!Spec

=============================================================================
