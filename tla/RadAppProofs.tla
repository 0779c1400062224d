----------------------------- MODULE RadAppProofs -----------------------------
(***************************************************************************)
(* Proofs about RadApp, for any readings, function codes, pipe depth and   *)
(* bounds, and any outcome of the bus calls.                               *)
(***************************************************************************)
EXTENDS RadApp, SequenceTheorems, FiniteSetTheorems, TLAPS

(* Unlike pc, the calls that a program counter promises are recorded in     *)
(* calls: the close command and the FDIR event for the reading in hand are  *)
(* the newest calls when its telemetry is due.                              *)
LastCall(n, kind) ==
  /\ Len(calls) > n
  /\ calls[Len(calls) - n].kind = kind
  /\ calls[Len(calls) - n].msg = msg

DueCalls ==
  /\ pc = "solarClose" => msg \in Critical
  /\ pc = "fdirEvent" => msg \in Critical /\ LastCall(0, "solarClose")
  /\ pc = "warnEvent" => msg \notin Critical
  /\ pc \in {"warnEvent", "sendTlm"} => msg.fc = 2
  /\ pc = "sendTlm" /\ msg \in Critical => LastCall(0, "fdirEvent") /\ LastCall(1, "solarClose")

(* A command is in hand whenever one is being processed.                    *)
InHandOK == pc \in {"dispatch", "solarClose", "fdirEvent", "warnEvent", "sendTlm", "infEvent"} => msg \in Msgs

IInv == TypeOK /\ InHandOK /\ DueCalls /\ CriticalTlmFollowsClose

-----------------------------------------------------------------------------
(* Both comparisons agree with the limit the property is stated with.       *)
LEMMA HealthOfCases ==
  ASSUME NEW m \in Msgs
  PROVE  /\ HealthOf(m.level) = "critical" <=> m.level > 150
         /\ ResponseTo(m.level) = "solarClose" <=> m.level > 150
<1>1. m.level \in Int
  BY LevelsAssumption DEF Msgs
<1>2. CASE m.level > 150
  BY <1>1, <1>2 DEF HealthOf, ResponseTo, RAD_LIMIT, RAD_WARNING
<1>3. CASE ~(m.level > 150) /\ m.level > 100
  BY <1>1, <1>3 DEF HealthOf, ResponseTo, RAD_LIMIT, RAD_WARNING
<1>4. CASE ~(m.level > 100)
  BY <1>1, <1>4 DEF HealthOf, ResponseTo, RAD_LIMIT, RAD_WARNING
<1> QED
  BY <1>1, <1>2, <1>3, <1>4

(* Where the processing goes on.                                            *)
LEMMA Responses ==
  ASSUME ProcessSensorData
  PROVE  pc' \in {"solarClose", "warnEvent", "sendTlm"}
BY DEF ProcessSensorData, ResponseTo

(* What Append does to a sequence, in the form the steps below need.        *)
LEMMA AppendFacts ==
  ASSUME NEW S, NEW s \in Seq(S), NEW x \in S
  PROVE  /\ Append(s, x) \in Seq(S)
         /\ Len(Append(s, x)) = Len(s) + 1
         /\ DOMAIN Append(s, x) = 1..(Len(s) + 1)
         /\ \A i \in DOMAIN s : i \in 1..Len(s) /\ Append(s, x)[i] = s[i]
         /\ Append(s, x)[Len(s) + 1] = x
BY AppendProperties, LenProperties

LEMMA IdsOfPipe ==
  ASSUME TypeOK
  PROVE  Ids(pipe) \subseteq 1..MaxPublished
<1>1. \A k \in DOMAIN pipe : pipe[k] \in Msgs
  BY ElementOfSeq, LenProperties DEF TypeOK
<1> QED
  BY <1>1 DEF Ids, Msgs

LEMMA CallKeepsType ==
  ASSUME TypeOK, NEW kind \in CallKinds, NEW here, NEW next \in PCs, Call(kind, here, next)
  PROVE  TypeOK'
<1>1. PICK ok \in BOOLEAN : calls' = Append(calls, [kind |-> kind, msg |-> msg, ok |-> ok])
  BY TransmitOkAssumption DEF Call
<1>2. [kind |-> kind, msg |-> msg, ok |-> ok] \in Calls
  BY DEF TypeOK, Calls
<1>3. calls' \in Seq(Calls)
  BY <1>1, <1>2, AppendFacts DEF TypeOK
<1> QED
  BY <1>3 DEF Call, TypeOK

-----------------------------------------------------------------------------
(* Type correctness: every state the application and its pipe can reach has *)
(* the types of TypeOK.                                                     *)
LEMMA InitType == Init => TypeOK
<1> SUFFICES ASSUME Init PROVE TypeOK
  OBVIOUS
<1>1. pipe \in Seq(Msgs) /\ calls \in Seq(Calls)
  BY EmptySeq DEF Init
<1>2. subscribed \in BOOLEAN
  BY DEF Init
<1> QED
  BY <1>1, <1>2, MaxPublishedAssumption, MaxRestartsAssumption DEF Init, TypeOK, PCs, APP_RUN, APP_ERROR

(* InHandOK goes along with the types: a restart adds the command in hand   *)
(* to lost, so it has to be a command.                                      *)
LEMMA NextInHand == TypeOK /\ InHandOK /\ [Next]_vars => InHandOK'
<1> SUFFICES ASSUME TypeOK, InHandOK, [Next]_vars PROVE InHandOK'
  OBVIOUS
<1>1. CASE Publish \/ UNCHANGED vars
  BY <1>1 DEF Publish, vars, appVars, InHandOK
<1>2. CASE Register \/ CreatePipe \/ Subscribe
  BY <1>2 DEF Register, CreatePipe, Subscribe, InitCall, InHandOK
<1>3. CASE InitTlm \/ InfEvent
  BY <1>3 DEF InitTlm, InfEvent, Call, InHandOK
<1>4. CASE SolarClose \/ FdirEvent \/ WarnEvent \/ SendTlm
  BY <1>4 DEF SolarClose, FdirEvent, WarnEvent, SendTlm, Call, InHandOK
<1>5. CASE RunLoop \/ ReceiveError \/ Unexpected
  BY <1>5 DEF RunLoop, ReceiveError, Unexpected, InHandOK
<1>6. CASE Receive
  <2>1. Head(pipe) \in Msgs
    BY <1>6, HeadTailProperties DEF Receive, TypeOK
  <2> QED
    BY <1>6, <2>1 DEF Receive, InHandOK
<1>7. CASE ProcessSensorData
  BY <1>7 DEF ProcessSensorData, InHandOK
<1>8. CASE Restart
  BY <1>8 DEF Restart, InHandOK
<1> QED
  BY <1>1, <1>2, <1>3, <1>4, <1>5, <1>6, <1>7, <1>8 DEF Next, AppStep

LEMMA NextType == TypeOK /\ InHandOK /\ [Next]_vars => TypeOK'
<1> SUFFICES ASSUME TypeOK, InHandOK, [Next]_vars PROVE TypeOK'
  OBVIOUS
<1>1. CASE Publish
  <2>1. PICK fc \in FcnCodes, level \in Levels :
          IF subscribed /\ Len(pipe) < PipeDepth
            THEN pipe' = Append(pipe, [id |-> published + 1, fc |-> fc, level |-> level]) /\ lost' = lost
            ELSE lost' = lost \union {published + 1} /\ pipe' = pipe
    BY <1>1 DEF Publish
  <2>2. published + 1 \in 1..MaxPublished /\ published' \in 0..MaxPublished
    BY <1>1, MaxPublishedAssumption DEF Publish, TypeOK
  <2>3. [id |-> published + 1, fc |-> fc, level |-> level] \in Msgs
    BY <2>2 DEF Msgs
  <2>4. pipe' \in Seq(Msgs)
    BY <2>1, <2>3, AppendFacts DEF TypeOK
  <2>5. lost' \subseteq 1..MaxPublished
    BY <2>1, <2>2 DEF TypeOK
  <2> QED
    BY <1>1, <2>2, <2>4, <2>5 DEF Publish, TypeOK, appVars
<1>2. CASE Register
  BY <1>2 DEF Register, InitCall, TypeOK, PCs, APP_RUN, APP_ERROR
<1>3. CASE CreatePipe
  BY <1>3 DEF CreatePipe, InitCall, TypeOK, PCs, APP_RUN, APP_ERROR
<1>4. CASE Subscribe
  BY <1>4 DEF Subscribe, InitCall, TypeOK, PCs, APP_RUN, APP_ERROR
<1>5. CASE InitTlm
  <2>1. CASE Call("initEvent", "initTlm", "runLoop")
    BY <2>1, CallKeepsType DEF CallKinds, PCs
  <2> QED
    BY <1>5, <2>1 DEF InitTlm, TypeOK, PCs
<1>6. CASE RunLoop
  <2>1. lost' \subseteq 1..MaxPublished
    BY <1>6, IdsOfPipe DEF RunLoop, TypeOK
  <2>2. pipe' \in Seq(Msgs)
    BY <1>6, EmptySeq DEF RunLoop, TypeOK
  <2> QED
    BY <1>6, <2>1, <2>2 DEF RunLoop, TypeOK, PCs
<1>7. CASE Receive
  <2>1. Head(pipe) \in Msgs /\ Tail(pipe) \in Seq(Msgs)
    BY <1>7, HeadTailProperties DEF Receive, TypeOK
  <2> QED
    BY <1>7, <2>1 DEF Receive, TypeOK, PCs
<1>8. CASE ReceiveError
  BY <1>8 DEF ReceiveError, TypeOK, PCs, APP_ERROR
<1>9. CASE Unexpected
  BY <1>9 DEF Unexpected, TypeOK, PCs
<1>10. CASE ProcessSensorData
  BY <1>10, Responses DEF ProcessSensorData, TypeOK, PCs
<1>11. CASE SolarClose
  BY <1>11, CallKeepsType DEF SolarClose, CallKinds, PCs
<1>12. CASE FdirEvent
  BY <1>12, CallKeepsType DEF FdirEvent, CallKinds, PCs
<1>13. CASE WarnEvent
  BY <1>13, CallKeepsType DEF WarnEvent, CallKinds, PCs
<1>14. CASE SendTlm
  BY <1>14, CallKeepsType DEF SendTlm, CallKinds, PCs
<1>15. CASE InfEvent
  BY <1>15, CallKeepsType DEF InfEvent, CallKinds, PCs
<1>16. CASE Restart
  <2>1. lost' \subseteq 1..MaxPublished
    BY <1>16, IdsOfPipe DEF Restart, InHand, InHandOK, TypeOK, Msgs
  <2>2. restarts' \in 0..MaxRestarts
    BY <1>16, MaxRestartsAssumption DEF Restart, TypeOK
  <2> QED
    BY <1>16, <2>1, <2>2, EmptySeq DEF Restart, TypeOK, PCs, APP_RUN
<1>17. CASE UNCHANGED vars
  BY <1>17 DEF vars, appVars, TypeOK
<1> QED
  BY <1>1, <1>2, <1>3, <1>4, <1>5, <1>6, <1>7, <1>8, <1>9, <1>10, <1>11, <1>12,
     <1>13, <1>14, <1>15, <1>16, <1>17 DEF Next, AppStep

(* TypeOK is an invariant of the specification.                             *)
THEOREM TypeCorrect == Spec => []TypeOK
<1>1. Init => TypeOK /\ InHandOK
  BY InitType DEF Init, InHandOK
<1>2. TypeOK /\ InHandOK /\ [Next]_vars => (TypeOK /\ InHandOK)'
  BY NextType, NextInHand
<1> QED
  BY <1>1, <1>2, PTL DEF Spec

-----------------------------------------------------------------------------
(* The calls before and after one more call.                                *)
LEMMA CallAppends ==
  ASSUME TypeOK, NEW kind \in CallKinds, NEW here, NEW next, Call(kind, here, next)
  PROVE  /\ Len(calls) \in Nat
         /\ DOMAIN calls = 1..Len(calls)
         /\ DOMAIN calls' = 1..(Len(calls) + 1)
         /\ Len(calls') = Len(calls) + 1
         /\ \A i \in 1..Len(calls) : calls'[i] = calls[i]
         /\ calls'[Len(calls) + 1].kind = kind
         /\ calls'[Len(calls) + 1].msg = msg
<1>1. PICK ok \in BOOLEAN : calls' = Append(calls, [kind |-> kind, msg |-> msg, ok |-> ok])
  BY TransmitOkAssumption DEF Call
<1>2. [kind |-> kind, msg |-> msg, ok |-> ok] \in Calls
  BY DEF TypeOK, Calls
<1>3. calls \in Seq(Calls)
  BY DEF TypeOK
<1> QED
  BY <1>1, <1>2, <1>3, AppendFacts, LenProperties

(* One more call keeps the order of the calls, if it is due.                *)
LEMMA CallKeepsOrder ==
  ASSUME IInv, NEW kind \in CallKinds, NEW here, NEW next, Call(kind, here, next),
         kind = "tlm" => pc = "sendTlm", kind = "solarClose" => pc = "solarClose"
  PROVE  CriticalTlmFollowsClose'
<1>1. TypeOK /\ DueCalls /\ CriticalTlmFollowsClose
  BY DEF IInv
<1>c. kind = "tlm" => msg \in Msgs /\ (HealthOf(msg.level) = "critical" <=> msg \in Critical)
  <2>1. kind = "tlm" => msg \in Msgs /\ msg.fc = 2
    BY DEF IInv, InHandOK, DueCalls
  <2> QED
    BY <2>1, HealthOfCases DEF Critical
<1> DEFINE n == Len(calls)
<1>2. /\ n \in Nat /\ DOMAIN calls = 1..n /\ DOMAIN calls' = 1..(n + 1)
      /\ \A i \in 1..n : calls'[i] = calls[i]
      /\ calls'[n + 1].kind = kind /\ calls'[n + 1].msg = msg
  BY <1>1, CallAppends
<1> HIDE DEF n
<1>3. ASSUME NEW i \in 1..(n + 1), calls'[i].kind = "tlm",
             HealthOf(calls'[i].msg.level) = "critical"
      PROVE  /\ i > 2
             /\ calls'[i - 1].kind = "fdirEvent"  /\ calls'[i - 1].msg = calls'[i].msg
             /\ calls'[i - 2].kind = "solarClose" /\ calls'[i - 2].msg = calls'[i].msg
  <2>1. CASE i \in 1..n
    <3>1. /\ i > 2
          /\ calls[i - 1].kind = "fdirEvent"  /\ calls[i - 1].msg = calls[i].msg
          /\ calls[i - 2].kind = "solarClose" /\ calls[i - 2].msg = calls[i].msg
      BY <1>1, <1>2, <1>3, <2>1 DEF CriticalTlmFollowsClose, CallsOf
    <3>2. i - 1 \in 1..n /\ i - 2 \in 1..n
      BY <1>2, <2>1, <3>1
    <3> QED
      BY <1>2, <2>1, <3>1, <3>2
  <2>2. CASE i = n + 1
    <3>1. pc = "sendTlm" /\ msg \in Critical
      BY <1>2, <1>3, <1>c, <2>2
    <3>2. LastCall(0, "fdirEvent") /\ LastCall(1, "solarClose")
      BY <1>1, <3>1 DEF DueCalls
    <3>3. /\ n > 1
          /\ calls[n].kind = "fdirEvent" /\ calls[n].msg = msg
          /\ calls[n - 1].kind = "solarClose" /\ calls[n - 1].msg = msg
      BY <1>2, <3>2 DEF LastCall, n
    <3>4. n \in 1..n /\ n - 1 \in 1..n /\ i - 1 = n /\ i - 2 = n - 1
      BY <1>2, <2>2, <3>3
    <3> QED
      BY <1>2, <2>2, <3>3, <3>4
  <2> QED
    BY <1>2, <2>1, <2>2
<1>4. ASSUME NEW i \in 1..(n + 1), calls'[i].kind = "solarClose"
      PROVE  calls'[i].msg \in Critical
  <2>1. CASE i \in 1..n
    BY <1>1, <1>2, <1>4, <2>1 DEF CriticalTlmFollowsClose, CallsOf, ReadingsOf
  <2>2. CASE i = n + 1
    BY <1>1, <1>2, <1>4, <2>2 DEF DueCalls
  <2> QED
    BY <1>2, <2>1, <2>2
<1>5. Critical' = Critical
  BY DEF Critical, Msgs
<1>6. ASSUME NEW i \in 1..(n + 1), calls'[i].kind = "tlm", calls'[i].msg \in Critical
      PROVE  HealthOf(calls'[i].msg.level) = "critical"
  <2>1. CASE i \in 1..n
    BY <1>1, <1>2, <1>6, <2>1 DEF CriticalTlmFollowsClose, CallsOf
  <2>2. CASE i = n + 1
    BY <1>2, <1>6, <1>c, <2>2
  <2> QED
    BY <1>2, <2>1, <2>2
<1> QED
  BY <1>2, <1>3, <1>4, <1>5, <1>6 DEF CriticalTlmFollowsClose, CallsOf, ReadingsOf

(* A step that calls nothing and puts no reading in work keeps both.        *)
LEMMA SilentKeepsOrder ==
  ASSUME CriticalTlmFollowsClose, UNCHANGED calls
  PROVE  CriticalTlmFollowsClose'
BY DEF CriticalTlmFollowsClose, CallsOf, ReadingsOf, Critical, Msgs

LEMMA SilentKeepsDue ==
  ASSUME UNCHANGED calls, pc' \notin {"solarClose", "fdirEvent", "warnEvent", "sendTlm"}
  PROVE  DueCalls'
BY DEF DueCalls

-----------------------------------------------------------------------------
LEMMA InitIInv == Init => IInv
<1> SUFFICES ASSUME Init PROVE IInv
  OBVIOUS
<1>1. DOMAIN calls = {}
  BY EmptySeq, LenProperties DEF Init
<1> QED
  BY <1>1, InitType DEF Init, IInv, InHandOK, DueCalls, CriticalTlmFollowsClose, CallsOf, ReadingsOf

LEMMA NextIInv == IInv /\ [Next]_vars => IInv'
<1> SUFFICES ASSUME IInv, [Next]_vars PROVE IInv'
  OBVIOUS
<1>t. TypeOK /\ InHandOK /\ DueCalls /\ CriticalTlmFollowsClose
  BY DEF IInv
<1>n. TypeOK' /\ InHandOK'
  BY <1>t, NextType, NextInHand
<1> SUFFICES DueCalls' /\ CriticalTlmFollowsClose'
  BY <1>n DEF IInv
<1>1. CASE Publish \/ UNCHANGED vars
  BY <1>1, <1>t, SilentKeepsOrder DEF Publish, vars, appVars, DueCalls, LastCall, Critical, Msgs
<1>2. CASE Register \/ CreatePipe \/ Subscribe
  BY <1>2, <1>t, SilentKeepsOrder, SilentKeepsDue DEF Register, CreatePipe, Subscribe, InitCall
<1>3. CASE InitTlm
  <2>1. CASE Call("initEvent", "initTlm", "runLoop")
    BY <2>1, CallKeepsOrder DEF CallKinds, Call, DueCalls
  <2>2. CASE UNCHANGED calls /\ pc' = "runLoop"
    BY <2>2, <1>t, SilentKeepsOrder, SilentKeepsDue
  <2> QED
    BY <1>3, <2>1, <2>2 DEF InitTlm
<1>4. CASE RunLoop \/ Receive \/ ReceiveError \/ Unexpected
  BY <1>4, <1>t, SilentKeepsOrder, SilentKeepsDue DEF RunLoop, Receive, ReceiveError, Unexpected
<1>5. CASE ProcessSensorData
  <2>1. msg \in Msgs /\ msg.fc = 2 /\ UNCHANGED <<msg, calls>>
    BY <1>5, <1>t DEF ProcessSensorData, InHandOK, FC_SEND_DATA
  <2>2. msg \in Critical <=> pc' = "solarClose"
    BY <1>5, <2>1, HealthOfCases DEF Critical, ProcessSensorData
  <2>3. DueCalls'
    BY <1>5, <2>1, <2>2, Responses DEF ProcessSensorData, DueCalls, Critical, Msgs
  <2> QED
    BY <2>1, <2>3, <1>t, SilentKeepsOrder
<1>6. CASE SolarClose
  <2>1. pc = "solarClose" /\ pc' = "fdirEvent" /\ msg' = msg /\ msg \in Critical
    BY <1>6, <1>t DEF SolarClose, Call, DueCalls
  <2>2. LastCall(0, "solarClose")'
    BY <1>6, <2>1, <1>t, CallAppends DEF SolarClose, CallKinds, LastCall
  <2>3. DueCalls'
    BY <2>1, <2>2 DEF DueCalls, Critical, Msgs
  <2> QED
    BY <1>6, <2>1, <2>3, CallKeepsOrder DEF SolarClose, CallKinds
<1>7. CASE FdirEvent
  <2>1. pc = "fdirEvent" /\ pc' = "sendTlm" /\ msg' = msg /\ LastCall(0, "solarClose")
    BY <1>7, <1>t DEF FdirEvent, Call, DueCalls
  <2>2. /\ Len(calls) \in Nat /\ Len(calls') = Len(calls) + 1
        /\ \A i \in 1..Len(calls) : calls'[i] = calls[i]
        /\ calls'[Len(calls) + 1].kind = "fdirEvent" /\ calls'[Len(calls) + 1].msg = msg
    BY <1>7, <1>t, CallAppends DEF FdirEvent, CallKinds
  <2>3. LastCall(0, "fdirEvent")' /\ LastCall(1, "solarClose")'
    BY <2>1, <2>2 DEF LastCall
  <2>4. DueCalls'
    BY <2>1, <2>3, <1>7, <1>t DEF DueCalls, Critical, FdirEvent, Call
  <2> QED
    BY <1>7, <2>4, CallKeepsOrder DEF FdirEvent, CallKinds
<1>8. CASE WarnEvent
  <2>1. pc' = "sendTlm" /\ msg' = msg /\ msg \notin Critical
    BY <1>8, <1>t DEF WarnEvent, Call, DueCalls
  <2>2. DueCalls'
    BY <2>1, <1>8, <1>t DEF DueCalls, Critical, Msgs, WarnEvent, Call
  <2> QED
    BY <1>8, <2>2, CallKeepsOrder DEF WarnEvent, CallKinds
<1>9. CASE SendTlm
  <2>1. pc = "sendTlm" /\ pc' = "infEvent"
    BY <1>9 DEF SendTlm, Call
  <2> QED
    BY <1>9, <2>1, CallKeepsOrder DEF SendTlm, CallKinds, DueCalls
<1>10. CASE InfEvent
  <2>1. pc' = "runLoop"
    BY <1>10 DEF InfEvent, Call
  <2> QED
    BY <1>10, <2>1, CallKeepsOrder DEF InfEvent, CallKinds, DueCalls
<1>11. CASE Restart
  BY <1>11, <1>t, SilentKeepsOrder, SilentKeepsDue DEF Restart
<1> QED
  BY <1>1, <1>2, <1>3, <1>4, <1>5, <1>6, <1>7, <1>8, <1>9, <1>10, <1>11 DEF Next, AppStep

(* In every behaviour of RAD_APP, whatever readings, errors, pipe overflows *)
(* and restarts occur, the telemetry of a critical reading comes right      *)
(* after the close command and the FDIR event for that reading, and nothing *)
(* else makes the application close the panels.                             *)
THEOREM CloseBeforeTelemetry == Spec => []CriticalTlmFollowsClose
<1>1. IInv => CriticalTlmFollowsClose
  BY DEF IInv
<1> QED
  BY <1>1, InitIInv, NextIInv, PTL DEF Spec

-----------------------------------------------------------------------------
(* A command is being processed, and the program counters of the loop.      *)
Processing == {"dispatch", "solarClose", "fdirEvent", "warnEvent", "sendTlm", "infEvent"}
InLoop     == {"receive"} \union Processing

(* RunStatus is APP_RUN wherever the task is inside its loop, and then the  *)
(* initialisation has succeeded.                                            *)
Initialised ==
  /\ pc \in {"initTlm", "runLoop"} /\ RunStatus = APP_RUN => subscribed
  /\ pc \in InLoop => RunStatus = APP_RUN /\ subscribed

(* The commands pass from the bus to the pipe, into hand and out to the     *)
(* calls in the order of their ids.                                         *)
Outputs == CallsOf("tlm") \union CallsOf("solarClose")

Ordered ==
  /\ msg.id <= published
  /\ \A k \in DOMAIN pipe : pipe[k].id <= published /\ msg.id < pipe[k].id
  /\ \A j, k \in DOMAIN pipe : j < k => pipe[j].id < pipe[k].id
  /\ \A i \in Outputs :
       /\ calls[i].msg.id <= published
       /\ \A k \in DOMAIN pipe : calls[i].msg.id < pipe[k].id
  /\ pc \in Processing \ {"infEvent"} => \A i \in CallsOf("tlm") : calls[i].msg.id < msg.id
  /\ pc \in {"dispatch", "solarClose"} => \A i \in CallsOf("solarClose") : calls[i].msg.id < msg.id

(* A counter is ahead of the calls between its increment and the call.      *)
TlmDue   == IF pc \in {"solarClose", "fdirEvent", "warnEvent", "sendTlm"} THEN 1 ELSE 0
CloseDue == IF pc = "solarClose" THEN 1 ELSE 0

Sent(kind) == Cardinality(CallsOf(kind) \intersect ThisRun)

Counted ==
  /\ pc \in {"register", "createPipe", "subscribe", "initTlm"} => PacketCount = 0 /\ FdirTriggerCount = 0
  /\ pc \in {"runLoop"} \union InLoop /\ RunStatus = APP_RUN =>
       /\ PacketCount = Sent("tlm") + TlmDue
       /\ FdirTriggerCount = Sent("solarClose") + CloseDue

-----------------------------------------------------------------------------
(* A step that calls does so in the loop, or after a good initialisation.   *)
LEMMA CallsWhenInitialised ==
  ASSUME Initialised, Next, calls' # calls
  PROVE  RunStatus = APP_RUN /\ subscribed
<1>1. \/ InitTlm \/ SolarClose \/ FdirEvent \/ WarnEvent \/ SendTlm \/ InfEvent
  BY DEF Next, AppStep, Publish, Register, CreatePipe, Subscribe, InitCall, RunLoop, Receive,
         ReceiveError, Unexpected, ProcessSensorData, Restart
<1>2. CASE InitTlm
  BY <1>2 DEF InitTlm, Call, Initialised
<1>3. CASE SolarClose \/ FdirEvent \/ WarnEvent \/ SendTlm \/ InfEvent
  BY <1>3 DEF SolarClose, FdirEvent, WarnEvent, SendTlm, InfEvent, Call, Initialised, InLoop, Processing
<1> QED
  BY <1>1, <1>2, <1>3

LEMMA NextInitialised == TypeOK /\ Initialised /\ [Next]_vars => Initialised'
<1> SUFFICES ASSUME TypeOK, Initialised, [Next]_vars PROVE Initialised'
  OBVIOUS
<1> USE DEF Initialised, InLoop, Processing
<1>1. CASE Publish \/ UNCHANGED vars
  BY <1>1 DEF Publish, vars, appVars
<1>2. CASE Register \/ CreatePipe \/ Subscribe
  BY <1>2 DEF Register, CreatePipe, Subscribe, InitCall
<1>3. CASE InitTlm
  BY <1>3 DEF InitTlm, Call
<1>4. CASE RunLoop
  BY <1>4 DEF RunLoop
<1>5. CASE Receive \/ Unexpected
  BY <1>5 DEF Receive, Unexpected
<1>6. CASE ReceiveError
  BY <1>6 DEF ReceiveError, APP_RUN, APP_ERROR
<1>7. CASE ProcessSensorData
  BY <1>7 DEF ProcessSensorData
<1>8. CASE SolarClose \/ FdirEvent \/ WarnEvent \/ SendTlm \/ InfEvent
  BY <1>8 DEF SolarClose, FdirEvent, WarnEvent, SendTlm, InfEvent, Call
<1>9. CASE Restart
  BY <1>9 DEF Restart
<1> QED
  BY <1>1, <1>2, <1>3, <1>4, <1>5, <1>6, <1>7, <1>8, <1>9 DEF Next, AppStep

(* Whatever call of the initialisation fails, and whenever the bus reports  *)
(* an error or the task is restarted: only an application whose MID 0x1882  *)
(* is subscribed and whose RunStatus is APP_RUN sends anything.             *)
THEOREM SpeaksWhenInitialised == Spec => OnlyInitialisedAppSpeaks
<1>1. Init => TypeOK /\ InHandOK /\ Initialised
  BY InitType DEF Init, InHandOK, Initialised, InLoop, Processing
<1>2. TypeOK /\ InHandOK /\ Initialised /\ [Next]_vars => (TypeOK /\ InHandOK /\ Initialised)'
  BY NextType, NextInHand, NextInitialised
<1>3. Initialised /\ [Next]_vars => [calls' # calls => RunStatus = APP_RUN /\ subscribed]_vars
  BY CallsWhenInitialised
<1> QED
  BY <1>1, <1>2, <1>3, PTL DEF Spec, OnlyInitialisedAppSpeaks

-----------------------------------------------------------------------------
(* One more call adds its place to the calls of its kind.                   *)
LEMMA CallAddsOne ==
  ASSUME TypeOK, NEW kind \in CallKinds, NEW here, NEW next, Call(kind, here, next)
  PROVE  /\ CallsOf(kind)' = CallsOf(kind) \union {Len(calls) + 1}
         /\ \A k : k # kind => CallsOf(k)' = CallsOf(k)
         /\ \A k : CallsOf(k) \subseteq 1..Len(calls)
<1> DEFINE n == Len(calls)
<1>1. /\ n \in Nat /\ DOMAIN calls = 1..n /\ DOMAIN calls' = 1..(n + 1)
      /\ \A i \in 1..n : calls'[i] = calls[i]
      /\ calls'[n + 1].kind = kind
  BY CallAppends
<1>2. 1..(n + 1) = 1..n \union {n + 1}
  BY <1>1
<1> HIDE DEF n
<1> QED
  BY <1>1, <1>2 DEF CallsOf, n

(* A call keeps the order, when the command in hand is newer than every     *)
(* telemetry packet or close command that was sent before.                  *)
LEMMA CallKeepsOrdered ==
  ASSUME TypeOK, Ordered, TlmInOrder,
         NEW kind \in CallKinds, NEW here, NEW next, Call(kind, here, next),
         kind = "tlm" => pc = "sendTlm" /\ next \notin Processing \ {"infEvent"},
         kind = "solarClose" => pc = "solarClose" /\ next \notin {"dispatch", "solarClose"},
         next \in Processing \ {"infEvent"} => pc \in Processing \ {"infEvent"},
         next \in {"dispatch", "solarClose"} => pc \in {"dispatch", "solarClose"}
  PROVE  Ordered' /\ TlmInOrder'
<1> DEFINE n == Len(calls)
<1>1. /\ n \in Nat /\ DOMAIN calls = 1..n
      /\ \A i \in 1..n : calls'[i] = calls[i]
      /\ calls'[n + 1].kind = kind /\ calls'[n + 1].msg = msg
  BY CallAppends
<1>2. /\ CallsOf(kind)' = CallsOf(kind) \union {n + 1}
      /\ \A k : k # kind => CallsOf(k)' = CallsOf(k)
      /\ \A k : CallsOf(k) \subseteq 1..n
  BY CallAddsOne
<1>3. pc' = next /\ UNCHANGED <<msg, pipe, published>>
  BY DEF Call
<1> HIDE DEF n
<1>4. \A i \in CallsOf("tlm") \union CallsOf("solarClose") : calls'[i] = calls[i]
  BY <1>1, <1>2
<1>5. \A i \in Outputs' :
        /\ calls'[i].msg.id <= published
        /\ \A k \in DOMAIN pipe : calls'[i].msg.id < pipe[k].id
  BY <1>1, <1>2, <1>4 DEF Outputs, Ordered
<1>6. next \in Processing \ {"infEvent"} => \A i \in CallsOf("tlm")' : calls'[i].msg.id < msg.id
  BY <1>2, <1>4 DEF Ordered
<1>7. next \in {"dispatch", "solarClose"} => \A i \in CallsOf("solarClose")' : calls'[i].msg.id < msg.id
  BY <1>2, <1>4 DEF Ordered
<1>8. Ordered'
  BY <1>3, <1>5, <1>6, <1>7 DEF Ordered
<1>9. TlmInOrder'
  <2>1. CASE kind = "tlm"
    <3>1. \A i \in CallsOf("tlm") : calls[i].msg.id < msg.id
      BY <2>1 DEF Ordered, Processing
    <3> QED
      BY <2>1, <3>1, <1>1, <1>2, <1>4 DEF TlmInOrder
  <2>2. CASE kind # "tlm"
    BY <2>2, <1>2, <1>4 DEF TlmInOrder
  <2> QED
    BY <2>1, <2>2
<1> QED
  BY <1>8, <1>9

(* A step that leaves the commands and the calls where they are.            *)
LEMMA SilentKeepsOrdered ==
  ASSUME Ordered, TlmInOrder, UNCHANGED <<msg, pipe, published, calls>>,
         pc' \in Processing \ {"infEvent"} => pc \in Processing \ {"infEvent"},
         pc' \in {"dispatch", "solarClose"} => pc \in {"dispatch", "solarClose"}
  PROVE  Ordered' /\ TlmInOrder'
BY DEF Ordered, TlmInOrder, Outputs, CallsOf

LEMMA NextOrdered == TypeOK /\ Ordered /\ TlmInOrder /\ [Next]_vars => (Ordered /\ TlmInOrder)'
<1> SUFFICES ASSUME TypeOK, Ordered, TlmInOrder, [Next]_vars PROVE (Ordered /\ TlmInOrder)'
  OBVIOUS
<1>t. /\ published \in Nat /\ msg.id \in Nat
      /\ \A k \in DOMAIN pipe : pipe[k].id \in Nat
      /\ \A i \in DOMAIN calls : calls[i].msg.id \in Nat
  <2>1. \A k \in DOMAIN pipe : pipe[k] \in Msgs
    BY ElementOfSeq, LenProperties DEF TypeOK
  <2>2. \A i \in DOMAIN calls : calls[i] \in Calls
    BY ElementOfSeq, LenProperties DEF TypeOK
  <2> QED
    BY <2>1, <2>2, MaxPublishedAssumption DEF TypeOK, Msgs, NoMsg, Calls
<1>1. CASE Publish
  <2>1. CASE pipe' = pipe
    BY <1>1, <1>t, <2>1 DEF Publish, appVars, Ordered, TlmInOrder, Outputs, CallsOf
  <2>2. CASE pipe' # pipe
    <3>1. PICK m : m \in Msgs /\ m.id = published + 1 /\ pipe' = Append(pipe, m)
      <4>1. PICK fc \in FcnCodes, level \in Levels :
              pipe' = Append(pipe, [id |-> published + 1, fc |-> fc, level |-> level])
        BY <1>1, <2>2 DEF Publish
      <4>2. published + 1 \in 1..MaxPublished
        BY <1>1, MaxPublishedAssumption DEF Publish, TypeOK
      <4> QED
        BY <4>1, <4>2 DEF Msgs
    <3>2. /\ Len(pipe) \in Nat /\ DOMAIN pipe = 1..Len(pipe)
          /\ DOMAIN pipe' = 1..Len(pipe) \union {Len(pipe) + 1}
          /\ \A k \in 1..Len(pipe) : pipe'[k] = pipe[k]
          /\ pipe'[Len(pipe) + 1] = m
      BY <3>1, AppendFacts, LenProperties DEF TypeOK
    <3>3. published' = published + 1 /\ UNCHANGED <<pc, msg, calls>>
      BY <1>1 DEF Publish, appVars
    <3>4. /\ \A k \in DOMAIN pipe' : pipe'[k].id <= published' /\ msg.id < pipe'[k].id
          /\ \A j, k \in DOMAIN pipe' : j < k => pipe'[j].id < pipe'[k].id
      BY <1>t, <3>1, <3>2, <3>3 DEF Ordered
    <3>5. \A i \in Outputs : /\ calls[i].msg.id <= published'
                             /\ \A k \in DOMAIN pipe' : calls[i].msg.id < pipe'[k].id
      BY <1>t, <3>1, <3>2, <3>3 DEF Ordered, Outputs, CallsOf
    <3>6. Ordered'
      BY <1>t, <3>3, <3>4, <3>5 DEF Ordered, Outputs, CallsOf
    <3> QED
      BY <3>3, <3>6 DEF TlmInOrder, CallsOf
  <2> QED
    BY <2>1, <2>2
<1>2. CASE Register \/ CreatePipe \/ Subscribe
  BY <1>2, SilentKeepsOrdered DEF Register, CreatePipe, Subscribe, InitCall, Processing
<1>3. CASE InitTlm
  <2>1. CASE Call("initEvent", "initTlm", "runLoop")
    BY <2>1, CallKeepsOrdered DEF CallKinds, Processing
  <2> QED
    BY <1>3, <2>1, SilentKeepsOrdered DEF InitTlm, Processing
<1>4. CASE RunLoop
  <2>1. CASE UNCHANGED pipe
    BY <1>4, <2>1, SilentKeepsOrdered DEF RunLoop, Processing
  <2>2. CASE pipe' = <<>> /\ pc' = "exited"
    <3>1. DOMAIN pipe' = {}
      BY <2>2
    <3> QED
      BY <1>4, <2>2, <3>1 DEF RunLoop, Ordered, TlmInOrder, Outputs, CallsOf, Processing
  <2> QED
    BY <1>4, <2>1, <2>2 DEF RunLoop
<1>5. CASE Receive
  <2>1. /\ Len(pipe) \in Nat \ {0} /\ DOMAIN pipe = 1..Len(pipe)
        /\ DOMAIN pipe' = 1..(Len(pipe) - 1)
        /\ \A k \in 1..(Len(pipe) - 1) : pipe'[k] = pipe[k + 1]
        /\ msg' = pipe[1]
    BY <1>5, HeadTailProperties, LenProperties, EmptySeq DEF Receive, TypeOK
  <2>m. /\ 1 \in DOMAIN pipe
        /\ \A k \in DOMAIN pipe' : k \in Int /\ k + 1 \in DOMAIN pipe /\ 1 < k + 1 /\ pipe'[k] = pipe[k + 1]
    BY <2>1
  <2>2. UNCHANGED <<published, calls>> /\ pc' = "dispatch"
    BY <1>5 DEF Receive
  <2>3. /\ msg'.id <= published
        /\ \A k \in DOMAIN pipe' : pipe'[k].id <= published /\ msg'.id < pipe'[k].id
        /\ \A j, k \in DOMAIN pipe' : j < k => pipe'[j].id < pipe'[k].id
    <3>1. \A j, k \in DOMAIN pipe' : j < k => j + 1 < k + 1
      BY <2>m
    <3> QED
      BY <1>t, <2>1, <2>m, <3>1 DEF Ordered
  <2>4. \A i \in Outputs : /\ calls[i].msg.id <= published /\ calls[i].msg.id < msg'.id
                           /\ \A k \in DOMAIN pipe' : calls[i].msg.id < pipe'[k].id
    BY <1>t, <2>1, <2>m DEF Ordered
  <2> QED
    BY <2>2, <2>3, <2>4 DEF Ordered, TlmInOrder, Outputs, CallsOf
<1>6. CASE ReceiveError \/ Unexpected
  BY <1>6, SilentKeepsOrdered DEF ReceiveError, Unexpected, Processing
<1>7. CASE ProcessSensorData
  BY <1>7, SilentKeepsOrdered DEF ProcessSensorData, Processing
<1>8. CASE SolarClose
  BY <1>8, CallKeepsOrdered DEF SolarClose, Call, CallKinds, Processing
<1>9. CASE FdirEvent \/ WarnEvent
  BY <1>9, CallKeepsOrdered DEF FdirEvent, WarnEvent, Call, CallKinds, Processing
<1>10. CASE SendTlm
  BY <1>10, CallKeepsOrdered DEF SendTlm, Call, CallKinds, Processing
<1>11. CASE InfEvent
  BY <1>11, CallKeepsOrdered DEF InfEvent, CallKinds, Processing
<1>12. CASE Restart
  <2>1. DOMAIN pipe' = {} /\ msg'.id = 0 /\ pc' = "register" /\ UNCHANGED <<published, calls>>
    BY <1>12 DEF Restart, NoMsg
  <2> QED
    BY <2>1, <1>t DEF Ordered, TlmInOrder, Outputs, CallsOf, Processing
<1>13. CASE UNCHANGED vars
  BY <1>13, SilentKeepsOrdered DEF vars, appVars
<1> QED
  BY <1>1, <1>2, <1>3, <1>4, <1>5, <1>6, <1>7, <1>8, <1>9, <1>10, <1>11, <1>12, <1>13 DEF Next, AppStep

LEMMA InitOrdered == Init => Ordered /\ TlmInOrder
<1> SUFFICES ASSUME Init PROVE Ordered /\ TlmInOrder
  OBVIOUS
<1>1. DOMAIN calls = {} /\ DOMAIN pipe = {} /\ msg.id = 0 /\ published = 0
  BY DEF Init, NoMsg
<1> QED
  BY <1>1 DEF Init, Ordered, TlmInOrder, Outputs, CallsOf, Processing

(* Over overflows of the pipe, errors and restarts: telemetry reports the   *)
(* readings in the order they were published, and none of them twice.       *)
THEOREM TelemetryInOrder == Spec => []TlmInOrder
<1>1. Init => TypeOK /\ InHandOK /\ Ordered /\ TlmInOrder
  BY InitType, InitOrdered DEF Init, InHandOK
<1>2. TypeOK /\ InHandOK /\ Ordered /\ TlmInOrder /\ [Next]_vars
        => (TypeOK /\ InHandOK /\ Ordered /\ TlmInOrder)'
  BY NextType, NextInHand, NextOrdered
<1> QED
  BY <1>1, <1>2, PTL DEF Spec

-----------------------------------------------------------------------------
LEMMA SentIsNat ==
  ASSUME TypeOK
  PROVE  \A k : IsFiniteSet(CallsOf(k) \intersect ThisRun) /\ Sent(k) \in Nat
<1>1. IsFiniteSet(DOMAIN calls)
  BY FS_Interval, LenProperties DEF TypeOK
<1>2. \A k : IsFiniteSet(CallsOf(k) \intersect ThisRun)
  BY <1>1, FS_Subset DEF CallsOf
<1> QED
  BY <1>2, FS_CardinalityType DEF Sent

(* What one more call does to the calls of this run: the INIT event begins  *)
(* a new run, any other call counts for its kind.                           *)
LEMMA SentAfterCall ==
  ASSUME TypeOK, NEW kind \in CallKinds, NEW here, NEW next, Call(kind, here, next)
  PROVE  /\ kind = "initEvent" => \A k : Sent(k)' = 0
         /\ kind # "initEvent" => /\ Sent(kind)' = Sent(kind) + 1
                                  /\ \A k : k # kind => Sent(k)' = Sent(k)
<1> DEFINE n == Len(calls)
           mine(k) == CallsOf(k) \intersect ThisRun
<1>1. /\ CallsOf(kind)' = CallsOf(kind) \union {n + 1}
      /\ \A k : k # kind => CallsOf(k)' = CallsOf(k)
      /\ \A k : CallsOf(k) \subseteq 1..n
  BY CallAddsOne
<1>2. n \in Nat /\ DOMAIN calls = 1..n /\ DOMAIN calls' = 1..(n + 1)
  BY CallAppends
<1> HIDE DEF n
<1>3. \A k : IsFiniteSet(mine(k))
  BY SentIsNat
<1>5. ASSUME kind = "initEvent", NEW k PROVE Sent(k)' = 0
  <2>1. ThisRun' = {}
    BY <1>1, <1>2, <1>5 DEF ThisRun
  <2>2. mine(k)' = {}
    BY <2>1
  <2> QED
    BY <2>2, FS_EmptySet DEF Sent
<1>6. ASSUME kind # "initEvent" PROVE ThisRun' = ThisRun \union {n + 1}
  <2>1. CallsOf("initEvent")' = CallsOf("initEvent") /\ CallsOf("initEvent") \subseteq 1..n
    BY <1>1, <1>6
  <2> QED
    BY <2>1, <1>2 DEF ThisRun
<1>7. ASSUME kind # "initEvent" PROVE Sent(kind)' = Sent(kind) + 1
  <2>1. mine(kind)' = mine(kind) \union {n + 1} /\ n + 1 \notin mine(kind)
    BY <1>1, <1>2, <1>6, <1>7
  <2> QED
    BY <2>1, <1>3, FS_AddElement DEF Sent
<1>8. ASSUME kind # "initEvent", NEW k, k # kind PROVE Sent(k)' = Sent(k)
  <2>1. mine(k)' = mine(k)
    BY <1>1, <1>2, <1>6, <1>8
  <2> QED
    BY <2>1 DEF Sent
<1> QED
  BY <1>5, <1>7, <1>8

LEMMA SilentKeepsSent ==
  ASSUME UNCHANGED calls
  PROVE  \A k : Sent(k)' = Sent(k)
BY DEF Sent, CallsOf, ThisRun

LEMMA NextCounted == TypeOK /\ Counted /\ [Next]_vars => Counted'
<1> SUFFICES ASSUME TypeOK, Counted, [Next]_vars PROVE Counted'
  OBVIOUS
<1> USE DEF Counted, TlmDue, CloseDue, InLoop, Processing
<1>t. /\ PacketCount \in Nat /\ FdirTriggerCount \in Nat
      /\ Sent("tlm") \in Nat /\ Sent("solarClose") \in Nat
  BY SentIsNat DEF TypeOK
<1>1. CASE Publish \/ UNCHANGED vars
  BY <1>1, SilentKeepsSent DEF Publish, vars, appVars
<1>2. CASE Register \/ CreatePipe \/ Subscribe
  BY <1>2, SilentKeepsSent DEF Register, CreatePipe, Subscribe, InitCall
<1>3. CASE InitTlm
  <2>1. CASE Call("initEvent", "initTlm", "runLoop")
    <3>1. Sent("tlm")' = 0 /\ Sent("solarClose")' = 0
      BY <2>1, SentAfterCall DEF CallKinds
    <3> QED
      BY <2>1, <3>1 DEF Call
  <2> QED
    BY <1>3, <2>1 DEF InitTlm
<1>4. CASE RunLoop \/ Receive \/ Unexpected
  <2>1. Sent("tlm")' = Sent("tlm") /\ Sent("solarClose")' = Sent("solarClose")
    BY <1>4, SilentKeepsSent DEF RunLoop, Receive, Unexpected
  <2>2. pc' \in {"runLoop", "receive", "dispatch", "exited"} /\ pc \in {"runLoop", "receive", "dispatch"}
    BY <1>4 DEF RunLoop, Receive, Unexpected
  <2>3. UNCHANGED <<RunStatus, PacketCount, FdirTriggerCount>>
    BY <1>4 DEF RunLoop, Receive, Unexpected
  <2> QED
    BY <2>1, <2>2, <2>3
<1>5. CASE ReceiveError
  BY <1>5 DEF ReceiveError, APP_RUN, APP_ERROR
<1>6. CASE ProcessSensorData
  <2>1. Sent("tlm")' = Sent("tlm") /\ Sent("solarClose")' = Sent("solarClose")
    BY <1>6, SilentKeepsSent DEF ProcessSensorData
  <2> QED
    BY <1>t, <1>6, <2>1, Responses DEF ProcessSensorData, TlmDue, CloseDue
<1>7. CASE SolarClose
  <2>1. Sent("tlm")' = Sent("tlm") /\ Sent("solarClose")' = Sent("solarClose") + 1
    BY <1>7, SentAfterCall DEF SolarClose, CallKinds
  <2> QED
    BY <1>t, <1>7, <2>1 DEF SolarClose, Call
<1>8. CASE FdirEvent
  <2>1. Sent("tlm")' = Sent("tlm") /\ Sent("solarClose")' = Sent("solarClose")
    BY <1>8, SentAfterCall DEF FdirEvent, CallKinds
  <2> QED
    BY <1>8, <2>1 DEF FdirEvent, Call
<1>9. CASE WarnEvent
  <2>1. Sent("tlm")' = Sent("tlm") /\ Sent("solarClose")' = Sent("solarClose")
    BY <1>9, SentAfterCall DEF WarnEvent, CallKinds
  <2> QED
    BY <1>9, <2>1 DEF WarnEvent, Call
<1>10. CASE SendTlm
  <2>1. Sent("tlm")' = Sent("tlm") + 1 /\ Sent("solarClose")' = Sent("solarClose")
    BY <1>10, SentAfterCall DEF SendTlm, CallKinds
  <2> QED
    BY <1>t, <1>10, <2>1 DEF SendTlm, Call
<1>11. CASE InfEvent
  <2>1. Sent("tlm")' = Sent("tlm") /\ Sent("solarClose")' = Sent("solarClose")
    BY <1>11, SentAfterCall DEF InfEvent, CallKinds
  <2> QED
    BY <1>11, <2>1 DEF InfEvent, Call
<1>12. CASE Restart
  BY <1>12 DEF Restart
<1> QED
  BY <1>1, <1>2, <1>3, <1>4, <1>5, <1>6, <1>7, <1>8, <1>9, <1>10, <1>11, <1>12 DEF Next, AppStep

(* The counters RAD_APP logs are the numbers of its own transmissions since *)
(* it was started last, in every state in which it waits for a command.     *)
THEOREM CountersAreTrue == Spec => []CountersMatchCalls
<1>1. Init => TypeOK /\ InHandOK /\ Initialised /\ Counted
  BY InitType DEF Init, InHandOK, Initialised, Counted, InLoop, Processing
<1>2. TypeOK /\ InHandOK /\ Initialised /\ Counted /\ [Next]_vars
        => (TypeOK /\ InHandOK /\ Initialised /\ Counted)'
  BY NextType, NextInHand, NextInitialised, NextCounted
<1>3. TypeOK /\ Initialised /\ Counted => CountersMatchCalls
  <2> SUFFICES ASSUME TypeOK, Initialised, Counted, pc = "receive"
               PROVE  /\ PacketCount = Sent("tlm") /\ FdirTriggerCount = Sent("solarClose")
    BY DEF CountersMatchCalls, Sent
  <2>1. PacketCount = Sent("tlm") + 0 /\ FdirTriggerCount = Sent("solarClose") + 0
    BY DEF Counted, TlmDue, CloseDue, Initialised, InLoop
  <2>2. Sent("tlm") \in Nat /\ Sent("solarClose") \in Nat
    BY SentIsNat
  <2> QED
    BY <2>1, <2>2
<1> QED
  BY <1>1, <1>2, <1>3, PTL DEF Spec

-----------------------------------------------------------------------------
(* The refinement: what a reading of a call is, and that every step of      *)
(* RAD_APP is a step of Fdir or leaves Fdir's state alone.                  *)
LEMMA ReadingsAfterCall ==
  ASSUME TypeOK, NEW kind \in CallKinds, NEW here, NEW next, Call(kind, here, next)
  PROVE  /\ ReadingsOf(kind)' = ReadingsOf(kind) \union {msg}
         /\ \A k : k # kind => ReadingsOf(k)' = ReadingsOf(k)
<1> DEFINE n == Len(calls)
<1>1. /\ CallsOf(kind)' = CallsOf(kind) \union {n + 1}
      /\ \A k : k # kind => CallsOf(k)' = CallsOf(k)
      /\ \A k : CallsOf(k) \subseteq 1..n
  BY CallAddsOne
<1>2. (\A i \in 1..n : calls'[i] = calls[i]) /\ calls'[n + 1].msg = msg
  BY CallAppends
<1> HIDE DEF n
<1> QED
  BY <1>1, <1>2 DEF ReadingsOf

(* The commands whose ids are newer than all outputs have no output yet.    *)
LEMMA NewerIsFresh ==
  ASSUME NEW kind, NEW m, m.id \in Nat, \A i \in CallsOf(kind) : calls[i].msg.id < m.id
  PROVE  m \notin ReadingsOf(kind)
<1> SUFFICES ASSUME NEW i \in CallsOf(kind), calls[i].msg = m PROVE FALSE
  BY DEF ReadingsOf
<1> QED
  OBVIOUS

LEMMA QueueInHand ==
  ASSUME TypeOK, InHandOK, pc \in Processing \ {"infEvent"}
  PROVE  /\ FdirQueue # <<>> /\ Head(FdirQueue) = msg /\ Tail(FdirQueue) = pipe
         /\ FdirQueue = <<msg>> \o pipe
<1>1. FdirQueue = <<msg>> \o pipe
  BY DEF FdirQueue, InHand, Processing
<1>2. msg \in Msgs /\ pipe \in Seq(Msgs)
  BY DEF TypeOK, InHandOK, Processing
<1> QED
  BY <1>1, <1>2

LEMMA QueueOtherwise ==
  ASSUME TypeOK, pc \notin Processing \ {"infEvent"}
  PROVE  FdirQueue = pipe
BY DEF FdirQueue, InHand, Processing, TypeOK

(* The step from FdirQueue to FdirQueue', one case per action.              *)
LEMMA NextImplementsFdir ==
  ASSUME IInv, Ordered, TypeOK', InHandOK', [Next]_vars
  PROVE  [FdirPromise!Next]_(FdirPromise!fdirVars)
<1> USE DEF FdirPromise!Next, FdirPromise!fdirVars
<1>t. TypeOK /\ InHandOK /\ DueCalls
  BY DEF IInv
<1>n. msg.id \in Nat /\ published \in Nat
  BY <1>t, MaxPublishedAssumption DEF TypeOK, Msgs, NoMsg
<1>c. Critical' = Critical
  BY DEF Critical, Msgs
<1> DEFINE closed   == ReadingsOf("solarClose")
           reported == ReadingsOf("tlm")
           busy     == Processing \ {"infEvent"}
<1>q. pc' \notin busy => FdirQueue' = pipe'
  BY DEF FdirQueue, InHand, Processing, TypeOK
<1>s. calls' = calls => closed' = closed /\ reported' = reported
  BY DEF ReadingsOf, CallsOf
<1>k. ASSUME NEW kind \in CallKinds \ {"solarClose", "tlm"}, NEW here, NEW next, Call(kind, here, next),
             here \in busy <=> next \in busy
      PROVE  UNCHANGED <<FdirQueue, closed, reported>>
  <2>1. closed' = closed /\ reported' = reported
    BY <1>t, <1>k, ReadingsAfterCall
  <2>2. pc = here /\ pc' = next /\ UNCHANGED <<msg, pipe>>
    BY <1>k DEF Call
  <2>3. FdirQueue' = FdirQueue
    BY <1>k, <2>2 DEF FdirQueue, InHand, Processing
  <2> QED
    BY <2>1, <2>3
<1>1. CASE Publish
  <2>1. closed' = closed /\ reported' = reported /\ UNCHANGED <<pc, msg>>
    BY <1>1, <1>s DEF Publish, appVars
  <2>2. CASE pipe' = pipe
    BY <2>1, <2>2 DEF FdirQueue, InHand
  <2>3. CASE pipe' # pipe
    <3>1. PICK m \in Msgs : m.id = published + 1 /\ pipe' = Append(pipe, m)
      <4>1. PICK fc \in FcnCodes, level \in Levels :
              pipe' = Append(pipe, [id |-> published + 1, fc |-> fc, level |-> level])
        BY <1>1, <2>3 DEF Publish
      <4>2. published + 1 \in 1..MaxPublished
        BY <1>1, <1>n, MaxPublishedAssumption DEF Publish, TypeOK
      <4> QED
        BY <4>1, <4>2 DEF Msgs
    <3>2. m \notin closed /\ m \notin reported
      <4>1. \A i \in CallsOf("tlm") \union CallsOf("solarClose") : calls[i].msg.id \in Int
        <5>1. \A i \in DOMAIN calls : calls[i] \in Calls
          BY <1>t, ElementOfSeq, LenProperties DEF TypeOK
        <5> QED
          BY <5>1 DEF CallsOf, Calls, Msgs, NoMsg
      <4>2. \A i \in CallsOf("tlm") \union CallsOf("solarClose") : calls[i].msg.id < m.id
        BY <1>n, <3>1, <4>1 DEF Ordered, Outputs
      <4> QED
        BY <1>n, <3>1, <4>2, NewerIsFresh
    <3>3. FdirQueue' = Append(FdirQueue, m)
      <4>1. CASE pc \in busy
        <5>1. FdirQueue = <<msg>> \o pipe /\ FdirQueue' = <<msg>> \o Append(pipe, m)
          BY <1>t, <2>1, <3>1, <4>1, QueueInHand DEF FdirQueue, InHand, Processing
        <5>2. msg \in Msgs /\ pipe \in Seq(Msgs)
          BY <1>t, <4>1 DEF TypeOK, InHandOK, Processing
        <5> QED
          BY <3>1, <5>1, <5>2
      <4>2. CASE pc \notin busy
        BY <1>t, <1>q, <2>1, <3>1, <4>2, QueueOtherwise
      <4> QED
        BY <4>1, <4>2
    <3>4. FdirPromise!Accept
      BY <2>1, <3>1, <3>2, <3>3 DEF FdirPromise!Accept
    <3> QED
      BY <3>4
  <2> QED
    BY <2>2, <2>3
<1>2. CASE Register \/ CreatePipe \/ Subscribe
  BY <1>2, <1>s DEF Register, CreatePipe, Subscribe, InitCall, FdirQueue, InHand
<1>3. CASE InitTlm
  <2>1. CASE Call("initEvent", "initTlm", "runLoop")
    BY <2>1, <1>k DEF CallKinds, Processing
  <2>2. CASE pc = "initTlm" /\ pc' = "runLoop" /\ UNCHANGED <<msg, pipe, calls>>
    BY <2>2, <1>s DEF FdirQueue, InHand
  <2> QED
    BY <1>3, <2>1, <2>2 DEF InitTlm
<1>4. CASE RunLoop
  <2>1. CASE pc' = "receive" /\ UNCHANGED pipe
    BY <1>4, <2>1, <1>s DEF RunLoop, FdirQueue, InHand
  <2>2. CASE pc' = "exited" /\ pipe' = <<>>
    <3>1. FdirQueue' = <<>>
      BY <2>2 DEF FdirQueue, InHand
    <3> QED
      BY <1>4, <3>1, <1>s DEF RunLoop, FdirPromise!Stop
  <2> QED
    BY <1>4, <2>1, <2>2 DEF RunLoop
<1>5. CASE Receive
  <2>1. pc = "receive" /\ pc' = "dispatch" /\ msg' = Head(pipe) /\ pipe' = Tail(pipe) /\ pipe # <<>>
    BY <1>5 DEF Receive
  <2>2. FdirQueue = pipe /\ FdirQueue' = <<Head(pipe)>> \o Tail(pipe)
    BY <1>t, <2>1, QueueOtherwise DEF FdirQueue, InHand, Processing
  <2>3. FdirQueue' = FdirQueue
    BY <1>t, <2>1, <2>2 DEF TypeOK
  <2> QED
    BY <1>5, <1>s, <2>3 DEF Receive
<1>6. CASE ReceiveError
  BY <1>6, <1>s DEF ReceiveError, FdirQueue, InHand
<1>7. CASE Unexpected
  <2>1. pc = "dispatch" /\ pc' = "runLoop" /\ msg.fc # 2 /\ UNCHANGED <<msg, pipe, calls>>
    BY <1>7 DEF Unexpected, FC_SEND_DATA
  <2>2. FdirQueue # <<>> /\ Head(FdirQueue) = msg /\ Tail(FdirQueue) = pipe
    BY <1>t, <2>1, QueueInHand DEF Processing
  <2>3. FdirQueue' = pipe
    BY <1>q, <2>1 DEF Processing
  <2>4. msg \notin Critical
    BY <2>1 DEF Critical
  <2>5. FdirPromise!Ignore
    BY <1>s, <2>1, <2>2, <2>3, <2>4 DEF FdirPromise!Ignore
  <2> QED
    BY <2>5
<1>8. CASE ProcessSensorData
  <2>1. pc \in busy /\ pc' \in busy /\ UNCHANGED <<msg, pipe, calls>>
    BY <1>8, Responses DEF ProcessSensorData, Processing
  <2>2. FdirQueue' = FdirQueue
    BY <2>1 DEF FdirQueue, InHand, Processing
  <2> QED
    BY <1>s, <2>1, <2>2
<1>9. CASE SolarClose
  <2>1. pc = "solarClose" /\ pc' = "fdirEvent" /\ UNCHANGED <<msg, pipe>>
    BY <1>9 DEF SolarClose, Call
  <2>2. closed' = closed \union {msg} /\ reported' = reported
    BY <1>9, <1>t, ReadingsAfterCall DEF SolarClose, CallKinds
  <2>3. FdirQueue # <<>> /\ Head(FdirQueue) = msg
    BY <1>t, <2>1, QueueInHand DEF Processing
  <2>4. msg \in Critical /\ msg \notin closed
    BY <1>t, <1>n, <2>1, NewerIsFresh DEF DueCalls, Ordered
  <2>5. FdirQueue' = FdirQueue
    BY <2>1 DEF FdirQueue, InHand
  <2>6. FdirPromise!Close
    BY <2>2, <2>3, <2>4, <2>5 DEF FdirPromise!Close
  <2> QED
    BY <2>6
<1>10. CASE FdirEvent
  BY <1>10, <1>k DEF FdirEvent, CallKinds, Processing
<1>11. CASE WarnEvent
  BY <1>11, <1>k DEF WarnEvent, CallKinds, Processing
<1>12. CASE SendTlm
  <2>1. pc = "sendTlm" /\ pc' = "infEvent" /\ UNCHANGED <<msg, pipe>>
    BY <1>12 DEF SendTlm, Call
  <2>2. reported' = reported \union {msg} /\ closed' = closed
    BY <1>12, <1>t, ReadingsAfterCall DEF SendTlm, CallKinds
  <2>3. FdirQueue # <<>> /\ Head(FdirQueue) = msg /\ Tail(FdirQueue) = pipe
    BY <1>t, <2>1, QueueInHand DEF Processing
  <2>4. msg \in Critical => msg \in closed
    <3>1. ASSUME msg \in Critical PROVE Len(calls) - 1 \in CallsOf("solarClose") /\ calls[Len(calls) - 1].msg = msg
      BY <1>t, <2>1, <3>1, LenProperties DEF DueCalls, LastCall, CallsOf, TypeOK
    <3> QED
      BY <3>1 DEF ReadingsOf
  <2>5. msg \notin reported
    BY <1>n, <2>1, NewerIsFresh DEF Ordered, Processing
  <2>6. FdirQueue' = pipe
    BY <1>q, <2>1 DEF Processing
  <2>7. FdirPromise!Report
    BY <2>2, <2>3, <2>4, <2>5, <2>6 DEF FdirPromise!Report
  <2> QED
    BY <2>7
<1>13. CASE InfEvent
  BY <1>13, <1>k DEF InfEvent, CallKinds, Processing
<1>14. CASE Restart
  <2>1. FdirQueue' = <<>>
    BY <1>14 DEF Restart, FdirQueue, InHand
  <2>2. FdirPromise!Stop
    BY <1>14, <1>s, <2>1 DEF Restart, FdirPromise!Stop
  <2> QED
    BY <2>2
<1>15. CASE UNCHANGED vars
  BY <1>15, <1>s DEF vars, appVars, FdirQueue, InHand
<1> QED
  BY <1>1, <1>2, <1>3, <1>4, <1>5, <1>6, <1>7, <1>8, <1>9, <1>10, <1>11, <1>12, <1>13, <1>14, <1>15
     DEF Next, AppStep

(* RAD_APP keeps the promise of Fdir, for any readings, limits of its pipe  *)
(* and outcomes of its calls: readings are served in the order accepted,    *)
(* the panels are closed once for the critical one being served, and it is  *)
(* reported once, after the close.                                          *)
THEOREM RadAppImplementsFdir == Spec => ImplementsFdir
<1>1. Init => FdirPromise!Init
  <2> SUFFICES ASSUME Init PROVE FdirPromise!Init
    OBVIOUS
  <2>1. DOMAIN calls = {}
    BY DEF Init
  <2> QED
    BY <2>1 DEF Init, FdirPromise!Init, FdirQueue, InHand, ReadingsOf, CallsOf
<1>2. Init => IInv /\ Ordered /\ TlmInOrder
  BY InitIInv, InitOrdered
<1>3. IInv /\ Ordered /\ TlmInOrder /\ [Next]_vars => (IInv /\ Ordered /\ TlmInOrder)'
  BY NextIInv, NextOrdered DEF IInv
<1>4. IInv /\ Ordered /\ IInv' /\ [Next]_vars => [FdirPromise!Next]_(FdirPromise!fdirVars)
  BY NextImplementsFdir DEF IInv
<1> QED
  BY <1>1, <1>2, <1>3, <1>4, PTL DEF Spec, ImplementsFdir, FdirPromise!Spec

=============================================================================
