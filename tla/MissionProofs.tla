---------------------------- MODULE MissionProofs ----------------------------
(***************************************************************************)
(* Proofs about Mission, for any readings, function codes, depths of the   *)
(* pipes and bounds.  What RAD_APP does is taken from RadAppProofs, whose  *)
(* invariants hold here because RAD_APP takes the steps of RadApp.         *)
(***************************************************************************)
EXTENDS Mission, SequenceTheorems, FiniteSetTheorems, TLAPS

RadP == INSTANCE RadAppProofs

(* A command that the ground station takes for critical, and the commands   *)
(* for which RAD_APP called for the panels to be closed.                    *)
Crit(m) == Rad!HealthOf(m.level) = "critical"
Closed  == Rad!ReadingsOf("solarClose")

(* The telemetry in TO_LAB's pipe.                                          *)
Waiting == {toPipe[k] : k \in DOMAIN toPipe}

(* Where RAD_APP is in its processing says whether the command in hand is   *)
(* critical, and whether its close command was sent.                        *)
ByHealth ==
  /\ pc \in {"solarClose", "fdirEvent"} => Crit(msg)
  /\ pc = "warnEvent" => ~Crit(msg)
  /\ pc = "fdirEvent" \/ (pc = "sendTlm" /\ Crit(msg)) => msg \in Closed

Kinds == {"enable", "reading", "open", "close"}

SolarCommands == [kind : {"open", "close"}, reading : Rad!Msgs \union {Rad!NoMsg}]

Typed ==
  /\ toPipe \in Seq(Rad!Msgs \union {Rad!NoMsg})
  /\ solarBus \in Seq(SolarCommands)
  /\ opPc \in {"idle", "open", "close"}
  /\ dups \in Nat /\ losses \in BOOLEAN /\ raced \in BOOLEAN
  /\ \A p \in uplink : p.kind \in Kinds

(* For a critical reading on its way to the operator, or logged, RAD_APP    *)
(* has called for a close command; the command is on the bus, or its        *)
(* transmission failed.                                                     *)
Backed ==
  /\ \A m \in Waiting : Crit(m) => m \in Closed
  /\ \A p \in downlink : Crit(p) => p \in Closed
  /\ fdirLog \subseteq Closed
  /\ solar_array_status = ClosedByFdir => fdirLog # {}

OnTheBus == Closed \subseteq AutoCloses \union Unsent

(* Between an operator's press and the end of its effects no reading is     *)
(* under way, and otherwise the status is that of the last command, or a    *)
(* critical reading that will make it so is on its way to the ground.       *)
Calm   == ~raced /\ ~losses /\ dups = 0 /\ Unsent = {}
Solars == {p \in uplink : p.kind \in {"open", "close"}}
Busy   == {"dispatch", "solarClose", "fdirEvent", "warnEvent", "sendTlm"}

OperatorBusy == opPc # "idle" \/ Solars # {}

NoReading ==
  /\ \A p \in uplink : p.kind # "reading"
  /\ pipe = <<>> /\ pc \notin Busy /\ toPipe = <<>> /\ downlink = {}

PendingCritical ==
  \/ pc \in {"fdirEvent", "sendTlm"} /\ Crit(msg)
  \/ \E m \in Waiting : Crit(m)
  \/ \E p \in downlink : Crit(p)

LastIs(k) == solarBus # <<>> /\ solarBus[Len(solarBus)].kind = k

Settled ==
  \/ solarBus = <<>> /\ solar_array_status = "Unknown" /\ ~PendingCritical
  \/ LastIs("open") /\ solar_array_status \in Shows("open") /\ ~PendingCritical
  \/ LastIs("close") /\ (solar_array_status \in Shows("close") \/ PendingCritical)

Tracking ==
  /\ OperatorBusy => NoReading
  /\ opPc # "idle" => \/ \E p \in uplink : Solars = {p} /\ p.kind = opPc
                      \/ Solars = {} /\ LastIs(opPc)
  /\ opPc = "idle" /\ Solars # {} =>
       \E p \in uplink : Solars = {p} /\ solar_array_status \in Shows(p.kind)
  /\ ~OperatorBusy => Settled

Tracks == Calm => Tracking

-----------------------------------------------------------------------------
(* RAD_APP takes the steps of RadApp here, so its invariants hold here too. *)
InHandTyped == pc \in Busy \union {"infEvent"} => msg \in Rad!Msgs
RadTyped    == Rad!TypeOK /\ InHandTyped

LEMMA SameState == (Rad!TypeOK <=> RadP!TypeOK) /\ (InHandTyped <=> RadP!InHandOK)
BY DEF Rad!TypeOK, RadP!TypeOK, Rad!PCs, RadP!PCs, Rad!APP_RUN, RadP!APP_RUN, Rad!APP_ERROR, RadP!APP_ERROR,
       Rad!Msgs, RadP!Msgs, Rad!NoMsg, RadP!NoMsg, Rad!Calls, RadP!Calls, Rad!CallKinds, RadP!CallKinds,
       InHandTyped, RadP!InHandOK, Busy

LEMMA SameCalls ==
  /\ \A k : Rad!ReadingsOf(k) = RadP!ReadingsOf(k)
  /\ \A kind, here, next : Rad!Call(kind, here, next) <=> RadP!Call(kind, here, next)
BY DEF Rad!ReadingsOf, RadP!ReadingsOf, Rad!CallsOf, RadP!CallsOf, Rad!Call, RadP!Call

LEMMA SameNext == Rad!Next <=> RadP!Next
<1>1. Rad!Publish <=> RadP!Publish
  BY DEF Rad!Publish, RadP!Publish, Rad!appVars, RadP!appVars
<1>2. Rad!Restart <=> RadP!Restart
  BY DEF Rad!Restart, RadP!Restart, Rad!InHand, RadP!InHand, Rad!Ids, RadP!Ids,
         Rad!NoMsg, RadP!NoMsg, Rad!APP_RUN, RadP!APP_RUN
<1>3. Rad!ReceiveError <=> RadP!ReceiveError
  BY DEF Rad!ReceiveError, RadP!ReceiveError, Rad!APP_ERROR, RadP!APP_ERROR
<1>4. (Rad!Register <=> RadP!Register) /\ (Rad!CreatePipe <=> RadP!CreatePipe) /\ (Rad!Subscribe <=> RadP!Subscribe)
  BY DEF Rad!Register, RadP!Register, Rad!CreatePipe, RadP!CreatePipe, Rad!Subscribe, RadP!Subscribe,
         Rad!InitCall, RadP!InitCall, Rad!APP_RUN, RadP!APP_RUN, Rad!APP_ERROR, RadP!APP_ERROR
<1>5. /\ Rad!InitTlm <=> RadP!InitTlm
      /\ Rad!SolarClose <=> RadP!SolarClose
      /\ Rad!FdirEvent <=> RadP!FdirEvent
      /\ Rad!WarnEvent <=> RadP!WarnEvent
      /\ Rad!SendTlm <=> RadP!SendTlm
      /\ Rad!InfEvent <=> RadP!InfEvent
  BY SameCalls DEF Rad!InitTlm, RadP!InitTlm, Rad!SolarClose, RadP!SolarClose, Rad!FdirEvent, RadP!FdirEvent,
     Rad!WarnEvent, RadP!WarnEvent, Rad!SendTlm, RadP!SendTlm, Rad!InfEvent, RadP!InfEvent, Rad!APP_RUN, RadP!APP_RUN
<1>6. (Rad!RunLoop <=> RadP!RunLoop) /\ (Rad!Receive <=> RadP!Receive) /\ (Rad!Unexpected <=> RadP!Unexpected)
  BY DEF Rad!RunLoop, RadP!RunLoop, Rad!Receive, RadP!Receive, Rad!Unexpected, RadP!Unexpected,
         Rad!Ids, RadP!Ids, Rad!APP_RUN, RadP!APP_RUN, Rad!FC_SEND_DATA, RadP!FC_SEND_DATA
<1>7. Rad!ProcessSensorData <=> RadP!ProcessSensorData
  BY DEF Rad!ProcessSensorData, RadP!ProcessSensorData, Rad!FC_SEND_DATA, RadP!FC_SEND_DATA,
         Rad!ResponseTo, RadP!ResponseTo, Rad!RAD_LIMIT, RadP!RAD_LIMIT, Rad!RAD_WARNING, RadP!RAD_WARNING
<1> QED
  BY <1>1, <1>2, <1>3, <1>4, <1>5, <1>6, <1>7 DEF Rad!Next, RadP!Next, Rad!AppStep, RadP!AppStep

LEMMA InitRadTyped == Init => RadTyped
<1>1. Init => RadP!Init
  BY DEF Init, Rad!Init, RadP!Init, Rad!APP_RUN, RadP!APP_RUN, Rad!NoMsg, RadP!NoMsg
<1>2. RadP!Init => RadP!TypeOK
  BY RadAssumption, RadP!InitType
     DEF RadP!InitType, RadP!LevelsAssumption, RadP!FcnCodesAssumption, RadP!TransmitOkAssumption,
         RadP!PipeDepthAssumption, RadP!MaxPublishedAssumption, RadP!MaxRestartsAssumption
<1> QED
  BY <1>1, <1>2, SameState DEF Init, Rad!Init, RadTyped, InHandTyped, Busy

LEMMA RadTypedInNext == RadTyped /\ [Rad!Next]_radVars => RadTyped'
<1>1. [Rad!Next]_radVars => [RadP!Next]_(RadP!vars)
  BY SameNext DEF radVars, RadP!vars, RadP!appVars
<1>2. RadP!TypeOK /\ RadP!InHandOK /\ [RadP!Next]_(RadP!vars) => RadP!TypeOK'
  BY RadAssumption, RadP!NextType
     DEF RadP!NextType, RadP!LevelsAssumption, RadP!FcnCodesAssumption, RadP!TransmitOkAssumption,
         RadP!PipeDepthAssumption, RadP!MaxPublishedAssumption, RadP!MaxRestartsAssumption
<1>3. RadP!TypeOK /\ RadP!InHandOK /\ [RadP!Next]_(RadP!vars) => RadP!InHandOK'
  BY RadAssumption, RadP!NextInHand
     DEF RadP!NextInHand, RadP!LevelsAssumption, RadP!FcnCodesAssumption, RadP!TransmitOkAssumption,
         RadP!PipeDepthAssumption, RadP!MaxPublishedAssumption, RadP!MaxRestartsAssumption
<1>4. (Rad!TypeOK' <=> RadP!TypeOK') /\ (InHandTyped' <=> RadP!InHandOK')
  BY DEF Rad!TypeOK, RadP!TypeOK, Rad!PCs, RadP!PCs, Rad!APP_RUN, RadP!APP_RUN, Rad!APP_ERROR, RadP!APP_ERROR,
       Rad!Msgs, RadP!Msgs, Rad!NoMsg, RadP!NoMsg, Rad!Calls, RadP!Calls, Rad!CallKinds, RadP!CallKinds,
       InHandTyped, RadP!InHandOK, Busy
<1> QED
  BY <1>1, <1>2, <1>3, <1>4, SameState DEF RadTyped

(* One more call of RAD_APP: what it transmits, for which commands it has   *)
(* called for the panels to be closed, and for which of them in vain.       *)
LEMMA CallSends ==
  ASSUME RadTyped, NEW kind \in Rad!CallKinds, NEW here, NEW next, Rad!Call(kind, here, next)
  PROVE  /\ pc = here /\ pc' = next /\ UNCHANGED <<msg, pipe, lost>>
         /\ Closed' = IF kind = "solarClose" THEN Closed \union {msg} ELSE Closed
         /\ Transmitted \in {kind, "nothing"}
         /\ Unsent \subseteq Unsent'
         /\ kind = "solarClose" => Transmitted = kind \/ msg \in Unsent'
<1>1. pc = here /\ pc' = next /\ UNCHANGED <<msg, pipe, lost>>
  BY DEF Rad!Call
<1>2. /\ RadP!ReadingsOf(kind)' = RadP!ReadingsOf(kind) \union {msg}
      /\ \A k : k # kind => RadP!ReadingsOf(k)' = RadP!ReadingsOf(k)
  <2>1. RadP!TypeOK /\ RadP!Call(kind, here, next) /\ kind \in RadP!CallKinds
    BY SameState, SameCalls DEF RadTyped, Rad!CallKinds, RadP!CallKinds
  <2> QED
    BY <2>1, RadAssumption, RadP!ReadingsAfterCall
     DEF RadP!ReadingsAfterCall, RadP!LevelsAssumption, RadP!FcnCodesAssumption, RadP!TransmitOkAssumption,
         RadP!PipeDepthAssumption, RadP!MaxPublishedAssumption, RadP!MaxRestartsAssumption
<1>3. Closed' = IF kind = "solarClose" THEN Closed \union {msg} ELSE Closed
  BY <1>2 DEF Closed, Rad!ReadingsOf, RadP!ReadingsOf, Rad!CallsOf, RadP!CallsOf
<1>4. PICK ok \in IF kind \in {"solarClose", "tlm"} THEN TransmitOk ELSE {TRUE} :
        calls' = Append(calls, [kind |-> kind, msg |-> msg, ok |-> ok])
  BY DEF Rad!Call
<1>5. calls \in Seq(Rad!Calls)
  BY DEF RadTyped, Rad!TypeOK
<1>6. [kind |-> kind, msg |-> msg, ok |-> ok] \in Rad!Calls
  BY RadAssumption, <1>4 DEF RadTyped, Rad!TypeOK, Rad!Calls
<1>7. /\ Len(calls) \in Nat /\ Len(calls') = Len(calls) + 1
      /\ calls'[Len(calls')] = [kind |-> kind, msg |-> msg, ok |-> ok]
  BY <1>4, <1>5, <1>6, AppendProperties, LenProperties
<1>8. Transmitted = IF ok THEN kind ELSE "nothing"
  BY <1>7 DEF Transmitted
<1>9. /\ DOMAIN calls \subseteq DOMAIN calls' /\ Len(calls') \in DOMAIN calls'
      /\ \A i \in DOMAIN calls : calls'[i] = calls[i]
  BY <1>4, <1>5, <1>6, AppendProperties, LenProperties
<1>10. Unsent \subseteq Unsent'
  BY <1>9 DEF Unsent, Rad!CallsOf
<1>11. kind = "solarClose" /\ ~ok => msg \in Unsent'
  <2> SUFFICES ASSUME kind = "solarClose", ~ok PROVE msg \in Unsent'
    OBVIOUS
  <2>1. /\ calls'[Len(calls')].kind = "solarClose"
        /\ calls'[Len(calls')].msg = msg
        /\ ~calls'[Len(calls')].ok
    BY <1>7
  <2> QED
    BY <1>9, <2>1 DEF Unsent, Rad!CallsOf
<1> QED
  BY <1>1, <1>3, <1>8, <1>10, <1>11

LEMMA SilentSends ==
  ASSUME RadTyped, UNCHANGED calls
  PROVE  Closed' = Closed /\ Unsent' = Unsent /\ Transmitted = "nothing"
<1>1. Len(calls) \in Nat
  BY LenProperties DEF RadTyped, Rad!TypeOK
<1> QED
  BY <1>1 DEF Closed, Unsent, Rad!ReadingsOf, Rad!CallsOf, Transmitted

-----------------------------------------------------------------------------
(* What a step of RAD_APP is to the rest of the mission: it moves about     *)
(* outside the processing, takes a command in hand, classifies it, or calls.*)
Idles ==
  /\ UNCHANGED <<calls, msg>> /\ pc' \notin Busy
  /\ pc \notin Busy \ {"dispatch"}
  /\ pipe' \in {pipe, <<>>}

Takes ==
  /\ UNCHANGED calls
  /\ pc = "receive" /\ pc' = "dispatch" /\ pipe # <<>>

Classifies ==
  /\ UNCHANGED <<calls, msg, pipe>>
  /\ pc = "dispatch"
  /\ \/ pc' = "solarClose" /\ Crit(msg)
     \/ pc' \in {"warnEvent", "sendTlm"} /\ ~Crit(msg)

LEMMA RadStep ==
  ASSUME Rad!AppStep \/ Rad!ReceiveError
  PROVE  \/ Idles \/ Takes \/ Classifies
         \/ Rad!Call("initEvent", "initTlm", "runLoop")
         \/ Rad!Call("solarClose", "solarClose", "fdirEvent")
         \/ Rad!Call("fdirEvent", "fdirEvent", "sendTlm")
         \/ Rad!Call("warnEvent", "warnEvent", "sendTlm")
         \/ Rad!Call("tlm", "sendTlm", "infEvent")
         \/ Rad!Call("infEvent", "infEvent", "runLoop")
<1>1. CASE Rad!Register \/ Rad!CreatePipe \/ Rad!Subscribe
  BY <1>1 DEF Rad!Register, Rad!CreatePipe, Rad!Subscribe, Rad!InitCall, Idles, Busy
<1>2. CASE Rad!InitTlm
  BY <1>2 DEF Rad!InitTlm, Idles, Busy
<1>3. CASE Rad!RunLoop
  BY <1>3 DEF Rad!RunLoop, Idles, Busy
<1>4. CASE Rad!Receive
  BY <1>4 DEF Rad!Receive, Takes
<1>5. CASE Rad!Unexpected \/ Rad!ReceiveError
  BY <1>5 DEF Rad!Unexpected, Rad!ReceiveError, Idles, Busy
<1>6. CASE Rad!ProcessSensorData
  BY <1>6 DEF Rad!ProcessSensorData, Classifies, Crit, Rad!ResponseTo, Rad!HealthOf, Rad!RAD_LIMIT, Rad!RAD_WARNING
<1>7. CASE Rad!SolarClose \/ Rad!FdirEvent \/ Rad!WarnEvent \/ Rad!SendTlm \/ Rad!InfEvent
  BY <1>7 DEF Rad!SolarClose, Rad!FdirEvent, Rad!WarnEvent, Rad!SendTlm, Rad!InfEvent
<1> QED
  BY <1>1, <1>2, <1>3, <1>4, <1>5, <1>6, <1>7 DEF Rad!AppStep

(* Every step of the mission is one of RAD_APP, of CI_LAB publishing for    *)
(* it, or leaves RAD_APP alone.                                             *)
LEMMA RadInMission ==
  ASSUME [Next]_vars
  PROVE  [Rad!Next]_radVars
<1>1. CASE CiLab
  BY <1>1 DEF CiLab, PublishReading, PublishSolar, EnableOutput, Rad!Next
<1>2. CASE RadRuns
  BY <1>2 DEF RadRuns, Rad!Next
<1>3. CASE RestartFlight
  BY <1>3 DEF RestartFlight, Rad!Next
<1>4. CASE SendReading \/ Lose \/ ToLab \/ GroundReceive
  BY <1>4 DEF SendReading, Lose, ToLab, GroundReceive
<1>5. CASE PressSolar \/ UpdateStatus \/ PressEnable \/ UNCHANGED vars
  BY <1>5 DEF PressSolar, UpdateStatus, PressEnable, vars
<1> QED
  BY <1>1, <1>2, <1>3, <1>4, <1>5 DEF Next

(* A packet that is taken, or a duplicate of one, leaves only packets that  *)
(* were there.                                                              *)
LEMMA TakenPackets ==
  ASSUME Typed, NEW p, NEW packets, NEW rest, Take(p, packets, rest)
  PROVE  /\ rest \subseteq packets
         /\ dups' \in Nat
         /\ dups' = 0 => dups = 0 /\ rest = packets \ {p}
BY DEF Take, Typed

-----------------------------------------------------------------------------
(* Types.                                                                   *)
LEMMA RadRunsTyped ==
  ASSUME RadTyped, Typed, RadRuns
  PROVE  Typed'
<1>1. msg \in Rad!Msgs \union {Rad!NoMsg}
  BY DEF RadTyped, Rad!TypeOK
<1>2. solarBus' \in Seq(SolarCommands)
  <2>1. Append(solarBus, Solar("close", msg)) \in Seq(SolarCommands)
    BY <1>1, AppendProperties DEF Typed, Solar, SolarCommands
  <2> QED
    BY <2>1 DEF RadRuns, Typed
<1>3. toPipe' \in Seq(Rad!Msgs \union {Rad!NoMsg})
  <2>1. Append(toPipe, msg) \in Seq(Rad!Msgs \union {Rad!NoMsg})
    BY <1>1, AppendProperties DEF Typed
  <2> QED
    BY <2>1 DEF RadRuns, Typed
<1>4. losses' \in BOOLEAN
  BY DEF RadRuns, Typed
<1> QED
  BY <1>2, <1>3, <1>4 DEF RadRuns, Typed, netVars, groundVars, boundVars, SolarCommands, Rad!Msgs, Rad!NoMsg

LEMMA NextTyped == RadTyped /\ Typed /\ [Next]_vars => Typed'
<1> SUFFICES ASSUME RadTyped, Typed, [Next]_vars PROVE Typed'
  OBVIOUS
<1>m. (Rad!Msgs \union {Rad!NoMsg})' = Rad!Msgs \union {Rad!NoMsg} /\ SolarCommands' = SolarCommands
  BY DEF SolarCommands, Rad!Msgs, Rad!NoMsg
<1>1. CASE SendReading
  BY <1>1, <1>m DEF SendReading, Typed, ReadingPacket, Kinds, busVars, groundVars
<1>2. CASE Lose
  BY <1>2, <1>m DEF Lose, Typed, busVars, groundVars, boundVars
<1>3. CASE CiLab
  <2>1. PICK p \in uplink :
          /\ Take(p, uplink, uplink')
          /\ \/ p.kind = "reading" /\ PublishReading(p)
             \/ p.kind \in {"open", "close"} /\ PublishSolar(p)
             \/ p.kind = "enable" /\ EnableOutput
    BY <1>3 DEF CiLab
  <2>2. uplink' \subseteq uplink /\ dups' \in Nat
    BY <2>1, TakenPackets
  <2>3. p.kind \in {"open", "close"} => Append(solarBus, Solar(p.kind, Rad!NoMsg)) \in Seq(SolarCommands)
    BY AppendProperties DEF Typed, Solar, SolarCommands
  <2>4. solarBus' \in Seq(SolarCommands) /\ losses' \in BOOLEAN /\ toPipe' = toPipe
    BY <2>1, <2>3 DEF PublishReading, PublishSolar, EnableOutput, Typed, busVars
  <2> QED
    BY <1>3, <1>m, <2>2, <2>4 DEF CiLab, Typed, groundVars
<1>4. CASE RadRuns
  BY <1>4, RadRunsTyped
<1>5. CASE ToLab
  <2>1. Tail(toPipe) \in Seq(Rad!Msgs \union {Rad!NoMsg})
    BY <1>5, HeadTailProperties DEF ToLab, Typed
  <2> QED
    BY <1>5, <1>m, <2>1 DEF ToLab, Typed, groundVars, boundVars
<1>6. CASE RestartFlight
  <2>1. toPipe' \in Seq(Rad!Msgs \union {Rad!NoMsg})
    BY <1>6, EmptySeq DEF RestartFlight, Typed
  <2> QED
    BY <1>6, <1>m, <2>1 DEF RestartFlight, Typed, netVars, groundVars, boundVars
<1>7. CASE GroundReceive
  <2>1. PICK p \in downlink : Take(p, downlink, downlink')
    BY <1>7 DEF GroundReceive
  <2>2. dups' \in Nat
    BY <2>1, TakenPackets
  <2> QED
    BY <1>7, <1>m, <2>2 DEF GroundReceive, Typed, busVars
<1>8. CASE PressSolar
  BY <1>8, <1>m DEF PressSolar, Typed, SolarPacket, Kinds, busVars
<1>9. CASE UpdateStatus
  BY <1>9, <1>m DEF UpdateStatus, Typed, busVars, netVars, boundVars
<1>10. CASE PressEnable
  BY <1>10, <1>m DEF PressEnable, Typed, EnablePacket, Kinds, busVars, groundVars
<1>11. CASE UNCHANGED vars
  BY <1>11, <1>m DEF vars, Typed, busVars, netVars, groundVars, boundVars
<1> QED
  BY <1>1, <1>2, <1>3, <1>4, <1>5, <1>6, <1>7, <1>8, <1>9, <1>10, <1>11 DEF Next

(* RAD_APP's types, and those of the rest.                                  *)
AllTyped == RadTyped /\ Typed

LEMMA InitAllTyped == Init => AllTyped
<1> SUFFICES ASSUME Init PROVE AllTyped
  OBVIOUS
<1>1. toPipe \in Seq(Rad!Msgs \union {Rad!NoMsg}) /\ solarBus \in Seq(SolarCommands)
  BY EmptySeq DEF Init
<1>2. losses \in BOOLEAN /\ raced \in BOOLEAN /\ opPc = "idle" /\ dups \in Nat
  BY DEF Init
<1>3. \A p \in uplink : p.kind \in Kinds
  BY DEF Init, EnablePacket, Kinds
<1>4. Typed
  BY <1>1, <1>2, <1>3 DEF Typed
<1> QED
  BY <1>4, InitRadTyped DEF AllTyped

LEMMA NextAllTyped == AllTyped /\ [Next]_vars => AllTyped'
BY NextTyped, RadTypedInNext, RadInMission DEF AllTyped

-----------------------------------------------------------------------------
(* TO_LAB's pipe, and the bus, after one more message.                      *)
LEMMA WaitingAfterAppend ==
  ASSUME Typed, NEW m \in Rad!Msgs \union {Rad!NoMsg}, toPipe' = Append(toPipe, m)
  PROVE  Waiting' = Waiting \union {m} /\ toPipe' # toPipe
<1>1. toPipe \in Seq(Rad!Msgs \union {Rad!NoMsg})
  BY DEF Typed
<1>2. /\ Len(toPipe) \in Nat /\ DOMAIN toPipe = 1..Len(toPipe)
      /\ DOMAIN toPipe' = 1..(Len(toPipe) + 1) /\ Len(toPipe') = Len(toPipe) + 1
      /\ \A k \in 1..Len(toPipe) : toPipe'[k] = toPipe[k]
      /\ toPipe'[Len(toPipe) + 1] = m
  BY <1>1, AppendProperties, LenProperties
<1>3. 1..(Len(toPipe) + 1) = 1..Len(toPipe) \union {Len(toPipe) + 1}
  BY <1>2
<1>4. Len(toPipe') # Len(toPipe)
  <2>1. \A n \in Nat : n + 1 # n
    OBVIOUS
  <2> QED
    BY <1>2, <2>1
<1>5. Waiting' = {toPipe'[k] : k \in 1..Len(toPipe) \union {Len(toPipe) + 1}}
  BY <1>2, <1>3 DEF Waiting
<1>6. Waiting' = {toPipe'[k] : k \in 1..Len(toPipe)} \union {toPipe'[Len(toPipe) + 1]}
  BY <1>5
<1>7. {toPipe'[k] : k \in 1..Len(toPipe)} = Waiting
  BY <1>2 DEF Waiting
<1> QED
  BY <1>2, <1>4, <1>6, <1>7

LEMMA WaitingAfterTail ==
  ASSUME Typed, toPipe # <<>>, toPipe' = Tail(toPipe)
  PROVE  Waiting = Waiting' \union {Head(toPipe)}
<1>1. toPipe \in Seq(Rad!Msgs \union {Rad!NoMsg})
  BY DEF Typed
<1>2. /\ Len(toPipe) \in Nat \ {0} /\ DOMAIN toPipe = 1..Len(toPipe)
      /\ DOMAIN toPipe' = 1..(Len(toPipe) - 1)
      /\ \A k \in 1..(Len(toPipe) - 1) : toPipe'[k] = toPipe[k + 1]
      /\ Head(toPipe) = toPipe[1]
  BY <1>1, HeadTailProperties, LenProperties, EmptySeq
<1>3. \A m \in Waiting : m \in Waiting' \union {Head(toPipe)}
  <2> SUFFICES ASSUME NEW k \in DOMAIN toPipe PROVE toPipe[k] \in Waiting' \union {Head(toPipe)}
    BY DEF Waiting
  <2>1. CASE k = 1
    BY <2>1, <1>2
  <2>2. CASE k # 1
    <3>1. k - 1 \in 1..(Len(toPipe) - 1) /\ (k - 1) + 1 = k
      BY <2>2, <1>2
    <3> QED
      BY <3>1, <1>2 DEF Waiting
  <2> QED
    BY <2>1, <2>2
<1>4. \A m \in Waiting' : m \in Waiting
  <2> SUFFICES ASSUME NEW k \in DOMAIN toPipe' PROVE toPipe'[k] \in Waiting
    BY DEF Waiting
  <2>1. k \in 1..(Len(toPipe) - 1) /\ k + 1 \in DOMAIN toPipe
    BY <1>2
  <2> QED
    BY <2>1, <1>2 DEF Waiting
<1>5. Head(toPipe) \in Waiting
  BY <1>2 DEF Waiting
<1> QED
  BY <1>3, <1>4, <1>5

LEMMA BusAfterAppend ==
  ASSUME Typed, NEW k \in {"open", "close"}, NEW m \in Rad!Msgs \union {Rad!NoMsg},
         solarBus' = Append(solarBus, Solar(k, m))
  PROVE  /\ LastIs(k)'
         /\ AutoCloses \subseteq AutoCloses'
         /\ k = "close" => m \in AutoCloses'
<1>c. Solar(k, m) \in SolarCommands /\ Solar(k, m).kind = k /\ Solar(k, m).reading = m
  BY DEF Solar, SolarCommands
<1>1. /\ Len(solarBus) \in Nat /\ DOMAIN solarBus = 1..Len(solarBus)
      /\ DOMAIN solarBus' = 1..(Len(solarBus) + 1) /\ Len(solarBus') = Len(solarBus) + 1
      /\ \A j \in 1..Len(solarBus) : solarBus'[j] = solarBus[j]
      /\ solarBus'[Len(solarBus) + 1] = Solar(k, m)
  BY <1>c, AppendProperties, LenProperties DEF Typed
<1>2. solarBus' # <<>>
  BY <1>1
<1>3. Len(solarBus) + 1 \in DOMAIN solarBus' /\ DOMAIN solarBus \subseteq DOMAIN solarBus'
  BY <1>1
<1>4. AutoCloses \subseteq AutoCloses'
  BY <1>1, <1>3 DEF AutoCloses
<1>5. k = "close" => m \in AutoCloses'
  BY <1>c, <1>1, <1>3 DEF AutoCloses
<1> QED
  BY <1>c, <1>1, <1>2, <1>4, <1>5 DEF LastIs

-----------------------------------------------------------------------------
(* An auto-close that is reported was commanded.                            *)
Safe == ByHealth /\ Backed /\ OnTheBus

LEMMA OthersKeepCalls ==
  ASSUME [Next]_vars, ~RadRuns
  PROVE  UNCHANGED calls /\ (UNCHANGED <<pc, msg>> \/ pc' \notin Busy)
BY DEF vars, Next, SendReading, Lose, CiLab, PublishReading, PublishSolar, EnableOutput, ToLab, RestartFlight,
       GroundReceive, PressSolar, UpdateStatus, PressEnable, radVars, Rad!Publish, Rad!appVars, Rad!Restart, Busy

(* The calls, and the classification of the command in hand.                *)
LEMMA RadKeepsByHealth ==
  ASSUME AllTyped, ByHealth, RadRuns
  PROVE  ByHealth' /\ Closed \subseteq Closed'
<1>s. RadTyped
  BY DEF AllTyped
<1>1. CASE Idles
  BY <1>1, <1>s, SilentSends DEF Idles, ByHealth, Busy
<1>2. CASE Takes
  BY <1>2, <1>s, SilentSends DEF Takes, ByHealth
<1>3. CASE Classifies
  BY <1>3, <1>s, SilentSends DEF Classifies, ByHealth, Crit, Rad!HealthOf, Rad!RAD_LIMIT, Rad!RAD_WARNING
<1>4. CASE Rad!Call("initEvent", "initTlm", "runLoop")
  <2>1. pc' = "runLoop" /\ Closed' = Closed
    BY <1>4, <1>s, CallSends DEF Rad!CallKinds
  <2> QED
    BY <2>1 DEF ByHealth
<1>5. CASE Rad!Call("solarClose", "solarClose", "fdirEvent")
  <2>1. pc = "solarClose" /\ pc' = "fdirEvent" /\ msg' = msg /\ Closed' = Closed \union {msg}
    BY <1>5, <1>s, CallSends DEF Rad!CallKinds
  <2> QED
    BY <2>1 DEF ByHealth, Crit, Rad!HealthOf, Rad!RAD_LIMIT, Rad!RAD_WARNING
<1>6. CASE Rad!Call("fdirEvent", "fdirEvent", "sendTlm")
  <2>1. pc = "fdirEvent" /\ pc' = "sendTlm" /\ msg' = msg /\ Closed' = Closed
    BY <1>6, <1>s, CallSends DEF Rad!CallKinds
  <2> QED
    BY <2>1 DEF ByHealth
<1>7. CASE Rad!Call("warnEvent", "warnEvent", "sendTlm")
  <2>1. pc = "warnEvent" /\ pc' = "sendTlm" /\ msg' = msg /\ Closed' = Closed
    BY <1>7, <1>s, CallSends DEF Rad!CallKinds
  <2> QED
    BY <2>1 DEF ByHealth, Crit, Rad!HealthOf, Rad!RAD_LIMIT, Rad!RAD_WARNING
<1>8. CASE Rad!Call("tlm", "sendTlm", "infEvent")
  <2>1. pc' = "infEvent" /\ Closed' = Closed
    BY <1>8, <1>s, CallSends DEF Rad!CallKinds
  <2> QED
    BY <2>1 DEF ByHealth
<1>9. CASE Rad!Call("infEvent", "infEvent", "runLoop")
  <2>1. pc' = "runLoop" /\ Closed' = Closed
    BY <1>9, <1>s, CallSends DEF Rad!CallKinds
  <2> QED
    BY <2>1 DEF ByHealth
<1> QED
  BY <1>1, <1>2, <1>3, <1>4, <1>5, <1>6, <1>7, <1>8, <1>9, RadStep DEF RadRuns

LEMMA NextByHealth ==
  ASSUME AllTyped, ByHealth, [Next]_vars
  PROVE  ByHealth' /\ Closed \subseteq Closed'
<1>1. CASE RadRuns
  BY <1>1, RadKeepsByHealth
<1>2. CASE ~RadRuns
  <2>1. Closed' = Closed
    BY <1>2, OthersKeepCalls, SilentSends DEF AllTyped
  <2>2. UNCHANGED <<pc, msg>> \/ pc' \notin Busy
    BY <1>2, OthersKeepCalls
  <2> QED
    BY <2>1, <2>2 DEF ByHealth, Busy, Crit, Rad!HealthOf, Rad!RAD_LIMIT, Rad!RAD_WARNING
<1> QED
  BY <1>1, <1>2

(* RAD_APP's own steps: its telemetry is backed by the close call before it,*)
(* and a close command reaches the bus, or its transmission failed.         *)
LEMMA RadDelivers ==
  ASSUME AllTyped, ByHealth, RadRuns
  PROVE  /\ \A m \in Waiting' : m \in Waiting \/ (Crit(m) => m \in Closed')
         /\ OnTheBus => OnTheBus'
<1>s. RadTyped /\ Typed /\ msg \in Rad!Msgs \union {Rad!NoMsg}
  BY DEF AllTyped, RadTyped, Rad!TypeOK
<1>1. CASE Closed' = Closed /\ Unsent \subseteq Unsent' /\ Transmitted \notin {"tlm", "solarClose"}
  <2>1. toPipe' = toPipe /\ solarBus' = solarBus
    BY <1>1 DEF RadRuns
  <2> QED
    BY <1>1, <2>1 DEF Waiting, OnTheBus, AutoCloses
<1>2. CASE Rad!Call("solarClose", "solarClose", "fdirEvent")
  <2>1. /\ Transmitted \in {"solarClose", "nothing"}
        /\ Closed' = Closed \union {msg}
        /\ Unsent \subseteq Unsent'
        /\ Transmitted = "solarClose" \/ msg \in Unsent'
    BY <1>2, <1>s, CallSends DEF Rad!CallKinds
  <2>2. toPipe' = toPipe
    BY <2>1 DEF RadRuns
  <2>3. Waiting' = Waiting
    BY <2>2 DEF Waiting
  <2>4. CASE Transmitted = "solarClose"
    <3>1. solarBus' = Append(solarBus, Solar("close", msg))
      BY <2>4 DEF RadRuns
    <3>2. AutoCloses \subseteq AutoCloses' /\ msg \in AutoCloses'
      BY <3>1, <1>s, BusAfterAppend
    <3> QED
      BY <3>2, <2>1, <2>3 DEF OnTheBus
  <2>5. CASE Transmitted = "nothing"
    <3>1. solarBus' = solarBus /\ msg \in Unsent'
      BY <2>1, <2>5 DEF RadRuns
    <3> QED
      BY <3>1, <2>1, <2>3 DEF OnTheBus, AutoCloses
  <2> QED
    BY <2>1, <2>4, <2>5
<1>3. CASE Rad!Call("tlm", "sendTlm", "infEvent")
  <2>1. /\ pc = "sendTlm" /\ Closed' = Closed /\ Unsent \subseteq Unsent'
        /\ Transmitted \in {"tlm", "nothing"}
    BY <1>3, <1>s, CallSends DEF Rad!CallKinds
  <2>2. solarBus' = solarBus /\ (toPipe' = toPipe \/ toPipe' = Append(toPipe, msg))
    BY <2>1 DEF RadRuns
  <2>3. Waiting' \subseteq Waiting \union {msg}
    <3>1. CASE toPipe' = toPipe
      BY <3>1 DEF Waiting
    <3>2. CASE toPipe' = Append(toPipe, msg)
      BY <3>2, <1>s, WaitingAfterAppend
    <3> QED
      BY <2>2, <3>1, <3>2
  <2>4. Crit(msg) => msg \in Closed'
    BY <2>1 DEF ByHealth
  <2> QED
    BY <2>1, <2>2, <2>3, <2>4 DEF OnTheBus, AutoCloses
<1>4. CASE Idles \/ Takes \/ Classifies
  BY <1>1, <1>4, <1>s, SilentSends DEF Idles, Takes, Classifies
<1>5. CASE Rad!Call("initEvent", "initTlm", "runLoop")
  BY <1>1, <1>5, <1>s, CallSends DEF Rad!CallKinds
<1>6. CASE Rad!Call("fdirEvent", "fdirEvent", "sendTlm")
  BY <1>1, <1>6, <1>s, CallSends DEF Rad!CallKinds
<1>7. CASE Rad!Call("warnEvent", "warnEvent", "sendTlm")
  BY <1>1, <1>7, <1>s, CallSends DEF Rad!CallKinds
<1>8. CASE Rad!Call("infEvent", "infEvent", "runLoop")
  BY <1>1, <1>8, <1>s, CallSends DEF Rad!CallKinds
<1> QED
  BY <1>2, <1>3, <1>4, <1>5, <1>6, <1>7, <1>8, RadStep DEF RadRuns

LEMMA NextBacked ==
  ASSUME AllTyped, ByHealth, Backed, OnTheBus, [Next]_vars
  PROVE  Backed' /\ OnTheBus'
<1>g. Closed \subseteq Closed'
  BY NextByHealth
<1>t. Typed
  BY DEF AllTyped
<1>1. ASSUME UNCHANGED <<solarBus, Closed, Unsent>> PROVE OnTheBus'
  BY <1>1 DEF OnTheBus, AutoCloses
<1>2. ASSUME Waiting' \subseteq Waiting, downlink' \subseteq downlink, UNCHANGED <<solar_array_status, fdirLog>>
      PROVE  Backed'
  BY <1>2, <1>g DEF Backed, Crit, Rad!HealthOf, Rad!RAD_LIMIT, Rad!RAD_WARNING
<1>3. CASE RadRuns
  <2>1. Backed'
    BY <1>3, <1>g, RadDelivers DEF RadRuns, netVars, groundVars, Backed, Crit, Rad!HealthOf, Rad!RAD_LIMIT, Rad!RAD_WARNING
  <2>2. OnTheBus'
    BY <1>3, RadDelivers
  <2> QED
    BY <2>1, <2>2
<1>4. CASE ~RadRuns
  <2>s. Closed' = Closed /\ Unsent' = Unsent
    BY <1>4, OthersKeepCalls, SilentSends DEF AllTyped
  <2>1. CASE SendReading
    BY <2>1, <2>s, <1>1, <1>2 DEF SendReading, busVars, groundVars, Waiting
  <2>2. CASE Lose
    BY <2>2, <2>s, <1>1, <1>2 DEF Lose, busVars, groundVars, Waiting
  <2>3. CASE CiLab
    <3>1. PICK p \in uplink :
            \/ p.kind = "reading" /\ PublishReading(p)
            \/ p.kind \in {"open", "close"} /\ PublishSolar(p)
            \/ p.kind = "enable" /\ EnableOutput
      BY <2>3 DEF CiLab
    <3>2. UNCHANGED <<toPipe, downlink, solar_array_status, fdirLog>>
      BY <2>3, <3>1 DEF CiLab, PublishReading, PublishSolar, EnableOutput, busVars, groundVars
    <3>3. CASE solarBus' = solarBus
      BY <3>2, <3>3, <2>s, <1>1, <1>2 DEF Waiting
    <3>4. CASE p.kind \in {"open", "close"} /\ solarBus' = Append(solarBus, Solar(p.kind, Rad!NoMsg))
      <4>1. AutoCloses \subseteq AutoCloses'
        BY <3>4, <1>t, BusAfterAppend
      <4> QED
        BY <4>1, <3>2, <2>s, <1>2 DEF Waiting, OnTheBus
    <3> QED
      BY <3>1, <3>3, <3>4 DEF PublishReading, PublishSolar, EnableOutput, busVars
  <2>4. CASE ToLab
    <3>1. Waiting = Waiting' \union {Head(toPipe)}
      BY <2>4, <1>t, WaitingAfterTail DEF ToLab
    <3>2. downlink' \subseteq downlink \union {Head(toPipe)}
      BY <2>4 DEF ToLab
    <3>3. UNCHANGED <<solarBus, solar_array_status, fdirLog>>
      BY <2>4 DEF ToLab, groundVars
    <3> QED
      BY <3>1, <3>2, <3>3, <2>s, <1>1 DEF Backed, Crit, Rad!HealthOf, Rad!RAD_LIMIT, Rad!RAD_WARNING
  <2>5. CASE RestartFlight
    <3>1. Waiting' \subseteq Waiting
      BY <2>5 DEF RestartFlight, Waiting
    <3> QED
      BY <2>5, <3>1, <2>s, <1>1, <1>2 DEF RestartFlight, netVars, groundVars
  <2>6. CASE GroundReceive
    <3>1. PICK p \in downlink :
            /\ Take(p, downlink, downlink')
            /\ IF Crit(p)
                 THEN solar_array_status' = ClosedByFdir /\ fdirLog' = fdirLog \union {p}
                 ELSE UNCHANGED <<solar_array_status, fdirLog>>
      BY <2>6 DEF GroundReceive, Crit, AfterCritical
    <3>2. downlink' \subseteq downlink /\ UNCHANGED <<solarBus, toPipe>>
      BY <2>6, <3>1, <1>t, TakenPackets DEF GroundReceive, busVars
    <3>3. CASE Crit(p)
      BY <3>1, <3>2, <3>3, <2>s, <1>1 DEF Backed, Waiting, Crit, Rad!HealthOf, Rad!RAD_LIMIT, Rad!RAD_WARNING
    <3>4. CASE ~Crit(p)
      BY <3>1, <3>2, <3>4, <2>s, <1>1, <1>2 DEF Waiting
    <3> QED
      BY <3>3, <3>4
  <2>7. CASE PressSolar
    BY <2>7, <2>s, <1>1, <1>2 DEF PressSolar, busVars, Waiting
  <2>8. CASE UpdateStatus
    <3>1. solar_array_status' # ClosedByFdir
      BY <2>8 DEF UpdateStatus, ClosedByFdir, ClosedByOperator, OpenByOperator
    <3> QED
      BY <2>8, <3>1, <2>s, <1>1 DEF UpdateStatus, busVars, netVars, Backed, Waiting, ClosedByFdir,
         Crit, Rad!HealthOf, Rad!RAD_LIMIT, Rad!RAD_WARNING
  <2>9. CASE PressEnable
    BY <2>9, <2>s, <1>1, <1>2 DEF PressEnable, busVars, groundVars, Waiting
  <2>10. CASE UNCHANGED vars
    BY <2>10, <2>s, <1>1, <1>2 DEF vars, busVars, netVars, groundVars, Waiting
  <2> QED
    BY <1>4, <2>1, <2>2, <2>3, <2>4, <2>5, <2>6, <2>7, <2>8, <2>9, <2>10 DEF Next
<1> QED
  BY <1>3, <1>4

LEMMA InitSafe == Init => Safe
<1> SUFFICES ASSUME Init PROVE Safe
  OBVIOUS
<1>1. calls = <<>> /\ pc = "register" /\ toPipe = <<>> /\ solarBus = <<>>
  BY DEF Init, Rad!Init
<1>2. Closed = {} /\ Waiting = {}
  BY <1>1 DEF Closed, Rad!ReadingsOf, Rad!CallsOf, Waiting
<1>3. downlink = {} /\ fdirLog = {} /\ solar_array_status # ClosedByFdir
  BY DEF Init, ClosedByFdir
<1> QED
  BY <1>1, <1>2, <1>3 DEF Safe, ByHealth, Backed, OnTheBus

LEMMA NextSafe == AllTyped /\ Safe /\ [Next]_vars => (AllTyped /\ Safe)'
BY NextAllTyped, NextByHealth, NextBacked DEF Safe

(* Whatever is lost, duplicated, reordered or restarted, and whichever      *)
(* transmissions fail: the close command of a reading that the ground       *)
(* station logged as an auto-close is on the bus, unless the transmission   *)
(* of that very command failed; and "Closed (FDIR Auto)" is shown only with *)
(* such a reading (rad_app.c:94-117, processor.py:101-106).                 *)
THEOREM AutoCloseIsReal == Spec => []AutoCloseWasCommandedUnlessUnsent
<1>1. Safe => AutoCloseWasCommandedUnlessUnsent
  BY DEF Safe, Backed, OnTheBus, AutoCloseWasCommandedUnlessUnsent
<1> QED
  BY <1>1, InitAllTyped, InitSafe, NextSafe, PTL DEF Spec

-----------------------------------------------------------------------------
(* The status is that of the last command.                                  *)

(* A failed transmission stays one.                                         *)
LEMMA UnsentGrows ==
  ASSUME AllTyped, [Next]_vars
  PROVE  Unsent \subseteq Unsent'
<1>s. RadTyped
  BY DEF AllTyped
<1>1. CASE RadRuns
  <2>1. CASE Idles \/ Takes \/ Classifies
    BY <2>1, <1>s, SilentSends DEF Idles, Takes, Classifies
  <2>2. CASE Rad!Call("initEvent", "initTlm", "runLoop")
    BY <2>2, <1>s, CallSends DEF Rad!CallKinds
  <2>3. CASE Rad!Call("solarClose", "solarClose", "fdirEvent")
    BY <2>3, <1>s, CallSends DEF Rad!CallKinds
  <2>4. CASE Rad!Call("fdirEvent", "fdirEvent", "sendTlm")
    BY <2>4, <1>s, CallSends DEF Rad!CallKinds
  <2>5. CASE Rad!Call("warnEvent", "warnEvent", "sendTlm")
    BY <2>5, <1>s, CallSends DEF Rad!CallKinds
  <2>6. CASE Rad!Call("tlm", "sendTlm", "infEvent")
    BY <2>6, <1>s, CallSends DEF Rad!CallKinds
  <2>7. CASE Rad!Call("infEvent", "infEvent", "runLoop")
    BY <2>7, <1>s, CallSends DEF Rad!CallKinds
  <2> QED
    BY <1>1, <2>1, <2>2, <2>3, <2>4, <2>5, <2>6, <2>7, RadStep DEF RadRuns
<1>2. CASE ~RadRuns
  BY <1>2, <1>s, OthersKeepCalls, SilentSends
<1> QED
  BY <1>1, <1>2

LEMMA CalmBefore ==
  ASSUME AllTyped, [Next]_vars, Calm'
  PROVE  Calm
<1>t. Typed
  BY DEF AllTyped
<1>u. Unsent' = {} /\ Unsent = {}
  BY UnsentGrows DEF Calm
<1>1. CASE SendReading \/ Lose \/ PressSolar \/ PressEnable \/ UpdateStatus
  <2>1. (raced => raced') /\ (losses => losses') /\ dups' = dups
    <3>1. CASE SendReading
      BY <3>1, ZenonT(30) DEF SendReading
    <3>2. CASE Lose
      BY <3>2, ZenonT(30) DEF Lose, boundVars
    <3>3. CASE PressSolar
      BY <3>3, ZenonT(30) DEF PressSolar
    <3>4. CASE PressEnable \/ UpdateStatus
      BY <3>4 DEF PressEnable, UpdateStatus, boundVars
    <3> QED
      BY <1>1, <3>1, <3>2, <3>3, <3>4
  <2> QED
    BY <1>u, <2>1 DEF Calm
<1>2. CASE CiLab
  <2>1. dups = 0
    <3>1. PICK p : Take(p, uplink, uplink')
      BY <1>2 DEF CiLab
    <3> QED
      BY <3>1, <1>t, TakenPackets DEF Calm
  <2>2. losses => losses'
    BY <1>2 DEF CiLab, PublishReading, PublishSolar, EnableOutput
  <2> QED
    BY <1>2, <1>u, <2>1, <2>2 DEF CiLab, Calm
<1>3. CASE RadRuns \/ ToLab \/ RestartFlight
  <2>1. (raced => raced') /\ (losses => losses') /\ dups' = dups
    <3>1. CASE RadRuns
      BY <3>1, ZenonT(30) DEF RadRuns, boundVars
    <3>2. CASE ToLab
      BY <3>2, ZenonT(30) DEF ToLab, boundVars
    <3>3. CASE RestartFlight
      BY <3>3, ZenonT(30) DEF RestartFlight, boundVars
    <3> QED
      BY <1>3, <3>1, <3>2, <3>3
  <2> QED
    BY <1>u, <2>1 DEF Calm
<1>4. CASE GroundReceive
  <2>1. PICK p : Take(p, downlink, downlink')
    BY <1>4 DEF GroundReceive
  <2>2. dups = 0
    BY <2>1, <1>t, TakenPackets DEF Calm
  <2> QED
    BY <1>4, <1>u, <2>2 DEF GroundReceive, Calm
<1>5. CASE UNCHANGED vars
  BY <1>5, <1>u DEF vars, boundVars, Calm
<1> QED
  BY <1>1, <1>2, <1>3, <1>4, <1>5 DEF Next

LEMMA StaysSettled ==
  ASSUME Settled, UNCHANGED <<solarBus, solar_array_status>>, PendingCritical' <=> PendingCritical
  PROVE  Settled'
BY DEF Settled, LastIs, Shows

(* A step that leaves the packets of the operator, his button and the       *)
(* displayed status alone.                                                  *)
LEMMA StaysTracking ==
  ASSUME Tracking, UNCHANGED <<Solars, opPc, solarBus, solar_array_status>>, Solars \subseteq uplink',
         OperatorBusy => NoReading', PendingCritical' <=> PendingCritical
  PROVE  Tracking'
<1>1. OperatorBusy' <=> OperatorBusy
  BY DEF OperatorBusy
<1>2. ~OperatorBusy' => Settled'
  BY <1>1, StaysSettled DEF Tracking
<1>3. opPc' # "idle" => \/ \E p \in uplink' : Solars' = {p} /\ p.kind = opPc'
                        \/ Solars' = {} /\ LastIs(opPc)'
  BY DEF Tracking, LastIs
<1>4. opPc' = "idle" /\ Solars' # {} =>
       \E p \in uplink' : Solars' = {p} /\ solar_array_status' \in Shows(p.kind)
  BY DEF Tracking
<1> QED
  BY <1>1, <1>2, <1>3, <1>4 DEF Tracking, Shows

LEMMA SendReadingTracks ==
  ASSUME AllTyped, Calm, Calm', Tracking, SendReading
  PROVE  Tracking'
<1>1. PICK l \in Levels : uplink' = uplink \union {ReadingPacket(l)}
  BY DEF SendReading
<1>2. ~OperatorBusy
  BY DEF SendReading, Calm, OperatorBusy, Solars
<1>3. Solars' = Solars /\ Solars \subseteq uplink'
  BY <1>1 DEF Solars, ReadingPacket
<1>4. PendingCritical' <=> PendingCritical
  BY DEF SendReading, radVars, busVars, PendingCritical, Waiting, Crit, Rad!HealthOf, Rad!RAD_LIMIT, Rad!RAD_WARNING
<1> QED
  BY <1>2, <1>3, <1>4, StaysTracking DEF SendReading, busVars, groundVars

LEMMA CiLabTracks ==
  ASSUME AllTyped, Calm, Calm', Tracking, CiLab
  PROVE  Tracking'
<1>1. PICK p \in uplink :
        /\ Take(p, uplink, uplink')
        /\ \/ p.kind = "reading" /\ PublishReading(p)
           \/ p.kind \in {"open", "close"} /\ PublishSolar(p)
           \/ p.kind = "enable" /\ EnableOutput
  BY DEF CiLab
<1>2. uplink' = uplink \ {p}
  BY <1>1, TakenPackets DEF AllTyped, Calm
<1>3. /\ UNCHANGED <<pc, msg, toPipe, downlink, opPc, solar_array_status>>
      /\ PendingCritical' <=> PendingCritical
  <2>1. UNCHANGED <<pc, msg, toPipe, downlink, opPc, solar_array_status>>
    BY <1>1 DEF CiLab, PublishReading, PublishSolar, EnableOutput, Rad!Publish, Rad!appVars, radVars, busVars, groundVars
  <2> QED
    BY <2>1 DEF PendingCritical, Waiting, Crit, Rad!HealthOf, Rad!RAD_LIMIT, Rad!RAD_WARNING
<1>4. CASE p.kind = "reading" /\ PublishReading(p)
  <2>1. ~OperatorBusy
    BY <1>4 DEF Tracking, NoReading
  <2>2. Solars' = Solars /\ Solars \subseteq uplink'
    BY <1>2, <1>4 DEF Solars
  <2> QED
    BY <1>3, <1>4, <2>1, <2>2, StaysTracking DEF PublishReading, busVars
<1>5. CASE p.kind = "enable" /\ EnableOutput
  <2>1. Solars' = Solars /\ Solars \subseteq uplink'
    BY <1>2, <1>5 DEF Solars
  <2>2. NoReading => NoReading'
    BY <1>2, <1>3, <1>5 DEF NoReading, EnableOutput, radVars, Busy
  <2> QED
    BY <1>3, <1>5, <2>1, <2>2, StaysTracking DEF EnableOutput, Tracking
<1>6. CASE p.kind \in {"open", "close"} /\ PublishSolar(p)
  <2>1. Solars = {p} /\ Solars' = {} /\ OperatorBusy /\ NoReading
    <3>1. p \in Solars
      BY <1>6 DEF Solars
    <3>2. OperatorBusy
      BY <3>1 DEF OperatorBusy
    <3>3. Solars = {p}
      BY <3>1 DEF Tracking
    <3> QED
      BY <1>2, <3>2, <3>3 DEF Solars, Tracking
  <2>2. LastIs(p.kind)'
    <3>1. solarBus' = Append(solarBus, Solar(p.kind, Rad!NoMsg))
      BY <1>6 DEF PublishSolar
    <3> QED
      BY <3>1, <1>6, BusAfterAppend DEF AllTyped
  <2>3. NoReading' /\ ~PendingCritical'
    <3>1. UNCHANGED pipe
      BY <1>6 DEF PublishSolar, radVars
    <3>2. NoReading'
      BY <3>1, <2>1, <1>2, <1>3 DEF NoReading, Busy
    <3>3. Waiting' = {} /\ downlink' = {} /\ pc' \notin Busy
      BY <3>2 DEF NoReading, Waiting, Busy
    <3> QED
      BY <3>2, <3>3 DEF PendingCritical, Busy
  <2>4. CASE opPc # "idle"
    <3>1. p.kind = opPc
      BY <2>1, <2>4 DEF Tracking
    <3>2. opPc' # "idle" /\ LastIs(opPc)'
      BY <3>1, <2>2, <2>4, <1>3 DEF LastIs
    <3> QED
      BY <3>2, <2>1, <2>3 DEF Tracking, OperatorBusy
  <2>5. CASE opPc = "idle"
    <3>1. solar_array_status' \in Shows(p.kind)
      BY <2>1, <2>5, <1>3 DEF Tracking
    <3>2. Settled'
      BY <3>1, <2>2, <2>3, <1>6 DEF Settled, LastIs, Shows
    <3> QED
      BY <3>2, <2>1, <2>5, <1>3 DEF Tracking, OperatorBusy
  <2> QED
    BY <2>4, <2>5
<1> QED
  BY <1>1, <1>4, <1>5, <1>6

(* A step of RAD_APP when no reading is under way moves about, or reports   *)
(* its start or the end of its processing.                                  *)
LEMMA RadRunsQuietly ==
  ASSUME AllTyped, NoReading, RadRuns
  PROVE  NoReading' /\ UNCHANGED solarBus
<1>s. RadTyped
  BY DEF AllTyped
<1>1. pipe' = <<>> /\ pc' \notin Busy /\ Transmitted \in {"nothing", "initEvent", "infEvent"}
  <2>1. CASE Idles
    BY <2>1, <1>s, SilentSends DEF Idles, NoReading
  <2>2. CASE Rad!Call("initEvent", "initTlm", "runLoop")
    <3>1. pc' = "runLoop" /\ pipe' = pipe /\ Transmitted \in {"initEvent", "nothing"}
      BY <2>2, <1>s, CallSends DEF Rad!CallKinds
    <3> QED
      BY <3>1 DEF NoReading, Busy
  <2>3. CASE Rad!Call("infEvent", "infEvent", "runLoop")
    <3>1. pc' = "runLoop" /\ pipe' = pipe /\ Transmitted \in {"infEvent", "nothing"}
      BY <2>3, <1>s, CallSends DEF Rad!CallKinds
    <3> QED
      BY <3>1 DEF NoReading, Busy
  <2>4. ~Takes /\ ~Classifies
    BY DEF Takes, Classifies, NoReading, Busy
  <2>5. /\ ~Rad!Call("solarClose", "solarClose", "fdirEvent")
        /\ ~Rad!Call("fdirEvent", "fdirEvent", "sendTlm")
        /\ ~Rad!Call("warnEvent", "warnEvent", "sendTlm")
        /\ ~Rad!Call("tlm", "sendTlm", "infEvent")
    BY DEF NoReading, Busy, Rad!Call
  <2> QED
    BY <2>1, <2>2, <2>3, <2>4, <2>5, RadStep DEF RadRuns
<1>2. UNCHANGED <<solarBus, toPipe, uplink, downlink>>
  BY <1>1 DEF RadRuns, netVars
<1> QED
  BY <1>1, <1>2 DEF NoReading, Busy

(* Otherwise its step keeps the status settled: the close command makes     *)
(* "closed" the last command and the critical reading pending, and the      *)
(* reading stays pending from there through TO_LAB's pipe.                  *)
LEMMA RadRunsSettled ==
  ASSUME AllTyped, ByHealth, Calm, Calm', Settled, RadRuns
  PROVE  Settled'
<1>s. RadTyped /\ Typed /\ msg \in Rad!Msgs \union {Rad!NoMsg}
  BY DEF AllTyped, RadTyped, Rad!TypeOK
<1>u. UNCHANGED <<downlink, solar_array_status>>
  BY DEF RadRuns, netVars, groundVars
<1>1. ASSUME UNCHANGED <<solarBus, Waiting>>,
             pc' \in {"fdirEvent", "sendTlm"} /\ Crit(msg') <=> pc \in {"fdirEvent", "sendTlm"} /\ Crit(msg)
      PROVE  Settled'
  <2>1. PendingCritical' <=> PendingCritical
    BY <1>1, <1>u DEF PendingCritical, Crit, Rad!HealthOf, Rad!RAD_LIMIT, Rad!RAD_WARNING
  <2> QED
    BY <1>1, <1>u, <2>1, StaysSettled
<1>2. ASSUME Transmitted \notin {"tlm", "solarClose"} PROVE UNCHANGED <<solarBus, Waiting>>
  BY <1>2 DEF RadRuns, Waiting
<1>3. CASE Idles
  <2>1. UNCHANGED <<solarBus, Waiting>>
    BY <1>2, <1>3, <1>s, SilentSends DEF Idles
  <2> QED
    BY <1>1, <1>3, <2>1 DEF Idles, Busy
<1>4. CASE Takes
  <2>1. UNCHANGED <<solarBus, Waiting>>
    BY <1>2, <1>4, <1>s, SilentSends DEF Takes
  <2> QED
    BY <1>1, <1>4, <2>1 DEF Takes
<1>5. CASE Classifies
  <2>1. UNCHANGED <<solarBus, Waiting>>
    BY <1>2, <1>5, <1>s, SilentSends DEF Classifies
  <2> QED
    BY <1>1, <1>5, <2>1 DEF Classifies
<1>6. CASE Rad!Call("initEvent", "initTlm", "runLoop")
  <2>1. pc = "initTlm" /\ pc' = "runLoop" /\ Transmitted \in {"initEvent", "nothing"}
    BY <1>6, <1>s, CallSends DEF Rad!CallKinds
  <2> QED
    BY <1>1, <1>2, <2>1
<1>7. CASE Rad!Call("infEvent", "infEvent", "runLoop")
  <2>1. pc = "infEvent" /\ pc' = "runLoop" /\ Transmitted \in {"infEvent", "nothing"}
    BY <1>7, <1>s, CallSends DEF Rad!CallKinds
  <2> QED
    BY <1>1, <1>2, <2>1
<1>8. CASE Rad!Call("fdirEvent", "fdirEvent", "sendTlm")
  BY <1>1, <1>2, <1>8, <1>s, CallSends DEF Rad!CallKinds
<1>9. CASE Rad!Call("warnEvent", "warnEvent", "sendTlm")
  BY <1>1, <1>2, <1>9, <1>s, CallSends DEF Rad!CallKinds, ByHealth
<1>10. CASE Rad!Call("solarClose", "solarClose", "fdirEvent")
  <2>1. pc = "solarClose" /\ pc' = "fdirEvent" /\ msg' = msg /\ Transmitted = "solarClose"
    BY <1>10, <1>s, CallSends DEF Rad!CallKinds, Calm
  <2>2. LastIs("close")'
    <3>1. solarBus' = Append(solarBus, Solar("close", msg))
      BY <2>1 DEF RadRuns
    <3> QED
      BY <3>1, <1>s, BusAfterAppend
  <2>3. PendingCritical'
    BY <2>1 DEF PendingCritical, ByHealth, Crit, Rad!HealthOf, Rad!RAD_LIMIT, Rad!RAD_WARNING
  <2> QED
    BY <2>2, <2>3 DEF Settled
<1>11. CASE Rad!Call("tlm", "sendTlm", "infEvent")
  <2>1. pc = "sendTlm" /\ pc' = "infEvent" /\ Transmitted \in {"tlm", "nothing"}
    BY <1>11, <1>s, CallSends DEF Rad!CallKinds
  <2>2. solarBus' = solarBus /\ toPipe' = Append(toPipe, msg)
    BY <2>1 DEF RadRuns, Calm
  <2>3. Waiting' = Waiting \union {msg}
    BY <2>2, <1>s, WaitingAfterAppend
  <2>4. PendingCritical' <=> PendingCritical
    BY <2>1, <2>3, <1>u DEF PendingCritical, Crit, Rad!HealthOf, Rad!RAD_LIMIT, Rad!RAD_WARNING
  <2> QED
    BY <2>2, <2>4, <1>u, StaysSettled
<1> QED
  BY <1>3, <1>4, <1>5, <1>6, <1>7, <1>8, <1>9, <1>10, <1>11, RadStep DEF RadRuns

LEMMA RadRunsTracks ==
  ASSUME AllTyped, ByHealth, Calm, Calm', Tracking, RadRuns
  PROVE  Tracking'
<1>u. UNCHANGED <<uplink, downlink, opPc, solar_array_status, Solars, OperatorBusy>>
  BY DEF RadRuns, netVars, groundVars, Solars, OperatorBusy
<1>1. CASE OperatorBusy
  <2>1. NoReading' /\ UNCHANGED solarBus
    BY <1>1, RadRunsQuietly DEF Tracking
  <2> QED
    BY <1>1, <1>u, <2>1 DEF Tracking, LastIs, Shows
<1>2. CASE ~OperatorBusy
  <2>1. Settled'
    BY <1>2, RadRunsSettled DEF Tracking
  <2> QED
    BY <1>2, <1>u, <2>1 DEF Tracking, OperatorBusy
<1> QED
  BY <1>1, <1>2

LEMMA ToLabTracks ==
  ASSUME AllTyped, Calm, Calm', Tracking, ToLab
  PROVE  Tracking'
<1>1. Waiting = Waiting' \union {Head(toPipe)}
  BY WaitingAfterTail DEF ToLab, AllTyped
<1>2. downlink' = downlink \union {Head(toPipe)}
  BY DEF ToLab, Calm
<1>3. UNCHANGED <<pc, msg, uplink, opPc, solarBus, solar_array_status, Solars>>
  BY DEF ToLab, radVars, groundVars, Solars
<1>4. PendingCritical' <=> PendingCritical
  BY <1>1, <1>2, <1>3 DEF PendingCritical, Crit, Rad!HealthOf, Rad!RAD_LIMIT, Rad!RAD_WARNING
<1>5. ~OperatorBusy /\ Solars \subseteq uplink'
  BY <1>3 DEF Tracking, NoReading, ToLab, Solars
<1> QED
  BY <1>3, <1>4, <1>5, StaysTracking

LEMMA GroundReceiveTracks ==
  ASSUME AllTyped, Calm, Calm', Tracking, GroundReceive
  PROVE  Tracking'
<1>1. PICK p \in downlink :
        /\ Take(p, downlink, downlink')
        /\ IF Crit(p) THEN solar_array_status' = ClosedByFdir ELSE UNCHANGED solar_array_status
  BY DEF GroundReceive, Crit, AfterCritical
<1>2. downlink' = downlink \ {p}
  BY <1>1, TakenPackets DEF AllTyped, Calm
<1>3. UNCHANGED <<pc, msg, uplink, opPc, solarBus, toPipe, Solars, Waiting>>
  BY DEF GroundReceive, radVars, busVars, Solars, Waiting
<1>4. ~OperatorBusy /\ Solars \subseteq uplink'
  BY <1>3 DEF Tracking, NoReading, Solars
<1>5. CASE Crit(p)
  <2>1. LastIs("close")
    BY <1>4, <1>5 DEF Tracking, Settled, PendingCritical
  <2>2. Settled'
    BY <2>1, <1>1, <1>3, <1>5 DEF Settled, LastIs, Shows
  <2> QED
    BY <2>2, <1>3, <1>4 DEF Tracking, OperatorBusy
<1>6. CASE ~Crit(p)
  <2>1. PendingCritical' <=> PendingCritical
    BY <1>2, <1>3, <1>6 DEF PendingCritical, Crit, Rad!HealthOf, Rad!RAD_LIMIT, Rad!RAD_WARNING
  <2> QED
    BY <2>1, <1>1, <1>3, <1>4, <1>6, StaysTracking
<1> QED
  BY <1>5, <1>6

(* The button is pressed while nothing is on its way: its packet is the     *)
(* only one, and no reading is under way.                                   *)
LEMMA PressSolarTracks ==
  ASSUME Calm', PressSolar
  PROVE  Tracking'
<1>1. Quiescent
  BY DEF PressSolar, Calm
<1>2. PICK k \in {"open", "close"} : opPc' = k /\ uplink' = uplink \union {SolarPacket(k)}
  BY DEF PressSolar
<1>3. uplink' = {SolarPacket(k)} /\ SolarPacket(k).kind = k
  BY <1>1, <1>2 DEF Quiescent, SolarPacket
<1>4. Solars' = {SolarPacket(k)} /\ opPc' # "idle"
  BY <1>2, <1>3 DEF Solars
<1>5. NoReading'
  BY <1>1, <1>3 DEF PressSolar, NoReading, Quiescent, radVars, busVars, Busy
<1> QED
  BY <1>2, <1>3, <1>4, <1>5 DEF Tracking, OperatorBusy

LEMMA UpdateStatusTracks ==
  ASSUME AllTyped, Tracking, UpdateStatus
  PROVE  Tracking'
<1>1. UNCHANGED <<pc, msg, pipe, toPipe, uplink, downlink, solarBus, Solars>>
  BY DEF UpdateStatus, radVars, busVars, netVars, Solars
<1>2. opPc \in {"open", "close"} /\ opPc' = "idle" /\ NoReading
  BY DEF UpdateStatus, AllTyped, Typed, Tracking, OperatorBusy
<1>3. solar_array_status' \in Shows(opPc)
  BY <1>2 DEF UpdateStatus, Shows
<1>4. NoReading' /\ ~PendingCritical'
  <2>1. NoReading'
    BY <1>1, <1>2 DEF NoReading, Busy
  <2>2. Waiting' = {} /\ downlink' = {} /\ pc' \notin Busy
    BY <2>1 DEF NoReading, Waiting, Busy
  <2> QED
    BY <2>1, <2>2 DEF PendingCritical, Busy
<1>5. CASE Solars # {}
  <2>1. PICK p \in uplink : Solars = {p} /\ p.kind = opPc
    BY <1>2, <1>5 DEF Tracking
  <2> QED
    BY <2>1, <1>1, <1>2, <1>3, <1>4 DEF Tracking, OperatorBusy, Shows
<1>6. CASE Solars = {}
  <2>1. LastIs(opPc)
    BY <1>2, <1>6 DEF Tracking
  <2>2. Settled'
    BY <2>1, <1>1, <1>2, <1>3, <1>4 DEF Settled, LastIs, Shows
  <2> QED
    BY <2>2, <1>1, <1>2, <1>6 DEF Tracking, OperatorBusy
<1> QED
  BY <1>5, <1>6

LEMMA PressEnableTracks ==
  ASSUME AllTyped, Tracking, PressEnable
  PROVE  Tracking'
<1>1. UNCHANGED <<pc, msg, pipe, toPipe, downlink, solarBus, opPc, solar_array_status>>
  BY DEF PressEnable, radVars, busVars, groundVars
<1>2. Solars' = Solars /\ Solars \subseteq uplink'
  BY DEF PressEnable, EnablePacket, Solars
<1>3. NoReading => NoReading'
  BY <1>1 DEF PressEnable, EnablePacket, NoReading, Busy
<1>4. PendingCritical' <=> PendingCritical
  BY <1>1 DEF PendingCritical, Waiting, Crit, Rad!HealthOf, Rad!RAD_LIMIT, Rad!RAD_WARNING
<1> QED
  BY <1>1, <1>2, <1>3, <1>4, StaysTracking DEF Tracking

LEMMA NextTracks == AllTyped /\ ByHealth /\ Tracks /\ [Next]_vars => Tracks'
<1> SUFFICES ASSUME AllTyped, ByHealth, Tracks, [Next]_vars, Calm' PROVE Tracking'
  BY DEF Tracks
<1>c. Calm /\ Tracking
  BY CalmBefore DEF Tracks
<1>1. ~Lose /\ ~RestartFlight
  BY DEF Lose, RestartFlight, Calm
<1>2. CASE UNCHANGED vars
  BY <1>2, <1>c DEF vars, radVars, busVars, netVars, groundVars, Tracking, OperatorBusy, Solars, NoReading,
     Settled, LastIs, Shows, PendingCritical, Waiting, Busy, Crit, Rad!HealthOf, Rad!RAD_LIMIT, Rad!RAD_WARNING
<1> QED
  BY <1>c, <1>1, <1>2, SendReadingTracks, CiLabTracks, RadRunsTracks, ToLabTracks, GroundReceiveTracks,
     PressSolarTracks, UpdateStatusTracks, PressEnableTracks DEF Next

LEMMA InitTracks == Init => Tracks
<1> SUFFICES ASSUME Init PROVE Tracking
  BY DEF Tracks
<1>1. Solars = {} /\ opPc = "idle"
  BY DEF Init, Solars, EnablePacket
<1>2. pc = "register" /\ Waiting = {} /\ downlink = {}
  BY DEF Init, Rad!Init, Waiting
<1>3. solarBus = <<>> /\ solar_array_status = "Unknown" /\ ~PendingCritical
  BY <1>2 DEF Init, PendingCritical
<1> QED
  BY <1>1, <1>3 DEF Tracking, OperatorBusy, Settled

(* Once everything sent has arrived, without losses and duplicates, the     *)
(* status is that of the last command on the bus, unless a command of the   *)
(* operator crossed a reading or its telemetry, or a close command was      *)
(* never transmitted (processor.py:53, rad_app.c:94).                       *)
THEOREM StatusFollowsCommands == Spec => []StatusIsCurrentUnlessRaced
<1>1. Tracks => StatusIsCurrentUnlessRaced
  <2> SUFFICES ASSUME Tracks, ~raced, Unsent = {}, Quiescent, ~losses, dups = 0
               PROVE  IF solarBus = <<>> THEN solar_array_status = "Unknown"
                      ELSE solar_array_status \in Shows(solarBus[Len(solarBus)].kind)
    BY DEF StatusIsCurrentUnlessRaced, StatusIsCurrent
  <2>1. Tracking /\ ~OperatorBusy
    BY DEF Tracks, Calm, OperatorBusy, Solars, Quiescent
  <2>2. Waiting = {} /\ downlink = {} /\ pc = "receive"
    BY DEF Quiescent, Waiting
  <2>3. ~PendingCritical
    BY <2>2 DEF PendingCritical
  <2> QED
    BY <2>1, <2>3 DEF Tracking, Settled, LastIs
<1>2. AllTyped /\ Safe /\ Tracks /\ [Next]_vars => (AllTyped /\ Safe /\ Tracks)'
  BY NextSafe, NextTracks DEF Safe
<1> QED
  BY <1>1, <1>2, InitAllTyped, InitSafe, InitTracks, PTL DEF Spec

=============================================================================
