-------------------------- MODULE ThermalPathProofs --------------------------
(***************************************************************************)
(* Proofs about ThermApp and ThermalPath, for any readings, function codes,*)
(* sessions, pipe depth and bounds.  The first part is about THERM_APP     *)
(* alone, the second about its senders and the network.                    *)
(***************************************************************************)
EXTENDS ThermalPath, SequenceTheorems, FiniteSetTheorems, TLAPS

(* A reading is in the application's hands until its telemetry is sent.     *)
Processing == {"dispatch", "critEvent", "warnEvent", "sendTlm"}

InHandOK ==
  /\ pc \in Processing \union {"infEvent"} => msg \in Msgs
  /\ pc \in Processing \ {"dispatch"} => msg.fc = FC_SEND_DATA

DueCalls ==
  /\ pc = "critEvent" => msg \in Critical
  /\ pc = "sendTlm" /\ msg \in Critical => msg \in MsgsOf("critEvent")
  /\ pc = "warnEvent" => msg \notin Critical

(* The commands pass from the bus to the pipe, into hand and out to the     *)
(* calls in the order of their ids.                                         *)
Ordered ==
  /\ msg.id <= published
  /\ \A k \in DOMAIN pipe : pipe[k].id <= published /\ msg.id < pipe[k].id
  /\ \A j, k \in DOMAIN pipe : j < k => pipe[j].id < pipe[k].id
  /\ \A i \in CallsOf("tlm") \union CallsOf("critEvent") :
       /\ calls[i].msg.id <= published
       /\ \A k \in DOMAIN pipe : calls[i].msg.id < pipe[k].id
  /\ pc \in Processing => \A i \in CallsOf("tlm") : calls[i].msg.id < msg.id
  /\ pc \in {"dispatch", "critEvent"} => \A i \in CallsOf("critEvent") : calls[i].msg.id < msg.id

(* FdirTriggerCount is the number of CRITICAL events since the last         *)
(* initialisation, and one more while the event is due.                     *)
InitPCs    == {"register", "createPipe", "subscribe", "initTlm"}
Recent     == {j \in CallsOf("critEvent") : \A k \in CallsOf("initEvent") : k < j}
TriggerDue == IF pc = "critEvent" THEN 1 ELSE 0

Counted ==
  /\ pc \in InitPCs => FdirTriggerCount = 0
  /\ pc \in {"receive", "infEvent"} \union Processing => RunStatus = "run"
  /\ pc \notin InitPCs \union {"exited"} /\ RunStatus = "run" =>
       FdirTriggerCount = Cardinality(Recent) + TriggerDue

(* Of each temperature: what was reported, is in hand, waits in the pipe    *)
(* and is on its way up are together not more than was sent or duplicated.  *)
Origins(level)  == {i \in DOMAIN sent : sent[i].level = level /\ sent[i].fc = FC_SEND_DATA}
Reported(level) == {i \in CallsOf("tlm") : calls[i].msg.level = level}
InHand(level)   == IF pc \in Processing /\ msg.fc = FC_SEND_DATA /\ msg.level = level THEN 1 ELSE 0
Piped(level)    == {n \in 1..MaxPublished :
                      \E k \in DOMAIN pipe : /\ pipe[k].id = n /\ pipe[k].level = level
                                             /\ pipe[k].fc = FC_SEND_DATA}
Coming(level)   == {p \in uplink : p.level = level /\ p.fc = FC_SEND_DATA}

Conserved ==
  \A level \in Levels :
    Cardinality(Reported(level)) + InHand(level) + Cardinality(Piped(level)) + Cardinality(Coming(level))
      <= Cardinality(Origins(level)) + dups

(* The senders' variables, with the sequence counters and what they count.  *)
Sends == [by : Sessions \union {"suite"}, fc : FcnCodes, level : Levels, seq : 0..(SeqMod - 1)]

SendersOK ==
  /\ _value \in [Sessions -> min_value..max_value]
  /\ _seq_count \in [Sessions -> 0..(SeqMod - 1)]
  /\ uplink \subseteq [n : 1..MaxSends, fc : FcnCodes, level : Levels] /\ IsFiniteSet(uplink)
  /\ sends \in 0..MaxSends /\ dups \in 0..MaxDups
  /\ sent \in Seq(Sends) /\ Len(sent) = sends

SentBy(s) == {j \in DOMAIN sent : sent[j].by = s}

Numbered == \A s \in Sessions : _seq_count[s] = Cardinality(SentBy(s)) % SeqMod

-----------------------------------------------------------------------------
(* THERM_APP.                                                               *)

(* The classification agrees with the limit the promise is stated with.     *)
LEMMA HealthOfCases ==
  ASSUME NEW m \in Msgs
  PROVE  /\ HealthOf(m.level) = "critical" <=> m.level > 100
         /\ HealthOf(m.level) \in {"critical", "warning", "nominal"}
<1>1. m.level \in Int
  BY LevelsAssumption DEF Msgs
<1> QED
  BY <1>1 DEF HealthOf, TEMP_LIMIT, TEMP_WARNING

(* What Append does to a sequence, in the form the steps below need.        *)
LEMMA AppendFacts ==
  ASSUME NEW S, NEW s \in Seq(S), NEW x \in S
  PROVE  /\ Append(s, x) \in Seq(S)
         /\ Len(s) \in Nat /\ DOMAIN s = 1..Len(s)
         /\ Len(Append(s, x)) = Len(s) + 1
         /\ DOMAIN Append(s, x) = 1..(Len(s) + 1)
         /\ \A i \in 1..Len(s) : Append(s, x)[i] = s[i]
         /\ Append(s, x)[Len(s) + 1] = x
BY AppendProperties, LenProperties

(* The calls before and after one more call.                                *)
LEMMA CallAppends ==
  ASSUME TypeOK, NEW kind \in Kinds, NEW here, NEW next, Call(kind, here, next)
  PROVE  /\ calls' \in Seq([kind : Kinds, msg : Msgs \union {NoMsg}, count : Nat])
         /\ Len(calls) \in Nat
         /\ DOMAIN calls = 1..Len(calls)
         /\ DOMAIN calls' = 1..(Len(calls) + 1)
         /\ \A i \in 1..Len(calls) : calls'[i] = calls[i]
         /\ calls'[Len(calls) + 1].kind = kind
         /\ calls'[Len(calls) + 1].msg = msg
         /\ calls'[Len(calls) + 1].count = FdirTriggerCount
<1>1. [kind |-> kind, msg |-> msg, count |-> FdirTriggerCount]
        \in [kind : Kinds, msg : Msgs \union {NoMsg}, count : Nat]
  BY DEF TypeOK
<1> QED
  BY <1>1, AppendFacts DEF Call, TypeOK

(* One more call adds its place to the calls of its kind.                   *)
LEMMA CallAddsOne ==
  ASSUME TypeOK, NEW kind \in Kinds, NEW here, NEW next, Call(kind, here, next)
  PROVE  /\ CallsOf(kind)' = CallsOf(kind) \union {Len(calls) + 1}
         /\ \A k : k # kind => CallsOf(k)' = CallsOf(k)
         /\ \A k : CallsOf(k) \subseteq 1..Len(calls)
<1> DEFINE n == Len(calls)
<1>1. /\ n \in Nat /\ DOMAIN calls = 1..n /\ DOMAIN calls' = 1..(n + 1)
      /\ \A i \in 1..n : calls'[i] = calls[i]
      /\ calls'[n + 1].kind = kind
  BY CallAppends
<1>2. 1..(n + 1) = 1..n \union {n + 1}
  BY <1>1
<1> HIDE DEF n
<1> QED
  BY <1>1, <1>2 DEF CallsOf, n

(* Publish, as every step of the bus: one more command, at the end of the   *)
(* pipe or lost.                                                            *)
LEMMA PublishAppends ==
  ASSUME TypeOK, NEW fc \in FcnCodes, NEW level \in Levels, Publish(fc, level)
  PROVE  /\ published' \in 0..MaxPublished /\ published' = published + 1
         /\ UNCHANGED <<pc, dataVars, subscribed, calls, restarts>>
         /\ \/ pipe' = pipe
            \/ \E m \in Msgs : /\ m.id = published + 1 /\ m.fc = fc /\ m.level = level
                               /\ Len(pipe) < PipeDepth /\ pipe' = Append(pipe, m)
<1>1. published + 1 \in 1..MaxPublished
  BY MaxPublishedAssumption DEF Publish, TypeOK
<1>2. [id |-> published + 1, fc |-> fc, level |-> level] \in Msgs
  BY <1>1 DEF Msgs
<1> QED
  BY <1>1, <1>2 DEF Publish

-----------------------------------------------------------------------------
LEMMA InitType == Init => TypeOK /\ InHandOK
<1> SUFFICES ASSUME Init PROVE TypeOK /\ InHandOK
  OBVIOUS
<1>1. pipe \in Seq(Msgs) /\ calls \in Seq([kind : Kinds, msg : Msgs \union {NoMsg}, count : Nat])
  BY EmptySeq DEF Init
<1>2. subscribed \in BOOLEAN /\ Len(pipe) = 0
  BY EmptySeq DEF Init
<1> QED
  BY <1>1, <1>2, MaxPublishedAssumption, MaxRestartsAssumption, PipeDepthAssumption
     DEF Init, TypeOK, PCs, InHandOK, Processing

LEMMA CallKeepsType ==
  ASSUME TypeOK, NEW kind \in Kinds, NEW here, NEW next \in PCs, Call(kind, here, next)
  PROVE  TypeOK'
<1>1. calls' \in Seq([kind : Kinds, msg : Msgs \union {NoMsg}, count : Nat])
  BY CallAppends
<1> QED
  BY <1>1 DEF Call, Goes, TypeOK, dataVars, busVars, Msgs

LEMMA NextType == TypeOK /\ [Next]_vars => TypeOK'
<1> SUFFICES ASSUME TypeOK, [Next]_vars PROVE TypeOK'
  OBVIOUS
<1> USE DEF Goes, dataVars, busVars
<1>1. ASSUME NEW fc \in FcnCodes, NEW level \in Levels, Publish(fc, level) PROVE TypeOK'
  <2>1. pipe' \in Seq(Msgs) /\ Len(pipe') <= PipeDepth
    <3>1. CASE pipe' = pipe
      BY <3>1 DEF TypeOK
    <3>2. ASSUME NEW m \in Msgs, Len(pipe) < PipeDepth, pipe' = Append(pipe, m)
          PROVE  pipe' \in Seq(Msgs) /\ Len(pipe') <= PipeDepth
      BY <3>2, AppendFacts, PipeDepthAssumption DEF TypeOK
    <3> QED
      BY <1>1, <3>1, <3>2, PublishAppends
  <2>2. published' \in 0..MaxPublished /\ UNCHANGED <<pc, dataVars, subscribed, calls, restarts>>
    BY <1>1, PublishAppends
  <2> QED
    BY <2>1, <2>2 DEF TypeOK, Msgs
<1>2. CASE Register \/ CreatePipe \/ Subscribe
  BY <1>2 DEF Register, CreatePipe, Subscribe, InitCall, TypeOK, PCs
<1>3. CASE InitTlm
  <2>1. CASE Call("initEvent", "initTlm", "runLoop")
    BY <2>1, CallKeepsType DEF Kinds, PCs
  <2> QED
    BY <1>3, <2>1 DEF InitTlm, TypeOK, PCs
<1>4. CASE RunLoop
  <2>1. pipe' \in Seq(Msgs) /\ Len(pipe') <= PipeDepth
    <3>1. CASE pipe' = pipe
      BY <3>1 DEF TypeOK
    <3>2. CASE pipe' = <<>>
      <4>1. pipe' \in Seq(Msgs) /\ Len(pipe') = 0
        BY <3>2
      <4> QED
        BY <4>1, PipeDepthAssumption
    <3> QED
      BY <1>4, <3>1, <3>2 DEF RunLoop
  <2> QED
    BY <1>4, <2>1 DEF RunLoop, TypeOK, PCs
<1>5. CASE Receive
  <2>1. Head(pipe) \in Msgs /\ Tail(pipe) \in Seq(Msgs) /\ Len(Tail(pipe)) = Len(pipe) - 1
    BY <1>5, HeadTailProperties DEF Receive, TypeOK
  <2>2. Len(pipe) \in Nat /\ PipeDepth \in Nat
    BY LenProperties, PipeDepthAssumption DEF TypeOK
  <2> QED
    BY <1>5, <2>1, <2>2 DEF Receive, TypeOK, PCs
<1>6. CASE ReceiveError \/ Unexpected
  BY <1>6 DEF ReceiveError, Unexpected, TypeOK, PCs
<1>7. CASE ProcessSensorData
  <2>1. FdirTriggerCount' \in 0..PacketCount' /\ PacketCount' \in Nat
    BY <1>7 DEF ProcessSensorData, TypeOK, TriggersOf
  <2> QED
    BY <1>7, <2>1 DEF ProcessSensorData, TypeOK, PCs
<1>8. CASE CritEvent
  BY <1>8, CallKeepsType DEF CritEvent, Kinds, PCs
<1>9. CASE WarnEvent
  BY <1>9, CallKeepsType DEF WarnEvent, Kinds, PCs
<1>10. CASE SendTlm
  BY <1>10, CallKeepsType DEF SendTlm, Kinds, PCs
<1>11. CASE InfEvent
  BY <1>11, CallKeepsType DEF InfEvent, Kinds, PCs
<1>12. CASE Restart
  <2>1. restarts' \in 0..MaxRestarts
    BY <1>12, MaxRestartsAssumption DEF Restart, TypeOK
  <2>2. pipe' \in Seq(Msgs) /\ Len(pipe') = 0
    BY <1>12, EmptySeq DEF Restart
  <2>3. UNCHANGED <<published, calls>> /\ msg' = NoMsg /\ pc' \in PCs /\ RunStatus' = "run" /\ subscribed' = FALSE
    BY <1>12 DEF Restart, PCs
  <2>4. PacketCount' = 0 /\ FdirTriggerCount' = 0
    BY <1>12 DEF Restart
  <2>5. FdirTriggerCount' \in 0..PacketCount' /\ PacketCount' \in Nat /\ Len(pipe') <= PipeDepth
    BY <2>2, <2>4, PipeDepthAssumption
  <2> QED
    BY <2>1, <2>2, <2>3, <2>5 DEF TypeOK
<1>13. CASE UNCHANGED vars
  BY <1>13 DEF vars, TypeOK
<1> QED
  BY <1>1, <1>2, <1>3, <1>4, <1>5, <1>6, <1>7, <1>8, <1>9, <1>10, <1>11, <1>12, <1>13 DEF Next, AppStep

LEMMA NextInHand == TypeOK /\ InHandOK /\ [Next]_vars => InHandOK'
<1> SUFFICES ASSUME TypeOK, InHandOK, [Next]_vars PROVE InHandOK'
  OBVIOUS
<1> USE DEF Goes, dataVars, busVars, InHandOK, Processing
<1>m. Msgs' = Msgs
  BY DEF Msgs
<1>1. CASE (\E fc \in FcnCodes, level \in Levels : Publish(fc, level)) \/ UNCHANGED vars
  BY <1>1, <1>m DEF Publish, vars
<1>2. CASE Register \/ CreatePipe \/ Subscribe
  BY <1>2 DEF Register, CreatePipe, Subscribe, InitCall
<1>3. CASE InitTlm \/ InfEvent
  BY <1>3 DEF InitTlm, InfEvent, Call
<1>4. CASE CritEvent \/ WarnEvent \/ SendTlm
  BY <1>4, <1>m DEF CritEvent, WarnEvent, SendTlm, Call
<1>5. CASE RunLoop \/ ReceiveError \/ Unexpected
  BY <1>5 DEF RunLoop, ReceiveError, Unexpected
<1>6. CASE Receive
  <2>1. Head(pipe) \in Msgs
    BY <1>6, HeadTailProperties DEF Receive, TypeOK
  <2> QED
    BY <1>6, <1>m, <2>1 DEF Receive
<1>7. CASE ProcessSensorData
  BY <1>7, <1>m DEF ProcessSensorData
<1>8. CASE Restart
  BY <1>8 DEF Restart
<1> QED
  BY <1>1, <1>2, <1>3, <1>4, <1>5, <1>6, <1>7, <1>8 DEF Next, AppStep

-----------------------------------------------------------------------------
(* What is known of the ids of commands.                                    *)
LEMMA IdTypes ==
  ASSUME TypeOK
  PROVE  /\ published \in Nat /\ msg.id \in Nat
         /\ \A k \in DOMAIN pipe : pipe[k] \in Msgs /\ pipe[k].id \in Nat
         /\ \A i \in DOMAIN calls : calls[i].msg.id \in Nat
<1>1. \A k \in DOMAIN pipe : pipe[k] \in Msgs
  BY ElementOfSeq, LenProperties DEF TypeOK
<1>2. \A i \in DOMAIN calls : calls[i] \in [kind : Kinds, msg : Msgs \union {NoMsg}, count : Nat]
  BY ElementOfSeq, LenProperties DEF TypeOK
<1>3. \A m \in Msgs \union {NoMsg} : m.id \in Nat
  BY MaxPublishedAssumption DEF Msgs, NoMsg
<1>4. \A i \in DOMAIN calls : calls[i].msg.id \in Nat
  BY <1>2, <1>3
<1>5. \A k \in DOMAIN pipe : pipe[k].id \in Nat
  BY <1>1, <1>3
<1>6. published \in Nat /\ msg.id \in Nat
  BY <1>3, MaxPublishedAssumption DEF TypeOK
<1> QED
  BY <1>1, <1>4, <1>5, <1>6

(* The readings of the calls of one kind after one more call.               *)
LEMMA MsgsAfterCall ==
  ASSUME TypeOK, NEW kind \in Kinds, NEW here, NEW next, Call(kind, here, next)
  PROVE  /\ MsgsOf(kind)' = MsgsOf(kind) \union {msg}
         /\ \A k : k # kind => MsgsOf(k)' = MsgsOf(k)
<1> DEFINE n == Len(calls)
<1>1. /\ CallsOf(kind)' = CallsOf(kind) \union {n + 1}
      /\ \A k : k # kind => CallsOf(k)' = CallsOf(k)
      /\ \A k : CallsOf(k) \subseteq 1..n
  BY CallAddsOne
<1>2. (\A i \in 1..n : calls'[i] = calls[i]) /\ calls'[n + 1].msg = msg
  BY CallAppends
<1> HIDE DEF n
<1> QED
  BY <1>1, <1>2 DEF MsgsOf

LEMMA SilentKeepsMsgs ==
  ASSUME UNCHANGED calls
  PROVE  \A k : MsgsOf(k)' = MsgsOf(k) /\ CallsOf(k)' = CallsOf(k)
BY DEF MsgsOf, CallsOf

LEMMA NextDue == TypeOK /\ InHandOK /\ DueCalls /\ [Next]_vars => DueCalls'
<1> SUFFICES ASSUME TypeOK, InHandOK, DueCalls, [Next]_vars PROVE DueCalls'
  OBVIOUS
<1> USE DEF Goes, dataVars, busVars, DueCalls
<1>c. Critical' = Critical
  BY DEF Critical, Msgs
<1>1. CASE (\E fc \in FcnCodes, level \in Levels : Publish(fc, level)) \/ UNCHANGED vars
  BY <1>1, <1>c, SilentKeepsMsgs DEF Publish, vars
<1>2. CASE Register \/ CreatePipe \/ Subscribe
  BY <1>2 DEF Register, CreatePipe, Subscribe, InitCall
<1>3. CASE InitTlm \/ InfEvent
  BY <1>3 DEF InitTlm, InfEvent, Call
<1>4. CASE CritEvent
  <2>1. MsgsOf("critEvent")' = MsgsOf("critEvent") \union {msg}
    BY <1>4, MsgsAfterCall DEF CritEvent, Kinds
  <2> QED
    BY <1>4, <1>c, <2>1 DEF CritEvent, Call
<1>5. CASE WarnEvent
  BY <1>5, <1>c DEF WarnEvent, Call
<1>6. CASE SendTlm
  BY <1>6 DEF SendTlm, Call
<1>7. CASE RunLoop \/ ReceiveError \/ Unexpected \/ Receive
  BY <1>7 DEF RunLoop, ReceiveError, Unexpected, Receive
<1>8. CASE ProcessSensorData
  <2>1. msg \in Msgs /\ msg.fc = 2 /\ msg' = msg
    BY <1>8 DEF ProcessSensorData, InHandOK, Processing, FC_SEND_DATA
  <2>2. msg \in Critical <=> HealthOf(msg.level) = "critical"
    BY <2>1, HealthOfCases DEF Critical
  <2> QED
    BY <1>8, <1>c, <2>1, <2>2 DEF ProcessSensorData
<1>9. CASE Restart
  BY <1>9 DEF Restart
<1> QED
  BY <1>1, <1>2, <1>3, <1>4, <1>5, <1>6, <1>7, <1>8, <1>9 DEF Next, AppStep

-----------------------------------------------------------------------------
(* A call keeps the order, when the command in hand is newer than every     *)
(* telemetry packet or event that was sent before.                          *)
LEMMA CallKeepsOrdered ==
  ASSUME TypeOK, Ordered,
         NEW kind \in Kinds, NEW here, NEW next, Call(kind, here, next),
         kind = "tlm" => pc = "sendTlm" /\ next \notin Processing,
         kind = "critEvent" => pc = "critEvent" /\ next \notin {"dispatch", "critEvent"},
         next \in Processing => pc \in Processing,
         next \in {"dispatch", "critEvent"} => pc \in {"dispatch", "critEvent"}
  PROVE  Ordered'
<1> DEFINE n == Len(calls)
<1>1. /\ \A i \in 1..n : calls'[i] = calls[i]
      /\ calls'[n + 1].kind = kind /\ calls'[n + 1].msg = msg
  BY CallAppends
<1>2. /\ CallsOf(kind)' = CallsOf(kind) \union {n + 1}
      /\ \A k : k # kind => CallsOf(k)' = CallsOf(k)
      /\ \A k : CallsOf(k) \subseteq 1..n
  BY CallAddsOne
<1>3. pc' = next /\ UNCHANGED <<msg, pipe, published>>
  BY DEF Call, Goes, dataVars, busVars
<1> HIDE DEF n
<1>4. \A i \in CallsOf("tlm") \union CallsOf("critEvent") : calls'[i] = calls[i]
  BY <1>1, <1>2
<1>5. \A i \in CallsOf("tlm")' \union CallsOf("critEvent")' :
        /\ calls'[i].msg.id <= published
        /\ \A k \in DOMAIN pipe : calls'[i].msg.id < pipe[k].id
  BY <1>1, <1>2, <1>4 DEF Ordered
<1>6. next \in Processing => \A i \in CallsOf("tlm")' : calls'[i].msg.id < msg.id
  BY <1>2, <1>4 DEF Ordered
<1>7. next \in {"dispatch", "critEvent"} => \A i \in CallsOf("critEvent")' : calls'[i].msg.id < msg.id
  BY <1>2, <1>4 DEF Ordered
<1> QED
  BY <1>3, <1>5, <1>6, <1>7 DEF Ordered

(* A step that leaves the commands and the calls where they are.            *)
LEMMA SilentKeepsOrdered ==
  ASSUME Ordered, UNCHANGED <<msg, pipe, published, calls>>,
         pc' \in Processing => pc \in Processing,
         pc' \in {"dispatch", "critEvent"} => pc \in {"dispatch", "critEvent"}
  PROVE  Ordered'
BY DEF Ordered, CallsOf

LEMMA NextOrdered == TypeOK /\ Ordered /\ [Next]_vars => Ordered'
<1> SUFFICES ASSUME TypeOK, Ordered, [Next]_vars PROVE Ordered'
  OBVIOUS
<1> USE DEF Goes, dataVars, busVars
<1>t. /\ published \in Nat /\ msg.id \in Nat
      /\ \A k \in DOMAIN pipe : pipe[k].id \in Nat
      /\ \A i \in DOMAIN calls : calls[i].msg.id \in Nat
  BY IdTypes
<1>1. ASSUME NEW fc \in FcnCodes, NEW level \in Levels, Publish(fc, level) PROVE Ordered'
  <2>1. CASE pipe' = pipe
    BY <1>1, <1>t, <2>1 DEF Publish, Ordered, CallsOf
  <2>2. ASSUME NEW m \in Msgs, m.id = published + 1, pipe' = Append(pipe, m) PROVE Ordered'
    <3>2. /\ Len(pipe) \in Nat /\ DOMAIN pipe = 1..Len(pipe)
          /\ DOMAIN pipe' = 1..Len(pipe) \union {Len(pipe) + 1}
          /\ \A k \in 1..Len(pipe) : pipe'[k] = pipe[k]
          /\ pipe'[Len(pipe) + 1] = m
      BY <2>2, AppendFacts DEF TypeOK
    <3>3. published' = published + 1 /\ UNCHANGED <<pc, msg, calls>>
      BY <1>1 DEF Publish
    <3>4. /\ \A k \in DOMAIN pipe' : pipe'[k].id <= published' /\ msg.id < pipe'[k].id
          /\ \A j, k \in DOMAIN pipe' : j < k => pipe'[j].id < pipe'[k].id
      BY <1>t, <2>2, <3>2, <3>3 DEF Ordered
    <3>5. \A i \in CallsOf("tlm") \union CallsOf("critEvent") :
            /\ calls[i].msg.id <= published'
            /\ \A k \in DOMAIN pipe' : calls[i].msg.id < pipe'[k].id
      BY <1>t, <2>2, <3>2, <3>3 DEF Ordered, CallsOf
    <3> QED
      BY <1>t, <3>3, <3>4, <3>5 DEF Ordered, CallsOf
  <2> QED
    BY <1>1, <2>1, <2>2, PublishAppends
<1>2. CASE Register \/ CreatePipe \/ Subscribe
  BY <1>2, SilentKeepsOrdered DEF Register, CreatePipe, Subscribe, InitCall, Processing
<1>3. CASE InitTlm
  <2>1. CASE Call("initEvent", "initTlm", "runLoop")
    BY <2>1, CallKeepsOrdered DEF Kinds, Processing
  <2> QED
    BY <1>3, <2>1, SilentKeepsOrdered DEF InitTlm, Processing
<1>4. CASE RunLoop
  <2>1. CASE UNCHANGED pipe
    BY <1>4, <2>1, SilentKeepsOrdered DEF RunLoop, Processing
  <2>2. CASE pipe' = <<>> /\ pc' = "exited"
    <3>1. DOMAIN pipe' = {}
      BY <2>2
    <3> QED
      BY <1>4, <2>2, <3>1 DEF RunLoop, Ordered, CallsOf, Processing
  <2> QED
    BY <1>4, <2>1, <2>2 DEF RunLoop
<1>5. CASE Receive
  <2>1. /\ Len(pipe) \in Nat \ {0} /\ DOMAIN pipe = 1..Len(pipe)
        /\ DOMAIN pipe' = 1..(Len(pipe) - 1)
        /\ \A k \in 1..(Len(pipe) - 1) : pipe'[k] = pipe[k + 1]
        /\ msg' = pipe[1]
    BY <1>5, HeadTailProperties, LenProperties, EmptySeq DEF Receive, TypeOK
  <2>m. /\ 1 \in DOMAIN pipe
        /\ \A k \in DOMAIN pipe' : k \in Int /\ k + 1 \in DOMAIN pipe /\ 1 < k + 1 /\ pipe'[k] = pipe[k + 1]
    BY <2>1
  <2>2. UNCHANGED <<published, calls>> /\ pc' = "dispatch"
    BY <1>5 DEF Receive
  <2>3. /\ msg'.id <= published
        /\ \A k \in DOMAIN pipe' : pipe'[k].id <= published /\ msg'.id < pipe'[k].id
        /\ \A j, k \in DOMAIN pipe' : j < k => pipe'[j].id < pipe'[k].id
    <3>1. \A j, k \in DOMAIN pipe' : j < k => j + 1 < k + 1
      BY <2>m
    <3> QED
      BY <1>t, <2>1, <2>m, <3>1 DEF Ordered
  <2>4. \A i \in CallsOf("tlm") \union CallsOf("critEvent") :
          /\ calls[i].msg.id <= published /\ calls[i].msg.id < msg'.id
          /\ \A k \in DOMAIN pipe' : calls[i].msg.id < pipe'[k].id
    BY <1>t, <2>1, <2>m DEF Ordered
  <2> QED
    BY <2>2, <2>3, <2>4 DEF Ordered, CallsOf
<1>6. CASE ReceiveError \/ Unexpected
  BY <1>6, SilentKeepsOrdered DEF ReceiveError, Unexpected, Processing
<1>7. CASE ProcessSensorData
  BY <1>7, SilentKeepsOrdered DEF ProcessSensorData, Processing
<1>8. CASE CritEvent
  BY <1>8, CallKeepsOrdered DEF CritEvent, Call, Kinds, Processing
<1>9. CASE WarnEvent
  BY <1>9, CallKeepsOrdered DEF WarnEvent, Call, Kinds, Processing
<1>10. CASE SendTlm
  BY <1>10, CallKeepsOrdered DEF SendTlm, Call, Kinds, Processing
<1>11. CASE InfEvent
  BY <1>11, CallKeepsOrdered DEF InfEvent, Kinds, Processing
<1>12. CASE Restart
  <2>1. DOMAIN pipe' = {} /\ msg'.id = 0 /\ pc' = "register" /\ UNCHANGED <<published, calls>>
    BY <1>12 DEF Restart, NoMsg
  <2> QED
    BY <2>1, <1>t DEF Ordered, CallsOf, Processing
<1>13. CASE UNCHANGED vars
  BY <1>13, SilentKeepsOrdered DEF vars
<1> QED
  BY <1>1, <1>2, <1>3, <1>4, <1>5, <1>6, <1>7, <1>8, <1>9, <1>10, <1>11, <1>12, <1>13 DEF Next, AppStep

-----------------------------------------------------------------------------
(* The numbers of the CRITICAL events.                                      *)

(* What one more call does to the events of this run.                       *)
LEMMA RecentAfterCall ==
  ASSUME TypeOK, NEW kind \in Kinds, NEW here, NEW next, Call(kind, here, next)
  PROVE  /\ Recent \subseteq 1..Len(calls)
         /\ IsFiniteSet(Recent) /\ Cardinality(Recent) \in Nat
         /\ kind = "initEvent" => Recent' = {}
         /\ kind = "critEvent" =>
              /\ Recent' = Recent \union {Len(calls) + 1}
              /\ Cardinality(Recent') = Cardinality(Recent) + 1
         /\ kind \notin {"initEvent", "critEvent"} => Recent' = Recent
<1>1. PICK n \in Nat : n = Len(calls)
  BY CallAppends
<1>2. /\ CallsOf(kind)' = CallsOf(kind) \union {n + 1}
      /\ \A k : k # kind => CallsOf(k)' = CallsOf(k)
      /\ \A k : CallsOf(k) \subseteq 1..n
  BY <1>1, CallAddsOne
<1>3. Recent \subseteq 1..n
  BY <1>2 DEF Recent
<1>4. IsFiniteSet(Recent) /\ Cardinality(Recent) \in Nat
  <2>1. IsFiniteSet(1..n)
    BY <1>1, FS_Interval
  <2>2. IsFiniteSet(Recent)
    BY <1>3, <2>1, FS_Subset
  <2> QED
    BY <2>2, FS_CardinalityType
<1>5. ASSUME kind = "initEvent" PROVE Recent' = {}
  <2>1. CallsOf("critEvent")' = CallsOf("critEvent") /\ n + 1 \in CallsOf("initEvent")'
    BY <1>2, <1>5
  <2>2. \A j \in CallsOf("critEvent")' : j \in 1..n /\ ~(n + 1 < j)
    BY <1>1, <1>2, <2>1
  <2> QED
    BY <2>1, <2>2 DEF Recent
<1>6. kind \notin {"initEvent", "critEvent"} => Recent' = Recent
  BY <1>2 DEF Recent
<1>7. kind = "critEvent" => Recent' = Recent \union {n + 1}
  BY <1>1, <1>2 DEF Recent
<1>8. kind = "critEvent" => Cardinality(Recent') = Cardinality(Recent) + 1
  <2>1. n + 1 \notin Recent
    BY <1>1, <1>3
  <2> QED
    BY <1>4, <1>7, <2>1, FS_AddElement
<1> QED
  BY <1>1, <1>3, <1>4, <1>5, <1>6, <1>7, <1>8

LEMMA SilentKeepsRecent ==
  ASSUME UNCHANGED calls
  PROVE  Recent' = Recent
BY DEF Recent, CallsOf

LEMMA NextCounted == TypeOK /\ Counted /\ [Next]_vars => Counted'
<1> SUFFICES ASSUME TypeOK, Counted, [Next]_vars PROVE Counted'
  OBVIOUS
<1> USE DEF Goes, dataVars, busVars, Counted, TriggerDue, InitPCs, Processing
<1>t. IsFiniteSet(Recent) /\ Cardinality(Recent) \in Nat /\ FdirTriggerCount \in Nat
  <2>1. IsFiniteSet(DOMAIN calls)
    BY FS_Interval, LenProperties DEF TypeOK
  <2>2. IsFiniteSet(Recent)
    BY <2>1, FS_Subset DEF Recent, CallsOf
  <2> QED
    BY <2>2, FS_CardinalityType DEF TypeOK
<1>1. CASE (\E fc \in FcnCodes, level \in Levels : Publish(fc, level)) \/ UNCHANGED vars
  BY <1>1, SilentKeepsRecent DEF Publish, vars
<1>2. CASE Register \/ CreatePipe \/ Subscribe
  BY <1>2, SilentKeepsRecent DEF Register, CreatePipe, Subscribe, InitCall
<1>3. CASE InitTlm
  <2>1. CASE Call("initEvent", "initTlm", "runLoop")
    <3>1. Cardinality(Recent') = 0
      BY <2>1, RecentAfterCall, FS_EmptySet DEF Kinds
    <3> QED
      BY <2>1, <3>1 DEF Call
  <2> QED
    BY <1>3, <2>1 DEF InitTlm
<1>4. CASE RunLoop \/ Receive \/ Unexpected
  <2>1. Recent' = Recent /\ UNCHANGED <<RunStatus, FdirTriggerCount>>
    BY <1>4, SilentKeepsRecent DEF RunLoop, Receive, Unexpected
  <2>2. pc' \in {"runLoop", "receive", "dispatch", "exited"} /\ pc \in {"runLoop", "receive", "dispatch"}
    BY <1>4 DEF RunLoop, Receive, Unexpected
  <2>3. pc' \in {"receive", "dispatch"} => RunStatus = "run"
    BY <1>4 DEF RunLoop, Receive, Unexpected
  <2> QED
    BY <2>1, <2>2, <2>3
<1>5. CASE ReceiveError
  BY <1>5 DEF ReceiveError
<1>6. CASE ProcessSensorData
  <2>1. Recent' = Recent /\ UNCHANGED RunStatus /\ pc = "dispatch"
    BY <1>6, SilentKeepsRecent DEF ProcessSensorData
  <2>2. \/ pc' = "critEvent" /\ FdirTriggerCount' = FdirTriggerCount + 1
        \/ pc' \in {"warnEvent", "sendTlm"} /\ FdirTriggerCount' = FdirTriggerCount
    BY <1>t, <1>6 DEF ProcessSensorData, TriggersOf
  <2> QED
    BY <1>t, <2>1, <2>2
<1>7. CASE CritEvent
  <2>1. Cardinality(Recent') = Cardinality(Recent) + 1
    BY <1>7, RecentAfterCall DEF CritEvent, Kinds
  <2> QED
    BY <1>t, <1>7, <2>1 DEF CritEvent, Call
<1>8. CASE WarnEvent
  <2>1. Recent' = Recent
    BY <1>8, RecentAfterCall DEF WarnEvent, Kinds
  <2> QED
    BY <1>8, <2>1 DEF WarnEvent, Call
<1>9. CASE SendTlm
  <2>1. Recent' = Recent
    BY <1>9, RecentAfterCall DEF SendTlm, Kinds
  <2> QED
    BY <1>9, <2>1 DEF SendTlm, Call
<1>10. CASE InfEvent
  <2>1. Recent' = Recent
    BY <1>10, RecentAfterCall DEF InfEvent, Kinds
  <2> QED
    BY <1>10, <2>1 DEF InfEvent, Call
<1>11. CASE Restart
  BY <1>11 DEF Restart
<1> QED
  BY <1>1, <1>2, <1>3, <1>4, <1>5, <1>6, <1>7, <1>8, <1>9, <1>10, <1>11 DEF Next, AppStep

(* The events that the count in event i should number.                      *)
UpTo(i) == LET start == {k \in CallsOf("initEvent") : k < i} IN
             {j \in CallsOf("critEvent") : j <= i /\ \A k \in start : k < j}

LEMMA CallKeepsNumbers ==
  ASSUME TypeOK, Counted, TriggerCountsAreConsecutive,
         NEW kind \in Kinds, NEW here, NEW next, Call(kind, here, next),
         kind = "critEvent" => pc = "critEvent"
  PROVE  TriggerCountsAreConsecutive'
<1>1. PICK n \in Nat : n = Len(calls)
  BY CallAppends
<1>2. /\ CallsOf(kind)' = CallsOf(kind) \union {n + 1}
      /\ \A k : k # kind => CallsOf(k)' = CallsOf(k)
      /\ \A k : CallsOf(k) \subseteq 1..n
  BY <1>1, CallAddsOne
<1>3. (\A i \in 1..n : calls'[i] = calls[i]) /\ calls'[n + 1].count = FdirTriggerCount
  BY <1>1, CallAppends
<1>4. ASSUME NEW i \in CallsOf("critEvent") PROVE calls'[i].count = Cardinality(UpTo(i)')
  <2>1. i \in 1..n /\ calls'[i].count = Cardinality(UpTo(i))
    BY <1>2, <1>3 DEF TriggerCountsAreConsecutive, UpTo
  <2>2. \A j \in CallsOf("critEvent")' : j <= i => j \in CallsOf("critEvent")
    BY <1>1, <1>2, <2>1
  <2>3. \A j \in CallsOf("initEvent")' : j < i => j \in CallsOf("initEvent")
    BY <1>1, <1>2, <2>1
  <2>4. CallsOf("critEvent") \subseteq CallsOf("critEvent")' /\ CallsOf("initEvent") \subseteq CallsOf("initEvent")'
    BY <1>2
  <2>5. UpTo(i)' = UpTo(i)
    BY <2>2, <2>3, <2>4 DEF UpTo
  <2> QED
    BY <2>1, <2>5
<1>5. ASSUME kind = "critEvent" PROVE calls'[n + 1].count = Cardinality(UpTo(n + 1)')
  <2>1. Cardinality(Recent') = Cardinality(Recent) + 1 /\ Cardinality(Recent) \in Nat
    BY <1>5, RecentAfterCall
  <2>2. UpTo(n + 1)' = Recent'
    BY <1>1, <1>2, <1>5 DEF UpTo, Recent
  <2>3. FdirTriggerCount = Cardinality(Recent) + 1
    BY <1>5 DEF Counted, TriggerDue, Processing, InitPCs
  <2> QED
    BY <1>3, <2>1, <2>2, <2>3
<1>6. \A i \in CallsOf("critEvent")' : calls'[i].count = Cardinality(UpTo(i)')
  BY <1>2, <1>4, <1>5
<1> QED
  BY <1>6 DEF TriggerCountsAreConsecutive, UpTo

LEMMA NextNumbers == TypeOK /\ Counted /\ TriggerCountsAreConsecutive /\ [Next]_vars => TriggerCountsAreConsecutive'
<1> SUFFICES ASSUME TypeOK, Counted, TriggerCountsAreConsecutive, [Next]_vars
             PROVE  TriggerCountsAreConsecutive'
  OBVIOUS
<1>1. CASE UNCHANGED calls
  BY <1>1 DEF TriggerCountsAreConsecutive, CallsOf
<1>2. CASE calls' # calls
  <2>1. InitTlm \/ CritEvent \/ WarnEvent \/ SendTlm \/ InfEvent
    BY <1>2 DEF Next, AppStep, Publish, Register, CreatePipe, Subscribe, InitCall, RunLoop, Receive,
                ReceiveError, Unexpected, ProcessSensorData, Restart, vars
  <2>2. \/ Call("initEvent", "initTlm", "runLoop") \/ Call("critEvent", "critEvent", "sendTlm")
        \/ Call("warnEvent", "warnEvent", "sendTlm") \/ Call("tlm", "sendTlm", "infEvent")
        \/ Call("infEvent", "infEvent", "runLoop")
    BY <1>2, <2>1 DEF InitTlm, CritEvent, WarnEvent, SendTlm, InfEvent
  <2>3. Call("critEvent", "critEvent", "sendTlm") => pc = "critEvent"
    BY DEF Call, Goes
  <2> QED
    BY <2>2, <2>3, CallKeepsNumbers DEF Kinds
<1> QED
  BY <1>1, <1>2

-----------------------------------------------------------------------------
(* The invariant of THERM_APP.                                              *)
AppInv == TypeOK /\ InHandOK /\ DueCalls /\ Ordered /\ Counted /\ TriggerCountsAreConsecutive

LEMMA InitApp == Init => AppInv
<1> SUFFICES ASSUME Init PROVE AppInv
  OBVIOUS
<1>1. DOMAIN calls = {} /\ DOMAIN pipe = {} /\ msg.id = 0 /\ published = 0
  BY DEF Init, NoMsg
<1>2. TypeOK /\ InHandOK
  BY InitType
<1> QED
  BY <1>1, <1>2 DEF Init, AppInv, DueCalls, Ordered, Counted, TriggerCountsAreConsecutive, CallsOf, Processing, InitPCs

LEMMA NextApp == AppInv /\ [Next]_vars => AppInv'
BY NextType, NextInHand, NextDue, NextOrdered, NextCounted, NextNumbers DEF AppInv

-----------------------------------------------------------------------------
(* The refinement: every step of THERM_APP is a step of Fdir or leaves      *)
(* Fdir's state alone.  The queue is the command in hand and the pipe.      *)
Queue == (IF pc \in {"dispatch", "critEvent", "warnEvent", "sendTlm"} THEN <<msg>> ELSE <<>>) \o pipe

LEMMA QueueInHand ==
  ASSUME TypeOK, InHandOK, pc \in Processing
  PROVE  /\ Queue # <<>> /\ Head(Queue) = msg /\ Tail(Queue) = pipe
         /\ Queue = <<msg>> \o pipe
<1>1. Queue = <<msg>> \o pipe
  BY DEF Queue, Processing
<1>2. msg \in Msgs /\ pipe \in Seq(Msgs)
  BY DEF TypeOK, InHandOK
<1> QED
  BY <1>1, <1>2

LEMMA QueueOtherwise ==
  ASSUME TypeOK, pc \notin Processing
  PROVE  Queue = pipe
BY DEF Queue, Processing, TypeOK

(* A command newer than all outputs of a kind is not among them.            *)
LEMMA NewerIsFresh ==
  ASSUME NEW kind, NEW m, m.id \in Nat, \A i \in CallsOf(kind) : calls[i].msg.id < m.id
  PROVE  m \notin MsgsOf(kind)
<1> SUFFICES ASSUME NEW i \in CallsOf(kind), calls[i].msg = m PROVE FALSE
  BY DEF MsgsOf
<1> QED
  OBVIOUS

LEMMA NextImplementsFdir ==
  ASSUME AppInv, AppInv', [Next]_vars
  PROVE  \/ FdirPromise!Next
         \/ UNCHANGED <<Queue, MsgsOf("critEvent"), MsgsOf("tlm")>>
<1> USE DEF FdirPromise!Next, Goes, dataVars, busVars
<1>t. TypeOK /\ InHandOK /\ DueCalls /\ Ordered /\ TypeOK' /\ InHandOK'
  BY DEF AppInv
<1>n. /\ published \in Nat /\ msg.id \in Nat
      /\ \A i \in DOMAIN calls : calls[i].msg.id \in Nat
  BY <1>t, IdTypes
<1>q. pc' \notin Processing => Queue' = pipe'
  BY <1>t DEF Queue, Processing, TypeOK
<1>s. calls' = calls => UNCHANGED <<MsgsOf("critEvent"), MsgsOf("tlm")>>
  BY SilentKeepsMsgs
<1>k. ASSUME NEW kind \in Kinds \ {"critEvent", "tlm"}, NEW here, NEW next, Call(kind, here, next),
             here \in Processing <=> next \in Processing
      PROVE  UNCHANGED <<Queue, MsgsOf("critEvent"), MsgsOf("tlm")>>
  <2>1. UNCHANGED <<MsgsOf("critEvent"), MsgsOf("tlm")>>
    BY <1>t, <1>k, MsgsAfterCall
  <2>2. pc = here /\ pc' = next /\ UNCHANGED <<msg, pipe>>
    BY <1>k DEF Call
  <2>3. Queue' = Queue
    BY <1>k, <2>2 DEF Queue, Processing
  <2> QED
    BY <2>1, <2>3
<1>1. ASSUME NEW fc \in FcnCodes, NEW level \in Levels, Publish(fc, level)
      PROVE  FdirPromise!Accept \/ UNCHANGED <<Queue, MsgsOf("critEvent"), MsgsOf("tlm")>>
  <2>1. UNCHANGED <<MsgsOf("critEvent"), MsgsOf("tlm")>> /\ UNCHANGED <<pc, msg>>
    BY <1>1, <1>s DEF Publish
  <2>2. CASE pipe' = pipe
    BY <2>1, <2>2 DEF Queue
  <2>3. ASSUME NEW m \in Msgs, m.id = published + 1, pipe' = Append(pipe, m)
        PROVE  FdirPromise!Accept
    <3>1. m \notin MsgsOf("critEvent") /\ m \notin MsgsOf("tlm")
      <4>1. \A i \in CallsOf("tlm") \union CallsOf("critEvent") : calls[i].msg.id < m.id
        BY <1>t, <1>n, <2>3 DEF Ordered, CallsOf
      <4> QED
        BY <1>n, <2>3, <4>1, NewerIsFresh
    <3>2. Queue' = Append(Queue, m)
      <4>1. CASE pc \in Processing
        <5>1. Queue = <<msg>> \o pipe /\ Queue' = <<msg>> \o Append(pipe, m)
          BY <1>t, <2>1, <2>3, <4>1, QueueInHand DEF Queue, Processing
        <5>2. msg \in Msgs /\ pipe \in Seq(Msgs)
          BY <1>t, <4>1 DEF TypeOK, InHandOK
        <5> QED
          BY <2>3, <5>1, <5>2
      <4>2. CASE pc \notin Processing
        BY <1>t, <1>q, <2>1, <2>3, <4>2, QueueOtherwise
      <4> QED
        BY <4>1, <4>2
    <3> QED
      BY <2>1, <2>3, <3>1, <3>2 DEF FdirPromise!Accept, Queue
  <2> QED
    BY <1>1, <1>t, <2>2, <2>3, PublishAppends
<1>2. CASE Register \/ CreatePipe \/ Subscribe
  BY <1>2, <1>s DEF Register, CreatePipe, Subscribe, InitCall, Queue
<1>3. CASE InitTlm
  <2>1. CASE Call("initEvent", "initTlm", "runLoop")
    BY <2>1, <1>k DEF Kinds, Processing
  <2>2. CASE pc = "initTlm" /\ pc' = "runLoop" /\ UNCHANGED <<msg, pipe, calls>>
    BY <2>2, <1>s DEF Queue
  <2> QED
    BY <1>3, <2>1, <2>2 DEF InitTlm
<1>4. CASE RunLoop
  <2>1. CASE pc' = "receive" /\ UNCHANGED pipe
    BY <1>4, <2>1, <1>s DEF RunLoop, Queue
  <2>2. CASE pc' = "exited" /\ pipe' = <<>>
    <3>1. Queue' = <<>>
      BY <2>2 DEF Queue
    <3> QED
      BY <1>4, <3>1, <1>s DEF RunLoop, FdirPromise!Stop, Queue
  <2> QED
    BY <1>4, <2>1, <2>2 DEF RunLoop
<1>5. CASE Receive
  <2>1. pc = "receive" /\ pc' = "dispatch" /\ msg' = Head(pipe) /\ pipe' = Tail(pipe) /\ pipe # <<>>
    BY <1>5 DEF Receive
  <2>2. Queue = pipe /\ Queue' = <<Head(pipe)>> \o Tail(pipe)
    BY <1>t, <2>1, QueueOtherwise DEF Queue, Processing
  <2>3. Queue' = Queue
    BY <1>t, <2>1, <2>2 DEF TypeOK
  <2> QED
    BY <1>5, <1>s, <2>3 DEF Receive
<1>6. CASE ReceiveError
  BY <1>6, <1>s DEF ReceiveError, Queue
<1>7. CASE Unexpected
  <2>1. pc = "dispatch" /\ pc' = "runLoop" /\ msg.fc # 2 /\ UNCHANGED <<msg, pipe, calls>>
    BY <1>7 DEF Unexpected, FC_SEND_DATA
  <2>2. Queue # <<>> /\ Head(Queue) = msg /\ Tail(Queue) = pipe
    BY <1>t, <2>1, QueueInHand DEF Processing
  <2>3. Queue' = pipe
    BY <1>q, <2>1 DEF Processing
  <2>4. msg \notin Critical
    BY <2>1 DEF Critical
  <2>5. FdirPromise!Ignore
    BY <1>s, <2>1, <2>2, <2>3, <2>4 DEF FdirPromise!Ignore, Queue
  <2> QED
    BY <2>5
<1>8. CASE ProcessSensorData
  <2>1. pc \in Processing /\ pc' \in Processing /\ UNCHANGED <<msg, pipe, calls>>
    BY <1>8 DEF ProcessSensorData, Processing
  <2>2. Queue' = Queue
    BY <2>1 DEF Queue, Processing
  <2> QED
    BY <1>s, <2>1, <2>2
<1>9. CASE CritEvent
  <2>1. pc = "critEvent" /\ pc' = "sendTlm" /\ UNCHANGED <<msg, pipe>>
    BY <1>9 DEF CritEvent, Call
  <2>2. /\ MsgsOf("critEvent")' = MsgsOf("critEvent") \union {msg}
        /\ MsgsOf("tlm")' = MsgsOf("tlm")
    BY <1>9, <1>t, MsgsAfterCall DEF CritEvent, Kinds
  <2>3. Queue # <<>> /\ Head(Queue) = msg
    BY <1>t, <2>1, QueueInHand DEF Processing
  <2>4. msg \in Critical /\ msg \notin MsgsOf("critEvent")
    BY <1>t, <1>n, <2>1, NewerIsFresh DEF DueCalls, Ordered
  <2>5. Queue' = Queue
    BY <2>1 DEF Queue
  <2>6. FdirPromise!Close
    BY <2>2, <2>3, <2>4, <2>5 DEF FdirPromise!Close, Queue
  <2> QED
    BY <2>6
<1>10. CASE WarnEvent
  BY <1>10, <1>k DEF WarnEvent, Kinds, Processing
<1>11. CASE SendTlm
  <2>1. pc = "sendTlm" /\ pc' = "infEvent" /\ UNCHANGED <<msg, pipe>>
    BY <1>11 DEF SendTlm, Call
  <2>2. /\ MsgsOf("tlm")' = MsgsOf("tlm") \union {msg}
        /\ MsgsOf("critEvent")' = MsgsOf("critEvent")
    BY <1>11, <1>t, MsgsAfterCall DEF SendTlm, Kinds
  <2>3. Queue # <<>> /\ Head(Queue) = msg /\ Tail(Queue) = pipe
    BY <1>t, <2>1, QueueInHand DEF Processing
  <2>4. msg \in Critical => msg \in MsgsOf("critEvent")
    BY <1>t, <2>1 DEF DueCalls
  <2>5. msg \notin MsgsOf("tlm")
    BY <1>t, <1>n, <2>1, NewerIsFresh DEF Ordered, Processing
  <2>6. Queue' = pipe
    BY <1>q, <2>1 DEF Processing
  <2>7. FdirPromise!Report
    BY <2>2, <2>3, <2>4, <2>5, <2>6 DEF FdirPromise!Report, Queue
  <2> QED
    BY <2>7
<1>12. CASE InfEvent
  BY <1>12, <1>k DEF InfEvent, Kinds, Processing
<1>13. CASE Restart
  <2>1. Queue' = <<>>
    BY <1>13 DEF Restart, Queue
  <2>2. FdirPromise!Stop
    BY <1>13, <1>s, <2>1 DEF Restart, FdirPromise!Stop, Queue
  <2> QED
    BY <2>2
<1>14. CASE UNCHANGED vars
  BY <1>14, <1>s DEF vars, Queue
<1> QED
  BY <1>1, <1>2, <1>3, <1>4, <1>5, <1>6, <1>7, <1>8, <1>9, <1>10, <1>11, <1>12, <1>13, <1>14
     DEF Next, AppStep

-----------------------------------------------------------------------------
(* The senders, and what they sent.                                         *)

(* In module ThermalPath the application takes the steps of its own         *)
(* specification: nothing the senders do is more than a Publish.            *)
LEMMA AppTakesItsSteps ==
  ASSUME SendersOK, [PathNext]_pathVars
  PROVE  [Next]_vars
<1>1. CASE CiLab
  <2>1. PICK p \in uplink : Publish(p.fc, p.level)
    BY <1>1 DEF CiLab
  <2>2. p.fc \in FcnCodes /\ p.level \in Levels
    BY <2>1 DEF SendersOK
  <2> QED
    BY <2>1, <2>2 DEF Next
<1>2. CASE ThermRuns
  BY <1>2 DEF ThermRuns, Next
<1> QED
  BY <1>1, <1>2 DEF PathNext, SendButton, UpdateAndSend, SendSensorData, pathVars

LEMMA ClampInRange ==
  ASSUME NEW v \in Int
  PROVE  Clamp(v) \in min_value..max_value
BY DEF Clamp, min_value, max_value

LEMMA InitSenders == PathInit => SendersOK /\ Numbered
<1> SUFFICES ASSUME PathInit PROVE SendersOK /\ Numbered
  OBVIOUS
<1>1. default \in min_value..max_value /\ 0 \in 0..(SeqMod - 1) /\ 0 % SeqMod = 0
  BY SeqModAssumption DEF default, min_value, max_value
<1>2. sent \in Seq(Sends) /\ Len(sent) = 0 /\ \A s : SentBy(s) = {}
  BY EmptySeq DEF PathInit, SentBy
<1>3. IsFiniteSet(uplink) /\ Cardinality({}) = 0
  BY FS_EmptySet DEF PathInit
<1>4. SendersOK
  BY <1>1, <1>2, <1>3, SendsAssumption DEF PathInit, SendersOK
<1> QED
  BY <1>1, <1>2, <1>3, <1>4 DEF PathInit, Numbered

(* A send appends one record and adds at most one packet.                   *)
Leaves(by, fc, level, seq) ==
  /\ sends' = sends + 1 /\ sends' \in 0..MaxSends
  /\ sent' = Append(sent, [by |-> by, fc |-> fc, level |-> level, seq |-> seq])
  /\ [by |-> by, fc |-> fc, level |-> level, seq |-> seq] \in Sends
  /\ \E p \in [n : 1..MaxSends, fc : {fc}, level : {level}] : uplink' \in {uplink, uplink \union {p}}
  /\ UNCHANGED <<vars, dups>>

LEMMA ButtonLeaves ==
  ASSUME SendersOK, NEW s \in Sessions, NEW v \in Inputs, UpdateAndSend(s, v)
  PROVE  Leaves(s, FC_SEND_DATA, Clamp(v), _seq_count[s])
<1>1. sends + 1 \in 1..MaxSends /\ sends' \in 0..MaxSends
  BY SendsAssumption DEF SendersOK, UpdateAndSend
<1>2. Clamp(v) \in Levels /\ FC_SEND_DATA \in FcnCodes /\ _seq_count[s] \in 0..(SeqMod - 1)
  BY ClampAssumption, SensorAssumption DEF SendersOK
<1>3. Packet(FC_SEND_DATA, Clamp(v)) \in [n : 1..MaxSends, fc : {FC_SEND_DATA}, level : {Clamp(v)}]
  BY <1>1 DEF Packet
<1> QED
  BY <1>1, <1>2, <1>3 DEF UpdateAndSend, Packed, Leaves, Sends

LEMMA SuiteLeaves ==
  ASSUME SendersOK, SendSensorData
  PROVE  \E fc \in FcnCodes, level \in Levels : Leaves("suite", fc, level, 0)
<1>1. sends + 1 \in 1..MaxSends /\ sends' \in 0..MaxSends
  BY SendsAssumption DEF SendersOK, SendSensorData
<1>2. PICK fc \in FcnCodes, level \in SuiteLevels :
        /\ sent' = Append(sent, [by |-> "suite", fc |-> fc, level |-> level, seq |-> 0])
        /\ uplink' \in {uplink, uplink \union {Packet(fc, level)}}
  BY DEF SendSensorData
<1>3. Packet(fc, level) \in [n : 1..MaxSends, fc : {fc}, level : {level}] /\ level \in Levels
  BY <1>1, SuiteAssumption DEF Packet
<1>4. 0 \in 0..(SeqMod - 1)
  BY SeqModAssumption
<1>5. Leaves("suite", fc, level, 0)
  BY <1>1, <1>2, <1>3, <1>4 DEF SendSensorData, Leaves, Sends
<1> QED
  BY <1>3, <1>5

LEMMA LeavingKeepsTypes ==
  ASSUME SendersOK, NEW by, NEW fc \in FcnCodes, NEW level \in Levels, NEW seq, Leaves(by, fc, level, seq)
  PROVE  /\ uplink' \subseteq [n : 1..MaxSends, fc : FcnCodes, level : Levels] /\ IsFiniteSet(uplink')
         /\ sends' \in 0..MaxSends /\ dups' \in 0..MaxDups
         /\ sent' \in Seq(Sends) /\ Len(sent') = sends'
<1>1. PICK p \in [n : 1..MaxSends, fc : {fc}, level : {level}] : uplink' \in {uplink, uplink \union {p}}
  BY DEF Leaves
<1>2. uplink' \subseteq [n : 1..MaxSends, fc : FcnCodes, level : Levels] /\ IsFiniteSet(uplink')
  <2>1. IsFiniteSet(uplink) /\ IsFiniteSet(uplink \union {p})
    BY FS_AddElement DEF SendersOK
  <2>2. uplink \union {p} \subseteq [n : 1..MaxSends, fc : FcnCodes, level : Levels]
    BY DEF SendersOK
  <2> QED
    BY <1>1, <2>1, <2>2 DEF SendersOK
<1>3. sent' \in Seq(Sends) /\ Len(sent') = sends'
  BY AppendFacts DEF Leaves, SendersOK
<1> QED
  BY <1>2, <1>3 DEF Leaves, SendersOK

LEMMA NextSenders == SendersOK /\ [PathNext]_pathVars => SendersOK'
<1> SUFFICES ASSUME SendersOK, [PathNext]_pathVars PROVE SendersOK'
  OBVIOUS
<1>c. Sends' = Sends
  BY DEF Sends
<1>1. ASSUME NEW s \in Sessions, NEW v \in Inputs, UpdateAndSend(s, v) PROVE SendersOK'
  <2>1. Clamp(v) \in Levels /\ FC_SEND_DATA \in FcnCodes /\ Clamp(v) \in min_value..max_value
    BY ClampAssumption, SensorAssumption, InputsAssumption, ClampInRange
  <2>2. /\ uplink' \subseteq [n : 1..MaxSends, fc : FcnCodes, level : Levels] /\ IsFiniteSet(uplink')
        /\ sends' \in 0..MaxSends /\ dups' \in 0..MaxDups
        /\ sent' \in Seq(Sends) /\ Len(sent') = sends'
    BY <1>1, <2>1, ButtonLeaves, LeavingKeepsTypes
  <2>3. _value' \in [Sessions -> min_value..max_value]
    BY <1>1, <2>1 DEF UpdateAndSend, SendersOK
  <2>4. Next14(_seq_count[s]) \in 0..(SeqMod - 1)
    BY SeqModAssumption DEF Next14, SendersOK
  <2>5. _seq_count' \in [Sessions -> 0..(SeqMod - 1)]
    BY <1>1, <2>4 DEF UpdateAndSend, SendersOK
  <2> QED
    BY <1>c, <2>2, <2>3, <2>5 DEF SendersOK
<1>2. CASE SendSensorData
  <2>1. /\ uplink' \subseteq [n : 1..MaxSends, fc : FcnCodes, level : Levels] /\ IsFiniteSet(uplink')
        /\ sends' \in 0..MaxSends /\ dups' \in 0..MaxDups
        /\ sent' \in Seq(Sends) /\ Len(sent') = sends'
    BY <1>2, SuiteLeaves, LeavingKeepsTypes
  <2> QED
    BY <1>2, <1>c, <2>1 DEF SendSensorData, SendersOK
<1>3. CASE CiLab
  <2>1. PICK p \in uplink : \/ uplink' = uplink \ {p} /\ UNCHANGED dups
                            \/ dups < MaxDups /\ dups' = dups + 1 /\ UNCHANGED uplink
    BY <1>3 DEF CiLab
  <2>2. uplink' \subseteq uplink /\ IsFiniteSet(uplink') /\ dups' \in 0..MaxDups
    BY <2>1, FS_RemoveElement, SendsAssumption DEF SendersOK
  <2> QED
    BY <1>3, <1>c, <2>2 DEF CiLab, SendersOK
<1>4. CASE ThermRuns \/ UNCHANGED pathVars
  BY <1>4, <1>c DEF ThermRuns, pathVars, SendersOK
<1> QED
  BY <1>1, <1>2, <1>3, <1>4 DEF PathNext, SendButton

-----------------------------------------------------------------------------
(* The numbers of a session's packets.                                      *)

(* Counting modulo d, one at a time, is counting and then taking the        *)
(* remainder: the mask of base_sensor.py loses nothing but the wraps.       *)
LEMMA Remainder ==
  ASSUME NEW d \in Nat \ {0}, NEW q \in Nat, NEW r \in Nat, r < d
  PROVE  (q * d + r) % d = r
OBVIOUS

LEMMA Next14Counts ==
  ASSUME NEW d \in Nat, d > 0, NEW k \in Nat
  PROVE  ((k % d) + 1) % d = (k + 1) % d
<1>0. PICK q, r : q = k \div d /\ r = k % d
  OBVIOUS
<1>1. k = q * d + r
  BY <1>0
<1>2. q \in Int /\ r \in 0..(d - 1)
  BY <1>0
<1>3. q \in Nat
  <2>1. CASE q <= -1
    <3>1. q * d <= -d
      BY <1>2, <2>1
    <3> QED
      BY <1>1, <1>2, <2>1, <3>1
  <2> QED
    BY <1>2, <2>1
<1>4. CASE r + 1 < d
  <2>1. (q * d + (r + 1)) % d = r + 1 /\ (0 * d + (r + 1)) % d = r + 1
    BY <1>2, <1>3, <1>4, Remainder
  <2>2. k + 1 = q * d + (r + 1) /\ r + 1 = 0 * d + (r + 1)
    BY <1>1, <1>2, <1>3
  <2> QED
    BY <1>0, <2>1, <2>2
<1>5. CASE r + 1 = d
  <2>1. ((q + 1) * d + 0) % d = 0 /\ (1 * d + 0) % d = 0
    BY <1>3, Remainder
  <2>2. k + 1 = (q + 1) * d + 0 /\ r + 1 = 1 * d + 0
    BY <1>1, <1>2, <1>3, <1>5
  <2> QED
    BY <1>0, <2>1, <2>2
<1> QED
  BY <1>2, <1>4, <1>5

(* What a send does to the packets of each sender.                          *)
LEMMA SentAfterLeaving ==
  ASSUME SendersOK, NEW by, NEW fc, NEW level, NEW seq, Leaves(by, fc, level, seq)
  PROVE  \E n \in Nat :
           /\ n = Len(sent) /\ DOMAIN sent = 1..n /\ DOMAIN sent' = 1..(n + 1)
           /\ \A i \in 1..n : sent'[i] = sent[i]
           /\ sent'[n + 1] = [by |-> by, fc |-> fc, level |-> level, seq |-> seq]
           /\ SentBy(by)' = SentBy(by) \union {n + 1}
           /\ \A s : s # by => SentBy(s)' = SentBy(s)
           /\ \A s : SentBy(s) \subseteq 1..n /\ IsFiniteSet(SentBy(s)) /\ Cardinality(SentBy(s)) \in Nat
<1>1. PICK n \in Nat : n = Len(sent)
  BY LenProperties DEF SendersOK
<1>2. /\ DOMAIN sent = 1..n /\ DOMAIN sent' = 1..(n + 1)
      /\ \A i \in 1..n : sent'[i] = sent[i]
      /\ sent'[n + 1] = [by |-> by, fc |-> fc, level |-> level, seq |-> seq]
  BY <1>1, AppendFacts DEF Leaves, SendersOK
<1>3. 1..(n + 1) = 1..n \union {n + 1} /\ n + 1 \notin 1..n
  BY <1>1
<1>4. SentBy(by)' = SentBy(by) \union {n + 1}
  BY <1>2, <1>3 DEF SentBy
<1>5. \A s : s # by => SentBy(s)' = SentBy(s)
  BY <1>2, <1>3 DEF SentBy
<1>6. \A s : SentBy(s) \subseteq 1..n
  BY <1>2 DEF SentBy
<1>7. \A s : IsFiniteSet(SentBy(s)) /\ Cardinality(SentBy(s)) \in Nat
  <2>1. IsFiniteSet(1..n)
    BY <1>1, FS_Interval
  <2>2. \A s : IsFiniteSet(SentBy(s))
    BY <1>6, <2>1, FS_Subset
  <2> QED
    BY <2>2, FS_CardinalityType
<1> QED
  BY <1>1, <1>2, <1>4, <1>5, <1>6, <1>7

(* The packets of the same sender before packet i.                          *)
Earlier(i) == {j \in 1..(i - 1) : sent[j].by = sent[i].by}

LEMMA LeavingKeepsSeq ==
  ASSUME SendersOK, Numbered, SeqCountsSends,
         NEW by, NEW fc, NEW level, NEW seq, Leaves(by, fc, level, seq),
         by # "suite" => by \in Sessions /\ seq = _seq_count[by]
  PROVE  SeqCountsSends'
<1>1. PICK n \in Nat :
        /\ DOMAIN sent = 1..n /\ DOMAIN sent' = 1..(n + 1)
        /\ \A i \in 1..n : sent'[i] = sent[i]
        /\ sent'[n + 1] = [by |-> by, fc |-> fc, level |-> level, seq |-> seq]
  BY SentAfterLeaving
<1>2. ASSUME NEW i \in 1..n, sent[i].by # "suite" PROVE sent'[i].seq = Cardinality(Earlier(i)') % SeqMod
  <2>1. sent[i].seq = Cardinality(Earlier(i)) % SeqMod
    BY <1>1, <1>2 DEF SeqCountsSends, Earlier
  <2>2. \A j \in 1..(i - 1) : j \in 1..n
    BY <1>1
  <2>3. Earlier(i)' = Earlier(i)
    BY <1>1, <2>2 DEF Earlier
  <2> QED
    BY <1>1, <2>1, <2>3
<1>3. ASSUME by # "suite" PROVE sent'[n + 1].seq = Cardinality(Earlier(n + 1)') % SeqMod
  <2>1. Earlier(n + 1)' = SentBy(by)
    BY <1>1 DEF Earlier, SentBy
  <2> QED
    BY <1>1, <1>3, <2>1 DEF Numbered
<1>4. \A i \in 1..(n + 1) : sent'[i].by # "suite" => sent'[i].seq = Cardinality(Earlier(i)') % SeqMod
  BY <1>1, <1>2, <1>3
<1> QED
  BY <1>1, <1>4 DEF SeqCountsSends, Earlier

LEMMA NextNumbered ==
  ASSUME SendersOK, Numbered, SeqCountsSends, [PathNext]_pathVars
  PROVE  Numbered' /\ SeqCountsSends'
<1>1. ASSUME NEW s \in Sessions, NEW v \in Inputs, UpdateAndSend(s, v) PROVE Numbered' /\ SeqCountsSends'
  <2>1. Leaves(s, FC_SEND_DATA, Clamp(v), _seq_count[s])
    BY <1>1, ButtonLeaves
  <2>2. SeqCountsSends'
    BY <2>1, LeavingKeepsSeq
  <2>3. PICK n \in Nat :
          /\ SentBy(s)' = SentBy(s) \union {n + 1} /\ SentBy(s) \subseteq 1..n
          /\ \A u : u # s => SentBy(u)' = SentBy(u)
          /\ IsFiniteSet(SentBy(s)) /\ Cardinality(SentBy(s)) \in Nat
    BY <2>1, SentAfterLeaving
  <2>4. PICK k \in Nat : k = Cardinality(SentBy(s))
    BY <2>3
  <2>5. Cardinality(SentBy(s)') = k + 1
    <3>1. n + 1 \notin SentBy(s)
      BY <2>3
    <3>2. IsFiniteSet(SentBy(s))
      BY <2>3
    <3>3. Cardinality(SentBy(s) \union {n + 1}) = Cardinality(SentBy(s)) + 1
      BY <3>1, <3>2, FS_AddElement
    <3>4. SentBy(s)' = SentBy(s) \union {n + 1}
      BY <2>3
    <3> QED
      BY <2>4, <3>3, <3>4
  <2>6. _seq_count'[s] = (k + 1) % SeqMod
    <3>1. _seq_count'[s] = (_seq_count[s] + 1) % SeqMod /\ _seq_count[s] = k % SeqMod
      BY <1>1, <2>4 DEF UpdateAndSend, SendersOK, Next14, Numbered
    <3>2. SeqMod \in Nat /\ SeqMod > 0
      BY SeqModAssumption
    <3>3. ((k % SeqMod) + 1) % SeqMod = (k + 1) % SeqMod
      BY <3>2, Next14Counts
    <3> QED
      BY <3>1, <3>3
  <2>7. \A u \in Sessions : u # s => _seq_count'[u] = _seq_count[u]
    BY <1>1 DEF UpdateAndSend, SendersOK
  <2>8. \A u \in Sessions : _seq_count'[u] = Cardinality(SentBy(u)') % SeqMod
    BY <2>3, <2>5, <2>6, <2>7 DEF Numbered
  <2> QED
    BY <2>2, <2>8 DEF Numbered
<1>2. CASE SendSensorData
  <2>1. PICK fc \in FcnCodes, level \in Levels : Leaves("suite", fc, level, 0)
    BY <1>2, SuiteLeaves
  <2>2. \A u \in Sessions : SentBy(u)' = SentBy(u)
    BY <2>1, SentAfterLeaving, SenderAssumption
  <2>3. SeqCountsSends'
    BY <2>1, LeavingKeepsSeq
  <2> QED
    BY <1>2, <2>2, <2>3 DEF SendSensorData, Numbered
<1>3. CASE UNCHANGED <<sent, _seq_count>>
  BY <1>3 DEF Numbered, SeqCountsSends, SentBy
<1> QED
  BY <1>1, <1>2, <1>3 DEF PathNext, SendButton, CiLab, ThermRuns, pathVars

-----------------------------------------------------------------------------
(* Of each temperature, nothing is reported that was not sent or duplicated.*)

LEMMA CountsAreNaturals ==
  ASSUME TypeOK, SendersOK, NEW level
  PROVE  /\ IsFiniteSet(Reported(level)) /\ Cardinality(Reported(level)) \in Nat
         /\ IsFiniteSet(Piped(level)) /\ Cardinality(Piped(level)) \in Nat
         /\ IsFiniteSet(Coming(level)) /\ Cardinality(Coming(level)) \in Nat
         /\ IsFiniteSet(Origins(level)) /\ Cardinality(Origins(level)) \in Nat
         /\ InHand(level) \in {0, 1}
<1>1. IsFiniteSet(DOMAIN calls) /\ IsFiniteSet(DOMAIN sent) /\ IsFiniteSet(1..MaxPublished)
  BY FS_Interval, LenProperties, MaxPublishedAssumption DEF TypeOK, SendersOK
<1>2. Reported(level) \subseteq DOMAIN calls
  BY DEF Reported, CallsOf
<1>3. Piped(level) \subseteq 1..MaxPublished
  BY DEF Piped
<1>4. Coming(level) \subseteq uplink /\ IsFiniteSet(uplink)
  BY DEF Coming, SendersOK
<1>5. Origins(level) \subseteq DOMAIN sent
  BY DEF Origins
<1>6. /\ IsFiniteSet(Reported(level)) /\ IsFiniteSet(Piped(level))
      /\ IsFiniteSet(Coming(level)) /\ IsFiniteSet(Origins(level))
  BY <1>1, <1>2, <1>3, <1>4, <1>5, FS_Subset
<1>7. InHand(level) \in {0, 1}
  BY DEF InHand
<1> QED
  BY <1>6, <1>7, FS_CardinalityType

(* What is inside the application: reported, in hand and in its pipe.       *)
Inside(level) == Cardinality(Reported(level)) + InHand(level) + Cardinality(Piped(level))

LEMMA InsideNext ==
  ASSUME TypeOK', NEW level
  PROVE  Inside(level)' \in Nat
<1>1. calls' \in Seq([kind : Kinds, msg : Msgs \union {NoMsg}, count : Nat])
  BY DEF TypeOK, Msgs
<1>2. IsFiniteSet(1..Len(calls')) /\ DOMAIN calls' = 1..Len(calls')
  BY <1>1, LenProperties, FS_Interval
<1>3. IsFiniteSet(1..MaxPublished)
  BY MaxPublishedAssumption, FS_Interval
<1>4. Reported(level)' \subseteq 1..Len(calls') /\ Piped(level)' \subseteq 1..MaxPublished
  BY <1>2 DEF Reported, CallsOf, Piped
<1>5. Cardinality(Reported(level)') \in Nat /\ Cardinality(Piped(level)') \in Nat
  BY <1>2, <1>3, <1>4, FS_Subset, FS_CardinalityType
<1>6. InHand(level)' \in {0, 1}
  BY DEF InHand
<1> QED
  BY <1>5, <1>6 DEF Inside

(* One more command in the pipe is one more at most.                        *)
LEMMA PublishAddsOne ==
  ASSUME TypeOK, SendersOK, NEW level, NEW fc \in FcnCodes, NEW value \in Levels, Publish(fc, value)
  PROVE  Inside(level)' <= Inside(level) + (IF fc = FC_SEND_DATA /\ value = level THEN 1 ELSE 0)
<1> DEFINE more == IF fc = FC_SEND_DATA /\ value = level THEN 1 ELSE 0
<1>1. Reported(level)' = Reported(level) /\ InHand(level)' = InHand(level)
  BY DEF Publish, Reported, CallsOf, InHand, dataVars
<1>2. Cardinality(Piped(level)') <= Cardinality(Piped(level)) + more
  <2>1. CASE pipe' = pipe
    <3>1. Piped(level)' = Piped(level)
      BY <2>1 DEF Piped
    <3> QED
      BY <3>1, CountsAreNaturals
  <2>2. ASSUME NEW m \in Msgs, m.fc = fc, m.level = value, pipe' = Append(pipe, m)
        PROVE  Cardinality(Piped(level)') <= Cardinality(Piped(level)) + more
    <3>1. /\ DOMAIN pipe' = DOMAIN pipe \union {Len(pipe) + 1}
          /\ \A k \in DOMAIN pipe : pipe'[k] = pipe[k]
          /\ pipe'[Len(pipe) + 1] = m
      <4>1. 1..(Len(pipe) + 1) = 1..Len(pipe) \union {Len(pipe) + 1}
        BY LenProperties DEF TypeOK
      <4> QED
        BY <2>2, <4>1, AppendFacts DEF TypeOK
    <3>2. m.id \in 1..MaxPublished
      BY DEF Msgs
    <3>3. CASE fc = FC_SEND_DATA /\ value = level
      <4>1. Piped(level)' = Piped(level) \union {m.id}
        BY <2>2, <3>1, <3>2, <3>3 DEF Piped
      <4>2. PICK c \in Nat : c = Cardinality(Piped(level)) /\ IsFiniteSet(Piped(level))
        BY CountsAreNaturals
      <4>3. Cardinality(Piped(level)') \in {c, c + 1}
        BY <4>1, <4>2, FS_AddElement
      <4> QED
        BY <3>3, <4>2, <4>3
    <3>4. CASE ~(fc = FC_SEND_DATA /\ value = level)
      <4>1. Piped(level)' = Piped(level)
        BY <2>2, <3>1, <3>4 DEF Piped
      <4> QED
        BY <3>4, <4>1, CountsAreNaturals
    <3> QED
      BY <3>3, <3>4
  <2> QED
    BY <2>1, <2>2, PublishAppends
<1>3. Cardinality(Piped(level)') \in Nat
  <2>1. Piped(level)' \subseteq 1..MaxPublished
    BY DEF Piped
  <2>2. IsFiniteSet(1..MaxPublished)
    BY FS_Interval, MaxPublishedAssumption
  <2>3. IsFiniteSet(Piped(level)')
    BY <2>1, <2>2, FS_Subset
  <2> QED
    BY <2>3, FS_CardinalityType
<1> QED
  BY <1>1, <1>2, <1>3, CountsAreNaturals DEF Inside

(* The application's own steps pass readings on, or lose them.              *)
LEMMA AppLosesOrPasses ==
  ASSUME AppInv, SendersOK, NEW level, AppStep \/ ReceiveError \/ Restart
  PROVE  Inside(level)' <= Inside(level)
<1> USE DEF Goes, dataVars, busVars
<1>t. TypeOK /\ InHandOK /\ Ordered
  BY DEF AppInv
<1>c. PICK r \in Nat, h \in {0, 1}, p \in Nat :
        /\ r = Cardinality(Reported(level)) /\ h = InHand(level) /\ p = Cardinality(Piped(level))
        /\ IsFiniteSet(Reported(level)) /\ IsFiniteSet(Piped(level))
  BY <1>t, CountsAreNaturals
<1>r. calls' = calls => Reported(level)' = Reported(level)
  BY DEF Reported, CallsOf
<1>p. pipe' = pipe => Piped(level)' = Piped(level)
  BY DEF Piped
<1>e. pipe' = <<>> => Cardinality(Piped(level)') = 0
  <2> SUFFICES ASSUME pipe' = <<>> PROVE Cardinality(Piped(level)') = 0
    OBVIOUS
  <2>1. DOMAIN pipe' = {}
    OBVIOUS
  <2>2. Piped(level)' = {}
    BY <2>1 DEF Piped
  <2> QED
    BY <2>2, FS_EmptySet
<1>k. ASSUME NEW kind \in Kinds \ {"tlm"}, NEW here, NEW next, Call(kind, here, next),
             next \in Processing => here \in Processing
      PROVE  Inside(level)' <= Inside(level)
  <2>1. /\ CallsOf("tlm")' = CallsOf("tlm") /\ CallsOf("tlm") \subseteq 1..Len(calls)
        /\ \A i \in 1..Len(calls) : calls'[i] = calls[i]
    BY <1>k, <1>t, CallAddsOne, CallAppends
  <2>2. Reported(level)' = Reported(level)
    BY <2>1 DEF Reported
  <2>3. UNCHANGED <<msg, pipe>> /\ pc = here /\ pc' = next
    BY <1>k DEF Call
  <2>4. InHand(level)' \in {0, h}
    BY <1>c, <1>k, <2>3 DEF InHand
  <2> QED
    BY <1>c, <1>p, <2>2, <2>3, <2>4 DEF Inside
<1>1. CASE Register \/ CreatePipe \/ Subscribe
  <2>1. InHand(level)' = 0 /\ UNCHANGED <<calls, pipe>>
    BY <1>1 DEF Register, CreatePipe, Subscribe, InitCall, InHand, Processing
  <2> QED
    BY <1>c, <1>r, <1>p, <2>1 DEF Inside
<1>2. CASE InitTlm
  <2>1. CASE Call("initEvent", "initTlm", "runLoop")
    BY <2>1, <1>k DEF Kinds, Processing
  <2>2. CASE pc' = "runLoop" /\ UNCHANGED <<calls, pipe>>
    <3>1. InHand(level)' = 0
      BY <2>2 DEF InHand, Processing
    <3> QED
      BY <1>c, <1>r, <1>p, <2>2, <3>1 DEF Inside
  <2> QED
    BY <1>2, <2>1, <2>2 DEF InitTlm
<1>3. CASE RunLoop
  <2>1. InHand(level)' = 0 /\ UNCHANGED calls /\ (pipe' = pipe \/ pipe' = <<>>)
    BY <1>3 DEF RunLoop, InHand, Processing
  <2> QED
    BY <1>c, <1>r, <1>p, <1>e, <2>1 DEF Inside
<1>4. CASE Receive
  <2>1. /\ Len(pipe) \in Nat \ {0} /\ DOMAIN pipe = 1..Len(pipe)
        /\ DOMAIN pipe' = 1..(Len(pipe) - 1)
        /\ \A k \in 1..(Len(pipe) - 1) : pipe'[k] = pipe[k + 1]
        /\ msg' = pipe[1]
    BY <1>4, <1>t, HeadTailProperties, LenProperties, EmptySeq DEF Receive, TypeOK
  <2>2. pc = "receive" /\ pc' = "dispatch" /\ UNCHANGED calls
    BY <1>4 DEF Receive
  <2>3. h = 0
    BY <1>c, <2>2 DEF InHand, Processing
  <2>4. \A n \in Piped(level)' : n \in Piped(level)
    BY <2>1 DEF Piped
  <2>5. /\ 1 \in DOMAIN pipe /\ pipe[1].id \in 1..MaxPublished
        /\ \A k \in DOMAIN pipe' : k + 1 \in DOMAIN pipe /\ 1 < k + 1 /\ pipe'[k] = pipe[k + 1]
        /\ \A k \in DOMAIN pipe : pipe[k].id \in Int
    <3>1. 1 \in DOMAIN pipe /\ pipe[1] \in Msgs /\ \A k \in DOMAIN pipe : pipe[k].id \in Nat
      BY <1>t, <2>1, IdTypes
    <3>2. pipe[1].id \in 1..MaxPublished
      BY <3>1 DEF Msgs
    <3> QED
      BY <2>1, <3>1, <3>2
  <2>6. CASE msg'.fc = FC_SEND_DATA /\ msg'.level = level
    <3>1. pipe[1].id \in Piped(level)
      BY <2>1, <2>5, <2>6 DEF Piped
    <3>2. pipe[1].id \notin Piped(level)'
      <4>1. \A k \in DOMAIN pipe' : pipe[1].id < pipe'[k].id /\ pipe'[k].id \in Int
        BY <1>t, <2>5 DEF Ordered
      <4>2. \A k \in DOMAIN pipe' : pipe'[k].id # pipe[1].id
        BY <2>5, <4>1
      <4> QED
        BY <4>2 DEF Piped
    <3>3. Cardinality(Piped(level)') \in Nat /\ Cardinality(Piped(level)') <= p - 1
      <4>1. IsFiniteSet(Piped(level) \ {pipe[1].id}) /\ Cardinality(Piped(level) \ {pipe[1].id}) = p - 1
        BY <1>c, <3>1, FS_RemoveElement
      <4>2. Piped(level)' \subseteq Piped(level) \ {pipe[1].id}
        BY <2>4, <3>2
      <4> QED
        BY <4>1, <4>2, FS_Subset, FS_CardinalityType
    <3>4. InHand(level)' \in {0, 1}
      BY DEF InHand
    <3> QED
      BY <1>c, <1>r, <2>2, <2>3, <3>3, <3>4 DEF Inside
  <2>7. CASE ~(msg'.fc = FC_SEND_DATA /\ msg'.level = level)
    <3>1. InHand(level)' = 0
      BY <2>7 DEF InHand
    <3>2. Cardinality(Piped(level)') \in Nat /\ Cardinality(Piped(level)') <= p
      BY <1>c, <2>4, FS_Subset, FS_CardinalityType
    <3> QED
      BY <1>c, <1>r, <2>2, <2>3, <3>1, <3>2 DEF Inside
  <2> QED
    BY <2>6, <2>7
<1>5. CASE ReceiveError \/ Unexpected
  <2>1. InHand(level)' = 0 /\ UNCHANGED <<calls, pipe>>
    BY <1>5 DEF ReceiveError, Unexpected, InHand, Processing
  <2> QED
    BY <1>c, <1>r, <1>p, <2>1 DEF Inside
<1>6. CASE ProcessSensorData
  <2>1. InHand(level)' = h /\ UNCHANGED <<calls, pipe>>
    BY <1>c, <1>6 DEF ProcessSensorData, InHand, Processing
  <2> QED
    BY <1>c, <1>r, <1>p, <2>1 DEF Inside
<1>7. CASE CritEvent \/ WarnEvent \/ InfEvent
  BY <1>7, <1>k DEF CritEvent, WarnEvent, InfEvent, Kinds, Processing
<1>8. CASE SendTlm
  <2>1. /\ CallsOf("tlm")' = CallsOf("tlm") \union {Len(calls) + 1} /\ CallsOf("tlm") \subseteq 1..Len(calls)
        /\ \A i \in 1..Len(calls) : calls'[i] = calls[i]
        /\ calls'[Len(calls) + 1].msg = msg
    BY <1>8, <1>t, CallAddsOne, CallAppends DEF SendTlm, Kinds
  <2>2. pc = "sendTlm" /\ pc' = "infEvent" /\ UNCHANGED <<msg, pipe>> /\ msg.fc = FC_SEND_DATA
    BY <1>8, <1>t DEF SendTlm, Call, InHandOK, Processing
  <2>3. InHand(level)' = 0 /\ h = IF msg.level = level THEN 1 ELSE 0
    BY <1>c, <2>2 DEF InHand, Processing
  <2>4. Cardinality(Reported(level)') <= r + h /\ Cardinality(Reported(level)') \in Nat
    <3>1. CASE msg.level = level
      <4>1. Reported(level)' = Reported(level) \union {Len(calls) + 1}
        BY <2>1, <3>1 DEF Reported
      <4>2. Cardinality(Reported(level)') \in {r, r + 1}
        BY <1>c, <4>1, FS_AddElement
      <4> QED
        BY <1>c, <2>3, <3>1, <4>2
    <3>2. CASE msg.level # level
      <4>1. Reported(level)' = Reported(level)
        BY <2>1, <3>2 DEF Reported
      <4> QED
        BY <1>c, <2>3, <3>2, <4>1
    <3> QED
      BY <3>1, <3>2
  <2> QED
    BY <1>c, <1>p, <2>2, <2>3, <2>4 DEF Inside
<1>9. CASE Restart
  <2>1. InHand(level)' = 0 /\ UNCHANGED calls /\ pipe' = <<>>
    BY <1>9 DEF Restart, InHand, Processing
  <2> QED
    BY <1>c, <1>r, <1>e, <2>1 DEF Inside
<1> QED
  BY <1>1, <1>2, <1>3, <1>4, <1>5, <1>6, <1>7, <1>8, <1>9 DEF AppStep

LEMMA LeavingConserves ==
  ASSUME TypeOK, SendersOK, Conserved, NEW by, NEW fc, NEW value, NEW seq, Leaves(by, fc, value, seq),
         NEW level \in Levels
  PROVE  Inside(level)' + Cardinality(Coming(level)') <= Cardinality(Origins(level)') + dups'
<1> DEFINE match == fc = FC_SEND_DATA /\ value = level
<1>1. PICK i \in Nat, c \in Nat, o \in Nat :
        /\ i = Inside(level) /\ c = Cardinality(Coming(level)) /\ o = Cardinality(Origins(level))
        /\ IsFiniteSet(Coming(level)) /\ IsFiniteSet(Origins(level))
  BY CountsAreNaturals DEF Inside
<1>2. i + c <= o + dups /\ dups \in Nat
  BY <1>1, SendsAssumption DEF Conserved, Inside, SendersOK
<1>3. Inside(level)' = i /\ dups' = dups
  BY <1>1 DEF Leaves, vars, dataVars, busVars, Inside, Reported, CallsOf, InHand, Piped
<1>4. PICK n \in Nat :
        /\ DOMAIN sent = 1..n /\ DOMAIN sent' = 1..(n + 1)
        /\ \A k \in 1..n : sent'[k] = sent[k]
        /\ sent'[n + 1] = [by |-> by, fc |-> fc, level |-> value, seq |-> seq]
  BY SentAfterLeaving
<1>5. 1..(n + 1) = 1..n \union {n + 1} /\ n + 1 \notin 1..n
  OBVIOUS
<1>6. PICK p : p.fc = fc /\ p.level = value /\ uplink' \in {uplink, uplink \union {p}}
  BY DEF Leaves
<1>7. CASE match
  <2>1. Origins(level)' = Origins(level) \union {n + 1} /\ n + 1 \notin Origins(level)
    BY <1>4, <1>5, <1>7 DEF Origins
  <2>2. Cardinality(Origins(level)') = o + 1
    BY <1>1, <2>1, FS_AddElement
  <2>3. Coming(level)' \in {Coming(level), Coming(level) \union {p}}
    BY <1>6, <1>7 DEF Coming
  <2>4. Cardinality(Coming(level)') \in {c, c + 1}
    BY <1>1, <2>3, FS_AddElement
  <2> QED
    BY <1>2, <1>3, <2>2, <2>4
<1>8. CASE ~match
  <2>1. Origins(level)' = Origins(level)
    BY <1>4, <1>5, <1>8 DEF Origins
  <2>2. Coming(level)' = Coming(level)
    BY <1>6, <1>8 DEF Coming
  <2> QED
    BY <1>1, <1>2, <1>3, <2>1, <2>2
<1> QED
  BY <1>7, <1>8

LEMMA NextConserved ==
  ASSUME AppInv, SendersOK, Conserved, [PathNext]_pathVars
  PROVE  Conserved'
<1>t. TypeOK
  BY DEF AppInv
<1> SUFFICES ASSUME NEW level \in Levels
             PROVE  Inside(level)' + Cardinality(Coming(level)') <= Cardinality(Origins(level)') + dups'
  BY DEF Conserved, Inside
<1>1. PICK i \in Nat, c \in Nat, o \in Nat :
        /\ i = Inside(level) /\ c = Cardinality(Coming(level)) /\ o = Cardinality(Origins(level))
        /\ IsFiniteSet(Coming(level))
  BY <1>t, CountsAreNaturals DEF Inside
<1>2. i + c <= o + dups /\ dups \in Nat
  BY <1>1, SendsAssumption DEF Conserved, Inside, SendersOK
<1>3. CASE \E s \in Sessions, v \in Inputs : UpdateAndSend(s, v)
  BY <1>3, <1>t, ButtonLeaves, LeavingConserves
<1>4. CASE SendSensorData
  BY <1>4, <1>t, SuiteLeaves, LeavingConserves
<1>5. CASE CiLab
  <2>1. PICK p \in uplink :
          /\ \/ uplink' = uplink \ {p} /\ UNCHANGED dups
             \/ dups < MaxDups /\ dups' = dups + 1 /\ UNCHANGED uplink
          /\ Publish(p.fc, p.level)
    BY <1>5 DEF CiLab
  <2>2. p.fc \in FcnCodes /\ p.level \in Levels
    BY <2>1 DEF SendersOK
  <2>3. PICK more \in {0, 1} :
          /\ more = IF p.fc = FC_SEND_DATA /\ p.level = level THEN 1 ELSE 0
          /\ Inside(level)' <= i + more
    BY <1>t, <1>1, <2>1, <2>2, PublishAddsOne
  <2>4. Cardinality(Origins(level)') = o
    BY <1>1, <1>5 DEF CiLab, Origins
  <2>5. Inside(level)' \in Nat
    BY <1>t, NextType, AppTakesItsSteps, InsideNext
  <2>6. CASE uplink' = uplink \ {p} /\ UNCHANGED dups
    <3>1. Coming(level)' = IF more = 1 THEN Coming(level) \ {p} ELSE Coming(level)
      BY <2>3, <2>6 DEF Coming
    <3>2. more = 1 => p \in Coming(level)
      BY <2>3 DEF Coming
    <3>3. Cardinality(Coming(level)') = c - more
      <4>1. CASE more = 1
        BY <1>1, <3>1, <3>2, <4>1, FS_RemoveElement
      <4>2. CASE more = 0
        BY <1>1, <3>1, <4>2
      <4> QED
        BY <4>1, <4>2
    <3> QED
      BY <1>2, <2>3, <2>4, <2>5, <2>6, <3>3
  <2>7. CASE dups' = dups + 1 /\ UNCHANGED uplink
    <3>1. Cardinality(Coming(level)') = c
      BY <1>1, <2>7 DEF Coming
    <3> QED
      BY <1>2, <2>3, <2>4, <2>5, <2>7, <3>1
  <2> QED
    BY <2>1, <2>6, <2>7
<1>6. CASE ThermRuns
  <2>1. Inside(level)' <= i
    BY <1>1, <1>6, AppLosesOrPasses DEF ThermRuns
  <2>2. Coming(level)' = Coming(level) /\ Origins(level)' = Origins(level) /\ dups' = dups
    BY <1>6 DEF ThermRuns, Coming, Origins
  <2>3. Inside(level)' \in Nat
    BY <1>t, NextType, AppTakesItsSteps, InsideNext
  <2> QED
    BY <1>1, <1>2, <2>1, <2>2, <2>3
<1>7. CASE UNCHANGED pathVars
  BY <1>1, <1>2, <1>7 DEF pathVars, vars, dataVars, busVars, Inside, Reported, CallsOf, InHand, Piped, Coming, Origins
<1> QED
  BY <1>3, <1>4, <1>5, <1>6, <1>7 DEF PathNext, SendButton

-----------------------------------------------------------------------------
PathInv == AppInv /\ SendersOK /\ Numbered /\ SeqCountsSends /\ Conserved

LEMMA InitPathInv == PathInit => PathInv
<1> SUFFICES ASSUME PathInit PROVE PathInv
  OBVIOUS
<1>1. AppInv /\ SendersOK /\ Numbered
  BY InitApp, InitSenders DEF PathInit
<1>2. SeqCountsSends
  BY DEF PathInit, SeqCountsSends
<1>3. ASSUME NEW level \in Levels
      PROVE  Reported(level) = {} /\ Piped(level) = {} /\ Coming(level) = {} /\ InHand(level) = 0 /\ Origins(level) = {}
  BY DEF PathInit, Init, Reported, CallsOf, Piped, Coming, InHand, Processing, Origins
<1>4. Conserved
  <2> SUFFICES ASSUME NEW level \in Levels
               PROVE  Cardinality(Reported(level)) + InHand(level) + Cardinality(Piped(level))
                        + Cardinality(Coming(level)) <= Cardinality(Origins(level)) + dups
    BY DEF Conserved
  <2>1. Cardinality({}) = 0 /\ dups = 0
    BY FS_EmptySet DEF PathInit
  <2>2. /\ Cardinality(Reported(level)) = 0 /\ InHand(level) = 0 /\ Cardinality(Piped(level)) = 0
        /\ Cardinality(Coming(level)) = 0 /\ Cardinality(Origins(level)) = 0
    BY <1>3, <2>1
  <2> QED
    BY <2>1, <2>2
<1> QED
  BY <1>1, <1>2, <1>4 DEF PathInv

LEMMA NextPathInv == PathInv /\ [PathNext]_pathVars => PathInv'
BY AppTakesItsSteps, NextApp, NextSenders, NextNumbered, NextConserved DEF PathInv

(* Every state of the thermal path has the types of PathTypeOK.             *)
THEOREM TypeCorrect == PathSpec => []PathTypeOK
<1>1. PathInv => PathTypeOK
  BY DEF PathInv, AppInv, SendersOK, PathTypeOK
<1> QED
  BY <1>1, InitPathInv, NextPathInv, PTL DEF PathSpec

(* Whatever THERM_APP processes, loses or fails to initialise, the CRITICAL *)
(* events it logs are numbered 1, 2, 3, ... from each initialisation on.    *)
THEOREM TriggersAreNumbered == PathSpec => []TriggerCountsAreConsecutive
<1>1. PathInv => TriggerCountsAreConsecutive
  BY DEF PathInv, AppInv
<1> QED
  BY <1>1, InitPathInv, NextPathInv, PTL DEF PathSpec

(* No temperature is reported more often than it was sent as a reading or   *)
(* duplicated by the network: losses, overflows, errors and restarts only   *)
(* take readings away.                                                      *)
THEOREM NothingInvented == PathSpec => []ReportedWasSent
<1>1. PathInv => ReportedWasSent
  <2> SUFFICES ASSUME PathInv, NEW level \in Levels
               PROVE  Cardinality(Reported(level)) <= Cardinality(Origins(level)) + dups
    BY DEF ReportedWasSent, Reported, Origins
  <2>1. PICK r \in Nat, h \in Nat, p \in Nat, c \in Nat, o \in Nat :
          /\ r = Cardinality(Reported(level)) /\ h = InHand(level) /\ p = Cardinality(Piped(level))
          /\ c = Cardinality(Coming(level)) /\ o = Cardinality(Origins(level))
    BY CountsAreNaturals DEF PathInv, AppInv
  <2>2. r + h + p + c <= o + dups /\ dups \in Nat
    BY <2>1, SendsAssumption DEF PathInv, Conserved, SendersOK
  <2> QED
    BY <2>1, <2>2
<1> QED
  BY <1>1, InitPathInv, NextPathInv, PTL DEF PathSpec

(* Each session's packets carry the number of its sends before, modulo      *)
(* 2^14, also when a send failed and whoever else sends in between.         *)
THEOREM NumbersCountSends == PathSpec => []SeqCountsSends
<1>1. PathInv => SeqCountsSends
  BY DEF PathInv
<1> QED
  BY <1>1, InitPathInv, NextPathInv, PTL DEF PathSpec

(* THERM_APP, driven by its real senders, keeps the promise of Fdir with    *)
(* the CRITICAL event in the place of the close command.                    *)
THEOREM ThermAppImplementsFdir == PathSpec => ImplementsFdir
<1>1. PathInit => FdirPromise!Init
  <2> SUFFICES ASSUME PathInit PROVE FdirPromise!Init
    OBVIOUS
  <2>1. CallsOf("critEvent") = {} /\ CallsOf("tlm") = {}
    BY DEF PathInit, Init, CallsOf
  <2> QED
    BY <2>1 DEF PathInit, Init, FdirPromise!Init, MsgsOf
<1>2. PathInv /\ PathInv' /\ [PathNext]_pathVars => [FdirPromise!Next]_(FdirPromise!fdirVars)
  <2> SUFFICES ASSUME PathInv, PathInv', [PathNext]_pathVars
               PROVE  [FdirPromise!Next]_(FdirPromise!fdirVars)
    OBVIOUS
  <2>1. AppInv /\ AppInv' /\ [Next]_vars
    BY AppTakesItsSteps DEF PathInv
  <2>2. \/ FdirPromise!Next
        \/ UNCHANGED <<Queue, MsgsOf("critEvent"), MsgsOf("tlm")>>
    BY <2>1, NextImplementsFdir
  <2> QED
    BY <2>2 DEF FdirPromise!fdirVars, Queue
<1> QED
  BY <1>1, <1>2, InitPathInv, NextPathInv, PTL DEF PathSpec, ImplementsFdir, FdirPromise!Spec

=============================================================================
