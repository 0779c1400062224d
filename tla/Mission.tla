------------------------------- MODULE Mission -------------------------------
(***************************************************************************)
(* The loop from a sensor to the operator's screen and back: a reading is  *)
(* sent over UDP to CI_LAB, published on the software bus, processed by    *)
(* RAD_APP (module RadApp), its telemetry is forwarded by TO_LAB over UDP  *)
(* to the ground station, which displays the state of the solar panels.    *)
(* The operator commands the panels by the first half of the same route.   *)
(*                                                                         *)
(* External: CI_LAB, TO_LAB, the software bus and the UDP network, which   *)
(* may lose, reorder and duplicate packets.                                *)
(***************************************************************************)
EXTENDS Integers, Sequences

CONSTANTS
  Levels, FcnCodes, PipeDepth, TransmitOk, MaxPublished, MaxRestarts,  \* of RadApp
  ToLimit,      \* BufLimit of RAD_APP's telemetry in to_lab_sub.c (4)
  MaxReadings,  \* bound: readings the sensor sends
  MaxPresses,   \* bound: buttons the operator presses
  MaxDups       \* bound: packets the network duplicates

\* What RadApp assumes of its constants.
ASSUME RadAssumption     ==
  /\ Levels \subseteq Int /\ FcnCodes \subseteq Nat
  /\ TransmitOk \subseteq BOOLEAN /\ TransmitOk # {}
  /\ PipeDepth \in Nat \ {0} /\ MaxPublished \in Nat /\ MaxRestarts \in Nat
ASSUME ToLimitAssumption == ToLimit \in Nat \ {0}
ASSUME BoundsAssumption  == MaxReadings \in Nat /\ MaxPresses \in Nat /\ MaxDups \in Nat
\* RadApp's own bound never stops CI_LAB from publishing.
ASSUME RoomAssumption    == MaxPublished >= MaxReadings + MaxDups

VARIABLES
  pc, RunStatus, PacketCount, FdirTriggerCount, pipe, msg, subscribed,
  published, lost, calls, restarts,                                    \* of RadApp
  uplink,              \* command packets between the ground and CI_LAB
  solarBus,            \* history: the solar array commands published on MID 0x1890,
                       \* and the reading that RAD_APP answers by one
  toPipe,              \* RAD_APP's telemetry waiting in TO_LAB's pipe
  toEnabled,           \* TO_LAB forwards telemetry
  downlink,            \* telemetry packets between TO_LAB and the ground
  solar_array_status,  \* what the ground station displays
  fdirLog,             \* history: the readings for which the ground logged an auto-close
  opPc,                \* what the operator's button still has to do
  readings, presses, dups,
  losses,              \* history: a packet or message was lost somewhere, or telemetry
                       \* was not transmitted
  raced                \* history: an operator's command crossed a reading or its telemetry

radVars    == <<pc, RunStatus, PacketCount, FdirTriggerCount, pipe, msg, subscribed,
                published, lost, calls, restarts>>
busVars    == <<solarBus, toPipe, toEnabled>>
netVars    == <<uplink, downlink>>
groundVars == <<solar_array_status, fdirLog, opPc>>
boundVars  == <<readings, presses, dups>>
vars       == <<radVars, busVars, netVars, groundVars, boundVars, losses, raced>>

Rad == INSTANCE RadApp

ClosedByFdir     == "Closed (FDIR Auto)"
ClosedByOperator == "Closed (Operator)"
OpenByOperator   == "Open (Operator Override)"

(* Packets on the way up.  n tells two packets of the same content apart.   *)
EnablePacket     == [kind |-> "enable", n |-> 0, level |-> 0]
ReadingPacket(l) == [kind |-> "reading", n |-> readings + 1, level |-> l]
SolarPacket(k)   == [kind |-> k, n |-> presses + 1, level |-> 0]

-----------------------------------------------------------------------------
(* The ground station's services start by asking TO_LAB for telemetry.      *)
Init ==
  /\ Rad!Init
  /\ uplink = {EnablePacket}
  /\ solarBus = <<>>
  /\ toPipe = <<>>
  /\ toEnabled = FALSE
  /\ downlink = {}
  /\ solar_array_status = "Unknown"
  /\ fdirLog = {}
  /\ opPc = "idle"
  /\ readings = 0 /\ presses = 0 /\ dups = 0
  /\ losses = FALSE
  /\ raced = FALSE

(* Nothing is on its way.                                                   *)
Quiescent ==
  /\ uplink = {} /\ downlink = {} /\ toPipe = <<>> /\ pipe = <<>>
  /\ pc = "receive" /\ opPc = "idle"

-----------------------------------------------------------------------------
(* Sensor manager: one reading.                                             *)
SendReading ==
  /\ readings < MaxReadings
  /\ \E l \in Levels : uplink' = uplink \union {ReadingPacket(l)}
  /\ readings' = readings + 1
  /\ raced' = (raced \/ opPc # "idle" \/ \E p \in uplink : p.kind \in {"open", "close"})
  /\ UNCHANGED <<radVars, busVars, downlink, groundVars, presses, dups, losses>>

-----------------------------------------------------------------------------
(* The network.                                                             *)

(* Taking p out of a set of packets on the way, or a duplicate of it.       *)
Take(p, packets, rest) ==
  \/ rest = packets \ {p} /\ UNCHANGED dups
  \/ rest = packets /\ dups < MaxDups /\ dups' = dups + 1

Lose ==
  /\ \/ \E p \in uplink : uplink' = uplink \ {p} /\ UNCHANGED downlink
     \/ \E p \in downlink : downlink' = downlink \ {p} /\ UNCHANGED uplink
  /\ losses' = TRUE
  /\ UNCHANGED <<radVars, busVars, groundVars, boundVars, raced>>

-----------------------------------------------------------------------------
(* CI_LAB takes a command packet and publishes it.                          *)

PublishReading(p) ==
  /\ Rad!Publish
  /\ pipe' # pipe => pipe'[Len(pipe')].level = p.level
  /\ losses' = (losses \/ pipe' = pipe)
  /\ UNCHANGED busVars

(* A solar array command on the bus, of the operator or for a reading.      *)
Solar(kind, reading) == [kind |-> kind, reading |-> reading]

PublishSolar(p) ==
  /\ solarBus' = Append(solarBus, Solar(p.kind, Rad!NoMsg))
  /\ UNCHANGED <<radVars, toPipe, toEnabled, losses>>

EnableOutput ==
  /\ toEnabled' = TRUE
  /\ UNCHANGED <<radVars, solarBus, toPipe, losses>>

CiLab ==
  /\ \E p \in uplink :
       /\ Take(p, uplink, uplink')
       /\ \/ p.kind = "reading" /\ PublishReading(p)
          \/ p.kind \in {"open", "close"} /\ PublishSolar(p)
          \/ p.kind = "enable" /\ EnableOutput
  /\ UNCHANGED <<downlink, groundVars, readings, presses, raced>>

-----------------------------------------------------------------------------
(* RAD_APP runs; what it transmits reaches the subscribers, and what the    *)
(* bus fails to transmit does not: RAD_APP takes no notice.                 *)

Transmitted == IF Len(calls') > Len(calls) /\ calls'[Len(calls')].ok
                 THEN calls'[Len(calls')].kind ELSE "nothing"

RadRuns ==
  /\ Rad!AppStep \/ Rad!ReceiveError
  /\ solarBus' = IF Transmitted = "solarClose" THEN Append(solarBus, Solar("close", msg)) ELSE solarBus
  /\ toPipe' = IF Transmitted = "tlm" /\ Len(toPipe) < ToLimit
                 THEN Append(toPipe, msg) ELSE toPipe
  /\ losses' = (losses \/ lost' # lost \/ (pc = "sendTlm" /\ toPipe' = toPipe))
  /\ UNCHANGED <<toEnabled, netVars, groundVars, boundVars, raced>>

(* TO_LAB takes the oldest message, and sends it only when enabled.         *)
ToLab ==
  /\ toPipe # <<>>
  /\ toPipe' = Tail(toPipe)
  /\ IF toEnabled
       THEN downlink' = downlink \union {Head(toPipe)} /\ UNCHANGED losses
       ELSE losses' = TRUE /\ UNCHANGED downlink
  /\ UNCHANGED <<radVars, solarBus, toEnabled, uplink, groundVars, boundVars, raced>>

(* Executive Services restart RAD_APP alone, or the whole flight software.  *)
RestartFlight ==
  /\ Rad!Restart
  /\ losses' = TRUE
  /\ \/ UNCHANGED <<toPipe, toEnabled>>
     \/ toPipe' = <<>> /\ toEnabled' = FALSE
  /\ UNCHANGED <<solarBus, netVars, groundVars, boundVars, raced>>

-----------------------------------------------------------------------------
(* The ground station.                                                      *)

(* Faulty variant: the operator's choice is not overwritten.                *)
ClosedUnlessOverridden ==
  IF solar_array_status = OpenByOperator THEN OpenByOperator ELSE ClosedByFdir

AfterCritical == ClosedByFdir

(* The listener receives a packet and process() handles it: a critical      *)
(* health (RAD_APP_HEALTH_CRITICAL) marks the panels as closed by FDIR.     *)
GroundReceive ==
  /\ \E p \in downlink :
       /\ Take(p, downlink, downlink')
       /\ IF Rad!HealthOf(p.level) = "critical"
            THEN /\ solar_array_status' = AfterCritical
                 /\ fdirLog' = fdirLog \union {p}
            ELSE UNCHANGED <<solar_array_status, fdirLog>>
  /\ UNCHANGED <<radVars, busVars, uplink, opPc, readings, presses, losses, raced>>

(* The operator's buttons: the command is sent, then the status is set.     *)
PressSolar ==
  /\ opPc = "idle" /\ presses < MaxPresses
  /\ presses' = presses + 1
  /\ \E k \in {"open", "close"} : opPc' = k /\ uplink' = uplink \union {SolarPacket(k)}
  /\ raced' = (raced \/ ~Quiescent)
  /\ UNCHANGED <<radVars, busVars, downlink, solar_array_status, fdirLog, readings, dups, losses>>

UpdateStatus ==
  /\ opPc # "idle"
  /\ opPc' = "idle"
  /\ solar_array_status' = IF opPc = "open" THEN OpenByOperator ELSE ClosedByOperator
  /\ UNCHANGED <<radVars, busVars, netVars, fdirLog, boundVars, losses, raced>>

(* The Re-enable button.                                                    *)
PressEnable ==
  /\ opPc = "idle" /\ presses < MaxPresses
  /\ presses' = presses + 1
  /\ uplink' = uplink \union {EnablePacket}
  /\ UNCHANGED <<radVars, busVars, downlink, groundVars, readings, dups, losses, raced>>

-----------------------------------------------------------------------------
Next ==
  \/ SendReading \/ Lose \/ CiLab \/ RadRuns \/ ToLab \/ RestartFlight
  \/ GroundReceive \/ PressSolar \/ UpdateStatus \/ PressEnable

Spec == Init /\ [][Next]_vars

(* The tasks and threads are scheduled, and the network delivers what it    *)
(* does not lose.  Nobody has to send readings or to press a button.        *)
FairSpec ==
  /\ Spec
  /\ WF_vars(CiLab) /\ WF_vars(RadRuns /\ Rad!AppStep) /\ WF_vars(ToLab)
  /\ WF_vars(GroundReceive) /\ WF_vars(UpdateStatus)

-----------------------------------------------------------------------------
(* Properties.                                                              *)

(* The readings whose close command is on the bus, and those for which      *)
(* CFE_SB_TransmitMsg failed to put it there.                               *)
AutoCloses == {solarBus[i].reading : i \in {j \in DOMAIN solarBus : solarBus[j].kind = "close"}}
Unsent     == {calls[i].msg : i \in {j \in Rad!CallsOf("solarClose") : ~calls[j].ok}}

(* The log line "Solar Array Auto-Closed" (processor.py:103-106) and the    *)
(* event "SOLAR ARRAY CLOSE CMD SENT" (rad_app.c:96-102) say of a reading   *)
(* that the panels were commanded to close.  A command for that reading is  *)
(* on the bus by then, unless its very transmission failed: rad_app.c:94    *)
(* ignores the result, and then both are false.  Nothing else makes the    *)
(* ground tell of an auto-close that RAD_APP did not try: no loss, duplicate*)
(* or reordering, no restart between command and telemetry, no failure for  *)
(* another reading, no command of the operator; nor does the ground display *)
(* one without such a reading (rad_app.c:94-117, processor.py:101-106).     *)
AutoCloseWasCommandedUnlessUnsent ==
  /\ fdirLog \subseteq AutoCloses \union Unsent
  /\ solar_array_status = ClosedByFdir => fdirLog \intersect (AutoCloses \union Unsent) # {}

(* A critical reading that RAD_APP queued after telemetry was enabled is    *)
(* reported to the operator, unless a packet or message is lost somewhere.  *)
CriticalIsReported ==
  \A m \in Rad!Critical :
    (toEnabled /\ \E k \in DOMAIN pipe : pipe[k] = m) ~> (m \in fdirLog \/ losses)

(* What each command makes of the panels.                                   *)
Shows(kind) == IF kind = "open" THEN {OpenByOperator} ELSE {ClosedByFdir, ClosedByOperator}

(* solar_array_status is documented as the "Current solar array status"     *)
(* (processor.py:53): when nothing is on its way, and nothing was lost or   *)
(* duplicated, it is the state after the last command on the bus.           *)
StatusIsCurrent ==
  Quiescent /\ ~losses /\ dups = 0 =>
    IF solarBus = <<>> THEN solar_array_status = "Unknown"
    ELSE solar_array_status \in Shows(solarBus[Len(solarBus)].kind)

(* It is, when every close command was transmitted and no command of the    *)
(* operator crossed a reading or its telemetry: an auto-close after an      *)
(* override replaces it, and the other way round.                           *)
StatusIsCurrentUnlessRaced == ~raced /\ Unsent = {} => StatusIsCurrent

=============================================================================
