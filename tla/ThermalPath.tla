----------------------------- MODULE ThermalPath -----------------------------
(***************************************************************************)
(* From the senders of temperatures to THERM_APP.  A sensor object of      *)
(* sensor_manager/core/base_sensor.py, one per browser session             *)
(* (manager_app.py 48-51), keeps a value within its range and numbers and  *)
(* sends its readings; the integration suite sends commands of its own on  *)
(* the same MID.  CI_LAB and the network, external, may lose, reorder and  *)
(* duplicate them before they are published.                               *)
(***************************************************************************)
EXTENDS ThermApp

CONSTANTS
  Sessions,     \* browser sessions of the sensor manager
  Inputs,       \* values update_and_send is called with
  SuiteLevels,  \* values send_sensor_data of the integration suite is called with
  SeqMod,       \* 2^14: the counter is masked with 0x3FFF
  MaxSends,     \* bound: commands sent
  MaxDups       \* bound: packets the network duplicates

ASSUME InputsAssumption == Inputs \subseteq Int
ASSUME SuiteAssumption  == SuiteLevels \subseteq Levels
ASSUME SeqModAssumption == SeqMod \in Nat \ {0}
ASSUME SendsAssumption  == MaxSends \in Nat /\ MaxDups \in Nat
ASSUME SenderAssumption == "suite" \notin Sessions
\* The sensor's function code is one of those that can arrive.
ASSUME SensorAssumption == FC_SEND_DATA \in FcnCodes
\* ThermApp's own bound never stops CI_LAB from publishing.
ASSUME RoomAssumption   == MaxPublished >= MaxSends + MaxDups

VARIABLES
  _value,      \* _value[s]: the value of session s's sensor, shown as "Current Value"
  _seq_count,  \* its sequence counter
  uplink,      \* command packets on their way
  sends, dups,
  sent         \* history: every send, with its sender, the value packed and the number

pathVars == <<vars, _value, _seq_count, uplink, sends, dups, sent>>

\* thermal_sensor.py
min_value == -40
max_value == 85
default   == 20

(* Faulty variant: no upper bound.                                          *)
ClampBelow(v) == IF v < min_value THEN min_value ELSE v

(* The value setter: max(min_value, min(max_value, new_value)).             *)
Clamp(v) == IF v < min_value THEN min_value ELSE IF v > max_value THEN max_value ELSE v

\* What the sensors send is among the temperatures that can arrive.
ASSUME ClampAssumption == \A v \in Inputs : Clamp(v) \in Levels

PathInit ==
  /\ Init
  /\ _value = [s \in Sessions |-> default]
  /\ _seq_count = [s \in Sessions |-> 0]
  /\ uplink = {}
  /\ sends = 0 /\ dups = 0
  /\ sent = <<>>

Packet(fc, level) == [n |-> sends + 1, fc |-> fc, level |-> level]

(* Faulty variants: the payload is packed before the value is set; the      *)
(* counter is not masked.                                                   *)
PackedBeforeSet(s, v) == _value[s]
NextUnmasked(n)       == n + 1

Packed(s, v) == Clamp(v)
Next14(n)    == (n + 1) % SeqMod

(* update_and_send(): the value is set, the counter moves on, and then the  *)
(* packet leaves, or sendto raises.  A session's sensor is its own.         *)
UpdateAndSend(s, v) ==
  /\ sends < MaxSends
  /\ sends' = sends + 1
  /\ _value' = [_value EXCEPT ![s] = Clamp(v)]
  /\ sent' = Append(sent, [by |-> s, fc |-> FC_SEND_DATA, level |-> Clamp(v), seq |-> _seq_count[s]])
  /\ uplink' \in {uplink, uplink \union {Packet(FC_SEND_DATA, Packed(s, v))}}
  /\ _seq_count' = [_seq_count EXCEPT ![s] = Next14(@)]
  /\ UNCHANGED <<vars, dups>>

(* The Send button of a session: the slider's value goes to update_and_send,*)
(* whose exception is shown.  The slider offers the sensor's range; Inputs  *)
(* go beyond it, as the setter allows.                                      *)
SendButton(s) == \E v \in Inputs : UpdateAndSend(s, v)

(* send_sensor_data(): any function code and value, always with number 0.   *)
SendSensorData ==
  /\ sends < MaxSends
  /\ sends' = sends + 1
  /\ \E fc \in FcnCodes, level \in SuiteLevels :
       /\ sent' = Append(sent, [by |-> "suite", fc |-> fc, level |-> level, seq |-> 0])
       /\ uplink' \in {uplink, uplink \union {Packet(fc, level)}}
  /\ UNCHANGED <<vars, _value, _seq_count, dups>>

(* CI_LAB takes a packet, or a copy of it, and publishes it.  A packet the   *)
(* network loses is one that is never taken: nothing makes CI_LAB do it.    *)
CiLab ==
  /\ \E p \in uplink :
       /\ \/ uplink' = uplink \ {p} /\ UNCHANGED dups
          \/ dups < MaxDups /\ dups' = dups + 1 /\ UNCHANGED uplink
       /\ Publish(p.fc, p.level)
  /\ UNCHANGED <<_value, _seq_count, sends, sent>>

ThermRuns ==
  /\ AppStep \/ ReceiveError \/ Restart
  /\ UNCHANGED <<_value, _seq_count, uplink, sends, dups, sent>>

PathNext ==
  (\E s \in Sessions : SendButton(s)) \/ SendSensorData \/ CiLab \/ ThermRuns

PathSpec == PathInit /\ [][PathNext]_pathVars

-----------------------------------------------------------------------------
(* Properties.                                                              *)

(* The types of the application's and of the senders' variables.            *)
PathTypeOK ==
  /\ TypeOK
  /\ \A s \in Sessions : _value[s] \in min_value..max_value /\ _seq_count[s] \in 0..(SeqMod - 1)
  /\ uplink \subseteq [n : 1..MaxSends, fc : FcnCodes, level : Levels]
  /\ sends \in 0..MaxSends /\ dups \in 0..MaxDups
  /\ Len(sent) = sends

(* What THERM_APP reports is what a sender gave it: each telemetry packet   *)
(* carries a value that was sent as a reading, as often as it was sent or   *)
(* duplicated at most, through losses, errors and restarts.                 *)
ReportedWasSent ==
  \A level \in Levels :
    LET reported == {i \in CallsOf("tlm") : calls[i].msg.level = level}
        origins  == {i \in DOMAIN sent : sent[i].level = level /\ sent[i].fc = FC_SEND_DATA}
    IN Cardinality(reported) <= Cardinality(origins) + dups

(* The numbers of one session's packets tell its losses: they count its     *)
(* sends, failed ones included (base_sensor.py 64-68).                      *)
SeqCountsSends ==
  \A i \in DOMAIN sent : sent[i].by # "suite" =>
    sent[i].seq = Cardinality({j \in 1..(i - 1) : sent[j].by = sent[i].by}) % SeqMod

=============================================================================
