----------------------------- MODULE PacketLink -----------------------------
(***************************************************************************)
(* A packet on its way: a sensor or the ground station packs a command,    *)
(* the flight software unpacks a sensor reading and sends telemetry, the   *)
(* ground station parses what it receives (telemetry/parser.py).  One      *)
(* packet is under way at a time; what is checked is that the writers and  *)
(* the readers of the formats agree, at every boundary of their fields.    *)
(*                                                                         *)
(* External: the flight software's message headers and its event message,  *)
(* laid out as ccsds_utils.py 145-147 and telemetry_receiver.py 247-251    *)
(* describe them.  A float is its four bytes, most significant first.      *)
(***************************************************************************)
EXTENDS Ccsds, FiniteSets, SequencesExt

CONSTANTS
  Mids,         \* message ids, words
  FuncCodes,    \* function codes, bytes
  SeqCounts,    \* sequence counters
  Times,        \* [seconds |-> two words, subseconds |-> word]
  Readings,     \* sensor readings, four bytes each
  Healths,      \* health bytes
  Payloads,     \* other payloads
  AppNames,     \* event sender names, sequences of printable bytes
  Messages,     \* event texts, sequences of printable bytes
  AppNameSize   \* bytes of the sender's name in an event (20 in the program)

(* Every packet fits into its Length word; a name has no leading space.     *)
ASSUME LinkAssumption ==
  /\ Mids \subseteq Words /\ FuncCodes \subseteq Bytes /\ SeqCounts \subseteq Nat
  /\ \A t \in Times : t.seconds \in Words \X Words /\ t.subseconds \in Words
  /\ \A r \in Readings : r \in Seq(Bytes) /\ Len(r) = 4
  /\ Healths \subseteq Bytes
  /\ Payloads \subseteq Fitting(TlmHdrSize)
  /\ AppNameSize \in Nat
  /\ \A name \in AppNames : /\ name \in Seq(32..126) /\ name # <<>> /\ name[1] # 32
                            /\ Len(name) < AppNameSize
  /\ Messages \subseteq Fitting(TlmHdrSize + AppNameSize + 13)

VARIABLES
  stage,    \* "idle", "sent", "unpacked", "parsed"
  wire,     \* the bytes under way
  result,   \* what the receiver made of them
  origin    \* history: what the sender put in

linkVars == <<stage, wire, result, origin>>

TlmMidRad   == 2178   \* TLM_MID_RAD, 0x0882
TlmMidTherm == 2179   \* TLM_MID_THERM, 0x0883
EvsMid      == 2056   \* CFE_EVS_LONG_EVENT_MSG_MID, 0x0808
CmdMidRad   == 6274   \* RAD_APP_CMD_MID, 0x1882
SendData    == 2      \* RAD_APP_FC_SEND_DATA

-----------------------------------------------------------------------------
(* Packing commands.                                                        *)

(* The bit of weight w of a byte, and whether it is set in an odd number of *)
(* bytes: that is the bit of their XOR.                                     *)
Bit(b, w) == (b \div w) % 2
Odd(s, w) == Cardinality({i \in DOMAIN s : Bit(s[i], w) = 1}) % 2

XorOf(s) ==
  Odd(s, 1) + 2 * Odd(s, 2) + 4 * Odd(s, 4) + 8 * Odd(s, 8)
    + 16 * Odd(s, 16) + 32 * Odd(s, 32) + 64 * Odd(s, 64) + 128 * Odd(s, 128)

(* compute_checksum: the byte that makes the XOR of all bytes 0xFF.         *)
ComputeChecksum(packet) == 255 - XorOf(packet)

(* Faulty variant: the checksum is taken before the function code is in.    *)
SummedEarly(pri_hdr, func_code, payload) == pri_hdr \o payload

(* The bytes the checksum is taken of: the checksum byte is still 0.        *)
Summed(pri_hdr, func_code, payload) == pri_hdr \o <<func_code % 128, 0>> \o payload

(* pack_cmd_packet.                                                         *)
PackCmd(mid, func_code, payload, seq_count) ==
  LET pri_hdr == PriHdr(mid, SequenceWord(Standalone, seq_count),
                        PriHdrSize + CmdSecHdrSize + Len(payload))
  IN pri_hdr \o <<func_code % 128, ComputeChecksum(Summed(pri_hdr, func_code, payload))>> \o payload

(* The parser.                                                              *)

Printable(b) == 32 <= b /\ b < 127

(* _parse_evs: from the first printable byte up to the first NUL after it,  *)
(* other bytes as spaces, stripped; nothing printable gives the hex dump.   *)
EvsText(payload) ==
  LET ends    == {i \in DOMAIN payload :
                    payload[i] = 0 /\ \E j \in 1..i - 1 : Printable(payload[j])}
      visible == {i \in DOMAIN payload : /\ Printable(payload[i]) /\ payload[i] # 32
                                         /\ \A n \in ends : i < n}
      first   == Min(visible)
      last    == Max(visible)
  IN IF visible = {} THEN <<>>
     ELSE [k \in 1..last - first + 1 |->
             IF Printable(payload[first + k - 1]) THEN payload[first + k - 1] ELSE 32]

NoValue == <<>>    \* no value or event text in the dictionary

(* Payload of radiation and thermal telemetry: a little-endian float, then  *)
(* the health byte, 0 when it is missing.                                   *)
ReadingOf(type, payload) ==
  [type |-> type, value |-> Reverse(SubSeq(payload, 1, 4)),
   health |-> IF Len(payload) > 4 THEN payload[5] ELSE 0, event_text |-> NoValue]

(* parse_packet, from the telemetry header on: the "type" and the payload   *)
(* fields.                                                                  *)
Decoded(mid, payload) ==
  IF mid = TlmMidRad /\ Len(payload) >= 4 THEN ReadingOf("radiation", payload)
  ELSE IF mid = TlmMidTherm /\ Len(payload) >= 4 THEN ReadingOf("thermal", payload)
  ELSE [type |-> IF mid = EvsMid THEN "evs" ELSE "unknown", value |-> NoValue, health |-> 0,
        event_text |-> IF mid = EvsMid THEN EvsText(payload) ELSE NoValue]

(* A datagram too short for the primary header gives "raw" only, one too    *)
(* short for the telemetry header the primary header's fields and "raw".    *)
ParsePacket(data) ==
  IF Len(data) < PriHdrSize THEN [fields |-> "raw"]
  ELSE IF Len(data) < TlmHdrSize THEN [fields |-> "header", header |-> UnpackPriHdr(data)]
  ELSE [fields |-> "telemetry", header |-> UnpackPriHdr(data),
        seconds |-> UnpackTlm(data).seconds, subseconds |-> UnpackTlm(data).subseconds,
        decoded |-> Decoded(WordAt(data, 1), UnpackTlm(data).payload)]

-----------------------------------------------------------------------------
(* Whether the whole packet is on the wire, as its Length word says.        *)
Whole == Len(wire) >= PriHdrSize /\ Len(wire) = WordAt(wire, 5) + 7

Nothing == [kind |-> "nothing"]

LinkInit ==
  /\ stage = "idle"
  /\ wire = <<>>
  /\ result = Nothing
  /\ origin = Nothing

(* A command of the ground station, or a reading of a sensor.               *)
SendCommand ==
  /\ stage = "idle"
  /\ \E mid \in Mids, fc \in FuncCodes, seq \in SeqCounts, payload \in Payloads \cup Readings :
       /\ wire' = PackCmd(mid, fc, payload, seq)
       /\ origin' = [kind |-> "command", mid |-> mid, fc |-> fc, seq |-> seq, payload |-> payload]
  /\ stage' = "sent"
  /\ UNCHANGED result

(* Telemetry payloads of the thermal and radiation applications: reading    *)
(* and health byte in the processor's byte order.                           *)
HousekeepingPayloads == {Reverse(r) \o <<h>> : r \in Readings, h \in Healths}

(* Telemetry of any message id.                                             *)
SendTelemetry ==
  /\ stage = "idle"
  /\ \E mid \in Mids, seq \in SeqCounts, time \in Times, payload \in Payloads \cup HousekeepingPayloads :
       /\ wire' = PackTlm(mid, payload, seq, time.seconds, time.subseconds)
       /\ origin' = [kind |-> "telemetry", mid |-> mid, seq |-> seq, time |-> time, payload |-> payload]
  /\ stage' = "sent"
  /\ UNCHANGED result

(* An event message of the flight software: the sender's name padded with   *)
(* NULs, event id and type, spacecraft and processor id, and the text.      *)
EventPayload(name, message) ==
  LET padding == [i \in 1..AppNameSize - Len(name) |-> 0]
      numbers == <<1, 0, 2, 0, 66, 0, 0, 0, 1, 0, 0, 0>>
  IN name \o padding \o numbers \o message \o <<0>>

SendEvent ==
  /\ stage = "idle"
  /\ \E name \in AppNames, message \in Messages, seq \in SeqCounts, time \in Times :
       /\ wire' = PackTlm(EvsMid, EventPayload(name, message), seq, time.seconds, time.subseconds)
       /\ origin' = [kind |-> "event", name |-> name, message |-> message, seq |-> seq, time |-> time]
  /\ stage' = "sent"
  /\ UNCHANGED result

(* A datagram that holds only the first bytes of a packet.                  *)
Cut ==
  /\ stage = "sent"
  /\ \E n \in 0..(Len(wire) - 1) : wire' = SubSeq(wire, 1, n)
  /\ UNCHANGED <<stage, result, origin>>

(* verify_core.py, for any command: the XOR of all bytes, and whether what  *)
(* is unpacked is what was packed.                                          *)
ChecksumVerified(packet) == XorOf(packet) = 255

RoundTripVerified(packet, apid, fc) ==
  LET unpacked == UnpackCmd(packet) IN
  /\ unpacked.header.apid = apid
  /\ unpacked.header.pkt_type = 1
  /\ unpacked.func_code = fc

(* unpack_cmd_packet: at the command's receiver.                            *)
Unpack ==
  /\ stage = "sent" /\ origin.kind = "command"
  /\ Len(wire) >= PriHdrSize + CmdSecHdrSize
  /\ result' = UnpackCmd(wire)
  /\ stage' = "unpacked"
  /\ UNCHANGED <<wire, origin>>

(* Faulty variant: the float is taken as it lies in the packet.             *)
NetworkToHostAsIs(float) == float

(* NetworkToHostFloat on a little-endian processor.                         *)
NetworkToHost(float) == Reverse(float)

(* The radiation application turns a reading into telemetry, with the value *)
(* as it lies in its memory.  A sensor's command comes whole or not at all.  *)
FlightApp ==
  /\ stage = "unpacked" /\ Whole /\ origin.payload \in Readings
  /\ origin.mid = CmdMidRad /\ result.func_code = SendData
  /\ \E seq \in SeqCounts, time \in Times, health \in Healths :
       wire' = PackTlm(TlmMidRad, NetworkToHost(result.payload) \o <<health, 0, 0, 0>>, seq,
                       time.seconds, time.subseconds)
  /\ origin' = [kind |-> "reading", reading |-> origin.payload]
  /\ stage' = "sent"
  /\ UNCHANGED result

(* parse_packet: at the ground station.                                     *)
Parse ==
  /\ stage = "sent"
  /\ result' = ParsePacket(wire)
  /\ stage' = "parsed"
  /\ UNCHANGED <<wire, origin>>

Done ==
  /\ stage \in {"unpacked", "parsed"}
  /\ stage' = "idle" /\ wire' = <<>> /\ result' = Nothing /\ origin' = Nothing

LinkNext ==
  \/ SendCommand \/ SendTelemetry \/ SendEvent
  \/ Cut \/ Unpack \/ FlightApp \/ Parse \/ Done

LinkSpec == LinkInit /\ [][LinkNext]_linkVars

-----------------------------------------------------------------------------
(* Properties.                                                              *)

(* The verification script's verdict on a command, whatever its sequence    *)
(* counter and payload: the checksum always closes, and the round trip      *)
(* passes for a command message id and a function code of seven bits, and   *)
(* for no other (verify_core.py 61-79, ccsds_utils.py 85-133).              *)
VerifierIsRight ==
  stage = "sent" /\ origin.kind = "command" /\ Whole =>
    /\ ChecksumVerified(wire)
    /\ RoundTripVerified(wire, origin.mid % 2048, origin.fc)
         <=> (origin.mid \div 4096) % 2 = 1 /\ origin.fc < 128

(* What is unpacked from a command is what was packed, up to the widths of  *)
(* the fields (ccsds_utils.py 97-133, 196-213).                             *)
CommandSurvives ==
  stage = "unpacked" /\ Whole =>
    /\ StreamId(result.header.version, result.header.pkt_type,
                result.header.sec_hdr_flag, result.header.apid) = origin.mid
    /\ result.header.seq_count = origin.seq % 16384
    /\ result.func_code = origin.fc % 128
    /\ result.payload = origin.payload

(* What the ground station makes of a telemetry datagram, of a part of one  *)
(* too, is never something else than the sender put in: a field is missing  *)
(* or right; only a missing health byte reads as 0 (parser.py 30-89).  Of an*)
(* event message that holds for its header.                                 *)
NothingMisread ==
  stage = "parsed" /\ origin.kind \in {"telemetry", "event"} =>
    /\ result.fields \in {"header", "telemetry"} => result.header.seq_count = origin.seq % 16384
    /\ result.fields = "telemetry" =>
         result.seconds = origin.time.seconds /\ result.subseconds = origin.time.subseconds
    /\ origin.kind = "telemetry" =>
         /\ result.fields = "telemetry" /\ result.decoded.value # NoValue =>
              /\ result.decoded.value = Reverse(SubSeq(origin.payload, 1, 4))
              /\ result.decoded.health \in
                   {0} \cup {origin.payload[i] : i \in {5} \cap DOMAIN origin.payload}
         /\ Whole /\ Len(origin.payload) > 4 /\ origin.mid \in {TlmMidRad, TlmMidTherm} =>
              result.fields = "telemetry" /\ result.decoded.health = origin.payload[5]

(* parser.py:4-5 says that EVS messages "are decoded to extract printable   *)
(* ASCII event strings", and processor.py:128-132 looks for what the event  *)
(* says in them: the message of an event that arrives whole is in its text. *)
(* It is not: _parse_evs stops at the NUL behind the sender's name, which   *)
(* comes before the message.                                                *)
EventMessageIsExtracted ==
  stage = "parsed" /\ origin.kind = "event" /\ Whole =>
    origin.message \in SubSeqs(result.decoded.event_text)

(* A sensor's reading reaches the ground station as the same number, over   *)
(* two byte orders and three programs (base_sensor.py 54-56, rad_app.c      *)
(* 24-34, parser.py 54-57).                                                 *)
ReadingSurvives ==
  stage = "parsed" /\ origin.kind = "reading" /\ Whole =>
    result.decoded.type = "radiation" /\ result.decoded.value = origin.reading

=============================================================================
