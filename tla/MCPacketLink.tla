----------------------------- MODULE MCPacketLink -----------------------------
(***************************************************************************)
(* Instances of PacketLink at the boundaries of the formats' fields, and   *)
(* the loops of the code that PacketLink states as what they compute:      *)
(* compared on small inputs whenever the instance is checked.              *)
(***************************************************************************)
EXTENDS PacketLink, Bitwise

(* The loops of compute_checksum (from 255) and verify_core.py (from 0).    *)
XorLoop(init, packet) == FoldLeft(LAMBDA acc, b : acc ^^ b, init, packet)

ASSUME ChecksumIsTheLoop ==
  \A packet \in SeqOf({1, 127, 128, 170, 255}, 4) \cup {<<a, b>> : a \in Bytes, b \in {0, 85, 254}} :
    /\ ComputeChecksum(packet) = XorLoop(255, packet)
    /\ ChecksumVerified(packet) <=> XorLoop(0, packet) = 255

(* The loop of _parse_evs, then strip.                                      *)
EvsLoop(payload) ==
  LET kept(s) == {i \in DOMAIN s : s[i] # 32}
      strip(s) == IF kept(s) = {} THEN <<>> ELSE SubSeq(s, Min(kept(s)), Max(kept(s)))
      scan == FoldLeft(LAMBDA acc, b :
                IF acc.done THEN acc
                ELSE IF Printable(b) THEN [acc EXCEPT !.text = Append(@, b)]
                ELSE IF acc.text = <<>> THEN acc
                ELSE IF b = 0 THEN [acc EXCEPT !.done = TRUE]
                ELSE [acc EXCEPT !.text = Append(@, 32)],
                [text |-> <<>>, done |-> FALSE], payload)
  IN strip(scan.text)

ASSUME EvsTextIsTheLoop ==
  \A payload \in SeqOf({0, 7, 32, 65}, 6) : EvsText(payload) = EvsLoop(payload)

\* radiation, thermal, event, unknown telemetry, sensor command, all bits set
AllMids   == {2178, 2179, 2056, 2303, 6274, 65535}
EdgeSeqs  == {0, 16383, 16384}
EdgeCodes == {2, 127, 128, 255}

\* before and after the sign bit of the 32-bit seconds
EdgeTimes == {[seconds |-> <<0, 0>>, subseconds |-> 65535],
              [seconds |-> <<32768, 1>>, subseconds |-> 0]}

\* 150.0 and 1000.0
SomeReadings == {<<67, 22, 0, 0>>, <<68, 122, 0, 0>>}

\* nothing, less than a float, a bare float, an event text with a NUL inside
SomePayloads == {<<>>, <<255, 0, 127>>, <<1, 2, 3, 4>>, <<65, 7, 66, 0, 67>>}

EventNames == {<<82, 65, 68>>}
EventTexts == {<<79>>, <<67, 76, 79, 83, 69>>}

=============================================================================
