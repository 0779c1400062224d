-------------------------------- MODULE Ccsds --------------------------------
(***************************************************************************)
(* The packet formats of sensor_manager/core/ccsds_utils.py.  A packet is  *)
(* a sequence of bytes, a byte a number below 256, a word one below 65536. *)
(* A mask "& (2^n - 1)" is "% 2^n", a shift is a product or a quotient.    *)
(* The checksum is in PacketLink.                                          *)
(***************************************************************************)
EXTENDS Integers, Sequences

PriHdrSize    == 6    \* CCSDS_PRI_HDR_SIZE
CmdSecHdrSize == 2    \* CCSDS_CMD_SEC_HDR_SIZE
TlmSecHdrSize == 6    \* CCSDS_TLM_SEC_HDR_SIZE
TlmHdrSpare   == 4    \* CCSDS_TLM_HDR_SPARE
TlmHdrSize    == PriHdrSize + TlmSecHdrSize + TlmHdrSpare

Standalone == 3       \* CCSDS_SEQ_STANDALONE

Bytes == 0..255
Words == {w \in Nat : w < 65536}

-----------------------------------------------------------------------------
(* CCSDSPrimaryHeader.pack: the bit fields of the three words.  Each field  *)
(* is masked to its width.                                                  *)
StreamId(version, pkt_type, sec_hdr_flag, apid) ==
  (version % 8) * 8192 + (pkt_type % 2) * 4096 + (sec_hdr_flag % 2) * 2048 + (apid % 2048)

SequenceWord(seq_flags, seq_count) == (seq_flags % 4) * 16384 + (seq_count % 16384)

(* CCSDSPrimaryHeader.unpack: the fields of the three words.                *)
Version(stream_id)    == (stream_id \div 8192) % 8
PktType(stream_id)    == (stream_id \div 4096) % 2
SecHdrFlag(stream_id) == (stream_id \div 2048) % 2
Apid(stream_id)       == stream_id % 2048
SeqFlags(sequence)    == (sequence \div 16384) % 4
SeqCount12(sequence)  == sequence % 4096    \* faulty variant: a mask too narrow
SeqCount(sequence)    == sequence % 16384

(* struct '!H': a word, most significant byte first.                        *)
WordBytes(word)    == <<word \div 256, word % 256>>
WordAt(data, at)   == data[at] * 256 + data[at + 1]

(* struct '!HHH': StreamId, Sequence and Length, which counts the bytes     *)
(* after the first seven.                                                   *)
PriHdr(stream_id, sequence, total_length) ==
  WordBytes(stream_id) \o WordBytes(sequence) \o WordBytes(total_length - 7)

(* The payloads of packets whose length fits into its word.                 *)
Fitting(headers) == {p \in Seq(Bytes) : headers + Len(p) - 7 \in Words}

(* unpack_primary_header, for at least PriHdrSize bytes.                    *)
UnpackPriHdr(data) ==
  [version      |-> Version(WordAt(data, 1)),
   pkt_type     |-> PktType(WordAt(data, 1)),
   sec_hdr_flag |-> SecHdrFlag(WordAt(data, 1)),
   apid         |-> Apid(WordAt(data, 1)),
   seq_flags    |-> SeqFlags(WordAt(data, 3)),
   seq_count    |-> SeqCount(WordAt(data, 3)),
   data_length  |-> WordAt(data, 5)]

(* Faulty variant: no spare bytes after the time.                           *)
PackTlmNoSpare(mid, payload, seq_count, seconds, subseconds) ==
  PriHdr(mid, SequenceWord(Standalone, seq_count), PriHdrSize + TlmSecHdrSize + Len(payload))
    \o WordBytes(seconds[1]) \o WordBytes(seconds[2]) \o WordBytes(subseconds % 65536)
    \o payload

(* pack_telemetry_packet; the 32-bit seconds are two words.                 *)
PackTlm(mid, payload, seq_count, seconds, subseconds) ==
  PriHdr(mid, SequenceWord(Standalone, seq_count), TlmHdrSize + Len(payload))
    \o WordBytes(seconds[1]) \o WordBytes(seconds[2]) \o WordBytes(subseconds % 65536)
    \o <<0, 0, 0, 0>> \o payload

(* unpack_cmd_packet and unpack_tlm_packet, for at least a whole header.    *)
UnpackCmd(data) ==
  [header    |-> UnpackPriHdr(data),
   func_code |-> data[PriHdrSize + 1] % 128,
   checksum  |-> data[PriHdrSize + 2],
   payload   |-> SubSeq(data, PriHdrSize + CmdSecHdrSize + 1, Len(data))]

UnpackTlm(data) ==
  [seconds    |-> <<WordAt(data, 7), WordAt(data, 9)>>,
   subseconds |-> WordAt(data, 11),
   payload    |-> SubSeq(data, TlmHdrSize + 1, Len(data))]

=============================================================================
