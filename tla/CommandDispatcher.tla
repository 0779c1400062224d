-------------------------- MODULE CommandDispatcher --------------------------
(***************************************************************************)
(* CommandDispatcher of ground_station/command_dispatcher.py: one object,  *)
(* shared by all browser sessions of the ground station (ground_app.py     *)
(* creates it under @st.cache_resource), sends command packets to CI_LAB   *)
(* over UDP.  Streamlit runs every session's script in a thread of its     *)
(* own and the class has no lock, so the statements of send() run by two   *)
(* sessions interleave: the read and the write of the sequence counter,    *)
(* the transmission, and the record in the history.                        *)
(*                                                                         *)
(* External: the socket; sendto may raise (name resolution, no route).     *)
(***************************************************************************)
EXTENDS Integers, Sequences, FiniteSets

CONSTANTS
  Sessions,   \* the browser sessions
  Commands,   \* the commands they send, records [mid, fc]
  SeqMod,     \* 2^14: the counter is masked with 0x3FFF
  MaxSends    \* bound: calls of send()

ASSUME CommandsAssumption == \A c \in Commands : c = [mid |-> c.mid, fc |-> c.fc]
ASSUME SeqModAssumption   == SeqMod \in Nat \ {0}
ASSUME MaxSendsAssumption == MaxSends \in Nat

VARIABLES
  _seq_counts,  \* the counter of each MID
  history,      \* the records of the commands sent
  pc,           \* pc[s]: where session s is in send()
  call,         \* call[s]: the call session s is making, an index of taken
  taken,        \* history: the command and the number of every call, in order
  wire,         \* history: the calls whose packet left, in order
  raced         \* history: a counter was read between another session's read and write of it

vars == <<_seq_counts, history, pc, call, taken, wire, raced>>

MIDs == {c.mid : c \in Commands}
PCs  == {"idle", "write", "sendto", "record"}

-----------------------------------------------------------------------------
(* Names of mission_registry.py: MID.SOLAR_ARRAY_APP, MID.TO_LAB_CMD and    *)
(* the function codes.                                                      *)
SOLAR_ARRAY_APP == "SOLAR_ARRAY_APP"
TO_LAB_CMD      == "TO_LAB_CMD"
SOLAR_ARRAY_OPEN     == 5
TO_LAB_OUTPUT_ENABLE == 6

-----------------------------------------------------------------------------
Init ==
  /\ _seq_counts = [m \in MIDs |-> 0]
  /\ history = <<>>
  /\ pc = [s \in Sessions |-> "idle"]
  /\ call = [s \in Sessions |-> 0]
  /\ taken = <<>>
  /\ wire = <<>>
  /\ raced = FALSE

SessionGoes(s, here, next) == pc[s] = here /\ pc' = [pc EXCEPT ![s] = next]

(* send() begins: _next_seq reads the counter ...                           *)
ReadSeq(s) ==
  /\ SessionGoes(s, "idle", "write")
  /\ Len(taken) < MaxSends
  /\ \E c \in Commands :
       /\ taken' = Append(taken, [mid |-> c.mid, fc |-> c.fc, seq |-> _seq_counts[c.mid]])
       /\ raced' = (raced \/ \E u \in Sessions : pc[u] = "write" /\ taken[call[u]].mid = c.mid)
  /\ call' = [call EXCEPT ![s] = Len(taken) + 1]
  /\ UNCHANGED <<_seq_counts, history, wire>>

(* Faulty variants: the counter is not masked; one counter for all MIDs.    *)
NextUnmasked(n) == n + 1
EveryMID(mid)   == MIDs

NextSeq(n)     == (n + 1) % SeqMod
CountedBy(mid) == {mid}

(* ... and writes it back, one higher, masked to 14 bits.                   *)
WriteSeq(s) ==
  /\ SessionGoes(s, "write", "sendto")
  /\ LET t == taken[call[s]]
     IN  _seq_counts' = [m \in MIDs |-> IF m \in CountedBy(t.mid) THEN NextSeq(t.seq)
                                                                ELSE _seq_counts[m]]
  /\ UNCHANGED <<history, call, taken, wire, raced>>

SendTo(s) ==
  /\ SessionGoes(s, "sendto", "record")
  /\ wire' = Append(wire, call[s])
  /\ UNCHANGED <<_seq_counts, history, call, taken, raced>>

(* Faulty variant: the record is made whatever sendto did.                  *)
AfterExceptionRecord == "record"

AfterException == "idle"

(* The exception leaves send(): the number is used up, nothing is recorded. *)
SendToFails(s) ==
  /\ SessionGoes(s, "sendto", AfterException)
  /\ UNCHANGED <<_seq_counts, history, call, taken, wire, raced>>

Record(s) ==
  /\ SessionGoes(s, "record", "idle")
  /\ LET t == taken[call[s]]
     IN  history' = Append(history, [call |-> call[s], mid |-> t.mid, func_code |-> t.fc, seq |-> t.seq])
  /\ UNCHANGED <<_seq_counts, call, taken, wire, raced>>

Send(s) == ReadSeq(s) \/ WriteSeq(s) \/ SendTo(s) \/ SendToFails(s) \/ Record(s)

Next == \E s \in Sessions : Send(s)

Spec == Init /\ [][Next]_vars

-----------------------------------------------------------------------------
(* Properties.                                                              *)

TypeOK ==
  /\ _seq_counts \in [MIDs -> 0..(SeqMod - 1)]
  /\ pc \in [Sessions -> PCs]
  /\ call \in [Sessions -> 0..Len(taken)]
  /\ \A i \in DOMAIN wire : wire[i] \in DOMAIN taken
  /\ raced \in BOOLEAN
  /\ \A i \in DOMAIN taken :
       /\ taken[i].seq \in 0..(SeqMod - 1)
       /\ [mid |-> taken[i].mid, fc |-> taken[i].fc] \in Commands

(* The calls for the same MID that took their number before call n.         *)
Earlier(n) == {k \in 1..(n - 1) : taken[k].mid = taken[n].mid}

(* As long as no session read a counter between another's read and write of *)
(* it, the packets of a MID are numbered 0, 1, 2, ... modulo 2^14 over all  *)
(* sessions; other MIDs do not matter, and a failed transmission leaves a   *)
(* gap of one (command_dispatcher.py:49-53 and 71).                         *)
SeqNumbersCalls == ~raced =>
  \A i \in DOMAIN wire : taken[wire[i]].seq = Cardinality(Earlier(wire[i])) % SeqMod

(* "It maintains a per-MID sequence counter for packet ordering"            *)
(* (command_dispatcher.py:4-5): no two packets of a MID have one number,    *)
(* when the counter did not wrap in between.                                *)
SeqOrdersPackets ==
  \A i, j \in DOMAIN wire :
    /\ i # j
    /\ taken[wire[i]].mid = taken[wire[j]].mid
    /\ taken[wire[i]].seq = taken[wire[j]].seq
    => Cardinality(Earlier(wire[i])) - Cardinality(Earlier(wire[j])) \notin (1 - SeqMod)..(SeqMod - 1)

(* The history shown to the operator is what left the ground station: every *)
(* record is of one packet, with its number, and every packet has a record, *)
(* but for those whose session is between sendto and the append.            *)
HistoryMatchesWire ==
  /\ \A i, j \in DOMAIN history : history[i].call = history[j].call => i = j
  /\ \A i \in DOMAIN history :
       /\ \E k \in DOMAIN wire : wire[k] = history[i].call
       /\ history[i].seq = taken[history[i].call].seq
  /\ \A k \in DOMAIN wire :
       \/ \E i \in DOMAIN history : history[i].call = wire[k]
       \/ \E s \in Sessions : pc[s] = "record" /\ call[s] = wire[k]

=============================================================================
