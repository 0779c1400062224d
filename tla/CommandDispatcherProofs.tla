----------------------- MODULE CommandDispatcherProofs -----------------------
(***************************************************************************)
(* Proofs about CommandDispatcher, for any sessions and commands, any      *)
(* modulus of the counter and any number of calls.                         *)
(***************************************************************************)
EXTENDS CommandDispatcher, FiniteSetTheorems, SequenceTheorems, TLAPS

(* What TypeOK leaves open: taken, wire and history are sequences.          *)
FcnCodes == {c.fc : c \in Commands}
Numbered == [mid : MIDs, fc : FcnCodes, seq : 0..(SeqMod - 1)]
Entries  == [call : Nat, mid : MIDs, func_code : FcnCodes, seq : 0..(SeqMod - 1)]

SeqTypes ==
  /\ taken \in Seq(Numbered)
  /\ wire \in Seq(Nat)
  /\ history \in Seq(Entries)

(* Every session inside send() makes a call of its own, which is on the     *)
(* wire exactly when its packet has left, and in no record yet.             *)
OwnCalls ==
  /\ \A s \in Sessions : pc[s] # "idle" => call[s] \in DOMAIN taken
  /\ \A s, u \in Sessions : pc[s] # "idle" /\ pc[u] # "idle" /\ call[s] = call[u] => s = u
  /\ \A s \in Sessions, k \in DOMAIN wire : pc[s] \in {"write", "sendto"} => wire[k] # call[s]
  /\ \A s \in Sessions : pc[s] = "record" => \E k \in DOMAIN wire : wire[k] = call[s]
  /\ \A s \in Sessions, i \in DOMAIN history : pc[s] # "idle" => history[i].call # call[s]

(* While no read fell between another session's read and write of the same  *)
(* counter, a counter that nobody is about to write counts the calls of its *)
(* MID, and the call of a session about to write is the last of its MID.    *)
CallsFor(mid) == {k \in DOMAIN taken : taken[k].mid = mid}

AboutToWrite(s, mid) == pc[s] = "write" /\ taken[call[s]].mid = mid

Counting == ~raced =>
  /\ \A n \in DOMAIN taken : taken[n].seq = Cardinality(Earlier(n)) % SeqMod
  /\ \A m \in MIDs : \/ \E s \in Sessions : AboutToWrite(s, m)
                     \/ _seq_counts[m] = Cardinality(CallsFor(m)) % SeqMod
  /\ \A s \in Sessions :
       pc[s] = "write" => CallsFor(taken[call[s]].mid) = Earlier(call[s]) \union {call[s]}

IInv == TypeOK /\ SeqTypes /\ OwnCalls /\ HistoryMatchesWire /\ Counting

-----------------------------------------------------------------------------
(* Counting modulo d, one at a time, is counting and then taking the        *)
(* remainder: the mask of _next_seq loses nothing but the wraps.            *)
LEMMA Remainder ==
  ASSUME NEW d \in Nat \ {0}, NEW q \in Nat, NEW r \in Nat, r < d
  PROVE  (q * d + r) % d = r
OBVIOUS

LEMMA NextSeqCounts ==
  ASSUME NEW d \in Nat, d > 0, NEW k \in Nat
  PROVE  ((k % d) + 1) % d = (k + 1) % d
<1>0. PICK q, r : q = k \div d /\ r = k % d
  OBVIOUS
<1>1. k = q * d + r
  BY <1>0
<1>2. q \in Int /\ r \in 0..(d - 1)
  BY <1>0
<1>3. q \in Nat
  <2>1. CASE q <= -1
    <3>1. q * d <= -d
      BY <1>2, <2>1
    <3> QED
      BY <1>1, <1>2, <2>1, <3>1
  <2> QED
    BY <1>2, <2>1
<1>4. CASE r + 1 < d
  <2>1. (q * d + (r + 1)) % d = r + 1 /\ (0 * d + (r + 1)) % d = r + 1
    BY <1>2, <1>3, <1>4, Remainder
  <2>2. k + 1 = q * d + (r + 1) /\ r + 1 = 0 * d + (r + 1)
    BY <1>1, <1>2, <1>3
  <2> QED
    BY <1>0, <2>1, <2>2
<1>5. CASE r + 1 = d
  <2>1. ((q + 1) * d + 0) % d = 0 /\ (1 * d + 0) % d = 0
    BY <1>3, Remainder
  <2>2. k + 1 = (q + 1) * d + 0 /\ r + 1 = 1 * d + 0
    BY <1>1, <1>2, <1>3, <1>5
  <2> QED
    BY <1>0, <2>1, <2>2
<1> QED
  BY <1>2, <1>4, <1>5

LEMMA AppendFacts ==
  ASSUME NEW S, NEW s \in Seq(S), NEW x \in S
  PROVE  /\ Append(s, x) \in Seq(S)
         /\ Len(s) \in Nat /\ Len(Append(s, x)) = Len(s) + 1
         /\ DOMAIN s = 1..Len(s)
         /\ DOMAIN Append(s, x) = 1..(Len(s) + 1)
         /\ DOMAIN Append(s, x) = DOMAIN s \union {Len(s) + 1}
         /\ \A i \in DOMAIN s : Append(s, x)[i] = s[i]
         /\ Append(s, x)[Len(s) + 1] = x
<1>1. Len(s) \in Nat /\ DOMAIN s = 1..Len(s)
  BY LenProperties
<1>2. 1..(Len(s) + 1) = 1..Len(s) \union {Len(s) + 1}
  BY <1>1
<1> QED
  BY <1>1, <1>2, AppendProperties

(* The calls are kept: a later call changes nothing about an earlier one.   *)
LEMMA ReadAppends ==
  ASSUME TypeOK, SeqTypes, NEW s \in Sessions, ReadSeq(s)
  PROVE  \E c \in Commands :
           /\ c.mid \in MIDs /\ _seq_counts[c.mid] \in 0..(SeqMod - 1)
           /\ taken' \in Seq(Numbered)
           /\ Len(taken) \in Nat /\ DOMAIN taken = 1..Len(taken)
           /\ Len(taken') = Len(taken) + 1
           /\ DOMAIN taken' = DOMAIN taken \union {Len(taken) + 1}
           /\ \A i \in DOMAIN taken : taken'[i] = taken[i]
           /\ taken'[Len(taken) + 1] = [mid |-> c.mid, fc |-> c.fc, seq |-> _seq_counts[c.mid]]
           /\ [mid |-> c.mid, fc |-> c.fc] \in Commands
           /\ raced' = (raced \/ \E u \in Sessions : AboutToWrite(u, c.mid))
<1>1. PICK c \in Commands :
        /\ taken' = Append(taken, [mid |-> c.mid, fc |-> c.fc, seq |-> _seq_counts[c.mid]])
        /\ raced' = (raced \/ \E u \in Sessions : AboutToWrite(u, c.mid))
  BY DEF ReadSeq, AboutToWrite
<1>2. c.mid \in MIDs /\ c.fc \in FcnCodes /\ [mid |-> c.mid, fc |-> c.fc] \in Commands
  BY CommandsAssumption DEF MIDs, FcnCodes
<1>3. _seq_counts[c.mid] \in 0..(SeqMod - 1)
  BY <1>2 DEF TypeOK
<1>4. [mid |-> c.mid, fc |-> c.fc, seq |-> _seq_counts[c.mid]] \in Numbered
  BY <1>2, <1>3 DEF Numbered
<1>5. taken \in Seq(Numbered)
  BY DEF SeqTypes
<1> DEFINE t == [mid |-> c.mid, fc |-> c.fc, seq |-> _seq_counts[c.mid]]
<1>6. /\ taken' \in Seq(Numbered)
      /\ Len(taken) \in Nat /\ DOMAIN taken = 1..Len(taken)
      /\ Len(taken') = Len(taken) + 1
      /\ DOMAIN taken' = DOMAIN taken \union {Len(taken) + 1}
      /\ \A i \in DOMAIN taken : taken'[i] = taken[i]
      /\ taken'[Len(taken) + 1] = t
  <2> HIDE DEF t
  <2>1. t \in Numbered /\ taken' = Append(taken, t)
    BY <1>1, <1>4 DEF t
  <2> QED
    BY <1>5, <2>1, AppendFacts
<1> QED
  BY <1>1, <1>2, <1>3, <1>6

(* What the session in a step does to its program counter, and nobody else. *)
LEMMA SessionMoves ==
  ASSUME TypeOK, NEW s \in Sessions, NEW here, NEW next \in PCs, SessionGoes(s, here, next)
  PROVE  /\ pc[s] = here /\ pc'[s] = next /\ pc' \in [Sessions -> PCs]
         /\ \A u \in Sessions \ {s} : pc'[u] = pc[u]
BY DEF TypeOK, SessionGoes

LEMMA CallTypes ==
  ASSUME TypeOK, SeqTypes
  PROVE  /\ Len(taken) \in Nat /\ DOMAIN taken = 1..Len(taken)
         /\ \A n \in DOMAIN taken : taken[n] \in Numbered
         /\ \A s \in Sessions : call[s] \in Nat
<1>1. Len(taken) \in Nat /\ DOMAIN taken = 1..Len(taken)
  BY LenProperties DEF SeqTypes
<1> QED
  BY <1>1, ElementOfSeq DEF TypeOK, SeqTypes

-----------------------------------------------------------------------------
(* Type correctness.                                                        *)
LEMMA InitType == Init => TypeOK /\ SeqTypes
<1> SUFFICES ASSUME Init PROVE TypeOK /\ SeqTypes
  OBVIOUS
<1>1. 0 \in 0..(SeqMod - 1)
  BY SeqModAssumption
<1>2. DOMAIN taken = {} /\ DOMAIN wire = {} /\ Len(taken) = 0
  BY DEF Init
<1>3. SeqTypes
  BY EmptySeq DEF Init, SeqTypes
<1>4. call \in [Sessions -> 0..Len(taken)]
  BY <1>2 DEF Init
<1>5. _seq_counts \in [MIDs -> 0..(SeqMod - 1)] /\ pc \in [Sessions -> PCs] /\ raced \in BOOLEAN
  BY <1>1 DEF Init, PCs
<1> QED
  BY <1>2, <1>3, <1>4, <1>5 DEF TypeOK

LEMMA NextType == TypeOK /\ SeqTypes /\ OwnCalls /\ [Next]_vars => (TypeOK /\ SeqTypes)'
<1> SUFFICES ASSUME TypeOK, SeqTypes, OwnCalls, [Next]_vars PROVE (TypeOK /\ SeqTypes)'
  OBVIOUS
<1>t. /\ Len(taken) \in Nat /\ DOMAIN taken = 1..Len(taken)
      /\ \A n \in DOMAIN taken : taken[n] \in Numbered
  BY CallTypes
<1>1. ASSUME NEW s \in Sessions, ReadSeq(s) PROVE (TypeOK /\ SeqTypes)'
  <2>1. PICK c \in Commands :
           /\ _seq_counts[c.mid] \in 0..(SeqMod - 1)
           /\ taken' \in Seq(Numbered)
           /\ Len(taken') = Len(taken) + 1
           /\ DOMAIN taken' = DOMAIN taken \union {Len(taken) + 1}
           /\ \A i \in DOMAIN taken : taken'[i] = taken[i]
           /\ taken'[Len(taken) + 1] = [mid |-> c.mid, fc |-> c.fc, seq |-> _seq_counts[c.mid]]
           /\ [mid |-> c.mid, fc |-> c.fc] \in Commands
           /\ raced' = (raced \/ \E u \in Sessions : AboutToWrite(u, c.mid))
    BY <1>1, ReadAppends
  <2>2. call' \in [Sessions -> 0..Len(taken')]
    BY <1>1, <1>t, <2>1 DEF ReadSeq, TypeOK
  <2>3. pc' \in [Sessions -> PCs]
    BY <1>1, SessionMoves DEF ReadSeq, PCs
  <2>4. \A i \in DOMAIN taken' :
          /\ taken'[i].seq \in 0..(SeqMod - 1)
          /\ [mid |-> taken'[i].mid, fc |-> taken'[i].fc] \in Commands
    BY <2>1 DEF TypeOK
  <2> QED
    BY <1>1, <2>1, <2>2, <2>3, <2>4 DEF ReadSeq, TypeOK, SeqTypes
<1>2. ASSUME NEW s \in Sessions, WriteSeq(s) PROVE (TypeOK /\ SeqTypes)'
  <2>1. call[s] \in DOMAIN taken
    BY <1>2 DEF WriteSeq, SessionGoes, OwnCalls
  <2>2. NextSeq(taken[call[s]].seq) \in 0..(SeqMod - 1)
    BY <1>t, <2>1, SeqModAssumption DEF NextSeq, Numbered
  <2>3. _seq_counts' \in [MIDs -> 0..(SeqMod - 1)]
    BY <1>2, <2>2 DEF WriteSeq, TypeOK
  <2>4. pc' \in [Sessions -> PCs]
    BY <1>2, SessionMoves DEF WriteSeq, PCs
  <2> QED
    BY <1>2, <2>3, <2>4 DEF WriteSeq, TypeOK, SeqTypes
<1>3. ASSUME NEW s \in Sessions, SendTo(s) PROVE (TypeOK /\ SeqTypes)'
  <2>1. call[s] \in DOMAIN taken /\ call[s] \in Nat
    BY <1>3, <1>t DEF SendTo, SessionGoes, OwnCalls
  <2>2. wire' \in Seq(Nat) /\ \A i \in DOMAIN wire' : wire'[i] \in DOMAIN taken
    BY <1>3, <2>1, AppendFacts DEF SendTo, TypeOK, SeqTypes
  <2>3. pc' \in [Sessions -> PCs]
    BY <1>3, SessionMoves DEF SendTo, PCs
  <2> QED
    BY <1>3, <2>2, <2>3 DEF SendTo, TypeOK, SeqTypes
<1>4. ASSUME NEW s \in Sessions, SendToFails(s) PROVE (TypeOK /\ SeqTypes)'
  <2>1. pc' \in [Sessions -> PCs]
    BY <1>4, SessionMoves DEF SendToFails, AfterException, PCs
  <2> QED
    BY <1>4, <2>1 DEF SendToFails, TypeOK, SeqTypes
<1>5. ASSUME NEW s \in Sessions, Record(s) PROVE (TypeOK /\ SeqTypes)'
  <2>1. call[s] \in DOMAIN taken /\ call[s] \in Nat
    BY <1>5, <1>t DEF Record, SessionGoes, OwnCalls
  <2>2. [call |-> call[s], mid |-> taken[call[s]].mid, func_code |-> taken[call[s]].fc,
         seq |-> taken[call[s]].seq] \in Entries
    BY <1>t, <2>1 DEF Entries, Numbered
  <2>3. history' \in Seq(Entries)
    BY <1>5, <2>2, AppendFacts DEF Record, SeqTypes
  <2>4. pc' \in [Sessions -> PCs]
    BY <1>5, SessionMoves DEF Record, PCs
  <2> QED
    BY <1>5, <2>3, <2>4 DEF Record, TypeOK, SeqTypes
<1>6. CASE UNCHANGED vars
  BY <1>6 DEF vars, TypeOK, SeqTypes
<1> QED
  BY <1>1, <1>2, <1>3, <1>4, <1>5, <1>6 DEF Next, Send

-----------------------------------------------------------------------------
(* The history and the wire.                                                *)
LEMMA NextOwnCalls ==
  TypeOK /\ SeqTypes /\ OwnCalls /\ HistoryMatchesWire /\ [Next]_vars => (OwnCalls /\ HistoryMatchesWire)'
<1> SUFFICES ASSUME TypeOK, SeqTypes, OwnCalls, HistoryMatchesWire, [Next]_vars
             PROVE  (OwnCalls /\ HistoryMatchesWire)'
  OBVIOUS
<1>t. /\ Len(taken) \in Nat /\ DOMAIN taken = 1..Len(taken)
      /\ \A n \in DOMAIN taken : taken[n] \in Numbered
      /\ \A k \in DOMAIN wire : wire[k] \in DOMAIN taken
      /\ \A i \in DOMAIN history : history[i].call \in DOMAIN taken
  BY CallTypes DEF TypeOK, HistoryMatchesWire
<1>1. ASSUME NEW s \in Sessions, ReadSeq(s) PROVE (OwnCalls /\ HistoryMatchesWire)'
  <2>1. /\ Len(taken') = Len(taken) + 1
        /\ DOMAIN taken' = DOMAIN taken \union {Len(taken) + 1}
        /\ \A i \in DOMAIN taken : taken'[i] = taken[i]
    BY <1>1, ReadAppends
  <2>2. /\ pc[s] = "idle" /\ pc'[s] = "write" /\ \A u \in Sessions \ {s} : pc'[u] = pc[u]
        /\ call'[s] = Len(taken) + 1 /\ \A u \in Sessions \ {s} : call'[u] = call[u]
        /\ UNCHANGED <<history, wire>>
    BY <1>1, SessionMoves DEF ReadSeq, PCs, TypeOK
  <2>3. Len(taken) + 1 \notin DOMAIN taken
    BY <1>t
  <2>4. OwnCalls'
    BY <1>t, <2>1, <2>2, <2>3 DEF OwnCalls
  <2>5. \A i \in DOMAIN history : taken'[history[i].call] = taken[history[i].call]
    BY <1>t, <2>1
  <2>6. \A u \in Sessions : pc[u] = "record" => pc'[u] = "record" /\ call'[u] = call[u]
    BY <2>2
  <2>7. HistoryMatchesWire'
    BY <2>2, <2>5, <2>6 DEF HistoryMatchesWire
  <2> QED
    BY <2>4, <2>7
<1>2. ASSUME NEW s \in Sessions, WriteSeq(s) PROVE (OwnCalls /\ HistoryMatchesWire)'
  <2>1. /\ pc[s] = "write" /\ pc'[s] = "sendto" /\ \A u \in Sessions \ {s} : pc'[u] = pc[u]
        /\ UNCHANGED <<history, call, taken, wire>>
    BY <1>2, SessionMoves DEF WriteSeq, PCs
  <2> QED
    BY <2>1 DEF OwnCalls, HistoryMatchesWire
<1>3. ASSUME NEW s \in Sessions, SendTo(s) PROVE (OwnCalls /\ HistoryMatchesWire)'
  <2>1. /\ pc[s] = "sendto" /\ pc'[s] = "record" /\ \A u \in Sessions \ {s} : pc'[u] = pc[u]
        /\ UNCHANGED <<history, call, taken>>
    BY <1>3, SessionMoves DEF SendTo, PCs
  <2>2. call[s] \in Nat /\ wire' = Append(wire, call[s])
    BY <1>3, CallTypes DEF SendTo
  <2>3. /\ DOMAIN wire' = DOMAIN wire \union {Len(wire) + 1}
        /\ \A k \in DOMAIN wire : wire'[k] = wire[k]
        /\ wire'[Len(wire) + 1] = call[s]
    BY <2>2, AppendFacts DEF SeqTypes
  <2>4. OwnCalls'
    BY <2>1, <2>3 DEF OwnCalls
  <2>5. HistoryMatchesWire'
    BY <2>1, <2>3 DEF HistoryMatchesWire
  <2> QED
    BY <2>4, <2>5
<1>4. ASSUME NEW s \in Sessions, SendToFails(s) PROVE (OwnCalls /\ HistoryMatchesWire)'
  <2>1. /\ pc[s] = "sendto" /\ pc'[s] = "idle" /\ \A u \in Sessions \ {s} : pc'[u] = pc[u]
        /\ UNCHANGED <<history, call, taken, wire>>
    BY <1>4, SessionMoves DEF SendToFails, AfterException, PCs
  <2> QED
    BY <2>1 DEF OwnCalls, HistoryMatchesWire
<1>5. ASSUME NEW s \in Sessions, Record(s) PROVE (OwnCalls /\ HistoryMatchesWire)'
  <2>1. /\ pc[s] = "record" /\ pc'[s] = "idle" /\ \A u \in Sessions \ {s} : pc'[u] = pc[u]
        /\ UNCHANGED <<wire, call, taken>>
    BY <1>5, SessionMoves DEF Record, PCs
  <2> DEFINE t == taken[call[s]]
             e == [call |-> call[s], mid |-> t.mid, func_code |-> t.fc, seq |-> t.seq]
  <2>2. call[s] \in DOMAIN taken /\ call[s] \in Nat /\ t \in Numbered
    BY <1>t, <2>1, CallTypes DEF OwnCalls
  <2>3. e \in Entries /\ e.call = call[s] /\ e.seq = t.seq
    BY <2>2 DEF Entries, Numbered
  <2>4. history' = Append(history, e)
    BY <1>5 DEF Record
  <2> HIDE DEF e
  <2>5. /\ DOMAIN history' = DOMAIN history \union {Len(history) + 1}
        /\ \A i \in DOMAIN history : history'[i] = history[i]
        /\ history'[Len(history) + 1] = e
    BY <2>3, <2>4, AppendFacts DEF SeqTypes
  <2>6. OwnCalls'
    BY <2>1, <2>3, <2>5 DEF OwnCalls
  <2>7. \A i, j \in DOMAIN history' : history'[i].call = history'[j].call => i = j
    BY <2>1, <2>3, <2>5 DEF OwnCalls, HistoryMatchesWire
  <2>8. \A i \in DOMAIN history' : /\ \E k \in DOMAIN wire : wire[k] = history'[i].call
                                   /\ history'[i].seq = taken[history'[i].call].seq
    BY <2>1, <2>3, <2>5 DEF OwnCalls, HistoryMatchesWire
  <2>9. \A k \in DOMAIN wire : \/ \E i \in DOMAIN history' : history'[i].call = wire[k]
                               \/ \E u \in Sessions : pc'[u] = "record" /\ call[u] = wire[k]
    <3> SUFFICES ASSUME NEW k \in DOMAIN wire,
                        ~ \E u \in Sessions : pc'[u] = "record" /\ call[u] = wire[k]
                 PROVE  \E i \in DOMAIN history' : history'[i].call = wire[k]
      OBVIOUS
    <3>1. CASE call[s] = wire[k]
      BY <2>3, <2>5, <3>1
    <3>2. CASE call[s] # wire[k]
      BY <2>1, <2>5, <3>2 DEF HistoryMatchesWire
    <3> QED
      BY <3>1, <3>2
  <2> QED
    BY <2>1, <2>6, <2>7, <2>8, <2>9 DEF HistoryMatchesWire
<1>6. CASE UNCHANGED vars
  BY <1>6 DEF vars, OwnCalls, HistoryMatchesWire
<1> QED
  BY <1>1, <1>2, <1>3, <1>4, <1>5, <1>6 DEF Next, Send

LEMMA InitOwnCalls == Init => OwnCalls /\ HistoryMatchesWire
<1> SUFFICES ASSUME Init PROVE OwnCalls /\ HistoryMatchesWire
  OBVIOUS
<1>1. DOMAIN wire = {} /\ DOMAIN history = {} /\ \A s \in Sessions : pc[s] = "idle"
  BY DEF Init
<1> QED
  BY <1>1 DEF OwnCalls, HistoryMatchesWire

LEMMA Invariant == Spec => [](TypeOK /\ SeqTypes /\ OwnCalls /\ HistoryMatchesWire)
<1>1. Init => TypeOK /\ SeqTypes /\ OwnCalls /\ HistoryMatchesWire
  BY InitType, InitOwnCalls
<1>2. TypeOK /\ SeqTypes /\ OwnCalls /\ HistoryMatchesWire /\ [Next]_vars
        => (TypeOK /\ SeqTypes /\ OwnCalls /\ HistoryMatchesWire)'
  BY NextType, NextOwnCalls
<1> QED
  BY <1>1, <1>2, PTL DEF Spec

(* The state of the dispatcher has the types of TypeOK: every counter is a  *)
(* 14-bit number, every packet on the wire was numbered by a call.          *)
THEOREM TypeCorrect == Spec => []TypeOK
BY Invariant, PTL

(* However the sessions interleave and whichever transmissions fail, the    *)
(* history lists exactly the packets that left, each once and with its own  *)
(* number, but for those of sessions between sendto and the append.         *)
THEOREM HistoryIsWhatLeft == Spec => []HistoryMatchesWire
BY Invariant, PTL

-----------------------------------------------------------------------------
(* The sequence numbers.                                                    *)
LEMMA EarlierIsFinite ==
  ASSUME TypeOK, SeqTypes
  PROVE  /\ \A m : IsFiniteSet(CallsFor(m)) /\ Cardinality(CallsFor(m)) \in Nat
         /\ \A n \in DOMAIN taken : /\ Earlier(n) \subseteq CallsFor(taken[n].mid)
                                    /\ n \notin Earlier(n)
                                    /\ IsFiniteSet(Earlier(n)) /\ Cardinality(Earlier(n)) \in Nat
<1>1. Len(taken) \in Nat /\ DOMAIN taken = 1..Len(taken)
  BY CallTypes
<1>2. \A m : IsFiniteSet(CallsFor(m))
  <2>1. IsFiniteSet(1..Len(taken))
    BY <1>1, FS_Interval
  <2> QED
    BY <1>1, <2>1, FS_Subset DEF CallsFor
<1>3. \A n \in DOMAIN taken : Earlier(n) \subseteq CallsFor(taken[n].mid) /\ n \notin Earlier(n)
  BY <1>1 DEF Earlier, CallsFor
<1>4. \A n \in DOMAIN taken : IsFiniteSet(Earlier(n))
  BY <1>2, <1>3, FS_Subset
<1> QED
  BY <1>2, <1>3, <1>4, FS_CardinalityType

LEMMA NextCounting == TypeOK /\ SeqTypes /\ OwnCalls /\ Counting /\ [Next]_vars => Counting'
<1> SUFFICES ASSUME TypeOK, SeqTypes, OwnCalls, Counting, [Next]_vars, ~raced' PROVE
      /\ \A n \in DOMAIN taken' : taken'[n].seq = Cardinality(Earlier(n)') % SeqMod
      /\ \A m \in MIDs : \/ \E s \in Sessions : AboutToWrite(s, m)'
                         \/ _seq_counts'[m] = Cardinality(CallsFor(m)') % SeqMod
      /\ \A s \in Sessions :
           pc'[s] = "write" => CallsFor(taken[call[s]].mid)' = Earlier(call[s])' \union {call'[s]}
  BY DEF Counting
<1>t. /\ Len(taken) \in Nat /\ DOMAIN taken = 1..Len(taken)
      /\ \A n \in DOMAIN taken : taken[n] \in Numbered
  BY CallTypes
<1>r. ~raced
  BY DEF Next, Send, ReadSeq, WriteSeq, SendTo, SendToFails, Record, vars
<1>c. /\ \A n \in DOMAIN taken : taken[n].seq = Cardinality(Earlier(n)) % SeqMod
      /\ \A m \in MIDs : \/ \E s \in Sessions : AboutToWrite(s, m)
                         \/ _seq_counts[m] = Cardinality(CallsFor(m)) % SeqMod
      /\ \A s \in Sessions :
           pc[s] = "write" => CallsFor(taken[call[s]].mid) = Earlier(call[s]) \union {call[s]}
  BY <1>r DEF Counting
<1>1. ASSUME NEW s \in Sessions, ReadSeq(s) PROVE Counting'
  <2>0. PICK n : n = Len(taken) + 1
    OBVIOUS
  <2>1. PICK c \in Commands :
           /\ c.mid \in MIDs
           /\ DOMAIN taken' = DOMAIN taken \union {n}
           /\ \A i \in DOMAIN taken : taken'[i] = taken[i]
           /\ taken'[n] = [mid |-> c.mid, fc |-> c.fc, seq |-> _seq_counts[c.mid]]
           /\ raced' = (raced \/ \E u \in Sessions : AboutToWrite(u, c.mid))
    BY <1>1, <2>0, ReadAppends
  <2>2. /\ pc[s] = "idle" /\ pc'[s] = "write" /\ \A u \in Sessions \ {s} : pc'[u] = pc[u]
        /\ call'[s] = n /\ \A u \in Sessions \ {s} : call'[u] = call[u]
        /\ UNCHANGED _seq_counts
    BY <1>1, <2>0, SessionMoves DEF ReadSeq, PCs, TypeOK
  <2>3. \A u \in Sessions : ~AboutToWrite(u, c.mid)
    BY <2>1
  <2>4. n \in Nat /\ n \notin DOMAIN taken /\ 1..(n - 1) = DOMAIN taken
    BY <1>t, <2>0
  <2>5. \A m \in MIDs \ {c.mid} : CallsFor(m)' = CallsFor(m)
    BY <2>1 DEF CallsFor
  <2>6. CallsFor(c.mid)' = CallsFor(c.mid) \union {n}
    BY <2>1 DEF CallsFor
  <2>7. Earlier(n)' = CallsFor(c.mid)
    BY <2>1, <2>4 DEF Earlier, CallsFor
  <2>8. \A k \in DOMAIN taken : Earlier(k)' = Earlier(k)
    BY <1>t, <2>1 DEF Earlier
  <2>9. \A k \in DOMAIN taken' : taken'[k].seq = Cardinality(Earlier(k)') % SeqMod
    BY <1>c, <2>1, <2>3, <2>7, <2>8
  <2>10. \A m \in MIDs : \/ \E u \in Sessions : AboutToWrite(u, m)'
                         \/ _seq_counts'[m] = Cardinality(CallsFor(m)') % SeqMod
    <3>1. AboutToWrite(s, c.mid)'
      BY <2>1, <2>2 DEF AboutToWrite
    <3>2. ASSUME NEW m \in MIDs \ {c.mid}, NEW u \in Sessions, AboutToWrite(u, m)
          PROVE  AboutToWrite(u, m)'
      BY <2>1, <2>2, <3>2 DEF AboutToWrite, OwnCalls
    <3> QED
      BY <1>c, <2>2, <2>5, <3>1, <3>2
  <2>11. ASSUME NEW u \in Sessions, pc'[u] = "write"
         PROVE  CallsFor(taken[call[u]].mid)' = Earlier(call[u])' \union {call'[u]}
    <3>1. CASE u = s
      BY <2>1, <2>2, <2>6, <2>7, <3>1 DEF CallsFor, Earlier
    <3>2. CASE u # s
      <4>1. pc[u] = "write" /\ call'[u] = call[u] /\ call[u] \in DOMAIN taken
        BY <2>2, <2>11, <3>2 DEF OwnCalls
      <4>2. taken'[call[u]] = taken[call[u]] /\ taken[call[u]].mid # c.mid
        BY <2>1, <2>3, <4>1 DEF AboutToWrite
      <4>3. CallsFor(taken[call[u]].mid)' = CallsFor(taken[call[u]].mid)
        BY <2>1, <4>1, <4>2 DEF CallsFor
      <4>4. Earlier(call[u])' = Earlier(call[u])
        BY <1>t, <2>1, <4>1 DEF Earlier
      <4> QED
        BY <1>c, <4>1, <4>3, <4>4
    <3> QED
      BY <3>1, <3>2
  <2> QED
    BY <2>9, <2>10, <2>11 DEF Counting
<1>2. ASSUME NEW s \in Sessions, WriteSeq(s) PROVE Counting'
  <2> DEFINE t == taken[call[s]]
  <2>1. /\ pc[s] = "write" /\ pc'[s] = "sendto" /\ \A u \in Sessions \ {s} : pc'[u] = pc[u]
        /\ UNCHANGED <<call, taken>>
        /\ _seq_counts' = [m \in MIDs |-> IF m = t.mid THEN NextSeq(t.seq) ELSE _seq_counts[m]]
    BY <1>2, SessionMoves DEF WriteSeq, PCs, CountedBy
  <2>2. call[s] \in DOMAIN taken /\ t \in Numbered
    BY <1>t, <2>1 DEF OwnCalls
  <2>3. \A k : CallsFor(k)' = CallsFor(k) /\ Earlier(k)' = Earlier(k)
    BY <2>1 DEF CallsFor, Earlier
  <2>4. _seq_counts'[t.mid] = Cardinality(CallsFor(t.mid)) % SeqMod
    <3>1. PICK k \in Nat : k = Cardinality(Earlier(call[s]))
      BY <2>2, EarlierIsFinite
    <3>2. t.seq = k % SeqMod
      BY <1>c, <2>2, <3>1
    <3>3. Cardinality(CallsFor(t.mid)) = k + 1
      <4>1. CallsFor(t.mid) = Earlier(call[s]) \union {call[s]}
        BY <1>c, <2>1
      <4>2. call[s] \notin Earlier(call[s]) /\ IsFiniteSet(Earlier(call[s]))
        BY <2>2, EarlierIsFinite
      <4>3. Cardinality(Earlier(call[s]) \union {call[s]}) = Cardinality(Earlier(call[s])) + 1
        BY <4>2, FS_AddElement
      <4> QED
        BY <3>1, <4>1, <4>3
    <3>4. SeqMod \in Nat /\ SeqMod > 0
      BY SeqModAssumption
    <3>5. ((k % SeqMod) + 1) % SeqMod = (k + 1) % SeqMod
      BY <3>4, NextSeqCounts
    <3>6. NextSeq(t.seq) = Cardinality(CallsFor(t.mid)) % SeqMod
      BY <3>2, <3>3, <3>5 DEF NextSeq
    <3> QED
      BY <2>1, <2>2, <3>6 DEF Numbered
  <2>5. ASSUME NEW m \in MIDs \ {t.mid}
        PROVE  \/ \E u \in Sessions : AboutToWrite(u, m)'
               \/ _seq_counts'[m] = Cardinality(CallsFor(m)) % SeqMod
    <3>1. _seq_counts'[m] = _seq_counts[m]
      BY <2>1
    <3>2. ASSUME NEW u \in Sessions, AboutToWrite(u, m) PROVE AboutToWrite(u, m)'
      BY <2>1, <3>2 DEF AboutToWrite
    <3> QED
      BY <1>c, <3>1, <3>2
  <2>6. \A n \in DOMAIN taken' : taken'[n].seq = Cardinality(Earlier(n)') % SeqMod
    BY <1>c, <2>1, <2>3
  <2>7. \A m \in MIDs : \/ \E u \in Sessions : AboutToWrite(u, m)'
                        \/ _seq_counts'[m] = Cardinality(CallsFor(m)') % SeqMod
    BY <2>3, <2>4, <2>5
  <2>8. \A u \in Sessions :
          pc'[u] = "write" => CallsFor(taken[call[u]].mid)' = Earlier(call[u])' \union {call'[u]}
    BY <1>c, <2>1, <2>3 DEF CallsFor, Earlier
  <2> QED
    BY <2>6, <2>7, <2>8 DEF Counting
<1>3. ASSUME NEW s \in Sessions, SendTo(s) \/ SendToFails(s) \/ Record(s) PROVE Counting'
  <2>1. /\ pc[s] # "write" /\ pc'[s] # "write" /\ \A u \in Sessions \ {s} : pc'[u] = pc[u]
        /\ UNCHANGED <<call, taken, _seq_counts>>
    BY <1>3, SessionMoves DEF SendTo, SendToFails, AfterException, Record, PCs
  <2>2. \A u \in Sessions : pc'[u] = "write" <=> pc[u] = "write"
    BY <2>1
  <2>3. \A m : \A u \in Sessions : AboutToWrite(u, m)' <=> AboutToWrite(u, m)
    BY <2>1, <2>2 DEF AboutToWrite
  <2>4. \A k : CallsFor(k)' = CallsFor(k) /\ Earlier(k)' = Earlier(k)
    BY <2>1 DEF CallsFor, Earlier
  <2>5. \A u \in Sessions :
          pc'[u] = "write" => CallsFor(taken[call[u]].mid)' = Earlier(call[u])' \union {call'[u]}
    BY <1>c, <2>1, <2>2 DEF CallsFor, Earlier
  <2> QED
    BY <1>c, <2>1, <2>3, <2>4, <2>5 DEF Counting
<1>4. CASE UNCHANGED vars
  BY <1>c, <1>4 DEF vars, Counting, AboutToWrite, CallsFor, Earlier
<1> QED
  BY <1>1, <1>2, <1>3, <1>4 DEF Next, Send, Counting

(* As long as no read of a counter falls between another session's read and *)
(* write of it, every packet carries the number of calls for its MID before *)
(* it, modulo the size of the counter, whatever else the sessions do.       *)
THEOREM SequenceNumbers == Spec => []SeqNumbersCalls
<1>1. Init => IInv
  <2> SUFFICES ASSUME Init PROVE Counting
    BY InitType, InitOwnCalls DEF IInv
  <2>1. DOMAIN taken = {} /\ \A s \in Sessions : pc[s] = "idle"
    BY DEF Init
  <2>2. \A m \in MIDs : CallsFor(m) = {} /\ _seq_counts[m] = 0
    BY <2>1 DEF Init, CallsFor
  <2>3. 0 % SeqMod = 0
    BY SeqModAssumption
  <2> QED
    BY <2>1, <2>2, <2>3, FS_EmptySet DEF Counting
<1>2. IInv /\ [Next]_vars => IInv'
  BY NextType, NextOwnCalls, NextCounting DEF IInv
<1>3. IInv => SeqNumbersCalls
  BY DEF IInv, TypeOK, Counting, SeqNumbersCalls
<1> QED
  BY <1>1, <1>2, <1>3, PTL DEF Spec

=============================================================================
