---------------------------- MODULE PacketProofs ----------------------------
(***************************************************************************)
(* Packets, for every value of their fields: the formats of Ccsds, the     *)
(* packets of PacketLink on their way, and the pages of Pagination that    *)
(* list them.  The runs try the boundaries, here are all values.           *)
(***************************************************************************)
EXTENDS PacketLink, Pagination, WellFoundedInduction, SequenceTheorems, FiniteSetTheorems, TLAPS

(* The smallest and the greatest number of a set.                           *)
LEMMA Least ==
  ASSUME NEW T \in SUBSET Nat, T # {}
  PROVE  \E n \in T : \A m \in T : n <= m
<1> DEFINE R == OpToRel(<, Nat)
<1>1. \A m, n \in Nat : <<m, n>> \in R <=> m < n
  BY DEF OpToRel
<1>2. PICK n \in T : \A m \in T : <<m, n>> \notin R
  BY NatLessThanWellFounded, WFMin
<1> HIDE DEF R
<1>3. \A m \in T : ~(m < n)
  BY <1>1, <1>2
<1> QED
  BY <1>3

LEMMA Greatest ==
  ASSUME NEW b \in Nat, NEW T \in SUBSET (0..b), T # {}
  PROVE  \E n \in T : \A m \in T : m <= n
<1> DEFINE U == {k \in 0..b : b - k \in T}
<1>1. U \in SUBSET Nat /\ U # {}
  <2>1. PICK n \in T : n \in 0..b
    OBVIOUS
  <2>2. b - n \in 0..b /\ b - (b - n) = n
    BY <2>1
  <2>3. b - n \in U
    BY <2>1, <2>2
  <2>4. U \in SUBSET Nat
    OBVIOUS
  <2> QED
    BY <2>3, <2>4
<1>2. PICK k \in U : \A l \in U : k <= l
  BY <1>1, Least
<1>3. \A m \in T : b - m \in U
  <2> SUFFICES ASSUME NEW m \in T PROVE b - m \in U
    OBVIOUS
  <2>1. m \in 0..b /\ b - m \in 0..b /\ b - (b - m) = m
    OBVIOUS
  <2> QED
    BY <2>1
<1>4. \A m \in T : m <= b - k
  <2> SUFFICES ASSUME NEW m \in T PROVE m <= b - k
    OBVIOUS
  <2>1. m \in 0..b /\ k \in 0..b /\ k <= b - m
    BY <1>2, <1>3
  <2> QED
    BY <2>1
<1> QED
  BY <1>2, <1>4

(* The quotient and the remainder of a number given by its parts.           *)
LEMMA Parts ==
  ASSUME NEW d \in Nat \ {0}, NEW q \in Nat, NEW r \in Nat, r < d
  PROVE  (q * d + r) \div d = q /\ (q * d + r) % d = r
  OBVIOUS

(* Packing the fields of a StreamId word and unpacking them gives each one  *)
(* back: no field runs into its neighbour (ccsds_utils.py 54-60, 73-78).    *)
THEOREM StreamIdFields ==
  ASSUME NEW v \in 0..7, NEW t \in 0..1, NEW f \in 0..1, NEW a \in 0..2047
  PROVE  /\ StreamId(v, t, f, a) \in Words
         /\ Version(StreamId(v, t, f, a)) = v
         /\ PktType(StreamId(v, t, f, a)) = t
         /\ SecHdrFlag(StreamId(v, t, f, a)) = f
         /\ Apid(StreamId(v, t, f, a)) = a
<1> DEFINE s == v * 8192 + t * 4096 + f * 2048 + a
<1>1. StreamId(v, t, f, a) = s
  <2>1. v % 8 = v /\ t % 2 = t /\ f % 2 = f /\ a % 2048 = a
    OBVIOUS
  <2> QED BY <2>1 DEF StreamId
<1>2. s \in Words
  BY DEF Words
<1>3. Apid(s) = a
  <2>1. s = (v * 4 + t * 2 + f) * 2048 + a
    OBVIOUS
  <2> QED BY <2>1, Parts DEF Apid
<1>4. SecHdrFlag(s) = f
  <2>1. s \div 2048 = v * 4 + t * 2 + f
    BY Parts, s = (v * 4 + t * 2 + f) * 2048 + a
  <2>2. (v * 4 + t * 2 + f) % 2 = f
    BY Parts, v * 4 + t * 2 + f = (v * 2 + t) * 2 + f
  <2> QED BY <2>1, <2>2 DEF SecHdrFlag
<1>5. PktType(s) = t
  <2>1. s \div 4096 = v * 2 + t
    BY Parts, s = (v * 2 + t) * 4096 + (f * 2048 + a)
  <2>2. (v * 2 + t) % 2 = t
    BY Parts
  <2> QED BY <2>1, <2>2 DEF PktType
<1>6. Version(s) = v
  <2>1. s \div 8192 = v
    BY Parts, s = v * 8192 + (t * 4096 + f * 2048 + a)
  <2> QED BY <2>1 DEF Version
<1> QED BY <1>1, <1>2, <1>3, <1>4, <1>5, <1>6

(* A message id used directly as the StreamId word is the word of its four  *)
(* fields: nothing of it is lost (ccsds_utils.py 120-122).                  *)
THEOREM StreamIdOfFields ==
  ASSUME NEW mid \in Words
  PROVE  StreamId(Version(mid), PktType(mid), SecHdrFlag(mid), Apid(mid)) = mid
<1> DEFINE h == mid \div 2048
<1>1. h \in 0..31 /\ mid = h * 2048 + (mid % 2048) /\ mid % 2048 \in 0..2047
  BY DEF Words
<1>2. mid \div 4096 = h \div 2 /\ mid \div 8192 = h \div 4
  BY <1>1 DEF Words
<1>3. h = (h \div 4) * 4 + ((h \div 2) % 2) * 2 + (h % 2) /\ h \div 4 \in 0..7
  BY <1>1
<1>4. /\ ((h \div 4) % 8) % 8 = h \div 4
      /\ ((h \div 2) % 2) % 2 = (h \div 2) % 2
      /\ (h % 2) % 2 = h % 2
      /\ (mid % 2048) % 2048 = mid % 2048
  <2>1. ((h \div 4) % 8) % 8 = h \div 4
    BY <1>3
  <2>2. ((h \div 2) % 2) % 2 = (h \div 2) % 2 /\ (h % 2) % 2 = h % 2
    BY <1>1
  <2>3. (mid % 2048) % 2048 = mid % 2048
    <3> DEFINE low == mid % 2048
    <3>1. low \in 0..2047
      BY <1>1
    <3> HIDE DEF low
    <3>2. low % 2048 = low
      BY <3>1
    <3> QED
      BY <3>2 DEF low
  <2> QED
    BY <2>1, <2>2, <2>3
<1>5. StreamId(Version(mid), PktType(mid), SecHdrFlag(mid), Apid(mid))
        = (h \div 4) * 8192 + ((h \div 2) % 2) * 4096 + (h % 2) * 2048 + (mid % 2048)
  BY <1>2, <1>4 DEF StreamId, Version, PktType, SecHdrFlag, Apid
<1> QED BY <1>1, <1>3, <1>5

(* A sequence counter of any size is sent as its low 14 bits, and the flags *)
(* beside it are left alone (ccsds_utils.py 61-64, 79-80, 121).             *)
THEOREM SequenceFields ==
  ASSUME NEW flags \in 0..3, NEW count \in Nat
  PROVE  /\ SequenceWord(flags, count) \in Words
         /\ SeqFlags(SequenceWord(flags, count)) = flags
         /\ SeqCount(SequenceWord(flags, count)) = count % 16384
<1> DEFINE c == count % 16384
<1>1. c \in 0..16383
  OBVIOUS
<1>2. SequenceWord(flags, count) = flags * 16384 + c
  BY flags % 4 = flags DEF SequenceWord
<1> HIDE DEF c
<1>3. flags * 16384 + c \in Words
  BY <1>1 DEF Words
<1>4. (flags * 16384 + c) \div 16384 = flags /\ (flags * 16384 + c) % 16384 = c
  <2>1. 16384 \in Nat \ {0} /\ c \in Nat /\ c < 16384
    BY <1>1
  <2> QED
    BY <2>1, Parts
<1>5. SeqFlags(flags * 16384 + c) = flags /\ SeqCount(flags * 16384 + c) = c
  BY <1>4, flags % 4 = flags DEF SeqFlags, SeqCount
<1> QED BY <1>2, <1>3, <1>5 DEF c

(* A word survives its two bytes.                                           *)
THEOREM WordRoundTrip ==
  ASSUME NEW word \in Words
  PROVE  /\ WordBytes(word) \in Seq(Bytes)
         /\ Len(WordBytes(word)) = 2
         /\ WordAt(WordBytes(word), 1) = word
  BY DEF WordBytes, WordAt, Words, Bytes

-----------------------------------------------------------------------------
(* Whole packets, for every payload.                                        *)

(* Two sequences joined: the first comes first, the second follows.         *)
LEMMA Joined ==
  ASSUME NEW h \in Seq(Bytes), NEW p \in Seq(Bytes)
  PROVE  /\ h \o p \in Seq(Bytes) /\ Len(h \o p) = Len(h) + Len(p)
         /\ \A i \in 1..Len(h) : (h \o p)[i] = h[i]
         /\ \A i \in 1..Len(p) : (h \o p)[Len(h) + i] = p[i]
<1>1. Len(h) \in Nat /\ Len(p) \in Nat
  BY LenProperties
<1>2. \A i \in 1..Len(h) : i \in 1..Len(h) + Len(p) /\ i <= Len(h)
  BY <1>1
<1>3. \A i \in 1..Len(p) : Len(h) + i \in 1..Len(h) + Len(p) /\ ~(Len(h) + i <= Len(h)) /\ Len(h) + i - Len(h) = i
  BY <1>1
<1> QED
  BY <1>2, <1>3, ConcatProperties

LEMMA Associates ==
  ASSUME NEW a \in Seq(Bytes), NEW b \in Seq(Bytes), NEW c \in Seq(Bytes)
  PROVE  (a \o b) \o c = a \o (b \o c)
  BY ConcatAssociative

(* A word in front of other bytes is read back, and moves them by two.      *)
LEMMA WordAhead ==
  ASSUME NEW word \in Words, NEW rest \in Seq(Bytes)
  PROVE  /\ WordBytes(word) \o rest \in Seq(Bytes)
         /\ Len(WordBytes(word) \o rest) = 2 + Len(rest)
         /\ WordAt(WordBytes(word) \o rest, 1) = word
         /\ \A i \in 1..Len(rest) : (WordBytes(word) \o rest)[2 + i] = rest[i]
<1> DEFINE w == WordBytes(word)
<1>1. w \in Seq(Bytes) /\ Len(w) = 2 /\ w[1] * 256 + w[2] = word
  BY WordRoundTrip DEF WordAt
<1> HIDE DEF w
<1>2. /\ w \o rest \in Seq(Bytes) /\ Len(w \o rest) = Len(w) + Len(rest)
      /\ \A i \in 1..Len(w) : (w \o rest)[i] = w[i]
      /\ \A i \in 1..Len(rest) : (w \o rest)[Len(w) + i] = rest[i]
  BY <1>1, Joined
<1>3. (w \o rest)[1] = w[1] /\ (w \o rest)[2] = w[2]
  BY <1>1, <1>2
<1>4. WordAt(w \o rest, 1) = word
  BY <1>1, <1>3, 1 + 1 = 2 DEF WordAt
<1> QED
  BY <1>1, <1>2, <1>4 DEF w

LEMMA HeaderBytes ==
  ASSUME NEW stream_id \in Words, NEW sequence \in Words, NEW total_length, total_length - 7 \in Words
  PROVE  /\ PriHdr(stream_id, sequence, total_length) \in Seq(Bytes)
         /\ Len(PriHdr(stream_id, sequence, total_length)) = PriHdrSize
<1> DEFINE w1 == WordBytes(stream_id)
           w2 == WordBytes(sequence)
           w3 == WordBytes(total_length - 7)
           h  == PriHdr(stream_id, sequence, total_length)
<1>1. /\ w1 \in Seq(Bytes) /\ w2 \in Seq(Bytes) /\ w3 \in Seq(Bytes)
      /\ Len(w1) = 2 /\ Len(w2) = 2 /\ Len(w3) = 2
  BY WordRoundTrip
<1>2. h = (w1 \o w2) \o w3
  BY DEF PriHdr
<1> HIDE DEF w1, w2, w3, h
<1>3. w1 \o w2 \in Seq(Bytes) /\ Len(w1 \o w2) = 4
  <2>1. w1 \o w2 \in Seq(Bytes) /\ Len(w1 \o w2) = Len(w1) + Len(w2)
    BY <1>1, Joined
  <2> QED
    BY <1>1, <2>1
<1>4. h \in Seq(Bytes) /\ Len(h) = 6
  BY <1>1, <1>2, <1>3, Joined
<1> QED
  BY <1>4 DEF h, PriHdrSize

(* The three words of the primary header, with anything behind them.        *)
HeaderLayout(data, stream_id, sequence, total_length, rest) ==
  /\ data \in Seq(Bytes) /\ Len(data) = PriHdrSize + Len(rest)
  /\ WordAt(data, 1) = stream_id /\ WordAt(data, 3) = sequence /\ WordAt(data, 5) = total_length - 7
  /\ \A i \in 1..Len(rest) : data[PriHdrSize + i] = rest[i]

LEMMA HeaderAhead ==
  ASSUME NEW stream_id \in Words, NEW sequence \in Words, NEW total_length \in Int, total_length - 7 \in Words,
         NEW rest \in Seq(Bytes)
  PROVE  HeaderLayout(PriHdr(stream_id, sequence, total_length) \o rest, stream_id, sequence, total_length, rest)
<1> DEFINE data == PriHdr(stream_id, sequence, total_length) \o rest
<1> DEFINE a == WordBytes(stream_id)
           b == WordBytes(sequence)
           c == WordBytes(total_length - 7)
<1>1. a \in Seq(Bytes) /\ b \in Seq(Bytes) /\ c \in Seq(Bytes)
  BY WordRoundTrip
<1>2. data = ((a \o b) \o c) \o rest
  BY DEF PriHdr
<1> DEFINE t == c \o rest
           u == b \o t
<1>3. /\ t \in Seq(Bytes) /\ Len(t) = 2 + Len(rest) /\ WordAt(t, 1) = total_length - 7
      /\ \A i \in 1..Len(rest) : t[2 + i] = rest[i]
  BY WordAhead
<1>4. /\ u \in Seq(Bytes) /\ Len(u) = 2 + Len(t) /\ WordAt(u, 1) = sequence
      /\ \A i \in 1..Len(t) : u[2 + i] = t[i]
  <2> HIDE DEF t
  <2> QED
    BY <1>3, WordAhead
<1>5. /\ a \o u \in Seq(Bytes) /\ Len(a \o u) = 2 + Len(u) /\ WordAt(a \o u, 1) = stream_id
      /\ \A i \in 1..Len(u) : (a \o u)[2 + i] = u[i]
  <2> HIDE DEF u
  <2> QED
    BY <1>4, WordAhead
<1>6. data = a \o u
  <2> HIDE DEF a, b, c
  <2>1. a \o b \in Seq(Bytes)
    BY <1>1, Joined
  <2>2. ((a \o b) \o c) \o rest = (a \o b) \o (c \o rest)
    BY <1>1, <2>1, Associates
  <2>3. (a \o b) \o t = a \o (b \o t)
    BY <1>1, <1>3, Associates
  <2> QED
    BY <1>2, <2>2, <2>3 DEF t, u
<1> HIDE DEF a, b, c, t, u, data
<1>7. Len(rest) \in Nat
  BY LenProperties
<1>8. \A i \in 1..Len(rest) : data[6 + i] = rest[i]
  <2> SUFFICES ASSUME NEW i \in 1..Len(rest) PROVE data[6 + i] = rest[i]
    OBVIOUS
  <2>1. 2 + i \in 1..Len(t) /\ 2 + (2 + i) \in 1..Len(u) /\ 2 + (2 + (2 + i)) = 6 + i
    BY <1>3, <1>4, <1>7
  <2> QED
    BY <1>3, <1>4, <1>5, <1>6, <2>1
<1>9. 1 \in 1..Len(t) /\ 2 \in 1..Len(t) /\ 1 \in 1..Len(u) /\ 2 \in 1..Len(u) /\ 3 \in 1..Len(u) /\ 4 \in 1..Len(u)
  BY <1>3, <1>4, <1>7
<1>10. u[3] = t[1] /\ u[4] = t[2]
  BY <1>4, <1>9, 2 + 1 = 3, 2 + 2 = 4
<1>11. data[3] = u[1] /\ data[4] = u[2] /\ data[5] = u[3] /\ data[6] = u[4]
  BY <1>5, <1>6, <1>9, 2 + 1 = 3, 2 + 2 = 4, 2 + 3 = 5, 2 + 4 = 6
<1>12. WordAt(data, 3) = sequence /\ WordAt(data, 5) = total_length - 7
  <2>1. t[1] * 256 + t[2] = total_length - 7 /\ u[1] * 256 + u[2] = sequence
    BY <1>3, <1>4, 1 + 1 = 2 DEF WordAt
  <2>2. data[3] * 256 + data[4] = sequence /\ data[5] * 256 + data[6] = total_length - 7
    BY <1>10, <1>11, <2>1
  <2> QED
    BY <2>2, 3 + 1 = 4, 5 + 1 = 6 DEF WordAt
<1> QED
  <2>1. HeaderLayout(data, stream_id, sequence, total_length, rest)
    BY <1>3, <1>4, <1>5, <1>6, <1>7, <1>8, <1>12 DEF PriHdrSize, HeaderLayout
  <2> QED
    BY <2>1 DEF data

(* Which bytes of a telemetry packet hold what.                             *)
TelemetryLayout(data, mid, payload, seq_count, seconds, subseconds) ==
  /\ data \in Seq(Bytes) /\ Len(data) = 16 + Len(payload)
  /\ WordAt(data, 1) = mid /\ WordAt(data, 3) = SequenceWord(Standalone, seq_count)
  /\ WordAt(data, 5) = Len(data) - 7
  /\ WordAt(data, 7) = seconds[1] /\ WordAt(data, 9) = seconds[2]
  /\ WordAt(data, 11) = subseconds % 65536
  /\ \A i \in 1..Len(payload) : data[16 + i] = payload[i]

LEMMA TelemetryBytes ==
  ASSUME NEW mid \in Words, NEW payload \in Fitting(TlmHdrSize), NEW seq_count \in Nat,
         NEW seconds \in Words \X Words, NEW subseconds \in Nat
  PROVE  TelemetryLayout(PackTlm(mid, payload, seq_count, seconds, subseconds),
                         mid, payload, seq_count, seconds, subseconds)
<1> DEFINE data == PackTlm(mid, payload, seq_count, seconds, subseconds)
<1>1. payload \in Seq(Bytes) /\ Len(payload) \in Nat /\ Len(payload) + 9 \in Words
  <2>1. payload \in Seq(Bytes) /\ TlmHdrSize + Len(payload) - 7 \in Words
    BY DEF Fitting
  <2>2. Len(payload) \in Nat
    BY <2>1, LenProperties
  <2> QED
    BY <2>1, <2>2 DEF TlmHdrSize, PriHdrSize, TlmSecHdrSize, TlmHdrSpare
<1>2. /\ SequenceWord(Standalone, seq_count) \in Words
      /\ seconds[1] \in Words /\ seconds[2] \in Words /\ subseconds % 65536 \in Words
  <2>1. SequenceWord(Standalone, seq_count) \in Words
    BY SequenceFields DEF Standalone
  <2>2. subseconds % 65536 \in Words
    BY DEF Words
  <2> QED
    BY <2>1, <2>2
<1> DEFINE word2 == SequenceWord(Standalone, seq_count)
           total == TlmHdrSize + Len(payload)
           sec1  == seconds[1]
           sec2  == seconds[2]
           sub   == subseconds % 65536
           h == PriHdr(mid, word2, total)
           a == WordBytes(sec1)
           b == WordBytes(sec2)
           c == WordBytes(sub)
           z == <<0, 0, 0, 0>>
           r3 == c \o (z \o payload)
           r2 == b \o r3
           r1 == a \o r2
<1>0. /\ data = h \o a \o b \o c \o z \o payload
      /\ total - 7 = Len(payload) + 9 /\ total - 7 \in Words /\ total \in Int
  <2>1. data = h \o a \o b \o c \o z \o payload
    BY DEF PackTlm
  <2>2. total = 16 + Len(payload)
    BY <1>1 DEF TlmHdrSize, PriHdrSize, TlmSecHdrSize, TlmHdrSpare
  <2> QED
    BY <1>1, <2>1, <2>2
<1>9. word2 \in Words /\ sec1 \in Words /\ sec2 \in Words /\ sub \in Words
  BY <1>2
<1> HIDE DEF word2, total, sec1, sec2, sub
<1> HIDE DEF data
<1>3. z \in Seq(Bytes) /\ Len(z) = 4
  BY DEF Bytes
<1>4. /\ z \o payload \in Seq(Bytes) /\ Len(z \o payload) = 4 + Len(payload)
      /\ \A i \in 1..Len(payload) : (z \o payload)[4 + i] = payload[i]
  <2> HIDE DEF z
  <2>1. /\ z \o payload \in Seq(Bytes) /\ Len(z \o payload) = Len(z) + Len(payload)
        /\ \A i \in 1..Len(payload) : (z \o payload)[Len(z) + i] = payload[i]
    BY <1>1, <1>3, Joined
  <2> QED
    BY <1>3, <2>1
<1> HIDE DEF z
<1>5. /\ r3 \in Seq(Bytes) /\ Len(r3) = 2 + Len(z \o payload) /\ WordAt(r3, 1) = sub
      /\ \A i \in 1..Len(z \o payload) : r3[2 + i] = (z \o payload)[i]
  BY <1>9, <1>4, WordAhead
<1> HIDE DEF r3
<1>6. /\ r2 \in Seq(Bytes) /\ Len(r2) = 2 + Len(r3) /\ WordAt(r2, 1) = sec2
      /\ \A i \in 1..Len(r3) : r2[2 + i] = r3[i]
  BY <1>9, <1>5, WordAhead
<1> HIDE DEF r2
<1>7. /\ r1 \in Seq(Bytes) /\ Len(r1) = 2 + Len(r2) /\ WordAt(r1, 1) = sec1
      /\ \A i \in 1..Len(r2) : r1[2 + i] = r2[i]
  BY <1>9, <1>6, WordAhead
<1> HIDE DEF r1
<1>8. data = h \o r1
  <2>1. a \in Seq(Bytes) /\ b \in Seq(Bytes) /\ c \in Seq(Bytes)
    BY <1>9, WordRoundTrip
  <2>2. h \in Seq(Bytes)
    BY <1>0, <1>9, HeaderBytes
  <2>3. data = ((((h \o a) \o b) \o c) \o z) \o payload
    BY <1>0
  <2> HIDE DEF h, a, b, c
  <2>4. h \o a \in Seq(Bytes)
    BY <2>1, <2>2, Joined
  <2>5. (h \o a) \o b \in Seq(Bytes)
    BY <2>1, <2>4, Joined
  <2>6. ((h \o a) \o b) \o c \in Seq(Bytes)
    BY <2>1, <2>5, Joined
  <2>7. data = (((h \o a) \o b) \o c) \o (z \o payload)
    BY <1>1, <1>3, <2>3, <2>6, Associates
  <2>8. data = ((h \o a) \o b) \o r3
    BY <1>4, <2>1, <2>5, <2>7, Associates DEF r3
  <2>9. data = (h \o a) \o r2
    BY <1>5, <2>1, <2>4, <2>8, Associates DEF r2
  <2> QED
    BY <1>6, <2>1, <2>2, <2>9, Associates DEF r1
<1>10. /\ data \in Seq(Bytes) /\ Len(data) = 6 + Len(r1)
       /\ WordAt(data, 1) = mid /\ WordAt(data, 3) = word2
       /\ WordAt(data, 5) = Len(payload) + 9
       /\ \A i \in 1..Len(r1) : data[6 + i] = r1[i]
  <2> HIDE DEF a, b, c
  <2>1. /\ data \in Seq(Bytes) /\ Len(data) = PriHdrSize + Len(r1)
        /\ WordAt(data, 1) = mid /\ WordAt(data, 3) = word2 /\ WordAt(data, 5) = total - 7
        /\ \A i \in 1..Len(r1) : data[PriHdrSize + i] = r1[i]
    <3>1. data = PriHdr(mid, word2, total) \o r1 /\ r1 \in Seq(Bytes)
      BY <1>7, <1>8
    <3>2. word2 \in Words /\ total \in Int /\ total - 7 \in Words
      BY <1>0, <1>9
    <3> HIDE DEF h
    <3>3. HeaderLayout(data, mid, word2, total, r1)
      BY ONLY <3>1, <3>2, mid \in Words, HeaderAhead
    <3> QED
      BY <3>3 DEF HeaderLayout
  <2> QED
    BY <1>0, <2>1 DEF PriHdrSize
<1> HIDE DEF a, b, c, h
<1>11. Len(r3) = 6 + Len(payload) /\ Len(r2) = 8 + Len(payload) /\ Len(r1) = 10 + Len(payload)
  BY <1>1, <1>4, <1>5, <1>6, <1>7
<1>12. Len(data) = 16 + Len(payload)
  BY <1>1, <1>10, <1>11
<1>13. \A i \in 1..10 : data[6 + i] = r1[i]
  BY <1>1, <1>10, <1>11
<1>14. \A i \in 1..8 : r1[2 + i] = r2[i]
  BY <1>1, <1>7, <1>11
<1>15. \A i \in 1..6 : r2[2 + i] = r3[i]
  BY <1>1, <1>6, <1>11
<1>16. /\ data[7] = r1[1] /\ data[8] = r1[2] /\ data[9] = r1[3] /\ data[10] = r1[4]
       /\ data[11] = r1[5] /\ data[12] = r1[6]
  BY <1>13, 6 + 1 = 7, 6 + 2 = 8, 6 + 3 = 9, 6 + 4 = 10, 6 + 5 = 11, 6 + 6 = 12
<1>17. r1[3] = r2[1] /\ r1[4] = r2[2] /\ r1[5] = r2[3] /\ r1[6] = r2[4] /\ r2[3] = r3[1] /\ r2[4] = r3[2]
  BY <1>14, <1>15, 2 + 1 = 3, 2 + 2 = 4, 2 + 3 = 5, 2 + 4 = 6
<1>18. /\ r1[1] * 256 + r1[2] = sec1 /\ r2[1] * 256 + r2[2] = sec2
       /\ r3[1] * 256 + r3[2] = sub
  BY <1>5, <1>6, <1>7, 1 + 1 = 2 DEF WordAt
<1>19. WordAt(data, 7) = sec1 /\ WordAt(data, 9) = sec2 /\ WordAt(data, 11) = sub
  BY <1>16, <1>17, <1>18, 7 + 1 = 8, 9 + 1 = 10, 11 + 1 = 12 DEF WordAt
<1>20. \A i \in 1..Len(payload) : data[16 + i] = payload[i]
  <2> SUFFICES ASSUME NEW i \in 1..Len(payload) PROVE data[16 + i] = payload[i]
    OBVIOUS
  <2>1. 4 + i \in 1..Len(z \o payload) /\ 6 + i \in 1..Len(r3) /\ 8 + i \in 1..Len(r2) /\ 10 + i \in 1..Len(r1)
    BY <1>1, <1>4, <1>11
  <2>2. data[6 + (10 + i)] = r1[2 + (8 + i)] /\ r1[2 + (8 + i)] = r2[2 + (6 + i)]
    BY <1>7, <1>10, <2>1, 2 + (8 + i) = 10 + i, 2 + (6 + i) = 8 + i
  <2>3. r2[2 + (6 + i)] = r3[2 + (4 + i)] /\ r3[2 + (4 + i)] = (z \o payload)[4 + i]
    <3>1. r2[2 + (6 + i)] = r3[6 + i]
      BY <1>6, <2>1
    <3>2. r3[2 + (4 + i)] = (z \o payload)[4 + i]
      BY <1>5, <2>1
    <3>3. 2 + (4 + i) = 6 + i
      OBVIOUS
    <3> QED
      BY <3>1, <3>2, <3>3
  <2> QED
    BY <1>4, <2>2, <2>3, 6 + (10 + i) = 16 + i
<1> QED
  <2>1. /\ data \in Seq(Bytes) /\ Len(data) = 16 + Len(payload)
        /\ WordAt(data, 1) = mid /\ WordAt(data, 3) = SequenceWord(Standalone, seq_count)
        /\ WordAt(data, 5) = Len(data) - 7
        /\ WordAt(data, 7) = seconds[1] /\ WordAt(data, 9) = seconds[2]
        /\ WordAt(data, 11) = subseconds % 65536
    BY <1>1, <1>10, <1>12, <1>19 DEF word2, sec1, sec2, sub
  <2> QED
    BY <1>20, <2>1 DEF data, TelemetryLayout

(* The first bytes of a datagram.                                           *)
LEMMA CutBytes ==
  ASSUME NEW data \in Seq(Bytes), NEW n \in 0..Len(data)
  PROVE  /\ SubSeq(data, 1, n) \in Seq(Bytes) /\ Len(SubSeq(data, 1, n)) = n
         /\ \A i \in 1..n : SubSeq(data, 1, n)[i] = data[i]
<1>1. Len(data) \in Nat /\ \A i \in 1..n : data[i] \in Bytes
  BY LenProperties
<1>2. /\ SubSeq(data, 1, n) \in Seq(Bytes)
      /\ Len(SubSeq(data, 1, n)) = IF 1 <= n THEN n - 1 + 1 ELSE 0
      /\ \A i \in 1..n - 1 + 1 : SubSeq(data, 1, n)[i] = data[1 + i - 1]
  BY <1>1, SubSeqProperties
<1> QED
  BY <1>1, <1>2

LEMMA CutWord ==
  ASSUME NEW data \in Seq(Bytes), NEW n \in 0..Len(data), NEW at \in 1..n - 1
  PROVE  WordAt(SubSeq(data, 1, n), at) = WordAt(data, at)
<1>1. at \in 1..n /\ at + 1 \in 1..n
  BY LenProperties
<1> QED
  BY <1>1, CutBytes DEF WordAt

(* A datagram that holds at least the primary header of a packet gives the  *)
(* same header as the whole packet (ccsds_utils.py, unpack_primary_header). *)
THEOREM CutHeader ==
  ASSUME NEW data \in Seq(Bytes), NEW n \in PriHdrSize..Len(data)
  PROVE  UnpackPriHdr(SubSeq(data, 1, n)) = UnpackPriHdr(data)
<1>1. n \in 0..Len(data) /\ 1 \in 1..n - 1 /\ 3 \in 1..n - 1 /\ 5 \in 1..n - 1
  BY LenProperties DEF PriHdrSize
<1>2. /\ WordAt(SubSeq(data, 1, n), 1) = WordAt(data, 1)
      /\ WordAt(SubSeq(data, 1, n), 3) = WordAt(data, 3)
      /\ WordAt(SubSeq(data, 1, n), 5) = WordAt(data, 5)
  BY <1>1, CutWord
<1> QED
  BY <1>2 DEF UnpackPriHdr

(* The fields of the primary header that pack writes are read back: the     *)
(* message id word, the counter's low 14 bits, and a length that says how   *)
(* many bytes there are.                                                    *)
LEMMA HeaderFields ==
  ASSUME NEW data, NEW mid \in Words, NEW count \in Nat, NEW length,
         WordAt(data, 1) = mid, WordAt(data, 3) = SequenceWord(Standalone, count), WordAt(data, 5) = length
  PROVE  LET header == UnpackPriHdr(data) IN
         /\ StreamId(header.version, header.pkt_type, header.sec_hdr_flag, header.apid) = mid
         /\ header.seq_flags = Standalone /\ header.seq_count = count % 16384
         /\ header.data_length = length
<1>1. /\ UnpackPriHdr(data).version = Version(mid) /\ UnpackPriHdr(data).pkt_type = PktType(mid)
      /\ UnpackPriHdr(data).sec_hdr_flag = SecHdrFlag(mid) /\ UnpackPriHdr(data).apid = Apid(mid)
      /\ UnpackPriHdr(data).seq_flags = SeqFlags(SequenceWord(Standalone, count))
      /\ UnpackPriHdr(data).seq_count = SeqCount(SequenceWord(Standalone, count))
      /\ UnpackPriHdr(data).data_length = length
  BY DEF UnpackPriHdr
<1>2. SeqFlags(SequenceWord(Standalone, count)) = Standalone /\ SeqCount(SequenceWord(Standalone, count)) = count % 16384
  BY SequenceFields DEF Standalone
<1> QED
  BY <1>1, <1>2, StreamIdOfFields

(* What is read from a telemetry packet, or from the first n bytes of one.  *)
TelemetryReads(mid, payload, seq_count, seconds, subseconds, n) ==
  LET data   == PackTlm(mid, payload, seq_count, seconds, subseconds)
      part   == SubSeq(data, 1, n)
      header == UnpackPriHdr(part)
  IN /\ Len(data) = TlmHdrSize + Len(payload)
     /\ StreamId(header.version, header.pkt_type, header.sec_hdr_flag, header.apid) = mid
     /\ header.seq_count = seq_count % 16384 /\ header.data_length = Len(data) - 7
     /\ UnpackTlm(part) = [seconds |-> seconds, subseconds |-> subseconds % 65536,
                           payload |-> SubSeq(payload, 1, n - TlmHdrSize)]

LEMMA TelemetryRead ==
  ASSUME NEW mid \in Words, NEW payload \in Fitting(TlmHdrSize), NEW seq_count \in Nat,
         NEW seconds \in Words \X Words, NEW subseconds \in Nat,
         NEW n \in TlmHdrSize..TlmHdrSize + Len(payload)
  PROVE  TelemetryReads(mid, payload, seq_count, seconds, subseconds, n)
<1> DEFINE data == PackTlm(mid, payload, seq_count, seconds, subseconds)
           part == SubSeq(data, 1, n)
<1>1. TlmHdrSize = 16 /\ payload \in Seq(Bytes) /\ Len(payload) \in Nat /\ n \in 16..16 + Len(payload)
  BY LenProperties DEF TlmHdrSize, PriHdrSize, TlmSecHdrSize, TlmHdrSpare, Fitting
<1>2. /\ data \in Seq(Bytes) /\ Len(data) = 16 + Len(payload)
      /\ WordAt(data, 1) = mid /\ WordAt(data, 3) = SequenceWord(Standalone, seq_count)
      /\ WordAt(data, 5) = Len(data) - 7
      /\ WordAt(data, 7) = seconds[1] /\ WordAt(data, 9) = seconds[2]
      /\ WordAt(data, 11) = subseconds % 65536
      /\ \A i \in 1..Len(payload) : data[16 + i] = payload[i]
  <2>1. TelemetryLayout(data, mid, payload, seq_count, seconds, subseconds)
    BY TelemetryBytes
  <2> HIDE DEF data
  <2> QED
    BY <2>1 DEF TelemetryLayout
<1> HIDE DEF data
<1>3. /\ n \in 0..Len(data) /\ 6 <= n /\ n \in Nat /\ n \in PriHdrSize..Len(data)
      /\ 7 \in 1..n - 1 /\ 9 \in 1..n - 1 /\ 11 \in 1..n - 1
  BY <1>1, <1>2 DEF PriHdrSize
<1>4. UnpackPriHdr(part) = UnpackPriHdr(data)
  BY <1>2, <1>3, CutHeader
<1>5. WordAt(part, 7) = seconds[1] /\ WordAt(part, 9) = seconds[2] /\ WordAt(part, 11) = subseconds % 65536
  BY <1>2, <1>3, CutWord
<1>6. part \in Seq(Bytes) /\ Len(part) = n /\ \A i \in 1..n : part[i] = data[i]
  BY <1>2, <1>3, CutBytes
<1> HIDE DEF part
<1>7. SubSeq(part, 17, Len(part)) = SubSeq(payload, 1, n - 16)
  <2> DEFINE rest == SubSeq(part, 17, n)
             sent == SubSeq(payload, 1, n - 16)
  <2>1. n - 16 \in 0..Len(payload)
    BY <1>1
  <2>2. sent \in Seq(Bytes) /\ Len(sent) = n - 16 /\ \A i \in 1..n - 16 : sent[i] = payload[i]
    BY <1>1, <2>1, CutBytes
  <2>3. /\ rest \in Seq(Bytes) /\ Len(rest) = IF 17 <= n THEN n - 17 + 1 ELSE 0
        /\ \A i \in 1..n - 17 + 1 : rest[i] = part[17 + i - 1]
    <3>1. \A i \in 17..n : part[i] \in Bytes
      BY <1>1, <1>6, LenProperties
    <3> QED
      BY <1>1, <3>1, SubSeqProperties
  <2> HIDE DEF rest, sent
  <2>4. Len(rest) = n - 16
    BY <1>1, <2>3
  <2>5. \A i \in 1..n - 16 : rest[i] = sent[i]
    <3> SUFFICES ASSUME NEW i \in 1..n - 16 PROVE rest[i] = sent[i]
      OBVIOUS
    <3>1. i \in 1..n - 17 + 1 /\ 17 + i - 1 = 16 + i /\ 16 + i \in 1..n /\ i \in 1..Len(payload)
      BY <1>1
    <3>2. rest[i] = part[16 + i]
      BY <2>3, <3>1
    <3> QED
      BY <1>2, <1>6, <2>2, <3>1, <3>2
  <2>6. rest = sent
    BY <2>2, <2>3, <2>4, <2>5, SeqEqual
  <2> QED
    BY <1>6, <2>6 DEF rest, sent
<1>8. seconds = <<seconds[1], seconds[2]>>
  OBVIOUS
<1>9. UnpackTlm(part) = [seconds |-> seconds, subseconds |-> subseconds % 65536, payload |-> SubSeq(payload, 1, n - 16)]
  <2>1. TlmHdrSize + 1 = 17
    BY <1>1
  <2> QED
    <3>1. UnpackTlm(part) = [seconds |-> <<WordAt(part, 7), WordAt(part, 9)>>, subseconds |-> WordAt(part, 11),
                             payload |-> SubSeq(part, 17, Len(part))]
      BY <2>1 DEF UnpackTlm
    <3>2. UnpackTlm(part) = [seconds |-> <<seconds[1], seconds[2]>>, subseconds |-> subseconds % 65536,
                             payload |-> SubSeq(payload, 1, n - 16)]
      <4> DEFINE w7 == WordAt(part, 7)
                 w9 == WordAt(part, 9)
                 w11 == WordAt(part, 11)
                 rest == SubSeq(part, 17, Len(part))
                 sent == SubSeq(payload, 1, n - 16)
      <4>1. w7 = seconds[1] /\ w9 = seconds[2] /\ w11 = subseconds % 65536 /\ rest = sent
        BY <1>5, <1>7
      <4>2. UnpackTlm(part) = [seconds |-> <<w7, w9>>, subseconds |-> w11, payload |-> rest]
        BY <3>1
      <4> HIDE DEF w7, w9, w11, rest, sent
      <4>3. UnpackTlm(part) = [seconds |-> <<seconds[1], seconds[2]>>, subseconds |-> subseconds % 65536, payload |-> sent]
        BY ONLY <4>1, <4>2
      <4> QED
        BY <4>3 DEF sent
    <3> QED
      BY <1>8, <3>2
<1>10. LET header == UnpackPriHdr(part) IN
       /\ StreamId(header.version, header.pkt_type, header.sec_hdr_flag, header.apid) = mid
       /\ header.seq_count = seq_count % 16384 /\ header.data_length = Len(data) - 7
  BY <1>2, <1>4, HeaderFields
<1> QED
  BY <1>1, <1>2, <1>9, <1>10 DEF data, part, TelemetryReads

(* What the ground station unpacks from a telemetry packet, or from any     *)
(* first part of one that holds both headers, is what was packed: header    *)
(* fields, time, and the part of the payload that is there, for every       *)
(* message id, payload, counter and time (ccsds_utils.py,                   *)
(* pack_telemetry_packet and unpack_tlm_packet).                            *)
THEOREM TelemetrySurvives ==
  ASSUME NEW mid \in Words, NEW payload \in Fitting(TlmHdrSize), NEW seq_count \in Nat,
         NEW seconds \in Words \X Words, NEW subseconds \in Nat,
         NEW n \in TlmHdrSize..TlmHdrSize + Len(payload)
  PROVE  LET data   == PackTlm(mid, payload, seq_count, seconds, subseconds)
             part   == SubSeq(data, 1, n)
             header == UnpackPriHdr(part)
         IN /\ Len(data) = TlmHdrSize + Len(payload)
            /\ StreamId(header.version, header.pkt_type, header.sec_hdr_flag, header.apid) = mid
            /\ header.seq_count = seq_count % 16384 /\ header.data_length = Len(data) - 7
            /\ UnpackTlm(part) = [seconds |-> seconds, subseconds |-> subseconds % 65536,
                                  payload |-> SubSeq(payload, 1, n - TlmHdrSize)]
<1>1. TelemetryReads(mid, payload, seq_count, seconds, subseconds, n)
  BY TelemetryRead
<1> QED
  BY <1>1 DEF TelemetryReads

(* What is unpacked from a command is what was packed, for every message    *)
(* id, function code, counter and payload, and whatever the checksum byte:  *)
(* the code's low seven bits, the counter's low 14, everything else as it   *)
(* was (ccsds_utils.py, pack_cmd_packet and unpack_cmd_packet).             *)
THEOREM CommandRoundTrip ==
  ASSUME NEW mid \in Words, NEW func_code \in Nat, NEW checksum \in Bytes, NEW seq_count \in Nat,
         NEW payload \in Fitting(PriHdrSize + CmdSecHdrSize)
  PROVE  LET pri_hdr == PriHdr(mid, SequenceWord(Standalone, seq_count),
                               PriHdrSize + CmdSecHdrSize + Len(payload))
             command == UnpackCmd(pri_hdr \o <<func_code % 128, checksum>> \o payload)
             header  == command.header
         IN /\ StreamId(header.version, header.pkt_type, header.sec_hdr_flag, header.apid) = mid
            /\ header.seq_count = seq_count % 16384 /\ header.data_length = Len(payload) + 1
            /\ command.func_code = func_code % 128
            /\ command.checksum = checksum
            /\ command.payload = payload
<1> DEFINE word2 == SequenceWord(Standalone, seq_count)
           total == PriHdrSize + CmdSecHdrSize + Len(payload)
           code  == func_code % 128
           sec_hdr == <<code, checksum>>
           rest  == sec_hdr \o payload
           data  == PriHdr(mid, word2, total) \o sec_hdr \o payload
<1>1. payload \in Seq(Bytes) /\ Len(payload) \in Nat /\ total = 8 + Len(payload) /\ total - 7 \in Words
  <2>1. payload \in Seq(Bytes) /\ PriHdrSize + CmdSecHdrSize + Len(payload) - 7 \in Words
    BY DEF Fitting
  <2>2. Len(payload) \in Nat
    BY <2>1, LenProperties
  <2> QED
    BY <2>1, <2>2 DEF PriHdrSize, CmdSecHdrSize
<1>2. word2 \in Words
  BY SequenceFields DEF Standalone
<1>3. code \in Bytes
  BY DEF Bytes
<1> HIDE DEF code
<1>4. sec_hdr \in Seq(Bytes) /\ Len(sec_hdr) = 2 /\ sec_hdr[1] = code /\ sec_hdr[2] = checksum
  BY <1>3
<1> HIDE DEF sec_hdr
<1>5. /\ rest \in Seq(Bytes) /\ Len(rest) = 2 + Len(payload)
      /\ rest[1] = code /\ rest[2] = checksum
      /\ \A i \in 1..Len(payload) : rest[2 + i] = payload[i]
  <2>1. /\ rest \in Seq(Bytes) /\ Len(rest) = Len(sec_hdr) + Len(payload)
        /\ \A i \in 1..Len(sec_hdr) : rest[i] = sec_hdr[i]
        /\ \A i \in 1..Len(payload) : rest[Len(sec_hdr) + i] = payload[i]
    BY <1>1, <1>4, Joined
  <2> HIDE DEF rest
  <2> QED
    BY <1>1, <1>4, <2>1
<1>6. data = PriHdr(mid, word2, total) \o rest
  <2> DEFINE h == PriHdr(mid, word2, total)
  <2>1. h \in Seq(Bytes)
    BY <1>1, <1>2, HeaderBytes
  <2> HIDE DEF h
  <2>2. (h \o sec_hdr) \o payload = h \o (sec_hdr \o payload)
    BY <1>1, <1>4, <2>1, Associates
  <2> QED
    BY <2>2 DEF h
<1>7. HeaderLayout(data, mid, word2, total, rest)
  <2>1. total \in Int /\ total - 7 \in Words
    BY <1>1
  <2> HIDE DEF word2, total, rest, data
  <2> QED
    BY ONLY <1>2, <1>5, <1>6, <2>1, mid \in Words, HeaderAhead
<1> HIDE DEF total, rest, data
<1>8. /\ data \in Seq(Bytes) /\ Len(data) = 8 + Len(payload)
      /\ WordAt(data, 1) = mid /\ WordAt(data, 3) = word2 /\ WordAt(data, 5) = Len(payload) + 1
      /\ \A i \in 1..Len(rest) : data[6 + i] = rest[i]
  BY <1>1, <1>5, <1>7 DEF HeaderLayout, PriHdrSize
<1>9. data[7] = code /\ data[8] = checksum
  <2>1. 1 \in 1..Len(rest) /\ 2 \in 1..Len(rest)
    BY <1>1, <1>5
  <2> QED
    BY <1>5, <1>8, <2>1, 6 + 1 = 7, 6 + 2 = 8
<1>10. SubSeq(data, 9, Len(data)) = payload
  <2> DEFINE got == SubSeq(data, 9, 8 + Len(payload))
  <2>1. \A i \in 9..8 + Len(payload) : data[i] \in Bytes
    BY <1>1, <1>8, LenProperties
  <2>2. /\ got \in Seq(Bytes) /\ Len(got) = IF 9 <= 8 + Len(payload) THEN 8 + Len(payload) - 9 + 1 ELSE 0
        /\ \A i \in 1..8 + Len(payload) - 9 + 1 : got[i] = data[9 + i - 1]
    BY <1>1, <2>1, SubSeqProperties
  <2> HIDE DEF got
  <2>3. Len(got) = Len(payload)
    BY <1>1, <2>2
  <2>4. \A i \in 1..Len(payload) : got[i] = payload[i]
    <3> SUFFICES ASSUME NEW i \in 1..Len(payload) PROVE got[i] = payload[i]
      OBVIOUS
    <3>1. i \in 1..8 + Len(payload) - 9 + 1 /\ 9 + i - 1 = 6 + (2 + i) /\ 2 + i \in 1..Len(rest)
      BY <1>1, <1>5
    <3>2. got[i] = data[6 + (2 + i)]
      BY <2>2, <3>1
    <3> QED
      BY <1>5, <1>8, <3>1, <3>2
  <2>5. got = payload
    BY <1>1, <2>2, <2>3, <2>4, SeqEqual
  <2> QED
    BY <1>8, <2>5 DEF got
<1>11. /\ UnpackCmd(data).header = UnpackPriHdr(data) /\ UnpackCmd(data).func_code = code % 128
       /\ UnpackCmd(data).checksum = checksum /\ UnpackCmd(data).payload = payload
  <2>1. PriHdrSize + 1 = 7 /\ PriHdrSize + 2 = 8 /\ PriHdrSize + CmdSecHdrSize + 1 = 9
    BY DEF PriHdrSize, CmdSecHdrSize
  <2> QED
    BY <1>9, <1>10, <2>1 DEF UnpackCmd
<1>12. code % 128 = func_code % 128
  BY DEF code
<1>13. LET header == UnpackPriHdr(data) IN
       /\ StreamId(header.version, header.pkt_type, header.sec_hdr_flag, header.apid) = mid
       /\ header.seq_count = seq_count % 16384 /\ header.data_length = Len(payload) + 1
  BY <1>8, HeaderFields DEF word2
<1> QED
  BY <1>11, <1>12, <1>13 DEF data, sec_hdr, code, total, word2
-----------------------------------------------------------------------------
(* The checksum.                                                            *)

LEMMA OddIsABit ==
  ASSUME NEW s \in Seq(Bytes), NEW w
  PROVE  /\ IsFiniteSet({i \in 1..Len(s) : Bit(s[i], w) = 1})
         /\ Odd(s, w) = Cardinality({i \in 1..Len(s) : Bit(s[i], w) = 1}) % 2
         /\ Odd(s, w) \in 0..1
<1> DEFINE set == {i \in 1..Len(s) : Bit(s[i], w) = 1}
<1>1. Len(s) \in Nat /\ DOMAIN s = 1..Len(s)
  BY LenProperties
<1>2. IsFiniteSet(set) /\ Cardinality(set) \in Nat
  <2>1. IsFiniteSet(1..Len(s)) /\ set \subseteq 1..Len(s)
    BY <1>1, FS_Interval
  <2> HIDE DEF set
  <2> QED
    BY <2>1, FS_Subset, FS_CardinalityType
<1>3. Odd(s, w) = Cardinality(set) % 2
  BY <1>1 DEF Odd
<1> HIDE DEF set
<1>4. Cardinality(set) % 2 \in 0..1
  BY <1>2
<1> QED
  BY <1>2, <1>3, <1>4 DEF set

(* One byte put in the place of a 0 turns the bits it has.                  *)
LEMMA OddTurns ==
  ASSUME NEW s \in Seq(Bytes), NEW t \in Seq(Bytes), Len(t) = Len(s), NEW k \in 1..Len(s),
         \A i \in 1..Len(s) : i # k => t[i] = s[i],
         NEW w, Bit(s[k], w) = 0, Bit(t[k], w) = 1 - Odd(s, w)
  PROVE  Odd(t, w) = 1
<1> DEFINE was == {i \in 1..Len(s) : Bit(s[i], w) = 1}
           is  == {i \in 1..Len(s) : Bit(t[i], w) = 1}
<1>1. /\ IsFiniteSet(was) /\ Odd(s, w) = Cardinality(was) % 2 /\ Odd(s, w) \in 0..1
      /\ Odd(t, w) = Cardinality(is) % 2
  <2>1. IsFiniteSet(was) /\ Odd(s, w) = Cardinality(was) % 2 /\ Odd(s, w) \in 0..1
    BY OddIsABit
  <2> DEFINE mine == {i \in 1..Len(t) : Bit(t[i], w) = 1}
  <2>2. Odd(t, w) = Cardinality(mine) % 2
    BY OddIsABit
  <2>3. mine = is
    OBVIOUS
  <2> HIDE DEF mine
  <2> QED
    BY <2>1, <2>2, <2>3
<1>2. k \notin was /\ (\A i \in 1..Len(s) : i # k => (i \in is <=> i \in was)) /\ was \subseteq 1..Len(s) /\ is \subseteq 1..Len(s)
  OBVIOUS
<1>3. k \in is <=> Odd(s, w) = 0
  <2>1. k \in is <=> Bit(t[k], w) = 1
    OBVIOUS
  <2> QED
    BY <1>1, <2>1
<1> HIDE DEF was, is
<1>4. Cardinality(was) \in Nat
  BY <1>1, FS_CardinalityType
<1>5. CASE Odd(s, w) = 0
  <2>1. is = was \cup {k}
    BY <1>2, <1>3, <1>5
  <2>2. Cardinality(is) = Cardinality(was) + 1
    BY <1>1, <1>2, <2>1, FS_AddElement
  <2> QED
    BY <1>1, <1>4, <1>5, <2>2
<1>6. CASE Odd(s, w) = 1
  <2>1. k \notin is
    BY <1>3, <1>6
  <2>2. is = was
    <3>1. \A i : i \in is <=> i \in was
      BY <1>2, <2>1
    <3> QED
      BY <3>1, Zenon
  <2> QED
    BY <1>1, <1>6, <2>2
<1> QED
  BY <1>1, <1>5, <1>6

(* The byte that compute_checksum gives is one, and closes the packet.      *)
LEMMA ChecksumCloses ==
  ASSUME NEW s \in Seq(Bytes), NEW k \in 1..Len(s), s[k] = 0
  PROVE  /\ ComputeChecksum(s) \in Bytes
         /\ \A t \in Seq(Bytes) :
              /\ Len(t) = Len(s) /\ t[k] = ComputeChecksum(s)
              /\ \A i \in 1..Len(s) : i # k => t[i] = s[i]
              => ChecksumVerified(t)
<1> DEFINE a == 1 - Odd(s, 1)
           b == 1 - Odd(s, 2)
           c == 1 - Odd(s, 4)
           d == 1 - Odd(s, 8)
           e == 1 - Odd(s, 16)
           f == 1 - Odd(s, 32)
           g == 1 - Odd(s, 64)
           h == 1 - Odd(s, 128)
           x == a + 2 * b + 4 * c + 8 * d + 16 * e + 32 * f + 64 * g + 128 * h
<1>1. /\ Odd(s, 1) \in 0..1 /\ Odd(s, 2) \in 0..1 /\ Odd(s, 4) \in 0..1 /\ Odd(s, 8) \in 0..1
      /\ Odd(s, 16) \in 0..1 /\ Odd(s, 32) \in 0..1 /\ Odd(s, 64) \in 0..1 /\ Odd(s, 128) \in 0..1
  BY OddIsABit
<1>2. ComputeChecksum(s) = x
  <2> DEFINE o1 == Odd(s, 1)
             o2 == Odd(s, 2)
             o3 == Odd(s, 4)
             o4 == Odd(s, 8)
             o5 == Odd(s, 16)
             o6 == Odd(s, 32)
             o7 == Odd(s, 64)
             o8 == Odd(s, 128)
  <2>1. ComputeChecksum(s) = 255 - (o1 + 2 * o2 + 4 * o3 + 8 * o4 + 16 * o5 + 32 * o6 + 64 * o7 + 128 * o8)
    BY DEF ComputeChecksum, XorOf
  <2>2. x = (1 - o1) + 2 * (1 - o2) + 4 * (1 - o3) + 8 * (1 - o4) + 16 * (1 - o5) + 32 * (1 - o6)
            + 64 * (1 - o7) + 128 * (1 - o8)
    OBVIOUS
  <2>3. /\ o1 \in 0..1 /\ o2 \in 0..1 /\ o3 \in 0..1 /\ o4 \in 0..1
        /\ o5 \in 0..1 /\ o6 \in 0..1 /\ o7 \in 0..1 /\ o8 \in 0..1
    BY <1>1
  <2> HIDE DEF x, o1, o2, o3, o4, o5, o6, o7, o8
  <2> QED
    BY <2>1, <2>2, <2>3
<1>3. /\ a \in 0..1 /\ b \in 0..1 /\ c \in 0..1 /\ d \in 0..1
      /\ e \in 0..1 /\ f \in 0..1 /\ g \in 0..1 /\ h \in 0..1
  BY <1>1
<1>4. /\ x \in Bytes
      /\ Bit(x, 1) = a /\ Bit(x, 2) = b /\ Bit(x, 4) = c /\ Bit(x, 8) = d
      /\ Bit(x, 16) = e /\ Bit(x, 32) = f /\ Bit(x, 64) = g /\ Bit(x, 128) = h
  <2> HIDE DEF a, b, c, d, e, f, g, h
  <2> DEFINE x6 == g + 2 * h
             x5 == f + 2 * g + 4 * h
             x4 == e + 2 * f + 4 * g + 8 * h
             x3 == d + 2 * e + 4 * f + 8 * g + 16 * h
             x2 == c + 2 * d + 4 * e + 8 * f + 16 * g + 32 * h
             x1 == b + 2 * c + 4 * d + 8 * e + 16 * f + 32 * g + 64 * h
<2>1. x \div 1 = x /\ x \in Bytes
    BY <1>3 DEF Bytes
<2>2. x % 2 = a /\ x \div 2 = x1
    BY <1>3, Parts, x = x1 * 2 + a, x1 \in Nat
<2>3. x \div 4 = x2 /\ x1 % 2 = b
    BY <1>3, Parts, x = x2 * 4 + (a + 2 * b), x1 = x2 * 2 + b, x2 \in Nat
<2>4. x \div 8 = x3 /\ x2 % 2 = c
    BY <1>3, Parts, x = x3 * 8 + (a + 2 * b + 4 * c), x2 = x3 * 2 + c, x3 \in Nat
<2>5. x \div 16 = x4 /\ x3 % 2 = d
    BY <1>3, Parts, x = x4 * 16 + (a + 2 * b + 4 * c + 8 * d), x3 = x4 * 2 + d, x4 \in Nat
<2>6. x \div 32 = x5 /\ x4 % 2 = e
    BY <1>3, Parts, x = x5 * 32 + (a + 2 * b + 4 * c + 8 * d + 16 * e), x4 = x5 * 2 + e, x5 \in Nat
<2>7. x \div 64 = x6 /\ x5 % 2 = f
    BY <1>3, Parts, x = x6 * 64 + (a + 2 * b + 4 * c + 8 * d + 16 * e + 32 * f), x5 = x6 * 2 + f, x6 \in Nat
<2>8. x \div 128 = h /\ x6 % 2 = g /\ h % 2 = h
    BY <1>3, Parts, x = h * 128 + (a + 2 * b + 4 * c + 8 * d + 16 * e + 32 * f + 64 * g), x6 = h * 2 + g
<2> HIDE DEF x, x1, x2, x3, x4, x5, x6
<2>9. /\ Bit(x, 1) = a /\ Bit(x, 2) = b /\ Bit(x, 4) = c /\ Bit(x, 8) = d
        /\ Bit(x, 16) = e /\ Bit(x, 32) = f /\ Bit(x, 64) = g /\ Bit(x, 128) = h
    BY <2>1, <2>2, <2>3, <2>4, <2>5, <2>6, <2>7, <2>8 DEF Bit
  <2> QED
    BY <2>1, <2>9
<1> HIDE DEF x
<1>5. /\ Bit(0, 1) = 0 /\ Bit(0, 2) = 0 /\ Bit(0, 4) = 0 /\ Bit(0, 8) = 0
      /\ Bit(0, 16) = 0 /\ Bit(0, 32) = 0 /\ Bit(0, 64) = 0 /\ Bit(0, 128) = 0
  BY DEF Bit
<1>6. ASSUME NEW t \in Seq(Bytes), Len(t) = Len(s), t[k] = ComputeChecksum(s),
             \A i \in 1..Len(s) : i # k => t[i] = s[i]
      PROVE  ChecksumVerified(t)
  <2>1. \A w : Bit(s[k], w) = 0 /\ Bit(x, w) = 1 - Odd(s, w) => Odd(t, w) = 1
    BY <1>2, <1>6, OddTurns
  <2>2. /\ Odd(t, 1) = 1 /\ Odd(t, 2) = 1 /\ Odd(t, 4) = 1 /\ Odd(t, 8) = 1
        /\ Odd(t, 16) = 1 /\ Odd(t, 32) = 1 /\ Odd(t, 64) = 1 /\ Odd(t, 128) = 1
    BY <1>4, <1>5, <2>1
  <2> QED
    BY <2>2 DEF ChecksumVerified, XorOf
<1> QED
  BY <1>2, <1>4, <1>6

(* Two bytes between others: only the second of them differs.               *)
Framed(h, code, byte, p) == h \o <<code, byte>> \o p

FramedLayout(data, h, code, byte, p) ==
  /\ data \in Seq(Bytes) /\ Len(data) = Len(h) + 2 + Len(p)
  /\ \A i \in 1..Len(h) : data[i] = h[i]
  /\ data[Len(h) + 1] = code /\ data[Len(h) + 2] = byte
  /\ \A i \in 1..Len(p) : data[Len(h) + 2 + i] = p[i]

LEMMA FramedBytes ==
  ASSUME NEW h \in Seq(Bytes), NEW p \in Seq(Bytes), NEW code \in Bytes, NEW byte \in Bytes
  PROVE  FramedLayout(Framed(h, code, byte, p), h, code, byte, p)
<1> DEFINE two == <<code, byte>>
           front == h \o two
           data == front \o p
<1>0. Len(h) \in Nat /\ Len(p) \in Nat
  BY LenProperties
<1>1. two \in Seq(Bytes) /\ Len(two) = 2 /\ two[1] = code /\ two[2] = byte
  OBVIOUS
<1> HIDE DEF two
<1>2. /\ front \in Seq(Bytes) /\ Len(front) = Len(h) + Len(two)
      /\ \A i \in 1..Len(h) : front[i] = h[i]
      /\ \A i \in 1..Len(two) : front[Len(h) + i] = two[i]
  BY <1>1, Joined
<1> HIDE DEF front
<1>3. Len(front) = Len(h) + 2 /\ front[Len(h) + 1] = code /\ front[Len(h) + 2] = byte
  BY <1>1, <1>2
<1>4. /\ data \in Seq(Bytes) /\ Len(data) = Len(front) + Len(p)
      /\ \A i \in 1..Len(front) : data[i] = front[i]
      /\ \A i \in 1..Len(p) : data[Len(front) + i] = p[i]
  BY <1>2, Joined
<1> HIDE DEF data
<1>5. \A i \in 1..Len(h) : i \in 1..Len(front) /\ data[i] = h[i]
  BY <1>0, <1>2, <1>3, <1>4
<1>6. Len(h) + 1 \in 1..Len(front) /\ Len(h) + 2 \in 1..Len(front)
  BY <1>0, <1>3
<1>7. data[Len(h) + 1] = code /\ data[Len(h) + 2] = byte /\ Len(data) = Len(h) + 2 + Len(p)
  BY <1>3, <1>4, <1>6
<1>8. \A i \in 1..Len(p) : data[Len(h) + 2 + i] = p[i]
  BY <1>3, <1>4
<1>9. Framed(h, code, byte, p) = data
  BY DEF Framed, data, front, two
<1>10. FramedLayout(data, h, code, byte, p)
  BY <1>4, <1>5, <1>7, <1>8 DEF FramedLayout
<1> QED
  BY <1>9, <1>10

LEMMA FramedSame ==
  ASSUME NEW h \in Seq(Bytes), NEW p \in Seq(Bytes), NEW code \in Bytes, NEW byte \in Bytes, NEW other \in Bytes,
         NEW i \in 1..Len(h) + 2 + Len(p), i # Len(h) + 2
  PROVE  Framed(h, code, byte, p)[i] = Framed(h, code, other, p)[i]
<1> DEFINE data == Framed(h, code, byte, p)
           copy == Framed(h, code, other, p)
<1>1. Len(h) \in Nat /\ Len(p) \in Nat
  BY LenProperties
<1>2. /\ \A j \in 1..Len(h) : data[j] = h[j] /\ copy[j] = h[j]
      /\ data[Len(h) + 1] = code /\ copy[Len(h) + 1] = code
      /\ \A j \in 1..Len(p) : data[Len(h) + 2 + j] = p[j] /\ copy[Len(h) + 2 + j] = p[j]
  <2>1. FramedLayout(data, h, code, byte, p)
    BY FramedBytes
  <2>2. FramedLayout(copy, h, code, other, p)
    BY FramedBytes
  <2> HIDE DEF data, copy
  <2> QED
    BY <2>1, <2>2 DEF FramedLayout
<1> HIDE DEF data, copy
<1>3. \/ i \in 1..Len(h) \/ i = Len(h) + 1
      \/ i - (Len(h) + 2) \in 1..Len(p) /\ Len(h) + 2 + (i - (Len(h) + 2)) = i
  BY <1>1
<1>4. copy[i] = data[i]
  BY <1>2, <1>3
<1> QED
  BY <1>4 DEF data, copy

(* A command packet: a sequence of bytes whose XOR is 0xFF.                 *)
CommandLayout(data, mid, func_code, seq_count, payload) ==
  /\ data \in Seq(Bytes) /\ Len(data) = PriHdrSize + CmdSecHdrSize + Len(payload)
  /\ ChecksumVerified(data)
  /\ \E checksum \in Bytes :
       data = PriHdr(mid, SequenceWord(Standalone, seq_count), PriHdrSize + CmdSecHdrSize + Len(payload))
                \o <<func_code % 128, checksum>> \o payload

LEMMA CommandPacked ==
  ASSUME NEW mid \in Words, NEW func_code \in Nat, NEW seq_count \in Nat,
         NEW payload \in Fitting(PriHdrSize + CmdSecHdrSize)
  PROVE  CommandLayout(PackCmd(mid, func_code, payload, seq_count), mid, func_code, seq_count, payload)
<1> DEFINE word2 == SequenceWord(Standalone, seq_count)
           total == PriHdrSize + CmdSecHdrSize + Len(payload)
           h == PriHdr(mid, word2, total)
           code == func_code % 128
           zeroed == Framed(h, code, 0, payload)
           checksum == ComputeChecksum(zeroed)
           data == Framed(h, code, checksum, payload)
<1>1. /\ payload \in Seq(Bytes) /\ Len(payload) \in Nat /\ total = 8 + Len(payload) /\ code \in Bytes /\ 0 \in Bytes
      /\ total - 7 \in Words /\ word2 \in Words
  <2>1. payload \in Seq(Bytes) /\ total - 7 \in Words
    <3>1. payload \in Seq(Bytes) /\ PriHdrSize + CmdSecHdrSize + Len(payload) - 7 \in Words
      BY DEF Fitting
    <3>2. Len(payload) \in Nat
      BY <3>1, LenProperties
    <3> QED
      BY <3>1, <3>2 DEF PriHdrSize, CmdSecHdrSize
  <2>2. word2 \in Words
    BY SequenceFields DEF Standalone
  <2>3. code \in Bytes /\ 0 \in Bytes
    BY DEF Bytes
  <2>4. total = 8 + Len(payload)
    BY DEF PriHdrSize, CmdSecHdrSize
  <2> QED
    BY <2>1, <2>2, <2>3, <2>4, LenProperties
<1>2. PackCmd(mid, func_code, payload, seq_count) = data
  BY DEF PackCmd, Summed, Framed
<1> HIDE DEF word2, total
<1>3. h \in Seq(Bytes)
  BY <1>1, HeaderBytes
<1>a. Len(h) = 6
  BY <1>1, HeaderBytes DEF PriHdrSize
<1>b. payload \in Seq(Bytes) /\ code \in Bytes /\ 0 \in Bytes
  BY <1>1
<1> HIDE DEF h, code
<1>4. zeroed \in Seq(Bytes) /\ Len(zeroed) = Len(h) + 2 + Len(payload) /\ zeroed[Len(h) + 2] = 0
  BY <1>3, <1>b, FramedBytes DEF FramedLayout
<1> HIDE DEF zeroed
<1>5. Len(h) + 2 \in 1..Len(zeroed)
  BY <1>1, <1>4, <1>a
<1>6. checksum \in Bytes
  BY <1>4, <1>5, ChecksumCloses
<1> HIDE DEF checksum
<1>7. data \in Seq(Bytes) /\ Len(data) = Len(h) + 2 + Len(payload) /\ data[Len(h) + 2] = checksum
  BY <1>3, <1>6, <1>b, FramedBytes DEF FramedLayout
<1>8. \A i \in 1..Len(zeroed) : i # Len(h) + 2 => data[i] = zeroed[i]
  BY <1>3, <1>4, <1>6, <1>b, FramedSame DEF zeroed
<1> HIDE DEF data
<1>9. ChecksumVerified(data)
  <2>1. Len(data) = Len(zeroed) /\ data[Len(h) + 2] = ComputeChecksum(zeroed)
    BY <1>4, <1>7 DEF checksum
  <2> QED
    BY <1>4, <1>5, <1>7, <1>8, <2>1, ChecksumCloses
<1>10. Len(data) = total
  BY <1>1, <1>7, <1>a
<1>11. data = PriHdr(mid, word2, total) \o <<func_code % 128, checksum>> \o payload
  BY DEF data, Framed, h, code
<1> QED
  BY <1>2, <1>6, <1>7, <1>9, <1>10, <1>11 DEF word2, total, CommandLayout
-----------------------------------------------------------------------------
(* Packets on their way: parts of packets, and what is made of them.        *)

LEMMA AllOfIt ==
  ASSUME NEW data \in Seq(Bytes)
  PROVE  SubSeq(data, 1, Len(data)) = data
<1>1. Len(data) \in 0..Len(data)
  BY LenProperties
<1> QED
  BY <1>1, CutBytes, SeqEqual

LEMMA CutAgain ==
  ASSUME NEW data \in Seq(Bytes), NEW n \in 0..Len(data), NEW k \in 0..n
  PROVE  SubSeq(SubSeq(data, 1, n), 1, k) = SubSeq(data, 1, k) /\ k \in 0..Len(data)
<1> DEFINE part == SubSeq(data, 1, n)
           once == SubSeq(part, 1, k)
           both == SubSeq(data, 1, k)
<1>1. Len(data) \in Nat /\ n \in 0..Len(data) /\ k \in 0..Len(data)
  BY LenProperties
<1>2. part \in Seq(Bytes) /\ Len(part) = n /\ \A i \in 1..n : part[i] = data[i]
  BY <1>1, CutBytes
<1> HIDE DEF part
<1>3. once \in Seq(Bytes) /\ Len(once) = k /\ \A i \in 1..k : once[i] = part[i]
  BY <1>2, CutBytes
<1>4. both \in Seq(Bytes) /\ Len(both) = k /\ \A i \in 1..k : both[i] = data[i]
  BY <1>1, CutBytes
<1> HIDE DEF once, both
<1>5. once = both
  BY <1>1, <1>2, <1>3, <1>4, SeqEqual
<1> QED
  BY <1>1, <1>5 DEF once, both, part

(* A part that holds the Length word, and is as long as the word says, is   *)
(* the whole packet.                                                        *)
LEMMA WholeIsAll ==
  ASSUME NEW data \in Seq(Bytes), WordAt(data, 5) = Len(data) - 7, NEW n \in 0..Len(data),
         Len(SubSeq(data, 1, n)) >= PriHdrSize,
         Len(SubSeq(data, 1, n)) = WordAt(SubSeq(data, 1, n), 5) + 7
  PROVE  n = Len(data) /\ SubSeq(data, 1, n) = data
<1>1. Len(SubSeq(data, 1, n)) = n /\ Len(data) \in Nat /\ n \in Nat /\ n >= 6
  BY CutBytes, LenProperties DEF PriHdrSize
<1>2. 5 \in 1..n - 1
  BY <1>1
<1>3. WordAt(SubSeq(data, 1, n), 5) = Len(data) - 7
  BY <1>2, CutWord
<1>4. n = Len(data)
  BY <1>1, <1>3
<1> QED
  BY <1>4, AllOfIt

(* A command, or a part of one.                                             *)
CommandRead(mid, func_code, seq_count, payload) ==
  LET data    == PackCmd(mid, func_code, payload, seq_count)
      command == UnpackCmd(data)
      header  == command.header
  IN /\ data \in Seq(Bytes) /\ ChecksumVerified(data)
     /\ WordAt(data, 5) = Len(data) - 7
     /\ StreamId(header.version, header.pkt_type, header.sec_hdr_flag, header.apid) = mid
     /\ header.apid = Apid(mid) /\ header.pkt_type = PktType(mid)
     /\ header.seq_count = seq_count % 16384
     /\ command.func_code = func_code % 128
     /\ command.payload = payload

LEMMA CommandWhole ==
  ASSUME NEW mid \in Words, NEW func_code \in Nat, NEW seq_count \in Nat,
         NEW payload \in Fitting(PriHdrSize + CmdSecHdrSize)
  PROVE  CommandRead(mid, func_code, seq_count, payload)
<1> DEFINE data == PackCmd(mid, func_code, payload, seq_count)
           command == UnpackCmd(data)
           word2 == SequenceWord(Standalone, seq_count)
           total == PriHdrSize + CmdSecHdrSize + Len(payload)
           h == PriHdr(mid, word2, total)
           code == func_code % 128
<1>0. CommandLayout(data, mid, func_code, seq_count, payload)
  BY CommandPacked
<1> HIDE DEF data
<1>1. data \in Seq(Bytes) /\ Len(data) = total /\ ChecksumVerified(data)
  BY <1>0 DEF CommandLayout
<1>2. PICK checksum \in Bytes : data = h \o <<code, checksum>> \o payload
  BY <1>0 DEF CommandLayout
<1>3. LET made == UnpackCmd(h \o <<code, checksum>> \o payload) IN
      /\ StreamId(made.header.version, made.header.pkt_type, made.header.sec_hdr_flag, made.header.apid) = mid
      /\ made.header.seq_count = seq_count % 16384 /\ made.header.data_length = Len(payload) + 1
      /\ made.func_code = func_code % 128 /\ made.payload = payload
  BY CommandRoundTrip
<1>4. payload \in Seq(Bytes) /\ Len(payload) \in Nat /\ total = 8 + Len(payload) /\ total - 7 \in Words /\ code \in Bytes
  <2>1. payload \in Seq(Bytes) /\ PriHdrSize + CmdSecHdrSize + Len(payload) - 7 \in Words
    BY DEF Fitting
  <2>2. Len(payload) \in Nat
    BY <2>1, LenProperties
  <2> QED
    BY <2>1, <2>2 DEF PriHdrSize, CmdSecHdrSize, Bytes
<1>5. WordAt(data, 1) = mid
  <2> DEFINE two == <<code, checksum>>
             rest == two \o payload
  <2>1. word2 \in Words /\ h \in Seq(Bytes)
    <3>1. word2 \in Words
      BY SequenceFields DEF Standalone
    <3> HIDE DEF word2, total
    <3> QED
      BY <1>4, <3>1, HeaderBytes
  <2>2. two \in Seq(Bytes) /\ rest \in Seq(Bytes)
    <3>1. two \in Seq(Bytes)
      <4> HIDE DEF code
      <4> QED
        BY <1>4
    <3> HIDE DEF two
    <3> QED
      BY <1>4, <3>1, Joined
  <2>3. data = h \o rest
    <3> HIDE DEF h, two
    <3>1. data = (h \o two) \o payload
      BY <1>2 DEF two
    <3> QED
      BY <1>4, <2>1, <2>2, <3>1, Associates
  <2> HIDE DEF rest
  <2>4. HeaderLayout(data, mid, word2, total, rest)
    <3> HIDE DEF word2, total
    <3>1. total \in Int
      BY <1>4
    <3> QED
      BY <1>4, <2>1, <2>2, <2>3, <3>1, HeaderAhead
  <2> QED
    BY <2>4 DEF HeaderLayout
<1> HIDE DEF h, total, code
<1>6. command.header = UnpackPriHdr(data)
  BY DEF UnpackCmd
<1>7. command.header.apid = Apid(mid) /\ command.header.pkt_type = PktType(mid)
  BY <1>5, <1>6 DEF UnpackPriHdr
<1>8. WordAt(data, 5) = Len(payload) + 1
  <2>1. command.header.data_length = WordAt(data, 5)
    BY <1>6 DEF UnpackPriHdr
  <2> QED
    BY <1>2, <1>3, <2>1
<1>9. WordAt(data, 5) = Len(data) - 7
  BY <1>1, <1>4, <1>8
<1> HIDE DEF command
<1>10. /\ StreamId(command.header.version, command.header.pkt_type, command.header.sec_hdr_flag, command.header.apid) = mid
       /\ command.header.seq_count = seq_count % 16384
       /\ command.func_code = func_code % 128 /\ command.payload = payload
  BY <1>2, <1>3 DEF command
<1> QED
  BY <1>1, <1>7, <1>9, <1>10 DEF command, data, CommandRead

(* Telemetry, or a part of it, and what the ground station makes of it.     *)
TelemetryPartRead(mid, payload, seq_count, seconds, subseconds, n) ==
  LET data   == PackTlm(mid, payload, seq_count, seconds, subseconds)
      part   == SubSeq(data, 1, n)
      parsed == ParsePacket(part)
  IN /\ data \in Seq(Bytes) /\ Len(data) = 16 + Len(payload) /\ WordAt(data, 5) = Len(data) - 7
     /\ payload \in Seq(Bytes) /\ Len(payload) \in Nat /\ n \in 0..16 + Len(payload)
     /\ n < 6 => parsed = [fields |-> "raw"]
     /\ 6 <= n /\ n < 16 => parsed.fields = "header"
     /\ 16 <= n => /\ parsed.fields = "telemetry"
                   /\ parsed.seconds = seconds /\ parsed.subseconds = subseconds
                   /\ parsed.decoded = Decoded(mid, SubSeq(payload, 1, n - 16))
     /\ 6 <= n => parsed.header.seq_count = seq_count % 16384

LEMMA TelemetryPart ==
  ASSUME NEW mid \in Words, NEW payload \in Fitting(TlmHdrSize), NEW seq_count \in Nat,
         NEW seconds \in Words \X Words, NEW subseconds \in Words,
         NEW n \in 0..Len(PackTlm(mid, payload, seq_count, seconds, subseconds))
  PROVE  TelemetryPartRead(mid, payload, seq_count, seconds, subseconds, n)
<1> DEFINE data   == PackTlm(mid, payload, seq_count, seconds, subseconds)
           part   == SubSeq(data, 1, n)
           parsed == ParsePacket(part)
<1>0. subseconds \in Nat /\ subseconds % 65536 = subseconds
  BY DEF Words
<1>1. /\ data \in Seq(Bytes) /\ Len(data) = 16 + Len(payload)
      /\ WordAt(data, 1) = mid /\ WordAt(data, 3) = SequenceWord(Standalone, seq_count)
      /\ WordAt(data, 5) = Len(data) - 7
  <2>1. TelemetryLayout(data, mid, payload, seq_count, seconds, subseconds)
    BY <1>0, TelemetryBytes
  <2> HIDE DEF data
  <2> QED
    BY <2>1 DEF TelemetryLayout
<1>2. payload \in Seq(Bytes) /\ Len(payload) \in Nat
  BY LenProperties DEF Fitting
<1>3. TlmHdrSize = 16 /\ PriHdrSize = 6
  BY DEF TlmHdrSize, PriHdrSize, TlmSecHdrSize, TlmHdrSpare
<1>4. n \in 0..16 + Len(payload) /\ n \in 0..Len(data)
  BY <1>1
<1>5. 16 <= n => UnpackTlm(part) = [seconds |-> seconds, subseconds |-> subseconds,
                                    payload |-> SubSeq(payload, 1, n - 16)]
  <2> SUFFICES ASSUME 16 <= n
               PROVE  UnpackTlm(part) = [seconds |-> seconds, subseconds |-> subseconds,
                                         payload |-> SubSeq(payload, 1, n - 16)]
    OBVIOUS
  <2>1. n \in TlmHdrSize..TlmHdrSize + Len(payload)
    BY <1>2, <1>3, <1>4
  <2>2. UnpackTlm(part) = [seconds |-> seconds, subseconds |-> subseconds % 65536,
                           payload |-> SubSeq(payload, 1, n - TlmHdrSize)]
    <3>1. TelemetryReads(mid, payload, seq_count, seconds, subseconds, n)
      BY <1>0, <2>1, TelemetryRead
    <3> QED
      BY <3>1 DEF TelemetryReads
  <2> HIDE DEF part
  <2> DEFINE got  == SubSeq(payload, 1, n - TlmHdrSize)
             sent == SubSeq(payload, 1, n - 16)
  <2>3. got = sent
    BY <1>3
  <2>4. UnpackTlm(part) = [seconds |-> seconds, subseconds |-> subseconds % 65536, payload |-> got]
    BY <2>2
  <2> HIDE DEF got, sent
  <2>5. UnpackTlm(part) = [seconds |-> seconds, subseconds |-> subseconds, payload |-> sent]
    BY <1>0, <2>3, <2>4
  <2> QED
    BY <2>5 DEF sent
<1> HIDE DEF data
<1>6. Len(part) = n
  BY <1>1, <1>4, CutBytes
<1>7. 6 <= n => UnpackPriHdr(part).seq_count = seq_count % 16384 /\ WordAt(part, 1) = mid
  <2> SUFFICES ASSUME 6 <= n PROVE UnpackPriHdr(part).seq_count = seq_count % 16384 /\ WordAt(part, 1) = mid
    OBVIOUS
  <2>1. n \in PriHdrSize..Len(data) /\ 1 \in 1..n - 1
    BY <1>1, <1>2, <1>3, <1>4
  <2>2. UnpackPriHdr(part) = UnpackPriHdr(data) /\ WordAt(part, 1) = WordAt(data, 1)
    BY <1>1, <1>4, <2>1, CutHeader, CutWord
  <2>3. UnpackPriHdr(data).seq_count = seq_count % 16384
    BY <1>1, HeaderFields
  <2> QED
    BY <1>1, <2>2, <2>3
<1> HIDE DEF part
<1>8. parsed = IF n < 6 THEN [fields |-> "raw"]
               ELSE IF n < 16 THEN [fields |-> "header", header |-> UnpackPriHdr(part)]
               ELSE [fields |-> "telemetry", header |-> UnpackPriHdr(part),
                     seconds |-> UnpackTlm(part).seconds, subseconds |-> UnpackTlm(part).subseconds,
                     decoded |-> Decoded(WordAt(part, 1), UnpackTlm(part).payload)]
  BY <1>3, <1>6 DEF ParsePacket
<1> HIDE DEF parsed
<1>9. /\ n < 6 => parsed = [fields |-> "raw"]
      /\ 6 <= n /\ n < 16 => parsed.fields = "header"
      /\ 16 <= n => /\ parsed.fields = "telemetry"
                    /\ parsed.seconds = seconds /\ parsed.subseconds = subseconds
                    /\ parsed.decoded = Decoded(mid, SubSeq(payload, 1, n - 16))
      /\ 6 <= n => parsed.header.seq_count = seq_count % 16384
  <2>1. CASE n < 6
    <3>1. parsed = [fields |-> "raw"] /\ ~(6 <= n) /\ ~(16 <= n)
      BY <1>4, <1>8, <2>1
    <3> QED
      BY <2>1, <3>1
  <2>2. CASE 6 <= n /\ n < 16
    <3>1. parsed = [fields |-> "header", header |-> UnpackPriHdr(part)] /\ ~(n < 6) /\ ~(16 <= n)
      BY <1>4, <1>8, <2>2
    <3> QED
      BY <1>7, <2>2, <3>1
  <2>3. CASE 16 <= n
    <3>1. ~(n < 6) /\ ~(n < 16) /\ 6 <= n
      BY <1>4, <2>3
    <3>2. parsed = [fields |-> "telemetry", header |-> UnpackPriHdr(part),
                    seconds |-> UnpackTlm(part).seconds, subseconds |-> UnpackTlm(part).subseconds,
                    decoded |-> Decoded(WordAt(part, 1), UnpackTlm(part).payload)]
      BY <1>8, <3>1
    <3>3. /\ UnpackTlm(part).seconds = seconds /\ UnpackTlm(part).subseconds = subseconds
          /\ UnpackTlm(part).payload = SubSeq(payload, 1, n - 16)
      BY <1>5, <2>3
    <3>4. /\ parsed.fields = "telemetry" /\ parsed.seconds = seconds /\ parsed.subseconds = subseconds
          /\ parsed.decoded = Decoded(mid, SubSeq(payload, 1, n - 16))
          /\ parsed.header.seq_count = seq_count % 16384
      BY <1>7, <3>1, <3>2, <3>3
    <3> QED
      BY <3>1, <3>4
  <2> QED
    BY <1>4, <2>1, <2>2, <2>3
<1> QED
  BY <1>1, <1>2, <1>4, <1>9 DEF parsed, part, data, TelemetryPartRead

-----------------------------------------------------------------------------
(* The payloads that are sent.                                              *)

LEMMA CommandPayload ==
  ASSUME NEW payload \in Payloads \cup Readings
  PROVE  payload \in Fitting(PriHdrSize + CmdSecHdrSize)
<1>1. payload \in Seq(Bytes) /\ Len(payload) \in Nat /\ 8 + Len(payload) - 7 \in Words
  <2>1. CASE payload \in Payloads
    <3>1. payload \in Seq(Bytes) /\ 16 + Len(payload) - 7 \in Words
      BY <2>1, LinkAssumption DEF LinkAssumption, Fitting, TlmHdrSize, PriHdrSize, TlmSecHdrSize, TlmHdrSpare
    <3> QED
      BY <3>1, LenProperties DEF Words
  <2>2. CASE payload \in Readings
    <3>1. payload \in Seq(Bytes) /\ Len(payload) = 4
      BY <2>2, LinkAssumption DEF LinkAssumption
    <3> QED
      BY <3>1 DEF Words
  <2> QED
    BY <2>1, <2>2
<1> QED
  BY <1>1 DEF Fitting, PriHdrSize, CmdSecHdrSize

LEMMA BytesListed ==
  ASSUME NEW n \in Nat, NEW f \in [1..n -> Bytes]
  PROVE  f \in Seq(Bytes) /\ Len(f) = n
<1>1. f \in Seq(Bytes)
  <2>1. f \in UNION {[1..m -> Bytes] : m \in Nat}
    OBVIOUS
  <2>2. Seq(Bytes) = UNION {[1..m -> Bytes] : m \in Nat}
    BY SeqDef
  <2> QED
    BY <2>1, <2>2
<1>2. DOMAIN f = 1..n /\ DOMAIN f = 1..Len(f) /\ Len(f) \in Nat
  BY <1>1, LenProperties
<1>3. \A i \in Nat : i \in 1..n <=> i \in 1..Len(f)
  BY <1>2
<1>4. ~(Len(f) < n) /\ ~(n < Len(f))
  <2>1. Len(f) < n => Len(f) + 1 \in 1..n /\ Len(f) + 1 \notin 1..Len(f)
    BY <1>2
  <2>2. n < Len(f) => n + 1 \notin 1..n /\ n + 1 \in 1..Len(f)
    BY <1>2
  <2> QED
    BY <1>2, <1>3, <2>1, <2>2
<1> QED
  BY <1>1, <1>2, <1>4

(* A float turned round, and turned back (rad_app.c, parser.py 54-57).      *)
LEMMA Flipped ==
  ASSUME NEW float \in Seq(Bytes), Len(float) = 4
  PROVE  Reverse(float) \in Seq(Bytes) /\ Len(Reverse(float)) = 4 /\ Reverse(Reverse(float)) = float
<1>1. \A i \in 1..4 : float[i] \in Bytes /\ Len(float) - i + 1 \in 1..4 /\ Len(float) - (Len(float) - i + 1) + 1 = i
  <2>1. \A i \in 1..4 : float[i] \in Bytes
    BY LenProperties
  <2>2. \A i \in 1..4 : 4 - i + 1 \in 1..4 /\ 4 - (4 - i + 1) + 1 = i
    OBVIOUS
  <2> QED
    BY <2>1, <2>2
<1> DEFINE turned == [i \in 1..4 |-> float[(Len(float) - i) + 1]]
<1>2. turned \in Seq(Bytes) /\ Len(turned) = 4
  <2>1. turned \in [1..4 -> Bytes]
    BY <1>1
  <2> HIDE DEF turned
  <2> QED
    BY <2>1, BytesListed
<1>3. Reverse(float) = turned
  BY DEF Reverse
<1>4. \A i \in 1..4 : turned[i] = float[(Len(float) - i) + 1]
  OBVIOUS
<1> HIDE DEF turned
<1>5. Reverse(turned) = [i \in 1..4 |-> turned[(4 - i) + 1]]
  BY <1>2 DEF Reverse
<1>6. \A i \in 1..4 : turned[(4 - i) + 1] = float[i]
  <2>1. \A i \in 1..4 : (4 - i) + 1 \in 1..4 /\ (4 - ((4 - i) + 1)) + 1 = i
    OBVIOUS
  <2> QED
    BY <1>4, <2>1
<1>7. float = [i \in 1..4 |-> float[i]]
  OBVIOUS
<1>8. Reverse(turned) = float
  BY <1>5, <1>6, <1>7
<1> QED
  BY <1>2, <1>3, <1>8

(* A float and the bytes behind it.                                         *)
LEMMA FloatAhead ==
  ASSUME NEW float \in Seq(Bytes), Len(float) = 4, NEW rest \in Seq(Bytes), Len(rest) \in 1..4
  PROVE  /\ float \o rest \in Fitting(TlmHdrSize)
         /\ Len(float \o rest) = 4 + Len(rest)
         /\ SubSeq(float \o rest, 1, 4) = float
<1> DEFINE p == float \o rest
<1>1. /\ p \in Seq(Bytes) /\ Len(p) = Len(float) + Len(rest)
      /\ \A i \in 1..Len(float) : p[i] = float[i]
  BY Joined
<1> HIDE DEF p
<1>2. Len(p) = 4 + Len(rest) /\ 4 \in 0..Len(p) /\ 16 + Len(p) - 7 \in Words
  <2> DEFINE long == Len(p)
             more == Len(rest)
  <2>1. long = 4 + more /\ more \in 1..4
    BY <1>1
  <2> HIDE DEF long, more
  <2>2. long = 4 + more /\ 4 \in 0..long /\ 16 + long - 7 \in Words
    BY <2>1 DEF Words
  <2> QED
    BY <2>2 DEF long, more
<1>3. p \in Fitting(TlmHdrSize)
  BY <1>1, <1>2 DEF Fitting, TlmHdrSize, PriHdrSize, TlmSecHdrSize, TlmHdrSpare
<1>4. /\ SubSeq(p, 1, 4) \in Seq(Bytes) /\ Len(SubSeq(p, 1, 4)) = 4
      /\ \A i \in 1..4 : SubSeq(p, 1, 4)[i] = p[i]
  BY <1>1, <1>2, CutBytes
<1>5. SubSeq(p, 1, 4) = float
  BY <1>1, <1>4, SeqEqual
<1> QED
  BY <1>2, <1>3, <1>5 DEF p

LEMMA Housekept ==
  ASSUME NEW payload \in HousekeepingPayloads
  PROVE  \E r \in Readings, h \in Healths : payload = Reverse(r) \o <<h>>
  BY DEF HousekeepingPayloads

LEMMA TelemetryPayload ==
  ASSUME NEW payload \in Payloads \cup HousekeepingPayloads
  PROVE  payload \in Fitting(TlmHdrSize)
<1>1. CASE payload \in Payloads
  BY <1>1, LinkAssumption DEF LinkAssumption
<1>2. ASSUME NEW r \in Readings, NEW h \in Healths, payload = Reverse(r) \o <<h>>
      PROVE  payload \in Fitting(TlmHdrSize)
  <2>1. r \in Seq(Bytes) /\ Len(r) = 4 /\ h \in Bytes
    BY LinkAssumption DEF LinkAssumption
  <2>2. Reverse(r) \in Seq(Bytes) /\ Len(Reverse(r)) = 4
    BY <2>1, Flipped
  <2> DEFINE float == Reverse(r)
             rest  == <<h>>
  <2>3. rest \in Seq(Bytes) /\ Len(rest) \in 1..4
    BY <2>1
  <2>4. float \in Seq(Bytes) /\ Len(float) = 4 /\ payload = float \o rest
    BY <1>2, <2>2
  <2> HIDE DEF float, rest
  <2> QED
    BY <2>3, <2>4, FloatAhead
<1>3. CASE payload \in HousekeepingPayloads
  BY <1>2, <1>3, Housekept
<1> QED
  BY <1>1, <1>3

(* What the parser finds in a part of a payload.                            *)
DecodedRight(mid, payload, k) ==
  LET made == Decoded(mid, SubSeq(payload, 1, k)) IN
  /\ made.value # NoValue =>
       /\ made.value = Reverse(SubSeq(payload, 1, 4))
       /\ made.health \in {0} \cup {payload[i] : i \in {5} \cap DOMAIN payload}
  /\ mid \in {TlmMidRad, TlmMidTherm} /\ k > 4 => made.health = payload[5]
  /\ mid = TlmMidRad /\ k >= 4 => made.type = "radiation" /\ made.value = Reverse(SubSeq(payload, 1, 4))
  /\ mid = EvsMid => made.event_text = EvsText(SubSeq(payload, 1, k))

LEMMA DecodedPart ==
  ASSUME NEW mid \in Words, NEW payload \in Seq(Bytes), NEW k \in 0..Len(payload)
  PROVE  DecodedRight(mid, payload, k)
<1> DEFINE part == SubSeq(payload, 1, k)
           made == Decoded(mid, part)
<1>1. part \in Seq(Bytes) /\ Len(part) = k /\ (\A i \in 1..k : part[i] = payload[i]) /\ Len(payload) \in Nat /\ k \in Nat
  BY CutBytes, LenProperties
<1>2. k >= 4 => SubSeq(part, 1, 4) = SubSeq(payload, 1, 4)
  BY <1>1, CutAgain
<1>3. k > 4 => part[5] = payload[5] /\ 5 \in DOMAIN payload
  BY <1>1
<1> HIDE DEF part
<1>4. ASSUME NEW type, k >= 4
      PROVE  LET read == ReadingOf(type, part) IN
             /\ read.type = type /\ read.value = Reverse(SubSeq(payload, 1, 4))
             /\ read.health = IF k > 4 THEN payload[5] ELSE 0
             /\ read.health \in {0} \cup {payload[i] : i \in {5} \cap DOMAIN payload}
  <2>1. /\ ReadingOf(type, part).type = type
        /\ ReadingOf(type, part).value = Reverse(SubSeq(part, 1, 4))
        /\ ReadingOf(type, part).health = IF Len(part) > 4 THEN part[5] ELSE 0
    BY DEF ReadingOf
  <2>2. ReadingOf(type, part).health = IF k > 4 THEN payload[5] ELSE 0
    BY <1>1, <1>3, <2>1
  <2>3. ReadingOf(type, part).health \in {0} \cup {payload[i] : i \in {5} \cap DOMAIN payload}
    BY <1>3, <2>2
  <2> QED
    BY <1>2, <1>4, <2>1, <2>2, <2>3
<1> DEFINE rad == ReadingOf("radiation", part)
           therm == ReadingOf("thermal", part)
<1>5. k >= 4 => /\ rad.type = "radiation" /\ rad.value = Reverse(SubSeq(payload, 1, 4))
                /\ (k > 4 => rad.health = payload[5])
                /\ rad.health \in {0} \cup {payload[i] : i \in {5} \cap DOMAIN payload}
                /\ therm.value = Reverse(SubSeq(payload, 1, 4))
                /\ (k > 4 => therm.health = payload[5])
                /\ therm.health \in {0} \cup {payload[i] : i \in {5} \cap DOMAIN payload}
  BY <1>4
<1> HIDE DEF rad, therm
<1>6. TlmMidRad # TlmMidTherm /\ TlmMidRad # EvsMid /\ TlmMidTherm # EvsMid
  BY DEF TlmMidRad, TlmMidTherm, EvsMid
<1>7. made = IF mid = TlmMidRad /\ k >= 4 THEN rad
             ELSE IF mid = TlmMidTherm /\ k >= 4 THEN therm
             ELSE [type |-> IF mid = EvsMid THEN "evs" ELSE "unknown", value |-> NoValue, health |-> 0,
                   event_text |-> IF mid = EvsMid THEN EvsText(part) ELSE NoValue]
  BY <1>1 DEF Decoded, rad, therm
<1> HIDE DEF made
<1>8. /\ made.value # NoValue =>
           /\ made.value = Reverse(SubSeq(payload, 1, 4))
           /\ made.health \in {0} \cup {payload[i] : i \in {5} \cap DOMAIN payload}
      /\ mid \in {TlmMidRad, TlmMidTherm} /\ k > 4 => made.health = payload[5]
      /\ mid = TlmMidRad /\ k >= 4 => made.type = "radiation" /\ made.value = Reverse(SubSeq(payload, 1, 4))
      /\ mid = EvsMid => made.event_text = EvsText(part)
  <2>1. CASE mid = TlmMidRad /\ k >= 4
    BY <1>5, <1>6, <1>7, <2>1
  <2>2. CASE mid = TlmMidTherm /\ k >= 4
    BY <1>5, <1>6, <1>7, <2>2
  <2>3. CASE ~(mid = TlmMidRad /\ k >= 4) /\ ~(mid = TlmMidTherm /\ k >= 4)
    <3>1. /\ made.value = NoValue
          /\ made.event_text = IF mid = EvsMid THEN EvsText(part) ELSE NoValue
      BY <1>7, <2>3
    <3>2. k > 4 => k >= 4
      BY <1>1
    <3> QED
      BY <2>3, <3>1, <3>2
  <2> QED
    BY <2>1, <2>2, <2>3
<1> QED
  BY <1>8 DEF made, part, DecodedRight

(* The bytes of an event message: the sender's name, and a NUL behind it.   *)
EventLayout(payload, name) ==
  /\ payload \in Fitting(TlmHdrSize) /\ payload \in Seq(Bytes) /\ Len(name) < Len(payload)
  /\ \A i \in 1..Len(name) : payload[i] = name[i]
  /\ payload[Len(name) + 1] = 0

LEMMA EventBytes ==
  ASSUME NEW name \in AppNames, NEW message \in Messages
  PROVE  EventLayout(EventPayload(name, message), name)
<1> DEFINE gap     == AppNameSize - Len(name)
           padding == [i \in 1..gap |-> 0]
           numbers == <<1, 0, 2, 0, 66, 0, 0, 0, 1, 0, 0, 0>>
           last    == <<0>>
           payload == ((name \o padding) \o (numbers \o message)) \o last
<1>1. /\ AppNameSize \in Nat /\ Len(name) \in Nat /\ Len(name) < AppNameSize
      /\ name \in Seq(Bytes) /\ message \in Seq(Bytes) /\ Len(message) \in Nat
      /\ 16 + AppNameSize + 13 + Len(message) - 7 \in Words
  <2>1. name \in Seq(32..126) /\ 32..126 \subseteq Bytes /\ AppNameSize \in Nat /\ Len(name) < AppNameSize
    BY LinkAssumption DEF LinkAssumption, Bytes
  <2>2. name \in Seq(Bytes)
    BY <2>1, SeqMonotonic
  <2>3. message \in Fitting(TlmHdrSize + AppNameSize + 13)
    BY LinkAssumption DEF LinkAssumption
  <2>4. message \in Seq(Bytes) /\ (TlmHdrSize + AppNameSize + 13) + Len(message) - 7 \in Words
    BY <2>3 DEF Fitting
  <2>5. Len(message) \in Nat /\ Len(name) \in Nat
    BY <2>2, <2>4, LenProperties
  <2>6. TlmHdrSize = 16
    BY DEF TlmHdrSize, PriHdrSize, TlmSecHdrSize, TlmHdrSpare
  <2> QED
    BY <2>1, <2>2, <2>4, <2>5, <2>6
<1>2. gap \in Nat \ {0} /\ 1 \in 1..gap /\ Len(name) + gap = AppNameSize
  BY <1>1
<1> HIDE DEF gap
<1>3. padding \in Seq(Bytes) /\ Len(padding) = gap /\ padding[1] = 0
  <2>1. padding \in [1..gap -> Bytes] /\ padding[1] = 0
    BY <1>2 DEF Bytes
  <2> HIDE DEF padding
  <2> QED
    BY <1>2, <2>1, BytesListed
<1>4. numbers \in Seq(Bytes) /\ Len(numbers) = 12 /\ last \in Seq(Bytes) /\ Len(last) = 1
  BY DEF Bytes
<1>5. EventPayload(name, message) = (((name \o padding) \o numbers) \o message) \o last
  BY DEF EventPayload, gap
<1> HIDE DEF padding, numbers, last
<1> DEFINE front == name \o padding
           rest  == numbers \o message
           most  == front \o rest
<1>6. /\ front \in Seq(Bytes) /\ Len(front) = Len(name) + gap
      /\ \A i \in 1..Len(name) : front[i] = name[i]
      /\ \A i \in 1..gap : front[Len(name) + i] = padding[i]
  <2>0. name \in Seq(Bytes) /\ padding \in Seq(Bytes)
    BY <1>1, <1>3
  <2>1. /\ front \in Seq(Bytes) /\ Len(front) = Len(name) + Len(padding)
        /\ \A i \in 1..Len(name) : front[i] = name[i]
        /\ \A i \in 1..Len(padding) : front[Len(name) + i] = padding[i]
    BY <2>0, Joined
  <2> HIDE DEF front
  <2> QED
    BY <1>3, <2>1
<1>7. rest \in Seq(Bytes) /\ Len(rest) = 12 + Len(message)
  <2>1. rest \in Seq(Bytes) /\ Len(rest) = Len(numbers) + Len(message)
    BY <1>1, <1>4, Joined
  <2> QED
    BY <1>4, <2>1
<1>8. EventPayload(name, message) = most \o last
  <2> HIDE DEF front
  <2>0. front \in Seq(Bytes) /\ numbers \in Seq(Bytes) /\ message \in Seq(Bytes)
    BY <1>1, <1>4, <1>6
  <2>1. (front \o numbers) \o message = front \o (numbers \o message)
    BY <2>0, Associates
  <2> QED
    BY <1>5, <2>1 DEF front
<1> HIDE DEF front, rest
<1>9. /\ most \in Seq(Bytes) /\ Len(most) = Len(front) + Len(rest)
      /\ \A i \in 1..Len(front) : most[i] = front[i]
  BY <1>6, <1>7, Joined
<1> HIDE DEF most
<1> DEFINE whole == most \o last
<1>10. /\ whole \in Seq(Bytes) /\ Len(whole) = Len(most) + 1
       /\ \A i \in 1..Len(most) : whole[i] = most[i]
  <2>1. /\ whole \in Seq(Bytes) /\ Len(whole) = Len(most) + Len(last)
        /\ \A i \in 1..Len(most) : whole[i] = most[i]
    <3>1. most \in Seq(Bytes) /\ last \in Seq(Bytes)
      BY <1>4, <1>9
    <3> QED
      BY <3>1, Joined
  <2> HIDE DEF whole
  <2> QED
    BY <1>4, <2>1
<1> HIDE DEF whole
<1>11. Len(whole) = AppNameSize + 13 + Len(message)
  <2>1. /\ Len(whole) = Len(most) + 1 /\ Len(most) = Len(front) + Len(rest)
        /\ Len(front) = Len(name) + gap /\ Len(rest) = 12 + Len(message)
    BY <1>6, <1>7, <1>9, <1>10
  <2> DEFINE text == Len(message)
             size == Len(name) + gap
  <2>2. Len(whole) = (size + (12 + text)) + 1 /\ size = AppNameSize
    BY <1>2, <2>1
  <2>3. text \in Nat /\ AppNameSize \in Nat
    BY <1>1
  <2> HIDE DEF text, size
  <2> QED
    BY <2>2, <2>3 DEF text
<1>12. whole \in Fitting(TlmHdrSize)
  <2> DEFINE long == Len(whole)
  <2>1. long = AppNameSize + 13 + Len(message)
    BY <1>11
  <2> HIDE DEF long
  <2>2. 16 + long - 7 \in Words
    <3>1. 16 + long - 7 = 16 + AppNameSize + 13 + Len(message) - 7
      BY <1>1, <2>1
    <3> QED
      BY <1>1, <3>1
  <2>3. TlmHdrSize = 16
    BY DEF TlmHdrSize, PriHdrSize, TlmSecHdrSize, TlmHdrSpare
  <2> QED
    BY <1>10, <2>2, <2>3 DEF long, Fitting
<1>13. \A i \in 1..AppNameSize : i \in 1..Len(front) /\ i \in 1..Len(most)
  BY <1>1, <1>2, <1>6, <1>7, <1>9
<1>14. \A i \in 1..AppNameSize : whole[i] = front[i]
  BY <1>9, <1>10, <1>13
<1>15. \A i \in 1..Len(name) : i \in 1..AppNameSize /\ whole[i] = name[i]
  <2>1. \A i \in 1..Len(name) : i \in 1..AppNameSize
    BY <1>1
  <2> QED
    BY <1>6, <1>14, <2>1
<1>16. whole[Len(name) + 1] = 0
  <2>1. Len(name) + 1 \in 1..AppNameSize
    BY <1>1
  <2>2. front[Len(name) + 1] = padding[1]
    BY <1>2, <1>6
  <2> QED
    BY <1>3, <1>14, <2>1, <2>2
<1>17. Len(name) < Len(whole)
  BY <1>1, <1>11
<1>18. EventLayout(whole, name)
  BY <1>10, <1>12, <1>15, <1>16, <1>17 DEF EventLayout
<1> QED
  BY <1>8, <1>18 DEF whole

(* The text of an event message, or of a part of one: from the first byte   *)
(* of the name, no further than its last (parser.py 92-108).                *)
LEMMA NameIsText ==
  ASSUME NEW payload, NEW name \in Seq(32..126), name # <<>>, name[1] # 32,
         EventLayout(payload, name), NEW k \in 0..Len(payload)
  PROVE  IsPrefix(EvsText(SubSeq(payload, 1, k)), name)
<1> DEFINE part    == SubSeq(payload, 1, k)
           ends    == {i \in DOMAIN part : part[i] = 0 /\ \E j \in 1..i - 1 : Printable(part[j])}
           visible == {i \in DOMAIN part : /\ Printable(part[i]) /\ part[i] # 32
                                           /\ \A n \in ends : i < n}
           len     == Len(name)
<1>1. /\ part \in Seq(Bytes) /\ Len(part) = k /\ DOMAIN part = 1..k
      /\ \A i \in 1..k : part[i] = payload[i]
  <2>1. payload \in Seq(Bytes)
    BY DEF EventLayout
  <2>2. part \in Seq(Bytes) /\ Len(part) = k /\ \A i \in 1..k : part[i] = payload[i]
    BY <2>1, CutBytes
  <2> HIDE DEF part
  <2> QED
    BY <2>2, LenProperties
<1>2. EvsText(part) = IF visible = {} THEN <<>>
                      ELSE [i \in 1..Max(visible) - Min(visible) + 1 |->
                              IF Printable(part[Min(visible) + i - 1]) THEN part[Min(visible) + i - 1] ELSE 32]
  BY DEF EvsText
<1> HIDE DEF part
<1>3. /\ len \in Nat /\ len >= 1 /\ k \in Nat /\ Len(payload) \in Nat /\ len < Len(payload)
      /\ payload[len + 1] = 0 /\ \A i \in 1..len : payload[i] = name[i] /\ name[i] \in 32..126
  <2>1. payload \in Seq(Bytes) /\ Len(payload) \in Nat
    BY LenProperties DEF EventLayout
  <2>2. len \in Nat /\ len # 0
    BY EmptySeq, LenProperties
  <2>3. \A i \in 1..len : name[i] \in 32..126
    BY ElementOfSeq
  <2> QED
    BY <2>1, <2>2, <2>3 DEF EventLayout
<1>4. \A i \in 1..k : i \in 1..len => part[i] = name[i] /\ part[i] \in 32..126 /\ Printable(part[i])
  <2> SUFFICES ASSUME NEW i \in 1..k, i \in 1..len
               PROVE  part[i] = name[i] /\ part[i] \in 32..126 /\ Printable(part[i])
    OBVIOUS
  <2>1. part[i] = name[i] /\ name[i] \in 32..126
    BY <1>1, <1>3
  <2>2. \A b \in 32..126 : Printable(b)
    BY DEF Printable
  <2> HIDE DEF len
  <2> QED
    BY <2>1, <2>2
<1>5. CASE visible = {}
  <2>1. EvsText(part) = <<>>
    BY <1>2, <1>5
  <2> HIDE DEF ends, visible
  <2>2. Len(<<>>) = 0 /\ SubSeq(<<>>, 1, 0) = SubSeq(name, 1, 0)
    OBVIOUS
  <2> QED
    BY <1>3, <2>1, <2>2 DEF IsPrefix, part
<1>6. CASE visible # {}
  <2>1. k >= 1 /\ 1 \in 1..k /\ 1 \in 1..len
    <3>1. \E i \in 1..k : TRUE
      BY <1>1, <1>6
    <3> QED
      BY <1>3, <3>1
  <2>2. 1 \in visible
    <3>1. part[1] = name[1] /\ Printable(part[1])
      BY <1>4, <2>1
    <3>2. \A n \in ends : 1 < n
      BY <1>1
    <3> QED
      BY <1>1, <2>1, <3>1, <3>2
  <2>3. \A v \in visible : v \in 1..k /\ v <= len
    <3> SUFFICES ASSUME NEW v \in visible, ~(v <= len) PROVE FALSE
      BY <1>1
    <3>1. v \in 1..k /\ len + 1 \in 1..k /\ len + 1 <= v /\ 1 \in 1..(len + 1) - 1
      BY <1>1, <1>3
    <3>2. part[len + 1] = 0 /\ Printable(part[1])
      BY <1>1, <1>3, <1>4, <2>1, <3>1
    <3>3. len + 1 \in ends
      BY <1>1, <3>1, <3>2
    <3>4. v < len + 1
      BY <3>3
    <3> QED
      BY <1>3, <3>1, <3>4
  <2>4. PICK m \in visible : \A v \in visible : v <= m
    <3>1. visible \in SUBSET (0..k)
      <4> HIDE DEF visible
      <4> QED
        BY <1>3, <2>3
    <3> HIDE DEF visible
    <3> QED
      BY <1>3, <1>6, <3>1, Greatest
  <2>5. m \in 1..k /\ m \in 1..len /\ m \in 0..len
    BY <1>3, <2>3, <2>4
  <2> HIDE DEF visible, ends
  <2>6. Max(visible) = m
    <3>1. \A v \in visible : v \in Int /\ m >= v
      BY <2>3, <2>4
    <3>2. \A x \in visible : (\A y \in visible : x >= y) => x = m
      BY <2>3, <2>4
    <3> QED
      BY <2>4, <3>1, <3>2 DEF Max
  <2>7. Min(visible) = 1
    <3>1. \A v \in visible : v \in Int /\ 1 <= v
      BY <2>3
    <3>2. \A x \in visible : (\A y \in visible : x =< y) => x = 1
      BY <2>2, <2>3
    <3> QED
      BY <2>2, <3>1, <3>2 DEF Min
  <2>8. EvsText(part) = [i \in 1..m |-> name[i]]
    <3>1. m - 1 + 1 = m /\ \A i \in 1..m : 1 + i - 1 = i /\ i \in 1..k /\ i \in 1..len
      BY <1>3, <2>5
    <3>2. EvsText(part) = [i \in 1..m |-> IF Printable(part[1 + i - 1]) THEN part[1 + i - 1] ELSE 32]
      BY <1>2, <1>6, <2>6, <2>7, <3>1
    <3>3. \A i \in 1..m : (IF Printable(part[1 + i - 1]) THEN part[1 + i - 1] ELSE 32) = name[i]
      BY <1>4, <3>1
    <3> QED
      BY <3>2, <3>3
  <2> DEFINE text == [i \in 1..m |-> name[i]]
             sent == SubSeq(name, 1, m)
  <2>9. name \in Seq(Bytes)
    <3>1. 32..126 \subseteq Bytes
      BY DEF Bytes
    <3> QED
      BY <3>1, SeqMonotonic
  <2>10. text \in Seq(Bytes) /\ Len(text) = m /\ \A i \in 1..m : text[i] = name[i]
    <3>1. text \in [1..m -> Bytes] /\ \A i \in 1..m : text[i] = name[i]
      BY <1>3, <2>5 DEF Bytes
    <3> HIDE DEF text
    <3> QED
      BY <2>5, <3>1, BytesListed
  <2>11. sent \in Seq(Bytes) /\ Len(sent) = m /\ \A i \in 1..m : sent[i] = name[i]
    BY <2>5, <2>9, CutBytes
  <2>12. SubSeq(text, 1, m) = text
    <3> HIDE DEF text
    <3> QED
      BY <2>10, AllOfIt
  <2> HIDE DEF text, sent
  <2>13. text = sent
    BY <2>10, <2>11, SeqEqual
  <2>14. m <= len
    BY <2>5
  <2>15. IsPrefix(text, name)
    <3>1. SubSeq(text, 1, m) = SubSeq(name, 1, m)
      BY <2>12, <2>13 DEF sent
    <3> QED
      BY <2>10, <2>14, <3>1 DEF IsPrefix
  <2> QED
    BY <2>8, <2>15 DEF text, part
<1> QED
  BY <1>5, <1>6

-----------------------------------------------------------------------------
(* The packet on its way: what it was made of, and that the wire holds its  *)
(* first bytes.                                                             *)

PartOf(packet) == \E n \in 0..Len(packet) : wire = SubSeq(packet, 1, n)

OfCommand ==
  \E mid \in Mids, fc \in FuncCodes, seq \in SeqCounts, payload \in Payloads \cup Readings :
    /\ origin = [kind |-> "command", mid |-> mid, fc |-> fc, seq |-> seq, payload |-> payload]
    /\ PartOf(PackCmd(mid, fc, payload, seq))

OfTelemetry ==
  \E mid \in Mids, seq \in SeqCounts, time \in Times, payload \in Payloads \cup HousekeepingPayloads :
    /\ origin = [kind |-> "telemetry", mid |-> mid, seq |-> seq, time |-> time, payload |-> payload]
    /\ PartOf(PackTlm(mid, payload, seq, time.seconds, time.subseconds))

OfEvent ==
  \E name \in AppNames, message \in Messages, seq \in SeqCounts, time \in Times :
    /\ origin = [kind |-> "event", name |-> name, message |-> message, seq |-> seq, time |-> time]
    /\ PartOf(PackTlm(EvsMid, EventPayload(name, message), seq, time.seconds, time.subseconds))

(* What the flight software sends of a reading.                             *)
ReadingPacket(reading, health, seq, time) ==
  PackTlm(TlmMidRad, NetworkToHost(reading) \o <<health, 0, 0, 0>>, seq, time.seconds, time.subseconds)

OfReading ==
  \E reading \in Readings, seq \in SeqCounts, time \in Times, health \in Healths :
    /\ origin = [kind |-> "reading", reading |-> reading]
    /\ PartOf(ReadingPacket(reading, health, seq, time))

LinkInv ==
  /\ stage \in {"idle", "sent", "unpacked", "parsed"}
  /\ stage # "idle" => OfCommand \/ OfTelemetry \/ OfEvent \/ OfReading
  /\ stage = "unpacked" => OfCommand /\ result = UnpackCmd(wire)
  /\ stage = "parsed" => result = ParsePacket(wire)

LEMMA AllOf ==
  ASSUME NEW data \in Seq(Bytes)
  PROVE  \E n \in 0..Len(data) : data = SubSeq(data, 1, n)
<1>1. Len(data) \in 0..Len(data)
  BY LenProperties
<1> QED
  BY <1>1, AllOfIt

LEMMA Constants ==
  /\ \A mid \in Mids : mid \in Words
  /\ \A fc \in FuncCodes : fc \in Nat
  /\ \A seq \in SeqCounts : seq \in Nat
  /\ \A time \in Times : time.seconds \in Words \X Words /\ time.subseconds \in Words
  /\ \A reading \in Readings : reading \in Seq(Bytes) /\ Len(reading) = 4
  /\ \A health \in Healths : health \in Bytes
  /\ \A name \in AppNames : name \in Seq(32..126) /\ name # <<>> /\ name[1] # 32
  /\ TlmMidRad \in Words /\ EvsMid \in Words
<1>1. TlmMidRad \in Words /\ EvsMid \in Words
  BY DEF TlmMidRad, EvsMid, Words
<1>2. \A fc \in FuncCodes : fc \in Nat
  BY LinkAssumption DEF LinkAssumption, Bytes
<1> QED
  BY <1>1, <1>2, LinkAssumption DEF LinkAssumption

LEMMA ReadingPayload ==
  ASSUME NEW reading \in Readings, NEW health \in Healths
  PROVE  LET payload == NetworkToHost(reading) \o <<health, 0, 0, 0>> IN
         /\ payload \in Fitting(TlmHdrSize) /\ Len(payload) = 8
         /\ Reverse(SubSeq(payload, 1, 4)) = reading
<1> DEFINE float == Reverse(reading)
           rest  == <<health, 0, 0, 0>>
<1>1. float \in Seq(Bytes) /\ Len(float) = 4 /\ Reverse(float) = reading
  BY Constants, Flipped
<1>2. rest \in Seq(Bytes) /\ Len(rest) = 4
  <2>1. health \in Bytes /\ 0 \in Bytes
    BY Constants DEF Bytes
  <2> QED
    BY <2>1
<1> HIDE DEF float, rest
<1>3. Len(rest) \in 1..4
  BY <1>2
<1>4. float \o rest \in Fitting(TlmHdrSize) /\ Len(float \o rest) = 4 + Len(rest) /\ SubSeq(float \o rest, 1, 4) = float
  BY <1>1, <1>2, <1>3, FloatAhead
<1> DEFINE payload == NetworkToHost(reading) \o <<health, 0, 0, 0>>
<1>5. payload = float \o rest
  BY DEF NetworkToHost, float, rest
<1> HIDE DEF payload
<1>6. payload \in Fitting(TlmHdrSize) /\ Len(payload) = 8 /\ Reverse(SubSeq(payload, 1, 4)) = reading
  <2>1. payload \in Fitting(TlmHdrSize) /\ Len(payload) = 4 + Len(rest) /\ SubSeq(payload, 1, 4) = float
    BY <1>4, <1>5
  <2>2. Len(payload) = 8
    BY <1>2, <2>1
  <2> QED
    BY <1>1, <2>1, <2>2
<1> QED
  BY <1>6 DEF payload

(* Every packet that is sent is a sequence of bytes, as long as it says.    *)
LEMMA SentBytes ==
  /\ \A mid \in Mids, fc \in FuncCodes, seq \in SeqCounts, payload \in Payloads \cup Readings :
       PackCmd(mid, fc, payload, seq) \in Seq(Bytes)
  /\ \A mid \in Mids, seq \in SeqCounts, time \in Times, payload \in Payloads \cup HousekeepingPayloads :
       PackTlm(mid, payload, seq, time.seconds, time.subseconds) \in Seq(Bytes)
  /\ \A name \in AppNames, message \in Messages, seq \in SeqCounts, time \in Times :
       PackTlm(EvsMid, EventPayload(name, message), seq, time.seconds, time.subseconds) \in Seq(Bytes)
  /\ \A reading \in Readings, seq \in SeqCounts, time \in Times, health \in Healths :
       ReadingPacket(reading, health, seq, time) \in Seq(Bytes)
<1>1. ASSUME NEW mid \in Mids, NEW fc \in FuncCodes, NEW seq \in SeqCounts, NEW payload \in Payloads \cup Readings
      PROVE  PackCmd(mid, fc, payload, seq) \in Seq(Bytes)
  <2>1. mid \in Words /\ fc \in Nat /\ seq \in Nat /\ payload \in Fitting(PriHdrSize + CmdSecHdrSize)
    BY Constants, CommandPayload
  <2>2. CommandLayout(PackCmd(mid, fc, payload, seq), mid, fc, seq, payload)
    BY <2>1, CommandPacked
  <2> QED
    BY <2>2 DEF CommandLayout
<1>2. ASSUME NEW mid \in Words, NEW seq \in SeqCounts, NEW time \in Times, NEW payload \in Fitting(TlmHdrSize)
      PROVE  PackTlm(mid, payload, seq, time.seconds, time.subseconds) \in Seq(Bytes)
  <2>1. seq \in Nat /\ time.seconds \in Words \X Words /\ time.subseconds \in Nat
    BY Constants DEF Words
  <2>2. TelemetryLayout(PackTlm(mid, payload, seq, time.seconds, time.subseconds), mid, payload, seq,
                        time.seconds, time.subseconds)
    BY <2>1, TelemetryBytes
  <2> QED
    BY <2>2 DEF TelemetryLayout
<1>3. ASSUME NEW mid \in Mids, NEW seq \in SeqCounts, NEW time \in Times,
             NEW payload \in Payloads \cup HousekeepingPayloads
      PROVE  PackTlm(mid, payload, seq, time.seconds, time.subseconds) \in Seq(Bytes)
  BY <1>2, Constants, TelemetryPayload
<1>4. ASSUME NEW name \in AppNames, NEW message \in Messages, NEW seq \in SeqCounts, NEW time \in Times
      PROVE  PackTlm(EvsMid, EventPayload(name, message), seq, time.seconds, time.subseconds) \in Seq(Bytes)
  <2>1. EventPayload(name, message) \in Fitting(TlmHdrSize)
    BY EventBytes DEF EventLayout
  <2> QED
    BY <1>2, <2>1, Constants
<1>5. ASSUME NEW reading \in Readings, NEW seq \in SeqCounts, NEW time \in Times, NEW health \in Healths
      PROVE  ReadingPacket(reading, health, seq, time) \in Seq(Bytes)
  <2>1. NetworkToHost(reading) \o <<health, 0, 0, 0>> \in Fitting(TlmHdrSize)
    BY ReadingPayload
  <2> QED
    BY <1>2, <2>1, Constants DEF ReadingPacket
<1> QED
  BY <1>1, <1>3, <1>4, <1>5

(* What the receiver of a whole command has is what the sender put in.      *)
LEMMA CommandWire ==
  ASSUME OfCommand, Whole
  PROVE  /\ ChecksumVerified(wire)
         /\ origin.mid \in Mids /\ origin.fc \in FuncCodes /\ origin.payload \in Payloads \cup Readings
         /\ LET command == UnpackCmd(wire)
                header  == command.header
            IN /\ StreamId(header.version, header.pkt_type, header.sec_hdr_flag, header.apid) = origin.mid
               /\ header.apid = Apid(origin.mid) /\ header.pkt_type = PktType(origin.mid)
               /\ header.seq_count = origin.seq % 16384
               /\ command.func_code = origin.fc % 128
               /\ command.payload = origin.payload
<1>1. PICK mid \in Mids, fc \in FuncCodes, seq \in SeqCounts, payload \in Payloads \cup Readings :
        /\ origin = [kind |-> "command", mid |-> mid, fc |-> fc, seq |-> seq, payload |-> payload]
        /\ PartOf(PackCmd(mid, fc, payload, seq))
  BY DEF OfCommand
<1> DEFINE packet  == PackCmd(mid, fc, payload, seq)
           command == UnpackCmd(packet)
           header  == command.header
<1>2. mid \in Words /\ fc \in Nat /\ seq \in Nat /\ payload \in Fitting(PriHdrSize + CmdSecHdrSize)
  BY Constants, CommandPayload
<1>3. /\ packet \in Seq(Bytes) /\ ChecksumVerified(packet)
      /\ WordAt(packet, 5) = Len(packet) - 7
      /\ StreamId(header.version, header.pkt_type, header.sec_hdr_flag, header.apid) = mid
      /\ header.apid = Apid(mid) /\ header.pkt_type = PktType(mid)
      /\ header.seq_count = seq % 16384
      /\ command.func_code = fc % 128
      /\ command.payload = payload
  <2>1. CommandRead(mid, fc, seq, payload)
    BY <1>2, CommandWhole
  <2> QED
    BY <2>1 DEF CommandRead
<1>4. PICK n \in 0..Len(packet) : wire = SubSeq(packet, 1, n)
  BY <1>1 DEF PartOf
<1> HIDE DEF packet
<1>5. wire = packet
  BY <1>3, <1>4, WholeIsAll DEF Whole
<1>6. origin.mid = mid /\ origin.fc = fc /\ origin.seq = seq /\ origin.payload = payload
  BY <1>1
<1> QED
  BY <1>3, <1>5, <1>6

LEMMA LinkStart ==
  ASSUME LinkInit
  PROVE  LinkInv
  BY DEF LinkInit, LinkInv

LEMMA LinkStep ==
  ASSUME LinkInv, [LinkNext]_linkVars
  PROVE  LinkInv'
<1>1. CASE SendCommand
  <2>1. PICK mid \in Mids, fc \in FuncCodes, seq \in SeqCounts, payload \in Payloads \cup Readings :
          /\ wire' = PackCmd(mid, fc, payload, seq)
          /\ origin' = [kind |-> "command", mid |-> mid, fc |-> fc, seq |-> seq, payload |-> payload]
    BY <1>1 DEF SendCommand
  <2>2. PartOf(PackCmd(mid, fc, payload, seq))'
    <3> DEFINE packet == PackCmd(mid, fc, payload, seq)
    <3>1. packet \in Seq(Bytes)
      BY SentBytes
    <3> HIDE DEF packet
    <3>2. \E n \in 0..Len(packet) : packet = SubSeq(packet, 1, n)
      BY <3>1, AllOf
    <3>3. wire' = packet
      BY <2>1 DEF packet
    <3> QED
      BY <3>2, <3>3 DEF PartOf, packet
  <2>3. OfCommand'
    BY <2>1, <2>2 DEF OfCommand
  <2>4. stage' = "sent"
    BY <1>1 DEF SendCommand
  <2> QED
    BY <2>3, <2>4 DEF LinkInv
<1>2. CASE SendTelemetry
  <2>1. PICK mid \in Mids, seq \in SeqCounts, time \in Times, payload \in Payloads \cup HousekeepingPayloads :
          /\ wire' = PackTlm(mid, payload, seq, time.seconds, time.subseconds)
          /\ origin' = [kind |-> "telemetry", mid |-> mid, seq |-> seq, time |-> time, payload |-> payload]
    BY <1>2 DEF SendTelemetry
  <2>2. PartOf(PackTlm(mid, payload, seq, time.seconds, time.subseconds))'
    <3> DEFINE packet == PackTlm(mid, payload, seq, time.seconds, time.subseconds)
    <3>1. packet \in Seq(Bytes)
      BY SentBytes
    <3> HIDE DEF packet
    <3>2. \E n \in 0..Len(packet) : packet = SubSeq(packet, 1, n)
      BY <3>1, AllOf
    <3>3. wire' = packet
      BY <2>1 DEF packet
    <3> QED
      BY <3>2, <3>3 DEF PartOf, packet
  <2>3. OfTelemetry'
    BY <2>1, <2>2 DEF OfTelemetry
  <2>4. stage' = "sent"
    BY <1>2 DEF SendTelemetry
  <2> QED
    BY <2>3, <2>4 DEF LinkInv
<1>3. CASE SendEvent
  <2>1. PICK name \in AppNames, message \in Messages, seq \in SeqCounts, time \in Times :
          /\ wire' = PackTlm(EvsMid, EventPayload(name, message), seq, time.seconds, time.subseconds)
          /\ origin' = [kind |-> "event", name |-> name, message |-> message, seq |-> seq, time |-> time]
    BY <1>3 DEF SendEvent
  <2>2. PartOf(PackTlm(EvsMid, EventPayload(name, message), seq, time.seconds, time.subseconds))'
    <3> DEFINE packet == PackTlm(EvsMid, EventPayload(name, message), seq, time.seconds, time.subseconds)
    <3>1. packet \in Seq(Bytes)
      BY SentBytes
    <3> HIDE DEF packet
    <3>2. \E n \in 0..Len(packet) : packet = SubSeq(packet, 1, n)
      BY <3>1, AllOf
    <3>3. wire' = packet
      BY <2>1 DEF packet
    <3> QED
      BY <3>2, <3>3 DEF PartOf, packet
  <2>3. OfEvent'
    BY <2>1, <2>2 DEF OfEvent
  <2>4. stage' = "sent"
    BY <1>3 DEF SendEvent
  <2> QED
    BY <2>3, <2>4 DEF LinkInv
<1>4. CASE Cut
  <2>1. PICK k \in 0..(Len(wire) - 1) : wire' = SubSeq(wire, 1, k)
    BY <1>4 DEF Cut
  <2>2. stage = "sent" /\ stage' = "sent" /\ origin' = origin
    BY <1>4 DEF Cut
  <2>3. ASSUME NEW packet \in Seq(Bytes), NEW n \in 0..Len(packet), wire = SubSeq(packet, 1, n)
        PROVE  \E m \in 0..Len(packet) : wire' = SubSeq(packet, 1, m)
    <3>1. Len(wire) = n /\ n \in Nat
      BY <2>3, CutBytes, LenProperties
    <3>2. k \in 0..n
      BY <3>1
    <3> QED
      BY <2>1, <2>3, <3>2, CutAgain
  <2>4. ASSUME NEW packet \in Seq(Bytes), PartOf(packet)
        PROVE  PartOf(packet)'
    BY <2>3, <2>4 DEF PartOf
  <2>5. OfCommand => OfCommand'
    BY <2>2, <2>4, SentBytes DEF OfCommand
  <2>6. OfTelemetry => OfTelemetry'
    BY <2>2, <2>4, SentBytes DEF OfTelemetry
  <2>7. OfEvent => OfEvent'
    BY <2>2, <2>4, SentBytes DEF OfEvent
  <2>8. OfReading => OfReading'
    BY <2>2, <2>4, SentBytes DEF OfReading
  <2> QED
    BY <2>2, <2>5, <2>6, <2>7, <2>8 DEF LinkInv
<1>5. CASE Unpack
  <2>1. /\ stage = "sent" /\ stage' = "unpacked" /\ origin.kind = "command"
        /\ result' = UnpackCmd(wire) /\ wire' = wire /\ origin' = origin
    BY <1>5 DEF Unpack
  <2>2. OfCommand
    BY <2>1 DEF LinkInv, OfTelemetry, OfEvent, OfReading
  <2>3. OfCommand'
    BY <2>1, <2>2 DEF OfCommand, PartOf
  <2> QED
    BY <2>1, <2>3 DEF LinkInv
<1>6. CASE FlightApp
  <2>1. /\ stage = "unpacked" /\ stage' = "sent" /\ Whole /\ origin.payload \in Readings
        /\ origin' = [kind |-> "reading", reading |-> origin.payload]
    BY <1>6 DEF FlightApp
  <2>2. PICK seq \in SeqCounts, time \in Times, health \in Healths :
          wire' = PackTlm(TlmMidRad, NetworkToHost(result.payload) \o <<health, 0, 0, 0>>, seq,
                          time.seconds, time.subseconds)
    BY <1>6 DEF FlightApp
  <2>3. OfCommand /\ result = UnpackCmd(wire)
    BY <2>1 DEF LinkInv
  <2>4. result.payload = origin.payload
    BY <2>1, <2>3, CommandWire
  <2>5. PICK reading \in Readings : reading = origin.payload
    BY <2>1
  <2>6. PartOf(ReadingPacket(reading, health, seq, time))'
    <3> DEFINE packet == ReadingPacket(reading, health, seq, time)
    <3>1. packet \in Seq(Bytes)
      BY SentBytes
    <3>2. wire' = packet
      BY <2>2, <2>4, <2>5 DEF ReadingPacket
    <3> HIDE DEF packet
    <3>3. \E n \in 0..Len(packet) : packet = SubSeq(packet, 1, n)
      BY <3>1, AllOf
    <3> QED
      BY <3>2, <3>3 DEF PartOf, packet
  <2>7. OfReading'
    BY <2>1, <2>5, <2>6 DEF OfReading
  <2> QED
    BY <2>1, <2>7 DEF LinkInv
<1>7. CASE Parse
  <2>1. stage = "sent" /\ stage' = "parsed" /\ result' = ParsePacket(wire) /\ wire' = wire /\ origin' = origin
    BY <1>7 DEF Parse
  <2>2. (OfCommand \/ OfTelemetry \/ OfEvent \/ OfReading)'
    BY <2>1 DEF LinkInv, OfCommand, OfTelemetry, OfEvent, OfReading, PartOf
  <2> QED
    BY <2>1, <2>2 DEF LinkInv
<1>8. CASE Done
  BY <1>8 DEF Done, LinkInv
<1>9. CASE UNCHANGED linkVars
  <2>1. stage' = stage /\ wire' = wire /\ result' = result /\ origin' = origin
    BY <1>9 DEF linkVars
  <2> QED
    BY <2>1 DEF LinkInv, OfCommand, OfTelemetry, OfEvent, OfReading, PartOf
<1> QED
  BY <1>1, <1>2, <1>3, <1>4, <1>5, <1>6, <1>7, <1>8, <1>9 DEF LinkNext

(* LinkInv: the wire holds the first bytes of a packet of what origin tells, *)
(* and a result is what the receiver makes of the wire.  It is the          *)
(* inductive invariant behind the theorems below.                      *)
THEOREM PacketOnItsWay == LinkSpec => []LinkInv
<1>1. LinkInv /\ [LinkNext]_linkVars => LinkInv'
  BY LinkStep
<1> QED
  BY LinkStart, <1>1, PTL DEF LinkSpec

(* The verification script's verdict on a command is right for every        *)
(* message id, function code, sequence counter and payload: the checksum    *)
(* closes, and the round trip passes exactly for a command's message id and *)
(* a function code of seven bits (verify_core.py 61-79).                    *)
THEOREM VerdictIsRight == LinkSpec => []VerifierIsRight
<1>1. LinkInv => VerifierIsRight
  <2> SUFFICES ASSUME LinkInv, stage = "sent", origin.kind = "command", Whole
               PROVE  /\ ChecksumVerified(wire)
                      /\ RoundTripVerified(wire, origin.mid % 2048, origin.fc)
                           <=> (origin.mid \div 4096) % 2 = 1 /\ origin.fc < 128
    BY DEF VerifierIsRight
  <2>1. OfCommand
    BY DEF LinkInv, OfTelemetry, OfEvent, OfReading
  <2> DEFINE command == UnpackCmd(wire)
             header  == command.header
  <2>2. /\ ChecksumVerified(wire) /\ origin.fc \in FuncCodes
        /\ header.apid = Apid(origin.mid) /\ header.pkt_type = PktType(origin.mid)
        /\ command.func_code = origin.fc % 128
    BY <2>1, CommandWire
  <2>3. origin.fc % 128 = origin.fc <=> origin.fc < 128
    <3>1. \A fc \in Nat : fc % 128 = fc <=> fc < 128
      OBVIOUS
    <3> QED
      BY <2>2, <3>1, Constants
  <2>4. RoundTripVerified(wire, origin.mid % 2048, origin.fc)
          <=> header.apid = origin.mid % 2048 /\ header.pkt_type = 1 /\ command.func_code = origin.fc
    BY DEF RoundTripVerified
  <2> HIDE DEF command
  <2> QED
    BY <2>2, <2>3, <2>4 DEF Apid, PktType
<1> QED
  BY PacketOnItsWay, <1>1, PTL

(* A command that arrives whole is unpacked as it was packed, up to the     *)
(* widths of the sequence counter and the function code (ccsds_utils.py     *)
(* 97-133, 196-213).                                                        *)
THEOREM CommandArrives == LinkSpec => []CommandSurvives
<1>1. LinkInv => CommandSurvives
  <2> SUFFICES ASSUME LinkInv, stage = "unpacked", Whole
               PROVE  /\ StreamId(result.header.version, result.header.pkt_type,
                                  result.header.sec_hdr_flag, result.header.apid) = origin.mid
                      /\ result.header.seq_count = origin.seq % 16384
                      /\ result.func_code = origin.fc % 128
                      /\ result.payload = origin.payload
    BY DEF CommandSurvives
  <2>1. OfCommand /\ result = UnpackCmd(wire)
    BY DEF LinkInv
  <2> QED
    BY <2>1, CommandWire
<1> QED
  BY PacketOnItsWay, <1>1, PTL

(* What the parser makes of the first n bytes of any telemetry packet: the  *)
(* fields of its headers are missing or right.                              *)
LEMMA HeaderRead ==
  ASSUME NEW mid \in Words, NEW payload \in Fitting(TlmHdrSize), NEW seq \in SeqCounts, NEW time \in Times,
         PartOf(PackTlm(mid, payload, seq, time.seconds, time.subseconds)), result = ParsePacket(wire)
  PROVE  /\ result.fields \in {"header", "telemetry"} => result.header.seq_count = seq % 16384
         /\ result.fields = "telemetry" =>
              result.seconds = time.seconds /\ result.subseconds = time.subseconds
<1> DEFINE packet == PackTlm(mid, payload, seq, time.seconds, time.subseconds)
<1>1. PICK n \in 0..Len(packet) : wire = SubSeq(packet, 1, n)
  BY DEF PartOf
<1>2. seq \in Nat /\ time.seconds \in Words \X Words /\ time.subseconds \in Words
  BY Constants
<1>3. LET parsed == ParsePacket(SubSeq(packet, 1, n)) IN
      /\ n \in 0..16 + Len(payload) /\ Len(payload) \in Nat
      /\ n < 6 => parsed = [fields |-> "raw"]
      /\ 6 <= n /\ n < 16 => parsed.fields = "header"
      /\ 16 <= n => parsed.seconds = time.seconds /\ parsed.subseconds = time.subseconds
      /\ 6 <= n => parsed.header.seq_count = seq % 16384
  <2>1. TelemetryPartRead(mid, payload, seq, time.seconds, time.subseconds, n)
    BY <1>2, TelemetryPart
  <2> QED
    BY <2>1 DEF TelemetryPartRead
<1> HIDE DEF packet
<1>4. n < 6 => result.fields = "raw"
  BY <1>1, <1>3
<1>5. 6 <= n /\ n < 16 => result.fields = "header"
  BY <1>1, <1>3
<1>6. n < 6 \/ (6 <= n /\ n < 16) \/ 16 <= n
  BY <1>3
<1>7. n < 6 \/ 6 <= n
  BY <1>3
<1> QED
  BY <1>1, <1>3, <1>4, <1>5, <1>6, <1>7

(* A part of a packet of telemetry is never misread (parser.py 30-89): a    *)
(* field of what the parser returns is missing or right, for every length   *)
(* at which the datagram may be cut.  Of event messages that is proved of   *)
(* the header.                                                              *)
THEOREM NeverMisread == LinkSpec => []NothingMisread
<1>1. ASSUME LinkInv, stage = "parsed", origin.kind = "event"
      PROVE  /\ result.fields \in {"header", "telemetry"} => result.header.seq_count = origin.seq % 16384
             /\ result.fields = "telemetry" =>
                  result.seconds = origin.time.seconds /\ result.subseconds = origin.time.subseconds
  <2>1. OfEvent /\ result = ParsePacket(wire)
    BY <1>1 DEF LinkInv, OfCommand, OfTelemetry, OfReading
  <2>2. PICK name \in AppNames, message \in Messages, seq \in SeqCounts, time \in Times :
          /\ origin = [kind |-> "event", name |-> name, message |-> message, seq |-> seq, time |-> time]
          /\ PartOf(PackTlm(EvsMid, EventPayload(name, message), seq, time.seconds, time.subseconds))
    BY <2>1 DEF OfEvent
  <2>3. EventPayload(name, message) \in Fitting(TlmHdrSize) /\ EvsMid \in Words
    BY EventBytes, Constants DEF EventLayout
  <2>4. origin.seq = seq /\ origin.time = time
    BY <2>2
  <2> QED
    BY <2>1, <2>2, <2>3, <2>4, HeaderRead
<1>2. ASSUME LinkInv, stage = "parsed", origin.kind = "telemetry"
      PROVE  /\ result.fields \in {"header", "telemetry"} => result.header.seq_count = origin.seq % 16384
             /\ result.fields = "telemetry" =>
                  result.seconds = origin.time.seconds /\ result.subseconds = origin.time.subseconds
             /\ result.fields = "telemetry" /\ result.decoded.value # NoValue =>
                  /\ result.decoded.value = Reverse(SubSeq(origin.payload, 1, 4))
                  /\ result.decoded.health \in
                       {0} \cup {origin.payload[i] : i \in {5} \cap DOMAIN origin.payload}
             /\ Whole /\ Len(origin.payload) > 4 /\ origin.mid \in {TlmMidRad, TlmMidTherm} =>
                  result.fields = "telemetry" /\ result.decoded.health = origin.payload[5]
  <2>1. OfTelemetry /\ result = ParsePacket(wire)
    BY <1>2 DEF LinkInv, OfCommand, OfEvent, OfReading
  <2>2. PICK mid \in Mids, seq \in SeqCounts, time \in Times, payload \in Payloads \cup HousekeepingPayloads :
          /\ origin = [kind |-> "telemetry", mid |-> mid, seq |-> seq, time |-> time, payload |-> payload]
          /\ PartOf(PackTlm(mid, payload, seq, time.seconds, time.subseconds))
    BY <2>1 DEF OfTelemetry
  <2> DEFINE packet == PackTlm(mid, payload, seq, time.seconds, time.subseconds)
  <2>3. PICK n \in 0..Len(packet) : wire = SubSeq(packet, 1, n)
    BY <2>2 DEF PartOf
  <2>4. /\ mid \in Words /\ payload \in Fitting(TlmHdrSize) /\ seq \in Nat
        /\ time.seconds \in Words \X Words /\ time.subseconds \in Words
    BY Constants, TelemetryPayload
  <2>5. LET parsed == ParsePacket(SubSeq(packet, 1, n)) IN
        /\ packet \in Seq(Bytes) /\ Len(packet) = 16 + Len(payload) /\ WordAt(packet, 5) = Len(packet) - 7
        /\ payload \in Seq(Bytes) /\ Len(payload) \in Nat /\ n \in 0..16 + Len(payload)
        /\ n < 6 => parsed = [fields |-> "raw"]
        /\ 6 <= n /\ n < 16 => parsed.fields = "header"
        /\ 16 <= n => /\ parsed.fields = "telemetry"
                      /\ parsed.decoded = Decoded(mid, SubSeq(payload, 1, n - 16))
    <3>1. TelemetryPartRead(mid, payload, seq, time.seconds, time.subseconds, n)
      BY <2>4, TelemetryPart
    <3> QED
      BY <3>1 DEF TelemetryPartRead
  <2> HIDE DEF packet
  <2>6. /\ origin.seq = seq /\ origin.time = time /\ origin.payload = payload /\ origin.mid = mid
        /\ result = ParsePacket(SubSeq(packet, 1, n))
    BY <2>1, <2>2, <2>3
  <2>7. /\ result.fields \in {"header", "telemetry"} => result.header.seq_count = seq % 16384
        /\ result.fields = "telemetry" =>
             result.seconds = time.seconds /\ result.subseconds = time.subseconds
    BY <2>1, <2>2, <2>4, HeaderRead DEF packet
  <2>8. 16 <= n => DecodedRight(mid, payload, n - 16) /\ n - 16 \in 0..Len(payload)
    <3>1. 16 <= n => n - 16 \in 0..Len(payload)
      BY <2>5
    <3> QED
      BY <2>4, <2>5, <3>1, DecodedPart
  <2>9. result.fields = "telemetry" => 16 <= n
    <3>1. n < 6 => result.fields = "raw"
      BY <2>5, <2>6
    <3>2. 6 <= n /\ n < 16 => result.fields = "header"
      BY <2>5, <2>6
    <3>3. n < 6 \/ (6 <= n /\ n < 16) \/ 16 <= n
      BY <2>5
    <3> QED
      BY <3>1, <3>2, <3>3
  <2>10. Whole /\ Len(payload) > 4 => 16 <= n /\ n - 16 > 4
    <3> SUFFICES ASSUME Whole, Len(payload) > 4 PROVE 16 <= n /\ n - 16 > 4
      OBVIOUS
    <3>1. n = Len(packet)
      BY <2>3, <2>5, WholeIsAll DEF Whole
    <3> QED
      BY <2>5, <3>1
  <2>11. 16 <= n => result.fields = "telemetry" /\ result.decoded = Decoded(mid, SubSeq(payload, 1, n - 16))
    BY <2>5, <2>6
  <2>12. 16 <= n =>
           /\ result.decoded.value # NoValue =>
                /\ result.decoded.value = Reverse(SubSeq(payload, 1, 4))
                /\ result.decoded.health \in {0} \cup {payload[i] : i \in {5} \cap DOMAIN payload}
           /\ mid \in {TlmMidRad, TlmMidTherm} /\ n - 16 > 4 => result.decoded.health = payload[5]
    BY <2>8, <2>11 DEF DecodedRight
  <2> QED
    BY <2>6, <2>7, <2>9, <2>10, <2>11, <2>12
<1>3. LinkInv => NothingMisread
  BY <1>1, <1>2 DEF NothingMisread
<1> QED
  BY PacketOnItsWay, <1>3, PTL

(* How far the finding of EventMessageIsExtracted reaches: whatever event    *)
(* message is sent, and at whatever length the datagram is cut, the parser's *)
(* text holds nothing but a part of the sender's name (parser.py 92-108).   *)
THEOREM OnlyTheNameIsExtracted ==
  LinkSpec => [](stage = "parsed" /\ origin.kind = "event" /\ result.fields = "telemetry" =>
                   IsPrefix(result.decoded.event_text, origin.name))
<1>1. ASSUME LinkInv, stage = "parsed", origin.kind = "event", result.fields = "telemetry"
      PROVE  IsPrefix(result.decoded.event_text, origin.name)
  <2>1. OfEvent /\ result = ParsePacket(wire)
    BY <1>1 DEF LinkInv, OfCommand, OfTelemetry, OfReading
  <2>2. PICK name \in AppNames, message \in Messages, seq \in SeqCounts, time \in Times :
          /\ origin = [kind |-> "event", name |-> name, message |-> message, seq |-> seq, time |-> time]
          /\ PartOf(PackTlm(EvsMid, EventPayload(name, message), seq, time.seconds, time.subseconds))
    BY <2>1 DEF OfEvent
  <2> DEFINE payload == EventPayload(name, message)
             packet  == PackTlm(EvsMid, payload, seq, time.seconds, time.subseconds)
  <2>3. EventLayout(payload, name)
    BY EventBytes
  <2>4. payload \in Fitting(TlmHdrSize)
    BY <2>3 DEF EventLayout
  <2>5. PICK n \in 0..Len(packet) : wire = SubSeq(packet, 1, n)
    BY <2>2 DEF PartOf
  <2> HIDE DEF payload
  <2>6. LET parsed == ParsePacket(SubSeq(packet, 1, n)) IN
        /\ payload \in Seq(Bytes) /\ Len(payload) \in Nat /\ n \in 0..16 + Len(payload)
        /\ n < 6 => parsed = [fields |-> "raw"]
        /\ 6 <= n /\ n < 16 => parsed.fields = "header"
        /\ 16 <= n => parsed.decoded = Decoded(EvsMid, SubSeq(payload, 1, n - 16))
    <3>1. TelemetryPartRead(EvsMid, payload, seq, time.seconds, time.subseconds, n)
      BY <2>4, TelemetryPart, Constants
    <3> QED
      BY <3>1 DEF TelemetryPartRead
  <2> HIDE DEF packet
  <2>7. 16 <= n /\ result.decoded = Decoded(EvsMid, SubSeq(payload, 1, n - 16))
    BY <1>1, <2>1, <2>5, <2>6
  <2>8. n - 16 \in 0..Len(payload)
    BY <2>6, <2>7
  <2>9. result.decoded.event_text = EvsText(SubSeq(payload, 1, n - 16))
    BY <2>6, <2>7, <2>8, Constants, DecodedPart DEF DecodedRight
  <2> QED
    BY <2>2, <2>3, <2>8, <2>9, NameIsText, Constants
<1> QED
  BY PacketOnItsWay, <1>1, PTL

(* Every reading of a sensor that the flight software turns into telemetry  *)
(* and that arrives whole is the same four bytes at the ground station      *)
(* (base_sensor.py 54-56, rad_app.c 24-34, parser.py 54-57).                *)
THEOREM ReadingArrives == LinkSpec => []ReadingSurvives
<1>1. LinkInv => ReadingSurvives
  <2> SUFFICES ASSUME LinkInv, stage = "parsed", origin.kind = "reading", Whole
               PROVE  result.decoded.type = "radiation" /\ result.decoded.value = origin.reading
    BY DEF ReadingSurvives
  <2>1. OfReading /\ result = ParsePacket(wire)
    BY DEF LinkInv, OfCommand, OfTelemetry, OfEvent
  <2>2. PICK reading \in Readings, seq \in SeqCounts, time \in Times, health \in Healths :
          /\ origin = [kind |-> "reading", reading |-> reading]
          /\ PartOf(ReadingPacket(reading, health, seq, time))
    BY <2>1 DEF OfReading
  <2> DEFINE payload == NetworkToHost(reading) \o <<health, 0, 0, 0>>
             packet  == PackTlm(TlmMidRad, payload, seq, time.seconds, time.subseconds)
  <2>3. PICK n \in 0..Len(packet) : wire = SubSeq(packet, 1, n)
    BY <2>2 DEF PartOf, ReadingPacket
  <2>4. payload \in Fitting(TlmHdrSize) /\ Len(payload) = 8 /\ Reverse(SubSeq(payload, 1, 4)) = reading
    BY ReadingPayload
  <2> HIDE DEF payload
  <2>5. LET parsed == ParsePacket(SubSeq(packet, 1, n)) IN
        /\ packet \in Seq(Bytes) /\ Len(packet) = 16 + Len(payload) /\ WordAt(packet, 5) = Len(packet) - 7
        /\ payload \in Seq(Bytes)
        /\ 16 <= n => parsed.decoded = Decoded(TlmMidRad, SubSeq(payload, 1, n - 16))
    <3>1. TelemetryPartRead(TlmMidRad, payload, seq, time.seconds, time.subseconds, n)
      BY <2>4, TelemetryPart, Constants
    <3> QED
      BY <3>1 DEF TelemetryPartRead
  <2> HIDE DEF packet
  <2>6. n = Len(packet)
    BY <2>3, <2>5, WholeIsAll DEF Whole
  <2>7. n = 24 /\ n - 16 = 8 /\ 8 \in 0..Len(payload)
    BY <2>4, <2>5, <2>6
  <2>8. result.decoded = Decoded(TlmMidRad, SubSeq(payload, 1, 8))
    BY <2>1, <2>3, <2>5, <2>7
  <2>9. DecodedRight(TlmMidRad, payload, 8)
    BY <2>5, <2>7, Constants, DecodedPart
  <2> QED
    BY <2>2, <2>4, <2>8, <2>9 DEF DecodedRight
<1> QED
  BY PacketOnItsWay, <1>1, PTL

-----------------------------------------------------------------------------
(* Places in a filtered list.                                               *)

LEMMA PlaceIs ==
  ASSUME NEW F, NEW i
  PROVE  Place(F, i) = Cardinality({j \in F : j <= i})
  BY DEF Place

LEMMA Places ==
  ASSUME NEW n \in Nat, NEW F \in SUBSET (1..n)
  PROVE  /\ IsFiniteSet(F) /\ Cardinality(F) \in Nat
         /\ \A i \in Int : Place(F, i) \in 0..Cardinality(F)
         /\ \A i \in F : Place(F, i) \in 1..Cardinality(F)
         /\ Place(F, n) = Cardinality(F)
<1>0. \A j \in F : j \in 1..n
  OBVIOUS
<1>1. IsFiniteSet(F) /\ Cardinality(F) \in Nat
  <2>1. IsFiniteSet(1..n)
    BY FS_Interval
  <2> QED
    BY <2>1, FS_Subset, FS_CardinalityType
<1>2. ASSUME NEW i \in Int
      PROVE  Place(F, i) \in 0..Cardinality(F) /\ (i \in F => Place(F, i) # 0)
  <2> DEFINE low == {j \in F : j <= i}
  <2>1. IsFiniteSet(low) /\ Cardinality(low) <= Cardinality(F) /\ Cardinality(low) \in Nat
    BY <1>1, FS_Subset, FS_CardinalityType
  <2>2. i \in F => i \in low
    OBVIOUS
  <2> HIDE DEF low
  <2>3. i \in F => Cardinality(low) # 0
    BY <2>1, <2>2, FS_EmptySet
  <2> QED
    BY <1>1, <2>1, <2>3, PlaceIs DEF low
<1>3. {j \in F : j <= n} = F
  <2>1. \A j \in F : j <= n
    BY <1>0
  <2> QED
    BY <2>1, Zenon
<1> QED
  BY <1>1, <1>2, <1>3, PlaceIs

(* One more entry takes the next place.                                     *)
LEMMA PlaceStep ==
  ASSUME NEW n \in Nat, NEW F \in SUBSET (1..n), NEW i \in Nat \ {0}
  PROVE  Place(F, i) = IF i \in F THEN Place(F, i - 1) + 1 ELSE Place(F, i - 1)
<1> DEFINE low  == {j \in F : j <= i}
           last == {j \in F : j <= i - 1}
<1>0. \A j \in F : j \in 1..n
  OBVIOUS
<1>1. IsFiniteSet(last)
  BY Places, FS_Subset
<1>2. CASE i \in F
  <2>1. low = last \cup {i} /\ i \notin last
    <3>1. \A j \in F : (j <= i <=> j <= i - 1 \/ j = i) /\ ~(i <= i - 1)
      BY <1>0
    <3> QED
      BY <1>2, <3>1, Zenon
  <2> HIDE DEF low, last
  <2>2. Cardinality(low) = Cardinality(last) + 1
    BY <1>1, <2>1, FS_AddElement
  <2> QED
    BY <1>2, <2>2, PlaceIs DEF low, last
<1>3. CASE i \notin F
  <2>1. low = last
    <3>1. \A j \in F : j <= i <=> j <= i - 1 \/ j = i
      BY <1>0
    <3> QED
      BY <1>3, <3>1, Zenon
  <2> QED
    BY <1>3, <2>1, PlaceIs
<1> QED
  BY <1>2, <1>3

(* Every place is taken.                                                    *)
LEMMA PlaceTaken ==
  ASSUME NEW n \in Nat, NEW F \in SUBSET (1..n), NEW k \in 1..Cardinality(F)
  PROVE  \E i \in F : Place(F, i) = k
<1>0. Cardinality(F) \in Nat /\ k \in Nat /\ 1 <= k /\ k <= Cardinality(F)
  BY Places
<1> DEFINE T == {m \in Nat : Place(F, m) >= k}
<1>1. n \in T
  BY <1>0, Places
<1>2. PICK m \in T : \A l \in T : m <= l
  BY <1>1, Least
<1>3. m # 0
  <2>0. \A j \in F : j \in 1..n
    OBVIOUS
  <2>1. {j \in F : j <= 0} = {}
    <3>1. \A j \in F : ~(j <= 0)
      BY <2>0
    <3> QED
      BY <3>1, Zenon
  <2>2. Place(F, 0) = 0
    BY <2>1, PlaceIs, FS_EmptySet
  <2> QED
    BY <1>0, <1>2, <2>2
<1>4. m - 1 \in Nat /\ m - 1 \notin T
  BY <1>2, <1>3
<1>5. Place(F, m - 1) \in Nat /\ Place(F, m - 1) < k
  BY <1>0, <1>4, Places
<1>6. m \in F /\ Place(F, m) = k
  <2>1. Place(F, m) = IF m \in F THEN Place(F, m - 1) + 1 ELSE Place(F, m - 1)
    BY <1>2, <1>3, PlaceStep
  <2> QED
    BY <1>0, <1>2, <1>5, <2>1
<1> QED
  BY <1>6

(* More entries in the list, or the same ones one further on, do not bring  *)
(* an entry forward.                                                        *)
LEMMA PlaceGrows ==
  ASSUME NEW n \in Nat, NEW G \in SUBSET (1..n), NEW F \in SUBSET G, NEW i \in Int
  PROVE  Place(F, i) <= Place(G, i)
<1> DEFINE f == {j \in F : j <= i}
           g == {j \in G : j <= i}
<1>1. IsFiniteSet(g) /\ f \in SUBSET g
  BY Places, FS_Subset
<1> HIDE DEF f, g
<1>2. Cardinality(f) <= Cardinality(g)
  BY <1>1, FS_Subset
<1> QED
  BY <1>2, PlaceIs DEF f, g

LEMMA PlaceMoves ==
  ASSUME NEW m \in Nat, NEW n \in Nat, NEW F \in SUBSET (1..m), NEW G \in SUBSET (1..n), NEW i \in Nat \ {0},
         \A j \in F : j <= i - 1 => j + 1 \in G
  PROVE  Place(F, i - 1) <= Place(G, i)
<1> DEFINE f == {j \in F : j <= i - 1}
           g == {j \in G : j <= i}
           moved == [j \in f |-> j + 1]
<1>0. (\A j \in F : j \in Nat) /\ (\A j \in G : j \in Nat)
  OBVIOUS
<1>1. IsFiniteSet(g)
  BY Places, FS_Subset
<1>2. moved \in [f -> g]
  <2> SUFFICES ASSUME NEW j \in f PROVE j + 1 \in g
    OBVIOUS
  <2> QED
    BY <1>0
<1>3. \A j, k \in f : moved[j] = moved[k] => j = k
  BY <1>0
<1> HIDE DEF moved, f, g
<1>4. moved \in Injection(f, g)
  BY <1>2, <1>3 DEF Injection, IsInjective
<1>5. Cardinality(f) <= Cardinality(g)
  BY <1>1, <1>4, FS_Injection
<1> QED
  BY <1>5, PlaceIs DEF f, g
-----------------------------------------------------------------------------
(* Pages.                                                                   *)

LEMMA Quotient ==
  ASSUME NEW a \in Nat, NEW d \in Nat \ {0}
  PROVE  /\ a \div d \in Nat
         /\ (a \div d) * d <= a /\ a < (a \div d) * d + d
  OBVIOUS

LEMMA OneLess ==
  ASSUME NEW a \in Int, NEW d \in Nat
  PROVE  (a - 1) * d = a * d - d /\ a * d \in Int /\ (a - 1) * d \in Int
  OBVIOUS

(* The pages are as many as are needed, and at least one.                   *)
LEMMA PagesNeeded ==
  ASSUME ItemsPerPageAssumption, NEW total \in Nat
  PROVE  /\ PageCount(total) \in Nat \ {0}
         /\ total <= PageCount(total) * ItemsPerPage
         /\ total > 0 => (PageCount(total) - 1) * ItemsPerPage < total
<1> DEFINE ceil == (total + ItemsPerPage - 1) \div ItemsPerPage
<1>1. ItemsPerPage \in Nat \ {0}
  BY DEF ItemsPerPageAssumption
<1>2. /\ ceil \in Nat
      /\ ceil * ItemsPerPage <= total + ItemsPerPage - 1
      /\ total + ItemsPerPage - 1 < ceil * ItemsPerPage + ItemsPerPage
  BY <1>1, Quotient, total + ItemsPerPage - 1 \in Nat
<1>3. PageCount(total) = IF ceil > 1 THEN ceil ELSE 1
  BY DEF PageCount
<1> HIDE DEF ceil
<1>4. (ceil - 1) * ItemsPerPage = ceil * ItemsPerPage - ItemsPerPage /\ 1 * ItemsPerPage = ItemsPerPage
  BY <1>1, <1>2
<1>5. ceil <= 1 => total <= ItemsPerPage
  <2>1. ceil = 0 => ceil * ItemsPerPage = 0
    BY <1>1
  <2>2. ceil = 1 => ceil * ItemsPerPage = ItemsPerPage
    BY <1>1
  <2> QED
    BY <1>1, <1>2, <2>1, <2>2
<1>6. CASE ceil > 1
  BY <1>1, <1>2, <1>3, <1>4, <1>6
<1>7. CASE ~(ceil > 1)
  BY <1>1, <1>2, <1>3, <1>4, <1>5, <1>7
<1> QED
  BY <1>6, <1>7

(* A place in the list lies on one of the pages.                            *)
LEMMA PageOfPlace ==
  ASSUME ItemsPerPageAssumption, NEW total \in Nat, NEW place \in 1..total
  PROVE  \E p \in 1..PageCount(total) : (p - 1) * ItemsPerPage < place /\ place <= p * ItemsPerPage
<1>1. ItemsPerPage \in Nat \ {0} /\ place \in Nat /\ place \in Int /\ 1 <= place /\ place <= total
  BY DEF ItemsPerPageAssumption
<1> DEFINE q == (place - 1) \div ItemsPerPage
<1>2. q \in Nat /\ q * ItemsPerPage <= place - 1 /\ place - 1 < q * ItemsPerPage + ItemsPerPage
  BY <1>1, Quotient, place - 1 \in Nat
<1> HIDE DEF q
<1>3. (q + 1) * ItemsPerPage = q * ItemsPerPage + ItemsPerPage /\ (q + 1) - 1 = q
  BY <1>1, <1>2
<1>4. q + 1 <= PageCount(total)
  <2> DEFINE count == PageCount(total)
  <2>1. count \in Nat \ {0} /\ total <= count * ItemsPerPage
    BY PagesNeeded
  <2> HIDE DEF count
  <2>2. SUFFICES ASSUME count <= q PROVE FALSE
    BY <1>2, <2>1 DEF count
  <2>3. count * ItemsPerPage <= q * ItemsPerPage
    BY <1>1, <1>2, <2>1, <2>2
  <2>4. q * ItemsPerPage \in Int /\ count * ItemsPerPage \in Int
    BY <1>1, <1>2, <2>1
  <2> QED
    BY <1>1, <1>2, <2>1, <2>3, <2>4
<1>5. q + 1 \in 1..PageCount(total)
  BY <1>2, <1>4, PagesNeeded
<1>6. q * ItemsPerPage \in Int
  BY <1>1, <1>2
<1>7. q * ItemsPerPage < place /\ place <= q * ItemsPerPage + ItemsPerPage
  BY <1>1, <1>2, <1>6
<1> QED
  BY <1>3, <1>5, <1>7

(* The positions of page p, duplicates included.                            *)
Window(F, p) == {i \in F : (p - 1) * ItemsPerPage < Place(F, i) /\ Place(F, i) <= p * ItemsPerPage}

(* Leaving the duplicates out of a page leaves no packet out.               *)
LEMMA NoneDropped ==
  ASSUME NEW items, NEW F \in SUBSET Nat, NEW p
  PROVE  /\ SliceForPage(items, F, p) \subseteq F
         /\ Keys(items, SliceForPage(items, F, p)) = Keys(items, Window(F, p))
<1> DEFINE window == Window(F, p)
           slice  == SliceForPage(items, F, p)
<1>1. slice = {i \in window : \A j \in window : items[j].key = items[i].key => i <= j} /\ window \subseteq F
  BY DEF SliceForPage, Window
<1> HIDE DEF slice, window
<1>2. ASSUME NEW i \in window PROVE \E j \in slice : items[j].key = items[i].key
  <2> DEFINE same == {j \in window : items[j].key = items[i].key}
  <2>1. same \in SUBSET Nat /\ i \in same
    BY <1>1, <1>2
  <2>2. PICK j \in same : \A l \in same : j <= l
    BY <2>1, Least
  <2> QED
    BY <1>1, <2>2
<1>3. Keys(items, slice) = Keys(items, window)
  <2>1. \A k \in Keys(items, slice) : k \in Keys(items, window)
    BY <1>1 DEF Keys
  <2>2. ASSUME NEW k \in Keys(items, window) PROVE k \in Keys(items, slice)
    <3>1. PICK i \in window : k = items[i].key
      BY <2>2 DEF Keys
    <3> QED
      BY <1>2, <3>1 DEF Keys
  <2> QED
    BY <2>1, <2>2
<1> QED
  BY <1>1, <1>3 DEF slice, window
-----------------------------------------------------------------------------
(* What a run of the script sees of the buffer.                             *)

(* What Pagination assumes of its constants; its runs evaluate it.          *)
PageAssumptions ==
  /\ TypesAssumption /\ BufferSizeAssumption /\ RecentMaxAssumption
  /\ ItemsPerPageAssumption /\ MaxArrivalsAssumption

(* How many entries of the buffer the list shows.                           *)
Newest(buf) == IF Len(buf) > RecentMax THEN RecentMax ELSE Len(buf)

LEMMA ViewIs ==
  ASSUME PageAssumptions, NEW buf \in Seq(Entries)
  PROVE  /\ ItemsAll(buf) \in Seq(Entries) /\ Len(ItemsAll(buf)) = Newest(buf)
         /\ Newest(buf) \in Nat /\ Newest(buf) <= Len(buf) /\ (buf # <<>> => Newest(buf) >= 1)
         /\ \A i \in 1..Newest(buf) :
              /\ Len(buf) + 1 - i \in 1..Len(buf)
              /\ ItemsAll(buf)[i] = buf[Len(buf) + 1 - i]
<1> DEFINE n == Len(buf)
           low == IF n > RecentMax THEN n - RecentMax + 1 ELSE 1
           part == SubSeq(buf, low, n)
           all == ItemsAll(buf)
<1>1. n \in Nat /\ RecentMax \in Nat \ {0} /\ (buf # <<>> => n # 0)
  BY LenProperties, EmptySeq DEF PageAssumptions, RecentMaxAssumption
<1>2. all = [i \in 1..Len(part) |-> part[Len(part) - i + 1]]
  BY DEF ItemsAll, Reverse
<1> HIDE DEF all
<1>3. low \in 1..n + 1 /\ n - low + 1 = Newest(buf) /\ Newest(buf) \in Nat /\ Newest(buf) <= n
  BY <1>1 DEF Newest
<1>4. \A i \in 1..n : buf[i] \in Entries
  BY ElementOfSeq
<1> HIDE DEF low, n
<1>5. /\ part \in Seq(Entries) /\ Len(part) = Newest(buf)
      /\ \A i \in 1..Newest(buf) : part[i] = buf[low + i - 1]
  <2>1. \A i \in low..n : buf[i] \in Entries
    BY <1>1, <1>3, <1>4
  <2>2. /\ part \in Seq(Entries) /\ Len(part) = IF low <= n THEN n - low + 1 ELSE 0
        /\ \A i \in 1..n - low + 1 : part[i] = buf[low + i - 1]
    BY <1>1, <1>3, <2>1, SubSeqProperties
  <2> HIDE DEF part
  <2> QED
    BY <1>1, <1>3, <2>2
<1> HIDE DEF part
<1>6. ASSUME NEW i \in 1..Newest(buf)
      PROVE  /\ Newest(buf) - i + 1 \in 1..Newest(buf) /\ n + 1 - i \in 1..n
             /\ part[Newest(buf) - i + 1] = buf[n + 1 - i]
  <2>1. Newest(buf) - i + 1 \in 1..Newest(buf) /\ n + 1 - i \in 1..n
    BY <1>1, <1>3
  <2>2. low + (Newest(buf) - i + 1) - 1 = n + 1 - i
    BY <1>1, <1>3
  <2> QED
    BY <1>5, <2>1, <2>2
<1>7. \A i \in 1..Newest(buf) : all[i] = buf[n + 1 - i]
  BY <1>2, <1>3, <1>5, <1>6
<1>8. all \in Seq(Entries) /\ Len(all) = Newest(buf)
  <2>1. \A i \in 1..Newest(buf) : all[i] \in Entries
    BY <1>4, <1>6, <1>7
  <2>2. all = [i \in 1..Newest(buf) |-> all[i]]
    BY <1>2, <1>3, <1>5
  <2> QED
    BY <1>3, <2>1, <2>2, IsASeq
<1>9. buf # <<>> => Newest(buf) >= 1
  BY <1>1 DEF Newest, n
<1> QED
  BY <1>3, <1>6, <1>7, <1>8, <1>9 DEF all, n

(* The buffer after a packet arrived.                                       *)
(* The buffer with one more entry, the oldest evicted when it is full.      *)
Stored(buf, it) == IF Len(Append(buf, it)) > BufferSize THEN Tail(Append(buf, it)) ELSE Append(buf, it)

(* A packet that arrives comes first, and moves the others back by one; the *)
(* last of them may fall out.                                               *)
LEMMA ViewMoves ==
  ASSUME PageAssumptions, NEW buf \in Seq(Entries), Len(buf) <= BufferSize, NEW it \in Entries
  PROVE  LET after == Stored(buf, it) IN
         /\ after \in Seq(Entries) /\ after # <<>> /\ Len(after) <= BufferSize
         /\ \A i \in 1..Len(after) : after[i] = it \/ \E j \in 1..Len(buf) : after[i] = buf[j]
         /\ 1 <= Newest(after) /\ Newest(after) <= Newest(buf) + 1
         /\ ItemsAll(after)[1] = it
         /\ \A i \in 2..Newest(after) : ItemsAll(after)[i] = ItemsAll(buf)[i - 1]
<1> DEFINE after == Stored(buf, it)
           n == Len(buf)
           grown == Append(buf, it)
           m == Len(after)
           cut == IF n + 1 > BufferSize THEN 1 ELSE 0
<1>1. n \in Nat /\ BufferSize \in Nat \ {0} /\ RecentMax \in Nat \ {0} /\ n <= BufferSize
  BY LenProperties DEF PageAssumptions, RecentMaxAssumption, BufferSizeAssumption
<1>2. /\ grown \in Seq(Entries) /\ grown # <<>> /\ Len(grown) = n + 1
      /\ \A i \in 1..n : grown[i] = buf[i]
      /\ grown[n + 1] = it
  BY AppendProperties
<1> HIDE DEF grown
<1>3. /\ Tail(grown) \in Seq(Entries) /\ Len(Tail(grown)) = n
      /\ \A i \in 1..n : Tail(grown)[i] = grown[i + 1]
  <2>1. /\ Tail(grown) \in Seq(Entries) /\ Len(Tail(grown)) = Len(grown) - 1
        /\ \A i \in 1..Len(Tail(grown)) : Tail(grown)[i] = grown[i + 1]
    BY <1>2, HeadTailProperties
  <2>2. Len(grown) - 1 = n
    BY <1>1, <1>2
  <2> QED
    BY <2>1, <2>2
<1>4. after = IF cut = 1 THEN Tail(grown) ELSE grown
  BY <1>1, <1>2 DEF grown, Stored
<1> HIDE DEF after
<1>5. /\ after \in Seq(Entries) /\ m = n + 1 - cut /\ cut \in 0..1
      /\ \A i \in 1..m : after[i] = grown[i + cut]
  <2>0. cut \in 0..1
    OBVIOUS
  <2> HIDE DEF cut, n
  <2>1. CASE cut = 1
    <3>1. after = Tail(grown)
      BY <1>4, <2>1
    <3> QED
      BY <1>1, <1>3, <2>1, <3>1
  <2>2. CASE cut = 0
    <3>1. \A i \in 1..n + 1 : i + 0 = i
      BY <1>1
    <3>2. after = grown
      BY <1>4, <2>2
    <3> QED
      BY <1>1, <1>2, <2>2, <3>1, <3>2
  <2> QED
    BY <2>0, <2>1, <2>2
<1>6. m \in Nat /\ 1 <= m /\ m <= BufferSize /\ after # <<>>
  <2>1. 1 <= m /\ m <= BufferSize /\ m \in Nat
    BY <1>1, <1>5
  <2> QED
    BY <2>1, EmptySeq
<1> HIDE DEF cut
<1>7. \A i \in 1..m : after[i] = it \/ \E j \in 1..n : after[i] = buf[j]
  <2> SUFFICES ASSUME NEW i \in 1..m PROVE after[i] = it \/ \E j \in 1..n : after[i] = buf[j]
    OBVIOUS
  <2>1. i + cut \in 1..n + 1 /\ after[i] = grown[i + cut]
    BY <1>1, <1>5, <1>6
  <2>2. i + cut = n + 1 \/ i + cut \in 1..n
    BY <1>1, <2>1
  <2> QED
    BY <1>2, <2>1, <2>2
<1>8. 1 <= Newest(after) /\ Newest(after) <= Newest(buf) + 1 /\ Newest(after) <= m /\ Newest(after) \in Nat
  <2>1. /\ Newest(after) = IF m > RecentMax THEN RecentMax ELSE m
        /\ Newest(buf) = IF n > RecentMax THEN RecentMax ELSE n
    BY DEF Newest
  <2>2. m <= n + 1
    BY <1>1, <1>5
  <2> HIDE DEF m, n
  <2> QED
    BY <1>1, <1>6, <2>1, <2>2
<1>9. \A i \in 1..Newest(after) : ItemsAll(after)[i] = after[m + 1 - i] /\ m + 1 - i \in 1..m
  BY <1>5, ViewIs
<1>10. \A i \in 1..Newest(buf) : ItemsAll(buf)[i] = buf[n + 1 - i] /\ n + 1 - i \in 1..n
  BY ViewIs
<1> HIDE DEF m, n
<1>11. ItemsAll(after)[1] = it
  <2>1. 1 \in 1..Newest(after) /\ m + 1 - 1 = m /\ m \in 1..m /\ m + cut = n + 1
    BY <1>1, <1>5, <1>6, <1>8
  <2>2. after[m] = grown[m + cut]
    BY <1>5, <2>1
  <2>3. ItemsAll(after)[1] = after[m + 1 - 1]
    BY <1>9, <2>1
  <2> QED
    BY <1>2, <2>1, <2>2, <2>3
<1>12. \A i \in 2..Newest(after) : ItemsAll(after)[i] = ItemsAll(buf)[i - 1]
  <2> SUFFICES ASSUME NEW i \in 2..Newest(after) PROVE ItemsAll(after)[i] = ItemsAll(buf)[i - 1]
    OBVIOUS
  <2>0. Newest(buf) \in Nat
    BY ViewIs
  <2>1. /\ i \in 1..Newest(after) /\ i - 1 \in 1..Newest(buf)
        /\ (m + 1 - i) + cut = n + 1 - (i - 1)
    BY <1>1, <1>5, <1>6, <1>8, <2>0
  <2>2. ItemsAll(after)[i] = grown[n + 1 - (i - 1)]
    BY <1>5, <1>9, <2>1
  <2> QED
    BY <1>2, <1>10, <2>1, <2>2
<1> QED
  BY <1>5, <1>6, <1>7, <1>8, <1>11, <1>12 DEF m, n, after
-----------------------------------------------------------------------------
(* The invariant: what the page on the screen and the next page have to do  *)
(* with what has been on the screen.                                        *)

(* The list, and the positions in it that the filter keeps.                 *)
View == ItemsAll(buffer)
Kept == FilterItemsByEvent(View, selected)

(* The last page the walk has been on, as far as is known.                  *)
Behind == IF pc = "shown" \/ button # "none" THEN page ELSE page - 1

(* Keys are those of packets that arrived; copies are equal.                *)
Known ==
  /\ \A i \in 1..Len(buffer) : buffer[i].key <= arrived
  /\ \A i, j \in 1..Len(buffer) : buffer[i].key = buffer[j].key => buffer[i] = buffer[j]
  /\ \A k \in start : k <= arrived

(* While an operator walks, what was listed at the start stays listed as    *)
(* long as it is in view, what was not on the screen is further on, and the *)
(* newest packet is a new one or has been on the screen.                    *)
Ahead ==
  walking =>
    /\ \A i \in 1..Len(View) : View[i].key \in start => i \in Kept
    /\ \A i \in Kept : View[i].key \in start \ seen => Place(Kept, i) > Behind * ItemsPerPage
    /\ buffer # <<>> /\ View[1].key \in start => View[1].key \in seen

(* The page on the screen is one of the pages of its list.                  *)
PageFits == pc = "shown" => page <= PageCount(Cardinality(Listed))

(* The inductive invariant behind the theorems about pages.                 *)
PageInv == TypeOK /\ Known /\ Ahead /\ PageFits /\ WalkSkipsNothing

LEMMA Filtered ==
  ASSUME NEW items \in Seq(Entries), NEW types
  PROVE  /\ FilterItemsByEvent(items, types) \in SUBSET (1..Len(items))
         /\ Len(items) \in Nat
         /\ FilterItemsByEvent(items, types) \in SUBSET Nat
         /\ Cardinality(FilterItemsByEvent(items, types)) \in Nat
<1>1. Len(items) \in Nat /\ DOMAIN items = 1..Len(items)
  BY LenProperties
<1>2. FilterItemsByEvent(items, types) \in SUBSET (1..Len(items))
  BY <1>1 DEF FilterItemsByEvent
<1>3. 1..Len(items) \subseteq Nat
  BY <1>1
<1> QED
  BY <1>1, <1>2, <1>3, Places

(* The packet that arrives is a new one, or a copy of the newest.           *)
LEMMA Arrival ==
  ASSUME PageAssumptions, TypeOK, Arrive
  PROVE  \E it \in Entries :
           /\ it.key = arrived + 1 \/ (buffer # <<>> /\ it = buffer[Len(buffer)] /\ Len(buffer) \in 1..Len(buffer))
           /\ buffer' = Stored(buffer, it)
<1>1. /\ arrived \in 0..MaxArrivals /\ arrived < MaxArrivals /\ MaxArrivals \in Nat
      /\ buffer \in Seq(Entries)
  BY DEF TypeOK, Arrive, PageAssumptions, MaxArrivalsAssumption
<1>2. PICK it \in {[key |-> arrived + 1, type |-> type] : type \in Types \cup {NoType}}
                   \cup (IF buffer = <<>> THEN {} ELSE {Last(buffer)}) :
        buffer' = Stored(buffer, it)
  BY DEF Arrive, Stored
<1>3. CASE it \in {[key |-> arrived + 1, type |-> type] : type \in Types \cup {NoType}}
  <2>1. arrived + 1 \in 1..MaxArrivals
    BY <1>1
  <2>2. it \in Entries /\ it.key = arrived + 1
    BY <1>3, <2>1 DEF Entries
  <2> QED
    BY <1>2, <2>2
<1>4. CASE buffer # <<>> /\ it = Last(buffer)
  <2>1. it = buffer[Len(buffer)]
    BY <1>4 DEF Last
  <2>2. Len(buffer) \in 1..Len(buffer)
    BY <1>1, <1>4, LenProperties, EmptySeq
  <2>3. it \in Entries
    BY <1>1, <2>1, <2>2, ElementOfSeq
  <2> QED
    BY <1>2, <1>4, <2>1, <2>2, <2>3
<1> QED
  BY <1>2, <1>3, <1>4

(* What a run of the script makes of the page number, the filter and the    *)
(* screen.                                                                  *)
LEMMA ScriptRun ==
  ASSUME PageAssumptions, TypeOK, Script
  PROVE  \E total \in Nat, p \in Nat \ {0} :
           /\ total = Cardinality(Kept')
           /\ p <= PageCount(total) /\ p <= page
           /\ p < page => p = PageCount(total)
           /\ page' = Turned(p, total)
           /\ pc = "run" /\ button # "Clear Logs" /\ button' = "none"
           /\ buffer' = buffer /\ arrived' = arrived /\ View' = View
           /\ \/ page' # p /\ UNCHANGED <<pc, recent, walking, start, seen>>
              \/ /\ page' = p /\ pc' = "shown" /\ recent' = View
                 /\ walking' = (walking \/ p = 1)
                 /\ start' = IF p = 1 THEN Keys(View, Kept') ELSE start
                 /\ seen'  = IF p = 1 THEN Keys(View, SliceForPage(View, Kept', p))
                             ELSE seen \cup Keys(View, SliceForPage(View, Kept', p))
<1> DEFINE kept  == FilterItemsByEvent(View, selected')
           total == Cardinality(kept)
           count == PageCount(total)
           p     == UpdatePage(total, page)
<1>1. View' = View /\ buffer' = buffer /\ Kept' = kept
  BY DEF Script, View, Kept
<1>2. View \in Seq(Entries) /\ page \in Nat \ {0}
  BY ViewIs DEF View, TypeOK
<1>3. total \in Nat
  BY <1>2, Filtered
<1>4. count \in Nat \ {0}
  <2> HIDE DEF total
  <2> QED
    BY <1>3, PagesNeeded DEF PageAssumptions
<1>5. p \in Nat \ {0} /\ p <= count /\ p <= page /\ (p < page => p = count)
  <2>1. p = IF page > count THEN count ELSE IF page < 1 THEN 1 ELSE page
    BY DEF UpdatePage
  <2> HIDE DEF p, count
  <2> QED
    BY <1>2, <1>4, <2>1
<1>6. /\ page' = Turned(p, total)
      /\ pc = "run" /\ button # "Clear Logs" /\ button' = "none" /\ arrived' = arrived
      /\ \/ page' # p /\ UNCHANGED <<pc, recent, walking, start, seen>>
         \/ /\ page' = p /\ pc' = "shown" /\ recent' = View
            /\ walking' = (walking \/ p = 1)
            /\ start' = IF p = 1 THEN Keys(View, kept) ELSE start
            /\ seen'  = IF p = 1 THEN Keys(View, SliceForPage(View, kept, p))
                        ELSE seen \cup Keys(View, SliceForPage(View, kept, p))
  <2>1. Cardinality(kept) = total
    OBVIOUS
  <2> QED
    BY <2>1 DEF Script, walkVars, View
<1> HIDE DEF kept, total, count, p
<1>7. count = PageCount(total) /\ total = Cardinality(Kept')
  BY <1>1 DEF count, total
<1> QED
  BY <1>1, <1>3, <1>5, <1>6, <1>7
(* The widget may widen the filter by itself, but drops nothing in view.    *)
LEMMA WidgetKeeps ==
  ASSUME PageAssumptions, TypeOK, Script
  PROVE  /\ options' \subseteq {"all"} \cup Types /\ selected' \subseteq options'
         /\ Kept \subseteq Kept'
<1>1. View \in Seq(Entries) /\ Len(View) \in Nat /\ DOMAIN View = 1..Len(View)
  BY ViewIs, LenProperties DEF View, TypeOK
<1>2. \A i \in DOMAIN View : View[i].type \in Types \cup {"none"}
  <2>1. \A i \in DOMAIN View : View[i] \in Entries
    BY <1>1, ElementOfSeq
  <2> QED
    BY <2>1 DEF Entries, NoType
<1>3. /\ options' = {"all"} \cup {DisplayedType(View[i]) : i \in DOMAIN View}
      /\ \/ selected' = selected /\ options' = options
         \/ selected' = selected \cap options'
         \/ selected' = {"all"}
  BY DEF Script, OptionsFor, WidgetValues, View
<1>4. \A i \in DOMAIN View : DisplayedType(View[i]) = IF View[i].type = "none" THEN "unknown" ELSE View[i].type
  BY DEF DisplayedType, NoType
<1>5. "unknown" \in Types /\ "none" \notin Types
  BY DEF PageAssumptions, TypesAssumption
<1>6. options' \subseteq {"all"} \cup Types
  BY <1>2, <1>3, <1>4, <1>5
<1>7. selected \subseteq options /\ options \subseteq {"all"} \cup Types
  BY DEF TypeOK
<1>8. selected' \subseteq options'
  BY <1>3, <1>7
<1>9. ASSUME NEW i \in Kept PROVE i \in Kept'
  <2>1. i \in DOMAIN View /\ (selected = {} \/ "all" \in selected \/ View[i].type \in selected)
    BY <1>9 DEF Kept, FilterItemsByEvent
  <2>2. View' = View
    BY DEF Script, View
  <2>3. selected' = {} \/ "all" \in selected' \/ View[i].type \in selected'
    <3>1. CASE selected' = selected
      BY <2>1, <3>1
    <3>2. CASE selected' = {"all"}
      BY <3>2
    <3>3. CASE selected' = selected \cap options'
      <4>1. "all" \in selected => "all" \in selected'
        BY <1>3, <3>3
      <4>2. selected = {} => selected' = {}
        BY <3>3
      <4>3. View[i].type \in selected => View[i].type \in selected'
        <5> SUFFICES ASSUME View[i].type \in selected PROVE View[i].type \in options'
          BY <3>3
        <5>1. CASE View[i].type = "none"
          BY <1>5, <1>7, <5>1
        <5>2. CASE View[i].type # "none"
          BY <1>3, <1>4, <2>1, <5>2
        <5> QED
          BY <5>1, <5>2
      <4> QED
        BY <2>1, <4>1, <4>2, <4>3
    <3> QED
      BY <1>3, <3>1, <3>2, <3>3
  <2> QED
    BY <2>1, <2>2, <2>3 DEF Kept, FilterItemsByEvent
<1> QED
  BY <1>6, <1>8, <1>9

LEMMA KeysOf ==
  ASSUME NEW items \in Seq(Entries), NEW at \in SUBSET (1..Len(items))
  PROVE  Keys(items, at) \subseteq 1..MaxArrivals
<1>1. \A i \in at : items[i].key \in 1..MaxArrivals
  <2>1. \A i \in at : items[i] \in Entries
    BY ElementOfSeq
  <2> QED
    BY <2>1 DEF Entries
<1> QED
  BY <1>1 DEF Keys

LEMMA TypeStep ==
  ASSUME PageAssumptions, TypeOK, [Next]_vars
  PROVE  TypeOK'
<1>1. CASE Arrive
  <2>1. PICK it \in Entries :
          buffer' = Stored(buffer, it)
    BY <1>1, Arrival
  <2>2. buffer \in Seq(Entries) /\ Len(buffer) <= BufferSize
    BY DEF TypeOK
  <2>3. buffer' \in Seq(Entries) /\ Len(buffer') <= BufferSize
    BY <2>1, <2>2, ViewMoves
  <2>4. arrived' \in 0..MaxArrivals
    BY <1>1 DEF Arrive, TypeOK, PageAssumptions, MaxArrivalsAssumption
  <2> QED
    BY <1>1, <2>3, <2>4 DEF Arrive, TypeOK, sessionVars, walkVars
<1>2. CASE Click
  BY <1>2 DEF Click, TypeOK, walkVars
<1>3. CASE ChangeFilter
  BY <1>3 DEF ChangeFilter, TypeOK, Buttons
<1>4. CASE ClearLogs
  <2>1. buffer' \in Seq(Entries) /\ Len(buffer') = 0 /\ BufferSize \in Nat \ {0}
    BY <1>4, EmptySeq DEF ClearLogs, PageAssumptions, BufferSizeAssumption
  <2>2. Len(buffer') <= BufferSize
    BY <2>1
  <2>3. page' \in Nat \ {0} /\ pc' \in {"run", "shown"} /\ button' \in Buttons
    <3>1. page' = 1 /\ pc' = "run" /\ button' = "none"
      BY <1>4 DEF ClearLogs
    <3> QED
      BY <3>1 DEF Buttons
  <2>4. UNCHANGED <<arrived, selected, options, recent, walking, start, seen>>
    BY <1>4 DEF ClearLogs, walkVars
  <2> QED
    BY <2>1, <2>2, <2>3, <2>4 DEF TypeOK
<1>5. CASE Script
  <2>1. PICK total \in Nat, p \in Nat \ {0} :
           /\ total = Cardinality(Kept')
           /\ page' = Turned(p, total)
           /\ pc = "run" /\ button' = "none"
           /\ buffer' = buffer /\ arrived' = arrived /\ View' = View
           /\ \/ page' # p /\ UNCHANGED <<pc, recent, walking, start, seen>>
              \/ /\ page' = p /\ pc' = "shown" /\ recent' = View
                 /\ walking' = (walking \/ p = 1)
                 /\ start' = IF p = 1 THEN Keys(View, Kept') ELSE start
                 /\ seen'  = IF p = 1 THEN Keys(View, SliceForPage(View, Kept', p))
                             ELSE seen \cup Keys(View, SliceForPage(View, Kept', p))
    BY <1>5, ScriptRun
  <2>2. View \in Seq(Entries)
    BY ViewIs DEF View, TypeOK
  <2>3. Kept' \in SUBSET (1..Len(View)) /\ Kept' \in SUBSET Nat
    <3>1. Kept' = FilterItemsByEvent(View, selected')
      BY <2>1 DEF Kept
    <3> QED
      BY <2>2, <3>1, Filtered
  <2>4. Keys(View, Kept') \subseteq 1..MaxArrivals
    BY <2>2, <2>3, KeysOf
  <2>5. Keys(View, SliceForPage(View, Kept', p)) \subseteq 1..MaxArrivals
    <3>1. SliceForPage(View, Kept', p) \subseteq Kept'
      BY <2>3, NoneDropped
    <3> QED
      BY <2>2, <2>3, <3>1, KeysOf
  <2>6. start' \subseteq 1..MaxArrivals /\ seen' \subseteq 1..MaxArrivals /\ walking' \in BOOLEAN
    <3>1. start \subseteq 1..MaxArrivals /\ seen \subseteq 1..MaxArrivals /\ walking \in BOOLEAN
      BY DEF TypeOK
    <3>2. walking' \in BOOLEAN
      BY <2>1, <3>1
    <3>3. start' = start \/ start' = Keys(View, Kept')
      BY <2>1
    <3>4. \/ seen' = seen \/ seen' = Keys(View, SliceForPage(View, Kept', p))
          \/ seen' = seen \cup Keys(View, SliceForPage(View, Kept', p))
      BY <2>1
    <3> QED
      BY <2>4, <2>5, <3>1, <3>2, <3>3, <3>4
  <2>7. page' \in Nat \ {0}
    <3>1. page' = p \/ (page' = p - 1 /\ p > 1) \/ page' = p + 1
      BY <2>1 DEF Turned
    <3> QED
      BY <3>1
  <2>8. pc' \in {"run", "shown"} /\ recent' \in Seq(Entries)
    BY <2>1, <2>2 DEF TypeOK
  <2> QED
    BY <1>5, <2>1, <2>6, <2>7, <2>8, WidgetKeeps DEF TypeOK, Buttons
<1>6. CASE UNCHANGED vars
  BY <1>6 DEF vars, sessionVars, walkVars, TypeOK
<1> QED
  BY <1>1, <1>2, <1>3, <1>4, <1>5, <1>6 DEF Next
(* Keys and copies.                                                         *)
LEMMA KnownStep ==
  ASSUME PageAssumptions, TypeOK, Known, [Next]_vars
  PROVE  Known'
<1>0. /\ buffer \in Seq(Entries) /\ Len(buffer) \in Nat /\ Len(buffer) <= BufferSize
      /\ arrived \in Nat /\ start \subseteq Nat
      /\ \A i \in 1..Len(buffer) : buffer[i].key \in Nat
  <2>1. buffer \in Seq(Entries) /\ arrived \in 0..MaxArrivals /\ start \subseteq 1..MaxArrivals /\ Len(buffer) <= BufferSize
    BY DEF TypeOK
  <2>2. MaxArrivals \in Nat
    BY DEF PageAssumptions, MaxArrivalsAssumption
  <2>3. \A i \in 1..Len(buffer) : buffer[i] \in Entries
    BY <2>1, ElementOfSeq
  <2>4. \A i \in 1..Len(buffer) : buffer[i].key \in 1..MaxArrivals
    BY <2>3 DEF Entries
  <2> QED
    BY <2>1, <2>2, <2>4, LenProperties
<1>1. CASE Arrive
  <2>1. PICK it \in Entries :
          /\ it.key = arrived + 1 \/ (buffer # <<>> /\ it = buffer[Len(buffer)] /\ Len(buffer) \in 1..Len(buffer))
          /\ buffer' = Stored(buffer, it)
    BY <1>1, Arrival
  <2>2. \A i \in 1..Len(buffer') : buffer'[i] = it \/ \E j \in 1..Len(buffer) : buffer'[i] = buffer[j]
    BY <1>0, <2>1, ViewMoves
  <2>3. arrived' = arrived + 1 /\ start' = start
    BY <1>1 DEF Arrive, walkVars
  <2>4. it.key = arrived + 1 \/ \E j \in 1..Len(buffer) : it = buffer[j]
    BY <2>1
  <2>5. \A j \in 1..Len(buffer) : buffer[j].key <= arrived /\ buffer[j].key # arrived + 1
    BY <1>0 DEF Known
  <2>6. \A i \in 1..Len(buffer') : buffer'[i].key <= arrived + 1
    BY <1>0, <2>2, <2>4, <2>5
  <2>7. \A i, j \in 1..Len(buffer') : buffer'[i].key = buffer'[j].key => buffer'[i] = buffer'[j]
    <3> SUFFICES ASSUME NEW i \in 1..Len(buffer'), NEW j \in 1..Len(buffer'), buffer'[i].key = buffer'[j].key
                 PROVE  buffer'[i] = buffer'[j]
      OBVIOUS
    <3>1. CASE it.key = arrived + 1
      <4>1. CASE buffer'[i] = it
        <5>1. buffer'[j] = it \/ \E k \in 1..Len(buffer) : buffer'[j] = buffer[k]
          BY <2>2
        <5>2. \A k \in 1..Len(buffer) : buffer[k].key # arrived + 1
          BY <2>5
        <5> QED
          BY <3>1, <4>1, <5>1, <5>2
      <4>2. CASE buffer'[j] = it
        <5>1. buffer'[i] = it \/ \E k \in 1..Len(buffer) : buffer'[i] = buffer[k]
          BY <2>2
        <5>2. \A k \in 1..Len(buffer) : buffer[k].key # arrived + 1
          BY <2>5
        <5> QED
          BY <3>1, <4>2, <5>1, <5>2
      <4>3. CASE buffer'[i] # it /\ buffer'[j] # it
        <5>1. PICK a \in 1..Len(buffer) : buffer'[i] = buffer[a]
          BY <2>2, <4>3
        <5>2. PICK b \in 1..Len(buffer) : buffer'[j] = buffer[b]
          BY <2>2, <4>3
        <5> QED
          BY <5>1, <5>2 DEF Known
      <4> QED
        BY <4>1, <4>2, <4>3
    <3>2. CASE \E k \in 1..Len(buffer) : it = buffer[k]
      <4>1. \A l \in 1..Len(buffer') : \E k \in 1..Len(buffer) : buffer'[l] = buffer[k]
        BY <2>2, <3>2
      <4>2. PICK a \in 1..Len(buffer) : buffer'[i] = buffer[a]
        BY <4>1
      <4>3. PICK b \in 1..Len(buffer) : buffer'[j] = buffer[b]
        BY <4>1
      <4> QED
        BY <4>2, <4>3 DEF Known
    <3> QED
      BY <2>4, <3>1, <3>2
  <2>8. \A k \in start : k <= arrived + 1
    BY <1>0 DEF Known
  <2> QED
    BY <2>3, <2>6, <2>7, <2>8 DEF Known
<1>2. CASE Click \/ ChangeFilter \/ UNCHANGED vars
  BY <1>2 DEF Click, ChangeFilter, vars, walkVars, sessionVars, Known
<1>3. CASE ClearLogs
  <2>1. buffer' = <<>> /\ UNCHANGED <<arrived, start>>
    BY <1>3 DEF ClearLogs, walkVars
  <2>2. 1..Len(buffer') = {}
    BY <2>1, EmptySeq
  <2> QED
    BY <2>1, <2>2 DEF Known
<1>4. CASE Script
  <2>1. buffer' = buffer /\ arrived' = arrived /\ View' = View
    BY <1>4 DEF Script, View
  <2>2. start' = start \/ start' = Keys(View, Kept')
    BY <1>4, ScriptRun
  <2>3. \A k \in Keys(View, Kept') : k <= arrived
    <3>1. \A i \in Kept' : i \in 1..Len(View)
      <4>1. Kept' = FilterItemsByEvent(View, selected') /\ View \in Seq(Entries)
        BY <1>0, <2>1, ViewIs DEF Kept, View
      <4> QED
        BY <4>1, Filtered
    <3>2. \A i \in 1..Len(View) : \E j \in 1..Len(buffer) : View[i] = buffer[j]
      BY <1>0, ViewIs DEF View
    <3> QED
      BY <3>1, <3>2 DEF Known, Keys
  <2> QED
    BY <2>1, <2>2, <2>3 DEF Known
<1> QED
  BY <1>1, <1>2, <1>3, <1>4 DEF Next

(* The steps other than a run of the script.                                *)
LEMMA AheadArrive ==
  ASSUME PageAssumptions, TypeOK, Known, Ahead, Arrive
  PROVE  Ahead'
<1>0. /\ buffer \in Seq(Entries) /\ Len(buffer) \in Nat /\ Len(buffer) <= BufferSize
      /\ \A k \in start : k # arrived + 1
      /\ UNCHANGED <<walking, start, seen, selected, page, pc, button>>
  <2>1. buffer \in Seq(Entries) /\ arrived \in 0..MaxArrivals /\ Len(buffer) <= BufferSize
    BY DEF TypeOK
  <2>2. MaxArrivals \in Nat /\ start \subseteq 1..MaxArrivals
    BY DEF PageAssumptions, MaxArrivalsAssumption, TypeOK
  <2>3. \A k \in start : k # arrived + 1
    BY <2>1, <2>2 DEF Known
  <2>4. UNCHANGED <<walking, start, seen, selected, page, pc, button>>
    BY DEF Arrive, sessionVars, walkVars
  <2> QED
    BY <2>1, <2>3, <2>4, LenProperties
<1>1. PICK it \in Entries :
        /\ it.key = arrived + 1 \/ (buffer # <<>> /\ it = buffer[Len(buffer)] /\ Len(buffer) \in 1..Len(buffer))
        /\ buffer' = Stored(buffer, it)
  BY Arrival
<1> DEFINE m == Len(View)
           n == Len(View')
<1>2. /\ View \in Seq(Entries) /\ m \in Nat /\ DOMAIN View = 1..m
      /\ buffer # <<>> => 1 \in 1..m /\ View[1] = buffer[Len(buffer)]
  <2>1. View \in Seq(Entries) /\ m = Newest(buffer) /\ Newest(buffer) \in Nat /\ (buffer # <<>> => Newest(buffer) >= 1)
    BY <1>0, ViewIs DEF View
  <2>2. \A i \in 1..Newest(buffer) : View[i] = buffer[Len(buffer) + 1 - i]
    BY <1>0, ViewIs DEF View
  <2>3. Len(buffer) + 1 - 1 = Len(buffer)
    BY <1>0
  <2> QED
    BY <2>1, <2>2, <2>3, LenProperties
<1>3. /\ View' \in Seq(Entries) /\ n \in Nat /\ DOMAIN View' = 1..n /\ 1 <= n /\ n <= m + 1
      /\ View'[1] = it
      /\ \A i \in 2..n : View'[i] = View[i - 1]
  <2>1. /\ buffer' \in Seq(Entries)
        /\ 1 <= Newest(buffer') /\ Newest(buffer') <= Newest(buffer) + 1
        /\ View'[1] = it
        /\ \A i \in 2..Newest(buffer') : View'[i] = View[i - 1]
    <3>1. View' = ItemsAll(buffer') /\ View = ItemsAll(buffer)
      BY DEF View
    <3> QED
      BY <1>0, <1>1, <3>1, ViewMoves
  <2>2. View' \in Seq(Entries) /\ n = Newest(buffer') /\ m = Newest(buffer)
    BY <1>0, <2>1, ViewIs DEF View
  <2> QED
    BY <2>1, <2>2, LenProperties
<1> HIDE DEF m, n
<1>4. /\ \A i \in 1..n : i \in Kept' <=> (selected = {} \/ "all" \in selected \/ View'[i].type \in selected)
      /\ \A i \in 1..m : i \in Kept  <=> (selected = {} \/ "all" \in selected \/ View[i].type \in selected)
      /\ Kept \in SUBSET (1..m) /\ Kept' \in SUBSET (1..n)
  BY <1>0, <1>2, <1>3 DEF Kept, FilterItemsByEvent
<1>5. \A i \in 2..n : i - 1 \in 1..m /\ i \in 1..n /\ i # 1 /\ (i \in Kept' <=> i - 1 \in Kept)
  <2> SUFFICES ASSUME NEW i \in 2..n PROVE i - 1 \in 1..m /\ i \in 1..n /\ i # 1 /\ (i \in Kept' <=> i - 1 \in Kept)
    OBVIOUS
  <2>1. i - 1 \in 1..m /\ i \in 1..n /\ i # 1
    BY <1>2, <1>3
  <2> QED
    BY <1>3, <1>4, <2>1
<1>6. \A i \in 1..n : i = 1 \/ i \in 2..n
  BY <1>3
<1> SUFFICES ASSUME walking' PROVE
      /\ \A i \in 1..Len(View') : View'[i].key \in start' => i \in Kept'
      /\ \A i \in Kept' : View'[i].key \in start' \ seen' => Place(Kept', i) > Behind' * ItemsPerPage
      /\ buffer' # <<>> /\ View'[1].key \in start' => View'[1].key \in seen'
  BY DEF Ahead
<1>7. /\ \A i \in 1..m : View[i].key \in start => i \in Kept
      /\ \A i \in Kept : View[i].key \in start \ seen => Place(Kept, i) > Behind * ItemsPerPage
      /\ buffer # <<>> /\ View[1].key \in start => View[1].key \in seen
  BY <1>0 DEF Ahead, m
<1>8. it.key \in start => buffer # <<>> /\ it = View[1] /\ 1 \in 1..m /\ it.key \in seen
  BY <1>0, <1>1, <1>2, <1>7
<1>9. \A i \in 1..n : View'[i].key \in start => i \in Kept'
  <2> SUFFICES ASSUME NEW i \in 1..n, View'[i].key \in start PROVE i \in Kept'
    OBVIOUS
  <2>1. CASE i = 1
    BY <1>3, <1>4, <1>7, <1>8, <2>1
  <2>2. CASE i \in 2..n
    BY <1>3, <1>5, <1>7, <2>2
  <2> QED
    BY <1>6, <2>1, <2>2
<1>10. \A i \in Kept' : View'[i].key \in start \ seen => Place(Kept', i) > Behind * ItemsPerPage
  <2> SUFFICES ASSUME NEW i \in Kept', View'[i].key \in start \ seen
               PROVE  Place(Kept', i) > Behind * ItemsPerPage
    OBVIOUS
  <2>1. i \in 2..n
    BY <1>3, <1>4, <1>6, <1>8
  <2>2. i - 1 \in Kept /\ View[i - 1].key \in start \ seen
    BY <1>3, <1>5, <2>1
  <2>3. Place(Kept, i - 1) > Behind * ItemsPerPage
    BY <1>7, <2>2
  <2>4. Place(Kept, i - 1) <= Place(Kept', i)
    <3>1. \A j \in Kept : j <= i - 1 => j + 1 \in Kept'
      <4> SUFFICES ASSUME NEW j \in Kept, j <= i - 1 PROVE j + 1 \in Kept'
        OBVIOUS
      <4>1. j \in 1..m /\ j + 1 \in 2..n /\ (j + 1) - 1 = j
        BY <1>2, <1>3, <1>4, <2>1
      <4> QED
        BY <1>5, <4>1
    <3>2. i \in Nat \ {0}
      BY <1>3, <2>1
    <3> HIDE DEF Kept
    <3> QED
      BY <1>2, <1>3, <1>4, <3>1, <3>2, PlaceMoves
  <2>5. Place(Kept, i - 1) \in Int /\ Place(Kept', i) \in Int
    <3>1. i \in Int /\ i - 1 \in Int
      BY <1>3, <2>1
    <3> HIDE DEF Kept
    <3>2. Place(Kept, i - 1) \in 0..Cardinality(Kept) /\ Cardinality(Kept) \in Nat
      BY <1>2, <1>4, <3>1, Places
    <3> DEFINE F == Kept'
    <3>3. F \in SUBSET (1..n)
      BY <1>4
    <3> HIDE DEF F
    <3>4. Place(F, i) \in 0..Cardinality(F) /\ Cardinality(F) \in Nat
      BY <1>3, <3>1, <3>3, Places
    <3> QED
      BY <3>2, <3>4 DEF F
  <2>6. Behind * ItemsPerPage \in Int
    <3>1. page \in Nat \ {0} /\ ItemsPerPage \in Nat
      BY DEF TypeOK, PageAssumptions, ItemsPerPageAssumption
    <3>2. Behind \in Int
      BY <3>1 DEF Behind
    <3> QED
      BY <3>1, <3>2
  <2> QED
    BY <2>3, <2>4, <2>5, <2>6
<1>11. Behind' = Behind
  BY <1>0 DEF Behind
<1>12. buffer' # <<>> /\ View'[1].key \in start => View'[1].key \in seen
  BY <1>3, <1>8
<1> QED
  BY <1>0, <1>9, <1>10, <1>11, <1>12 DEF n
(* A run of the script: what it shows has been on the screen, and what was  *)
(* further on is still further on.                                          *)
LEMMA AheadScript ==
  ASSUME PageAssumptions, TypeOK, Known, Ahead, Script
  PROVE  Ahead'
<1> DEFINE F == Kept
           G == Kept'
           m == Len(View)
<1>1. PICK total \in Nat, p \in Nat \ {0} :
         /\ total = Cardinality(G)
         /\ p <= PageCount(total) /\ p <= page
         /\ p < page => p = PageCount(total)
         /\ page' = Turned(p, total)
         /\ pc = "run" /\ button # "Clear Logs" /\ button' = "none"
         /\ buffer' = buffer /\ arrived' = arrived /\ View' = View
         /\ \/ page' # p /\ UNCHANGED <<pc, recent, walking, start, seen>>
            \/ /\ page' = p /\ pc' = "shown" /\ recent' = View
               /\ walking' = (walking \/ p = 1)
               /\ start' = IF p = 1 THEN Keys(View, G) ELSE start
               /\ seen'  = IF p = 1 THEN Keys(View, SliceForPage(View, G, p))
                           ELSE seen \cup Keys(View, SliceForPage(View, G, p))
  BY ScriptRun
<1>n. p \in Nat /\ 1 <= p /\ p <= page /\ total \in Nat /\ total = Cardinality(G)
  <2>1. p \in Nat /\ 1 <= p /\ total \in Nat
    OBVIOUS
  <2>2. p <= page /\ total = Cardinality(G)
    BY <1>1
  <2> QED
    BY <2>1, <2>2
<1>c. p < page => p = PageCount(total)
  BY <1>1
<1>b. page' = Turned(p, total) /\ pc = "run" /\ button' = "none"
  BY <1>1
<1>2. /\ View \in Seq(Entries) /\ m \in Nat /\ F \subseteq G
      /\ F \in SUBSET (1..m) /\ G \in SUBSET (1..m) /\ G \in SUBSET Nat
  <2>1. View \in Seq(Entries)
    BY ViewIs DEF View, TypeOK
  <2>2. F = FilterItemsByEvent(View, selected) /\ G = FilterItemsByEvent(View, selected')
    BY <1>1 DEF Kept
  <2> HIDE DEF F, G
  <2>3. F \in SUBSET (1..m) /\ m \in Nat
    BY <2>1, <2>2, Filtered
  <2>4. G \in SUBSET (1..m) /\ G \in SUBSET Nat
    BY <2>1, <2>2, Filtered
  <2> QED
    BY <2>1, <2>3, <2>4, WidgetKeeps DEF F, G
<1>3. page \in Nat \ {0} /\ ItemsPerPage \in Nat \ {0} /\ ItemsPerPageAssumption
  BY DEF TypeOK, PageAssumptions, ItemsPerPageAssumption
<1>4. 1 \in 1..m => View[1] \in {buffer[i] : i \in 1..Len(buffer)}
  <2>1. buffer \in Seq(Entries) /\ View = ItemsAll(buffer)
    BY DEF View, TypeOK
  <2>2. Newest(buffer) = m /\ \A i \in 1..Newest(buffer) : Len(buffer) + 1 - i \in 1..Len(buffer) /\ View[i] = buffer[Len(buffer) + 1 - i]
    BY <2>1, ViewIs
  <2> HIDE DEF View, m
  <2>3. 1 \in 1..m => View[1] = buffer[Len(buffer) + 1 - 1] /\ Len(buffer) + 1 - 1 \in 1..Len(buffer)
    BY <2>2
  <2> QED
    BY <2>3
<1>5. \A i, j \in 1..m : View[i].key = View[j].key => View[i] = View[j]
  <2>1. buffer \in Seq(Entries) /\ View = ItemsAll(buffer)
    BY DEF View, TypeOK
  <2>2. \A i \in 1..m : \E j \in 1..Len(buffer) : View[i] = buffer[j]
    BY <2>1, ViewIs
  <2> SUFFICES ASSUME NEW i \in 1..m, NEW j \in 1..m, View[i].key = View[j].key PROVE View[i] = View[j]
    OBVIOUS
  <2>3. PICK a \in 1..Len(buffer) : View[i] = buffer[a]
    BY <2>2
  <2>4. PICK b \in 1..Len(buffer) : View[j] = buffer[b]
    BY <2>2
  <2> QED
    BY <2>3, <2>4 DEF Known
<1>6. buffer # <<>> => 1 \in 1..m
  <2>1. buffer \in Seq(Entries) /\ View = ItemsAll(buffer)
    BY DEF View, TypeOK
  <2>2. m = Newest(buffer) /\ Newest(buffer) \in Nat /\ (buffer # <<>> => Newest(buffer) >= 1)
    BY <2>1, ViewIs
  <2> QED
    BY <2>2
<1>7. \A i, j \in 1..m : View[i] = View[j] => (i \in G <=> j \in G)
  <2>1. G = FilterItemsByEvent(View, selected') /\ DOMAIN View = 1..m
    BY <1>1, <1>2, LenProperties DEF Kept
  <2> QED
    BY <2>1 DEF FilterItemsByEvent
<1>8. \A i \in G : /\ Place(F, i) <= Place(G, i)
                   /\ Place(F, i) \in Nat /\ Place(G, i) \in 1..total
  <2> HIDE DEF F, G
  <2> SUFFICES ASSUME NEW i \in G
               PROVE  /\ Place(F, i) <= Place(G, i)
                      /\ Place(F, i) \in Nat /\ Place(G, i) \in 1..total
    OBVIOUS
  <2>1. i \in Int
    BY <1>2
  <2>2. Place(F, i) <= Place(G, i)
    BY <1>2, <2>1, PlaceGrows
  <2>3. Place(F, i) \in 0..Cardinality(F) /\ Cardinality(F) \in Nat
    BY <1>2, <2>1, Places
  <2>4. Place(G, i) \in 1..Cardinality(G)
    BY <1>2, Places
  <2> QED
    BY <1>n, <2>2, <2>3, <2>4
<1>9. total <= PageCount(total) * ItemsPerPage /\ PageCount(total) \in Nat \ {0}
  BY <1>3, PagesNeeded
<1>10. \A i \in G : (p - 1) * ItemsPerPage < Place(G, i) /\ Place(G, i) <= p * ItemsPerPage
                    => View[i].key \in Keys(View, SliceForPage(View, G, p))
  <2>1. Keys(View, SliceForPage(View, G, p)) = Keys(View, Window(G, p))
    BY <1>2, NoneDropped
  <2> QED
    BY <2>1 DEF Window, Keys
<1> HIDE DEF F, G, m
\* What the walk knew before this run, of the list as it is now filtered.
<1>11. ASSUME walking
       PROVE  /\ \A i \in 1..m : View[i].key \in start => i \in G
              /\ \A i \in G : View[i].key \in start \ seen => Place(G, i) > Behind * ItemsPerPage
              /\ buffer # <<>> /\ View[1].key \in start => View[1].key \in seen
  <2>1. /\ \A i \in 1..m : View[i].key \in start => i \in F
        /\ \A i \in F : View[i].key \in start \ seen => Place(F, i) > Behind * ItemsPerPage
        /\ buffer # <<>> /\ View[1].key \in start => View[1].key \in seen
    BY <1>11 DEF Ahead, F, m
  <2>2. Behind * ItemsPerPage \in Int
    <3>1. Behind \in Int
      BY <1>3 DEF Behind
    <3> QED
      BY <1>3, <3>1
  <2>3. ASSUME NEW i \in G, View[i].key \in start \ seen PROVE Place(G, i) > Behind * ItemsPerPage
    <3>1. i \in F
      BY <1>2, <2>1, <2>3
    <3>2. Place(F, i) > Behind * ItemsPerPage
      BY <2>1, <2>3, <3>1
    <3> QED
      BY <1>8, <2>2, <3>2
  <2> QED
    BY <1>2, <2>1, <2>3
<1>12. /\ (p - 1) * ItemsPerPage \in Int /\ p * ItemsPerPage \in Int /\ page * ItemsPerPage \in Int
       /\ (page - 1) * ItemsPerPage \in Int
       /\ (p - 1) * ItemsPerPage <= (page - 1) * ItemsPerPage
       /\ p * ItemsPerPage <= page * ItemsPerPage
       /\ (page - 1) * ItemsPerPage <= page * ItemsPerPage
       /\ p < page => p * ItemsPerPage <= (page - 1) * ItemsPerPage
  <2>1. \A a, b \in Nat : a <= b => a * ItemsPerPage <= b * ItemsPerPage /\ a * ItemsPerPage \in Int /\ b * ItemsPerPage \in Int
    BY <1>3
  <2>2. p - 1 \in Nat /\ page - 1 \in Nat /\ p \in Nat /\ page \in Nat /\ p <= page
    BY <1>n, <1>3
  <2>3. p - 1 <= page - 1 /\ p <= page /\ page - 1 <= page /\ (p < page => p <= page - 1)
    BY <2>2
  <2> QED
    BY <2>1, <2>2, <2>3
<1> SUFFICES ASSUME walking'
    PROVE  /\ \A i \in 1..m : View[i].key \in start' => i \in G
           /\ \A i \in G : View[i].key \in start' \ seen' => Place(G, i) > Behind' * ItemsPerPage
           /\ buffer # <<>> /\ View[1].key \in start' => View[1].key \in seen'
  BY <1>1 DEF Ahead, G, m
<1>13. CASE page' # p /\ UNCHANGED <<pc, recent, walking, start, seen>>
  <2>1. Behind' = page' - 1
    BY <1>b, <1>13 DEF Behind
  <2>2. page' = p - 1 \/ (page' = p + 1 /\ button = "Next")
    BY <1>b, <1>n, <1>13 DEF Turned
  <2>3. Behind' * ItemsPerPage <= Behind * ItemsPerPage /\ Behind * ItemsPerPage \in Int /\ Behind' * ItemsPerPage \in Int
    <3>1. CASE page' = p + 1 /\ button = "Next"
      <4>1. Behind' = p /\ Behind = page
        BY <1>n, <2>1, <3>1 DEF Behind
      <4> QED
        BY <1>12, <4>1
    <3>2. CASE page' = p - 1
      <4>1. Behind' = p - 2 /\ (Behind = page \/ Behind = page - 1)
        <5>1. Behind' = (p - 1) - 1 /\ (p - 1) - 1 = p - 2
          BY <1>n, <2>1, <3>2
        <5> QED
          BY <5>1 DEF Behind
      <4>2. (p - 2) * ItemsPerPage = (p - 1) * ItemsPerPage - ItemsPerPage
        <5>1. p - 1 \in Int /\ (p - 1) - 1 = p - 2
          BY <1>n
        <5> QED
          BY <1>3, <5>1, OneLess
      <4>3. (p - 2) * ItemsPerPage <= (p - 1) * ItemsPerPage /\ (p - 2) * ItemsPerPage \in Int
        BY <1>3, <1>12, <4>2
      <4> QED
        BY <1>12, <4>1, <4>3
    <3> QED
      BY <2>2, <3>1, <3>2
  <2>4. ASSUME NEW i \in G, View[i].key \in start \ seen PROVE Place(G, i) > Behind' * ItemsPerPage
    BY <1>8, <1>11, <1>13, <2>3, <2>4
  <2> QED
    BY <1>11, <1>13, <2>4
<1>14. CASE page' = p /\ pc' = "shown" /\ p # 1
  <2>1. /\ walking /\ start' = start
        /\ seen' = seen \cup Keys(View, SliceForPage(View, G, p))
        /\ Behind' = p
    BY <1>1, <1>14 DEF Behind
  <2>2. ASSUME NEW i \in G, View[i].key \in start' \ seen' PROVE Place(G, i) > p * ItemsPerPage
    <3>1. Place(G, i) > Behind * ItemsPerPage /\ (Behind = page \/ Behind = page - 1)
      BY <1>11, <2>1, <2>2 DEF Behind
    <3>2. Place(G, i) > (page - 1) * ItemsPerPage /\ Place(G, i) \in 1..total
      <4>1. Place(G, i) \in 1..total
        BY <1>8
      <4> QED
        BY <1>12, <3>1, <4>1
    <3>3. CASE p < page
      <4>1. total <= p * ItemsPerPage /\ p * ItemsPerPage <= (page - 1) * ItemsPerPage
        BY <1>c, <1>9, <1>12, <3>3
      <4> QED
        BY <1>n, <1>12, <3>2, <4>1
    <3>4. CASE p = page
      <4>1. ~((p - 1) * ItemsPerPage < Place(G, i) /\ Place(G, i) <= p * ItemsPerPage)
        BY <1>10, <2>1, <2>2
      <4> QED
        BY <1>12, <3>2, <3>4, <4>1
    <3> QED
      BY <1>n, <1>3, <3>3, <3>4
  <2> QED
    BY <1>11, <2>1, <2>2
<1>15. CASE page' = p /\ pc' = "shown" /\ p = 1
  <2>1. /\ start' = Keys(View, G)
        /\ seen' = Keys(View, SliceForPage(View, G, p))
        /\ Behind' = p
    BY <1>1, <1>15 DEF Behind
  <2>2. (p - 1) * ItemsPerPage = 0 /\ p * ItemsPerPage = ItemsPerPage
    BY <1>3, <1>15
  <2>3. \A i \in G : View[i].key \in start' \ seen' => Place(G, i) > p * ItemsPerPage
    <3> SUFFICES ASSUME NEW i \in G, View[i].key \in start' \ seen' PROVE Place(G, i) > p * ItemsPerPage
      OBVIOUS
    <3>1. ~((p - 1) * ItemsPerPage < Place(G, i) /\ Place(G, i) <= p * ItemsPerPage)
      BY <1>10, <2>1
    <3>2. Place(G, i) \in 1..total
      BY <1>8
    <3> QED
      BY <1>12, <2>2, <3>1, <3>2
  <2>4. \A i \in 1..m : View[i].key \in start' => i \in G
    <3> SUFFICES ASSUME NEW i \in 1..m, View[i].key \in start' PROVE i \in G
      OBVIOUS
    <3>1. PICK j \in G : View[i].key = View[j].key
      BY <2>1 DEF Keys
    <3>2. j \in 1..m
      BY <1>2
    <3> QED
      BY <1>5, <1>7, <3>1, <3>2
  <2>5. buffer # <<>> /\ View[1].key \in start' => View[1].key \in seen'
    <3> SUFFICES ASSUME buffer # <<>>, View[1].key \in start' PROVE View[1].key \in seen'
      OBVIOUS
    <3>1. 1 \in G
      BY <1>6, <2>4
    <3>2. Place(G, 1) = 1
      <4>1. \A j \in G : j <= 1 <=> j = 1
        BY <1>2
      <4>2. {j \in G : j <= 1} = {1}
        BY <3>1, <4>1, Zenon
      <4> QED
        BY <4>2, PlaceIs, FS_Singleton
    <3> QED
      BY <1>3, <1>10, <2>1, <2>2, <3>1, <3>2
  <2> QED
    BY <2>1, <2>3, <2>4, <2>5
<1> QED
  BY <1>1, <1>13, <1>14, <1>15

(* A click on Previous or Next only makes the page before the present one   *)
(* one the walk may come back to.                                           *)
LEMMA AheadClick ==
  ASSUME PageAssumptions, TypeOK, Ahead, Click
  PROVE  Ahead'
<1>1. UNCHANGED <<buffer, selected, walking, start, seen, page>> /\ pc = "shown" /\ pc' = "run"
  BY DEF Click, walkVars
<1>2. View' = View /\ Kept' = Kept
  BY <1>1 DEF View, Kept
<1>3. page \in Nat \ {0} /\ ItemsPerPage \in Nat
  BY DEF TypeOK, PageAssumptions, ItemsPerPageAssumption
<1>4. Behind = page /\ (Behind' = page \/ Behind' = page - 1)
  BY <1>1 DEF Behind
<1>5. /\ Behind' * ItemsPerPage <= Behind * ItemsPerPage
      /\ Behind * ItemsPerPage \in Int /\ Behind' * ItemsPerPage \in Int
  <2>1. (page - 1) * ItemsPerPage = page * ItemsPerPage - ItemsPerPage
        /\ page * ItemsPerPage \in Int /\ (page - 1) * ItemsPerPage \in Int
    BY <1>3, OneLess, page \in Int
  <2> QED
    BY <1>3, <1>4, <2>1
<1>6. Kept \in SUBSET (1..Len(View)) /\ Len(View) \in Nat
  BY ViewIs, Filtered DEF View, Kept, TypeOK
<1>7. \A i \in Kept : Place(Kept, i) \in Int
  <2> DEFINE F == Kept
             n == Len(View)
  <2>1. F \in SUBSET (1..n) /\ n \in Nat
    BY <1>6
  <2> HIDE DEF F, n
  <2>2. Cardinality(F) \in Nat /\ \A i \in F : Place(F, i) \in 1..Cardinality(F)
    BY <2>1, Places
  <2> QED
    BY <2>2 DEF F
<1> SUFFICES ASSUME walking PROVE Ahead'
  BY <1>1 DEF Ahead
<1>8. /\ \A i \in 1..Len(View) : View[i].key \in start => i \in Kept
      /\ \A i \in Kept : View[i].key \in start \ seen => Place(Kept, i) > Behind * ItemsPerPage
      /\ buffer # <<>> /\ View[1].key \in start => View[1].key \in seen
  BY DEF Ahead
<1>9. \A i \in Kept : View[i].key \in start \ seen => Place(Kept, i) > Behind' * ItemsPerPage
  BY <1>5, <1>7, <1>8
<1> QED
  BY <1>1, <1>2, <1>8, <1>9 DEF Ahead

LEMMA AheadStep ==
  ASSUME PageAssumptions, TypeOK, Known, Ahead, [Next]_vars
  PROVE  Ahead'
<1>1. CASE ChangeFilter
  BY <1>1 DEF ChangeFilter, Ahead
<1>2. CASE ClearLogs
  <2>1. buffer' = <<>> /\ View' \in Seq(Entries) /\ Len(View') = 0
    <3>1. buffer' = <<>> /\ buffer' \in Seq(Entries) /\ Len(buffer') = 0
      BY <1>2, EmptySeq DEF ClearLogs
    <3>2. View' = ItemsAll(buffer')
      BY DEF View
    <3>3. RecentMax \in Nat
      BY DEF PageAssumptions, RecentMaxAssumption
    <3>4. Newest(buffer') = 0
      BY <3>1, <3>3 DEF Newest
    <3> QED
      BY <3>1, <3>2, <3>4, ViewIs
  <2>2. Kept' \in SUBSET (1..0)
    <3>1. Kept' = FilterItemsByEvent(View', selected')
      BY DEF Kept
    <3> QED
      BY <2>1, <3>1, Filtered
  <2>3. 1..Len(View') = {} /\ Kept' = {}
    BY <2>1, <2>2
  <2> QED
    BY <2>1, <2>3 DEF Ahead
<1>3. CASE UNCHANGED vars
  BY <1>3 DEF vars, sessionVars, walkVars, Ahead, View, Kept, Behind
<1> QED
  BY <1>1, <1>2, <1>3, AheadArrive, AheadScript, AheadClick DEF Next

LEMMA FitsStep ==
  ASSUME PageAssumptions, TypeOK, PageFits, [Next]_vars
  PROVE  PageFits'
<1>1. CASE Arrive
  BY <1>1 DEF Arrive, sessionVars, PageFits, Listed
<1>2. CASE Click \/ ChangeFilter \/ ClearLogs
  BY <1>2 DEF Click, ChangeFilter, ClearLogs, PageFits
<1>3. CASE Script
  <2>1. PICK total \in Nat, p \in Nat \ {0} :
           /\ total = Cardinality(Kept')
           /\ p <= PageCount(total)
           /\ pc = "run" /\ View' = View
           /\ \/ page' # p /\ UNCHANGED <<pc, recent, walking, start, seen>>
              \/ page' = p /\ pc' = "shown" /\ recent' = View
    BY <1>3, ScriptRun
  <2>2. recent' = View' => Listed' = Kept'
    BY DEF Listed, Kept
  <2> QED
    BY <2>1, <2>2 DEF PageFits
<1>4. CASE UNCHANGED vars
  BY <1>4 DEF vars, sessionVars, PageFits, Listed
<1> QED
  BY <1>1, <1>2, <1>3, <1>4 DEF Next

LEMMA WalkStep ==
  ASSUME PageAssumptions, TypeOK, WalkSkipsNothing, Ahead', [Next]_vars
  PROVE  WalkSkipsNothing'
<1>1. CASE Arrive
  BY <1>1 DEF Arrive, sessionVars, walkVars, WalkSkipsNothing, Listed
<1>2. CASE Click \/ ChangeFilter \/ ClearLogs
  BY <1>2 DEF Click, ChangeFilter, ClearLogs, WalkSkipsNothing
<1>3. CASE Script
  <2>1. PICK total \in Nat, p \in Nat \ {0} :
           /\ pc = "run" /\ View' = View
           /\ \/ page' # p /\ UNCHANGED <<pc, recent, walking, start, seen>>
              \/ page' = p /\ pc' = "shown" /\ recent' = View
    BY <1>3, ScriptRun
  <2>2. recent' = View' => Listed' = Kept'
    BY DEF Listed, Kept
  <2>3. pc' = "shown" => recent' = View' /\ Behind' = page'
    BY <2>1 DEF Behind
  <2>4. walking' => \A i \in Kept' : View'[i].key \in start' \ seen' => Place(Kept', i) > Behind' * ItemsPerPage
    BY DEF Ahead
  <2> QED
    BY <2>2, <2>3, <2>4 DEF WalkSkipsNothing
<1>4. CASE UNCHANGED vars
  BY <1>4 DEF vars, sessionVars, walkVars, WalkSkipsNothing, Listed
<1> QED
  BY <1>1, <1>2, <1>3, <1>4 DEF Next

LEMMA PageInvStarts ==
  ASSUME PageAssumptions, Init
  PROVE  PageInv
<1>1. /\ buffer = <<>> /\ arrived = 0 /\ page = 1 /\ selected = {"all"} /\ options = {"all"} /\ pc = "run"
      /\ button = "none" /\ recent = <<>> /\ walking = FALSE /\ start = {} /\ seen = {}
  BY DEF Init
<1>2. /\ buffer \in Seq(Entries) /\ recent \in Seq(Entries) /\ Len(buffer) = 0
  BY <1>1, EmptySeq
<1>3. MaxArrivals \in Nat /\ BufferSize \in Nat
  BY DEF PageAssumptions, MaxArrivalsAssumption, BufferSizeAssumption
<1>4. TypeOK
  <2>1. Len(buffer) <= BufferSize /\ arrived \in 0..MaxArrivals
    BY <1>1, <1>2, <1>3
  <2>2. page \in Nat \ {0}
    BY <1>1
  <2> QED
    BY <1>1, <1>2, <2>1, <2>2 DEF TypeOK, Buttons
<1>5. Known
  BY <1>1, <1>2 DEF Known
<1> QED
  BY <1>1, <1>4, <1>5 DEF PageInv, Ahead, PageFits, WalkSkipsNothing

LEMMA PageInvSteps ==
  ASSUME PageAssumptions, PageInv, [Next]_vars
  PROVE  PageInv'
<1>1. TypeOK' /\ Known' /\ Ahead' /\ PageFits'
  BY TypeStep, KnownStep, AheadStep, FitsStep DEF PageInv
<1>2. WalkSkipsNothing'
  BY <1>1, WalkStep DEF PageInv
<1> QED
  BY <1>1, <1>2 DEF PageInv

LEMMA PageInvHolds == Spec => []PageInv
<1>0. PageAssumptions
  BY TypesAssumption, BufferSizeAssumption, RecentMaxAssumption, ItemsPerPageAssumption, MaxArrivalsAssumption
  DEF PageAssumptions, TypesAssumption, BufferSizeAssumption, RecentMaxAssumption,
      ItemsPerPageAssumption, MaxArrivalsAssumption
<1>1. Init => PageInv
  BY <1>0, PageInvStarts
<1>2. PageInv /\ [Next]_vars => PageInv'
  BY <1>0, PageInvSteps
<1> QED
  BY <1>1, <1>2, PTL DEF Spec

LEMMA NoneEmpty ==
  ASSUME PageInv
  PROVE  NoEmptyPage
<1> SUFFICES ASSUME pc = "shown", Listed # {} PROVE Screen # {}
  BY DEF NoEmptyPage
<1> DEFINE F == Listed
           n == Len(recent)
           total == Cardinality(F)
<1>1. F \in SUBSET (1..n) /\ n \in Nat /\ F \in SUBSET Nat /\ total \in Nat /\ F # {}
  BY Filtered DEF PageInv, TypeOK, Listed
<1>2. page \in Nat \ {0} /\ page <= PageCount(total)
  BY DEF PageInv, TypeOK, PageFits
<1> HIDE DEF F, n
<1>3. total > 0
  <2>1. IsFiniteSet(F)
    BY <1>1, Places
  <2>2. total # 0
    BY <1>1, <2>1, FS_EmptySet
  <2> QED
    BY <1>1, <2>2
<1> HIDE DEF total
<1>4. ItemsPerPage \in Nat \ {0} /\ ItemsPerPageAssumption
  BY ItemsPerPageAssumption DEF ItemsPerPageAssumption
<1> DEFINE count == PageCount(total)
           before == (page - 1) * ItemsPerPage
<1>5. count \in Nat \ {0} /\ (count - 1) * ItemsPerPage < total
  BY <1>1, <1>3, <1>4, PagesNeeded
<1>6. before \in Nat /\ before < total
  <2>1. \A a, b \in Nat : a <= b => a * ItemsPerPage <= b * ItemsPerPage /\ a * ItemsPerPage \in Nat /\ b * ItemsPerPage \in Nat
    BY <1>4
  <2>2. page - 1 \in Nat /\ count - 1 \in Nat /\ page - 1 <= count - 1
    <3>1. page <= count
      BY <1>2
    <3> HIDE DEF count
    <3> QED
      BY <1>2, <1>5, <3>1
  <2>3. before <= (count - 1) * ItemsPerPage /\ before \in Nat /\ (count - 1) * ItemsPerPage \in Nat
    BY <2>1, <2>2
  <2> HIDE DEF before, count
  <2> QED
    BY <1>1, <1>5, <2>3
<1>7. PICK i \in F : Place(F, i) = before + 1
  <2>1. before + 1 \in 1..total
    BY <1>1, <1>6
  <2> QED
    BY <1>1, <2>1, PlaceTaken DEF total
<1>8. page * ItemsPerPage = before + ItemsPerPage
  <2>1. before = page * ItemsPerPage - ItemsPerPage /\ page * ItemsPerPage \in Int
    BY <1>2, <1>4, OneLess, page \in Int
  <2> QED
    BY <1>4, <2>1
<1>9. i \in Window(F, page)
  <2>1. before < before + 1 /\ before + 1 <= before + ItemsPerPage
    BY <1>4, <1>6
  <2> QED
    BY <1>7, <1>8, <2>1 DEF Window
<1>10. recent[i].key \in Keys(recent, SliceForPage(recent, F, page))
  <2>1. recent[i].key \in Keys(recent, Window(F, page))
    BY <1>9 DEF Keys
  <2> QED
    BY <1>1, <2>1, NoneDropped
<1> QED
  BY <1>10 DEF Keys, Screen, F

LEMMA AllCovered ==
  ASSUME PageInv
  PROVE  PagesCoverList
<1> DEFINE F == Listed
           n == Len(recent)
           total == Cardinality(F)
           On(p) == Keys(recent, SliceForPage(recent, F, p))
<1>1. F \in SUBSET (1..n) /\ n \in Nat /\ F \in SUBSET Nat /\ total \in Nat
  BY Filtered DEF PageInv, TypeOK, Listed
<1>2. ItemsPerPageAssumption
  BY ItemsPerPageAssumption DEF ItemsPerPageAssumption
<1> HIDE DEF F, n
<1>3. \A p : On(p) \subseteq Keys(recent, F)
  BY <1>1, NoneDropped DEF Keys
<1>4. ASSUME NEW k \in Keys(recent, F)
      PROVE  \E p \in 1..PageCount(total) : k \in On(p)
  <2>1. PICK i \in F : k = recent[i].key
    BY <1>4 DEF Keys
  <2>2. Place(F, i) \in 1..total
    BY <1>1, Places
  <2> HIDE DEF total
  <2>3. PICK p \in 1..PageCount(total) :
          (p - 1) * ItemsPerPage < Place(F, i) /\ Place(F, i) <= p * ItemsPerPage
    BY <1>1, <1>2, <2>2, PageOfPlace
  <2>4. i \in Window(F, p)
    BY <2>3 DEF Window
  <2>5. k \in Keys(recent, Window(F, p))
    BY <2>1, <2>4 DEF Keys
  <2> QED
    BY <1>1, <2>3, <2>5, NoneDropped
<1>5. Cardinality(F) = total
  OBVIOUS
<1> HIDE DEF total, On
<1>6. UNION {On(p) : p \in 1..PageCount(total)} = Keys(recent, F)
  BY <1>3, <1>4
<1> QED
  BY <1>5, <1>6 DEF PagesCoverList, F, On

(* Every widget holds a value it can hold, and no button leads before the   *)
(* first page.                                                              *)
THEOREM PagesTyped == Spec => []TypeOK
<1>1. PageInv => TypeOK
  BY DEF PageInv
<1> QED
  BY <1>1, PageInvHolds, PTL

(* Whatever arrived, was evicted, cleared or filtered away since the page   *)
(* number was stored, the screen is never an empty page while there are     *)
(* packets to list (ground_app.py 321-329, 342-346).                        *)
THEOREM PageNeverEmpty == Spec => []NoEmptyPage
<1>1. PageInv => NoEmptyPage
  BY NoneEmpty
<1> QED
  BY <1>1, PageInvHolds, PTL

(* The pages together show every packet of the list: a duplicate left out   *)
(* of a page and the last, shorter page lose none (ui_utils.py 8-35).       *)
THEOREM PagesShowAll == Spec => []PagesCoverList
<1>1. PageInv => PagesCoverList
  BY AllCovered
<1> QED
  BY <1>1, PageInvHolds, PTL

(* An operator who pages from the first page on never has a packet slip     *)
(* past, however many packets arrive between the clicks, in whatever order  *)
(* Next, Previous and the automatic refresh come (ground_app.py 306-308).   *)
THEOREM WalkMissesNothing == Spec => []WalkSkipsNothing
<1>1. PageInv => WalkSkipsNothing
  BY DEF PageInv
<1> QED
  BY <1>1, PageInvHolds, PTL

=============================================================================
