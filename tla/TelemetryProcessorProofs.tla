----------------------- MODULE TelemetryProcessorProofs -----------------------
(***************************************************************************)
(* Proofs about TelemetryProcessor, for any set of sessions and any sizes  *)
(* of the logs, the series, the buffer and the page's lists.               *)
(***************************************************************************)
EXTENDS TelemetryProcessor, SequenceTheorems, FiniteSetTheorems, TLAPS

(* Who holds the lock, and what the listener and the sessions have in hand. *)
Locked == {"history", "last", "status", "event", "evsEvent", "evsStatus"}

HandsOK ==
  /\ owner = Listener <=> pc \in Locked
  /\ \A s \in Sessions : owner = s <=> spc[s] = "operatorEvent"
  /\ pc # "idle" => entry.id = arrived /\ arrived # 0
  /\ pc \in {"history", "last", "status", "event"} => entry.type \in {"radiation", "thermal"}
  /\ pc = "status" => entry.type = "radiation"
  /\ \A s \in Sessions : spc[s] \in {"update", "operatorEvent"} => button[s] \in SetsStatus
  /\ \A s \in Sessions : spc[s] \in {"clearLogs", "clearBuffer"} => button[s] = "Clear Logs"

(* Every Clear Logs button that was pressed clears the buffer once.         *)
Clearing == {s \in Sessions : button[s] = "Clear Logs"}

ClearsCounted == IsFiniteSet(Clearing) /\ clears + Cardinality(Clearing) <= presses

(* As long as the log is complete, the status is that of its newest line    *)
(* about the panels, except between the statements of a writer.             *)
SolarOf(lines) == {i \in DOMAIN lines : lines[i].status # "none"}

Explains(lines, st) ==
  IF SolarOf(lines) = {} THEN st = "Unknown"
  ELSE \E i \in SolarOf(lines) : lines[i].status = st /\ \A j \in SolarOf(lines) : j <= i

Complete == NeverCleared /\ events <= MaxEvents

WritersExplain ==
  Complete =>
    /\ Len(event_log) = events
    /\ owner = Free \/ pc \in {"history", "last", "status", "evsEvent"} =>
         Explains(event_log, solar_array_status)
    /\ pc = "event" => IF entry.type = "radiation" THEN solar_array_status = ClosedByFdir
                                                   ELSE Explains(event_log, solar_array_status)
    /\ pc = "evsStatus" => Explains(event_log, IF entry.text = "none" THEN solar_array_status
                                                                      ELSE EvsStatus(entry.text))
    /\ \A s \in Sessions : spc[s] = "operatorEvent" => solar_array_status = button[s]

(* A status that was ever set is in the log, or its writer is about to log  *)
(* it before it releases the lock.                                          *)
Mentions(lines, st) == \E i \in DOMAIN lines : lines[i].status = st

Promises ==
  (IF pc = "event" /\ entry.type = "radiation" THEN {ClosedByFdir} ELSE {})
    \union {button[s] : s \in {u \in Sessions : spc[u] = "operatorEvent"}}

Known(st) == st = "Unknown" \/ Mentions(event_log, st) \/ st \in Promises

StatusKnown ==
  /\ Complete =>
       /\ Known(solar_array_status)
       /\ \A s \in Sessions : spc[s] \in {"readSeries", "update", "operatorEvent", "readEvents"} =>
            Known(view[s].status)
  /\ ShownStatusIsLogged

(* The series is in the order of arrival and holds the last point, as every *)
(* page finds it later.                                                     *)
Charted(p, series) ==
  p # NoPoint =>
    /\ series # <<>>
    /\ p.id >= series[1].id => \E i \in DOMAIN series : series[i] = p

SeriesOrdered ==
  /\ \A i \in DOMAIN radiation_history : radiation_history[i].id <= arrived
  /\ pc \in {"process", "history"} =>
       \A i \in DOMAIN radiation_history : radiation_history[i].id < arrived
  /\ \A i, j \in DOMAIN radiation_history : i < j => radiation_history[i].id < radiation_history[j].id

PointsCharted ==
  /\ NeverCleared =>
       /\ Charted(last_radiation, radiation_history)
       /\ pc = "last" /\ entry.type = "radiation" =>
            \E i \in DOMAIN radiation_history : radiation_history[i] = Point
       /\ \A s \in Sessions : spc[s] \in {"readStatus", "readSeries"} =>
            Charted(view[s].radiation, radiation_history)
       /\ \A s \in Sessions : spc[s] \in {"update", "operatorEvent", "readEvents"} =>
            Charted(view[s].radiation, view[s].series)

(* A packet stored since the buffer was cleared is in the buffer, or was    *)
(* pushed out of it by later ones.                                          *)
Kept ==
  {x \in 1..MaxEntries :
     \/ \E j \in DOMAIN buffer : buffer[j] = x
     \/ Len(buffer) = BufferSize /\ x < buffer[1]
     \/ x \in torn}

Consecutive == \A j \in DOMAIN buffer : buffer[j] = arrived - Len(buffer) + j

BufferKept ==
  /\ Consecutive
  /\ pc = "process" => entry.id \in Kept
  /\ \A i \in DOMAIN raw_log : raw_log[i] \in Kept
  /\ \A s \in Sessions : spc[s] = "readList" /\ view[s].clears = clears =>
       \A i \in DOMAIN view[s].raw : view[s].raw[i] \in Kept
  /\ \A s \in Sessions : view[s].clears <= clears
  /\ ShownRawIsListed

-----------------------------------------------------------------------------
(* Sequences.                                                               *)
LEMMA AppendFacts ==
  ASSUME NEW S, NEW s \in Seq(S), NEW x \in S
  PROVE  /\ Append(s, x) \in Seq(S)
         /\ Len(s) \in Nat /\ Len(Append(s, x)) = Len(s) + 1
         /\ \A i \in 1..Len(s) : Append(s, x)[i] = s[i]
         /\ Append(s, x)[Len(s) + 1] = x
BY AppendProperties, LenProperties

(* A bounded deque keeps the newest elements in their order: it drops the   *)
(* oldest one, and only when it is full.                                    *)
Pushed(old, x, max, new) ==
  \E d \in {0, 1} :
    /\ d = 0 <=> Len(old) < max
    /\ Len(new) = Len(old) + 1 - d
    /\ DOMAIN new = 1..(Len(old) + 1 - d)
    /\ \A i \in 1..(Len(old) - d) : i + d \in DOMAIN old /\ new[i] = old[i + d]
    /\ new[Len(old) + 1 - d] = x

LEMMA PushFacts ==
  ASSUME NEW S, NEW seq \in Seq(S), NEW max \in Nat \ {0}, Len(seq) <= max, NEW x \in S
  PROVE  /\ Push(seq, x, max) \in Seq(S) /\ Len(Push(seq, x, max)) <= max
         /\ Pushed(seq, x, max, Push(seq, x, max))
<1>l. Len(seq) \in Nat /\ DOMAIN seq = 1..Len(seq)
  BY LenProperties
<1>1. CASE Len(seq) < max
  <2>1. Push(seq, x, max) = Append(seq, x)
    BY <1>1 DEF Push
  <2>2. DOMAIN Append(seq, x) = 1..(Len(seq) + 1)
    BY <1>l, AppendFacts, LenProperties
  <2>3. /\ Len(Append(seq, x)) = Len(seq) + 1 - 0
        /\ DOMAIN Append(seq, x) = 1..(Len(seq) + 1 - 0)
        /\ \A i \in 1..(Len(seq) - 0) : i + 0 \in DOMAIN seq /\ Append(seq, x)[i] = seq[i + 0]
        /\ Append(seq, x)[Len(seq) + 1 - 0] = x
    BY <1>l, <2>2, AppendFacts
  <2>4. Append(seq, x) \in Seq(S) /\ Len(Append(seq, x)) <= max
    BY <1>1, <1>l, AppendFacts
  <2>5. 0 = 0 <=> Len(seq) < max
    BY <1>1
  <2> QED
    BY <2>1, <2>3, <2>4, <2>5 DEF Pushed
<1>2. CASE ~(Len(seq) < max)
  <2>0. Len(seq) = max /\ Len(seq) # 0
    <3>1. \A n \in Nat : n <= max /\ ~(n < max) => n = max /\ n # 0
      OBVIOUS
    <3> QED
      BY <1>2, <1>l, <3>1
  <2>1. Push(seq, x, max) = Append(Tail(seq), x) /\ Len(seq) = max /\ seq # <<>>
    BY <1>2, <2>0, EmptySeq DEF Push
  <2>2. /\ Tail(seq) \in Seq(S) /\ Len(Tail(seq)) = Len(seq) - 1
        /\ \A i \in 1..(Len(seq) - 1) : Tail(seq)[i] = seq[i + 1]
    BY <2>1, HeadTailProperties
  <2>3. /\ Append(Tail(seq), x) \in Seq(S) /\ Len(Append(Tail(seq), x)) = Len(seq)
        /\ \A i \in 1..(Len(seq) - 1) : Append(Tail(seq), x)[i] = Tail(seq)[i]
        /\ Append(Tail(seq), x)[Len(seq)] = x
    BY <1>l, <2>2, AppendFacts
  <2>4. DOMAIN Append(Tail(seq), x) = 1..Len(seq)
    BY <2>3, LenProperties
  <2>5. \A i \in 1..(Len(seq) - 1) : i + 1 \in DOMAIN seq /\ Append(Tail(seq), x)[i] = seq[i + 1]
    BY <1>l, <2>2, <2>3
  <2>6. Len(seq) + 1 - 1 = Len(seq)
    BY <1>l
  <2> QED
    BY <1>2, <1>l, <2>1, <2>3, <2>4, <2>5, <2>6 DEF Pushed
<1> QED
  BY <1>1, <1>2

(* A page's list is the end of what it is taken from.                       *)
Ending(seq, count, list) ==
  \E d \in 0..Len(seq) :
    /\ d = IF Len(seq) <= count THEN 0 ELSE Len(seq) - count
    /\ Len(list) = Len(seq) - d /\ DOMAIN list = 1..(Len(seq) - d)
    /\ \A i \in 1..(Len(seq) - d) : i + d \in DOMAIN seq /\ list[i] = seq[i + d]

LEMMA LastOfFacts ==
  ASSUME NEW S, NEW seq \in Seq(S), NEW count \in Nat \ {0}
  PROVE  /\ LastOf(seq, count) \in Seq(S)
         /\ Ending(seq, count, LastOf(seq, count))
<1>l. Len(seq) \in Nat /\ \A i \in 1..Len(seq) : seq[i] \in S
  BY LenProperties, ElementOfSeq
<1>1. PICK d \in 0..Len(seq) : d = IF Len(seq) <= count THEN 0 ELSE Len(seq) - count
  <2>1. CASE Len(seq) <= count
    BY <1>l, <2>1
  <2>2. CASE ~(Len(seq) <= count)
    <3>1. Len(seq) - count \in 0..Len(seq)
      BY <1>l, <2>2
    <3> QED
      BY <2>2, <3>1
  <2> QED
    BY <2>1, <2>2
<1>2. LastOf(seq, count) = SubSeq(seq, d + 1, Len(seq))
  <2>1. (IF count > Len(seq) THEN 1 ELSE Len(seq) - count + 1) = d + 1
    BY <1>l, <1>1
  <2> QED
    BY <2>1 DEF LastOf
<1>3. /\ SubSeq(seq, d + 1, Len(seq)) \in Seq(S)
      /\ Len(SubSeq(seq, d + 1, Len(seq))) = IF d + 1 <= Len(seq) THEN Len(seq) - (d + 1) + 1 ELSE 0
      /\ \A i \in 1..(Len(seq) - (d + 1) + 1) : SubSeq(seq, d + 1, Len(seq))[i] = seq[(d + 1) + i - 1]
  <2>1. d + 1 \in Int /\ Len(seq) \in Int /\ \A i \in (d + 1)..Len(seq) : seq[i] \in S
    BY <1>l, <1>1
  <2> QED
    BY <2>1, SubSeqProperties
<1>4. Len(LastOf(seq, count)) = Len(seq) - d
  <2>1. (IF d + 1 <= Len(seq) THEN Len(seq) - (d + 1) + 1 ELSE 0) = Len(seq) - d
    BY <1>l
  <2> QED
    BY <1>2, <1>3, <2>1
<1>5. \A i \in 1..(Len(seq) - d) : LastOf(seq, count)[i] = seq[i + d]
  <2>1. Len(seq) - (d + 1) + 1 = Len(seq) - d /\ \A i \in Nat : (d + 1) + i - 1 = i + d
    BY <1>l, <1>1
  <2> QED
    BY <1>l, <1>2, <1>3, <2>1
<1>6. LastOf(seq, count) \in Seq(S)
  BY <1>2, <1>3
<1>7. DOMAIN LastOf(seq, count) = 1..(Len(seq) - d)
  BY <1>4, <1>6, LenProperties
<1>8. \A i \in 1..(Len(seq) - d) : i + d \in DOMAIN seq
  BY <1>l, LenProperties
<1> QED
  BY <1>1, <1>4, <1>5, <1>6, <1>7, <1>8 DEF Ending

-----------------------------------------------------------------------------
(* Type correctness.                                                        *)
Views == [radiation : Points, status : Statuses, series : Seq(Points), events : Seq(Lines),
          raw : Seq(1..MaxEntries), clears : 0..MaxPresses, list : Seq(1..MaxEntries)]

Typed == TypeOK /\ HandsOK /\ ClearsCounted

LEMMA SessionGoes ==
  ASSUME TypeOK, NEW s \in Sessions, NEW place \in SPCs, Goes(s, place)
  PROVE  /\ spc' \in [Sessions -> SPCs] /\ spc'[s] = place
         /\ \A u \in Sessions \ {s} : spc'[u] = spc[u]
BY DEF TypeOK, Goes

LEMMA EntryTypes ==
  ASSUME Typed, pc # "idle"
  PROVE  entry.id \in 1..MaxEntries /\ Point \in Points /\ Point.id = entry.id /\ Point # NoPoint
<1>0. entry.id = arrived /\ arrived # 0 /\ arrived \in 0..MaxEntries /\ entry \in Entries
  BY DEF Typed, TypeOK, HandsOK
<1>1. entry.id \in 1..MaxEntries /\ entry.health \in 0..2
  BY <1>0, MaxEntriesAssumption DEF Entries
<1> QED
  BY <1>1 DEF Point, Points, NoPoint

LEMMA NoViewTyped == NoView \in Views /\ NoPoint \in Points
<1>1. NoPoint \in Points /\ "Unknown" \in Statuses /\ 0 \in 0..MaxPresses
  BY MaxEntriesAssumption, MaxPressesAssumption DEF NoPoint, Points, Statuses
<1> QED
  BY <1>1, EmptySeq DEF NoView, Views

LEMMA InitTyped == Init => Typed
<1> SUFFICES ASSUME Init PROVE TypeOK /\ HandsOK /\ ClearsCounted
  BY DEF Typed
<1>1. NoView \in Views /\ NoPoint \in Points
  BY NoViewTyped
<1>2. NoEntry \in Entries
  BY MaxEntriesAssumption DEF NoEntry, Entries, Types, Texts
<1>3. <<>> \in Seq(Points) /\ <<>> \in Seq(Lines) /\ <<>> \in Seq(1..MaxEntries) /\ Len(<<>>) = 0
  BY EmptySeq
<1>4. view \in [Sessions -> Views]
  BY <1>1 DEF Init
<1>5. /\ radiation_history \in Seq(Points) /\ Len(radiation_history) <= MaxPoints
      /\ thermal_history \in Seq(Points) /\ Len(thermal_history) <= MaxPoints
      /\ event_log \in Seq(Lines) /\ Len(event_log) <= MaxEvents
      /\ raw_log \in Seq(1..MaxEntries) /\ Len(raw_log) <= MaxRaw
      /\ buffer \in Seq(1..MaxEntries) /\ Len(buffer) <= BufferSize
  BY <1>3, MaxPointsAssumption, MaxEventsAssumption, MaxRawAssumption, BufferSizeAssumption DEF Init
<1>6. arrived \in 0..MaxEntries /\ presses \in 0..MaxPresses /\ events \in Nat /\ clears \in 0..MaxPresses
  BY MaxEntriesAssumption, MaxPressesAssumption DEF Init
<1>7. TypeOK
  BY <1>1, <1>2, <1>4, <1>5, <1>6 DEF Init, TypeOK, Views, Statuses, PCs, SPCs, Buttons
<1>8. HandsOK
  BY SessionsAssumption DEF Init, HandsOK, Locked, Listener, Free
<1>9. Clearing = {}
  BY DEF Init, Clearing
<1>10. ClearsCounted
  BY <1>9, FS_EmptySet DEF Init, ClearsCounted
<1> QED
  BY <1>7, <1>8, <1>10

LEMMA ListenerTypes == Typed /\ Listen => TypeOK'
<1> SUFFICES ASSUME Typed, Listen PROVE TypeOK'
  OBVIOUS
<1> USE DEF dataVars, statusVars, sessionVars, boundVars
<1>t. TypeOK /\ HandsOK
  BY DEF Typed
<1>e. pc # "idle" => entry.id \in 1..MaxEntries /\ Point \in Points
  BY EntryTypes
<1>n. NoEntry \in Entries
  BY MaxEntriesAssumption DEF NoEntry, Entries, Types, Texts
<1>log. ASSUME NEW line \in Lines, Log(line)
        PROVE  event_log' \in Seq(Lines) /\ Len(event_log') <= MaxEvents /\ events' \in Nat
  BY <1>t, <1>log, PushFacts, MaxEventsAssumption DEF Log, TypeOK
<1>1. CASE Store
  <2>1. arrived' \in 1..MaxEntries
    BY <1>1, <1>t, MaxEntriesAssumption DEF Store, TypeOK
  <2>2. buffer' \in Seq(1..MaxEntries) /\ Len(buffer') <= BufferSize
    BY <1>1, <1>t, <2>1, PushFacts, BufferSizeAssumption DEF Store, TypeOK
  <2>3. entry' \in Entries
    BY <1>1, <2>1, KindsAssumption DEF Store, Entries
  <2>4. pc' \in PCs /\ arrived' \in 0..MaxEntries
    BY <1>1, <1>t, <2>1 DEF Store, TypeOK, PCs
  <2> QED
    BY <1>1, <1>t, <2>2, <2>3, <2>4 DEF Store, TypeOK
<1>2. CASE ProcessBegin
  <2>1. raw_log' \in Seq(1..MaxEntries) /\ Len(raw_log') <= MaxRaw
    BY <1>2, <1>t, <1>e, PushFacts, MaxRawAssumption DEF ProcessBegin, TypeOK
  <2> QED
    BY <1>2, <1>t, <1>n, <2>1 DEF ProcessBegin, TypeOK, PCs
<1>3. CASE AppendHistory
  <2>1. /\ radiation_history' \in Seq(Points) /\ Len(radiation_history') <= MaxPoints
        /\ thermal_history' \in Seq(Points) /\ Len(thermal_history') <= MaxPoints
    <3>1. /\ radiation_history \in Seq(Points) /\ Len(radiation_history) <= MaxPoints
          /\ thermal_history \in Seq(Points) /\ Len(thermal_history) <= MaxPoints
          /\ Point \in Points
      BY <1>3, <1>t, <1>e DEF AppendHistory, TypeOK
    <3>2. CASE radiation_history' = Push(radiation_history, Point, MaxPoints) /\ UNCHANGED thermal_history
      BY <3>1, <3>2, PushFacts, MaxPointsAssumption
    <3>3. CASE thermal_history' = Push(thermal_history, Point, MaxPoints) /\ UNCHANGED radiation_history
      BY <3>1, <3>3, PushFacts, MaxPointsAssumption
    <3> QED
      BY <1>3, <3>2, <3>3 DEF AppendHistory
  <2> QED
    BY <1>3, <1>t, <2>1 DEF AppendHistory, TypeOK, PCs
<1>4. CASE SetLast
  <2>1. last_radiation' \in Points /\ last_thermal' \in Points
    BY <1>4, <1>t, <1>e DEF SetLast, TypeOK
  <2> QED
    BY <1>4, <1>t, <1>n, <2>1 DEF SetLast, Return, TypeOK, PCs
<1>5. CASE SetStatus
  BY <1>5, <1>t DEF SetStatus, TypeOK, PCs, Statuses
<1>6. CASE LogCritical
  <2>1. [by |-> "FDIR", status |-> IF entry.type = "radiation" THEN ClosedByFdir ELSE "none"] \in Lines
    BY DEF Lines, Statuses
  <2>2. event_log' \in Seq(Lines) /\ Len(event_log') <= MaxEvents /\ events' \in Nat
    BY <1>6, <1>log, <2>1 DEF LogCritical
  <2> QED
    BY <1>6, <1>t, <1>n, <2>2 DEF LogCritical, Return, TypeOK, PCs
<1>7. CASE LogEvs
  <2>1. [by |-> "EVS", status |-> EvsStatus(entry.text)] \in Lines
    BY <1>t DEF Lines, Statuses, EvsStatus, TypeOK, Entries, Texts
  <2>2. event_log' \in Seq(Lines) /\ Len(event_log') <= MaxEvents /\ events' \in Nat
    BY <1>7, <1>log, <2>1 DEF LogEvs
  <2> QED
    BY <1>7, <1>t, <2>2 DEF LogEvs, TypeOK, PCs
<1>8. CASE SetEvsStatus
  <2>1. solar_array_status' \in Statuses
    BY <1>8, <1>t DEF SetEvsStatus, EvsStatus, Statuses, TypeOK, Entries, Texts
  <2> QED
    BY <1>8, <1>t, <1>n, <2>1 DEF SetEvsStatus, Return, TypeOK, PCs
<1> QED
  BY <1>1, <1>2, <1>3, <1>4, <1>5, <1>6, <1>7, <1>8 DEF Listen, Process

LEMMA SessionTypes == Typed /\ (\E s \in Sessions : Session(s)) => TypeOK'
<1> SUFFICES ASSUME Typed, NEW s \in Sessions, Session(s) PROVE TypeOK'
  OBVIOUS
<1> USE DEF dataVars, statusVars, sessionVars, boundVars
<1>t. TypeOK /\ HandsOK /\ ClearsCounted
  BY DEF Typed
<1>n. NoView \in Views
  BY NoViewTyped
<1>v. view \in [Sessions -> Views] /\ view[s] \in Views
  BY <1>t DEF TypeOK, Views
<1>u. ASSUME NEW v \in Views, view' = [view EXCEPT ![s] = v]
      PROVE  view' \in [Sessions -> Views]
  BY <1>v, <1>u
<1>w. view' \in [Sessions -> Views] <=>
        view' \in [Sessions -> [radiation : Points, status : Statuses,
                                series : Seq(Points), events : Seq(Lines),
                                raw : Seq(1..MaxEntries), clears : 0..MaxPresses,
                                list : Seq(1..MaxEntries)]]
  BY DEF Views
<1>log. ASSUME NEW line \in Lines, Log(line)
        PROVE  event_log' \in Seq(Lines) /\ Len(event_log') <= MaxEvents /\ events' \in Nat
  BY <1>t, <1>log, PushFacts, MaxEventsAssumption DEF Log, TypeOK
<1>l. Leaves(s) => /\ spc' \in [Sessions -> SPCs] /\ button' \in [Sessions -> Buttons]
                   /\ view' \in [Sessions -> Views]
  BY <1>t, <1>n, <1>v, <1>u, SessionGoes DEF Leaves, Buttons, SPCs, TypeOK
<1>1. CASE RenderRadiation(s)
  <2>1. view' = [view EXCEPT ![s] = [view[s] EXCEPT !.radiation = last_radiation]]
    BY <1>1, <1>v DEF RenderRadiation
  <2>2. [view[s] EXCEPT !.radiation = last_radiation] \in Views
    BY <1>t, <1>v DEF TypeOK, Views
  <2>3. view' \in [Sessions -> Views]
    BY <1>u, <2>1, <2>2
  <2>4. spc' \in [Sessions -> SPCs]
    BY <1>1, <1>t, SessionGoes DEF RenderRadiation, SPCs
  <2>5. button' \in [Sessions -> Buttons] /\ presses' \in 0..MaxPresses
    <3>1. presses \in 0..MaxPresses /\ button \in [Sessions -> Buttons]
      BY <1>t DEF TypeOK
    <3>2. presses' = presses \/ (presses < MaxPresses /\ presses' = presses + 1)
      BY <1>1 DEF RenderRadiation
    <3>3. presses' \in 0..MaxPresses
      BY <3>1, <3>2, MaxPressesAssumption
    <3> QED
      BY <1>1, <3>1, <3>3 DEF RenderRadiation
  <2> QED
    BY <1>1, <1>t, <1>w, <2>3, <2>4, <2>5 DEF RenderRadiation, TypeOK
<1>2. CASE RenderStatus(s)
  <2>1. view' = [view EXCEPT ![s] = [view[s] EXCEPT !.status = solar_array_status]]
    BY <1>2, <1>v DEF RenderStatus
  <2>2. [view[s] EXCEPT !.status = solar_array_status] \in Views
    BY <1>t, <1>v DEF TypeOK, Views
  <2>3. view' \in [Sessions -> Views]
    BY <1>u, <2>1, <2>2
  <2>4. spc' \in [Sessions -> SPCs]
    BY <1>2, <1>t, SessionGoes DEF RenderStatus, SPCs
  <2> QED
    BY <1>2, <1>t, <1>w, <2>3, <2>4 DEF RenderStatus, TypeOK
<1>3. CASE RenderSeries(s)
  <2>1. view' = [view EXCEPT ![s] = [view[s] EXCEPT !.series = radiation_history]]
    BY <1>3, <1>v DEF RenderSeries
  <2>2. [view[s] EXCEPT !.series = radiation_history] \in Views
    BY <1>t, <1>v DEF TypeOK, Views
  <2>3. view' \in [Sessions -> Views]
    BY <1>u, <2>1, <2>2
  <2>4. spc' \in [Sessions -> SPCs]
    BY <1>3, <1>t, SessionGoes DEF RenderSeries, SPCs
  <2> QED
    BY <1>3, <1>t, <1>w, <2>3, <2>4 DEF RenderSeries, TypeOK
<1>4. CASE UpdateStatus(s)
  <2>1. button[s] \in Statuses
    BY <1>4, <1>t DEF UpdateStatus, HandsOK, SetsStatus, Statuses
  <2>2. spc' \in [Sessions -> SPCs]
    BY <1>4, <1>t, SessionGoes DEF UpdateStatus, SPCs
  <2> QED
    BY <1>4, <1>t, <2>1, <2>2 DEF UpdateStatus, TypeOK
<1>5. CASE LogOperator(s)
  <2>1. [by |-> "OPERATOR", status |-> button[s]] \in Lines
    BY <1>5, <1>t DEF LogOperator, HandsOK, SetsStatus, Statuses, Lines
  <2>2. event_log' \in Seq(Lines) /\ Len(event_log') <= MaxEvents /\ events' \in Nat
    BY <1>5, <1>log, <2>1 DEF LogOperator
  <2>3. spc' \in [Sessions -> SPCs]
    BY <1>5, <1>t, SessionGoes DEF LogOperator, SPCs
  <2> QED
    BY <1>5, <1>t, <2>2, <2>3 DEF LogOperator, TypeOK
<1>6. CASE RenderEvents(s)
  <2>1. LastOf(event_log, EventsShown) \in Seq(Lines)
    BY <1>t, LastOfFacts, ShownAssumption DEF TypeOK
  <2>2. [NoView EXCEPT !.status = view[s].status, !.events = LastOf(event_log, EventsShown)] \in Views
    BY <1>n, <1>v, <2>1 DEF Views
  <2>3. view' \in [Sessions -> Views]
    BY <1>6, <1>u, <2>2 DEF RenderEvents
  <2>4. spc' \in [Sessions -> SPCs]
    BY <1>6, <1>t, SessionGoes DEF RenderEvents, SPCs
  <2> QED
    BY <1>6, <1>t, <1>w, <2>3, <2>4 DEF RenderEvents, TypeOK
<1>7. CASE RenderRaw(s)
  <2>1. LastOf(raw_log, RawShown) \in Seq(1..MaxEntries)
    BY <1>t, LastOfFacts, ShownAssumption DEF TypeOK
  <2>2. [NoView EXCEPT !.raw = LastOf(raw_log, RawShown), !.clears = clears] \in Views
    BY <1>t, <1>n, <2>1 DEF Views, TypeOK
  <2>3. view' \in [Sessions -> Views]
    BY <1>7, <1>u, <2>2 DEF RenderRaw
  <2>4. spc' \in [Sessions -> SPCs]
    BY <1>7, <1>t, SessionGoes DEF RenderRaw, SPCs
  <2> QED
    BY <1>7, <1>t, <1>w, <2>3, <2>4 DEF RenderRaw, TypeOK
<1>8. CASE RenderList(s)
  <2>1. LastOf(buffer, ListShown) \in Seq(1..MaxEntries)
    BY <1>t, LastOfFacts, ShownAssumption DEF TypeOK
  <2>2. view' = [view EXCEPT ![s] = [view[s] EXCEPT !.list = LastOf(buffer, ListShown)]]
    BY <1>8, <1>v DEF RenderList
  <2>3. [view[s] EXCEPT !.list = LastOf(buffer, ListShown)] \in Views
    BY <1>v, <2>1 DEF Views
  <2>4. view' \in [Sessions -> Views]
    BY <1>u, <2>2, <2>3
  <2>5. spc' \in [Sessions -> SPCs]
    BY <1>8, <1>t, SessionGoes DEF RenderList, SPCs
  <2> QED
    BY <1>8, <1>t, <1>w, <2>4, <2>5 DEF RenderList, TypeOK
<1>9. CASE ClearLogs(s)
  <2>1. spc' \in [Sessions -> SPCs]
    BY <1>9, <1>t, SessionGoes DEF ClearLogs, SPCs
  <2>2. /\ <<>> \in Seq(Points) /\ <<>> \in Seq(Lines) /\ <<>> \in Seq(1..MaxEntries)
        /\ Len(<<>>) <= MaxPoints /\ Len(<<>>) <= MaxEvents /\ Len(<<>>) <= MaxRaw
    BY EmptySeq, MaxPointsAssumption, MaxEventsAssumption, MaxRawAssumption
  <2> QED
    BY <1>9, <1>t, <2>1, <2>2 DEF ClearLogs, TypeOK
<1>10. CASE ClearBuffer(s)
  <2>1. s \in Clearing
    BY <1>10, <1>t DEF ClearBuffer, HandsOK, Clearing
  <2>2. Cardinality(Clearing) \in Nat \ {0}
    BY <1>t, <2>1, FS_CardinalityType, FS_EmptySet DEF ClearsCounted
  <2>3. clears' \in 0..MaxPresses
    <3>1. PICK k \in Nat \ {0} : k = Cardinality(Clearing)
      BY <2>2
    <3>2. clears + k <= presses /\ clears \in 0..MaxPresses /\ presses \in 0..MaxPresses
      BY <1>t, <3>1 DEF ClearsCounted, TypeOK
    <3>3. clears + 1 \in 0..MaxPresses
      BY <3>2, MaxPressesAssumption
    <3> QED
      BY <1>10, <3>3 DEF ClearBuffer
  <2>4. buffer' \in Seq(1..MaxEntries) /\ Len(buffer') <= BufferSize
    BY <1>10, EmptySeq, BufferSizeAssumption DEF ClearBuffer
  <2>5. torn' \subseteq 1..MaxEntries
    <3>1. \A i \in DOMAIN raw_log : raw_log[i] \in 1..MaxEntries
      BY <1>t, LenProperties, ElementOfSeq DEF TypeOK
    <3>2. pc = "process" => entry.id \in 1..MaxEntries
      BY EntryTypes
    <3> QED
      BY <1>10, <1>t, <3>1, <3>2 DEF ClearBuffer, TypeOK
  <2>6. UNCHANGED <<dataVars, statusVars, owner, pc, entry, arrived, presses, events>> /\ Leaves(s)
    BY <1>10 DEF ClearBuffer
  <2> QED
    BY <1>t, <1>l, <1>w, <2>3, <2>4, <2>5, <2>6 DEF TypeOK
<1>11. CASE Rerun(s)
  BY <1>11, <1>t, <1>l, <1>w DEF Rerun, TypeOK
<1> QED
  BY <1>1, <1>2, <1>3, <1>4, <1>5, <1>6, <1>7, <1>8, <1>9, <1>10, <1>11 DEF Session

LEMMA NextHandsOK == Typed /\ [Next]_vars => HandsOK'
<1> SUFFICES ASSUME Typed, [Next]_vars PROVE HandsOK'
  OBVIOUS
<1> USE DEF dataVars, statusVars, sessionVars, boundVars
<1>t. TypeOK /\ HandsOK
  BY DEF Typed
<1>o. Free # Listener /\ Listener \notin Sessions /\ Free \notin Sessions
  BY SessionsAssumption DEF Free, Listener
<1>1. CASE UNCHANGED vars
  BY <1>1, <1>t DEF vars, HandsOK
<1>2. CASE Store
  <2>1. arrived' # 0 /\ entry'.id = arrived'
    BY <1>2, <1>t, MaxEntriesAssumption DEF Store, TypeOK
  <2> QED
    BY <1>2, <1>t, <2>1 DEF Store, HandsOK, Locked
<1>3. CASE ProcessBegin
  <2>1. entry.type \in Types
    BY <1>t DEF TypeOK, Entries
  <2> QED
    BY <1>3, <1>t, <1>o, <2>1 DEF ProcessBegin, HandsOK, Locked, LockFree, Types
<1>4. CASE AppendHistory \/ SetLast \/ SetStatus \/ LogCritical \/ LogEvs \/ SetEvsStatus
  BY <1>4, <1>t, <1>o
     DEF AppendHistory, SetLast, SetStatus, LogCritical, LogEvs, SetEvsStatus, Return, HandsOK, Locked
<1>5. ASSUME NEW s \in Sessions, Session(s), ~UpdateStatus(s), ~LogOperator(s) PROVE HandsOK'
  <2>1. UNCHANGED <<owner, pc, entry, arrived>>
    BY <1>5 DEF Session, RenderRadiation, RenderStatus, RenderSeries, RenderEvents, RenderRaw, RenderList,
                ClearLogs, ClearBuffer, Rerun
  <2>2. /\ spc[s] # "operatorEvent" /\ spc'[s] # "operatorEvent"
        /\ spc'[s] = "update" => button'[s] \in SetsStatus
        /\ spc'[s] \in {"clearLogs", "clearBuffer"} => button'[s] = "Clear Logs"
        /\ \A u \in Sessions \ {s} : spc'[u] = spc[u] /\ button'[u] = button[u]
    <3>1. CASE RenderRadiation(s)
      BY <3>1, <1>t, SessionGoes DEF RenderRadiation, SPCs, TypeOK
    <3>2. CASE RenderStatus(s) \/ RenderSeries(s) \/ RenderEvents(s)
      BY <3>2, <1>t, SessionGoes DEF RenderStatus, RenderSeries, RenderEvents, SPCs
    <3>3. CASE RenderRaw(s)
      BY <3>3, <1>t, SessionGoes DEF RenderRaw, SPCs
    <3>4. CASE RenderList(s)
      BY <3>4, <1>t, SessionGoes DEF RenderList, SPCs
    <3>5. CASE ClearLogs(s)
      BY <3>5, <1>t, SessionGoes DEF ClearLogs, SPCs, HandsOK
    <3>6. CASE ClearBuffer(s) \/ Rerun(s)
      BY <3>6, <1>t, SessionGoes DEF ClearBuffer, Rerun, Leaves, SPCs, TypeOK
    <3> QED
      BY <1>5, <3>1, <3>2, <3>3, <3>4, <3>5, <3>6 DEF Session
  <2> QED
    BY <1>t, <2>1, <2>2 DEF HandsOK
<1>6. ASSUME NEW s \in Sessions, UpdateStatus(s) PROVE HandsOK'
  <2>1. /\ owner = Free /\ owner' = s /\ spc[s] = "update" /\ spc'[s] = "operatorEvent"
        /\ \A u \in Sessions \ {s} : spc'[u] = spc[u]
        /\ UNCHANGED <<button, pc, entry, arrived>>
    BY <1>6, <1>t, SessionGoes DEF UpdateStatus, LockFree, SPCs
  <2> QED
    BY <1>t, <1>o, <2>1 DEF HandsOK
<1>7. ASSUME NEW s \in Sessions, LogOperator(s) PROVE HandsOK'
  <2>1. /\ owner' = Free /\ spc[s] = "operatorEvent" /\ spc'[s] = "readEvents"
        /\ \A u \in Sessions \ {s} : spc'[u] = spc[u]
        /\ UNCHANGED <<button, pc, entry, arrived>>
    BY <1>7, <1>t, SessionGoes DEF LogOperator, SPCs
  <2> QED
    BY <1>t, <1>o, <2>1 DEF HandsOK
<1> QED
  BY <1>1, <1>2, <1>3, <1>4, <1>5, <1>6, <1>7 DEF Next, Listen, Process

LEMMA NextClearsCounted == Typed /\ [Next]_vars => ClearsCounted'
<1> SUFFICES ASSUME Typed, [Next]_vars PROVE ClearsCounted'
  OBVIOUS
<1> USE DEF dataVars, statusVars, sessionVars, boundVars
<1>t. TypeOK /\ HandsOK /\ ClearsCounted
  BY DEF Typed
<1>n. presses \in Nat /\ clears \in Nat
  BY <1>t, MaxPressesAssumption DEF TypeOK
<1>1. CASE UNCHANGED <<button, clears, presses>>
  <2>1. Clearing' = Clearing
    BY <1>1 DEF Clearing
  <2> QED
    BY <1>1, <1>t, <2>1 DEF ClearsCounted
<1>2. ASSUME NEW s \in Sessions, RenderRadiation(s) PROVE ClearsCounted'
  <2>1. PICK b \in Buttons :
          /\ button' = [button EXCEPT ![s] = b]
          /\ \/ b = "none" /\ UNCHANGED presses
             \/ b # "none" /\ presses' = presses + 1
    BY <1>2 DEF RenderRadiation
  <2>2. button'[s] = b /\ \A u \in Sessions \ {s} : button'[u] = button[u]
    BY <1>t, <2>1 DEF TypeOK
  <2>3. clears' = clears
    BY <1>2 DEF RenderRadiation
  <2>4. CASE b = "Clear Logs"
    <3>1. Clearing' = Clearing \union {s} /\ presses' = presses + 1
      BY <2>1, <2>2, <2>4 DEF Clearing
    <3>2. /\ IsFiniteSet(Clearing \union {s})
          /\ Cardinality(Clearing \union {s}) \in {Cardinality(Clearing), Cardinality(Clearing) + 1}
      BY <1>t, FS_AddElement DEF ClearsCounted
    <3>3. PICK k \in Nat : k = Cardinality(Clearing)
      BY <1>t, FS_CardinalityType DEF ClearsCounted
    <3>4. clears + k <= presses
      BY <1>t, <3>3 DEF ClearsCounted
    <3>5. clears + k <= presses + 1 /\ clears + (k + 1) <= presses + 1
      BY <1>n, <3>3, <3>4
    <3> QED
      BY <2>3, <3>1, <3>2, <3>3, <3>5 DEF ClearsCounted
  <2>5. CASE b # "Clear Logs"
    <3>1. Clearing' = Clearing \ {s}
      BY <2>1, <2>2, <2>5 DEF Clearing
    <3>2. /\ IsFiniteSet(Clearing \ {s})
          /\ Cardinality(Clearing \ {s}) \in {Cardinality(Clearing), Cardinality(Clearing) - 1}
      BY <1>t, FS_RemoveElement DEF ClearsCounted
    <3>3. PICK k \in Nat : k = Cardinality(Clearing)
      BY <1>t, FS_CardinalityType DEF ClearsCounted
    <3>4. clears + k <= presses
      BY <1>t, <3>3 DEF ClearsCounted
    <3>5. presses' \in {presses, presses + 1}
      BY <2>1
    <3>6. clears + k <= presses' /\ clears + (k - 1) <= presses'
      BY <1>n, <3>3, <3>4, <3>5
    <3> QED
      BY <2>3, <3>1, <3>2, <3>3, <3>6 DEF ClearsCounted
  <2> QED
    BY <2>4, <2>5
<1>3. ASSUME NEW s \in Sessions, ClearBuffer(s) \/ Rerun(s) PROVE ClearsCounted'
  <2>1. /\ button'[s] = "none" /\ \A u \in Sessions \ {s} : button'[u] = button[u]
        /\ presses' = presses
    BY <1>3, <1>t DEF ClearBuffer, Rerun, Leaves, TypeOK
  <2>2. Clearing' = Clearing \ {s}
    BY <2>1 DEF Clearing
  <2>3. /\ IsFiniteSet(Clearing \ {s})
        /\ Cardinality(Clearing \ {s}) = IF s \in Clearing THEN Cardinality(Clearing) - 1 ELSE Cardinality(Clearing)
    BY <1>t, FS_RemoveElement DEF ClearsCounted
  <2>4. PICK k \in Nat : k = Cardinality(Clearing)
    BY <1>t, FS_CardinalityType DEF ClearsCounted
  <2>5. clears + k <= presses
    BY <1>t, <2>4 DEF ClearsCounted
  <2>6. CASE ClearBuffer(s)
    <3>1. s \in Clearing /\ clears' = clears + 1
      BY <2>6, <1>t DEF ClearBuffer, HandsOK, Clearing
    <3>2. (clears + 1) + (k - 1) <= presses
      BY <1>n, <2>4, <2>5
    <3> QED
      BY <2>1, <2>2, <2>3, <2>4, <3>1, <3>2 DEF ClearsCounted
  <2>7. CASE Rerun(s)
    <3>1. clears' = clears
      BY <2>7 DEF Rerun
    <3>2. clears + k <= presses /\ clears + (k - 1) <= presses
      BY <1>n, <2>4, <2>5
    <3> QED
      BY <2>1, <2>2, <2>3, <2>4, <3>1, <3>2 DEF ClearsCounted
  <2> QED
    BY <1>3, <2>6, <2>7
<1>4. CASE Listen \/ UNCHANGED vars
  BY <1>1, <1>4 DEF Listen, Store, Process, ProcessBegin, AppendHistory, SetLast, SetStatus, LogCritical, LogEvs,
                    SetEvsStatus, vars
<1>5. ASSUME NEW s \in Sessions, Session(s) PROVE ClearsCounted'
  BY <1>1, <1>2, <1>3, <1>5
     DEF Session, RenderStatus, RenderSeries, UpdateStatus, LogOperator, RenderEvents, RenderRaw, RenderList, ClearLogs
<1> QED
  BY <1>4, <1>5 DEF Next

LEMMA NextTyped == Typed /\ [Next]_vars => Typed'
<1>1. Typed /\ UNCHANGED vars => TypeOK'
  BY DEF Typed, TypeOK, vars, dataVars, statusVars, sessionVars, boundVars
<1> QED
  BY <1>1, ListenerTypes, SessionTypes, NextHandsOK, NextClearsCounted DEF Typed, Next

(* Every attribute of the processor, of the listener and of the sessions    *)
(* keeps its type, the logs, the series and the buffer their bounds.        *)
THEOREM TypeCorrect == Spec => []TypeOK
<1>1. Spec => []Typed
  BY InitTyped, NextTyped, PTL DEF Spec
<1>2. Typed => TypeOK
  BY DEF Typed
<1> QED
  BY <1>1, <1>2, PTL

-----------------------------------------------------------------------------
(* The status and its lines in the log.                                     *)

(* Clear Logs is for good: a history without it had none before.            *)
LEMMA NeverClearedBefore ==
  ASSUME Typed, [Next]_vars, NeverCleared'
  PROVE  NeverCleared /\ \A s \in Sessions : ~ClearLogs(s) /\ ~ClearBuffer(s)
<1> USE DEF dataVars, statusVars, sessionVars, boundVars
<1>t. TypeOK /\ clears \in Nat
  BY MaxPressesAssumption DEF Typed, TypeOK
<1>1. ASSUME NEW s \in Sessions PROVE ~ClearLogs(s)
  BY <1>t, SessionGoes DEF ClearLogs, SPCs, NeverCleared
<1>2. ASSUME NEW s \in Sessions PROVE ~ClearBuffer(s)
  BY <1>t DEF ClearBuffer, NeverCleared
<1>3. CASE UNCHANGED <<clears, spc>>
  BY <1>1, <1>2, <1>3 DEF NeverCleared
<1>4. ASSUME NEW s \in Sessions, Session(s) PROVE NeverCleared
  <2>1. clears' = clears
    BY <1>4, <1>2
       DEF Session, RenderRadiation, RenderStatus, RenderSeries, UpdateStatus, LogOperator, RenderEvents, RenderRaw,
           RenderList, ClearLogs, Rerun
  <2>2. spc[s] # "clearBuffer" /\ \A u \in Sessions \ {s} : spc'[u] = spc[u]
    BY <1>4, <1>2, <1>t
       DEF Session, RenderRadiation, RenderStatus, RenderSeries, UpdateStatus, LogOperator, RenderEvents, RenderRaw,
           RenderList, ClearLogs, Rerun, Goes, Leaves, TypeOK
  <2> QED
    BY <2>1, <2>2 DEF NeverCleared
<1>5. CASE Listen \/ UNCHANGED vars
  BY <1>3, <1>5 DEF Listen, Store, Process, ProcessBegin, AppendHistory, SetLast, SetStatus, LogCritical, LogEvs,
                    SetEvsStatus, vars
<1> QED
  BY <1>1, <1>2, <1>4, <1>5 DEF Next

LEMMA EventsGrow ==
  ASSUME Typed, [Next]_vars
  PROVE  events \in Nat /\ events' \in {events, events + 1}
<1> USE DEF dataVars, statusVars, sessionVars, boundVars
<1>1. events \in Nat
  BY DEF Typed, TypeOK
<1>2. ASSUME Listen PROVE events' \in {events, events + 1}
  BY <1>2 DEF Listen, Store, Process, ProcessBegin, AppendHistory, SetLast, SetStatus, LogCritical, LogEvs,
              SetEvsStatus, Log
<1>3. ASSUME NEW s \in Sessions, Session(s) PROVE events' \in {events, events + 1}
  BY <1>3 DEF Session, RenderRadiation, RenderStatus, RenderSeries, UpdateStatus, LogOperator, RenderEvents,
              RenderRaw, RenderList, ClearLogs, ClearBuffer, Rerun, Log
<1>4. UNCHANGED vars => events' = events
  BY DEF vars
<1> QED
  BY <1>1, <1>2, <1>3, <1>4 DEF Next

LEMMA CompleteBefore ==
  ASSUME Typed, [Next]_vars, Complete'
  PROVE  Complete /\ \A s \in Sessions : ~ClearLogs(s) /\ ~ClearBuffer(s)
<1>1. events <= events' /\ events \in Int /\ events' \in Int
  BY EventsGrow
<1>2. NeverCleared /\ \A s \in Sessions : ~ClearLogs(s) /\ ~ClearBuffer(s)
  BY NeverClearedBefore DEF Complete
<1>3. events <= MaxEvents
  BY <1>1, MaxEventsAssumption DEF Complete
<1> QED
  BY <1>2, <1>3 DEF Complete

(* A line that speaks of the panels is the newest of those; any other line  *)
(* leaves the newest one what it was.                                       *)
LEMMA NewLine ==
  ASSUME NEW lines \in Seq(Lines), NEW line \in Lines
  PROVE  LET longer == Append(lines, line) IN
         /\ line.status = "none" => \A st : Explains(lines, st) => Explains(longer, st)
         /\ line.status # "none" => Explains(longer, line.status)
         /\ \A st : Mentions(lines, st) => Mentions(longer, st)
         /\ Mentions(longer, line.status)
<1> DEFINE longer == Append(lines, line)
           n == Len(lines) + 1
<1>1. n \in Nat /\ DOMAIN lines = 1..Len(lines) /\ DOMAIN longer = 1..n /\ Len(lines) \in Nat
  BY AppendFacts, LenProperties
<1>2. longer[n] = line /\ \A i \in DOMAIN lines : longer[i] = lines[i]
  BY <1>1, AppendFacts
<1>3. DOMAIN longer = DOMAIN lines \union {n} /\ \A i \in DOMAIN lines : i <= n
  BY <1>1
<1> HIDE DEF longer, n
<1>4. ASSUME line.status = "none", NEW st, Explains(lines, st) PROVE Explains(longer, st)
  <2>1. SolarOf(longer) = SolarOf(lines)
    BY <1>1, <1>2, <1>3, <1>4 DEF SolarOf
  <2>2. \A i \in SolarOf(lines) : longer[i] = lines[i]
    BY <1>2 DEF SolarOf
  <2> QED
    BY <1>4, <2>1, <2>2 DEF Explains
<1>5. ASSUME line.status # "none" PROVE Explains(longer, line.status)
  <2>1. n \in SolarOf(longer) /\ \A i \in SolarOf(longer) : i <= n
    BY <1>1, <1>2, <1>3, <1>5 DEF SolarOf
  <2> QED
    BY <1>2, <2>1 DEF Explains
<1>6. \A st : Mentions(lines, st) => Mentions(longer, st)
  BY <1>2, <1>3 DEF Mentions
<1>7. Mentions(longer, line.status)
  BY <1>2, <1>3 DEF Mentions
<1> QED
  BY <1>4, <1>5, <1>6, <1>7 DEF longer

(* While the log is complete, logging appends.                              *)
LEMMA LogAppends ==
  ASSUME Typed, NEW line \in Lines, Log(line), Len(event_log) = events, events' <= MaxEvents
  PROVE  event_log' = Append(event_log, line) /\ event_log \in Seq(Lines) /\ Len(event_log') = events'
<1>1. event_log \in Seq(Lines) /\ events \in Nat /\ events' = events + 1
  BY DEF Typed, TypeOK, Log
<1>2. Len(event_log) < MaxEvents
  BY <1>1, MaxEventsAssumption
<1> QED
  BY <1>1, <1>2, AppendFacts DEF Log, Push

(* A session's step that is not about the panels or the logs.               *)
QuietStep ==
  /\ UNCHANGED <<event_log, events, solar_array_status, owner, pc, entry>>
  /\ \A s \in Sessions : spc'[s] = "operatorEvent" <=> spc[s] = "operatorEvent"
  /\ \A s \in Sessions : spc[s] = "operatorEvent" => button'[s] = button[s]

LEMMA SessionKinds ==
  ASSUME Typed, [Next]_vars, ~Listen, \A s \in Sessions : ~ClearLogs(s) /\ ~ClearBuffer(s)
  PROVE  QuietStep \/ \E s \in Sessions : UpdateStatus(s) \/ LogOperator(s)
<1> USE DEF dataVars, statusVars, sessionVars, boundVars
<1>t. TypeOK
  BY DEF Typed
<1>1. CASE UNCHANGED vars
  BY <1>1 DEF QuietStep, vars
<1>2. ASSUME NEW s \in Sessions, Session(s), ~UpdateStatus(s), ~LogOperator(s) PROVE QuietStep
  <2>1. UNCHANGED <<event_log, events, solar_array_status, owner, pc, entry>>
    BY <1>2 DEF Session, RenderRadiation, RenderStatus, RenderSeries, RenderEvents, RenderRaw, RenderList, Rerun
  <2>2. /\ spc[s] # "operatorEvent" /\ spc'[s] # "operatorEvent"
        /\ \A u \in Sessions \ {s} : spc'[u] = spc[u] /\ button'[u] = button[u]
    BY <1>2, <1>t DEF Session, RenderRadiation, RenderStatus, RenderSeries, RenderEvents, RenderRaw, RenderList,
                      Rerun, Leaves, Goes, TypeOK
  <2> QED
    BY <2>1, <2>2 DEF QuietStep
<1> QED
  BY <1>1, <1>2 DEF Next

LEMMA NextWritersExplain == Typed /\ WritersExplain /\ [Next]_vars => WritersExplain'
<1> SUFFICES ASSUME Typed, WritersExplain, [Next]_vars, Complete'
             PROVE  /\ Len(event_log') = events'
                    /\ owner' = Free \/ pc' \in {"history", "last", "status", "evsEvent"} =>
                         Explains(event_log', solar_array_status')
                    /\ pc' = "event" =>
                         IF entry'.type = "radiation" THEN solar_array_status' = ClosedByFdir
                         ELSE Explains(event_log', solar_array_status')
                    /\ pc' = "evsStatus" =>
                         Explains(event_log', IF entry'.text = "none" THEN solar_array_status'
                                              ELSE EvsStatus(entry'.text))
                    /\ \A s \in Sessions : spc'[s] = "operatorEvent" => solar_array_status' = button'[s]
  BY DEF WritersExplain, EvsStatus
<1> USE DEF dataVars, statusVars, sessionVars, boundVars
<1>t. TypeOK /\ HandsOK
  BY DEF Typed
<1>o. /\ Free # Listener /\ Listener \notin Sessions /\ Free \notin Sessions
      /\ owner = Listener <=> pc \in Locked
      /\ \A s \in Sessions : owner = s <=> spc[s] = "operatorEvent"
  BY <1>t, SessionsAssumption DEF Free, Listener, HandsOK
<1>c. Complete /\ (\A s \in Sessions : ~ClearLogs(s) /\ ~ClearBuffer(s)) /\ events' <= MaxEvents
  BY CompleteBefore DEF Complete
<1>i. /\ Len(event_log) = events
      /\ owner = Free \/ pc \in {"history", "last", "status", "evsEvent"} =>
           Explains(event_log, solar_array_status)
      /\ pc = "event" => IF entry.type = "radiation" THEN solar_array_status = ClosedByFdir
                         ELSE Explains(event_log, solar_array_status)
      /\ pc = "evsStatus" => Explains(event_log, IF entry.text = "none" THEN solar_array_status
                                                 ELSE EvsStatus(entry.text))
      /\ \A s \in Sessions : spc[s] = "operatorEvent" => solar_array_status = button[s]
  BY <1>c DEF WritersExplain
<1>1. CASE QuietStep
  BY <1>1, <1>i DEF QuietStep
<1>2. CASE Store
  BY <1>2, <1>i, <1>o DEF Store, Locked
<1>3. CASE ProcessBegin
  BY <1>3, <1>i, <1>o DEF ProcessBegin, LockFree, Locked
<1>4. CASE AppendHistory
  BY <1>4, <1>i, <1>o DEF AppendHistory, Locked
<1>5. CASE SetLast
  <2>1. entry.type \in {"radiation", "thermal"}
    BY <1>5, <1>t DEF SetLast, HandsOK
  <2> QED
    BY <1>5, <1>i, <1>o, <2>1 DEF SetLast, Return, Locked
<1>6. CASE SetStatus
  <2>1. entry.type = "radiation"
    BY <1>6, <1>t DEF SetStatus, HandsOK
  <2> QED
    BY <1>6, <1>i, <1>o, <2>1 DEF SetStatus, Locked
<1>7. CASE LogCritical
  <2> DEFINE line == [by |-> "FDIR", status |-> IF entry.type = "radiation" THEN ClosedByFdir ELSE "none"]
  <2>1. line \in Lines
    BY DEF Lines, Statuses
  <2>2. Log(line) /\ pc = "event" /\ pc' = "idle" /\ UNCHANGED <<solar_array_status, spc, button>>
    BY <1>7 DEF LogCritical, Return
  <2>3. event_log' = Append(event_log, line) /\ event_log \in Seq(Lines) /\ Len(event_log') = events'
    BY <1>c, <1>i, <2>1, <2>2, LogAppends
  <2>4. Explains(event_log', solar_array_status')
    <3>1. CASE entry.type = "radiation"
      <4>1. line.status = ClosedByFdir /\ solar_array_status' = ClosedByFdir /\ line.status # "none"
        BY <3>1, <1>i, <2>2 DEF ClosedByFdir
      <4> QED
        BY <2>1, <2>3, <4>1, NewLine
    <3>2. CASE entry.type # "radiation"
      <4>1. line.status = "none" /\ Explains(event_log, solar_array_status)
        BY <3>2, <1>i, <2>2
      <4> QED
        BY <2>1, <2>2, <2>3, <4>1, NewLine
    <3> QED
      BY <3>1, <3>2
  <2> QED
    BY <1>i, <1>o, <2>2, <2>3, <2>4 DEF Locked
<1>8. CASE LogEvs
  <2> DEFINE line == [by |-> "EVS", status |-> EvsStatus(entry.text)]
  <2>1. entry.text \in Texts
    BY <1>t DEF TypeOK, Entries
  <2>2. line \in Lines /\ (line.status = "none" <=> entry.text = "none")
    BY <2>1 DEF Lines, Statuses, EvsStatus, Texts
  <2>3. /\ Log(line) /\ pc = "evsEvent" /\ pc' = "evsStatus"
        /\ UNCHANGED <<solar_array_status, entry, owner, spc, button>>
    BY <1>8 DEF LogEvs
  <2>4. event_log' = Append(event_log, line) /\ event_log \in Seq(Lines) /\ Len(event_log') = events'
    BY <1>c, <1>i, <2>2, <2>3, LogAppends
  <2>5. Explains(event_log', IF entry'.text = "none" THEN solar_array_status' ELSE EvsStatus(entry'.text))
    <3>1. CASE entry.text = "none"
      <4>1. line.status = "none" /\ Explains(event_log, solar_array_status)
        BY <3>1, <1>i, <2>2, <2>3
      <4> QED
        BY <3>1, <2>2, <2>3, <2>4, <4>1, NewLine
    <3>2. CASE entry.text # "none"
      <4>1. line.status # "none" /\ line.status = EvsStatus(entry.text)
        BY <3>2, <2>2
      <4>2. Explains(event_log', line.status)
        BY <2>2, <2>4, <4>1, NewLine
      <4> QED
        BY <3>2, <2>3, <4>1, <4>2
    <3> QED
      BY <3>1, <3>2
  <2> QED
    BY <1>i, <1>o, <2>3, <2>4, <2>5 DEF Locked
<1>9. CASE SetEvsStatus
  BY <1>9, <1>i, <1>o DEF SetEvsStatus, Return, Locked
<1>10. ASSUME NEW s \in Sessions, UpdateStatus(s)
       PROVE  /\ owner = Free /\ owner' = s /\ pc' = pc /\ pc \notin Locked
              /\ solar_array_status' = button[s] /\ button' = button
              /\ \A u \in Sessions : spc'[u] = "operatorEvent" => u = s
              /\ UNCHANGED <<event_log, events>>
  <2>1. /\ owner = Free /\ owner' = s /\ solar_array_status' = button[s] /\ Goes(s, "operatorEvent")
        /\ UNCHANGED <<pc, button, event_log, events>>
    BY <1>10 DEF UpdateStatus, LockFree
  <2>2. \A u \in Sessions \ {s} : spc'[u] = spc[u] /\ spc[u] # "operatorEvent"
    BY <1>t, <1>o, <2>1, SessionGoes DEF SPCs
  <2> QED
    BY <1>o, <2>1, <2>2
<1>11. ASSUME NEW s \in Sessions, LogOperator(s)
       PROVE  /\ owner' = Free /\ pc' = pc /\ pc \notin Locked
              /\ Len(event_log') = events'
              /\ Explains(event_log', solar_array_status')
              /\ \A u \in Sessions : spc'[u] # "operatorEvent"
  <2> DEFINE line == [by |-> "OPERATOR", status |-> button[s]]
  <2>1. /\ owner' = Free /\ spc[s] = "operatorEvent" /\ Log(line) /\ Goes(s, "readEvents")
        /\ UNCHANGED <<pc, button, solar_array_status>>
    BY <1>11 DEF LogOperator
  <2>2. owner = s /\ pc \notin Locked /\ \A u \in Sessions \ {s} : spc[u] # "operatorEvent"
    BY <1>o, <2>1
  <2>3. button[s] \in SetsStatus /\ solar_array_status = button[s]
    BY <1>t, <1>i, <2>1 DEF HandsOK
  <2>4. line \in Lines /\ line.status # "none"
    BY <2>3 DEF SetsStatus, Lines, Statuses, OpenByOperator, ClosedByOperator
  <2>5. event_log' = Append(event_log, line) /\ event_log \in Seq(Lines) /\ Len(event_log') = events'
    BY <1>c, <1>i, <2>1, <2>4, LogAppends
  <2>6. Explains(event_log', line.status)
    BY <2>4, <2>5, NewLine
  <2>7. \A u \in Sessions : spc'[u] # "operatorEvent"
    BY <1>t, <2>1, <2>2, SessionGoes DEF SPCs
  <2> QED
    BY <2>1, <2>2, <2>3, <2>5, <2>6, <2>7
<1>12. CASE Listen
  BY <1>2, <1>3, <1>4, <1>5, <1>6, <1>7, <1>8, <1>9, <1>12 DEF Listen, Process
<1>13. CASE \E s \in Sessions : UpdateStatus(s)
  BY <1>10, <1>13, <1>i, <1>o DEF Locked
<1>14. CASE \E s \in Sessions : LogOperator(s)
  BY <1>11, <1>14, <1>i, <1>o DEF Locked
<1> QED
  BY <1>1, <1>12, <1>13, <1>14, <1>c, SessionKinds

(* A status that is known stays known.                                      *)
LEMMA KnownStays ==
  ASSUME Typed, WritersExplain, [Next]_vars, Complete'
  PROVE  \A st : Mentions(event_log, st) \/ st \in Promises => Mentions(event_log', st) \/ st \in Promises'
<1> USE DEF dataVars, statusVars, sessionVars, boundVars
<1>t. TypeOK /\ HandsOK
  BY DEF Typed
<1>o. /\ owner = Listener <=> pc \in Locked
      /\ \A s \in Sessions : owner = s <=> spc[s] = "operatorEvent"
      /\ Free # Listener /\ Listener \notin Sessions /\ Free \notin Sessions
  BY <1>t, SessionsAssumption DEF Free, Listener, HandsOK
<1>c. Complete /\ (\A s \in Sessions : ~ClearLogs(s) /\ ~ClearBuffer(s)) /\ events' <= MaxEvents
      /\ Len(event_log) = events
  BY CompleteBefore DEF Complete, WritersExplain
<1>1. CASE QuietStep
  BY <1>1 DEF QuietStep, Promises
<1>2. CASE Store \/ ProcessBegin \/ AppendHistory \/ SetLast \/ SetStatus \/ SetEvsStatus
  <2>1. pc # "event" /\ UNCHANGED <<event_log, spc, button>>
    BY <1>2 DEF Store, ProcessBegin, AppendHistory, SetLast, SetStatus, SetEvsStatus
  <2> QED
    BY <2>1 DEF Promises
<1>3. CASE LogCritical
  <2> DEFINE line == [by |-> "FDIR", status |-> IF entry.type = "radiation" THEN ClosedByFdir ELSE "none"]
  <2>1. line \in Lines
    BY DEF Lines, Statuses
  <2>2. Log(line) /\ UNCHANGED <<spc, button>>
    BY <1>3 DEF LogCritical
  <2>3. event_log' = Append(event_log, line) /\ event_log \in Seq(Lines)
    BY <1>c, <2>1, <2>2, LogAppends
  <2>4. (\A st : Mentions(event_log, st) => Mentions(event_log', st)) /\ Mentions(event_log', line.status)
    BY <2>1, <2>3, NewLine
  <2> QED
    BY <2>2, <2>4 DEF Promises
<1>4. CASE LogEvs
  <2> DEFINE line == [by |-> "EVS", status |-> EvsStatus(entry.text)]
  <2>1. entry.text \in Texts
    BY <1>t DEF TypeOK, Entries
  <2>2. line \in Lines
    BY <2>1 DEF Lines, Statuses, EvsStatus, Texts
  <2>3. Log(line) /\ pc # "event" /\ UNCHANGED <<spc, button>>
    BY <1>4 DEF LogEvs
  <2>4. event_log' = Append(event_log, line) /\ event_log \in Seq(Lines)
    BY <1>c, <2>2, <2>3, LogAppends
  <2>5. \A st : Mentions(event_log, st) => Mentions(event_log', st)
    BY <2>2, <2>4, NewLine
  <2> QED
    BY <2>3, <2>5 DEF Promises
<1>5. ASSUME NEW s \in Sessions, UpdateStatus(s)
      PROVE  \A st : Mentions(event_log, st) \/ st \in Promises => Mentions(event_log', st) \/ st \in Promises'
  <2>1. owner = Free /\ UNCHANGED <<pc, entry, event_log>>
    BY <1>5 DEF UpdateStatus, LockFree
  <2>2. Promises = {}
    BY <1>o, <2>1 DEF Promises, Locked
  <2> QED
    BY <2>1, <2>2
<1>6. ASSUME NEW s \in Sessions, LogOperator(s)
      PROVE  \A st : Mentions(event_log, st) \/ st \in Promises => Mentions(event_log', st)
  <2> DEFINE line == [by |-> "OPERATOR", status |-> button[s]]
  <2>1. spc[s] = "operatorEvent" /\ Log(line)
    BY <1>6 DEF LogOperator
  <2>2. line \in Lines
    BY <1>t, <2>1 DEF HandsOK, SetsStatus, Lines, Statuses, OpenByOperator, ClosedByOperator
  <2>3. event_log' = Append(event_log, line) /\ event_log \in Seq(Lines)
    BY <1>c, <2>1, <2>2, LogAppends
  <2>4. (\A st : Mentions(event_log, st) => Mentions(event_log', st)) /\ Mentions(event_log', button[s])
    BY <2>2, <2>3, NewLine
  <2>5. \A st \in Promises : st = button[s]
    BY <1>o, <2>1 DEF Promises, Locked
  <2> QED
    BY <2>4, <2>5
<1>7. CASE \E s \in Sessions : UpdateStatus(s) \/ LogOperator(s)
  BY <1>5, <1>6, <1>7
<1> QED
  BY <1>1, <1>2, <1>3, <1>4, <1>7, <1>c, SessionKinds DEF Listen, Process

(* A status that is set is known.                                           *)
LEMMA SetIsKnown ==
  ASSUME Typed, WritersExplain, Complete, Known(solar_array_status), [Next]_vars, Complete'
  PROVE  solar_array_status' = "Unknown" \/ Mentions(event_log', solar_array_status')
           \/ solar_array_status' \in Promises'
<1> USE DEF dataVars, statusVars, sessionVars, boundVars
<1>t. TypeOK /\ HandsOK
  BY DEF Typed
<1>1. CASE UNCHANGED solar_array_status
  BY <1>1, KnownStays DEF Known
<1>2. CASE SetStatus
  <2>1. pc' = "event" /\ entry'.type = "radiation" /\ solar_array_status' = ClosedByFdir
    BY <1>2, <1>t DEF SetStatus, HandsOK
  <2> QED
    BY <2>1 DEF Promises
<1>3. CASE SetEvsStatus /\ entry.text # "none"
  <2>1. pc = "evsStatus" /\ solar_array_status' = EvsStatus(entry.text) /\ event_log' = event_log
    BY <1>3 DEF SetEvsStatus
  <2>2. Explains(event_log, EvsStatus(entry.text))
    BY <1>3, <2>1 DEF WritersExplain
  <2>3. EvsStatus(entry.text) # "Unknown"
    BY <1>t DEF TypeOK, Entries, Texts, EvsStatus
  <2>4. Mentions(event_log, EvsStatus(entry.text))
    BY <2>2, <2>3 DEF Explains, Mentions, SolarOf
  <2> QED
    BY <2>1, <2>4
<1>4. ASSUME NEW s \in Sessions, UpdateStatus(s) PROVE solar_array_status' \in Promises'
  <2>1. /\ solar_array_status' = button[s] /\ button' = button /\ spc'[s] = "operatorEvent"
    BY <1>4, <1>t, SessionGoes DEF UpdateStatus, SPCs
  <2> QED
    BY <2>1 DEF Promises
<1>5. CASE Listen
  BY <1>1, <1>2, <1>3, <1>5
     DEF Listen, Process, Store, ProcessBegin, AppendHistory, SetLast, LogCritical, LogEvs, SetEvsStatus
<1>6. ASSUME NEW s \in Sessions, LogOperator(s) PROVE UNCHANGED solar_array_status
  BY <1>6 DEF LogOperator
<1>7. \A s \in Sessions : ~ClearLogs(s) /\ ~ClearBuffer(s)
  BY CompleteBefore
<1> QED
  BY <1>1, <1>4, <1>5, <1>6, <1>7, SessionKinds DEF QuietStep

(* What a step of a session does to the status on the page.                 *)
LEMMA PageStatus ==
  ASSUME Typed, [Next]_vars, NEW s \in Sessions,
         spc'[s] \in {"readSeries", "update", "operatorEvent", "readEvents"}
  PROVE  \/ view'[s].status = solar_array_status
         \/ /\ spc[s] \in {"readSeries", "update", "operatorEvent", "readEvents"}
            /\ view'[s].status = view[s].status
<1> USE DEF dataVars, statusVars, sessionVars, boundVars
<1>t. TypeOK /\ view \in [Sessions -> Views]
  BY DEF Typed, TypeOK, Views
<1>1. CASE view'[s] = view[s] /\ spc'[s] = spc[s]
  BY <1>1
<1>2. CASE Listen \/ UNCHANGED vars
  BY <1>1, <1>2 DEF Listen, Store, Process, ProcessBegin, AppendHistory, SetLast, SetStatus, LogCritical, LogEvs,
                    SetEvsStatus, vars
<1>3. ASSUME NEW u \in Sessions, Session(u), u # s PROVE view'[s] = view[s] /\ spc'[s] = spc[s]
  BY <1>3, <1>t DEF Session, RenderRadiation, RenderStatus, RenderSeries, UpdateStatus, LogOperator, RenderEvents,
                    RenderRaw, RenderList, ClearLogs, ClearBuffer, Rerun, Leaves, Goes, TypeOK
<1>4. CASE RenderStatus(s)
  BY <1>4, <1>t DEF RenderStatus, Views
<1>5. CASE RenderSeries(s)
  BY <1>5, <1>t DEF RenderSeries, Views
<1>6. CASE UpdateStatus(s) \/ LogOperator(s)
  BY <1>6 DEF UpdateStatus, LogOperator
<1>7. CASE RenderRadiation(s) \/ RenderEvents(s) \/ RenderRaw(s) \/ RenderList(s) \/ ClearLogs(s)
           \/ ClearBuffer(s) \/ Rerun(s)
  BY <1>7, <1>t, SessionGoes DEF RenderRadiation, RenderEvents, RenderRaw, RenderList, ClearLogs, ClearBuffer, Rerun,
                                 Leaves, SPCs
<1> QED
  BY <1>1, <1>2, <1>3, <1>4, <1>5, <1>6, <1>7 DEF Next, Session

(* The log a page shows is whole as long as it fits the page.               *)
LEMMA PageLog ==
  ASSUME Typed, Len(event_log) = events, events <= EventsShown
  PROVE  \A st : Mentions(event_log, st) => Mentions(LastOf(event_log, EventsShown), st)
<1> DEFINE shown == LastOf(event_log, EventsShown)
<1>1. event_log \in Seq(Lines) /\ EventsShown \in Nat \ {0}
  BY ShownAssumption DEF Typed, TypeOK
<1>2. Ending(event_log, EventsShown, shown)
  BY <1>1, LastOfFacts
<1> HIDE DEF shown
<1>3. PICK d \in 0..Len(event_log) :
        /\ d = IF Len(event_log) <= EventsShown THEN 0 ELSE Len(event_log) - EventsShown
        /\ DOMAIN shown = 1..(Len(event_log) - d)
        /\ \A i \in 1..(Len(event_log) - d) : shown[i] = event_log[i + d]
  BY <1>2 DEF Ending
<1>4. Len(event_log) \in Nat /\ DOMAIN event_log = 1..Len(event_log) /\ d = 0
  BY <1>1, <1>3, LenProperties
<1>5. DOMAIN shown = DOMAIN event_log /\ \A i \in DOMAIN event_log : shown[i] = event_log[i]
  BY <1>3, <1>4
<1> QED
  BY <1>5 DEF Mentions, shown

LEMMA NextStatusKnown == Typed /\ WritersExplain /\ StatusKnown /\ [Next]_vars => StatusKnown'
<1> SUFFICES ASSUME Typed, WritersExplain, StatusKnown, [Next]_vars PROVE StatusKnown'
  OBVIOUS
<1> USE DEF dataVars, statusVars, sessionVars, boundVars
<1>t. TypeOK /\ HandsOK /\ view \in [Sessions -> Views]
  BY DEF Typed, TypeOK, Views
<1>1. ASSUME Complete' PROVE Known(solar_array_status)'
  <2>1. Complete /\ Known(solar_array_status)
    BY <1>1, CompleteBefore DEF StatusKnown
  <2> QED
    BY <1>1, <2>1, SetIsKnown DEF Known
<1>2. ASSUME Complete', NEW s \in Sessions, spc'[s] \in {"readSeries", "update", "operatorEvent", "readEvents"}
      PROVE  Known(view[s].status)'
  <2>1. Complete
    BY <1>2, CompleteBefore
  <2>2. Known(view'[s].status)
    BY <1>2, <2>1, PageStatus DEF StatusKnown
  <2> QED
    BY <1>2, <2>2, KnownStays DEF Known
<1>3. ASSUME NEW s \in Sessions, spc'[s] = "readRaw", NeverCleared', events' <= EventsShown,
             view'[s].status # "Unknown"
      PROVE  Mentions(view'[s].events, view'[s].status)
  <2>1. NeverCleared /\ (\A u \in Sessions : ~ClearLogs(u) /\ ~ClearBuffer(u))
    BY <1>3, NeverClearedBefore
  <2>2. events \in Nat /\ events <= EventsShown
    BY <1>3, EventsGrow, ShownAssumption
  <2>3. CASE RenderEvents(s)
    <3>1. owner = Free /\ spc[s] = "readEvents"
      BY <2>3 DEF RenderEvents, LockFree
    <3>2. Promises = {}
      BY <1>t, <3>1, SessionsAssumption DEF HandsOK, Promises, Locked, Free, Listener
    <3>3. Complete
      BY <2>1, <2>2, ShownFitAssumption, ShownAssumption, MaxEventsAssumption DEF Complete
    <3>4. view'[s].status = view[s].status /\ view'[s].events = LastOf(event_log, EventsShown)
      BY <2>3, <1>t DEF RenderEvents, NoView
    <3>5. Mentions(event_log, view[s].status)
      BY <1>3, <3>1, <3>2, <3>3, <3>4 DEF StatusKnown, Known
    <3>6. Len(event_log) = events
      BY <3>3 DEF WritersExplain
    <3> QED
      BY <2>2, <3>4, <3>5, <3>6, PageLog
  <2>4. CASE ~RenderEvents(s)
    <3>1. spc[s] = "readRaw" /\ view'[s] = view[s]
      <4>1. CASE Listen \/ UNCHANGED vars
        BY <1>3, <4>1 DEF Listen, Store, Process, ProcessBegin, AppendHistory, SetLast, SetStatus, LogCritical,
                          LogEvs, SetEvsStatus, vars
      <4>2. ASSUME NEW u \in Sessions, Session(u), u # s PROVE view'[s] = view[s] /\ spc'[s] = spc[s]
        BY <4>2, <1>t DEF Session, RenderRadiation, RenderStatus, RenderSeries, UpdateStatus, LogOperator,
                          RenderEvents, RenderRaw, RenderList, ClearLogs, ClearBuffer, Rerun, Leaves, Goes, TypeOK
      <4>3. ~Session(s)
        BY <1>3, <1>t, <2>4, SessionGoes
           DEF Session, RenderRadiation, RenderStatus, RenderSeries, UpdateStatus, LogOperator, RenderRaw, RenderList,
               ClearLogs, ClearBuffer, Rerun, Leaves, SPCs
      <4> QED
        BY <1>3, <4>1, <4>2, <4>3 DEF Next
    <3> QED
      BY <1>3, <2>1, <2>2, <3>1 DEF StatusKnown, ShownStatusIsLogged, Mentions
  <2> QED
    BY <2>3, <2>4
<1> QED
  BY <1>1, <1>2, <1>3 DEF StatusKnown, ShownStatusIsLogged, Mentions

LEMMA InitStatus == Init => WritersExplain /\ StatusKnown
<1> SUFFICES ASSUME Init PROVE WritersExplain /\ StatusKnown
  OBVIOUS
<1>1. event_log = <<>> /\ DOMAIN event_log = {} /\ Len(event_log) = 0
  BY EmptySeq DEF Init
<1>2. Explains(event_log, "Unknown")
  BY <1>1 DEF Explains, SolarOf
<1>3. WritersExplain
  BY <1>1, <1>2 DEF Init, WritersExplain
<1>4. StatusKnown
  BY DEF Init, StatusKnown, ShownStatusIsLogged, Known
<1> QED
  BY <1>3, <1>4

LEMMA StatusInvariant == Spec => [](Typed /\ WritersExplain /\ StatusKnown)
<1>1. Init => Typed /\ WritersExplain /\ StatusKnown
  BY InitTyped, InitStatus
<1>2. Typed /\ WritersExplain /\ StatusKnown /\ [Next]_vars => (Typed /\ WritersExplain /\ StatusKnown)'
  BY NextTyped, NextWritersExplain, NextStatusKnown
<1> QED
  BY <1>1, <1>2, PTL DEF Spec

(* However the listener and the sessions interleave, the panels' status is  *)
(* what the newest line about them says whenever nobody holds the lock.     *)
THEOREM StatusIsExplained == Spec => []StatusExplained
<1>1. WritersExplain => StatusExplained
  BY DEF WritersExplain, StatusExplained, Complete, Explains, SolarOf, SolarLines
<1> QED
  BY <1>1, StatusInvariant, PTL

(* The status at the top of a page, read without the lock, is in the log    *)
(* the same page reads later.                                               *)
THEOREM PageExplainsStatus == Spec => []ShownStatusIsLogged
<1>1. StatusKnown => ShownStatusIsLogged
  BY DEF StatusKnown
<1> QED
  BY <1>1, StatusInvariant, PTL

-----------------------------------------------------------------------------
(* The radiation series and the last point.                                 *)
LEMMA NextSeriesOrdered == Typed /\ SeriesOrdered /\ [Next]_vars => SeriesOrdered'
<1> SUFFICES ASSUME Typed, SeriesOrdered, [Next]_vars PROVE SeriesOrdered'
  OBVIOUS
<1> USE DEF dataVars, statusVars, sessionVars, boundVars
<1>t. TypeOK /\ HandsOK
  BY DEF Typed
<1>n. arrived \in Nat /\ \A i \in DOMAIN radiation_history : radiation_history[i].id \in Nat /\ i \in Nat
  <2>1. radiation_history \in Seq(Points)
    BY <1>t DEF TypeOK
  <2>2. \A p \in Points : p.id \in Nat
    BY MaxEntriesAssumption DEF Points
  <2>3. arrived \in Nat
    BY <1>t, MaxEntriesAssumption DEF TypeOK
  <2> QED
    BY <2>1, <2>2, <2>3, LenProperties, ElementOfSeq
<1>1. CASE Store
  BY <1>1, <1>n DEF Store, SeriesOrdered
<1>2. CASE ProcessBegin
  BY <1>2 DEF ProcessBegin, SeriesOrdered
<1>3. CASE AppendHistory
  <2>1. CASE UNCHANGED radiation_history
    BY <1>3, <2>1 DEF AppendHistory, SeriesOrdered
  <2>2. CASE radiation_history' = Push(radiation_history, Point, MaxPoints)
    <3>1. Point \in Points /\ Point.id = arrived
      BY <1>3, <1>t, EntryTypes DEF AppendHistory, HandsOK
    <3>2. radiation_history \in Seq(Points) /\ Len(radiation_history) <= MaxPoints
      BY <1>t DEF TypeOK
    <3>3. PICK d \in {0, 1} :
            /\ DOMAIN radiation_history' = 1..(Len(radiation_history) + 1 - d)
            /\ \A i \in 1..(Len(radiation_history) - d) :
                 i + d \in DOMAIN radiation_history /\ radiation_history'[i] = radiation_history[i + d]
            /\ radiation_history'[Len(radiation_history) + 1 - d] = Point
      <4>1. Pushed(radiation_history, Point, MaxPoints, radiation_history')
        BY <2>2, <3>1, <3>2, MaxPointsAssumption, PushFacts
      <4> QED
        BY <4>1 DEF Pushed
    <3>4. PICK n \in Nat : n = Len(radiation_history)
      BY <3>2, LenProperties
    <3>5. \A i \in DOMAIN radiation_history' :
            \/ i \in 1..(n - d) /\ i + d \in DOMAIN radiation_history /\ radiation_history'[i] = radiation_history[i + d]
            \/ i = n + 1 - d /\ radiation_history'[i].id = arrived
      <4>1. \A i \in 1..(n + 1 - d) : i \in 1..(n - d) \/ i = n + 1 - d
        BY <3>4
      <4>2. /\ DOMAIN radiation_history' = 1..(n + 1 - d)
            /\ \A i \in 1..(n - d) :
                 i + d \in DOMAIN radiation_history /\ radiation_history'[i] = radiation_history[i + d]
            /\ radiation_history'[n + 1 - d] = Point
        BY <3>3, <3>4
      <4> QED
        BY <3>1, <4>1, <4>2
    <3>6. pc = "history" /\ pc' = "last" /\ arrived' = arrived
      BY <1>3 DEF AppendHistory
    <3>7. \A i \in DOMAIN radiation_history : radiation_history[i].id < arrived
      BY <3>6 DEF SeriesOrdered
    <3>8. \A i \in DOMAIN radiation_history' : radiation_history'[i].id <= arrived
      BY <1>n, <3>5, <3>7
    <3>9. ASSUME NEW i \in DOMAIN radiation_history', NEW j \in DOMAIN radiation_history', i < j
          PROVE  radiation_history'[i].id < radiation_history'[j].id
      <4>0. i \in Int /\ j \in Int /\ d \in Int /\ j <= n + 1 - d
        BY <3>3, <3>4
      <4>1. i \in 1..(n - d) /\ i + d \in DOMAIN radiation_history /\ radiation_history'[i] = radiation_history[i + d]
        BY <3>5, <3>9, <4>0
      <4>2. CASE j = n + 1 - d /\ radiation_history'[j].id = arrived
        BY <3>7, <4>1, <4>2
      <4>3. CASE j + d \in DOMAIN radiation_history /\ radiation_history'[j] = radiation_history[j + d]
        <5>1. i + d < j + d
          BY <3>9, <4>0
        <5> QED
          BY <4>1, <4>3, <5>1 DEF SeriesOrdered
      <4> QED
        BY <3>5, <4>2, <4>3
    <3> QED
      BY <3>6, <3>8, <3>9 DEF SeriesOrdered
  <2> QED
    BY <1>3, <2>1, <2>2 DEF AppendHistory
<1>4. CASE SetLast \/ SetStatus \/ LogCritical \/ LogEvs \/ SetEvsStatus
  <2>1. UNCHANGED <<radiation_history, arrived>> /\ pc' \notin {"process", "history"}
    BY <1>4 DEF SetLast, SetStatus, LogCritical, LogEvs, SetEvsStatus, Return
  <2> QED
    BY <2>1 DEF SeriesOrdered
<1>5. ASSUME NEW s \in Sessions, Session(s) PROVE SeriesOrdered'
  <2>1. CASE ClearLogs(s)
    <3>1. DOMAIN radiation_history' = {}
      BY <2>1, EmptySeq DEF ClearLogs
    <3> QED
      BY <3>1 DEF SeriesOrdered
  <2>2. CASE ~ClearLogs(s)
    <3>1. UNCHANGED <<radiation_history, pc, arrived>>
      BY <1>5, <2>2 DEF Session, RenderRadiation, RenderStatus, RenderSeries, UpdateStatus, LogOperator,
                        RenderEvents, RenderRaw, RenderList, ClearBuffer, Rerun
    <3> QED
      BY <3>1 DEF SeriesOrdered
  <2> QED
    BY <2>1, <2>2
<1>6. CASE UNCHANGED vars
  BY <1>6 DEF vars, SeriesOrdered
<1> QED
  BY <1>1, <1>2, <1>3, <1>4, <1>5, <1>6 DEF Next, Listen, Process

(* A newer point leaves an older one in the series, or pushes it out before *)
(* all that are newer than it.                                              *)
LEMMA ChartedStays ==
  ASSUME NEW series \in Seq(Points), NEW x \in Points, NEW max, NEW new, Pushed(series, x, max, new),
         \A i \in DOMAIN series : series[i].id < x.id,
         \A i, j \in DOMAIN series : i < j => series[i].id < series[j].id,
         NEW p \in Points, Charted(p, series)
  PROVE  Charted(p, new)
<1> SUFFICES ASSUME p # NoPoint
             PROVE  new # <<>> /\ (p.id >= new[1].id => \E i \in DOMAIN new : new[i] = p)
  BY DEF Charted
<1>1. series # <<>> /\ (p.id >= series[1].id => \E i \in DOMAIN series : series[i] = p)
  BY DEF Charted
<1>2. PICK n \in Nat \ {0} : n = Len(series) /\ DOMAIN series = 1..n
  BY <1>1, LenProperties, EmptySeq
<1>3. PICK d \in {0, 1} :
        /\ Len(new) = n + 1 - d /\ DOMAIN new = 1..(n + 1 - d)
        /\ \A i \in 1..(n - d) : new[i] = series[i + d]
        /\ new[n + 1 - d] = x
  BY <1>2 DEF Pushed
<1>4. /\ x.id \in Nat /\ p.id \in Nat
      /\ \A i \in DOMAIN series : series[i] \in Points /\ series[i].id \in Nat
  <2>1. \A q \in Points : q.id \in Nat
    BY MaxEntriesAssumption DEF Points
  <2> QED
    BY <2>1, ElementOfSeq, LenProperties
<1>5. new # <<>>
  BY <1>2, <1>3, EmptySeq
<1>6. ASSUME p.id >= new[1].id PROVE \E i \in DOMAIN new : new[i] = p
  <2>1. CASE d = 0
    <3>1. new[1] = series[1]
      BY <1>2, <1>3, <2>1
    <3>2. PICK i \in DOMAIN series : series[i] = p
      BY <1>1, <1>6, <3>1
    <3>3. i \in DOMAIN new /\ new[i] = p
      BY <1>2, <1>3, <2>1, <3>2
    <3> QED
      BY <3>3
  <2>2. CASE d = 1
    <3>1. series[1].id < new[1].id /\ new[1].id \in Nat
      <4>1. CASE n = 1
        BY <1>2, <1>3, <1>4, <2>2, <4>1
      <4>2. CASE n # 1
        <5>1. 1 \in 1..(n - 1) /\ 1 \in DOMAIN series /\ 2 \in DOMAIN series
          BY <1>2, <4>2
        <5>2. new[1] = series[2]
          BY <1>3, <2>2, <5>1
        <5> QED
          BY <1>4, <5>1, <5>2
      <4> QED
        BY <4>1, <4>2
    <3>2. series[1].id < p.id /\ series[1].id \in Nat
      BY <1>2, <1>4, <1>6, <3>1
    <3>3. PICK i \in DOMAIN series : series[i] = p
      BY <1>1, <1>4, <3>2
    <3>4. i # 1 /\ i \in 1..n
      BY <1>2, <1>4, <3>2, <3>3
    <3>5. i - 1 \in 1..(n - 1) /\ i - 1 \in DOMAIN new /\ (i - 1) + 1 = i
      BY <1>2, <1>3, <2>2, <3>4
    <3>6. new[i - 1] = p
      BY <1>3, <2>2, <3>3, <3>5
    <3> QED
      BY <3>5, <3>6
  <2> QED
    BY <2>1, <2>2
<1> QED
  BY <1>5, <1>6

(* What a step does to the radiation and the series of a page.              *)
Charting == {"update", "operatorEvent", "readEvents"}

LEMMA PagePoint ==
  ASSUME Typed, [Next]_vars, NEW s \in Sessions, spc'[s] \in {"readStatus", "readSeries"} \union Charting
  PROVE  \/ spc'[s] \notin Charting /\ view'[s].radiation = last_radiation
         \/ /\ spc'[s] \notin Charting /\ spc[s] \in {"readStatus", "readSeries"}
            /\ view'[s].radiation = view[s].radiation
         \/ /\ spc'[s] \in Charting /\ spc[s] = "readSeries"
            /\ view'[s].radiation = view[s].radiation /\ view'[s].series = radiation_history
         \/ spc'[s] \in Charting /\ spc[s] \in Charting /\ view'[s] = view[s]
<1> USE DEF dataVars, statusVars, sessionVars, boundVars, Charting
<1>t. TypeOK /\ view \in [Sessions -> Views]
  BY DEF Typed, TypeOK, Views
<1>1. CASE view'[s] = view[s] /\ spc'[s] = spc[s]
  BY <1>1
<1>2. CASE Listen \/ UNCHANGED vars
  BY <1>1, <1>2 DEF Listen, Store, Process, ProcessBegin, AppendHistory, SetLast, SetStatus, LogCritical, LogEvs,
                    SetEvsStatus, vars
<1>3. ASSUME NEW u \in Sessions, Session(u), u # s PROVE view'[s] = view[s] /\ spc'[s] = spc[s]
  BY <1>3, <1>t DEF Session, RenderRadiation, RenderStatus, RenderSeries, UpdateStatus, LogOperator, RenderEvents,
                    RenderRaw, RenderList, ClearLogs, ClearBuffer, Rerun, Leaves, Goes, TypeOK
<1>4. CASE RenderRadiation(s)
  BY <1>4, <1>t, SessionGoes DEF RenderRadiation, Views, SPCs
<1>5. CASE RenderStatus(s)
  BY <1>5, <1>t, SessionGoes DEF RenderStatus, Views, SPCs
<1>6. CASE RenderSeries(s)
  BY <1>6, <1>t, SessionGoes DEF RenderSeries, Views, SPCs
<1>7. CASE UpdateStatus(s) \/ LogOperator(s)
  BY <1>7, <1>t, SessionGoes DEF UpdateStatus, LogOperator, SPCs
<1>8. CASE RenderEvents(s) \/ RenderRaw(s) \/ RenderList(s) \/ ClearLogs(s) \/ ClearBuffer(s) \/ Rerun(s)
  BY <1>8, <1>t, SessionGoes DEF RenderEvents, RenderRaw, RenderList, ClearLogs, ClearBuffer, Rerun, Leaves, SPCs
<1> QED
  BY <1>1, <1>2, <1>3, <1>4, <1>5, <1>6, <1>7, <1>8 DEF Next, Session

LEMMA NextPointsCharted == Typed /\ SeriesOrdered /\ PointsCharted /\ [Next]_vars => PointsCharted'
<1> SUFFICES ASSUME Typed, SeriesOrdered, PointsCharted, [Next]_vars, NeverCleared'
             PROVE  /\ Charted(last_radiation', radiation_history')
                    /\ pc' = "last" /\ entry'.type = "radiation" =>
                         \E i \in DOMAIN radiation_history' :
                           radiation_history'[i] = [id |-> entry'.id, health |-> entry'.health]
                    /\ \A s \in Sessions : spc'[s] \in {"readStatus", "readSeries"} =>
                         Charted(view'[s].radiation, radiation_history')
                    /\ \A s \in Sessions : spc'[s] \in Charting =>
                         Charted(view'[s].radiation, view'[s].series)
  BY DEF PointsCharted, Point, Charting
<1> USE DEF dataVars, statusVars, sessionVars, boundVars
<1>t. TypeOK /\ HandsOK
  BY DEF Typed
<1>c. NeverCleared /\ \A s \in Sessions : ~ClearLogs(s) /\ ~ClearBuffer(s)
  BY NeverClearedBefore
<1>i. /\ Charted(last_radiation, radiation_history)
      /\ pc = "last" /\ entry.type = "radiation" =>
           \E i \in DOMAIN radiation_history : radiation_history[i] = Point
      /\ \A s \in Sessions : spc[s] \in {"readStatus", "readSeries"} =>
           Charted(view[s].radiation, radiation_history)
      /\ \A s \in Sessions : spc[s] \in Charting => Charted(view[s].radiation, view[s].series)
  BY <1>c DEF PointsCharted, Charting
<1>v. /\ last_radiation \in Points /\ \A s \in Sessions : view[s].radiation \in Points
      /\ radiation_history \in Seq(Points) /\ Len(radiation_history) <= MaxPoints
  BY <1>t DEF TypeOK
(* What the step does to the series.                                        *)
<1>1. \/ UNCHANGED radiation_history
      \/ /\ pc = "history" /\ pc' = "last" /\ entry.type = "radiation"
         /\ UNCHANGED <<entry, last_radiation>>
         /\ Pushed(radiation_history, Point, MaxPoints, radiation_history')
  <2>1. CASE AppendHistory
    <3>1. Point \in Points
      BY <2>1, EntryTypes DEF AppendHistory
    <3> QED
      BY <2>1, <3>1, <1>v, MaxPointsAssumption, PushFacts DEF AppendHistory
  <2>2. CASE Listen /\ ~AppendHistory
    BY <2>2 DEF Listen, Process, Store, ProcessBegin, SetLast, SetStatus, LogCritical, LogEvs, SetEvsStatus
  <2>3. ASSUME NEW s \in Sessions, Session(s) PROVE UNCHANGED radiation_history
    BY <1>c, <2>3 DEF Session, RenderRadiation, RenderStatus, RenderSeries, UpdateStatus, LogOperator,
                      RenderEvents, RenderRaw, RenderList, Rerun
  <2>4. UNCHANGED vars => UNCHANGED radiation_history
    BY DEF vars
  <2> QED
    BY <2>1, <2>2, <2>3, <2>4 DEF Next
<1>2. ASSUME NEW p \in Points, Charted(p, radiation_history) PROVE Charted(p, radiation_history')
  <2>1. CASE UNCHANGED radiation_history
    BY <1>2, <2>1
  <2>2. CASE pc = "history" /\ Pushed(radiation_history, Point, MaxPoints, radiation_history')
    <3>1. Point \in Points /\ Point.id = arrived
      BY <2>2, <1>t, EntryTypes DEF HandsOK
    <3>2. /\ \A i \in DOMAIN radiation_history : radiation_history[i].id < Point.id
          /\ \A i, j \in DOMAIN radiation_history : i < j => radiation_history[i].id < radiation_history[j].id
      BY <2>2, <3>1 DEF SeriesOrdered
    <3> QED
      BY <1>2, <1>v, <2>2, <3>1, <3>2, ChartedStays
  <2> QED
    BY <1>1, <2>1, <2>2
<1>3. Charted(last_radiation', radiation_history')
  <2>1. CASE last_radiation' = last_radiation
    BY <1>i, <1>v, <1>2, <2>1
  <2>2. CASE SetLast /\ entry.type = "radiation"
    <3>1. last_radiation' = Point /\ radiation_history' = radiation_history /\ pc = "last"
      BY <2>2 DEF SetLast
    <3>2. PICK i \in DOMAIN radiation_history : radiation_history[i] = Point
      BY <1>i, <2>2, <3>1
    <3>3. radiation_history # <<>>
      BY <3>2, EmptySeq
    <3> QED
      BY <3>1, <3>2, <3>3 DEF Charted
  <2>3. last_radiation' = last_radiation \/ (SetLast /\ entry.type = "radiation")
    <3>1. CASE Listen
      BY <3>1 DEF Listen, Process, Store, ProcessBegin, AppendHistory, SetLast, SetStatus, LogCritical, LogEvs,
                  SetEvsStatus
    <3>2. ASSUME NEW s \in Sessions, Session(s) PROVE last_radiation' = last_radiation
      BY <1>c, <3>2 DEF Session, RenderRadiation, RenderStatus, RenderSeries, UpdateStatus, LogOperator,
                        RenderEvents, RenderRaw, RenderList, Rerun
    <3>3. UNCHANGED vars => last_radiation' = last_radiation
      BY DEF vars
    <3> QED
      BY <3>1, <3>2, <3>3 DEF Next
  <2> QED
    BY <2>1, <2>2, <2>3
<1>4. ASSUME pc' = "last", entry'.type = "radiation"
      PROVE  \E i \in DOMAIN radiation_history' :
               radiation_history'[i] = [id |-> entry'.id, health |-> entry'.health]
  <2>1. CASE AppendHistory
    <3>1. Pushed(radiation_history, Point, MaxPoints, radiation_history') /\ entry' = entry
      <4>1. UNCHANGED entry /\ entry.type = "radiation" /\ Point \in Points
        BY <1>4, <2>1, EntryTypes DEF AppendHistory
      <4>2. radiation_history' = Push(radiation_history, Point, MaxPoints)
        BY <2>1, <4>1 DEF AppendHistory
      <4> QED
        BY <1>v, <4>1, <4>2, MaxPointsAssumption, PushFacts
    <3>2. PICK d \in {0, 1} : /\ DOMAIN radiation_history' = 1..(Len(radiation_history) + 1 - d)
                              /\ radiation_history'[Len(radiation_history) + 1 - d] = Point
                              /\ d = 0 <=> Len(radiation_history) < MaxPoints
      BY <3>1 DEF Pushed
    <3>3. PICK n \in Nat : n = Len(radiation_history)
      BY <1>v, LenProperties
    <3>4. n + 1 - d \in 1..(n + 1 - d)
      BY <3>2, <3>3, MaxPointsAssumption
    <3>5. n + 1 - d \in DOMAIN radiation_history' /\ radiation_history'[n + 1 - d] = Point
      BY <3>2, <3>3, <3>4
    <3> QED
      BY <3>1, <3>5 DEF Point
  <2>2. CASE ~AppendHistory
    <3>1. pc = "last" /\ entry' = entry
      <4>1. ~Listen
        BY <1>4, <2>2 DEF Listen, Process, Store, ProcessBegin, SetLast, SetStatus, LogCritical, LogEvs,
                          SetEvsStatus, Return
      <4>2. ASSUME NEW s \in Sessions, Session(s) PROVE UNCHANGED <<pc, entry>>
        BY <1>c, <4>2 DEF Session, RenderRadiation, RenderStatus, RenderSeries, UpdateStatus, LogOperator,
                          RenderEvents, RenderRaw, RenderList, Rerun
      <4>3. UNCHANGED vars => UNCHANGED <<pc, entry>>
        BY DEF vars
      <4> QED
        BY <1>4, <4>1, <4>2, <4>3 DEF Next
    <3>2. radiation_history' = radiation_history
      BY <1>1, <3>1
    <3> QED
      BY <1>4, <1>i, <3>1, <3>2 DEF Point
  <2> QED
    BY <2>1, <2>2
<1>5. ASSUME NEW s \in Sessions, spc'[s] \in {"readStatus", "readSeries"}
      PROVE  Charted(view'[s].radiation, radiation_history')
  BY <1>5, <1>i, <1>v, <1>2, PagePoint DEF Charting
<1>6. ASSUME NEW s \in Sessions, spc'[s] \in Charting
      PROVE  Charted(view'[s].radiation, view'[s].series)
  BY <1>6, <1>i, PagePoint
<1> QED
  BY <1>3, <1>4, <1>5, <1>6

LEMMA PointsInvariant == Spec => [](Typed /\ SeriesOrdered /\ PointsCharted)
<1>1. Init => Typed /\ SeriesOrdered /\ PointsCharted
  <2> SUFFICES ASSUME Init PROVE SeriesOrdered /\ PointsCharted
    BY InitTyped
  <2>1. DOMAIN radiation_history = {}
    BY EmptySeq DEF Init
  <2> QED
    BY <2>1 DEF Init, SeriesOrdered, PointsCharted, Charted
<1>2. Typed /\ SeriesOrdered /\ PointsCharted /\ [Next]_vars => (Typed /\ SeriesOrdered /\ PointsCharted)'
  BY NextTyped, NextSeriesOrdered, NextPointsCharted
<1> QED
  BY <1>1, <1>2, PTL DEF Spec

(* The radiation value at the top of a page is in the chart the page reads  *)
(* later, or older than all of it.                                          *)
THEOREM PageChartsPoint == Spec => []ShownPointIsCharted
<1>1. PointsCharted => ShownPointIsCharted
  BY DEF PointsCharted, ShownPointIsCharted, Charted
<1> QED
  BY <1>1, PointsInvariant, PTL

-----------------------------------------------------------------------------
(* The raw log and the packet list.                                         *)
LEMMA StoreKeeps ==
  ASSUME Typed, Consecutive, Store
  PROVE  Consecutive' /\ arrived' \in Kept' /\ Kept \subseteq Kept'
<1>t. TypeOK
  BY DEF Typed
<1>1. arrived \in Nat /\ arrived' = arrived + 1 /\ arrived' \in 1..MaxEntries /\ torn' = torn
  BY <1>t, MaxEntriesAssumption DEF Store, TypeOK
<1>2. buffer \in Seq(1..MaxEntries) /\ Len(buffer) <= BufferSize
  BY <1>t DEF TypeOK
<1>3. Pushed(buffer, arrived', BufferSize, buffer')
  BY <1>1, <1>2, BufferSizeAssumption, PushFacts DEF Store
<1>4. PICK n \in Nat : n = Len(buffer) /\ DOMAIN buffer = 1..n
  BY <1>2, LenProperties
<1>5. PICK d \in {0, 1} :
        /\ d = 0 <=> n < BufferSize
        /\ Len(buffer') = n + 1 - d /\ DOMAIN buffer' = 1..(n + 1 - d)
        /\ \A i \in 1..(n - d) : i + d \in DOMAIN buffer /\ buffer'[i] = buffer[i + d]
        /\ buffer'[n + 1 - d] = arrived'
  BY <1>3, <1>4 DEF Pushed
<1>6. n <= BufferSize /\ BufferSize \in Nat \ {0}
  BY <1>2, <1>4, BufferSizeAssumption
<1>7. n + 1 - d \in Nat \ {0} /\ n - d \in Nat
  BY <1>5, <1>6
<1>8. \A j \in 1..n : buffer[j] = arrived - n + j
  BY <1>4 DEF Consecutive
<1>9. ASSUME NEW j \in DOMAIN buffer' PROVE buffer'[j] = arrived' - Len(buffer') + j
  <2>1. CASE j \in 1..(n - d)
    <3>1. buffer'[j] = arrived - n + (j + d)
      BY <1>4, <1>5, <1>8, <2>1
    <3> QED
      BY <1>1, <1>5, <2>1, <3>1
  <2>2. CASE j = n + 1 - d
    BY <1>1, <1>5, <1>7, <2>2
  <2> QED
    BY <1>5, <1>7, <2>1, <2>2
<1>10. \E j \in DOMAIN buffer' : buffer'[j] = arrived'
  BY <1>5, <1>7
<1>11. ASSUME NEW x \in Kept PROVE x \in Kept'
  <2>1. CASE x \in torn
    BY <1>1, <2>1 DEF Kept
  <2>2. CASE Len(buffer) = BufferSize /\ x < buffer[1]
    <3>1. d = 1 /\ n >= 1 /\ Len(buffer') = BufferSize
      BY <1>4, <1>5, <1>6, <2>2
    <3>2. buffer'[1] = buffer[1] + 1 /\ buffer[1] \in Int
      <4>1. 1 \in 1..n /\ 1 \in DOMAIN buffer' /\ Len(buffer') = n
        BY <1>5, <3>1
      <4>2. buffer'[1] = arrived' - n + 1 /\ buffer[1] = arrived - n + 1
        BY <1>8, <1>9, <4>1
      <4> QED
        BY <1>1, <4>2
    <3>3. x \in Nat
      BY <1>11 DEF Kept
    <3>4. x < buffer'[1]
      BY <2>2, <3>2, <3>3
    <3> QED
      BY <3>1, <3>3, <3>4 DEF Kept
  <2>3. CASE \E j \in DOMAIN buffer : buffer[j] = x
    <3>1. PICK j \in 1..n : buffer[j] = x
      BY <1>4, <2>3
    <3>2. CASE j - d \in 1..(n - d)
      <4>1. j - d \in DOMAIN buffer' /\ buffer'[j - d] = x
        <5>1. (j - d) + d = j /\ j - d \in 1..(n + 1 - d)
          BY <1>7, <3>2
        <5> QED
          BY <1>5, <3>1, <3>2, <5>1
      <4> QED
        BY <4>1 DEF Kept
    <3>3. CASE ~(j - d \in 1..(n - d))
      <4>1. j = 1 /\ d = 1 /\ n >= 1
        BY <3>3
      <4>2. Len(buffer') = BufferSize
        BY <1>5, <1>6, <4>1
      <4>3. x < buffer'[1]
        BY <1>1, <1>4, <1>5, <1>7, <1>8, <1>9, <3>1, <4>1
      <4> QED
        BY <4>2, <4>3 DEF Kept
    <3> QED
      BY <3>2, <3>3
  <2> QED
    BY <1>11, <2>1, <2>2, <2>3 DEF Kept
<1>12. Consecutive'
  BY <1>9 DEF Consecutive
<1> QED
  BY <1>1, <1>10, <1>11, <1>12 DEF Kept

(* What is kept is in the packet list, or older than all of it.             *)
LEMMA KeptIsListed ==
  ASSUME Typed, Consecutive, NEW x \in Kept, NEW list, list = LastOf(buffer, ListShown)
  PROVE  \/ \E j \in DOMAIN list : list[j] = x
         \/ Len(list) = ListShown /\ x < list[1]
         \/ x \in torn
<1>1. /\ buffer \in Seq(1..MaxEntries) /\ Len(buffer) <= BufferSize /\ arrived \in Nat
      /\ ListShown \in Nat \ {0} /\ ListShown <= BufferSize /\ BufferSize \in Nat
  BY ShownAssumption, ShownFitAssumption, BufferSizeAssumption, MaxEntriesAssumption DEF Typed, TypeOK
<1>2. PICK n \in Nat : n = Len(buffer) /\ DOMAIN buffer = 1..n
  BY <1>1, LenProperties
<1>3. PICK d \in 0..n :
        /\ d = IF n <= ListShown THEN 0 ELSE n - ListShown
        /\ Len(list) = n - d /\ DOMAIN list = 1..(n - d)
        /\ \A i \in 1..(n - d) : list[i] = buffer[i + d]
  <2>1. Ending(buffer, ListShown, list)
    BY <1>1, LastOfFacts
  <2> QED
    BY <1>2, <2>1 DEF Ending
<1>4. DOMAIN list = 1..(n - d)
  BY <1>3
<1>5. (\A j \in 1..n : buffer[j] = arrived - n + j) /\ x \in Nat
  BY <1>2 DEF Consecutive, Kept
<1>6. CASE \E j \in DOMAIN buffer : buffer[j] = x
  <2>1. PICK j \in 1..n : buffer[j] = x
    BY <1>2, <1>6
  <2>2. CASE j > d
    <3>1. j - d \in 1..(n - d) /\ (j - d) + d = j
      BY <2>2
    <3> QED
      BY <1>3, <1>4, <2>1, <3>1
  <2>3. CASE ~(j > d)
    <3>1. d = n - ListShown /\ n > ListShown
      BY <1>1, <1>3, <2>3
    <3>2. 1 \in 1..(n - d) /\ 1 + d \in 1..n /\ n - d = ListShown
      BY <1>1, <3>1
    <3>3. list[1] = buffer[1 + d]
      BY <1>3, <3>2
    <3>4. x < list[1]
      BY <1>1, <1>5, <2>1, <2>3, <3>2, <3>3
    <3> QED
      BY <1>3, <3>2, <3>4
  <2> QED
    BY <2>2, <2>3
<1>7. CASE Len(buffer) = BufferSize /\ x < buffer[1]
  <2>1. n - d = ListShown /\ 1 \in 1..(n - d) /\ 1 + d \in 1..n /\ 1 \in 1..n
    BY <1>1, <1>2, <1>3, <1>7
  <2>2. list[1] = buffer[1 + d]
    BY <1>3, <2>1
  <2>3. buffer[1] <= buffer[1 + d] /\ buffer[1] \in Int /\ buffer[1 + d] \in Int
    BY <1>1, <1>5, <2>1
  <2>4. x < list[1]
    BY <1>5, <1>7, <2>2, <2>3
  <2> QED
    BY <1>3, <2>1, <2>4
<1> QED
  BY <1>6, <1>7 DEF Kept

(* Only Clear Logs takes packets away that are still kept.                  *)
LEMMA KeptStays ==
  ASSUME Typed, Consecutive, [Next]_vars
  PROVE  \/ Consecutive' /\ Kept \subseteq Kept' /\ clears' = clears
         \/ \E s \in Sessions : ClearBuffer(s)
<1> USE DEF dataVars, statusVars, sessionVars, boundVars
<1>1. CASE UNCHANGED <<buffer, arrived, torn, clears>>
  BY <1>1 DEF Consecutive, Kept
<1>2. CASE Store
  BY <1>2, StoreKeeps DEF Store
<1>3. CASE Listen /\ ~Store
  BY <1>1, <1>3 DEF Listen, Process, ProcessBegin, AppendHistory, SetLast, SetStatus, LogCritical, LogEvs, SetEvsStatus
<1>4. ASSUME NEW s \in Sessions, Session(s), ~ClearBuffer(s) PROVE UNCHANGED <<buffer, arrived, torn, clears>>
  BY <1>4 DEF Session, RenderRadiation, RenderStatus, RenderSeries, UpdateStatus, LogOperator,
              RenderEvents, RenderRaw, RenderList, ClearLogs, Rerun
<1>5. UNCHANGED vars => UNCHANGED <<buffer, arrived, torn, clears>>
  BY DEF vars
<1> QED
  BY <1>1, <1>2, <1>3, <1>4, <1>5 DEF Next

(* What a step does to the raw lines and the packet list of a page.         *)
LEMMA PageRaw ==
  ASSUME Typed, [Next]_vars, NEW s \in Sessions
  PROVE  /\ view'[s].clears \in {view[s].clears, clears, 0}
         /\ spc'[s] \in {"readList", "shown"} =>
              \/ /\ spc'[s] = "readList"
                 /\ view'[s].raw = LastOf(raw_log, RawShown) /\ view'[s].clears = clears
              \/ /\ spc'[s] = "shown" /\ spc[s] = "readList"
                 /\ view'[s].raw = view[s].raw /\ view'[s].clears = view[s].clears
                 /\ view'[s].list = LastOf(buffer, ListShown)
                 /\ \A u \in Sessions : ~ClearBuffer(u)
              \/ spc'[s] = spc[s] /\ view'[s] = view[s]
<1> USE DEF dataVars, statusVars, sessionVars, boundVars
<1>t. TypeOK /\ view \in [Sessions -> Views]
  BY DEF Typed, TypeOK, Views
<1>1. CASE view'[s] = view[s] /\ spc'[s] = spc[s]
  BY <1>1
<1>2. CASE Listen \/ UNCHANGED vars
  BY <1>1, <1>2 DEF Listen, Store, Process, ProcessBegin, AppendHistory, SetLast, SetStatus, LogCritical, LogEvs,
                    SetEvsStatus, vars
<1>3. ASSUME NEW u \in Sessions, Session(u), u # s PROVE view'[s] = view[s] /\ spc'[s] = spc[s]
  BY <1>3, <1>t DEF Session, RenderRadiation, RenderStatus, RenderSeries, UpdateStatus, LogOperator, RenderEvents,
                    RenderRaw, RenderList, ClearLogs, ClearBuffer, Rerun, Leaves, Goes, TypeOK
<1>4. CASE RenderRadiation(s)
  BY <1>4, <1>t, SessionGoes DEF RenderRadiation, Views, SPCs
<1>5. CASE RenderStatus(s)
  BY <1>5, <1>t, SessionGoes DEF RenderStatus, Views, SPCs
<1>6. CASE RenderSeries(s)
  BY <1>6, <1>t, SessionGoes DEF RenderSeries, Views, SPCs
<1>7. CASE UpdateStatus(s) \/ LogOperator(s) \/ ClearLogs(s)
  BY <1>7, <1>t, SessionGoes DEF UpdateStatus, LogOperator, ClearLogs, SPCs
<1>8. CASE RenderEvents(s)
  BY <1>8, <1>t, SessionGoes DEF RenderEvents, NoView, SPCs
<1>9. CASE RenderRaw(s)
  BY <1>9, <1>t, SessionGoes DEF RenderRaw, NoView, SPCs
<1>10. CASE RenderList(s)
  <2>1. spc[s] = "readList" /\ spc'[s] = "shown" /\ view'[s] = [view[s] EXCEPT !.list = LastOf(buffer, ListShown)]
    BY <1>10, <1>t, SessionGoes DEF RenderList, SPCs
  <2>2. /\ view'[s].raw = view[s].raw /\ view'[s].clears = view[s].clears
        /\ view'[s].list = LastOf(buffer, ListShown)
    BY <1>t, <2>1 DEF Views
  <2>3. \A u \in Sessions : ~ClearBuffer(u)
    <3>1. clears' = clears /\ clears \in Nat
      BY <1>10, <1>t, MaxPressesAssumption DEF RenderList, TypeOK
    <3> QED
      BY <3>1 DEF ClearBuffer
  <2> QED
    BY <2>1, <2>2, <2>3
<1>11. CASE ClearBuffer(s) \/ Rerun(s)
  BY <1>11, <1>t, SessionGoes DEF ClearBuffer, Rerun, Leaves, NoView, SPCs
<1> QED
  BY <1>1, <1>2, <1>3, <1>4, <1>5, <1>6, <1>7, <1>8, <1>9, <1>10, <1>11 DEF Next, Session

LEMMA NextBufferKept == Typed /\ BufferKept /\ [Next]_vars => BufferKept'
<1> SUFFICES ASSUME Typed, BufferKept, [Next]_vars PROVE BufferKept'
  OBVIOUS
<1> USE DEF dataVars, statusVars, sessionVars, boundVars
<1>t. TypeOK /\ HandsOK
  BY DEF Typed
<1>n. /\ clears \in Nat /\ raw_log \in Seq(1..MaxEntries) /\ DOMAIN raw_log = 1..Len(raw_log)
      /\ \A s \in Sessions : view[s].clears \in Nat
  BY <1>t, MaxPressesAssumption, LenProperties DEF TypeOK
<1>i. /\ Consecutive
      /\ pc = "process" => entry.id \in Kept
      /\ \A i \in DOMAIN raw_log : raw_log[i] \in Kept
      /\ \A s \in Sessions : spc[s] = "readList" /\ view[s].clears = clears =>
           \A i \in DOMAIN view[s].raw : view[s].raw[i] \in Kept
      /\ \A s \in Sessions : view[s].clears <= clears
      /\ ShownRawIsListed
  BY DEF BufferKept
<1>1. CASE \E s \in Sessions : ClearBuffer(s)
  <2>1. PICK s \in Sessions : ClearBuffer(s)
    BY <1>1
  <2>2. /\ clears' = clears + 1 /\ buffer' = <<>> /\ raw_log' = raw_log /\ pc' = pc /\ entry' = entry
        /\ torn' = torn \union {raw_log[i] : i \in DOMAIN raw_log}
                        \union (IF pc = "process" THEN {entry.id} ELSE {})
    BY <2>1 DEF ClearBuffer
  <2>3. Consecutive'
    BY <2>2, EmptySeq DEF Consecutive
  <2>4. \A i \in DOMAIN raw_log' : raw_log'[i] \in Kept'
    BY <1>i, <2>2 DEF Kept
  <2>5. pc' = "process" => entry'.id \in Kept'
    BY <1>i, <2>2 DEF Kept
  <2>6. \A u \in Sessions : view'[u].clears <= clears' /\ view'[u].clears # clears'
    BY <1>i, <1>n, <2>2, PageRaw
  <2> QED
    BY <2>3, <2>4, <2>5, <2>6 DEF BufferKept, ShownRawIsListed
<1>2. ASSUME ~ \E s \in Sessions : ClearBuffer(s) PROVE BufferKept'
  <2>1. Consecutive' /\ Kept \subseteq Kept' /\ clears' = clears
    BY <1>2, <1>i, KeptStays
  <2>2. pc' = "process" => entry'.id \in Kept'
    <3>1. CASE Store
      BY <3>1, <1>i, StoreKeeps DEF Store
    <3>2. CASE UNCHANGED <<pc, entry>>
      BY <3>2, <1>i, <2>1
    <3>3. CASE Listen /\ ~Store
      BY <3>3 DEF Listen, Process, ProcessBegin, AppendHistory, SetLast, SetStatus, LogCritical, LogEvs, SetEvsStatus,
                  Return
    <3>4. ASSUME NEW s \in Sessions, Session(s) PROVE UNCHANGED <<pc, entry>>
      BY <3>4 DEF Session, RenderRadiation, RenderStatus, RenderSeries, UpdateStatus, LogOperator,
                  RenderEvents, RenderRaw, RenderList, ClearLogs, ClearBuffer, Rerun
    <3>5. UNCHANGED vars => UNCHANGED <<pc, entry>>
      BY DEF vars
    <3> QED
      BY <3>1, <3>2, <3>3, <3>4, <3>5 DEF Next
  <2>3. \A i \in DOMAIN raw_log' : raw_log'[i] \in Kept'
    <3>1. CASE ProcessBegin
      <4>1. pc = "process" /\ raw_log' = Push(raw_log, entry.id, MaxRaw)
        BY <3>1 DEF ProcessBegin
      <4>2. entry.id \in 1..MaxEntries
        BY <4>1, EntryTypes
      <4>3. Pushed(raw_log, entry.id, MaxRaw, raw_log')
        BY <1>t, <4>1, <4>2, PushFacts, MaxRawAssumption DEF TypeOK
      <4>4. \A i \in DOMAIN raw_log' : raw_log'[i] = entry.id \/ \E j \in DOMAIN raw_log : raw_log'[i] = raw_log[j]
        <5>1. PICK n \in Nat : n = Len(raw_log)
          BY <1>n, LenProperties
        <5>2. PICK d \in {0, 1} :
                /\ DOMAIN raw_log' = 1..(n + 1 - d)
                /\ \A i \in 1..(n - d) : i + d \in DOMAIN raw_log /\ raw_log'[i] = raw_log[i + d]
                /\ raw_log'[n + 1 - d] = entry.id
          BY <4>3, <5>1 DEF Pushed
        <5>3. \A i \in 1..(n + 1 - d) : i \in 1..(n - d) \/ i = n + 1 - d
          OBVIOUS
        <5> QED
          BY <5>2, <5>3
      <4> QED
        BY <1>i, <2>1, <4>1, <4>4
    <3>2. CASE UNCHANGED raw_log
      BY <3>2, <1>i, <2>1
    <3>3. ASSUME NEW s \in Sessions, ClearLogs(s) PROVE DOMAIN raw_log' = {}
      BY <3>3, EmptySeq DEF ClearLogs
    <3>4. CASE Listen /\ ~ProcessBegin
      BY <3>2, <3>4 DEF Listen, Process, Store, AppendHistory, SetLast, SetStatus, LogCritical, LogEvs, SetEvsStatus
    <3>5. ASSUME NEW s \in Sessions, Session(s), ~ClearLogs(s) PROVE UNCHANGED raw_log
      BY <3>5 DEF Session, RenderRadiation, RenderStatus, RenderSeries, UpdateStatus, LogOperator,
                  RenderEvents, RenderRaw, RenderList, ClearBuffer, Rerun
    <3>6. UNCHANGED vars => UNCHANGED raw_log
      BY DEF vars
    <3> QED
      BY <3>1, <3>2, <3>3, <3>4, <3>5, <3>6 DEF Next
  <2>4. ASSUME NEW s \in Sessions, spc'[s] = "readList", view'[s].clears = clears', NEW i \in DOMAIN view'[s].raw
        PROVE  view'[s].raw[i] \in Kept'
    <3>1. CASE spc[s] = "readList" /\ view'[s] = view[s]
      BY <1>i, <2>1, <2>4, <3>1
    <3>2. CASE view'[s].raw = LastOf(raw_log, RawShown)
      <4>1. Ending(raw_log, RawShown, view'[s].raw)
        BY <1>n, <3>2, LastOfFacts, ShownAssumption
      <4>2. \A k \in DOMAIN view'[s].raw : \E j \in DOMAIN raw_log : view'[s].raw[k] = raw_log[j]
        BY <4>1 DEF Ending
      <4> QED
        BY <1>i, <2>1, <2>4, <4>2
    <3> QED
      BY <2>4, <3>1, <3>2, PageRaw
  <2>5. \A s \in Sessions : view'[s].clears <= clears'
    BY <1>i, <1>n, <2>1, PageRaw
  <2>6. ASSUME NEW s \in Sessions, spc'[s] = "shown", view'[s].clears = clears', NEW i \in DOMAIN view'[s].raw
        PROVE  \/ \E j \in DOMAIN view'[s].list : view'[s].list[j] = view'[s].raw[i]
               \/ Len(view'[s].list) = ListShown /\ view'[s].raw[i] < view'[s].list[1]
               \/ view'[s].raw[i] \in torn'
    <3>0. torn' = torn
      <4>1. ASSUME NEW u \in Sessions, Session(u) PROVE torn' = torn
        BY <1>2, <4>1 DEF Session, RenderRadiation, RenderStatus, RenderSeries, UpdateStatus, LogOperator,
                          RenderEvents, RenderRaw, RenderList, ClearLogs, Rerun
      <4>2. Listen => torn' = torn
        BY DEF Listen, Process, Store, ProcessBegin, AppendHistory, SetLast, SetStatus, LogCritical, LogEvs, SetEvsStatus
      <4>3. UNCHANGED vars => torn' = torn
        BY DEF vars
      <4> QED
        BY <4>1, <4>2, <4>3 DEF Next
    <3>1. CASE spc[s] = "shown" /\ view'[s] = view[s]
      BY <1>i, <2>1, <2>6, <3>0, <3>1 DEF ShownRawIsListed
    <3>2. CASE /\ spc[s] = "readList" /\ view'[s].raw = view[s].raw /\ view'[s].clears = view[s].clears
               /\ view'[s].list = LastOf(buffer, ListShown)
      <4>1. view'[s].raw[i] \in Kept
        BY <1>i, <2>1, <2>6, <3>2
      <4> QED
        BY <1>i, <3>0, <3>2, <4>1, KeptIsListed
    <3> QED
      BY <2>6, <3>1, <3>2, PageRaw
  <2> QED
    BY <2>1, <2>2, <2>3, <2>4, <2>5, <2>6 DEF BufferKept, ShownRawIsListed
<1> QED
  BY <1>1, <1>2

LEMMA BufferInvariant == Spec => [](Typed /\ BufferKept)
<1>1. Init => Typed /\ BufferKept
  <2> SUFFICES ASSUME Init PROVE BufferKept
    BY InitTyped
  <2>1. DOMAIN buffer = {} /\ DOMAIN raw_log = {}
    BY EmptySeq DEF Init
  <2> QED
    BY <2>1 DEF Init, BufferKept, Consecutive, NoView, ShownRawIsListed
<1>2. Typed /\ BufferKept /\ [Next]_vars => (Typed /\ BufferKept)'
  BY NextTyped, NextBufferKept
<1> QED
  BY <1>1, <1>2, PTL DEF Spec

(* The raw lines of a page are in the packet list the page reads later, or  *)
(* older than all of it, whatever arrives between the two and however often *)
(* the logs are cleared.                                                    *)
THEOREM PageListsRaw == Spec => []ShownRawIsListed
<1>1. BufferKept => ShownRawIsListed
  BY DEF BufferKept
<1> QED
  BY <1>1, BufferInvariant, PTL

=============================================================================
