-------------------------- MODULE TelemetryProcessor --------------------------
(***************************************************************************)
(* TelemetryProcessor of ground_station/telemetry/processor.py, with its   *)
(* users in ground_station/ground_app.py: the listener thread puts every   *)
(* packet in the receiver's buffer and then calls process(); a browser     *)
(* session runs the script of the page from top to bottom, with the button *)
(* that was pressed, if any, taking effect where it stands in the page.    *)
(*                                                                         *)
(* The processor's methods hold one lock; the page reads last_radiation    *)
(* and solar_array_status without it (ground_app.py:147 and 163), the      *)
(* series and the logs with it, and the receiver's buffer later still.     *)
(* Clear Logs empties the processor and then the buffer.  The statements   *)
(* that write an attribute somebody reads without the lock are steps of    *)
(* their own.                                                              *)
(***************************************************************************)
EXTENDS Integers, Sequences

CONSTANTS
  Sessions,    \* the browser sessions
  Kinds,       \* the packets that can arrive, records [type, health, text]
  MaxPoints,   \* max_points (200): points kept per time series
  MaxEvents,   \* maxlen of event_log (500)
  MaxRaw,      \* maxlen of raw_log (200)
  BufferSize,  \* buffer_size of the receiver (500)
  EventsShown, \* events, raw lines and packets
  RawShown,    \* a page shows
  ListShown,   \* (100, 100 and 200)
  MaxEntries,  \* bound: packets processed
  MaxPresses   \* bound: buttons pressed, over all sessions

ASSUME MaxPointsAssumption  == MaxPoints \in Nat \ {0}
ASSUME MaxEventsAssumption  == MaxEvents \in Nat \ {0}
ASSUME MaxRawAssumption     == MaxRaw \in Nat \ {0}
ASSUME BufferSizeAssumption == BufferSize \in Nat \ {0}
ASSUME ShownAssumption      == {EventsShown, RawShown, ListShown} \subseteq Nat \ {0}
ASSUME ShownFitAssumption   == EventsShown <= MaxEvents /\ ListShown <= BufferSize
ASSUME MaxEntriesAssumption == MaxEntries \in Nat
ASSUME MaxPressesAssumption == MaxPresses \in Nat

VARIABLES
  \* attributes of the processor
  radiation_history, thermal_history, event_log, raw_log,
  solar_array_status, last_radiation, last_thermal,
  owner,      \* who holds _lock
  buffer,     \* the receiver's _buffer
  \* the listener thread, and the packet it has in hand
  pc, entry,
  \* the sessions
  spc,        \* spc[s]: where session s is in the script
  button,     \* button[s]: the button that made it run the script
  view,       \* view[s]: what the page of session s shows, each part until the
              \* properties have compared it with a later one
  \* bounds and history
  arrived, presses,
  events,     \* events put in event_log
  clears,     \* how often the buffer was cleared
  torn        \* packets caught between the halves of a Clear Logs

dataVars    == <<radiation_history, thermal_history, event_log, raw_log>>
statusVars  == <<solar_array_status, last_radiation, last_thermal>>
sessionVars == <<spc, button, view>>
boundVars   == <<arrived, presses, events, clears, torn>>
vars        == <<dataVars, statusVars, owner, buffer, pc, entry, sessionVars, boundVars>>

Listener == "listener"
Free     == "free"
ASSUME SessionsAssumption == Listener \notin Sessions /\ Free \notin Sessions

NoPoint  == [id |-> 0, health |-> 0]
NoEntry  == [id |-> 0, type |-> "unknown", health |-> 0, text |-> "none"]
NoView   == [radiation |-> NoPoint, status |-> "Unknown", series |-> <<>>, events |-> <<>>,
             raw |-> <<>>, clears |-> 0, list |-> <<>>]

(* The states of the panels the program displays.                           *)
ClosedByFdir     == "Closed (FDIR Auto)"
ClosedByOperator == "Closed (Operator)"
OpenByOperator   == "Open (Operator Override)"
Statuses == {"Unknown", ClosedByFdir, ClosedByOperator, OpenByOperator, "Closed", "Open"}

SetsStatus == {OpenByOperator, ClosedByOperator}
Buttons    == SetsStatus \union {"Clear Logs", "none"}

(* Parsed packets: type as parser.py sets it ("unknown" when it set none),  *)
(* health of a sensor packet, and for an event message whether its text     *)
(* speaks of SOLAR and CLOSE, of SOLAR and OPEN, or of neither.             *)
Types   == {"radiation", "thermal", "evs", "unknown"}
Texts   == {"close", "open", "none"}
ASSUME KindsAssumption == Kinds \subseteq [type : Types, health : 0..2, text : Texts]

Points  == [id : 0..MaxEntries, health : 0..2]
Entries == [id : 0..MaxEntries, type : Types, health : 0..2, text : Texts]

(* Lines of the event log: who wrote it and the status it speaks of.        *)
Lines == [by : {"FDIR", "EVS", "OPERATOR"}, status : Statuses \union {"none"}]

(* Faulty variants: no bound, and a full deque that refuses new elements.   *)
PushUnbounded(seq, x, max) == Append(seq, x)
PushIfRoom(seq, x, max) == IF Len(seq) < max THEN Append(seq, x) ELSE seq

(* deque(maxlen=max).append                                                 *)
Push(seq, x, max) == IF Len(seq) < max THEN Append(seq, x) ELSE Append(Tail(seq), x)

(* Faulty variant: the oldest elements.                                     *)
FirstOf(seq, count) == SubSeq(seq, 1, IF count > Len(seq) THEN Len(seq) ELSE count)

(* items[-count:]                                                           *)
LastOf(seq, count) == SubSeq(seq, IF count > Len(seq) THEN 1 ELSE Len(seq) - count + 1, Len(seq))

(* Faulty variant: the processor does without its lock.                     *)
LockIgnored == TRUE

LockFree == owner = Free

Log(line) ==
  /\ event_log' = Push(event_log, line, MaxEvents)
  /\ events' = events + 1

-----------------------------------------------------------------------------
Init ==
  /\ radiation_history = <<>> /\ thermal_history = <<>>
  /\ event_log = <<>> /\ raw_log = <<>>
  /\ solar_array_status = "Unknown"
  /\ last_radiation = NoPoint /\ last_thermal = NoPoint
  /\ owner = Free /\ buffer = <<>>
  /\ pc = "idle" /\ entry = NoEntry
  /\ spc = [s \in Sessions |-> "idle"]
  /\ button = [s \in Sessions |-> "none"]
  /\ view = [s \in Sessions |-> NoView]
  /\ arrived = 0 /\ presses = 0 /\ events = 0 /\ clears = 0 /\ torn = {}

-----------------------------------------------------------------------------
(* The listener.                                                            *)

(* A packet is put in the buffer, under the receiver's lock; then the       *)
(* callback is process().                                                   *)
Store ==
  /\ pc = "idle" /\ pc' = "process"
  /\ arrived < MaxEntries
  /\ arrived' = arrived + 1
  /\ buffer' = Push(buffer, arrived', BufferSize)
  /\ \E k \in Kinds :
       entry' = [id |-> arrived', type |-> k.type, health |-> k.health, text |-> k.text]
  /\ UNCHANGED <<dataVars, statusVars, owner, sessionVars, presses, events, clears, torn>>

(* process(): the lock is taken and the packet is put in the raw log.       *)
ProcessBegin ==
  /\ pc = "process" /\ LockFree
  /\ raw_log' = Push(raw_log, entry.id, MaxRaw)
  /\ \/ entry.type = "unknown" /\ pc' = "idle" /\ entry' = NoEntry /\ UNCHANGED owner
     \/ /\ entry.type # "unknown"
        /\ pc' = IF entry.type = "evs" THEN "evsEvent" ELSE "history"
        /\ owner' = Listener /\ UNCHANGED entry
  /\ UNCHANGED <<radiation_history, thermal_history, event_log, statusVars, buffer,
                 sessionVars, boundVars>>

(* process() returns: the lock is released.                                 *)
Return == pc' = "idle" /\ owner' = Free /\ entry' = NoEntry

Point == [id |-> entry.id, health |-> entry.health]

AppendHistory ==
  /\ pc = "history" /\ pc' = "last"
  /\ \/ /\ entry.type = "radiation"
        /\ radiation_history' = Push(radiation_history, Point, MaxPoints)
        /\ UNCHANGED thermal_history
     \/ /\ entry.type = "thermal"
        /\ thermal_history' = Push(thermal_history, Point, MaxPoints)
        /\ UNCHANGED radiation_history
  /\ UNCHANGED <<event_log, raw_log, statusVars, owner, entry, buffer, sessionVars, boundVars>>

(* last_radiation or last_thermal; only a critical point has more to do.    *)
SetLast ==
  /\ pc = "last"
  /\ \/ entry.type = "radiation" /\ last_radiation' = Point /\ UNCHANGED last_thermal
     \/ entry.type = "thermal" /\ last_thermal' = Point /\ UNCHANGED last_radiation
  /\ \/ /\ entry.health = 2
        /\ pc' = IF entry.type = "radiation" THEN "status" ELSE "event"
        /\ UNCHANGED <<owner, entry>>
     \/ entry.health # 2 /\ Return
  /\ UNCHANGED <<dataVars, solar_array_status, buffer, sessionVars, boundVars>>

SetStatus ==
  /\ pc = "status" /\ pc' = "event"
  /\ solar_array_status' = ClosedByFdir
  /\ UNCHANGED <<dataVars, last_radiation, last_thermal, owner, entry, buffer, sessionVars, boundVars>>

(* The FDIR line, and the lock is released.                                 *)
LogCritical ==
  /\ pc = "event" /\ Return
  /\ Log([by |-> "FDIR", status |-> IF entry.type = "radiation" THEN ClosedByFdir ELSE "none"])
  /\ UNCHANGED <<radiation_history, thermal_history, raw_log, statusVars,
                 buffer, sessionVars, arrived, presses, clears, torn>>

(* An event message is logged, then its text may set the status.            *)
EvsStatus(text) == CASE text = "close" -> "Closed" [] text = "open" -> "Open" [] text = "none" -> "none"

LogEvs ==
  /\ pc = "evsEvent" /\ pc' = "evsStatus"
  /\ Log([by |-> "EVS", status |-> EvsStatus(entry.text)])
  /\ UNCHANGED <<radiation_history, thermal_history, raw_log, statusVars, owner, entry,
                 buffer, sessionVars, arrived, presses, clears, torn>>

SetEvsStatus ==
  /\ pc = "evsStatus" /\ Return
  /\ solar_array_status' = IF entry.text = "none" THEN solar_array_status ELSE EvsStatus(entry.text)
  /\ UNCHANGED <<dataVars, last_radiation, last_thermal, buffer, sessionVars, boundVars>>

Process == ProcessBegin \/ AppendHistory \/ SetLast \/ SetStatus \/ LogCritical \/ LogEvs \/ SetEvsStatus

Listen == Store \/ Process

-----------------------------------------------------------------------------
(* A session runs the script, because a button was pressed or two seconds   *)
(* have passed.                                                             *)

Goes(s, place) == spc' = [spc EXCEPT ![s] = place]

RenderRadiation(s) ==
  /\ spc[s] = "idle"
  /\ \E b \in Buttons :
       /\ button' = [button EXCEPT ![s] = b]
       /\ \/ b = "none" /\ UNCHANGED presses
          \/ b # "none" /\ presses < MaxPresses /\ presses' = presses + 1
  /\ view' = [view EXCEPT ![s].radiation = last_radiation]
  /\ Goes(s, "readStatus")
  /\ UNCHANGED <<dataVars, statusVars, owner, buffer, pc, entry, arrived, events, clears, torn>>

RenderStatus(s) ==
  /\ spc[s] = "readStatus"
  /\ view' = [view EXCEPT ![s].status = solar_array_status]
  /\ Goes(s, "readSeries")
  /\ UNCHANGED <<dataVars, statusVars, owner, buffer, pc, entry, button, boundVars>>

(* Then the Command Center: the Manual Solar Array buttons stand here.      *)
RenderSeries(s) ==
  /\ spc[s] = "readSeries" /\ LockFree
  /\ view' = [view EXCEPT ![s].series = radiation_history]
  /\ Goes(s, IF button[s] \in SetsStatus THEN "update" ELSE "readEvents")
  /\ UNCHANGED <<dataVars, statusVars, owner, buffer, pc, entry, button, boundVars>>

(* update_solar_array_status(), after the command was sent (when sending it *)
(* raised, the script goes on as without a button): the status and its      *)
(* line, under the lock.                                                    *)
UpdateStatus(s) ==
  /\ spc[s] = "update" /\ LockFree
  /\ owner' = s
  /\ solar_array_status' = button[s]
  /\ Goes(s, "operatorEvent")
  /\ UNCHANGED <<dataVars, last_radiation, last_thermal, buffer, pc, entry, button, view, boundVars>>

LogOperator(s) ==
  /\ spc[s] = "operatorEvent"
  /\ Log([by |-> "OPERATOR", status |-> button[s]])
  /\ owner' = Free
  /\ Goes(s, "readEvents")
  /\ UNCHANGED <<radiation_history, thermal_history, raw_log, statusVars, buffer, pc, entry,
                 button, view, arrived, presses, clears, torn>>

RenderEvents(s) ==
  /\ spc[s] = "readEvents" /\ LockFree
  /\ view' = [view EXCEPT ![s] = [NoView EXCEPT !.status = view[s].status,
                                            !.events = LastOf(event_log, EventsShown)]]
  /\ Goes(s, "readRaw")
  /\ UNCHANGED <<dataVars, statusVars, owner, buffer, pc, entry, button, boundVars>>

(* Clear Logs stands between the raw log and the packet list.               *)
RenderRaw(s) ==
  /\ spc[s] = "readRaw" /\ LockFree
  /\ view' = [view EXCEPT ![s] = [NoView EXCEPT !.raw = LastOf(raw_log, RawShown), !.clears = clears]]
  /\ Goes(s, IF button[s] = "Clear Logs" THEN "clearLogs" ELSE "readList")
  /\ UNCHANGED <<dataVars, statusVars, owner, buffer, pc, entry, button, boundVars>>

(* get_recent()                                                             *)
RenderList(s) ==
  /\ spc[s] = "readList"
  /\ view' = [view EXCEPT ![s].list = LastOf(buffer, ListShown)]
  /\ Goes(s, "shown")
  /\ UNCHANGED <<dataVars, statusVars, owner, buffer, pc, entry, button, boundVars>>

(* The processor's lock is taken from outside.  The last points and the     *)
(* status stay.                                                             *)
ClearLogs(s) ==
  /\ spc[s] = "clearLogs" /\ LockFree
  /\ radiation_history' = <<>> /\ thermal_history' = <<>>
  /\ event_log' = <<>> /\ raw_log' = <<>>
  /\ Goes(s, "clearBuffer")
  /\ UNCHANGED <<statusVars, owner, buffer, pc, entry, button, view, boundVars>>

(* The script ends: the next run is a new page.                             *)
Leaves(s) ==
  /\ Goes(s, "idle")
  /\ button' = [button EXCEPT ![s] = "none"]
  /\ view' = [view EXCEPT ![s] = NoView]

(* receiver._buffer.clear(), without the receiver's lock, and a rerun.      *)
(* Packets that are in the raw log by now, or on their way to it, are gone  *)
(* from the buffer.                                                         *)
ClearBuffer(s) ==
  /\ spc[s] = "clearBuffer"
  /\ buffer' = <<>>
  /\ clears' = clears + 1
  /\ torn' = torn \union {raw_log[i] : i \in DOMAIN raw_log}
                  \union (IF pc = "process" THEN {entry.id} ELSE {})
  /\ Leaves(s)
  /\ UNCHANGED <<dataVars, statusVars, owner, pc, entry, arrived, presses, events>>

Rerun(s) ==
  /\ spc[s] = "shown"
  /\ Leaves(s)
  /\ UNCHANGED <<dataVars, statusVars, owner, buffer, pc, entry, boundVars>>

Session(s) ==
  \/ RenderRadiation(s) \/ RenderStatus(s) \/ RenderSeries(s)
  \/ UpdateStatus(s) \/ LogOperator(s)
  \/ RenderEvents(s) \/ RenderRaw(s) \/ RenderList(s)
  \/ ClearLogs(s) \/ ClearBuffer(s) \/ Rerun(s)

Next == Listen \/ \E s \in Sessions : Session(s)

Spec == Init /\ [][Next]_vars

-----------------------------------------------------------------------------
(* Properties.                                                              *)

PCs  == {"idle", "process", "history", "last", "status", "event", "evsEvent", "evsStatus"}
SPCs == {"idle", "readStatus", "readSeries", "update", "operatorEvent", "readEvents",
         "readRaw", "readList", "clearLogs", "clearBuffer", "shown"}

TypeOK ==
  /\ radiation_history \in Seq(Points) /\ Len(radiation_history) <= MaxPoints
  /\ thermal_history \in Seq(Points) /\ Len(thermal_history) <= MaxPoints
  /\ event_log \in Seq(Lines) /\ Len(event_log) <= MaxEvents
  /\ raw_log \in Seq(1..MaxEntries) /\ Len(raw_log) <= MaxRaw
  /\ buffer \in Seq(1..MaxEntries) /\ Len(buffer) <= BufferSize
  /\ solar_array_status \in Statuses
  /\ last_radiation \in Points
  /\ last_thermal \in Points
  /\ owner \in Sessions \union {Listener, Free}
  /\ pc \in PCs
  /\ entry \in Entries
  /\ spc \in [Sessions -> SPCs]
  /\ button \in [Sessions -> Buttons]
  /\ view \in [Sessions -> [radiation : Points, status : Statuses,
                            series : Seq(Points), events : Seq(Lines),
                            raw : Seq(1..MaxEntries), clears : 0..MaxPresses,
                            list : Seq(1..MaxEntries)]]
  /\ arrived \in 0..MaxEntries
  /\ presses \in 0..MaxPresses
  /\ events \in Nat
  /\ clears \in 0..MaxPresses
  /\ torn \subseteq 1..MaxEntries

(* Nothing was cleared, not even the processor's half.                      *)
NeverCleared == clears = 0 /\ \A s \in Sessions : spc[s] # "clearBuffer"

(* The lines that speak of the panels.                                      *)
SolarLines == {i \in DOMAIN event_log : event_log[i].status # "none"}

(* The status shown is the one of the newest line about the panels: the     *)
(* listener and the sessions never leave a status whose line was written    *)
(* before another's (processor.py:101-106, 126-132 and 184-189).            *)
StatusExplained ==
  owner = Free /\ NeverCleared /\ events <= MaxEvents =>
    IF SolarLines = {} THEN solar_array_status = "Unknown"
    ELSE \E i \in SolarLines :
           /\ \A j \in SolarLines : j <= i
           /\ event_log[i].status = solar_array_status

(* A page never shows, next to a log with all its lines, a status that the  *)
(* log does not mention, although the status was read without the lock and  *)
(* the log later, with it (ground_app.py:163 and 257, processor.py:101-106  *)
(* and 184-189).                                                            *)
ShownStatusIsLogged ==
  \A s \in Sessions :
    spc[s] = "readRaw" /\ NeverCleared /\ events <= EventsShown /\ view[s].status # "Unknown" =>
      \E i \in DOMAIN view[s].events : view[s].events[i].status = view[s].status

(* The radiation value at the top of a page is a point of the chart below,  *)
(* or an older one that was pushed out: process() appends to the series and *)
(* sets last_radiation, and the page reads them in the other order          *)
(* (processor.py:98-99, ground_app.py:147 and 177).                         *)
ShownPointIsCharted ==
  \A s \in Sessions :
    LET v == view[s] IN
    spc[s] \in {"update", "readEvents"} /\ NeverCleared /\ v.radiation # NoPoint =>
      /\ v.series # <<>>
      /\ v.radiation.id >= v.series[1].id =>
           \E i \in DOMAIN v.series : v.series[i] = v.radiation

(* Every packet in the raw column of a page is in the packet list of the    *)
(* same page, although the two are read from different places at different  *)
(* times (ground_app.py:267 and 306): the listener stores before it         *)
(* processes (telemetry_receiver.py:199-205).  Left out are packets         *)
(* pushed out of the list, pages during which the buffer was cleared, and   *)
(* packets stored before a Clear Logs emptied the buffer and processed      *)
(* after it emptied the processor: they stay in the raw log alone.          *)
ShownRawIsListed ==
  \A s \in Sessions :
    LET v == view[s] IN
    spc[s] = "shown" /\ v.clears = clears =>
      \A i \in DOMAIN v.raw :
        \/ \E j \in DOMAIN v.list : v.list[j] = v.raw[i]
        \/ Len(v.list) = ListShown /\ v.raw[i] < v.list[1]
        \/ v.raw[i] \in torn

=============================================================================
