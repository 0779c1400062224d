-------------------------------- MODULE Fdir --------------------------------
(***************************************************************************)
(* What fault detection, isolation and recovery promises about radiation   *)
(* readings, without the software bus, the event service or the program    *)
(* of RAD_APP: readings are served in the order they were accepted, and    *)
(* the panels have been commanded closed before a critical reading is      *)
(* reported as handled.                                                    *)
(***************************************************************************)
EXTENDS Sequences

CONSTANTS Readings, CriticalReadings

VARIABLES
  queue,     \* the accepted readings that have not been served
  closed,    \* the readings for which the panels were commanded closed
  reported   \* the readings reported in telemetry

fdirVars == <<queue, closed, reported>>

Init ==
  /\ queue = <<>>
  /\ closed = {}
  /\ reported = {}

Accept ==
  /\ \E r \in Readings \ (closed \union reported) : queue' = Append(queue, r)
  /\ UNCHANGED <<closed, reported>>

(* The panels are closed at most once for a reading, and only for the one   *)
(* being served.                                                            *)
Close ==
  /\ queue # <<>>
  /\ Head(queue) \in CriticalReadings \ closed
  /\ closed' = closed \union {Head(queue)}
  /\ UNCHANGED <<queue, reported>>

Report ==
  /\ queue # <<>>
  /\ Head(queue) \in CriticalReadings => Head(queue) \in closed
  /\ Head(queue) \notin reported
  /\ queue' = Tail(queue)
  /\ reported' = reported \union {Head(queue)}
  /\ UNCHANGED closed

(* A command that is no sensor reading is dropped ...                       *)
Ignore ==
  /\ queue # <<>>
  /\ Head(queue) \notin CriticalReadings
  /\ queue' = Tail(queue)
  /\ UNCHANGED <<closed, reported>>

(* ... and so is everything when the application stops or is restarted.     *)
Stop ==
  /\ queue' = <<>>
  /\ UNCHANGED <<closed, reported>>

Next == Accept \/ Close \/ Report \/ Ignore \/ Stop

Spec == Init /\ [][Next]_fdirVars

=============================================================================
