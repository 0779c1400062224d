--------------------------- MODULE IntegrationSuite ---------------------------
(***************************************************************************)
(* integration_suite.py while it verifies a running system: it sends       *)
(* packets through docker, waits, fetches the log of the flight container  *)
(* and looks for words in what is new.  The log is written meanwhile by    *)
(* the three applications of the repository, BRIDGE_APP among them, which  *)
(* receives every radiation command as well (fan-out of MID 0x1882), and   *)
(* other senders may use the same message ids.                             *)
(*                                                                         *)
(* The applications are modelled by what they write to the log; RadApp and *)
(* ThermApp have what else they do.  External: the software bus, docker,   *)
(* and the network, which loses packets.  The suite's sleep() ends at any  *)
(* moment: nothing makes the applications be done by then.                 *)
(***************************************************************************)
EXTENDS Integers, Sequences

CONSTANTS
  PipeDepth,  \* RAD_APP_, THERM_APP_ and BRIDGE_APP_PIPE_DEPTH (10 each)
  BootTries,  \* timeout of wait_for_cfs (60)
  MaxFaults   \* bound: bus calls and docker commands that fail, packets lost
              \* and readings that other senders send meanwhile

ASSUME PipeDepthAssumption == PipeDepth \in Nat \ {0}
ASSUME BootTriesAssumption == BootTries \in Nat \ {0}
ASSUME BoundsAssumption    == MaxFaults \in Nat

VARIABLES
  \* the applications
  pc,        \* pc[a]: where application a is in its main function
  pipe,      \* pipe[a]: its CommandPipe, oldest command first
  todo,      \* todo[a]: the lines it has still to write for the command in hand
  uplink,    \* readings between docker exec and CI_LAB
  \* docker logs: the lines up to the baseline fetched last, and those after it
  before, after,
  \* run_verification
  phase, step, tries, history,
  baseline,      \* "taken", or "zero" when the log could not be fetched
  verdict,       \* the checks recorded last, each with passed() or failed()
  failures,      \* FAIL_COUNT is not zero
  exit,          \* "none" while it runs, then the exit status
  faults     \* what went wrong so far, up to MaxFaults

appVars   == <<pc, pipe, todo>>
logVars   == <<before, after>>
suiteVars == <<phase, step, tries, history, baseline, verdict, failures, exit>>
vars      == <<appVars, uplink, logVars, suiteVars, faults>>

Apps == {"RAD_APP", "THERM_APP", "BRIDGE_APP"}

(* A line of the log: the words the suite looks for, and, not part of the   *)
(* text, the reading it was written for.                                    *)
Line(words, of) == [says |-> words, of |-> of]

(* The steps of run_verification that send a packet, and what they look for *)
(* in the new lines, one set of words for each check.  A missing            *)
(* acknowledgement of the enable command is no failure, so there is none.   *)
Steps == <<
  [mid |-> "to_lab",    value |-> "none",   checks |-> {}],
  [mid |-> "radiation", value |-> "50.00",  checks |-> {{"RAD_APP", "50.00"}}],
  [mid |-> "thermal",   value |-> "25.00",  checks |-> {{"THERM_APP", "25.00"}}],
  [mid |-> "radiation", value |-> "160.00", checks |-> {{"160.00"}, {"FDIR", "TRIGGERED"}, {"SOLAR", "CLOSE"}}],
  [mid |-> "solar",     value |-> "none",   checks |-> {}] >>

Boot     == 0
Enable   == 1
Override == 5
Readings == 2..4

BootChecks == {{a, "Initialized"} : a \in Apps}

Reading(k) == [mid |-> Steps[k].mid, value |-> Steps[k].value, of |-> k]

(* The same values from somebody else.                                      *)
Others          == Override + 1
OtherReading(k) == [Reading(k) EXCEPT !.of = Others]

(* What an application writes when it processes a reading.  Lines that      *)
(* repeat the words of an earlier one are left out; "150.00", the limit in  *)
(* the FDIR line, holds "50.00".                                            *)
LinesFor(a, r) ==
  IF a = "BRIDGE_APP" THEN <<Line({a, "Received"}, Boot)>>
  ELSE <<Line({a, r.value}, r.of)>> \o
       IF r.value = "160.00"
         THEN <<Line({a, "FDIR", "TRIGGERED", "160.00", "50.00"}, r.of), Line({a, "SOLAR", "CLOSE"}, r.of)>>
         ELSE <<>>

-----------------------------------------------------------------------------
Init ==
  /\ pc = [a \in Apps |-> "init"]
  /\ pipe = [a \in Apps |-> <<>>]
  /\ todo = [a \in Apps |-> <<>>]
  /\ uplink = {} /\ before = {} /\ after = {}
  /\ phase = "wait" /\ step = Enable /\ tries = 0
  /\ history = "empty" /\ baseline = "zero"
  /\ verdict = {} /\ failures = FALSE /\ exit = "none"
  /\ faults = 0

(* Something goes wrong: a call fails, a packet is lost, another sender      *)
(* meddles.                                                                 *)
Fault   == faults < MaxFaults /\ faults' = faults + 1
NoFault == UNCHANGED faults

-----------------------------------------------------------------------------
(* The applications.                                                        *)

Write(line) == after' = after \union {line} /\ UNCHANGED before

(* A bus call fails: it is logged with the name of the application, and     *)
(* everything up to the application's exit is skipped.                      *)
Exits(a) ==
  /\ Fault
  /\ pc' = [pc EXCEPT ![a] = "exited"]
  /\ pipe' = [pipe EXCEPT ![a] = <<>>]
  /\ Write(Line({a}, Boot))

(* Registration, pipe and subscription; nothing is seen of them but the     *)
(* subscription, or the line of the one that fails.                         *)
InitCalls(a) ==
  /\ pc[a] = "init"
  /\ \/ NoFault /\ pc' = [pc EXCEPT ![a] = "subscribed"] /\ UNCHANGED <<pipe, logVars>>
     \/ Exits(a)
  /\ UNCHANGED <<todo, uplink, suiteVars>>

Announce(a) ==
  /\ pc[a] = "subscribed"
  /\ pc' = [pc EXCEPT ![a] = "loop"]
  /\ Write(Line({a, "Initialized"}, Boot))
  /\ UNCHANGED <<pipe, todo, uplink, suiteVars, faults>>

Receive(a) ==
  /\ pc[a] = "loop" /\ todo[a] = <<>> /\ pipe[a] # <<>>
  /\ LET lines == LinesFor(a, Head(pipe[a])) IN
       Write(Head(lines)) /\ todo' = [todo EXCEPT ![a] = Tail(lines)]
  /\ pipe' = [pipe EXCEPT ![a] = Tail(@)]
  /\ UNCHANGED <<pc, uplink, suiteVars, faults>>

ReceiveError(a) ==
  /\ pc[a] = "loop" /\ todo[a] = <<>>
  /\ Exits(a)
  /\ UNCHANGED <<todo, uplink, suiteVars>>

WriteLine(a) ==
  /\ todo[a] # <<>>
  /\ Write(Head(todo[a]))
  /\ todo' = [todo EXCEPT ![a] = Tail(@)]
  /\ UNCHANGED <<pc, pipe, uplink, suiteVars, faults>>

App(a) == InitCalls(a) \/ Announce(a) \/ Receive(a) \/ ReceiveError(a) \/ WriteLine(a)

-----------------------------------------------------------------------------
(* The network, CI_LAB and the bus: every subscriber with room on its pipe  *)
(* gets a copy.                                                             *)

ListensOn(a) == IF a = "THERM_APP" THEN "thermal" ELSE "radiation"

Gets(a, r) ==
  ListensOn(a) = r.mid /\ pc[a] \in {"subscribed", "loop"} /\ Len(pipe[a]) < PipeDepth

Deliver ==
  /\ \E r \in uplink :
       /\ uplink' = uplink \ {r}
       /\ pipe' = [a \in Apps |-> IF Gets(a, r) THEN Append(pipe[a], r) ELSE pipe[a]]
  /\ UNCHANGED <<pc, todo, logVars, suiteVars, faults>>

Lose ==
  /\ \E r \in uplink : uplink' = uplink \ {r}
  /\ Fault
  /\ UNCHANGED <<appVars, logVars, suiteVars>>

(* A session of the sensor manager sends a reading: nominal or critical.    *)
OtherSends ==
  /\ Fault
  /\ \E k \in Readings : uplink' = uplink \union {OtherReading(k)}
  /\ UNCHANGED <<appVars, logVars, suiteVars>>

-----------------------------------------------------------------------------
(* The suite.                                                               *)

(* get_cfs_logs(): the lines, or nothing when docker times out.             *)
GetCfsLogs(text, lines) ==
  \/ text = lines /\ NoFault
  \/ text = {} /\ Fault

WholeLog == before \union after

(* Faulty variant: the text is not cut at the baseline.                     *)
WholeLogAsNew == WholeLog

(* get_new_cfs_logs() cuts the text at the length of the baseline, which is *)
(* zero when the baseline could not be fetched.                             *)
NewLogs == IF baseline = "zero" THEN WholeLog ELSE after

(* "x in logs and y in logs": the words may come from different lines.      *)
Found(words, text) == words \subseteq UNION {l.says : l \in text}

(* Faulty variant: failed() assigns a local counter.                        *)
RecordForgets(passing, failing) ==
  /\ verdict' = {<<c, "PASS">> : c \in passing} \union {<<c, "FAIL">> : c \in failing}
  /\ UNCHANGED failures

(* passed() or failed() for each check.                                     *)
Record(passing, failing) ==
  /\ verdict' = {<<c, "PASS">> : c \in passing} \union {<<c, "FAIL">> : c \in failing}
  /\ failures' = (failures \/ failing # {})

Look(checks, text) ==
  LET found == {c \in checks : Found(c, text)} IN Record(found, checks \ found)

Ends(status) == phase' = "ended" /\ exit' = status

(* wait_for_cfs(): once a second, until the words are there.                *)
Booted(text) == Found({"RAD_APP", "Initialized"}, text)

GiveUp == tries' = BootTries

WaitForCfs ==
  /\ phase = "wait"
  /\ tries' = tries + 1
  /\ \E text \in {WholeLog, {}} :
       /\ GetCfsLogs(text, WholeLog)
       /\ \/ Booted(text) /\ Record({{"cFS"}}, {}) /\ phase' = "boot" /\ UNCHANGED exit
          \/ ~Booted(text) /\ ~GiveUp /\ UNCHANGED <<phase, verdict, failures, exit>>
          \/ ~Booted(text) /\ GiveUp /\ Record({}, {{"cFS"}}) /\ Ends("1")
  /\ UNCHANGED <<appVars, uplink, logVars, step, history, baseline>>

(* Faulty variant: the baseline is fetched after the packet was sent.       *)
OrderSendFirst == <<"send", "baseline", "check">>

(* A step with checks takes its baseline, sends and checks, in this order.  *)
Order == <<"baseline", "send", "check">>

Following(p) == LET i == CHOOSE j \in DOMAIN Order : Order[j] = p IN Order[i + 1]

CheckBoot ==
  /\ phase = "boot" /\ phase' = Order[1]
  /\ \E text \in {WholeLog, {}} : GetCfsLogs(text, WholeLog) /\ Look(BootChecks, text)
  /\ UNCHANGED <<appVars, uplink, logVars, step, tries, history, baseline, exit>>

Mark == before' = WholeLog /\ after' = {}

TakeBaseline ==
  /\ phase = "baseline" /\ phase' = Following("baseline")
  /\ \/ NoFault /\ baseline' = "taken"
     \/ Fault /\ baseline' = "zero"
  /\ Mark
  /\ UNCHANGED <<appVars, uplink, step, tries, history, verdict, failures, exit>>

(* send_packet_via_docker(); docker exec may also time out after the packet *)
(* has left.  The enable and the open command are sent inside a try, and    *)
(* recorded in the dispatcher's history; a reading's failure ends the run.  *)
(* The two commands have no receiver among the applications.                *)
Leaves(k) == uplink' = uplink \union (IF k \in Readings THEN {Reading(k)} ELSE {})

Send ==
  /\ phase = "send"
  /\ \/ /\ NoFault /\ Leaves(step) /\ phase' = Following("send")
        /\ IF step \in Readings
             THEN UNCHANGED <<verdict, failures, history>>
             ELSE Record({{"sent"}}, {}) /\ history' = Steps[step].mid
        /\ UNCHANGED exit
     \/ /\ Fault /\ (Leaves(step) \/ UNCHANGED uplink)
        /\ IF step \in Readings
             THEN Ends("1") /\ UNCHANGED <<verdict, failures>>
             ELSE Record({}, {{"sent"}}) /\ phase' = Following("send") /\ UNCHANGED exit
        /\ UNCHANGED history
  /\ UNCHANGED <<appVars, logVars, step, tries, baseline>>

(* After the sleep.                                                         *)
CheckLogs ==
  /\ phase = "check" /\ step # Override
  /\ \E text \in {NewLogs, {}} : GetCfsLogs(text, NewLogs) /\ Look(Steps[step].checks, text)
  /\ step' = step + 1
  /\ phase' = IF step' = Override THEN "send" ELSE Order[1]
  /\ UNCHANGED <<appVars, uplink, logVars, tries, history, baseline, exit>>

(* The last record of the history must be the open command.                 *)
CheckHistory ==
  /\ phase = "check" /\ step = Override
  /\ phase' = "replay"
  /\ IF history = Steps[Override].mid THEN Record({{"dispatched"}}, {})
                                      ELSE Record({}, {{"dispatched"}})
  /\ UNCHANGED <<appVars, uplink, logVars, step, tries, history, baseline, exit, faults>>

(* A fresh TelemetryProcessor is given a critical packet and an override by *)
(* one thread, and its checks pass.  Then the summary.                      *)
Report ==
  /\ phase = "replay"
  /\ Ends(IF failures THEN "1" ELSE "0")
  /\ UNCHANGED <<appVars, uplink, logVars, step, tries, history, baseline, verdict, failures, faults>>

Suite == \/ WaitForCfs \/ CheckBoot \/ TakeBaseline \/ Send
         \/ CheckLogs \/ CheckHistory \/ Report

Next == (\E a \in Apps : App(a)) \/ Deliver \/ Lose \/ OtherSends \/ Suite

Spec == Init /\ [][Next]_vars

-----------------------------------------------------------------------------
(* Properties.                                                              *)

LinesOf(k) == {l \in WholeLog : l.of = k}

(* Everything the suite looks for was written for its own reading.          *)
Done(k) == \A c \in Steps[k].checks : Found(c, LinesOf(k))

(* A check of a reading passes only when the applications wrote its words   *)
(* for that reading, unless its baseline could not be fetched or another    *)
(* sender's reading was processed after it: what the slices of              *)
(* get_new_cfs_logs are for.  An application is reported as initialised     *)
(* only when it has said so, or at least that it failed.                    *)
Passes(c) == <<c, "PASS">> \in verdict' \ verdict
Fails(c)  == <<c, "FAIL">> \in verdict' \ verdict

VerdictIsEarned ==
  [][/\ \A c \in Steps[step].checks : Passes(c) =>
          \/ Found(c, LinesOf(step))
          \/ baseline = "zero"
          \/ \E l \in after : l.of = Others
     /\ \A a \in Apps : Passes({a, "Initialized"}) =>
          \E l \in WholeLog : l.says \in {{a, "Initialized"}, {a}}]_vars

(* A check of a reading fails only when its words were not written yet,     *)
(* unless the log could not be fetched: the baseline is never so late that  *)
(* it hides what the suite waits for.                                       *)
NoFalseAlarm ==
  [][\A c \in Steps[step].checks :
       Fails(c) => ~Found(c, LinesOf(step)) \/ faults' > faults]_vars

(* Exit status 0 is earned as a whole: with docker and the bus working and  *)
(* no other sender, all three applications are in their loops and every     *)
(* reading was processed, FDIR's close command included.                    *)
SuccessMeansWorking ==
  exit = "0" /\ faults = 0 =>
    (\A a \in Apps : pc[a] = "loop") /\ (\A k \in Readings : Done(k))

=============================================================================
