# cfs-bridge in TLA+

A verification project for cfs-bridge: three flight applications for NASA's cFS
(C), a sensor manager and a ground station (Python, Streamlit). It holds TLA+
modules that model the programs, TLC configurations that check them on small
instances, and proofs checked by TLAPS. References such as `rad_app.c:94` are to
the repository; `PROJECT.json` maps every definition to its lines and lists
runs, hazards, findings and theorems.

## 1. Inventory

### Components

| Component | State | Operations |
|---|---|---|
| RAD_APP (`firmware/apps/rad_app`) | RunStatus, PacketCount, FdirTriggerCount, command pipe | initialise, receive, process a reading, send close command, events, telemetry |
| THERM_APP (`firmware/apps/therm_app`) | the same | the same, without a command |
| BRIDGE_APP (`firmware/apps/bridge_app`) | RunStatus, pipe | initialise, receive, log |
| TO_LAB table, start-up script (`firmware/patches`, `firmware/defs`) | message limits; priorities, exception actions | none |
| Sensors (`sensor_manager/core/base_sensor.py`, `sensors/`) | value, sequence counter, per browser session | set (clamped) and send |
| Packet formats (`sensor_manager/core/ccsds_utils.py`, `telemetry/parser.py`) | none | pack, unpack, checksum, parse |
| Command dispatcher (`command_dispatcher.py`, `commands/solar_array.py`) | a counter per MID, history; shared by all sessions | send |
| Telemetry receiver (`telemetry_receiver.py`) | running, stop event, socket, thread, ring buffer, count | register_callback, start, stop, listener loop, get_recent |
| Telemetry processor (`telemetry/processor.py`) | two series, two logs, last points, panel status, lock | process, get_*, update_solar_array_status |
| Ground station page (`ground_app.py`, `telemetry/ui_utils.py`) | page number and filter per session | start services, render, buttons, clear, filter, page |
| Integration suite (`integration_suite.py`) | counts of checks, log baseline | wait for boot, send packets, look for words in the log, exit status |
| Other scripts (`verify_core.py`, `*.sh`, `scripts/`) | none | check one packet, start containers, send fixed packets |

### How they interact

A sensor packs its value into a command packet and sends it over UDP to CI_LAB
(cFS), which publishes it on the software bus (MID 0x1882, 0x1883). RAD_APP or
THERM_APP takes it from its pipe, classifies it, sends events and telemetry on
the bus, and RAD_APP publishes the solar array close command (0x1890) above the
limit. TO_LAB forwards telemetry over UDP once it has been enabled. On the
ground the listener thread stores each packet and calls the processor, and the
threads of the browser sessions read both objects, and send commands by the
dispatcher, back to CI_LAB. BRIDGE_APP subscribes to RAD_APP's MID as well and
logs what it gets. The integration suite sends packets through `docker exec` and
looks for words in `docker logs`, which all three applications write to.

Hard here: UDP loses, reorders and duplicates; bus calls fail and pipes fill;
applications restart; tasks preempt each other between two calls; the listener
thread and any number of session threads share objects, some of them without a
lock; start and stop race with the thread they control; a list moves while an
operator pages through it; formats cross two byte orders and three programs;
a test suite judges concurrent applications by a text that grows while it reads.

### What makes each correct

- RAD_APP: the panels are commanded closed before critical telemetry, and for
  nothing else; readings are served in order and none is forgotten while the
  application runs; one that failed to start is silent; counters agree with what was sent.
- THERM_APP: the critical event precedes its telemetry; its events are numbered.
- Sensors: what is reported was sent; numbers count sends.
- Packet formats: readers recover what writers packed, whole or cut.
- Dispatcher: numbers order the packets of a MID; the history is what was sent.
- Receiver: one listener; stop ends it; traffic does not; a callback misses nothing.
- Processor and page: status, log, last point, series, raw log and packet list
  agree with each other, also on a page that reads them at different moments.
- Integration suite: a passed check was earned by its own reading, a failed one
  is no false alarm, and exit status 0 means that all of it works.
- Mission: no auto-close is shown that RAD_APP did not command or try to; a
  critical reading is shown; the status is that of the last command.

## 2. Modules

| Module | Models | Composes or refines |
|---|---|---|
| `Fdir` | what FDIR promises about readings (abstract) | |
| `RadApp`, `MCRadApp` | RAD_APP | refines `Fdir` |
| `ThermApp` | THERM_APP | refines `Fdir` |
| `ThermalPath`, `MCThermalPath` | temperature sensors and their page, the suite as a sender, network, CI_LAB, in front of THERM_APP | extends `ThermApp` |
| `TelemetryReceiver` | the receiver, its caller and its threads | |
| `TelemetryProcessor`, `MCTelemetryProcessor` | the processor, the receiver's buffer, and the sessions that run the page | |
| `CommandDispatcher`, `MCCommandDispatcher` | the dispatcher, shared by sessions | |
| `Pagination` | the packet list of a session | |
| `Ccsds` | packet formats, pure arithmetic | |
| `PacketLink`, `MCPacketLink` | checksum, parser, `verify_core.py`, and a packet between sender and receiver | extends `Ccsds` |
| `MCPacketsAndPages` | the instance of `PacketLink` and `Pagination` | extends both |
| `IntegrationSuite` | the suite, BRIDGE_APP, and the log lines of the other applications | |
| `Mission`, `MCMission` | the whole radiation loop | instantiates `RadApp` |
| `RadAppProofs`, `ThermalPathProofs`, `CommandDispatcherProofs`, `TelemetryReceiverProofs`, `TelemetryProcessorProofs`, `IntegrationSuiteProofs`, `MissionProofs`, `PacketProofs` | theorems | each extends the module it is named after; `MissionProofs` instantiates `RadAppProofs`; `PacketProofs` extends `PacketLink` (whose specification is `LinkSpec`) and `Pagination` |

**RadApp, ThermApp.** `pc` is the place in `RAD_APP_Main` or
`RAD_APP_ProcessSensorData`. A step is what happens between two calls by which
other tasks see the application: CI_LAB and TO_LAB have higher priority in
`cpu1_cfe_es_startup.scr` and run in between. Local variables (`RadLevel`,
`Health`) are functions of `msg`: `HealthOf` and `ResponseTo` are the two
if-chains, which compare the level independently. A reading is an integer: the
properties only compare it with the limits. `calls` is the history of the calls, `lost` that of
the commands which never reached the application's code. The bus, and a restart
at any moment, are external.

**Fdir.** A queue of accepted readings, the set closed for, the set reported.
`RadApp` implements it with the pipe and the command in hand as the queue and
the calls as the two sets; `ThermApp` with the CRITICAL event in the place of
the close command.

**ThermalPath.** One sensor object per session, as `manager_app.py:48-51` keeps
them, `send_sensor_data` of the integration suite, which sends any value, and a
network that loses (nothing makes CI_LAB take a packet), reorders and duplicates.

**TelemetryReceiver.** One action per statement of `start`, `stop` and
`_listen_loop`. The attributes of the object are the variables of the same
names; `socket` and `queue` are the operating system's. `self._sock` is one
attribute for all threads, and the model reads it as freshly as the code does.
A callback that raises is like one that returns (line 206). Callbacks may be
registered at any time: the list is iterated while it grows, and `since` is the
number of packets stored by then. `gaveUp` records
that a join of `stop()` timed out; what depends on a single listener is stated
until then.

**CommandDispatcher.** `taken` gives every call of `send()` an identity. The
read and the write of the counter are two steps: `_next_seq` has no lock and
`@st.cache_resource` shares the object. `raced` records that another session
read a counter between the two.

**TelemetryProcessor.** Statements that write an attribute somebody reads
without the lock are steps of their own; everything else under the lock is one.
A log line is reduced to its author and the panel status it speaks of. The
listener stores a packet in the receiver's buffer and then processes it. A
session runs the script of `ground_app.py` from top to bottom: the reads of the
status bar, the chart, the buttons, the two logs, Clear Logs and the packet list
come in the order of the page, and `view` keeps what was read until a property
has compared it with a later part. `torn` names the packets that a Clear Logs
left in the raw log and took from the buffer.

**Pagination.** One script run of the packet column is one step, because it
reads the buffer once, under the lock; arrivals happen between runs, and between
a page turn and the run that `st.rerun` starts. The value the multiselect keeps
when its options change is left open. A filtered list is the set of the positions
it keeps of the whole list, and a page the positions whose `Place` among them is
the page's: the loops of `ui_utils.py` by what they leave in.

**Ccsds, PacketLink.** Packets are sequences of bytes. The loops of the code are
stated by what they compute, so that they can be proved about: a bit of the
checksum's XOR is whether an odd number of bytes has it (`Odd`), the text of an
event message lies between the first and the last visible byte before the NUL
that ends it (`EvsText`). `MCPacketLink` holds the loops themselves, with XOR
from `Bitwise`, and two assumptions which TLC evaluates at the start of the run:
the checksums agree on all sequences of up to four of five bytes and on all pairs
of any byte with one of three, the event texts on all sequences of up to six of
four characters.
An event message, `EventPayload`, is laid out by cFE: the sender's name in a
field of its own, then the message.

**IntegrationSuite.** The applications are reduced to what they write to the
log: for BRIDGE_APP that is all there is, the other two have modules of their
own. A line is the set of words the suite looks for, with the reading it was
written for, which only the properties see. The log is kept as the lines up to
the last baseline and those after it, since that is the cut
`get_new_cfs_logs` makes; all lines are on one stream of the container. The five
sending steps of `run_verification` are the rows of `Steps`, each run as
baseline, send, check. A failed baseline is zero and makes every line new. The
sleep is not timed: a check may come before the applications are done. `Others`
is what a sensor session can send besides: 25.00, 50.00 or 160.00. The last
step replays a packet into a fresh `TelemetryProcessor` in one thread; it has no
branch and always passes, so `Report` stands for it together with the summary.

**Mission.** `RadApp`'s actions, with what it transmits delivered to the solar
array's MID and to TO_LAB. `solarBus` keeps, with each close command, the
reading it was sent for; a transmission may fail, and `rad_app.c` goes on as if
it had not. `raced` records that an operator's command was on its
way together with a reading or its telemetry. Ground-side handling of one packet
is one step, since `TelemetryProcessor` shows that its parts are consistent.

## 3. Runs

Constants as in the `.cfg`. `MaxPublished`, `MaxPackets`, `MaxSends`,
`MaxArrivals`, `MaxEntries`, `MaxReadings` bound traffic; `MaxRestarts`,
`MaxThreads`, `MaxPresses`, `MaxDups` bound the other unbounded events.

| Run | Shows | Why the bounds are enough |
|---|---|---|
| RadApp | CriticalTlmFollowsClose, TlmInOrder, CountersMatchCalls, OnlyInitialisedAppSpeaks, ImplementsFdir, CriticalIsClosed | three commands overflow a pipe of two, one restart can fall between any two steps, transmissions may fail; levels on both sides of both limits |
| Thermal | TriggerCountsAreConsecutive, ReportedWasSent, SeqCountsSends, ImplementsFdir | two sessions and the suite, three sends and a duplicate, a pipe of two, a restart, a counter that wraps at 2 |
| Receiver | AtMostOneListener, StoppedMeansQuiet, FaithfulRelay, EachPacketOnce, StopTerminates, PacketsAreShown | two threads overlap after a join that timed out; two packets evict from a buffer of one and fall on both sides of a registration; two callbacks |
| Dispatcher | SeqNumbersCalls, HistoryMatchesWire | three sessions, symmetric; four calls and a counter modulo 3, which wraps |
| Processor | StatusExplained, ShownStatusIsLogged, ShownPointIsCharted, ShownRawIsListed | two sessions, symmetric, with two buttons; two packets evict a point and a raw line from series and logs of one, and fall before, between and after the halves of a clear; the log of four shows three |
| Mission | AutoCloseWasCommandedUnlessUnsent, StatusIsCurrentUnlessRaced, CriticalIsReported | pipe and TO_LAB of one message, a reading and its duplicate fill both and are two messages on the bus; the close command and the telemetry of either may fail to be transmitted; a loss at any place, one restart, one button |
| Packets_and_pages | VerifierIsRight, CommandSurvives, NothingMisread, ReadingSurvives; NoEmptyPage, PagesCoverList, WalkSkipsNothing | every field at its edges, every length a datagram can be cut to; five arrivals, buffer of four, list of three, pages of two: eviction, the 200-packet cut and a half-full last page all occur |
| Suite | SuccessMeansWorking, VerdictIsEarned, NoFalseAlarm | the whole script; one fault at any place (bus call, docker command, lost packet, another sender's reading of any of the three values), which is what each exception of the properties needs; two tries to boot; pipes of one |

Run Packets_and_pages holds two parts that share no variable; each moves only while
the other is where it started, so that the states are the sum and not the product.

The runs of RadApp, Thermal, Receiver, Dispatcher and Processor check a type invariant (`TypeOK`, `PathTypeOK`) as well: it holds the bounds of
the buffers, pipes and counters.

Deadlock is checked except where the system may stop: an application that
exited with its traffic bound used up (RadApp, Thermal, the runs of Mission), sessions
whose bound on calls is reached (Dispatcher), and a script that has ended (Suite).

Every property of a passing run has a mutant in `PROJECT.json`: a plausible bug
(kept in the module as a "faulty variant" before the definition it replaces)
under which the property fails in the same run.

### Disagreements between the program and its texts

In four runs TLC finds a counterexample to what a text says.

| Run | The text | The code |
|---|---|---|
| Receiver_running | `running`: "Whether the listener thread is active" | stays True after a failed bind |
| Dispatcher_race | "per-MID sequence counter for packet ordering" | two sessions get one number |
| Mission_override | "Current solar array status" | late telemetry overwrites a newer override |
| Packet_events | EVS "messages are decoded to extract printable ASCII event strings" (`parser.py:4-5`) | extraction stops at the NUL behind the sender's name: the text is the name and never the message (`parser.py:102`) |

Because of the last one, the branch of `processor.py:128-132` that sets the
status from an event's text is never taken for cFE's layout of a message.

Others were met while modelling and have no run of their own.

- "SOLAR ARRAY CLOSE CMD SENT" (`rad_app.c:99`) and "Solar Array Auto-Closed"
  (`processor.py:105`) are said whatever `CFE_SB_TransmitMsg` returned
  (`rad_app.c:94`): when it failed, no close command is on the bus. That is the
  exception in `AutoCloseWasCommandedUnlessUnsent`, and without it TLC finds the
  property violated in run Mission.
- "RESET, All apps, Reset counters" (`README.md:99`) is logged as an unexpected
  function code. "Set Temperature > 100 C" (`README.md:267`) cannot be done, the
  sensor clamps at 85.
- "Stop the background listener thread" (`telemetry_receiver.py:135`) does not
  hold when the join times out, which `gaveUp` stands for.
- Clear Logs between `telemetry_receiver.py:199` and `processor.py:80` of a
  packet, or packets between its own two halves, leave raw lines whose packets
  are not in the list (`torn`).
- Function code 6 of the solar array is named TO_LAB_OUTPUT_ENABLE in the
  history, because `FC_NAME` (`mission_registry.py:71-78`) has the key twice.
  Packets labelled "unknown" are offered by the filter (`ground_app.py:310-314`)
  and never included (`ui_utils.py:54`).
- "Return only new cFS log content since the baseline snapshot"
  (`integration_suite.py:90`): after a baseline that could not be fetched, old
  lines are new and can pass a check. So can another sender's critical reading
  pass the nominal check: "50.00" is found in the limit "150.00" of the FDIR line.
- "BRIDGE_APP initialized" passes when BRIDGE_APP logged an error and another
  application its initialisation (`integration_suite.py:182`);
  `check_integration.sh`, which asks for both words in one line, does not.
- A reading that cannot be sent ends the suite with a traceback
  (`integration_suite.py:223`), the two commands are inside a `try`; and
  `docker exec` can time out after its packet has left.

Clear Logs is the exception that `ShownRawIsListed` makes; the last three are
exceptions of `VerdictIsEarned` and steps of `Send`.

### Fairness

Weak fairness, and only of what is scheduled without anybody's decision: the
application's own steps (cFE tasks are preemptive and block rather than spin),
the listener threads and a started `start()` or `stop()` (operating system
threads; `recvfrom` has a timeout of one second), and in `Mission` also
CI_LAB, TO_LAB and the delivery of packets that are not lost. Nothing makes a sensor
send, an operator press, an error happen or an application restart.

## 4. Proofs

Eight modules hold theorems; `tlapm <module>.tla` checks one. Together they
state every safety property and every refinement that the passing runs check,
for all values of the constants: any readings, sessions, threads, callbacks,
commands, packets and page sizes, any depth of a pipe and size of a buffer, and
any value of the bounds, so that the bounds of section 3 are the bounds of the
runs only.

The assumptions are the named ones of the modules, which TLC evaluates in the
runs: types and positive sizes; that a session is not called like the listener,
the suite or the free lock (`SessionsAssumption`, `SenderAssumption`); that a
command is a record of a MID and a function code (`CommandsAssumption`) and a
packet kind one the parser can produce (`KindsAssumption`); that the page shows
no more lines than the logs keep (`ShownFitAssumption`: 100 of 500 events, 200
of 500 packets); that values inside the slider are temperatures
(`ClampAssumption`); that the bound on commands leaves room for what is sent
(`RoomAssumption`); that packets fit into their 16-bit Length word, and that a
sender's name is printable, shorter than its field and does not start with a
space (`LinkAssumption`). Every theorem follows the same scheme: an invariant
holds initially, each action keeps it (one lemma or step per action), it implies
the property. The invariants were checked by TLC on the instances of section 3
before they were proved.

**RadAppProofs.** `TypeCorrect`, `CloseBeforeTelemetry`
(`CriticalTlmFollowsClose`), `SpeaksWhenInitialised`
(`OnlyInitialisedAppSpeaks`), `TelemetryInOrder` (`TlmInOrder`),
`CountersAreTrue` (`CountersMatchCalls`), `RadAppImplementsFdir`
(`ImplementsFdir`).
The properties speak of the history of calls, which no step reads, so none is
inductive. `DueCalls` says which calls are the newest where `pc` is: at
`fdirEvent` the close command for the command in hand, at `sendTlm` with a
critical reading that and the FDIR event. `Initialised` ties `pc` to the
subscription and to RunStatus. `Ordered` says that ids increase from the calls
over the command in hand to the pipe and the bus; `Counted` that a counter is
the number of calls since the task last started plus the one that `pc` still
owes. For the refinement, each action is shown to be the step of
`Fdir` it stands for or a stutter: taking from the pipe moves a command from the
pipe to the hand and leaves `FdirQueue` alone, an error or a restart drops it.

**ThermalPathProofs.** `TypeCorrect` (`PathTypeOK`), `TriggersAreNumbered`
(`TriggerCountsAreConsecutive`), `NothingInvented` (`ReportedWasSent`),
`NumbersCountSends` (`SeqCountsSends`), `ThermAppImplementsFdir`. The first part
is about THERM_APP alone, with invariants like those of RAD_APP. `Conserved` is
what `ReportedWasSent` needs: per temperature, what is reported, in hand, in the
pipe and on the way up is never more than what was sent and duplicated, and
each action moves at most one from one place to the next. `Numbered` ties a
session's counter to the number of its packets.

**CommandDispatcherProofs.** `TypeCorrect`, `HistoryIsWhatLeft`
(`HistoryMatchesWire`), `SequenceNumbers` (`SeqNumbersCalls`). `OwnCalls` says
that sessions inside `send()` have distinct calls, which are on the wire exactly
from `sendto` on and in no record yet. `Counting` says, until two sessions race,
that a counter nobody is about to write is the number of calls for its MID, and
that the call about to write is the last one of its MID.

**TelemetryReceiverProofs.** `TypeCorrect`, `OneListener` (`AtMostOneListener`),
`QuietWhenStopped` (`StoppedMeansQuiet`), `RelayIsFaithful` (`FaithfulRelay`),
`NoPacketTwice` (`EachPacketOnce`). `OnlyLastAlive` says, until a join times out,
that the thread in `self._thread` is the only one alive, and none is where
`start()` and `stop()` assume so. The relay also needs `OwnSockets` (each thread
reads its own socket although `self._sock` is shared), `Arrival` and `InOrder`
(ids grow from log to hand to queue) and `Relayed` (a callback is behind by the
packet in hand if its turn is to come). `EachPacketOnce` holds with two
listeners too, so `OnePlace` and `ShownOnce` do without `gaveUp`: a packet is on
one socket, in one hand or in the log.

**TelemetryProcessorProofs.** `TypeCorrect`, `StatusIsExplained`,
`PageExplainsStatus` (`ShownStatusIsLogged`), `PageChartsPoint`
(`ShownPointIsCharted`), `PageListsRaw` (`ShownRawIsListed`). `HandsOK` is mutual
exclusion: the owner of the lock is who stands between its statements.
`WritersExplain` says what the status will be explained by at each statement of
a writer. The status bar reads without the lock, so `StatusKnown` also counts a
line that the holder of the lock has still to write. `SeriesOrdered`,
`PointsCharted` and `BufferKept` say of the values a page has read that the
chart and the list will still have them, or only newer ones.

**IntegrationSuiteProofs.** `SuccessIsEarned` (`SuccessMeansWorking`),
`VerdictsAreEarned` (`VerdictIsEarned`), `AlarmsAreReal` (`NoFalseAlarm`), the
last two action properties. `Traced` says that every reading under way and every
line carries the mark of a step whose packet has left, and that the lines before
a baseline carry earlier marks: together with the words that lines can have
(`WordFacts`) this is why finding a word means that the reading was processed
(`CheckEarned`), and why the baseline hides nothing (`NothingHidden`). `Spoken`
says that an application named in the log has said hello or complained first.
`Earned` carries the result of the checks that are over to the exit status.

**MissionProofs.** `AutoCloseIsReal` (`AutoCloseWasCommandedUnlessUnsent`) and
`StatusFollowsCommands` (`StatusIsCurrentUnlessRaced`), both for a bus whose
transmissions fail or not: the close command of a reading that the ground logs
as an auto-close is on the bus, or the transmission of that very command failed.
RAD_APP's types are taken from `RadAppProofs`, by INSTANCE: the actions
of `RadApp` are those of `Mission` between the bus and TO_LAB. `ByHealth` and
`Backed` follow a critical reading from the call for the close command to the
log; `OnTheBus` says that such a call has put its command on the bus or is one
that failed. For the status, `Tracks` says that without losses, failed
transmissions and races no reading is under way while an operator's command is, and
that otherwise the status is that of the last command or a critical reading that
will make it so is still coming.

**PacketProofs.** Three parts.

*Formats.* Unpacking what was packed gives each bit field (`StreamIdFields`,
`SequenceFields`), packing what was unpacked gives the word
(`StreamIdOfFields`), and bytes give the word back (`WordRoundTrip`). Whole
packets: `TelemetrySurvives` and `CommandRoundTrip` say that what is unpacked is
what was packed, for every payload that fits and every counter, time and message
id; for telemetry also from a datagram cut anywhere behind the headers, and
`CutHeader` from one cut anywhere behind the first.

*Packets on their way.* `VerdictIsRight` (`VerifierIsRight`), `CommandArrives`
(`CommandSurvives`), `NeverMisread` (`NothingMisread`), `ReadingArrives`
(`ReadingSurvives`). The properties compare `result` with `origin`, and no step
keeps them by itself. `LinkInv` says what lies between: the wire holds the first
bytes of the packet that was packed from what `origin` tells, and `result` is
what the receiver made of the wire. It is kept because a part of a part is a
part (`CutAgain`), and because a part as long as its own Length word says is the
whole packet (`WholeIsAll`), so that the radiation application passes on the
reading that was sent. The rest is about the functions: the checksum byte takes
the place of a 0 and so turns exactly the bits whose number of bytes is even
(`ChecksumCloses`); a part of a payload is decoded to nothing or to what the
whole holds, only the health byte is 0 when it is cut off (`DecodedPart`); the header fields
are returned as they were sent or not at all (`HeaderRead`); and the NUL
behind the sender's name ends the text whatever follows, while a cut inside the
name leaves a prefix of it (`NameIsText`). The last one gives
`OnlyTheNameIsExtracted`: run Packet_events is no accident of its names and
messages, no message is ever extracted.

*Pages.* `PagesTyped` (`TypeOK`, which no run lists), `PageNeverEmpty` (`NoEmptyPage`),
`PagesShowAll` (`PagesCoverList`), `WalkMissesNothing` (`WalkSkipsNothing`).
The lemmas are about places: every entry of a list has one, every place up to
the size of the list is taken (`PlaceTaken`), and `PageCount` pages are as many
as the places need (`PagesNeeded`). Where numbers are searched through, the least
one with a property is taken (`Least`, from the well-foundedness of `<`), which
does what an induction would. `WalkSkipsNothing` speaks of the list on the
screen, while packets arrive in the buffer behind it; `Ahead` says the same of
the list a run would show now and, while a page turn has not been shown, of the
page it left: an arrival moves every entry by at most one place towards later
pages, an eviction or the cut at 200 takes only the last, and a Next comes after
all of its page has been seen. `Known` says that a key stands for one packet.

Only model-checked, because liveness under fairness is out of the prover's
reach: `CriticalIsClosed`, `StopTerminates`, `PacketsAreShown`,
`CriticalIsReported`. The two assumptions of `MCPacketLink`, that the loops
compute what `PacketLink` states, are evaluated on their inputs and no further:
for all inputs they would need an induction over the bytes.

## 5. Not modelled

The shell scripts and the telemetry injector (they start containers and send
fixed packets), container and build files, charts and layout, the discovery of
sensors and of the station's own address, `_parse_evs` of the receiver (nothing
calls it), header-only packets inside `Mission`, and event messages there: their
text, as it is extracted, never changes the status. In `IntegrationSuite`, lines
of cFE itself and a log spread over two streams. A NaN reading and 32-bit wrap
of the flight counters are left out: no sensor sends the one and the other takes
years of traffic. TO_LAB's and the start-up script's tables enter as bounds and
priorities only, the rest of their columns has no effect on what is modelled.

## 6. Plan

Done, in this order: RAD_APP with FDIR and its first theorems; the receiver;
the dispatcher; the processor and page; the mission loop; pagination; packet
formats with their lemmas; THERM_APP and the thermal path; the page's script
composed with the receiver's buffer; registration of callbacks; the integration
suite with BRIDGE_APP and the fan-out; the proofs of section 4, RAD_APP first,
then the mission loop and the suite, pages and packets last.

Left: an abstract packet channel that `PacketLink` implements, so that `Mission`
could take its messages from it.
