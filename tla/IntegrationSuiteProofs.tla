----------------------- MODULE IntegrationSuiteProofs -----------------------
(***************************************************************************)
(* Proofs about IntegrationSuite, for any depth of the pipes, any number   *)
(* of tries and any number of faults.                                      *)
(***************************************************************************)
EXTENDS IntegrationSuite, SequenceTheorems, TLAPS

(* The readings there are, and the lines an application can write: when it  *)
(* starts or fails, and for the readings of its message id.                 *)
Msgs == {Reading(k) : k \in Readings} \union {OtherReading(k) : k \in Readings}

CriticalLines(a, of) ==
  {Line({a, "160.00"}, of), Line({a, "FDIR", "TRIGGERED", "160.00", "50.00"}, of), Line({a, "SOLAR", "CLOSE"}, of)}

ReadingLines(a) ==
  CASE a = "RAD_APP"    -> {Line({a, "50.00"}, 2), Line({a, "50.00"}, Others)}
                             \union CriticalLines(a, 4) \union CriticalLines(a, Others)
    [] a = "THERM_APP"  -> {Line({a, "25.00"}, 3), Line({a, "25.00"}, Others)}
    [] a = "BRIDGE_APP" -> {Line({a, "Received"}, Boot)}

Hello(a)    == Line({a, "Initialized"}, Boot)
Complain(a) == Line({a}, Boot)
AppLines(a) == ReadingLines(a) \union {Hello(a), Complain(a)}
AllLines    == UNION {AppLines(a) : a \in Apps}

(* The step whose reading was sent last, and the marks that readings and    *)
(* lines can carry by then: another sender's reading is a fault.            *)
SentUpTo == IF phase \in {"wait", "boot", "baseline", "send"} THEN step - 1 ELSE step
Known    == {Boot} \union 2..SentUpTo \union (IF faults = 0 THEN {} ELSE {Override + 1})

Phases == {"wait", "boot", "baseline", "send", "check", "replay", "ended"}

Typed ==
  /\ pc \in [Apps -> {"init", "subscribed", "loop", "exited"}]
  /\ DOMAIN pipe = Apps /\ DOMAIN todo = Apps
  /\ phase \in Phases /\ step \in Enable..Override
  /\ baseline \in {"taken", "zero"} /\ failures \in BOOLEAN /\ faults \in Nat
  /\ phase \in {"wait", "boot"} => step = Enable
  /\ phase = "replay" => step = Override

(* Every reading under way and every line was brought about by a step that  *)
(* has sent its reading; the lines before the baseline by an earlier step.  *)
Traced ==
  /\ uplink \subseteq {r \in Msgs : r.of \in Known}
  /\ \A a \in Apps : /\ pipe[a] \in Seq({r \in Msgs : r.mid = ListensOn(a) /\ r.of \in Known})
                     /\ todo[a] \in Seq({l \in ReadingLines(a) : l.of \in Known})
  /\ WholeLog \subseteq {l \in AllLines : l.of \in Known}
  /\ \A l \in before : l.of # step \/ step \notin Readings

(* An application that is named in the log has said first that it is        *)
(* initialised, or that it failed.                                          *)
Spoken ==
  /\ \A a \in Apps : pc[a] = "loop" => Hello(a) \in WholeLog
  /\ \A a \in Apps : todo[a] # <<>> => pc[a] = "loop"
  /\ \A a \in Apps, l \in WholeLog : a \in l.says => Hello(a) \in WholeLog \/ Complain(a) \in WholeLog

(* Without faults: nobody exits, baselines are taken, and every step that   *)
(* is over without a failure has found what it looked for.                  *)
Earned ==
  /\ faults = 0 =>
       /\ \A a \in Apps : Complain(a) \notin WholeLog
       /\ \A a \in Apps : Hello(a) \in WholeLog => pc[a] = "loop"
       /\ phase \in {"send", "check"} /\ step \in Readings => baseline = "taken"
       /\ ~failures =>
            /\ phase \notin {"wait", "boot", "ended"} => \A a \in Apps : pc[a] = "loop"
            /\ phase # "ended" => \A k \in Readings : k < step => Done(k)
  /\ exit = "0" => phase = "ended"
  /\ exit = "0" /\ faults = 0 => (\A a \in Apps : pc[a] = "loop") /\ (\A k \in Readings : Done(k))

-----------------------------------------------------------------------------
(* What the constants of the script are, case by case.                      *)
LEMMA StepFacts ==
  /\ DOMAIN Steps = Enable..Override
  /\ Steps[1] = [mid |-> "to_lab", value |-> "none", checks |-> {}]
  /\ Steps[2] = [mid |-> "radiation", value |-> "50.00", checks |-> {{"RAD_APP", "50.00"}}]
  /\ Steps[3] = [mid |-> "thermal", value |-> "25.00", checks |-> {{"THERM_APP", "25.00"}}]
  /\ Steps[4] = [mid |-> "radiation", value |-> "160.00",
                 checks |-> {{"160.00"}, {"FDIR", "TRIGGERED"}, {"SOLAR", "CLOSE"}}]
  /\ Steps[5] = [mid |-> "solar", value |-> "none", checks |-> {}]
BY DEF Steps, Enable, Override

LEMMA MessageFacts ==
  ASSUME NEW r \in Msgs
  PROVE  \/ r = [mid |-> "radiation", value |-> "50.00", of |-> 2]
         \/ r = [mid |-> "thermal", value |-> "25.00", of |-> 3]
         \/ r = [mid |-> "radiation", value |-> "160.00", of |-> 4]
         \/ r = [mid |-> "radiation", value |-> "50.00", of |-> 6]
         \/ r = [mid |-> "thermal", value |-> "25.00", of |-> 6]
         \/ r = [mid |-> "radiation", value |-> "160.00", of |-> 6]
<1>1. PICK k \in Readings : r = Reading(k) \/ r = OtherReading(k)
  BY DEF Msgs
<1>2. PICK of \in {k, 6} : r = [mid |-> Steps[k].mid, value |-> Steps[k].value, of |-> of]
  BY <1>1 DEF Reading, OtherReading, Others, Override
<1>3. k = 2 \/ k = 3 \/ k = 4
  BY DEF Readings
<1>4. CASE k = 2
  BY <1>2, <1>4, StepFacts
<1>5. CASE k = 3
  BY <1>2, <1>5, StepFacts
<1>6. CASE k = 4
  BY <1>2, <1>6, StepFacts
<1> QED
  BY <1>3, <1>4, <1>5, <1>6

LEMMA FollowingFacts == Following("baseline") = "send" /\ Following("send") = "check" /\ Order[1] = "baseline"
<1>1. DOMAIN Order = 1..3 /\ Order[1] = "baseline" /\ Order[2] = "send" /\ Order[3] = "check"
  BY DEF Order
<1>2. \A j \in DOMAIN Order : (Order[j] = "baseline" <=> j = 1) /\ (Order[j] = "send" <=> j = 2)
  BY <1>1
<1>3. (CHOOSE j \in DOMAIN Order : Order[j] = "baseline") = 1
  BY <1>1, <1>2
<1>4. (CHOOSE j \in DOMAIN Order : Order[j] = "send") = 2
  BY <1>1, <1>2
<1> QED
  BY <1>1, <1>3, <1>4 DEF Following

LEMMA ShortSequences ==
  ASSUME NEW S, NEW x \in S, NEW y \in S
  PROVE  <<x>> \in Seq(S) /\ <<x, y>> \in Seq(S) /\ <<x>> # <<>> /\ <<x, y>> # <<>>
OBVIOUS

(* The lines for a reading are lines of its application, with its mark.     *)
LEMMA LinesForFacts ==
  ASSUME NEW a \in Apps, NEW r \in Msgs, r.mid = ListensOn(a)
  PROVE  /\ LinesFor(a, r) \in Seq({l \in ReadingLines(a) : l.of \in {Boot, r.of}})
         /\ LinesFor(a, r) # <<>>
<1> DEFINE S == {l \in ReadingLines(a) : l.of \in {Boot, r.of}}
<1>1. CASE a = "BRIDGE_APP"
  <2>1. Line({a, "Received"}, Boot) \in S
    BY <1>1 DEF ReadingLines, Line
  <2>2. LinesFor(a, r) = <<Line({a, "Received"}, Boot)>>
    BY <1>1 DEF LinesFor
  <2> DEFINE line == Line({a, "Received"}, Boot)
  <2> HIDE DEF S, line
  <2>3. <<line>> \in Seq(S) /\ <<line>> # <<>>
    BY <2>1, ShortSequences DEF line
  <2>4. LinesFor(a, r) \in Seq(S) /\ LinesFor(a, r) # <<>>
    BY <2>2, <2>3 DEF line
  <2> QED
    BY <2>4 DEF S
<1>2. CASE a \in {"RAD_APP", "THERM_APP"} /\ r.value # "160.00"
  <2>1. LinesFor(a, r) = <<Line({a, r.value}, r.of)>> \o <<>>
    BY <1>2 DEF LinesFor
  <2>2. Line({a, r.value}, r.of) \in S
    BY <1>2, MessageFacts DEF ReadingLines, Line, ListensOn, Others, Override
  <2> DEFINE line == Line({a, r.value}, r.of)
  <2> HIDE DEF S, line
  <2>3. <<line>> \in Seq(S) /\ <<line>> # <<>>
    BY <2>2, ShortSequences DEF line
  <2>4. LinesFor(a, r) = <<line>>
    BY <2>1, <2>3, ConcatEmptySeq DEF line
  <2>5. LinesFor(a, r) \in Seq(S) /\ LinesFor(a, r) # <<>>
    BY <2>3, <2>4
  <2> QED
    BY <2>5 DEF S
<1>3. CASE a \in {"RAD_APP", "THERM_APP"} /\ r.value = "160.00"
  <2>1. a = "RAD_APP" /\ r.of \in {4, 6}
    BY <1>3, MessageFacts DEF ListensOn
  <2>2. CriticalLines(a, r.of) \subseteq S
    <3>1. CriticalLines(a, r.of) \subseteq ReadingLines(a)
      BY <2>1 DEF ReadingLines, Others, Override
    <3>2. \A l \in CriticalLines(a, r.of) : l.of = r.of
      BY DEF CriticalLines, Line
    <3> QED
      BY <3>1, <3>2
  <2> HIDE DEF S
  <2> DEFINE first == Line({a, "160.00"}, r.of)
             second == Line({a, "FDIR", "TRIGGERED", "160.00", "50.00"}, r.of)
             third == Line({a, "SOLAR", "CLOSE"}, r.of)
  <2>3. LinesFor(a, r) = <<first>> \o <<second, third>>
    BY <1>3, <2>1 DEF LinesFor
  <2>4. first \in S /\ second \in S /\ third \in S
    BY <2>2 DEF CriticalLines
  <2> HIDE DEF first, second, third
  <2>5. <<first>> \in Seq(S) /\ <<second, third>> \in Seq(S) /\ <<first>> # <<>> /\ <<second, third>> # <<>>
    BY <2>4, ShortSequences
  <2>6. <<first>> \o <<second, third>> \in Seq(S) /\ <<first>> \o <<second, third>> # <<>>
    BY <2>5, ConcatProperties, ConcatEqualIffEmpty
  <2>7. LinesFor(a, r) \in Seq(S) /\ LinesFor(a, r) # <<>>
    BY <2>3, <2>6
  <2> QED
    BY <2>7 DEF S
<1> QED
  BY <1>1, <1>2, <1>3 DEF Apps

(* Which lines have the words of the checks, and which name an application. *)
LEMMA WordFacts ==
  ASSUME NEW l \in AllLines
  PROVE  /\ "50.00" \in l.says => l = Line({"RAD_APP", "50.00"}, 2) \/ l.of \in {4, 6}
         /\ "25.00" \in l.says => l = Line({"THERM_APP", "25.00"}, 3) \/ l.of = 6
         /\ "160.00" \in l.says => l.of \in {4, 6}
         /\ "FDIR" \in l.says => "TRIGGERED" \in l.says /\ l.of \in {4, 6}
         /\ "SOLAR" \in l.says => "CLOSE" \in l.says /\ l.of \in {4, 6}
<1>1. PICK a \in Apps : l \in AppLines(a)
  BY DEF AllLines
<1>2. CASE l \in {Hello(a), Complain(a)}
  BY <1>2 DEF Hello, Complain, Line, Apps
<1>3. CASE l \in ReadingLines(a)
  <2>1. CASE a = "RAD_APP"
    BY <1>3, <2>1 DEF ReadingLines, CriticalLines, Line, Others, Override
  <2>2. CASE a \in {"THERM_APP", "BRIDGE_APP"}
    BY <1>3, <2>2 DEF ReadingLines, Line, Others, Override
  <2> QED
    BY <2>1, <2>2 DEF Apps
<1> QED
  BY <1>1, <1>2, <1>3 DEF AppLines

LEMMA NameFacts ==
  ASSUME NEW a \in Apps
  PROVE  /\ \A b \in Apps : Hello(a) \in AppLines(b) => a = b
         /\ \A b \in Apps : Complain(a) \in AppLines(b) => a = b
         /\ \A l \in AppLines(a), b \in Apps : b \in l.says => b = a
         /\ Hello(a) \notin ReadingLines(a) /\ Complain(a) \notin ReadingLines(a) /\ Hello(a) # Complain(a)
         /\ Hello(a) \in AllLines /\ Complain(a) \in AllLines
<1>1. \A l \in AppLines(a), b \in Apps : b \in l.says => b = a
  <2> SUFFICES ASSUME NEW l \in AppLines(a), NEW b \in Apps, b \in l.says PROVE b = a
    OBVIOUS
  <2>1. CASE a = "RAD_APP"
    BY <2>1 DEF AppLines, ReadingLines, CriticalLines, Hello, Complain, Line, Apps
  <2>2. CASE a = "THERM_APP"
    BY <2>2 DEF AppLines, ReadingLines, Hello, Complain, Line, Apps
  <2>3. CASE a = "BRIDGE_APP"
    BY <2>3 DEF AppLines, ReadingLines, Hello, Complain, Line, Apps
  <2> QED
    BY <2>1, <2>2, <2>3 DEF Apps
<1>2. \A b \in Apps : b \in Hello(b).says /\ b \in Complain(b).says
  BY DEF Hello, Complain, Line
<1>3. \A b \in Apps : (Hello(a) \in AppLines(b) => a = b) /\ (Complain(a) \in AppLines(b) => a = b)
  <2> SUFFICES ASSUME NEW b \in Apps, NEW l \in AppLines(b), l \in {Hello(a), Complain(a)} PROVE a = b
    OBVIOUS
  <2>1. a \in l.says
    BY <1>2
  <2>2. CASE b = "RAD_APP"
    BY <2>1, <2>2 DEF AppLines, ReadingLines, CriticalLines, Hello, Complain, Line, Apps
  <2>3. CASE b = "THERM_APP"
    BY <2>1, <2>3 DEF AppLines, ReadingLines, Hello, Complain, Line, Apps
  <2>4. CASE b = "BRIDGE_APP"
    BY <2>1, <2>4 DEF AppLines, ReadingLines, Hello, Complain, Line, Apps
  <2> QED
    BY <2>2, <2>3, <2>4 DEF Apps
<1>4. Hello(a) \notin ReadingLines(a) /\ Complain(a) \notin ReadingLines(a)
  <2>1. \A l \in ReadingLines(a) : \E w \in {"50.00", "160.00", "FDIR", "SOLAR", "25.00", "Received"} : w \in l.says
    <3>1. CASE a = "RAD_APP"
      BY <3>1 DEF ReadingLines, CriticalLines, Line
    <3>2. CASE a \in {"THERM_APP", "BRIDGE_APP"}
      BY <3>2 DEF ReadingLines, Line
    <3> QED
      BY <3>1, <3>2 DEF Apps
  <2>2. \A w \in {"50.00", "160.00", "FDIR", "SOLAR", "25.00", "Received"} : w \notin Hello(a).says /\ w \notin Complain(a).says
    BY DEF Hello, Complain, Line, Apps
  <2> QED
    BY <2>1, <2>2
<1>5. Hello(a) # Complain(a)
  <2>1. "Initialized" \in Hello(a).says /\ "Initialized" \notin Complain(a).says
    BY DEF Hello, Complain, Line, Apps
  <2> QED
    BY <2>1
<1>6. Hello(a) \in AllLines /\ Complain(a) \in AllLines
  BY DEF AllLines, AppLines
<1> QED
  BY <1>1, <1>3, <1>4, <1>5, <1>6

-----------------------------------------------------------------------------
(* What each kind of step does.                                             *)

(* A step of an application: it subscribes, announces itself, exits with a  *)
(* complaint, or writes a line for a reading.                               *)
Subscribes(a) ==
  /\ pc[a] = "init" /\ pc' = [pc EXCEPT ![a] = "subscribed"]
  /\ UNCHANGED <<pipe, todo, logVars, faults>>

Announces(a) ==
  /\ pc[a] = "subscribed" /\ pc' = [pc EXCEPT ![a] = "loop"]
  /\ before' = before /\ after' = after \union {Hello(a)}
  /\ UNCHANGED <<pipe, todo, faults>>

Complains(a) ==
  /\ todo[a] = <<>> /\ pc' = [pc EXCEPT ![a] = "exited"] /\ pipe' = [pipe EXCEPT ![a] = <<>>]
  /\ before' = before /\ after' = after \union {Complain(a)}
  /\ todo' = todo /\ faults' = faults + 1

Serves(a) ==
  /\ pc[a] = "loop" /\ pc' = pc
  /\ \E l \in {x \in ReadingLines(a) : x.of \in Known} : before' = before /\ after' = after \union {l}
  /\ \E rest \in Seq({x \in ReadingLines(a) : x.of \in Known}) : todo' = [todo EXCEPT ![a] = rest]
  /\ pipe' = pipe \/ (pipe[a] # <<>> /\ pipe' = [pipe EXCEPT ![a] = Tail(@)])
  /\ faults' = faults

LEMMA AppStep ==
  ASSUME Typed, Traced, Spoken, NEW a \in Apps, App(a)
  PROVE  /\ UNCHANGED <<uplink, suiteVars>>
         /\ Subscribes(a) \/ Announces(a) \/ Complains(a) \/ Serves(a)
<1> DEFINE S == {x \in ReadingLines(a) : x.of \in Known}
<1>1. todo[a] \in Seq(S)
  BY DEF Traced
<1>2. pc[a] # "loop" => todo[a] = <<>>
  BY DEF Spoken
<1>3. CASE InitCalls(a)
  BY <1>2, <1>3 DEF InitCalls, Subscribes, Complains, Exits, Fault, NoFault, Write, Complain
<1>4. CASE Announce(a)
  BY <1>4 DEF Announce, Announces, Write, Hello
<1>5. CASE Receive(a)
  <2> DEFINE lines == LinesFor(a, Head(pipe[a]))
             R     == {r \in Msgs : r.mid = ListensOn(a) /\ r.of \in Known}
  <2>1. Head(pipe[a]) \in R
    <3>1. pipe[a] \in Seq(R) /\ pipe[a] # <<>>
      BY <1>5 DEF Traced, Receive
    <3> HIDE DEF R
    <3> QED
      BY <3>1, HeadTailProperties
  <2>2. lines \in Seq({l \in ReadingLines(a) : l.of \in {Boot, Head(pipe[a]).of}}) /\ lines # <<>>
    BY <2>1, LinesForFacts
  <2>3. Boot \in Known /\ Head(pipe[a]).of \in Known
    BY <2>1 DEF Known
  <2>4. lines \in Seq(S)
    <3> DEFINE T == {l \in ReadingLines(a) : l.of \in {Boot, Head(pipe[a]).of}}
    <3>1. T \subseteq S
      BY <2>3
    <3>2. lines \in Seq(T)
      BY <2>2
    <3> HIDE DEF S, T, lines
    <3> QED
      BY <3>1, <3>2, SeqMonotonic
  <2>5. /\ Write(Head(lines)) /\ todo' = [todo EXCEPT ![a] = Tail(lines)]
        /\ pipe[a] # <<>> /\ pipe' = [pipe EXCEPT ![a] = Tail(@)] /\ pc[a] = "loop"
        /\ UNCHANGED <<pc, uplink, suiteVars, faults>>
    BY <1>5 DEF Receive
  <2>6. Head(lines) \in S /\ Tail(lines) \in Seq(S)
    <3> HIDE DEF S, lines
    <3> QED
      BY <2>2, <2>4, HeadTailProperties
  <2>7. Serves(a)
    <3> HIDE DEF lines
    <3> QED
      BY <2>5, <2>6 DEF Serves, Write
  <2> QED
    BY <2>5, <2>7
<1>6. CASE ReceiveError(a)
  BY <1>6 DEF ReceiveError, Complains, Exits, Fault, Write, Complain
<1>7. CASE WriteLine(a)
  <2>1. Head(todo[a]) \in S /\ Tail(todo[a]) \in Seq(S)
    <3> HIDE DEF S
    <3> QED
      BY <1>1, <1>7, HeadTailProperties DEF WriteLine
  <2>2. pc[a] = "loop"
    BY <1>2, <1>7 DEF WriteLine
  <2>3. todo' = [todo EXCEPT ![a] = Tail(todo[a])]
    BY <1>7 DEF WriteLine
  <2>4. Serves(a)
    <3>1. Write(Head(todo[a])) /\ UNCHANGED <<pc, pipe, faults>>
      BY <1>7 DEF WriteLine
    <3> QED
      BY <2>1, <2>2, <2>3, <3>1 DEF Serves, Write
  <2> QED
    BY <1>7, <2>4 DEF WriteLine
<1> QED
  BY <1>3, <1>4, <1>5, <1>6, <1>7 DEF App

(* The bus and the network change nothing else.                             *)
LEMMA BusStep ==
  ASSUME Typed, Traced, Deliver \/ Lose \/ OtherSends
  PROVE  /\ UNCHANGED <<pc, todo, logVars, suiteVars>>
         /\ faults' = faults \/ faults' = faults + 1
         /\ uplink' \subseteq uplink \/ (faults' = faults + 1 /\ \E k \in Readings : uplink' = uplink \union {OtherReading(k)})
         /\ \/ pipe' = pipe
            \/ \E r \in uplink : pipe' = [a \in Apps |-> IF Gets(a, r) THEN Append(pipe[a], r) ELSE pipe[a]]
BY DEF Deliver, Lose, OtherSends, Fault, NoFault, appVars, logVars, suiteVars

(* The suite leaves the applications alone and only cuts the log.           *)
LEMMA SuiteStep ==
  ASSUME Typed, Suite
  PROVE  /\ UNCHANGED appVars
         /\ faults' = faults \/ faults' = faults + 1
         /\ UNCHANGED logVars \/ (phase = "baseline" /\ Mark)
         /\ uplink' = uplink \/ (phase = "send" /\ Leaves(step))
<1> USE DEF Typed, appVars, logVars, suiteVars
<1>1. CASE WaitForCfs
  BY <1>1 DEF WaitForCfs, GetCfsLogs, Fault, NoFault
<1>2. CASE CheckBoot
  BY <1>2 DEF CheckBoot, GetCfsLogs, Fault, NoFault
<1>3. CASE TakeBaseline
  BY <1>3 DEF TakeBaseline, Fault, NoFault
<1>4. CASE Send
  BY <1>4 DEF Send, Fault, NoFault
<1>5. CASE CheckLogs
  BY <1>5 DEF CheckLogs, GetCfsLogs, Fault, NoFault
<1>6. CASE CheckHistory
  BY <1>6 DEF CheckHistory
<1>7. CASE Report
  BY <1>7 DEF Report
<1> QED
  BY <1>1, <1>2, <1>3, <1>4, <1>5, <1>6, <1>7 DEF Suite

(* The suite's own variables keep their types, and no step is left before   *)
(* its reading was sent.                                                    *)
LEMMA SuiteTyped ==
  ASSUME Typed, Suite
  PROVE  /\ phase' \in Phases /\ step' \in Enable..Override /\ baseline' \in {"taken", "zero"} /\ failures' \in BOOLEAN
         /\ phase' \in {"wait", "boot"} => step' = Enable
         /\ phase' = "replay" => step' = Override
         /\ SentUpTo <= SentUpTo'
         /\ uplink' = uplink \/ SentUpTo' = step
<1> USE DEF Typed, Phases, SentUpTo, Record, Look, Ends, Enable, Override, suiteVars
<1>1. CASE WaitForCfs
  <2>1. phase = "wait" /\ phase' \in {"wait", "boot", "ended"} /\ failures' \in BOOLEAN /\ UNCHANGED <<uplink, step, baseline>>
    BY <1>1 DEF WaitForCfs
  <2> QED
    BY <2>1
<1>2. CASE CheckBoot
  BY <1>2, FollowingFacts DEF CheckBoot
<1>3. CASE TakeBaseline
  BY <1>3, FollowingFacts DEF TakeBaseline
<1>4. CASE Send
  <2>1. phase = "send" /\ phase' \in {"check", "ended"} /\ failures' \in BOOLEAN /\ UNCHANGED <<step, baseline>>
    BY <1>4, FollowingFacts DEF Send
  <2> QED
    BY <2>1
<1>5. CASE CheckLogs
  BY <1>5, FollowingFacts DEF CheckLogs
<1>6. CASE CheckHistory
  <2>1. /\ phase = "check" /\ step = Override /\ phase' = "replay" /\ UNCHANGED <<uplink, step, baseline>>
        /\ \E failing \in {{}, {{"dispatched"}}} : failures' = (failures \/ failing # {})
    BY <1>6 DEF CheckHistory
  <2> QED
    BY <2>1
<1>7. CASE Report
  BY <1>7 DEF Report
<1> QED
  BY <1>1, <1>2, <1>3, <1>4, <1>5, <1>6, <1>7 DEF Suite

LEMMA NextTyped ==
  ASSUME Typed, Traced, Spoken, Next
  PROVE  Typed' /\ SentUpTo <= SentUpTo' /\ faults <= faults'
<1>1. ASSUME NEW a \in Apps, App(a) PROVE Typed' /\ SentUpTo <= SentUpTo' /\ faults <= faults'
  <2>1. UNCHANGED suiteVars /\ (Subscribes(a) \/ Announces(a) \/ Complains(a) \/ Serves(a))
    BY <1>1, AppStep
  <2>2. UNCHANGED <<phase, step, baseline, failures, SentUpTo>>
    BY <2>1 DEF suiteVars, SentUpTo
  <2>3. SentUpTo <= SentUpTo'
    BY <2>2 DEF Typed, SentUpTo, Enable, Override
  <2>4. /\ pc' \in [Apps -> {"init", "subscribed", "loop", "exited"}]
        /\ DOMAIN pipe' = Apps /\ DOMAIN todo' = Apps
        /\ faults' = faults \/ faults' = faults + 1
    BY <2>1 DEF Typed, Subscribes, Announces, Complains, Serves
  <2> QED
    BY <2>2, <2>3, <2>4 DEF Typed
<1>2. CASE Deliver \/ Lose \/ OtherSends
  BY <1>2, BusStep DEF Typed, suiteVars, SentUpTo, Enable, Override
<1>3. CASE Suite
  BY <1>3, SuiteStep, SuiteTyped DEF Typed, appVars
<1> QED
  BY <1>1, <1>2, <1>3 DEF Next

(* What was brought about stays so.                                         *)
LEMMA KnownGrows ==
  ASSUME Typed, Traced, Spoken, Next
  PROVE  Known \subseteq Known'
<1>1. Typed' /\ SentUpTo <= SentUpTo' /\ faults <= faults'
  BY NextTyped
<1>2. SentUpTo \in Int /\ SentUpTo' \in Int /\ faults \in Nat /\ faults' \in Nat
  BY <1>1 DEF Typed, SentUpTo, Enable, Override
<1> HIDE DEF SentUpTo
<1> QED
  BY <1>1, <1>2 DEF Known

(* What becomes of the log, and of the readings under way.                  *)
LEMMA LogStep ==
  ASSUME Typed, Traced, Spoken, Next
  PROVE  \/ UNCHANGED logVars
         \/ phase = "baseline" /\ Suite /\ Mark
         \/ \E a \in Apps : \E l \in AppLines(a) :
              /\ before' = before /\ after' = after \union {l} /\ l.of \in Known /\ UNCHANGED suiteVars
              /\ \/ Announces(a) /\ l = Hello(a)
                 \/ Complains(a) /\ l = Complain(a)
                 \/ pc[a] = "loop" /\ l \in ReadingLines(a) /\ faults' = faults
<1>1. ASSUME NEW a \in Apps, App(a), ~UNCHANGED logVars
      PROVE  \E l \in AppLines(a) :
               /\ before' = before /\ after' = after \union {l} /\ l.of \in Known /\ UNCHANGED suiteVars
               /\ \/ Announces(a) /\ l = Hello(a)
                  \/ Complains(a) /\ l = Complain(a)
                  \/ pc[a] = "loop" /\ l \in ReadingLines(a) /\ faults' = faults
  <2>1. UNCHANGED suiteVars /\ (Announces(a) \/ Complains(a) \/ Serves(a))
    BY <1>1, AppStep DEF Subscribes
  <2>2. Hello(a).of = Boot /\ Complain(a).of = Boot /\ Boot \in Known
    BY DEF Hello, Complain, Line, Known
  <2>3. Hello(a) \in AppLines(a) /\ Complain(a) \in AppLines(a) /\ ReadingLines(a) \subseteq AppLines(a)
    BY DEF AppLines
  <2>4. CASE Announces(a)
    BY <2>1, <2>2, <2>3, <2>4 DEF Announces
  <2>5. CASE Complains(a)
    BY <2>1, <2>2, <2>3, <2>5 DEF Complains
  <2>6. CASE Serves(a)
    BY <2>1, <2>3, <2>6 DEF Serves
  <2> QED
    BY <2>1, <2>4, <2>5, <2>6
<1>2. CASE Deliver \/ Lose \/ OtherSends
  BY <1>2, BusStep
<1>3. CASE Suite
  BY <1>3, SuiteStep
<1> QED
  BY <1>1, <1>2, <1>3 DEF Next

LEMMA LogGrows ==
  ASSUME Typed, Traced, Spoken, Next
  PROVE  WholeLog \subseteq WholeLog' /\ \A k \in Int : LinesOf(k) \subseteq LinesOf(k)'
<1>1. WholeLog \subseteq WholeLog'
  BY LogStep DEF WholeLog, Mark, logVars
<1> QED
  BY <1>1 DEF LinesOf

LEMMA NextTraced ==
  ASSUME Typed, Traced, Spoken, Next
  PROVE  Traced'
<1>1. Known \subseteq Known' /\ Typed' /\ SentUpTo <= SentUpTo' /\ faults <= faults'
  BY KnownGrows, NextTyped
<1> DEFINE R(a) == {r \in Msgs : r.mid = ListensOn(a) /\ r.of \in Known}
           L(a) == {l \in ReadingLines(a) : l.of \in Known}
<1>2. \A a \in Apps : R(a) \subseteq R(a)' /\ L(a) \subseteq L(a)'
  BY <1>1
<1>3. uplink' \subseteq {r \in Msgs : r.of \in Known'}
  <2>1. uplink \subseteq {r \in Msgs : r.of \in Known'}
    BY <1>1 DEF Traced
  <2>2. CASE uplink' \subseteq uplink
    BY <2>1, <2>2
  <2>3. CASE faults' = faults + 1 /\ \E k \in Readings : uplink' = uplink \union {OtherReading(k)}
    <3>1. PICK k \in Readings : uplink' = uplink \union {OtherReading(k)}
      BY <2>3
    <3>2. OtherReading(k) \in Msgs /\ OtherReading(k).of = Override + 1
      BY DEF Msgs, OtherReading, Reading, Others
    <3>3. faults' # 0
      BY <2>3 DEF Typed
    <3> QED
      BY <2>1, <3>1, <3>2, <3>3 DEF Known
  <2>4. CASE Suite /\ phase = "send" /\ Leaves(step)
    <3>1. CASE step \notin Readings
      BY <2>1, <2>4, <3>1 DEF Leaves
    <3>2. CASE step \in Readings /\ uplink' # uplink
      <4>1. SentUpTo' = step
        BY <2>4, <3>2, SuiteTyped
      <4>2. Reading(step) \in Msgs /\ Reading(step).of = step /\ step \in Known'
        BY <3>2, <4>1 DEF Msgs, Reading, Known, Readings
      <4> QED
        BY <2>1, <2>4, <3>2, <4>2 DEF Leaves
    <3> QED
      BY <2>1, <3>1, <3>2
  <2> QED
    BY <2>2, <2>3, <2>4, AppStep, BusStep, SuiteStep DEF Next
<1>4. \A a \in Apps : pipe'[a] \in Seq(R(a)')
  <2>1. \A a \in Apps : pipe[a] \in Seq(R(a)) /\ pipe[a] \in Seq(R(a)')
    BY <1>2, SeqMonotonic DEF Traced
  <2> HIDE DEF R, L
  <2>2. ASSUME NEW a \in Apps, App(a) PROVE \A b \in Apps : pipe'[b] \in Seq(R(b)')
    <3>1. CASE pipe' = pipe
      BY <2>1, <3>1
    <3>2. CASE pipe' = [pipe EXCEPT ![a] = <<>>]
      BY <2>1, <3>2 DEF Typed
    <3>3. CASE pipe[a] # <<>> /\ pipe' = [pipe EXCEPT ![a] = Tail(@)]
      <4>1. Tail(pipe[a]) \in Seq(R(a)')
        BY <2>1, <3>3, HeadTailProperties
      <4> QED
        BY <2>1, <3>3, <4>1 DEF Typed
    <3> QED
      BY <2>2, <3>1, <3>2, <3>3, AppStep DEF Subscribes, Announces, Complains, Serves
  <2>3. ASSUME NEW r \in uplink, pipe' = [a \in Apps |-> IF Gets(a, r) THEN Append(pipe[a], r) ELSE pipe[a]]
        PROVE  \A a \in Apps : pipe'[a] \in Seq(R(a)')
    <3> SUFFICES ASSUME NEW a \in Apps PROVE pipe'[a] \in Seq(R(a)')
      OBVIOUS
    <3>1. Gets(a, r) => r \in R(a)'
      BY <1>1 DEF R, Gets, Traced
    <3>2. CASE Gets(a, r)
      <4>1. Append(pipe[a], r) \in Seq(R(a)')
        BY <2>1, <3>1, <3>2, AppendProperties
      <4> QED
        BY <2>3, <3>2, <4>1
    <3> QED
      BY <2>1, <2>3, <3>2
  <2> QED
    BY <2>1, <2>2, <2>3, BusStep, SuiteStep DEF Next, appVars
<1>5. \A a \in Apps : todo'[a] \in Seq(L(a)')
  <2>1. \A a \in Apps : todo[a] \in Seq(L(a)')
    BY <1>2, SeqMonotonic DEF Traced
  <2>2. ASSUME NEW a \in Apps, App(a), todo' # todo PROVE \A b \in Apps : todo'[b] \in Seq(L(b)')
    <3>1. PICK rest \in Seq(L(a)) : todo' = [todo EXCEPT ![a] = rest]
      BY <2>2, AppStep DEF Subscribes, Announces, Complains, Serves
    <3> HIDE DEF L
    <3>2. rest \in Seq(L(a)')
      BY <1>2, SeqMonotonic
    <3> QED
      BY <2>1, <3>1, <3>2 DEF Typed
  <2> HIDE DEF L
  <2> QED
    BY <2>1, <2>2, BusStep, SuiteStep DEF Next, appVars
<1>6. WholeLog' \subseteq {l \in AllLines : l.of \in Known'}
  <2>1. WholeLog \subseteq {l \in AllLines : l.of \in Known'}
    BY <1>1 DEF Traced
  <2> QED
    BY <1>1, <2>1, LogStep DEF WholeLog, Mark, logVars, AllLines
<1>7. \A l \in before' : l.of # step' \/ step' \notin Readings
  <2>1. before' = before \/ (before' = WholeLog /\ phase = "baseline" /\ Suite)
    BY LogStep DEF Mark, logVars
  <2>2. CASE before' = WholeLog /\ phase = "baseline" /\ Suite
    <3>1. step' = step /\ step \in Int
      BY <2>2 DEF Suite, WaitForCfs, CheckBoot, TakeBaseline, Send, CheckLogs, CheckHistory, Report, Typed, Enable, Override
    <3>2. \A l \in before' : l.of \in Known
      BY <2>2 DEF Traced
    <3>3. step \in Readings => step \notin Known
      BY <2>2, <3>1 DEF Known, SentUpTo, Readings, Boot, Override
    <3> QED
      BY <3>1, <3>2, <3>3
  <2>3. CASE before' = before /\ step' = step
    BY <2>3 DEF Traced
  <2>4. CASE before' = before /\ CheckLogs
    <3>1. step \in Int /\ step' = step + 1 /\ SentUpTo = step
      BY <2>4 DEF CheckLogs, Typed, SentUpTo, Enable, Override
    <3>2. \A l \in before' : l.of \in Known
      BY <2>4 DEF Traced, WholeLog
    <3>3. step' \in Readings => step' \notin Known
      BY <3>1 DEF Known, Readings, Boot, Override
    <3> QED
      BY <3>2, <3>3
  <2>5. step' = step \/ CheckLogs
    BY AppStep, BusStep DEF Next, suiteVars, Suite, WaitForCfs, CheckBoot, TakeBaseline, Send, CheckHistory, Report
  <2> QED
    BY <2>1, <2>2, <2>3, <2>4, <2>5
<1> QED
  BY <1>3, <1>4, <1>5, <1>6, <1>7 DEF Traced

LEMMA NextSpoken ==
  ASSUME Typed, Traced, Spoken, Next
  PROVE  Spoken'
<1>1. WholeLog \subseteq WholeLog'
  BY LogGrows
<1>2. \A a \in Apps : pc'[a] = "loop" => Hello(a) \in WholeLog'
  <2>1. ASSUME NEW b \in Apps, App(b) PROVE \A a \in Apps : pc'[a] = "loop" => Hello(a) \in WholeLog'
    BY <1>1, <2>1, AppStep DEF Typed, Spoken, Subscribes, Announces, Complains, Serves, WholeLog
  <2> QED
    BY <1>1, <2>1, BusStep, SuiteStep DEF Next, Spoken, appVars
<1>3. \A a \in Apps : todo'[a] # <<>> => pc'[a] = "loop"
  <2>1. ASSUME NEW b \in Apps, App(b) PROVE \A a \in Apps : todo'[a] # <<>> => pc'[a] = "loop"
    <3>1. CASE Subscribes(b)
      BY <3>1 DEF Typed, Spoken, Subscribes
    <3>2. CASE Announces(b)
      BY <3>2 DEF Typed, Spoken, Announces
    <3>3. CASE Complains(b)
      BY <3>3 DEF Typed, Spoken, Complains
    <3>4. CASE Serves(b)
      BY <3>4 DEF Typed, Spoken, Serves
    <3> QED
      BY <2>1, <3>1, <3>2, <3>3, <3>4, AppStep
  <2> QED
    BY <2>1, BusStep, SuiteStep DEF Next, Spoken, appVars
<1>4. \A a \in Apps, l \in WholeLog' : a \in l.says => Hello(a) \in WholeLog' \/ Complain(a) \in WholeLog'
  <2>1. CASE WholeLog' = WholeLog
    BY <2>1 DEF Spoken
  <2>2. ASSUME NEW b \in Apps, NEW new \in AppLines(b), before' = before, after' = after \union {new},
               \/ Announces(b) /\ new = Hello(b)
               \/ Complains(b) /\ new = Complain(b)
               \/ pc[b] = "loop" /\ new \in ReadingLines(b) /\ faults' = faults
        PROVE  \A a \in Apps, l \in WholeLog' : a \in l.says => Hello(a) \in WholeLog' \/ Complain(a) \in WholeLog'
    <3>1. WholeLog' = WholeLog \union {new}
      BY <2>2 DEF WholeLog
    <3>2. Hello(b) \in WholeLog' \/ Complain(b) \in WholeLog'
      BY <2>2, <3>1 DEF Spoken
    <3>3. \A a \in Apps : a \in new.says => a = b
      BY NameFacts
    <3> QED
      BY <3>1, <3>2, <3>3 DEF Spoken
  <2>3. UNCHANGED logVars \/ Mark => WholeLog' = WholeLog
    BY DEF WholeLog, logVars, Mark
  <2> QED
    BY <2>1, <2>2, <2>3, LogStep
<1> QED
  BY <1>2, <1>3, <1>4 DEF Spoken

-----------------------------------------------------------------------------
(* The checks.                                                              *)

(* At the check of a reading, what is new and has the words of the check    *)
(* was written for that reading, if no other sender's was.                  *)
LEMMA CheckEarned ==
  ASSUME Typed, Traced, phase = "check", step \in Readings,
         NEW c \in Steps[step].checks, Found(c, after), \A l \in after : l.of # Others
  PROVE  Found(c, LinesOf(step))
<1>1. \A l \in after : l \in AllLines /\ l.of \in Known /\ l \in WholeLog /\ l.of # 6
  BY DEF Traced, WholeLog, Others, Override
<1>2. SentUpTo = step /\ step \in {2, 3, 4}
  BY DEF SentUpTo, Readings
<1>3. \A l \in after : l.of \in {4, 6} => l.of = step
  BY <1>1, <1>2 DEF Known, Boot, Override
<1>4. CASE step = 2
  <2>1. c = {"RAD_APP", "50.00"}
    BY <1>4, StepFacts
  <2>2. PICK l \in after : "50.00" \in l.says
    BY <2>1 DEF Found
  <2>3. l = Line({"RAD_APP", "50.00"}, 2)
    BY <1>1, <1>3, <1>4, <2>2, WordFacts
  <2>4. l \in LinesOf(step) /\ l.says = c
    BY <1>1, <1>4, <2>1, <2>3 DEF LinesOf, Line
  <2> QED
    BY <2>4 DEF Found
<1>5. CASE step = 3
  <2>1. c = {"THERM_APP", "25.00"}
    BY <1>5, StepFacts
  <2>2. PICK l \in after : "25.00" \in l.says
    BY <2>1 DEF Found
  <2>3. l = Line({"THERM_APP", "25.00"}, 3)
    BY <1>1, <2>2, WordFacts
  <2>4. l \in LinesOf(step) /\ l.says = c
    BY <1>1, <1>5, <2>1, <2>3 DEF LinesOf, Line
  <2> QED
    BY <2>4 DEF Found
<1>6. CASE step = 4
  <2>1. c \in {{"160.00"}, {"FDIR", "TRIGGERED"}, {"SOLAR", "CLOSE"}}
    BY <1>6, StepFacts
  <2>2. PICK w \in c : w \in {"160.00", "FDIR", "SOLAR"}
    BY <2>1
  <2>3. PICK l \in after : w \in l.says
    BY DEF Found
  <2>4. l.of \in {4, 6} /\ c \subseteq l.says
    BY <1>1, <2>1, <2>2, <2>3, WordFacts
  <2>5. l \in LinesOf(step)
    BY <1>1, <1>3, <2>4 DEF LinesOf
  <2> QED
    BY <2>4, <2>5 DEF Found
<1> QED
  BY <1>2, <1>4, <1>5, <1>6

(* Nothing written for the reading of the step is hidden by its baseline.   *)
LEMMA NothingHidden ==
  ASSUME Traced, step \in Readings
  PROVE  LinesOf(step) \subseteq NewLogs
BY DEF Traced, LinesOf, NewLogs, WholeLog

LEMMA FoundMonotonic ==
  ASSUME NEW c, NEW S, NEW T, S \subseteq T, Found(c, S)
  PROVE  Found(c, T)
BY DEF Found

LEMMA LoopsStay ==
  ASSUME Typed, Traced, Spoken, Next, faults' = faults, NEW a \in Apps, pc[a] = "loop"
  PROVE  pc'[a] = "loop"
<1>1. ASSUME NEW b \in Apps, App(b) PROVE pc'[a] = "loop"
  <2>1. Subscribes(b) \/ Announces(b) \/ Serves(b)
    BY <1>1, AppStep DEF Complains, Typed
  <2> QED
    BY <2>1 DEF Subscribes, Announces, Serves, Typed
<1> QED
  BY <1>1, BusStep, SuiteStep DEF Next, appVars

LEMMA DoneStays ==
  ASSUME Typed, Traced, Spoken, Next, NEW k \in Readings, Done(k)
  PROVE  Done(k)'
<1>1. LinesOf(k) \subseteq LinesOf(k)'
  BY LogGrows DEF Readings
<1> QED
  BY <1>1, FoundMonotonic DEF Done, Found

(* The parts of Earned that are about the log.                              *)
LEMMA NextEarnedLog ==
  ASSUME Typed, Traced, Spoken, Earned, Next, faults' = 0
  PROVE  /\ faults = 0
         /\ \A a \in Apps : Complain(a) \notin WholeLog'
         /\ \A a \in Apps : Hello(a) \in WholeLog' => pc'[a] = "loop"
<1>1. faults = 0
  BY NextTyped DEF Typed
<1>2. CASE WholeLog' = WholeLog
  BY <1>1, <1>2, LoopsStay DEF Earned
<1>3. ASSUME NEW b \in Apps, NEW new \in AppLines(b), before' = before, after' = after \union {new},
             \/ Announces(b) /\ new = Hello(b)
             \/ Complains(b) /\ new = Complain(b)
             \/ pc[b] = "loop" /\ new \in ReadingLines(b) /\ faults' = faults
      PROVE  /\ \A a \in Apps : Complain(a) \notin WholeLog'
             /\ \A a \in Apps : Hello(a) \in WholeLog' => pc'[a] = "loop"
  <2>1. WholeLog' = WholeLog \union {new}
    BY <1>3 DEF WholeLog
  <2>2. (Announces(b) /\ new = Hello(b)) \/ new \in ReadingLines(b)
    BY <1>1, <1>3 DEF Complains
  <2>3. \A a \in Apps : Complain(a) # new
    <3> SUFFICES ASSUME NEW a \in Apps, Complain(a) = new PROVE FALSE
      OBVIOUS
    <3>1. a = b
      BY <1>3, NameFacts
    <3> QED
      BY <2>2, <3>1, NameFacts
  <2>4. \A a \in Apps : Hello(a) = new => pc'[a] = "loop"
    <3> SUFFICES ASSUME NEW a \in Apps, Hello(a) = new PROVE pc'[a] = "loop"
      OBVIOUS
    <3>1. a = b
      BY <1>3, NameFacts
    <3>2. Announces(a)
      BY <2>2, <3>1, NameFacts
    <3> QED
      BY <3>2 DEF Announces, Typed
  <2> QED
    BY <1>1, <2>1, <2>3, <2>4, LoopsStay DEF Earned
<1>4. UNCHANGED logVars \/ Mark => WholeLog' = WholeLog
  BY DEF WholeLog, logVars, Mark
<1> QED
  BY <1>1, <1>2, <1>3, <1>4, LogStep

(* The parts that are about the suite: its step must have been successful.  *)
LEMMA SuiteEarns ==
  ASSUME Typed, Traced, Spoken, Earned, Suite, faults' = 0, faults = 0
  PROVE  /\ phase' \in {"send", "check"} /\ step' \in Readings => baseline' = "taken"
         /\ ~failures' /\ phase' \notin {"wait", "boot", "ended"} => \A a \in Apps : pc[a] = "loop"
         /\ ~failures' /\ phase' # "ended" => \A k \in Readings : k < step' => Done(k)
         /\ exit' = "0" => \/ exit = "0"
                           \/ (\A a \in Apps : pc[a] = "loop") /\ (\A k \in Readings : Done(k))
<1>1. CASE WaitForCfs
  <2>1. UNCHANGED step /\ (phase' \in {"wait", "boot"} \/ (phase' = "ended" /\ exit' = "1"))
        /\ (phase' \in {"wait", "boot"} => exit' = exit)
    BY <1>1 DEF WaitForCfs, Ends
  <2>2. step = 1
    BY <1>1 DEF WaitForCfs, Typed, Enable
  <2> QED
    BY <2>1, <2>2 DEF Readings
<1>2. CASE CheckBoot
  <2>1. phase' = "baseline" /\ step' = 1 /\ exit' = exit
    BY <1>2, FollowingFacts DEF CheckBoot, Typed, Enable
  <2>2. Look(BootChecks, WholeLog)
    BY <1>2 DEF CheckBoot, GetCfsLogs, Fault
  <2>3. ~failures' => \A a \in Apps : Found({a, "Initialized"}, WholeLog)
    BY <2>2 DEF Look, Record, BootChecks
  <2>4. \A a \in Apps : Found({a, "Initialized"}, WholeLog) => pc[a] = "loop"
    BY DEF Found, Spoken, Earned
  <2>5. ~failures' => \A a \in Apps : pc[a] = "loop"
    BY <2>3, <2>4
  <2> QED
    BY <2>1, <2>5 DEF Readings
<1>3. CASE TakeBaseline
  BY <1>3, FollowingFacts DEF TakeBaseline, Fault, Earned
<1>4. CASE Send
  <2>1. phase = "send" /\ phase' = "check" /\ UNCHANGED <<step, baseline, exit>>
    BY <1>4, FollowingFacts DEF Send, Fault
  <2>2. ~Fault
    BY DEF Fault
  <2>3. failures' = failures \/ Record({{"sent"}}, {})
    BY <1>4, <2>2 DEF Send
  <2>4. ~failures' => ~failures
    BY <2>3 DEF Record
  <2> QED
    BY <2>1, <2>4 DEF Earned
<1>5. CASE CheckLogs
  <2>1. /\ phase = "check" /\ step' = step + 1 /\ phase' \in {"baseline", "send"} /\ exit' = exit
        /\ phase' = "send" => step' = Override
        /\ Look(Steps[step].checks, NewLogs)
    BY <1>5, FollowingFacts DEF CheckLogs, GetCfsLogs, Fault
  <2>2. ~failures' => ~failures /\ \A c \in Steps[step].checks : Found(c, NewLogs)
    BY <2>1 DEF Look, Record
  <2>3. ASSUME ~failures', step \in Readings PROVE Done(step)
    <3>1. NewLogs = after
      BY <2>1, <2>3 DEF Earned, NewLogs
    <3>2. \A l \in after : l.of # Others
      <4>1. SentUpTo <= Override /\ SentUpTo \in Int
        BY DEF SentUpTo, Typed, Enable, Override
      <4>2. \A l \in after : l.of \in Known
        BY DEF Traced, WholeLog
      <4> QED
        BY <4>1, <4>2 DEF Known, Others, Override, Boot
    <3> QED
      BY <2>1, <2>2, <2>3, <3>1, <3>2, CheckEarned DEF Done
  <2>4. ~failures' => \A k \in Readings : k < step' => Done(k)
    <3> SUFFICES ASSUME ~failures', NEW k \in Readings, k < step' PROVE Done(k)
      OBVIOUS
    <3>1. k < step \/ k = step
      BY <2>1 DEF Readings, Typed, Enable, Override
    <3> QED
      BY <2>1, <2>2, <2>3, <3>1 DEF Earned
  <2> QED
    BY <2>1, <2>2, <2>4 DEF Earned, Readings, Override
<1>6. CASE CheckHistory
  <2>1. phase = "check" /\ phase' = "replay" /\ UNCHANGED <<step, baseline, exit>> /\ (~failures' => ~failures)
    BY <1>6 DEF CheckHistory, Record
  <2> QED
    BY <2>1 DEF Earned
<1>7. CASE Report
  <2>1. phase = "replay" /\ phase' = "ended" /\ step' = step /\ (exit' = "0" => ~failures) /\ step = 5
    BY <1>7 DEF Report, Ends, Typed, Override
  <2>2. \A k \in Readings : k < step
    BY <2>1 DEF Readings
  <2> QED
    BY <2>1, <2>2 DEF Earned
<1> QED
  BY <1>1, <1>2, <1>3, <1>4, <1>5, <1>6, <1>7 DEF Suite

LEMMA NextEarned ==
  ASSUME Typed, Traced, Spoken, Earned, Next
  PROVE  Earned'
<1>1. exit' = "0" => phase' = "ended"
  <2>1. CASE Suite
    BY <2>1 DEF Earned, Suite, WaitForCfs, CheckBoot, TakeBaseline, Send, CheckLogs, CheckHistory, Report, Ends
  <2> QED
    BY <2>1, AppStep, BusStep DEF Next, Earned, suiteVars
<1>2. SUFFICES ASSUME faults' = 0
      PROVE  /\ phase' \in {"send", "check"} /\ step' \in Readings => baseline' = "taken"
             /\ ~failures' =>
                  /\ phase' \notin {"wait", "boot", "ended"} => \A a \in Apps : pc'[a] = "loop"
                  /\ phase' # "ended" => \A k \in Readings : k < step' => Done(k)'
             /\ exit' = "0" => (\A a \in Apps : pc'[a] = "loop") /\ (\A k \in Readings : Done(k)')
  <2>1. faults' = 0 => /\ \A a \in Apps : Complain(a) \notin WholeLog'
                       /\ \A a \in Apps : Hello(a) \in WholeLog' => pc'[a] = "loop"
    BY NextEarnedLog
  <2>2. \A a \in Apps : Hello(a)' = Hello(a) /\ Complain(a)' = Complain(a)
    BY DEF Hello, Complain, Line
  <2> QED
    BY <1>1, <1>2, <2>1, <2>2 DEF Earned
<1>3. faults = 0
  BY <1>2, NextEarnedLog
<1>4. (\A a \in Apps : pc[a] = "loop" => pc'[a] = "loop") /\ (\A k \in Readings : Done(k) => Done(k)')
  BY <1>2, <1>3, LoopsStay, DoneStays
<1>5. CASE Suite
  <2>1. exit = "0" => (\A a \in Apps : pc[a] = "loop") /\ (\A k \in Readings : Done(k))
    BY <1>3 DEF Earned
  <2> QED
    BY <1>2, <1>3, <1>4, <1>5, <2>1, SuiteEarns
<1>6. CASE UNCHANGED suiteVars
  BY <1>3, <1>4, <1>6 DEF Earned, suiteVars
<1> QED
  BY <1>5, <1>6, AppStep, BusStep DEF Next

-----------------------------------------------------------------------------
(* The invariant.                                                           *)
Safe == Typed /\ Traced /\ Spoken /\ Earned

LEMMA InitSafe == Init => Safe
<1> SUFFICES ASSUME Init PROVE Safe
  OBVIOUS
<1>1. Typed
  <2>1. pc \in [Apps -> {"init", "subscribed", "loop", "exited"}] /\ DOMAIN pipe = Apps /\ DOMAIN todo = Apps
    BY DEF Init
  <2>2. phase = "wait" /\ step = 1 /\ baseline = "zero" /\ failures = FALSE /\ faults = 0
    BY DEF Init, Enable
  <2>3. phase \in Phases /\ baseline \in {"taken", "zero"} /\ failures \in BOOLEAN
    BY <2>2 DEF Phases
  <2>4. step \in Enable..Override /\ faults \in Nat /\ step = Enable /\ phase # "replay"
    BY <2>2 DEF Enable, Override
  <2> QED
    BY <2>1, <2>3, <2>4 DEF Typed
<1>2. \A S : <<>> \in Seq(S)
  BY EmptySeq
<1>3. Traced
  BY <1>2 DEF Init, Traced, WholeLog
<1>4. Spoken /\ Earned
  BY DEF Init, Spoken, Earned, WholeLog, Readings, Enable
<1> QED
  BY <1>1, <1>3, <1>4 DEF Safe

LEMMA NextSafe == Safe /\ [Next]_vars => Safe'
<1>1. ASSUME Safe, Next PROVE Safe'
  BY <1>1, NextTyped, NextTraced, NextSpoken, NextEarned DEF Safe
<1>2. ASSUME Safe, UNCHANGED vars PROVE Safe'
  <2> USE <1>2 DEF vars, appVars, logVars, suiteVars
  <2>1. SentUpTo' = SentUpTo
    BY DEF SentUpTo
  <2>2. Known' = Known
    BY <2>1 DEF Known
  <2>3. WholeLog' = WholeLog
    BY DEF WholeLog
  <2>4. \A k \in Readings : Done(k)' = Done(k)
    BY DEF Done, LinesOf, WholeLog
  <2>5. Typed'
    BY DEF Safe, Typed
  <2>6. Traced'
    BY <2>2, <2>3 DEF Safe, Traced
  <2>7. Spoken'
    BY <2>3 DEF Safe, Spoken, Hello, Complain, Line
  <2>8. Earned'
    BY <2>3, <2>4 DEF Safe, Earned, Hello, Complain, Line
  <2> QED
    BY <2>5, <2>6, <2>7, <2>8 DEF Safe
<1> QED
  BY <1>1, <1>2

(* Types, the origin of every line and reading, and what a run without     *)
(* failure has found so far, hold together in every state of the suite and *)
(* the applications (run_verification and the applications' main loops).   *)
THEOREM AlwaysSafe == Spec => []Safe
BY InitSafe, NextSafe, PTL DEF Spec

(* Exit status 0 is earned as a whole, for any number of tries, faults and  *)
(* interleavings of the suite with the applications (integration_suite.py,  *)
(* run_verification and summary): Earned is what makes it inductive.        *)
THEOREM SuccessIsEarned == Spec => []SuccessMeansWorking
<1>1. Safe => SuccessMeansWorking
  BY DEF Safe, Earned, SuccessMeansWorking
<1> QED
  BY <1>1, AlwaysSafe, PTL

(* Which step records a verdict about a reading, and which about a boot.    *)
LEMMA WhoRecords ==
  ASSUME Safe, Next, NEW c, NEW word \in {"PASS", "FAIL"}, <<c, word>> \in verdict' \ verdict,
         c \in Steps[step].checks \/ \E a \in Apps : c = {a, "Initialized"}
  PROVE  \/ CheckLogs /\ step \in Readings /\ c \in Steps[step].checks
         \/ CheckBoot /\ c \in BootChecks /\ c \notin Steps[step].checks
<1>1. Suite
  BY AppStep, BusStep DEF Safe, Next, suiteVars
<1>2. step \in 1..5 /\ (phase \in {"wait", "boot"} => step = 1)
  BY DEF Safe, Typed, Enable, Override
<1>3. step \notin Readings => Steps[step].checks = {}
  BY <1>2, StepFacts DEF Readings
<1>4. c \notin {{"cFS"}, {"sent"}, {"dispatched"}}
  <2>1. \A d \in Steps[step].checks : d \notin {{"cFS"}, {"sent"}, {"dispatched"}}
    <3>1. CASE step = 2
      BY <3>1, StepFacts
    <3>2. CASE step = 3
      BY <3>2, StepFacts
    <3>3. CASE step = 4
      <4>1. \A d \in Steps[4].checks : "cFS" \notin d /\ "sent" \notin d /\ "dispatched" \notin d
        BY StepFacts
      <4> QED
        BY <3>3, <4>1
    <3> QED
      BY <1>3, <3>1, <3>2, <3>3 DEF Readings
  <2>2. \A a \in Apps : {a, "Initialized"} \notin {{"cFS"}, {"sent"}, {"dispatched"}}
    OBVIOUS
  <2> QED
    BY <2>1, <2>2
<1>5. ASSUME NEW d, Record({d}, {}) \/ Record({}, {d}) PROVE c = d
  BY <1>5 DEF Record
<1>6. CASE WaitForCfs
  BY <1>4, <1>5, <1>6 DEF WaitForCfs
<1>7. CASE CheckBoot
  <2>1. c \in BootChecks
    BY <1>7 DEF CheckBoot, Look, Record
  <2>2. Steps[step].checks = {}
    BY <1>2, <1>3, <1>7 DEF CheckBoot, Readings
  <2> QED
    BY <1>7, <2>1, <2>2
<1>8. CASE TakeBaseline
  BY <1>8 DEF TakeBaseline
<1>9. CASE Send
  BY <1>4, <1>5, <1>9 DEF Send
<1>10. CASE CheckLogs
  <2>1. c \in Steps[step].checks
    BY <1>10 DEF CheckLogs, Look, Record
  <2> QED
    BY <1>3, <1>10, <2>1
<1>11. CASE CheckHistory
  BY <1>4, <1>5, <1>11 DEF CheckHistory
<1>12. CASE Report
  BY <1>12 DEF Report
<1> QED
  BY <1>1, <1>6, <1>7, <1>8, <1>9, <1>10, <1>11, <1>12 DEF Suite

(* A check passes only for what was written for its own reading, with the   *)
(* two exceptions the property names, and "initialised" only after the      *)
(* application's own word (integration_suite.py, check_logs and             *)
(* get_new_cfs_logs).                                                       *)
THEOREM VerdictsAreEarned == Spec => VerdictIsEarned
<1> DEFINE ReadingEarned == \A c \in Steps[step].checks : Passes(c) =>
                          \/ Found(c, LinesOf(step))
                          \/ baseline = "zero"
                          \/ \E l \in after : l.of = Others
           BootEarned == \A a \in Apps : Passes({a, "Initialized"}) =>
                      \E l \in WholeLog : l.says \in {{a, "Initialized"}, {a}}
<1>1. ASSUME Safe, Next PROVE ReadingEarned
  <2> SUFFICES ASSUME NEW c \in Steps[step].checks, Passes(c), baseline # "zero",
                      \A l \in after : l.of # Others
               PROVE  Found(c, LinesOf(step))
    OBVIOUS
  <2>1. CheckLogs /\ step \in Readings
    BY <1>1, WhoRecords DEF Passes
  <2>2. PICK text \in {NewLogs, {}} : Look(Steps[step].checks, text)
    BY <2>1 DEF CheckLogs
  <2>3. Found(c, text) /\ text \subseteq after
    BY <2>2 DEF Look, Record, Passes, NewLogs
  <2>4. Found(c, after)
    BY <2>3, FoundMonotonic
  <2> QED
    BY <1>1, <2>1, <2>4, CheckEarned DEF Safe, CheckLogs
<1>2. ASSUME Safe, Next PROVE BootEarned
  <2> SUFFICES ASSUME NEW a \in Apps, Passes({a, "Initialized"})
               PROVE  \E l \in WholeLog : l.says \in {{a, "Initialized"}, {a}}
    OBVIOUS
  <2>1. \A d \in Steps[step].checks : d # {a, "Initialized"}
    <3>1. step \in 1..5
      BY <1>2 DEF Safe, Typed, Enable, Override
    <3>2. CASE step \in {1, 5}
      BY <3>2, StepFacts
    <3>3. CASE step = 2
      BY <3>3, StepFacts
    <3>4. CASE step = 3
      BY <3>4, StepFacts
    <3>5. CASE step = 4
      BY <3>5, StepFacts
    <3> QED
      BY <3>1, <3>2, <3>3, <3>4, <3>5
  <2>2. CheckBoot
    BY <1>2, <2>1, WhoRecords DEF Passes
  <2>3. PICK text \in {WholeLog, {}} : Look(BootChecks, text)
    BY <2>2 DEF CheckBoot
  <2>4. Found({a, "Initialized"}, text) /\ text \subseteq WholeLog
    BY <2>3 DEF Look, Record, Passes
  <2>5. PICK l \in WholeLog : a \in l.says
    BY <2>4 DEF Found
  <2>6. Hello(a) \in WholeLog \/ Complain(a) \in WholeLog
    BY <1>2, <2>5 DEF Safe, Spoken
  <2> QED
    BY <2>6 DEF Hello, Complain, Line
<1>3. ASSUME UNCHANGED vars PROVE ReadingEarned /\ BootEarned
  BY <1>3 DEF Passes, vars, suiteVars
<1>4. Safe /\ [Next]_vars => [ReadingEarned /\ BootEarned]_vars
  BY <1>1, <1>2
<1> QED
  BY <1>4, AlwaysSafe, PTL DEF Spec, VerdictIsEarned

(* A check fails only when its words were not written yet or docker failed: *)
(* the baseline hides nothing that was written for the reading sent after   *)
(* it (integration_suite.py, get_new_cfs_logs).                             *)
THEOREM AlarmsAreReal == Spec => NoFalseAlarm
<1> DEFINE Alarm == \A c \in Steps[step].checks :
                      Fails(c) => ~Found(c, LinesOf(step)) \/ faults' > faults
<1>1. ASSUME Safe, Next PROVE Alarm
  <2> SUFFICES ASSUME NEW c \in Steps[step].checks, Fails(c), ~(faults' > faults)
               PROVE  ~Found(c, LinesOf(step))
    OBVIOUS
  <2>1. CheckLogs /\ step \in Readings
    BY <1>1, WhoRecords DEF Fails
  <2>2. Look(Steps[step].checks, NewLogs)
    BY <1>1, <2>1 DEF CheckLogs, GetCfsLogs, Fault, Safe, Typed
  <2>3. ~Found(c, NewLogs)
    BY <2>2 DEF Look, Record, Fails
  <2> QED
    BY <1>1, <2>1, <2>3, NothingHidden, FoundMonotonic DEF Safe
<1>2. Safe /\ [Next]_vars => [Alarm]_vars
  BY <1>1
<1> QED
  BY <1>2, AlwaysSafe, PTL DEF Spec, NoFalseAlarm

=============================================================================
