-------------------------- MODULE TelemetryReceiver --------------------------
(***************************************************************************)
(* TelemetryReceiver of ground_station/telemetry_receiver.py: a background *)
(* thread reads telemetry packets from a UDP socket, keeps the most recent *)
(* ones and hands each to the registered callbacks.                        *)
(*                                                                         *)
(* One caller registers callbacks and runs start() and stop(), statement by *)
(* statement, in any order; every start that is not a no-op creates one     *)
(* more listener thread, which runs _listen_loop.  All of them share the    *)
(* attributes of the one object, the socket among them: _listen_loop reads  *)
(* self._sock afresh at every use.                                          *)
(*                                                                         *)
(* External: the network and the operating system's sockets.  A packet is  *)
(* queued on the socket bound last and still open; recvfrom returns the    *)
(* oldest packet, times out on an empty queue, and fails on a socket that  *)
(* is closed; bind can fail (the port is taken).                           *)
(***************************************************************************)
EXTENDS Integers, Sequences

CONSTANTS
  MaxThreads,     \* bound: listener threads ever created
  MaxPackets,     \* bound: packets sent to the port
  BufferSize,     \* buffer_size (500 in the program)
  NumCallbacks,   \* bound: callbacks registered (1 in the program)
  BindMayFail     \* the port may be taken

ASSUME MaxThreadsAssumption     == MaxThreads \in Nat
ASSUME MaxPacketsAssumption     == MaxPackets \in Nat
ASSUME BufferSizeAssumption     == BufferSize \in Nat \ {0}
ASSUME NumCallbacksAssumption   == NumCallbacks \in Nat \ {0}
ASSUME BindMayFailAssumption    == BindMayFail \in BOOLEAN

VARIABLES
  \* attributes of the object
  running, stop_event, sock, thread, buffer, packets_received,
  callbacks, \* how many are registered
  \* the caller of start and stop
  callerPc,
  \* the listener threads
  pc,        \* pc[t]: where thread t is in _listen_loop
  rsock,     \* rsock[t]: the socket thread t called recvfrom on
  entry,     \* entry[t]: the packet thread t is handling
  cb,        \* cb[t]: the callback thread t calls next
  \* external
  socket,    \* socket[t]: state of the socket thread t created
  queue,     \* queue[t]: the packets waiting on it
  sent,      \* packets sent so far
  \* history
  log,       \* every packet put in the buffer, in that order
  seen,      \* seen[c]: the packets callback c was called with
  since,     \* since[c]: the packets stored before callback c was registered
  gaveUp     \* a join of stop() timed out, with the thread alive

objVars    == <<running, stop_event, sock, thread, buffer, packets_received, callbacks>>
threadVars == <<pc, rsock, entry, cb>>
extVars    == <<socket, queue, sent>>
histVars   == <<log, seen, since, gaveUp>>
vars       == <<objVars, callerPc, threadVars, extVars, histVars>>

Threads   == 1..MaxThreads
Callbacks == 1..NumCallbacks
None      == 0
Packets   == [id : 1..MaxPackets, short : BOOLEAN]
NoPacket  == [id |-> 0, short |-> TRUE]

CallerPCs == {"idle", "startClear", "startThread", "startRunning",
              "stopClose", "stopJoin", "stopRunning"}
PCs       == {"unborn", "create", "bind", "check", "recv", "handle", "callback", "error", "close", "dead"}

-----------------------------------------------------------------------------
Init ==
  /\ running = FALSE
  /\ stop_event = FALSE
  /\ sock = None
  /\ thread = None
  /\ buffer = <<>>
  /\ packets_received = 0
  /\ callbacks = 0
  /\ callerPc = "idle"
  /\ pc = [t \in Threads |-> "unborn"]
  /\ rsock = [t \in Threads |-> None]
  /\ entry = [t \in Threads |-> NoPacket]
  /\ cb = [t \in Threads |-> 1]
  /\ socket = [t \in Threads |-> "none"]
  /\ queue = [t \in Threads |-> <<>>]
  /\ sent = 0
  /\ log = <<>>
  /\ seen = [c \in Callbacks |-> <<>>]
  /\ since = [c \in Callbacks |-> 0]
  /\ gaveUp = FALSE

-----------------------------------------------------------------------------
(* The operating system.                                                    *)

(* UDP sockets may share the port (SO_REUSEADDR): the one bound last gets   *)
(* the packets.                                                             *)
Deliver ==
  /\ sent < MaxPackets
  /\ sent' = sent + 1
  /\ \E short \in BOOLEAN :
       queue' = [t \in Threads |->
                   IF socket[t] = "bound" /\ \A u \in Threads : socket[u] = "bound" => u <= t
                     THEN Append(queue[t], [id |-> sent + 1, short |-> short])
                     ELSE queue[t]]
  /\ UNCHANGED <<objVars, callerPc, threadVars, socket, histVars>>

(* socket.close: what waits on the socket is gone.                          *)
CloseSocket(s) ==
  /\ socket' = [t \in Threads |-> IF t = s THEN "closed" ELSE socket[t]]
  /\ queue'  = [t \in Threads |-> IF t = s THEN <<>> ELSE queue[t]]

-----------------------------------------------------------------------------
(* register_callback(): the list is not locked.                             *)
RegisterCallback ==
  /\ callerPc = "idle" /\ callbacks < NumCallbacks
  /\ callbacks' = callbacks + 1
  /\ since' = [since EXCEPT ![callbacks'] = Len(log)]
  /\ UNCHANGED <<running, stop_event, sock, thread, buffer, packets_received, callerPc,
                 threadVars, extVars, log, seen, gaveUp>>

(* start().                                                                 *)

CallerGoes(here, next) == callerPc = here /\ callerPc' = next

(* Faulty variant: no test of running.                                      *)
StartsAlways == TRUE

MayStart == ~running

Start ==
  /\ MayStart
  /\ \E t \in Threads : pc[t] = "unborn"   \* the bound MaxThreads
  /\ CallerGoes("idle", "startClear")
  /\ UNCHANGED <<objVars, threadVars, extVars, histVars>>

StartClear ==
  /\ CallerGoes("startClear", "startThread")
  /\ stop_event' = FALSE
  /\ UNCHANGED <<running, sock, thread, buffer, packets_received, callbacks, threadVars, extVars, histVars>>

StartThread ==
  /\ CallerGoes("startThread", "startRunning")
  /\ \E t \in Threads :
       /\ pc[t] = "unborn" /\ \A u \in Threads : u < t => pc[u] # "unborn"
       /\ thread' = t
       /\ pc' = [pc EXCEPT ![t] = "create"]
  /\ UNCHANGED <<running, stop_event, sock, buffer, packets_received, callbacks, rsock, entry, cb, extVars, histVars>>

StartRunning ==
  /\ CallerGoes("startRunning", "idle")
  /\ running' = TRUE
  /\ UNCHANGED <<stop_event, sock, thread, buffer, packets_received, callbacks, threadVars, extVars, histVars>>

(* stop().                                                                  *)
Stop ==
  /\ CallerGoes("idle", "stopClose")
  /\ stop_event' = TRUE
  /\ UNCHANGED <<running, sock, thread, buffer, packets_received, callbacks, threadVars, extVars, histVars>>

StopClose ==
  /\ CallerGoes("stopClose", "stopJoin")
  /\ CloseSocket(sock)
  /\ UNCHANGED <<objVars, threadVars, sent, histVars>>

(* Faulty variant: no join.                                                 *)
NotJoined == TRUE

(* join(timeout=3.0) returns when the thread has ended, or while a callback *)
(* keeps it from ending for longer; recvfrom times out after one second.    *)
Joined == thread # None => pc[thread] \in {"dead", "callback"}

StopJoin ==
  /\ CallerGoes("stopJoin", "stopRunning")
  /\ Joined
  /\ gaveUp' = (gaveUp \/ (thread # None /\ pc[thread] = "callback"))
  /\ UNCHANGED <<objVars, threadVars, extVars, log, seen, since>>

StopRunning ==
  /\ CallerGoes("stopRunning", "idle")
  /\ running' = FALSE
  /\ UNCHANGED <<stop_event, sock, thread, buffer, packets_received, callbacks, threadVars, extVars, histVars>>

-----------------------------------------------------------------------------
(* _listen_loop, run by thread t.                                           *)

ThreadGoes(t, here, next) == pc[t] = here /\ pc' = [pc EXCEPT ![t] = next]

CreateSocket(t) ==
  /\ ThreadGoes(t, "create", "bind")
  /\ sock' = t
  /\ socket' = [socket EXCEPT ![t] = "open"]
  /\ UNCHANGED <<running, stop_event, thread, buffer, packets_received, callbacks, callerPc,
                 rsock, entry, cb, queue, sent, histVars>>

(* The exception of a failed bind ends the thread; running stays as it is.  *)
Bind(t) ==
  \/ /\ ThreadGoes(t, "bind", "check")
     /\ socket[sock] = "open"
     /\ socket' = [socket EXCEPT ![sock] = "bound"]
     /\ UNCHANGED <<objVars, callerPc, rsock, entry, cb, queue, sent, histVars>>
  \/ /\ ThreadGoes(t, "bind", "dead")
     /\ BindMayFail \/ socket[sock] # "open"
     /\ UNCHANGED <<objVars, callerPc, rsock, entry, cb, extVars, histVars>>

(* Faulty variant: while True.                                              *)
NeverStopping == FALSE

Stopping == stop_event

(* while not self._stop_event.is_set(): the socket to read is looked up.    *)
CheckStop(t) ==
  /\ ThreadGoes(t, "check", IF Stopping THEN "close" ELSE "recv")
  /\ rsock' = [rsock EXCEPT ![t] = sock]
  /\ UNCHANGED <<objVars, callerPc, entry, cb, extVars, histVars>>

(* recvfrom: a packet, a timeout, or an error.                              *)
RecvPacket(t) ==
  /\ ThreadGoes(t, "recv", "handle")
  /\ queue[rsock[t]] # <<>>
  /\ entry' = [entry EXCEPT ![t] = Head(queue[rsock[t]])]
  /\ queue' = [queue EXCEPT ![rsock[t]] = Tail(@)]
  /\ UNCHANGED <<objVars, callerPc, rsock, cb, socket, sent, histVars>>

RecvTimeout(t) ==
  /\ ThreadGoes(t, "recv", "check")
  /\ queue[rsock[t]] = <<>>
  /\ UNCHANGED <<objVars, callerPc, rsock, entry, cb, extVars, histVars>>

RecvError(t) ==
  /\ ThreadGoes(t, "recv", "error")
  /\ socket[rsock[t]] = "closed"
  /\ UNCHANGED <<objVars, callerPc, rsock, entry, cb, extVars, histVars>>

(* except OSError: leave the loop if stop() was called, or re-raise.        *)
OnError(t) ==
  /\ ThreadGoes(t, "error", IF Stopping THEN "close" ELSE "dead")
  /\ UNCHANGED <<objVars, callerPc, rsock, entry, cb, extVars, histVars>>

(* Faulty variant: a short packet ends the thread.                          *)
ShortEnds == "dead"

AfterShort == "check"

(* A packet below the primary header's size is dropped; any other one is    *)
(* appended and counted under the lock, then the lock is released.          *)
DropShort(t) ==
  /\ ThreadGoes(t, "handle", AfterShort)
  /\ entry[t].short
  /\ UNCHANGED <<objVars, callerPc, rsock, entry, cb, extVars, histVars>>

(* Faulty variant: no bound.                                                *)
AppendUnbounded(seq, x) == Append(seq, x)

(* deque(maxlen=buffer_size).append                                         *)
AppendBounded(seq, x) ==
  IF Len(seq) < BufferSize THEN Append(seq, x) ELSE Append(Tail(seq), x)

Store(t) ==
  /\ ThreadGoes(t, "handle", "callback")
  /\ ~entry[t].short
  /\ buffer' = AppendBounded(buffer, entry[t])
  /\ packets_received' = packets_received + 1
  /\ log' = Append(log, entry[t])
  /\ cb' = [cb EXCEPT ![t] = 1]
  /\ UNCHANGED <<running, stop_event, sock, thread, callbacks, callerPc, rsock, entry, extVars,
                 seen, since, gaveUp>>

(* Faulty variants: an exception skips the other callbacks; the callback is *)
(* handed the newest packet of the buffer instead of the thread's own.      *)
SkipTheRest(t) == NumCallbacks + 1
HandedNewest(t) == log[Len(log)]

NextCallback(t) == cb[t] + 1
Handed(t) == entry[t]

(* One callback; an exception it raises is logged and the next one runs.    *)
Callback(t) ==
  /\ pc[t] = "callback" /\ cb[t] <= callbacks
  /\ seen' = [seen EXCEPT ![cb[t]] = Append(@, Handed(t))]
  /\ cb' = [cb EXCEPT ![t] = NextCallback(t)]
  /\ UNCHANGED <<objVars, callerPc, pc, rsock, entry, extVars, log, since, gaveUp>>

(* The for loop finds no further callback in the list.                      *)
CallbacksEnd(t) ==
  /\ cb[t] > callbacks
  /\ ThreadGoes(t, "callback", "check")
  /\ UNCHANGED <<objVars, callerPc, rsock, entry, cb, extVars, histVars>>

(* The socket closed after the loop is the object's, whoever created it.    *)
CloseAtEnd(t) ==
  /\ ThreadGoes(t, "close", "dead")
  /\ CloseSocket(sock)
  /\ UNCHANGED <<objVars, callerPc, rsock, entry, cb, sent, histVars>>

-----------------------------------------------------------------------------
StartCall == Start \/ StartClear \/ StartThread \/ StartRunning
StopCall  == Stop \/ StopClose \/ StopJoin \/ StopRunning

ListenLoop(t) ==
  \/ CreateSocket(t) \/ Bind(t) \/ CheckStop(t)
  \/ RecvPacket(t) \/ RecvTimeout(t) \/ RecvError(t) \/ OnError(t)
  \/ DropShort(t) \/ Store(t) \/ Callback(t) \/ CallbacksEnd(t) \/ CloseAtEnd(t)

Next == Deliver \/ RegisterCallback \/ StartCall \/ StopCall \/ \E t \in Threads : ListenLoop(t)

Spec == Init /\ [][Next]_vars

(* Threads are scheduled by the operating system, and every callback of the *)
(* program returns; recvfrom returns because of its timeout.  Nobody has to *)
(* call start or stop, but a call that began goes on.                       *)
FairSpec ==
  /\ Spec
  /\ \A t \in Threads : WF_vars(ListenLoop(t))
  /\ WF_vars(callerPc # "idle" /\ (StartCall \/ StopCall))

-----------------------------------------------------------------------------
(* Properties.                                                              *)

TypeOK ==
  /\ running \in BOOLEAN
  /\ stop_event \in BOOLEAN
  /\ sock \in Threads \union {None}
  /\ thread \in Threads \union {None}
  /\ buffer \in Seq(Packets) /\ Len(buffer) <= BufferSize
  /\ packets_received \in Nat
  /\ callbacks \in 0..NumCallbacks
  /\ callerPc \in CallerPCs
  /\ pc \in [Threads -> PCs]
  /\ rsock \in [Threads -> Threads \union {None}]
  /\ entry \in [Threads -> Packets \union {NoPacket}]
  /\ cb \in [Threads -> 1..(NumCallbacks + 1)]
  /\ socket \in [Threads -> {"none", "open", "bound", "closed"}]
  /\ queue \in [Threads -> Seq(Packets)]
  /\ sent \in 0..MaxPackets
  /\ log \in Seq(Packets)
  /\ seen \in [Callbacks -> Seq(Packets)]
  /\ since \in [Callbacks -> Nat]

Alive == {t \in Threads : pc[t] \notin {"unborn", "dead"}}
In(x, seq) == \E i \in DOMAIN seq : seq[i] = x
Registered == 1..callbacks

(* Repeated start and stop calls never leave two threads reading the port,  *)
(* as long as no join of stop() timed out (telemetry_receiver.py:124-125    *)
(* and 142-144).                                                            *)
AtMostOneListener == ~gaveUp => \A t, u \in Alive : t = u

(* After stop() returns there is no listener left (the docstring, line 135, *)
(* and the join of line 143), unless a join timed out.                      *)
StoppedMeansQuiet == callerPc = "idle" /\ ~running /\ ~gaveUp => Alive = {}

(* The class documents running as "Whether the listener thread is active".  *)
RunningMeansListening == callerPc = "idle" /\ running => thread \in Alive

(* A callback, registered before start() or in the midst of traffic, sees   *)
(* every packet stored after it was registered, and at most the one in hand *)
(* before that, in the order of arrival and at most one packet behind the   *)
(* buffer, as long as there is one listener.                                *)
FaithfulRelay == ~gaveUp =>
  /\ \A i, j \in DOMAIN log : i < j => log[i].id < log[j].id
  /\ \A c \in Registered :
       \E skipped \in {since[c] - 1, since[c]} \ {-1} :
         /\ Len(log) - 1 <= skipped + Len(seen[c]) /\ skipped + Len(seen[c]) <= Len(log)
         /\ \A i \in DOMAIN seen[c] : seen[c][i] = log[skipped + i]

(* Even with two listeners at work after a join timed out, none is stored   *)
(* twice or shown twice to a callback, and one that a callback has not seen *)
(* is still being handled.                                                  *)
EachPacketOnce ==
  /\ \A i, j \in DOMAIN log : log[i] = log[j] => i = j
  /\ \A c \in Registered :
       /\ \A i, j \in DOMAIN seen[c] : seen[c][i] = seen[c][j] => i = j
       /\ \A i \in (since[c] + 1)..Len(log) :
            \/ In(log[i], seen[c])
            \/ \E t \in Threads : pc[t] = "callback" /\ entry[t] = log[i]

(* stop() ends the listener, also when it is called while the thread has    *)
(* not created its socket yet, unless its join timed out: then a new start  *)
(* may clear the event before the thread reads it.                          *)
StopTerminates == stop_event ~> (Alive = {} \/ gaveUp)

(* A complete packet that reached the socket is shown to every callback,    *)
(* when all are registered by then, unless stop() is called or two          *)
(* listeners share the socket.                                              *)
PacketsAreShown ==
  \A p \in Packets :
    (~p.short /\ callbacks = NumCallbacks /\ \E t \in Threads : In(p, queue[t]))
      ~> (stop_event \/ gaveUp \/ \A c \in Callbacks : In(p, seen[c]))

=============================================================================
