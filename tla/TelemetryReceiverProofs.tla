----------------------- MODULE TelemetryReceiverProofs -----------------------
(***************************************************************************)
(* Proofs about TelemetryReceiver, for any number of threads, packets and  *)
(* callbacks and any size of the buffer.                                   *)
(***************************************************************************)
EXTENDS TelemetryReceiver, SequenceTheorems, TLAPS

(* A thread has created its socket before it uses self._sock, and handles a *)
(* packet only after it received one.                                       *)
HandsOK ==
  /\ \A t \in Threads : pc[t] \notin {"unborn", "create"} => sock # None
  /\ \A t \in Threads : pc[t] = "recv" => rsock[t] # None
  /\ \A t \in Threads : pc[t] \in {"handle", "callback"} => entry[t] \in Packets

Typed == TypeOK /\ HandsOK

(* Unless a join timed out: only the thread created last is alive, and none *)
(* is while start() or stop() believe that there is none.                   *)
OnlyLastAlive ==
  ~gaveUp =>
    /\ \A t \in Alive : t = thread
    /\ callerPc \in {"startClear", "startThread", "stopRunning"} => Alive = {}
    /\ callerPc = "idle" /\ ~running => Alive = {}

(* Nothing waits on a socket that is not bound.  Unless a join timed out,   *)
(* the threads use their own sockets, and only a thread in its loop has one *)
(* that is bound.                                                           *)
Reading == {"check", "recv", "handle", "callback", "error", "close"}

OwnSockets ==
  /\ \A t \in Threads : pc[t] \in {"unborn", "create"} => socket[t] = "none" /\ sock # t
  /\ \A t \in Threads : socket[t] # "bound" => queue[t] = <<>>
  /\ ~gaveUp =>
       /\ \A t \in Alive : pc[t] # "create" => sock = t
       /\ \A t \in Threads : pc[t] \in {"recv", "error"} => rsock[t] = t
       /\ \A t \in Threads : pc[t] = "error" => socket[t] = "closed"
       /\ \A t \in Threads : socket[t] = "bound" => pc[t] \in Reading

(* Ids grow along every queue.  Unless a join timed out, they also grow     *)
(* from the log over the packet in hand to the packets that wait.           *)
Arrival ==
  /\ \A t \in Threads : \A k \in DOMAIN queue[t] : queue[t][k].id <= sent
  /\ \A t \in Threads : \A k, l \in DOMAIN queue[t] : k < l => queue[t][k].id < queue[t][l].id
  /\ \A t \in Threads : pc[t] \in {"handle", "callback"} => entry[t].id <= sent
  /\ \A i \in DOMAIN log : log[i].id <= sent

InOrder ==
  ~gaveUp =>
    /\ \A i, j \in DOMAIN log : i < j => log[i].id < log[j].id
    /\ \A i \in DOMAIN log, t \in Threads : \A k \in DOMAIN queue[t] : log[i].id < queue[t][k].id
    /\ \A t \in Threads : pc[t] = "handle" =>
         /\ \A i \in DOMAIN log : log[i].id < entry[t].id
         /\ \A u \in Threads : \A k \in DOMAIN queue[u] : entry[t].id < queue[u][k].id

(* Unless a join timed out: what a callback has seen is the log from where  *)
(* it was registered, less the packet in hand if its turn is still to come. *)
ToCome(c) == {t \in Threads : pc[t] = "callback" /\ cb[t] <= c}

SeenUpTo(c, n) ==
  \E skipped \in {since[c] - 1, since[c]} \ {-1} :
    /\ skipped + Len(seen[c]) = n
    /\ \A i \in DOMAIN seen[c] : seen[c][i] = log[skipped + i]

Relayed ==
  /\ \A t \in Threads : pc[t] = "callback" => cb[t] <= callbacks + 1
  /\ \A c \in Callbacks \ Registered : seen[c] = <<>>
  /\ ~gaveUp =>
       /\ \A t \in Threads : pc[t] = "callback" => log # <<>> /\ entry[t] = log[Len(log)]
       /\ \A c \in Registered :
            SeenUpTo(c, IF ToCome(c) = {} THEN Len(log) ELSE Len(log) - 1)

(* A packet is in one place: on one socket, in the hands of one thread, or  *)
(* in the log, and then in the hands of the thread that logged it.          *)
OnePlace ==
  /\ \A t, u \in Threads : \A k \in DOMAIN queue[t], l \in DOMAIN queue[u] :
       queue[t][k].id = queue[u][l].id => t = u
  /\ \A t, u \in Threads : pc[t] \in {"handle", "callback"} /\ pc[u] \in {"handle", "callback"}
                             /\ entry[t].id = entry[u].id => t = u
  /\ \A t, u \in Threads : \A k \in DOMAIN queue[u] :
       pc[t] \in {"handle", "callback"} => entry[t].id # queue[u][k].id
  /\ \A i \in DOMAIN log : 
       /\ \A u \in Threads : \A k \in DOMAIN queue[u] : log[i].id # queue[u][k].id
       /\ \A t \in Threads : pc[t] = "handle" => log[i].id # entry[t].id
  /\ \A i, j \in DOMAIN log : log[i].id = log[j].id => i = j
  /\ \A t \in Threads : pc[t] = "callback" => In(entry[t], log)

ShownOnce ==
  /\ \A c \in Callbacks : \A i \in DOMAIN seen[c] : In(seen[c][i], log)
  /\ \A c \in Callbacks : \A i, j \in DOMAIN seen[c] : seen[c][i] = seen[c][j] => i = j
  /\ \A t \in Threads, c \in Callbacks :
       pc[t] = "callback" /\ cb[t] <= c => ~In(entry[t], seen[c])
  /\ \A c \in Registered : \A i \in (since[c] + 1)..Len(log) :
       In(log[i], seen[c]) \/ \E t \in ToCome(c) : entry[t] = log[i]

-----------------------------------------------------------------------------
(* Sequences.                                                               *)
LEMMA AppendFacts ==
  ASSUME NEW S, NEW s \in Seq(S), NEW x \in S
  PROVE  /\ Append(s, x) \in Seq(S)
         /\ Len(s) \in Nat /\ Len(Append(s, x)) = Len(s) + 1
         /\ DOMAIN s = 1..Len(s)
         /\ DOMAIN Append(s, x) = 1..(Len(s) + 1)
         /\ DOMAIN Append(s, x) = DOMAIN s \union {Len(s) + 1}
         /\ \A i \in DOMAIN s : Append(s, x)[i] = s[i]
         /\ Append(s, x)[Len(s) + 1] = x
<1>1. Len(s) \in Nat /\ DOMAIN s = 1..Len(s)
  BY LenProperties
<1>2. 1..(Len(s) + 1) = 1..Len(s) \union {Len(s) + 1}
  BY <1>1
<1> QED
  BY <1>1, <1>2, AppendProperties

(* Receiving takes the oldest packet and leaves the others in their order.  *)
LEMMA TailFacts ==
  ASSUME NEW S, NEW s \in Seq(S), s # <<>>
  PROVE  /\ Head(s) \in S /\ Tail(s) \in Seq(S)
         /\ 1 \in DOMAIN s /\ Head(s) = s[1]
         /\ Len(s) \in Nat \ {0} /\ Len(Tail(s)) = Len(s) - 1
         /\ \A i \in DOMAIN Tail(s) : i \in Nat /\ i + 1 \in DOMAIN s /\ 1 < i + 1 /\ Tail(s)[i] = s[i + 1]
<1>1. Len(s) \in Nat \ {0} /\ DOMAIN s = 1..Len(s)
  BY LenProperties, EmptySeq
<1>2. Head(s) \in S /\ Head(s) = s[1] /\ Tail(s) \in Seq(S) /\ Len(Tail(s)) = Len(s) - 1
      /\ \A i \in 1..Len(Tail(s)) : Tail(s)[i] = s[i + 1]
  BY <1>1, HeadTailProperties, ElementOfSeq
<1>3. DOMAIN Tail(s) = 1..(Len(s) - 1)
  BY <1>2, LenProperties
<1> QED
  BY <1>1, <1>2, <1>3

(* The buffer never grows beyond its bound.                                 *)
LEMMA BufferBounded ==
  ASSUME NEW seq \in Seq(Packets), Len(seq) <= BufferSize, NEW x \in Packets
  PROVE  AppendBounded(seq, x) \in Seq(Packets) /\ Len(AppendBounded(seq, x)) <= BufferSize
<1>1. CASE Len(seq) < BufferSize
  BY <1>1, AppendFacts, BufferSizeAssumption DEF AppendBounded
<1>2. CASE ~(Len(seq) < BufferSize)
  <2>1. Len(seq) = BufferSize /\ seq # <<>>
    BY <1>2, LenProperties, EmptySeq, BufferSizeAssumption
  <2>2. Tail(seq) \in Seq(Packets) /\ Len(Tail(seq)) = BufferSize - 1
    BY <2>1, TailFacts
  <2> QED
    BY <1>2, <2>2, AppendFacts, BufferSizeAssumption DEF AppendBounded
<1> QED
  BY <1>1, <1>2

LEMMA PacketIds == \A p \in Packets : p.id \in Nat
BY MaxPacketsAssumption DEF Packets

(* One thread moves, the others stay where they are.                        *)
LEMMA ThreadMoves ==
  ASSUME TypeOK, NEW t \in Threads, NEW here, NEW next \in PCs, ThreadGoes(t, here, next)
  PROVE  /\ pc[t] = here /\ pc'[t] = next /\ pc' \in [Threads -> PCs]
         /\ \A u \in Threads \ {t} : pc'[u] = pc[u]
BY DEF TypeOK, ThreadGoes

-----------------------------------------------------------------------------
(* Type correctness.                                                        *)
LEMMA InitTyped == Init => Typed
<1> SUFFICES ASSUME Init PROVE Typed
  OBVIOUS
<1>1. <<>> \in Seq(Packets) /\ Len(<<>>) = 0
  BY EmptySeq
<1>2. HandsOK
  BY DEF Init, HandsOK
<1>3. /\ buffer \in Seq(Packets) /\ Len(buffer) <= BufferSize
      /\ log \in Seq(Packets) /\ queue \in [Threads -> Seq(Packets)] /\ seen \in [Callbacks -> Seq(Packets)]
  BY <1>1, BufferSizeAssumption DEF Init
<1>4. /\ cb \in [Threads -> 1..(NumCallbacks + 1)] /\ callbacks \in 0..NumCallbacks
      /\ sent \in 0..MaxPackets
  BY NumCallbacksAssumption, MaxPacketsAssumption DEF Init
<1> QED
  BY <1>2, <1>3, <1>4 DEF Init, Typed, TypeOK, CallerPCs, PCs

(* The caller's statements.                                                 *)
LEMMA CallerTyped == Typed /\ (RegisterCallback \/ StartCall \/ StopCall) => Typed'
<1> SUFFICES ASSUME Typed, RegisterCallback \/ StartCall \/ StopCall PROVE Typed'
  OBVIOUS
<1> USE DEF Typed, HandsOK, objVars, threadVars, extVars, histVars
<1>1. CASE RegisterCallback
  <2>1. callbacks' \in 0..NumCallbacks /\ callbacks' = callbacks + 1
    BY <1>1, NumCallbacksAssumption DEF RegisterCallback, TypeOK
  <2>2. Len(log) \in Nat
    BY LenProperties DEF TypeOK
  <2>3. since' \in [Callbacks -> Nat]
    BY <1>1, <2>2 DEF RegisterCallback, TypeOK
  <2> QED
    BY <1>1, <2>1, <2>3 DEF RegisterCallback, TypeOK
<1>2. CASE Start \/ StartClear \/ StartRunning
  BY <1>2 DEF Start, StartClear, StartRunning, CallerGoes, TypeOK, CallerPCs
<1>3. CASE StartThread
  <2>1. PICK t \in Threads : thread' = t /\ pc' = [pc EXCEPT ![t] = "create"]
    BY <1>3 DEF StartThread
  <2>2. pc' \in [Threads -> PCs] /\ pc'[t] = "create" /\ \A u \in Threads \ {t} : pc'[u] = pc[u]
    BY <2>1 DEF TypeOK, PCs
  <2> QED
    BY <1>3, <2>1, <2>2 DEF StartThread, CallerGoes, TypeOK, CallerPCs
<1>4. CASE Stop \/ StopRunning
  BY <1>4 DEF Stop, StopRunning, CallerGoes, TypeOK, CallerPCs
<1>5. CASE StopClose
  <2>1. /\ socket' \in [Threads -> {"none", "open", "bound", "closed"}]
        /\ queue' \in [Threads -> Seq(Packets)]
    BY <1>5, EmptySeq DEF StopClose, CloseSocket, TypeOK
  <2> QED
    BY <1>5, <2>1 DEF StopClose, CallerGoes, TypeOK, CallerPCs
<1>6. CASE StopJoin
  BY <1>6 DEF StopJoin, CallerGoes, TypeOK, CallerPCs
<1> QED
  BY <1>1, <1>2, <1>3, <1>4, <1>5, <1>6 DEF StartCall, StopCall

LEMMA NextTyped == Typed /\ [Next]_vars => Typed'
<1> SUFFICES ASSUME Typed, [Next]_vars PROVE Typed'
  OBVIOUS
<1> USE DEF objVars, threadVars, extVars, histVars
<1>t. TypeOK /\ HandsOK
  BY DEF Typed
<1> SUFFICES TypeOK' /\ HandsOK'
  BY DEF Typed
<1>1. CASE Deliver
  <2>1. PICK short \in BOOLEAN :
          queue' = [t \in Threads |->
                     IF socket[t] = "bound" /\ \A u \in Threads : socket[u] = "bound" => u <= t
                       THEN Append(queue[t], [id |-> sent + 1, short |-> short])
                       ELSE queue[t]]
    BY <1>1 DEF Deliver
  <2>2. sent' \in 0..MaxPackets /\ sent + 1 \in 1..MaxPackets
    BY <1>1, <1>t, MaxPacketsAssumption DEF Deliver, TypeOK
  <2>3. [id |-> sent + 1, short |-> short] \in Packets
    BY <2>2 DEF Packets
  <2>4. queue' \in [Threads -> Seq(Packets)]
    BY <1>t, <2>1, <2>3, AppendFacts DEF TypeOK
  <2> QED
    BY <1>1, <1>t, <2>2, <2>4 DEF Deliver, TypeOK, HandsOK
<1>2. CASE RegisterCallback \/ StartCall \/ StopCall
  BY <1>2, CallerTyped DEF Typed
<1>3. ASSUME NEW t \in Threads, CreateSocket(t) PROVE TypeOK' /\ HandsOK'
  <2>1. /\ pc[t] = "create" /\ pc'[t] = "bind" /\ pc' \in [Threads -> PCs]
        /\ \A u \in Threads \ {t} : pc'[u] = pc[u]
    BY <1>3, <1>t, ThreadMoves DEF CreateSocket, PCs
  <2>2. t # None
    BY DEF Threads, None
  <2> QED
    BY <1>3, <1>t, <2>1, <2>2 DEF CreateSocket, TypeOK, HandsOK
<1>4. ASSUME NEW t \in Threads, Bind(t) PROVE TypeOK' /\ HandsOK'
  <2>1. /\ pc[t] = "bind" /\ pc' \in [Threads -> PCs] /\ pc'[t] \in {"check", "dead"}
        /\ \A u \in Threads \ {t} : pc'[u] = pc[u]
    BY <1>4, <1>t, ThreadMoves DEF Bind, PCs
  <2>2. socket' \in [Threads -> {"none", "open", "bound", "closed"}]
    BY <1>4, <1>t DEF Bind, TypeOK
  <2> QED
    BY <1>4, <1>t, <2>1, <2>2 DEF Bind, TypeOK, HandsOK
<1>5. ASSUME NEW t \in Threads, CheckStop(t) PROVE TypeOK' /\ HandsOK'
  <2>1. /\ pc[t] = "check" /\ pc' \in [Threads -> PCs] /\ pc'[t] \in {"close", "recv"}
        /\ \A u \in Threads \ {t} : pc'[u] = pc[u]
    BY <1>5, <1>t, ThreadMoves DEF CheckStop, PCs
  <2> QED
    BY <1>5, <1>t, <2>1 DEF CheckStop, TypeOK, HandsOK
<1>6. ASSUME NEW t \in Threads, RecvPacket(t) PROVE TypeOK' /\ HandsOK'
  <2>1. /\ pc[t] = "recv" /\ pc' \in [Threads -> PCs] /\ pc'[t] = "handle"
        /\ \A u \in Threads \ {t} : pc'[u] = pc[u]
    BY <1>6, <1>t, ThreadMoves DEF RecvPacket, PCs
  <2>2. rsock[t] \in Threads /\ queue[rsock[t]] \in Seq(Packets) /\ queue[rsock[t]] # <<>>
    BY <1>6, <1>t, <2>1 DEF RecvPacket, TypeOK, HandsOK
  <2>3. Head(queue[rsock[t]]) \in Packets /\ Tail(queue[rsock[t]]) \in Seq(Packets)
    BY <2>2, TailFacts
  <2>4. queue' \in [Threads -> Seq(Packets)] /\ entry' \in [Threads -> Packets \union {NoPacket}]
        /\ entry'[t] \in Packets /\ \A u \in Threads \ {t} : entry'[u] = entry[u]
    BY <1>6, <1>t, <2>3 DEF RecvPacket, TypeOK
  <2> QED
    BY <1>6, <1>t, <2>1, <2>4 DEF RecvPacket, TypeOK, HandsOK
<1>7. ASSUME NEW t \in Threads, RecvTimeout(t) \/ RecvError(t) \/ OnError(t) \/ DropShort(t) \/ CallbacksEnd(t)
      PROVE  TypeOK' /\ HandsOK'
  <2>1. /\ pc[t] \in {"recv", "error", "handle", "callback"} /\ pc' \in [Threads -> PCs]
        /\ pc'[t] \in {"check", "error", "close", "dead"}
        /\ \A u \in Threads \ {t} : pc'[u] = pc[u]
    BY <1>7, <1>t, ThreadMoves DEF RecvTimeout, RecvError, OnError, DropShort, AfterShort, CallbacksEnd, PCs
  <2> QED
    BY <1>7, <1>t, <2>1
       DEF RecvTimeout, RecvError, OnError, DropShort, AfterShort, CallbacksEnd, TypeOK, HandsOK
<1>8. ASSUME NEW t \in Threads, Store(t) PROVE TypeOK' /\ HandsOK'
  <2>1. /\ pc[t] = "handle" /\ pc' \in [Threads -> PCs] /\ pc'[t] = "callback"
        /\ \A u \in Threads \ {t} : pc'[u] = pc[u]
    BY <1>8, <1>t, ThreadMoves DEF Store, PCs
  <2>2. entry[t] \in Packets
    BY <1>t, <2>1 DEF HandsOK
  <2>3. buffer' \in Seq(Packets) /\ Len(buffer') <= BufferSize /\ log' \in Seq(Packets)
    BY <1>8, <1>t, <2>2, BufferBounded, AppendFacts DEF Store, TypeOK
  <2>4. cb' \in [Threads -> 1..(NumCallbacks + 1)]
    BY <1>8, <1>t, NumCallbacksAssumption DEF Store, TypeOK
  <2>5. packets_received' \in Nat
    BY <1>8, <1>t DEF Store, TypeOK
  <2>6. TypeOK'
    BY <1>8, <1>t, <2>1, <2>3, <2>4, <2>5 DEF Store, TypeOK
  <2>7. HandsOK'
    BY <1>8, <1>t, <2>1, <2>2 DEF Store, HandsOK
  <2> QED
    BY <2>6, <2>7
<1>9. ASSUME NEW t \in Threads, Callback(t) PROVE TypeOK' /\ HandsOK'
  <2>0. cb[t] \in 1..(NumCallbacks + 1) /\ callbacks \in 0..NumCallbacks /\ cb[t] <= callbacks
    BY <1>9, <1>t DEF Callback, TypeOK
  <2>1. cb[t] \in Callbacks /\ cb[t] + 1 \in 1..(NumCallbacks + 1)
    BY <2>0, NumCallbacksAssumption DEF Callbacks
  <2>2. entry[t] \in Packets
    BY <1>9, <1>t DEF Callback, HandsOK
  <2>3. seen' \in [Callbacks -> Seq(Packets)]
    BY <1>9, <1>t, <2>1, <2>2, AppendFacts DEF Callback, Handed, TypeOK
  <2>4. cb' \in [Threads -> 1..(NumCallbacks + 1)]
    BY <1>9, <1>t, <2>1 DEF Callback, NextCallback, TypeOK
  <2> QED
    BY <1>9, <1>t, <2>3, <2>4 DEF Callback, TypeOK, HandsOK
<1>10. ASSUME NEW t \in Threads, CloseAtEnd(t) PROVE TypeOK' /\ HandsOK'
  <2>1. /\ pc[t] = "close" /\ pc' \in [Threads -> PCs] /\ pc'[t] = "dead"
        /\ \A u \in Threads \ {t} : pc'[u] = pc[u]
    BY <1>10, <1>t, ThreadMoves DEF CloseAtEnd, PCs
  <2>2. /\ socket' \in [Threads -> {"none", "open", "bound", "closed"}]
        /\ queue' \in [Threads -> Seq(Packets)]
    BY <1>10, <1>t, EmptySeq DEF CloseAtEnd, CloseSocket, TypeOK
  <2> QED
    BY <1>10, <1>t, <2>1, <2>2 DEF CloseAtEnd, TypeOK, HandsOK
<1>11. CASE UNCHANGED vars
  BY <1>11, <1>t DEF vars, TypeOK, HandsOK
<1> QED
  BY <1>1, <1>2, <1>3, <1>4, <1>5, <1>6, <1>7, <1>8, <1>9, <1>10, <1>11 DEF Next, ListenLoop

-----------------------------------------------------------------------------
(* A step of a thread is a step of a living one, and it neither creates a   *)
(* thread nor changes what the caller has written.                          *)
LEMMA LoopKeeps ==
  ASSUME TypeOK, NEW t \in Threads, ListenLoop(t)
  PROVE  /\ t \in Alive
         /\ pc' \in [Threads -> PCs]
         /\ \A u \in Threads \ {t} : pc'[u] = pc[u]
         /\ Alive' \subseteq Alive
         /\ UNCHANGED <<running, stop_event, thread, callbacks, callerPc, gaveUp>>
<1> USE DEF objVars, extVars, histVars
<1>1. PICK here \in PCs \ {"unborn", "dead"}, next \in PCs : ThreadGoes(t, here, next) \/ (here = next /\ pc[t] = here /\ pc' = pc)
  BY DEF ListenLoop, CreateSocket, Bind, CheckStop, RecvPacket, RecvTimeout, RecvError, OnError,
         DropShort, AfterShort, Store, Callback, CallbacksEnd, CloseAtEnd, PCs
<1>2. pc' \in [Threads -> PCs] /\ pc[t] = here /\ \A u \in Threads \ {t} : pc'[u] = pc[u]
  BY <1>1, ThreadMoves DEF TypeOK
<1>3. t \in Alive /\ Alive' \subseteq Alive
  BY <1>2 DEF Alive
<1>4. UNCHANGED <<running, stop_event, thread, callbacks, callerPc, gaveUp>>
  BY DEF ListenLoop, CreateSocket, Bind, CheckStop, RecvPacket, RecvTimeout, RecvError, OnError,
         DropShort, Store, Callback, CallbacksEnd, CloseAtEnd
<1> QED
  BY <1>2, <1>3, <1>4

(* A join that timed out is not forgotten.                                  *)
LEMMA GaveUpStays ==
  ASSUME Typed, [Next]_vars, ~gaveUp'
  PROVE  ~gaveUp
<1> USE DEF objVars, threadVars, extVars, histVars
<1>1. CASE \E t \in Threads : ListenLoop(t)
  BY <1>1, LoopKeeps DEF Typed
<1>2. CASE Deliver \/ RegisterCallback \/ StartCall \/ StopCall \/ UNCHANGED vars
  BY <1>2 DEF Deliver, RegisterCallback, StartCall, Start, StartClear, StartThread, StartRunning,
              StopCall, Stop, StopClose, StopJoin, StopRunning, vars
<1> QED
  BY <1>1, <1>2 DEF Next

LEMMA NextOnlyLastAlive == Typed /\ OnlyLastAlive /\ [Next]_vars => OnlyLastAlive'
<1> SUFFICES ASSUME Typed, OnlyLastAlive, [Next]_vars, ~gaveUp' PROVE
      /\ \A t \in Alive' : t = thread'
      /\ callerPc' \in {"startClear", "startThread", "stopRunning"} => Alive' = {}
      /\ callerPc' = "idle" /\ ~running' => Alive' = {}
  BY DEF OnlyLastAlive
<1> USE DEF objVars, threadVars, extVars, histVars, CallerGoes
<1>t. /\ TypeOK
      /\ \A t \in Alive : t = thread
      /\ callerPc \in {"startClear", "startThread", "stopRunning"} => Alive = {}
      /\ callerPc = "idle" /\ ~running => Alive = {}
  BY GaveUpStays DEF Typed, OnlyLastAlive
<1>1. CASE Deliver \/ RegisterCallback \/ UNCHANGED vars
  BY <1>1, <1>t DEF Deliver, RegisterCallback, vars, Alive
<1>2. CASE Start \/ StartClear \/ StartRunning
  BY <1>2, <1>t DEF Start, StartClear, StartRunning, MayStart, Alive
<1>3. CASE StartThread
  <2>1. PICK t \in Threads : thread' = t /\ pc' = [pc EXCEPT ![t] = "create"]
    BY <1>3 DEF StartThread
  <2>2. Alive' \subseteq {t}
    BY <1>3, <1>t, <2>1 DEF StartThread, Alive, TypeOK
  <2> QED
    BY <1>3, <2>1, <2>2 DEF StartThread
<1>4. CASE Stop \/ StopClose \/ StopRunning
  BY <1>4, <1>t DEF Stop, StopClose, StopRunning, Alive
<1>5. CASE StopJoin
  <2>1. thread # None => pc[thread] = "dead"
    BY <1>5 DEF StopJoin, Joined
  <2>2. Alive = {}
    BY <1>t, <2>1 DEF Alive, Threads, None
  <2> QED
    BY <1>5, <2>2 DEF StopJoin, Alive
<1>6. ASSUME NEW t \in Threads, ListenLoop(t)
      PROVE  Alive' \subseteq Alive /\ UNCHANGED <<thread, callerPc, running>>
  BY <1>6, <1>t, LoopKeeps
<1> QED
  BY <1>1, <1>2, <1>3, <1>4, <1>5, <1>6, <1>t DEF Next, StartCall, StopCall

LEMMA InitOnlyLastAlive == Init => OnlyLastAlive
BY DEF Init, OnlyLastAlive, Alive

LEMMA LastAliveInvariant == Spec => [](Typed /\ OnlyLastAlive)
<1>1. Typed /\ OnlyLastAlive /\ [Next]_vars => (Typed /\ OnlyLastAlive)'
  BY NextTyped, NextOnlyLastAlive
<1> QED
  BY <1>1, InitTyped, InitOnlyLastAlive, PTL DEF Spec

(* All attributes of the receiver, its threads, sockets and buffers keep    *)
(* the types of TypeOK; the buffer never exceeds its bound.                 *)
THEOREM TypeCorrect == Spec => []TypeOK
<1>1. Typed => TypeOK
  BY DEF Typed
<1> QED
  BY <1>1, LastAliveInvariant, PTL

(* For any number of start and stop calls in any order, and any timing of   *)
(* the threads they create: two threads listen only after a join timed out. *)
THEOREM OneListener == Spec => []AtMostOneListener
<1>1. OnlyLastAlive => AtMostOneListener
  BY DEF OnlyLastAlive, AtMostOneListener
<1> QED
  BY <1>1, LastAliveInvariant, PTL

(* When stop() has returned there is no listener, unless its join timed out *)
(* or that of an earlier stop().                                            *)
THEOREM QuietWhenStopped == Spec => []StoppedMeansQuiet
<1>1. OnlyLastAlive => StoppedMeansQuiet
  BY DEF OnlyLastAlive, StoppedMeansQuiet
<1> QED
  BY <1>1, LastAliveInvariant, PTL

-----------------------------------------------------------------------------
(* The sockets.                                                             *)
LEMMA NextOwnSockets == Typed /\ OnlyLastAlive /\ OwnSockets /\ [Next]_vars => OwnSockets'
<1> SUFFICES ASSUME Typed, OnlyLastAlive, OwnSockets, [Next]_vars PROVE OwnSockets'
  OBVIOUS
<1> USE DEF objVars, threadVars, extVars, histVars, Reading
<1>t. /\ TypeOK /\ HandsOK
      /\ \A t \in Threads : pc[t] \in {"unborn", "create"} => socket[t] = "none" /\ sock # t
      /\ \A t \in Threads : socket[t] # "bound" => queue[t] = <<>>
  BY DEF Typed, OwnSockets
<1>g. ASSUME ~gaveUp' PROVE
        /\ \A t, u \in Alive : t = u
        /\ callerPc = "startThread" => Alive = {}
        /\ \A t \in Threads : pc[t] \notin {"unborn", "create", "dead"} => sock = t
        /\ \A t \in Threads : pc[t] \in {"recv", "error"} => rsock[t] = t
        /\ \A t \in Threads : pc[t] = "error" => socket[t] = "closed"
        /\ \A t \in Threads : socket[t] = "bound" => pc[t] \in Reading
  BY <1>g, GaveUpStays DEF OnlyLastAlive, OwnSockets, Alive
<1>1. CASE Deliver
  <2>1. \A t \in Threads : socket[t] # "bound" => queue'[t] = queue[t]
    BY <1>1 DEF Deliver
  <2> QED
    BY <1>1, <2>1 DEF Deliver, OwnSockets, Alive
<1>2. CASE RegisterCallback \/ Start \/ StartClear \/ StartRunning \/ Stop \/ StopRunning \/ UNCHANGED vars
  BY <1>2 DEF RegisterCallback, Start, StartClear, StartRunning, Stop, StopRunning, vars, OwnSockets, Alive
<1>3. CASE StopJoin
  BY <1>3, <1>t, <1>g DEF StopJoin, OwnSockets, Alive
<1>4. CASE StartThread
  <2>1. PICK t \in Threads : pc[t] = "unborn" /\ pc' = [pc EXCEPT ![t] = "create"]
    BY <1>4 DEF StartThread
  <2>2. pc'[t] = "create" /\ \A u \in Threads \ {t} : pc'[u] = pc[u]
    BY <1>t, <2>1 DEF TypeOK
  <2> QED
    BY <1>4, <1>t, <1>g, <2>1, <2>2 DEF StartThread, OwnSockets, Alive
<1>c. ASSUME NEW s, CloseSocket(s)
      PROVE  /\ \A t \in Threads \ {s} : socket'[t] = socket[t] /\ queue'[t] = queue[t]
             /\ \A t \in Threads : t = s => socket'[t] = "closed" /\ queue'[t] = <<>>
  BY <1>c DEF CloseSocket
<1>5. CASE StopClose
  BY <1>5, <1>t, <1>c, <1>g DEF StopClose, OwnSockets, Alive
<1>6. ASSUME NEW t \in Threads, CreateSocket(t) PROVE OwnSockets'
  <2>1. /\ pc[t] = "create" /\ pc'[t] = "bind" /\ \A u \in Threads \ {t} : pc'[u] = pc[u]
        /\ socket'[t] = "open" /\ \A u \in Threads \ {t} : socket'[u] = socket[u]
    BY <1>6, <1>t, ThreadMoves DEF CreateSocket, PCs, TypeOK
  <2> QED
    BY <1>6, <1>t, <1>g, <2>1 DEF CreateSocket, OwnSockets, Alive
<1>7. ASSUME NEW t \in Threads, Bind(t) PROVE OwnSockets'
  <2>1. pc[t] = "bind" /\ pc'[t] \in {"check", "dead"} /\ \A u \in Threads \ {t} : pc'[u] = pc[u]
    BY <1>7, <1>t, ThreadMoves DEF Bind, PCs
  <2>2. CASE UNCHANGED socket
    BY <1>7, <1>t, <1>g, <2>1, <2>2 DEF Bind, OwnSockets, Alive
  <2>3. CASE socket[sock] = "open" /\ socket' = [socket EXCEPT ![sock] = "bound"] /\ pc'[t] = "check"
    <3>1. sock \in Threads /\ socket'[sock] = "bound" /\ \A u \in Threads \ {sock} : socket'[u] = socket[u]
      BY <1>t, <2>1, <2>3 DEF TypeOK, HandsOK
    <3> QED
      BY <1>7, <1>t, <1>g, <2>1, <2>3, <3>1 DEF Bind, OwnSockets, Alive
  <2> QED
    BY <1>7, <1>t, <2>2, <2>3, ThreadMoves DEF Bind, PCs
<1>8. ASSUME NEW t \in Threads, CheckStop(t) PROVE OwnSockets'
  <2>1. /\ pc[t] = "check" /\ pc'[t] \in {"close", "recv"} /\ \A u \in Threads \ {t} : pc'[u] = pc[u]
        /\ rsock'[t] = sock /\ \A u \in Threads \ {t} : rsock'[u] = rsock[u]
    BY <1>8, <1>t, ThreadMoves DEF CheckStop, PCs, TypeOK
  <2> QED
    BY <1>8, <1>t, <1>g, <2>1 DEF CheckStop, OwnSockets, Alive
<1>9. ASSUME NEW t \in Threads, RecvPacket(t) PROVE OwnSockets'
  <2>1. pc[t] = "recv" /\ pc'[t] = "handle" /\ \A u \in Threads \ {t} : pc'[u] = pc[u]
    BY <1>9, <1>t, ThreadMoves DEF RecvPacket, PCs
  <2>2. rsock[t] \in Threads /\ queue[rsock[t]] # <<>> /\ \A u \in Threads \ {rsock[t]} : queue'[u] = queue[u]
    BY <1>9, <1>t, <2>1 DEF RecvPacket, TypeOK, HandsOK
  <2> QED
    BY <1>9, <1>t, <1>g, <2>1, <2>2 DEF RecvPacket, OwnSockets, Alive
<1>10. ASSUME NEW t \in Threads, RecvError(t) PROVE OwnSockets'
  <2>1. /\ pc[t] = "recv" /\ pc'[t] = "error" /\ \A u \in Threads \ {t} : pc'[u] = pc[u]
        /\ socket[rsock[t]] = "closed"
    BY <1>10, <1>t, ThreadMoves DEF RecvError, PCs
  <2> QED
    BY <1>10, <1>t, <1>g, <2>1 DEF RecvError, OwnSockets, Alive
<1>11. ASSUME NEW t \in Threads, RecvTimeout(t) \/ OnError(t) \/ DropShort(t) \/ CallbacksEnd(t)
       PROVE  OwnSockets'
  <2>1. /\ pc[t] \in {"recv", "error", "handle", "callback"} /\ pc'[t] \in {"check", "close", "dead"}
        /\ pc'[t] = "dead" => pc[t] = "error"
        /\ \A u \in Threads \ {t} : pc'[u] = pc[u]
    BY <1>11, <1>t, ThreadMoves DEF RecvTimeout, OnError, DropShort, AfterShort, CallbacksEnd, PCs
  <2>2. UNCHANGED <<sock, rsock, socket, queue, gaveUp>>
    BY <1>11 DEF RecvTimeout, OnError, DropShort, CallbacksEnd
  <2> QED
    BY <1>t, <1>g, <2>1, <2>2 DEF OwnSockets, Alive
<1>12. ASSUME NEW t \in Threads, Store(t) \/ Callback(t) PROVE OwnSockets'
  <2>1. /\ pc[t] \in {"handle", "callback"} /\ pc'[t] = "callback" /\ \A u \in Threads \ {t} : pc'[u] = pc[u]
    BY <1>12, <1>t, ThreadMoves DEF Store, Callback, PCs
  <2>2. UNCHANGED <<sock, rsock, socket, queue, gaveUp>>
    BY <1>12 DEF Store, Callback
  <2> QED
    BY <1>t, <1>g, <2>1, <2>2 DEF OwnSockets, Alive
<1>13. ASSUME NEW t \in Threads, CloseAtEnd(t) PROVE OwnSockets'
  <2>1. pc[t] = "close" /\ pc'[t] = "dead" /\ \A u \in Threads \ {t} : pc'[u] = pc[u]
    BY <1>13, <1>t, ThreadMoves DEF CloseAtEnd, PCs
  <2> QED
    BY <1>13, <1>t, <1>c, <1>g, <2>1 DEF CloseAtEnd, OwnSockets, Alive
<1> QED
  BY <1>1, <1>2, <1>3, <1>4, <1>5, <1>6, <1>7, <1>8, <1>9, <1>10, <1>11, <1>12, <1>13
     DEF Next, StartCall, StopCall, ListenLoop

LEMMA InitOwnSockets == Init => OwnSockets
BY DEF Init, OwnSockets, Alive, None, Threads

-----------------------------------------------------------------------------
(* The steps that move packets, with what they move; every other step       *)
(* leaves the packets alone, empties a socket, or ends the work on one.     *)
Handling == {"handle", "callback"}

OtherStep ==
  /\ UNCHANGED <<callbacks, entry, cb, sent, log, seen, since>>
  /\ \A t \in Threads : queue'[t] = queue[t] \/ queue'[t] = <<>>
  /\ \A t \in Threads : pc'[t] \in Handling => pc'[t] = pc[t]
  /\ \A t \in Threads : pc[t] = "callback" => pc'[t] = "callback" \/ cb[t] > callbacks

LEMMA StepKinds ==
  ASSUME Typed, [Next]_vars
  PROVE  \/ Deliver \/ RegisterCallback
         \/ \E t \in Threads : RecvPacket(t) \/ Store(t) \/ Callback(t)
         \/ OtherStep
<1> USE DEF objVars, threadVars, extVars, histVars, OtherStep, Handling
<1>t. TypeOK
  BY DEF Typed
<1>1. CASE Start \/ StartClear \/ StartRunning \/ Stop \/ StopJoin \/ StopRunning \/ UNCHANGED vars
  BY <1>1 DEF Start, StartClear, StartRunning, Stop, StopJoin, StopRunning, vars
<1>2. CASE StartThread
  <2>1. PICK t \in Threads : pc[t] = "unborn" /\ pc' = [pc EXCEPT ![t] = "create"]
    BY <1>2 DEF StartThread
  <2> QED
    BY <1>2, <1>t, <2>1 DEF StartThread, TypeOK
<1>3. CASE StopClose
  BY <1>3, <1>t DEF StopClose, CloseSocket, TypeOK
<1>4. ASSUME NEW t \in Threads, CreateSocket(t) \/ Bind(t) \/ CheckStop(t) PROVE OtherStep
  <2>1. /\ pc[t] # "callback" /\ pc'[t] \notin Handling /\ \A u \in Threads \ {t} : pc'[u] = pc[u]
    BY <1>4, <1>t, ThreadMoves DEF CreateSocket, Bind, CheckStop, PCs
  <2> QED
    BY <1>4, <2>1 DEF CreateSocket, Bind, CheckStop
<1>5. ASSUME NEW t \in Threads,
             RecvTimeout(t) \/ RecvError(t) \/ OnError(t) \/ DropShort(t) \/ CallbacksEnd(t)
      PROVE  OtherStep
  <2>1. /\ pc'[t] \notin Handling
        /\ pc[t] = "callback" => cb[t] > callbacks
        /\ \A u \in Threads \ {t} : pc'[u] = pc[u]
    BY <1>5, <1>t, ThreadMoves DEF RecvTimeout, RecvError, OnError, DropShort, AfterShort, CallbacksEnd, PCs
  <2>2. UNCHANGED <<callbacks, entry, cb, sent, log, seen, since, queue>>
    BY <1>5 DEF RecvTimeout, RecvError, OnError, DropShort, CallbacksEnd
  <2> QED
    BY <2>1, <2>2
<1>6. ASSUME NEW t \in Threads, CloseAtEnd(t) PROVE OtherStep
  <2>1. pc[t] = "close" /\ pc'[t] = "dead" /\ \A u \in Threads \ {t} : pc'[u] = pc[u]
    BY <1>6, <1>t, ThreadMoves DEF CloseAtEnd, PCs
  <2>2. \A u \in Threads : queue'[u] = queue[u] \/ queue'[u] = <<>>
    BY <1>6 DEF CloseAtEnd, CloseSocket
  <2> QED
    BY <1>6, <2>1, <2>2 DEF CloseAtEnd
<1> QED
  BY <1>1, <1>2, <1>3, <1>4, <1>5, <1>6 DEF Next, StartCall, StopCall, ListenLoop

LEMMA DeliverFacts ==
  ASSUME Typed, Deliver
  PROVE  \E m \in Packets, r \in Threads \union {None} :
           /\ m.id = sent + 1 /\ sent' = sent + 1
           /\ \A t \in Threads \ {r} : queue'[t] = queue[t]
           /\ r \in Threads => /\ DOMAIN queue'[r] = DOMAIN queue[r] \union {Len(queue[r]) + 1}
                               /\ \A k \in DOMAIN queue[r] : k <= Len(queue[r]) /\ queue'[r][k] = queue[r][k]
                               /\ queue'[r][Len(queue[r]) + 1] = m
           /\ UNCHANGED <<pc, entry, cb, callbacks, log, seen, since>>
<1>t. TypeOK
  BY DEF Typed
<1>1. PICK short \in BOOLEAN :
        queue' = [t \in Threads |->
                   IF socket[t] = "bound" /\ \A u \in Threads : socket[u] = "bound" => u <= t
                     THEN Append(queue[t], [id |-> sent + 1, short |-> short])
                     ELSE queue[t]]
  BY DEF Deliver
<1> DEFINE m == [id |-> sent + 1, short |-> short]
           Newest(t) == socket[t] = "bound" /\ \A u \in Threads : socket[u] = "bound" => u <= t
<1>2. m \in Packets /\ m.id = sent + 1
  BY <1>t, MaxPacketsAssumption DEF Packets, Deliver, TypeOK
<1>3. UNCHANGED <<pc, entry, cb, callbacks, log, seen, since>> /\ sent' = sent + 1
  BY DEF Deliver, objVars, threadVars, histVars
<1>4. \A t, u \in Threads : Newest(t) /\ Newest(u) => t = u
  BY MaxThreadsAssumption DEF Threads
<1> HIDE DEF m
<1>5. CASE \E r \in Threads : Newest(r)
  <2>1. PICK r \in Threads : Newest(r)
    BY <1>5
  <2>2. queue'[r] = Append(queue[r], m) /\ \A t \in Threads \ {r} : queue'[t] = queue[t]
    BY <1>1, <1>4, <2>1 DEF m
  <2>3. queue[r] \in Seq(Packets)
    BY <1>t DEF TypeOK
  <2>4. /\ DOMAIN queue'[r] = DOMAIN queue[r] \union {Len(queue[r]) + 1}
        /\ \A k \in DOMAIN queue[r] : k <= Len(queue[r]) /\ queue'[r][k] = queue[r][k]
        /\ queue'[r][Len(queue[r]) + 1] = m
    BY <1>2, <2>2, <2>3, AppendFacts
  <2> QED
    BY <1>2, <1>3, <2>2, <2>4
<1>6. CASE ~ \E r \in Threads : Newest(r)
  <2>1. \A t \in Threads : queue'[t] = queue[t]
    BY <1>1, <1>6
  <2>2. None \notin Threads
    BY DEF None, Threads
  <2> QED
    BY <1>2, <1>3, <2>1, <2>2
<1> QED
  BY <1>5, <1>6

LEMMA RecvFacts ==
  ASSUME Typed, NEW t \in Threads, RecvPacket(t)
  PROVE  LET r == rsock[t] IN
         /\ pc[t] = "recv" /\ pc'[t] = "handle" /\ \A u \in Threads \ {t} : pc'[u] = pc[u]
         /\ r \in Threads /\ queue[r] # <<>> /\ 1 \in DOMAIN queue[r]
         /\ entry'[t] = queue[r][1] /\ \A u \in Threads \ {t} : entry'[u] = entry[u]
         /\ \A u \in Threads \ {r} : queue'[u] = queue[u]
         /\ \A k \in DOMAIN queue'[r] :
              k \in Nat /\ k + 1 \in DOMAIN queue[r] /\ 1 < k + 1 /\ queue'[r][k] = queue[r][k + 1]
         /\ UNCHANGED <<cb, callbacks, sent, log, seen, since, gaveUp>>
<1>t. TypeOK
  BY DEF Typed
<1> DEFINE r == rsock[t]
<1>1. pc[t] = "recv" /\ pc'[t] = "handle" /\ \A u \in Threads \ {t} : pc'[u] = pc[u]
  BY <1>t, ThreadMoves DEF RecvPacket, PCs
<1>2. r \in Threads /\ queue[r] \in Seq(Packets) /\ queue[r] # <<>>
  BY <1>t, <1>1 DEF RecvPacket, Typed, HandsOK, TypeOK
<1>3. entry'[t] = Head(queue[r]) /\ \A u \in Threads \ {t} : entry'[u] = entry[u]
  BY <1>t DEF RecvPacket, TypeOK
<1>4. queue'[r] = Tail(queue[r]) /\ \A u \in Threads \ {r} : queue'[u] = queue[u]
  BY <1>t, <1>2 DEF RecvPacket, TypeOK
<1>5. UNCHANGED <<cb, callbacks, sent, log, seen, since, gaveUp>>
  BY DEF RecvPacket, objVars, histVars
<1> HIDE DEF r
<1>6. /\ 1 \in DOMAIN queue[r] /\ Head(queue[r]) = queue[r][1]
      /\ \A k \in DOMAIN Tail(queue[r]) :
           k \in Nat /\ k + 1 \in DOMAIN queue[r] /\ 1 < k + 1 /\ Tail(queue[r])[k] = queue[r][k + 1]
  BY <1>2, TailFacts
<1> QED
  BY <1>1, <1>2, <1>3, <1>4, <1>5, <1>6 DEF r

LEMMA StoreFacts ==
  ASSUME Typed, NEW t \in Threads, Store(t)
  PROVE  /\ pc[t] = "handle" /\ pc'[t] = "callback" /\ \A u \in Threads \ {t} : pc'[u] = pc[u]
         /\ cb'[t] = 1 /\ \A u \in Threads \ {t} : cb'[u] = cb[u]
         /\ entry[t] \in Packets /\ entry' = entry
         /\ Len(log) \in Nat /\ DOMAIN log = 1..Len(log) /\ Len(log') = Len(log) + 1
         /\ DOMAIN log' = DOMAIN log \union {Len(log) + 1}
         /\ \A i \in DOMAIN log : log'[i] = log[i]
         /\ log'[Len(log) + 1] = entry[t]
         /\ UNCHANGED <<queue, callbacks, sent, seen, since, gaveUp>>
<1>t. TypeOK
  BY DEF Typed
<1>1. pc[t] = "handle" /\ pc'[t] = "callback" /\ \A u \in Threads \ {t} : pc'[u] = pc[u]
  BY <1>t, ThreadMoves DEF Store, PCs
<1>2. entry[t] \in Packets
  BY <1>1 DEF Typed, HandsOK
<1>3. log' = Append(log, entry[t]) /\ log \in Seq(Packets)
  BY <1>t DEF Store, TypeOK
<1>4. cb'[t] = 1 /\ \A u \in Threads \ {t} : cb'[u] = cb[u]
  BY <1>t, NumCallbacksAssumption DEF Store, TypeOK
<1>5. UNCHANGED <<queue, entry, callbacks, sent, seen, since, gaveUp>>
  BY DEF Store, extVars
<1> QED
  BY <1>1, <1>2, <1>3, <1>4, <1>5, AppendFacts

LEMMA CallbackFacts ==
  ASSUME Typed, NEW t \in Threads, Callback(t)
  PROVE  LET c == cb[t] IN
         /\ pc[t] = "callback" /\ pc' = pc
         /\ c \in Callbacks /\ c <= callbacks
         /\ cb'[t] = c + 1 /\ \A u \in Threads \ {t} : cb'[u] = cb[u]
         /\ entry[t] \in Packets
         /\ Len(seen[c]) \in Nat /\ DOMAIN seen[c] = 1..Len(seen[c]) /\ Len(seen'[c]) = Len(seen[c]) + 1
         /\ DOMAIN seen'[c] = DOMAIN seen[c] \union {Len(seen[c]) + 1}
         /\ \A i \in DOMAIN seen[c] : seen'[c][i] = seen[c][i]
         /\ seen'[c][Len(seen[c]) + 1] = entry[t]
         /\ \A d \in Callbacks \ {c} : seen'[d] = seen[d]
         /\ UNCHANGED <<queue, entry, callbacks, sent, log, since, gaveUp>>
<1>t. TypeOK
  BY DEF Typed
<1> DEFINE c == cb[t]
<1>1. c \in 1..(NumCallbacks + 1) /\ callbacks \in 0..NumCallbacks /\ c <= callbacks
  BY <1>t DEF Callback, TypeOK
<1>2. c \in Callbacks
  BY <1>1, NumCallbacksAssumption DEF Callbacks
<1>3. entry[t] \in Packets
  BY DEF Callback, Typed, HandsOK
<1>4. /\ cb'[t] = c + 1 /\ \A u \in Threads \ {t} : cb'[u] = cb[u]
      /\ seen'[c] = Append(seen[c], entry[t]) /\ seen[c] \in Seq(Packets)
      /\ \A d \in Callbacks \ {c} : seen'[d] = seen[d]
  BY <1>t, <1>2 DEF Callback, NextCallback, Handed, TypeOK
<1>5. pc[t] = "callback" /\ UNCHANGED <<pc, queue, entry, callbacks, sent, log, since, gaveUp>>
  BY DEF Callback, objVars, extVars
<1> HIDE DEF c
<1>6. /\ Len(seen[c]) \in Nat /\ DOMAIN seen[c] = 1..Len(seen[c]) /\ Len(seen'[c]) = Len(seen[c]) + 1
      /\ DOMAIN seen'[c] = DOMAIN seen[c] \union {Len(seen[c]) + 1}
      /\ \A i \in DOMAIN seen[c] : seen'[c][i] = seen[c][i]
      /\ seen'[c][Len(seen[c]) + 1] = entry[t]
  BY <1>3, <1>4, AppendFacts
<1> QED
  BY <1>1, <1>2, <1>3, <1>4, <1>5, <1>6 DEF c

(* Unless a join timed out, a thread in its loop is the only one, reads its *)
(* own socket, and nothing waits anywhere else.                             *)
LEMMA Alone ==
  ASSUME Typed, OnlyLastAlive, OwnSockets, ~gaveUp, NEW t \in Threads, pc[t] \in Reading
  PROVE  /\ \A u \in Threads : pc[u] \in Reading => u = t
         /\ \A u \in Threads \ {t} : queue[u] = <<>>
         /\ pc[t] = "recv" => rsock[t] = t
BY DEF OnlyLastAlive, OwnSockets, Alive, Reading

LEMMA NextArrival == Typed /\ Arrival /\ [Next]_vars => Arrival'
<1> SUFFICES ASSUME Typed, Arrival, [Next]_vars PROVE Arrival'
  OBVIOUS
<1> USE DEF Arrival
<1>t. sent \in Nat /\ \A t \in Threads : \A k \in DOMAIN queue[t] : k \in Nat /\ queue[t][k].id \in Nat
  <2>1. \A t \in Threads : queue[t] \in Seq(Packets)
    BY DEF Typed, TypeOK
  <2>2. sent \in Nat
    BY MaxPacketsAssumption DEF Typed, TypeOK
  <2>3. \A p \in Packets : p.id \in Nat
    BY PacketIds
  <2> QED
    BY <2>1, <2>2, <2>3, LenProperties, ElementOfSeq
<1>1. CASE Deliver
  <2>1. PICK m \in Packets, r \in Threads \union {None} :
           /\ m.id = sent + 1 /\ sent' = sent + 1
           /\ \A t \in Threads \ {r} : queue'[t] = queue[t]
           /\ r \in Threads => /\ DOMAIN queue'[r] = DOMAIN queue[r] \union {Len(queue[r]) + 1}
                               /\ \A k \in DOMAIN queue[r] : k <= Len(queue[r]) /\ queue'[r][k] = queue[r][k]
                               /\ queue'[r][Len(queue[r]) + 1] = m
           /\ UNCHANGED <<pc, entry, cb, callbacks, log, seen, since>>
    BY <1>1, DeliverFacts
  <2>2. \A i \in DOMAIN log : log[i].id \in Nat
    <3>1. \A p \in Packets : p.id \in Nat
      BY PacketIds
    <3> QED
      BY <3>1, LenProperties, ElementOfSeq DEF Typed, TypeOK
  <2>3. \A t \in Threads : pc[t] \in {"handle", "callback"} => entry[t].id \in Nat
    BY MaxPacketsAssumption DEF Typed, HandsOK, Packets
  <2>4. \A t \in Threads : Len(queue[t]) \in Nat
    BY LenProperties DEF Typed, TypeOK
  <2>5. \A t \in Threads : \A k \in DOMAIN queue'[t] : queue'[t][k].id <= sent'
    BY <1>t, <2>1
  <2>6. \A t \in Threads : \A k, l \in DOMAIN queue'[t] : k < l => queue'[t][k].id < queue'[t][l].id
    <3> SUFFICES ASSUME NEW t \in Threads, NEW k \in DOMAIN queue'[t], NEW l \in DOMAIN queue'[t], k < l
                 PROVE  queue'[t][k].id < queue'[t][l].id
      OBVIOUS
    <3>1. CASE t # r
      BY <2>1, <3>1
    <3>2. CASE t = r
      <4>1. k \in DOMAIN queue[t]
        BY <1>t, <2>1, <2>4, <3>2
      <4>2. CASE l \in DOMAIN queue[t]
        BY <2>1, <3>2, <4>1, <4>2
      <4>3. CASE l = Len(queue[t]) + 1
        BY <1>t, <2>1, <3>2, <4>1, <4>3
      <4> QED
        BY <2>1, <3>2, <4>2, <4>3
    <3> QED
      BY <3>1, <3>2
  <2> QED
    BY <1>t, <2>1, <2>2, <2>3, <2>5, <2>6
<1>2. CASE RegisterCallback
  BY <1>2 DEF RegisterCallback, threadVars, extVars
<1>3. ASSUME NEW t \in Threads, RecvPacket(t) PROVE Arrival'
  <2> DEFINE r == rsock[t]
  <2>1. /\ pc[t] = "recv" /\ \A u \in Threads \ {t} : pc'[u] = pc[u]
        /\ r \in Threads /\ 1 \in DOMAIN queue[r]
        /\ entry'[t] = queue[r][1] /\ \A u \in Threads \ {t} : entry'[u] = entry[u]
        /\ \A u \in Threads \ {r} : queue'[u] = queue[u]
        /\ \A k \in DOMAIN queue'[r] :
             k \in Nat /\ k + 1 \in DOMAIN queue[r] /\ 1 < k + 1 /\ queue'[r][k] = queue[r][k + 1]
        /\ UNCHANGED <<sent, log>>
    BY <1>3, RecvFacts
  <2> HIDE DEF r
  <2>2. \A k, l \in DOMAIN queue'[r] : k < l => queue'[r][k].id < queue'[r][l].id
    BY <1>t, <2>1
  <2>3. \A u \in Threads : \A k, l \in DOMAIN queue'[u] : k < l => queue'[u][k].id < queue'[u][l].id
    BY <2>1, <2>2
  <2>4. \A u \in Threads : \A k \in DOMAIN queue'[u] : queue'[u][k].id <= sent'
    BY <1>t, <2>1
  <2> QED
    BY <2>1, <2>3, <2>4
<1>4. ASSUME NEW t \in Threads, Store(t) PROVE Arrival'
  BY <1>4, StoreFacts
<1>5. ASSUME NEW t \in Threads, Callback(t) PROVE Arrival'
  BY <1>5, CallbackFacts
<1>6. CASE OtherStep
  <2>1. \A t \in Threads : queue'[t] = queue[t] \/ DOMAIN queue'[t] = {}
    BY <1>6, EmptySeq DEF OtherStep
  <2> QED
    BY <1>6, <2>1 DEF OtherStep, Handling
<1> QED
  BY <1>1, <1>2, <1>3, <1>4, <1>5, <1>6, StepKinds

LEMMA NextInOrder ==
  Typed /\ OnlyLastAlive /\ OwnSockets /\ Arrival /\ InOrder /\ [Next]_vars => InOrder'
<1> SUFFICES ASSUME Typed, OnlyLastAlive, OwnSockets, Arrival, InOrder, [Next]_vars, ~gaveUp'
             PROVE  /\ \A i, j \in DOMAIN log' : i < j => log'[i].id < log'[j].id
                    /\ \A i \in DOMAIN log', t \in Threads :
                         \A k \in DOMAIN queue'[t] : log'[i].id < queue'[t][k].id
                    /\ \A t \in Threads : pc'[t] = "handle" =>
                         /\ \A i \in DOMAIN log' : log'[i].id < entry'[t].id
                         /\ \A u \in Threads : \A k \in DOMAIN queue'[u] : entry'[t].id < queue'[u][k].id
  BY DEF InOrder
<1>a. ~gaveUp
  BY GaveUpStays
<1>b. /\ \A i, j \in DOMAIN log : i < j => log[i].id < log[j].id
      /\ \A i \in DOMAIN log, t \in Threads : \A k \in DOMAIN queue[t] : log[i].id < queue[t][k].id
      /\ \A t \in Threads : pc[t] = "handle" =>
           /\ \A i \in DOMAIN log : log[i].id < entry[t].id
           /\ \A u \in Threads : \A k \in DOMAIN queue[u] : entry[t].id < queue[u][k].id
  BY <1>a DEF InOrder
<1>c. /\ \A i \in DOMAIN log : log[i].id <= sent /\ log[i].id \in Nat
      /\ \A t \in Threads : pc[t] = "handle" => entry[t].id <= sent /\ entry[t].id \in Nat
      /\ sent \in Nat
  <2>1. \A p \in Packets : p.id \in Nat
    BY PacketIds
  <2>2. \A i \in DOMAIN log : log[i] \in Packets
    BY LenProperties, ElementOfSeq DEF Typed, TypeOK
  <2> QED
    BY <2>1, <2>2, MaxPacketsAssumption DEF Arrival, Typed, TypeOK, HandsOK
<1>1. CASE Deliver
  <2>1. PICK m \in Packets, r \in Threads \union {None} :
           /\ m.id = sent + 1
           /\ \A t \in Threads \ {r} : queue'[t] = queue[t]
           /\ r \in Threads => /\ DOMAIN queue'[r] = DOMAIN queue[r] \union {Len(queue[r]) + 1}
                               /\ \A k \in DOMAIN queue[r] : k <= Len(queue[r]) /\ queue'[r][k] = queue[r][k]
                               /\ queue'[r][Len(queue[r]) + 1] = m
           /\ UNCHANGED <<pc, entry, log>>
    BY <1>1, DeliverFacts
  <2>2. \A t \in Threads : \A k \in DOMAIN queue'[t] :
           queue'[t][k].id = sent + 1 \/ (k \in DOMAIN queue[t] /\ queue'[t][k] = queue[t][k])
    BY <2>1
  <2> QED
    BY <1>b, <1>c, <2>1, <2>2
<1>2. CASE RegisterCallback
  BY <1>2, <1>b DEF RegisterCallback, threadVars, extVars
<1>3. ASSUME NEW t \in Threads, RecvPacket(t)
      PROVE  /\ log' = log
             /\ \A i \in DOMAIN log, u \in Threads : \A k \in DOMAIN queue'[u] : log[i].id < queue'[u][k].id
             /\ \A u \in Threads : pc'[u] = "handle" =>
                  /\ \A i \in DOMAIN log : log[i].id < entry'[u].id
                  /\ \A v \in Threads : \A k \in DOMAIN queue'[v] : entry'[u].id < queue'[v][k].id
  <2>1. /\ pc[t] = "recv" /\ \A u \in Threads \ {t} : pc'[u] = pc[u]
        /\ rsock[t] \in Threads /\ 1 \in DOMAIN queue[rsock[t]]
        /\ entry'[t] = queue[rsock[t]][1]
        /\ \A u \in Threads \ {rsock[t]} : queue'[u] = queue[u]
        /\ \A k \in DOMAIN queue'[rsock[t]] :
             /\ k \in Nat /\ k + 1 \in DOMAIN queue[rsock[t]] /\ 1 < k + 1
             /\ queue'[rsock[t]][k] = queue[rsock[t]][k + 1]
        /\ log' = log
    BY <1>3, RecvFacts
  <2>2. /\ rsock[t] = t /\ \A u \in Threads : pc[u] \in Reading => u = t
        /\ \A u \in Threads \ {t} : queue[u] = <<>>
    BY <1>a, <2>1, Alone DEF Reading
  <2>3. \A u \in Threads : pc'[u] = "handle" => u = t
    BY <2>1, <2>2 DEF Reading
  <2>4. \A u \in Threads \ {t} : DOMAIN queue'[u] = {}
    BY <2>1, <2>2, EmptySeq
  <2>5. \A k \in DOMAIN queue'[t] : entry'[t].id < queue'[t][k].id
    BY <2>1, <2>2 DEF Arrival
  <2>6. \A i \in DOMAIN log : log[i].id < entry'[t].id
    BY <1>b, <2>1, <2>2
  <2>7. \A i \in DOMAIN log : \A k \in DOMAIN queue'[t] : log[i].id < queue'[t][k].id
    BY <1>b, <2>1, <2>2
  <2> QED
    BY <2>1, <2>3, <2>4, <2>5, <2>6, <2>7
<1>4. ASSUME NEW t \in Threads, Store(t)
      PROVE  /\ \A i, j \in DOMAIN log' : i < j => log'[i].id < log'[j].id
             /\ \A i \in DOMAIN log', u \in Threads : \A k \in DOMAIN queue'[u] : log'[i].id < queue'[u][k].id
             /\ \A u \in Threads : pc'[u] # "handle"
  <2>1. /\ pc[t] = "handle" /\ pc'[t] = "callback" /\ \A u \in Threads \ {t} : pc'[u] = pc[u]
        /\ Len(log) \in Nat /\ DOMAIN log = 1..Len(log)
        /\ DOMAIN log' = DOMAIN log \union {Len(log) + 1}
        /\ \A i \in DOMAIN log : log'[i] = log[i]
        /\ log'[Len(log) + 1] = entry[t]
        /\ queue' = queue
    BY <1>4, StoreFacts
  <2>2. \A u \in Threads : pc[u] = "handle" => u = t
    BY <1>a, <2>1, Alone DEF Reading
  <2> QED
    BY <1>b, <2>1, <2>2
<1>5. ASSUME NEW t \in Threads, Callback(t) PROVE UNCHANGED <<pc, queue, entry, log>>
  BY <1>5, CallbackFacts
<1>6. CASE OtherStep
  <2>1. \A t \in Threads : queue'[t] = queue[t] \/ DOMAIN queue'[t] = {}
    BY <1>6, EmptySeq DEF OtherStep
  <2> QED
    BY <1>6, <1>b, <2>1 DEF OtherStep, Handling
<1>7. CASE \E t \in Threads : RecvPacket(t) \/ Store(t) \/ Callback(t)
  <2>1. PICK t \in Threads : RecvPacket(t) \/ Store(t) \/ Callback(t)
    BY <1>7
  <2>2. CASE RecvPacket(t)
    BY <1>b, <1>3, <2>2
  <2>3. CASE Store(t)
    BY <1>4, <2>3
  <2>4. CASE Callback(t)
    BY <1>b, <1>5, <2>4
  <2> QED
    BY <2>1, <2>2, <2>3, <2>4
<1> QED
  BY <1>1, <1>2, <1>6, <1>7, StepKinds

LEMMA NextRelayed ==
  Typed /\ OnlyLastAlive /\ OwnSockets /\ Relayed /\ [Next]_vars => Relayed'
<1> SUFFICES ASSUME Typed, OnlyLastAlive, OwnSockets, Relayed, [Next]_vars PROVE Relayed'
  OBVIOUS
<1>a. ~gaveUp' => ~gaveUp
  BY GaveUpStays
<1>b. /\ \A t \in Threads : pc[t] = "callback" => cb[t] <= callbacks + 1
      /\ \A c \in Callbacks \ (1..callbacks) : seen[c] = <<>>
      /\ ~gaveUp =>
           /\ \A t \in Threads : pc[t] = "callback" => log # <<>> /\ entry[t] = log[Len(log)]
           /\ \A c \in 1..callbacks :
                SeenUpTo(c, IF ToCome(c) = {} THEN Len(log) ELSE Len(log) - 1)
  BY DEF Relayed, Registered
<1>t. /\ callbacks \in 0..NumCallbacks /\ Callbacks = 1..NumCallbacks /\ NumCallbacks \in Nat
      /\ \A t \in Threads : cb[t] \in Nat
      /\ \A c \in Callbacks : since[c] \in Nat
      /\ Len(log) \in Nat /\ DOMAIN log = 1..Len(log) /\ (Len(log) = 0 <=> log = <<>>)
      /\ \A c \in Callbacks : Len(seen[c]) \in Nat /\ DOMAIN seen[c] = 1..Len(seen[c])
  <2>1. /\ callbacks \in 0..NumCallbacks /\ Callbacks = 1..NumCallbacks /\ NumCallbacks \in Nat
        /\ \A t \in Threads : cb[t] \in Nat
        /\ \A c \in Callbacks : since[c] \in Nat
    BY NumCallbacksAssumption DEF Typed, TypeOK, Callbacks
  <2>2. log \in Seq(Packets) /\ \A c \in Callbacks : seen[c] \in Seq(Packets)
    BY DEF Typed, TypeOK
  <2>3. Len(log) \in Nat /\ DOMAIN log = 1..Len(log) /\ (Len(log) = 0 <=> log = <<>>)
    BY <2>2, LenProperties, EmptySeq
  <2>4. \A c \in Callbacks : Len(seen[c]) \in Nat /\ DOMAIN seen[c] = 1..Len(seen[c])
    BY <2>2, LenProperties
  <2> QED
    BY <2>1, <2>3, <2>4
<1>l. \A c \in 1..callbacks : ~gaveUp => ToCome(c) = {} \/ log # <<>>
  BY <1>b DEF ToCome
<1> USE DEF Registered
<1>1. ASSUME UNCHANGED <<callbacks, log, seen, since>>,
             \A c \in 1..callbacks : ToCome(c)' = ToCome(c),
             \A t \in Threads : pc'[t] = "callback" => pc[t] = "callback" /\ cb'[t] = cb[t] /\ entry'[t] = entry[t]
      PROVE  Relayed'
  <2>1. ASSUME NEW c \in 1..callbacks, NEW n, SeenUpTo(c, n) PROVE SeenUpTo(c, n)'
    BY <1>1, <2>1 DEF SeenUpTo
  <2>2. ASSUME NEW c \in 1..callbacks, ~gaveUp
        PROVE  SeenUpTo(c, IF ToCome(c) = {} THEN Len(log) ELSE Len(log) - 1)'
    <3>1. CASE ToCome(c) = {}
      <4>1. SeenUpTo(c, Len(log))
        BY <1>b, <2>2, <3>1
      <4>2. SeenUpTo(c, Len(log))'
        BY <1>1, <4>1 DEF SeenUpTo
      <4> QED
        BY <1>1, <3>1, <4>2
    <3>2. CASE ToCome(c) # {}
      <4>1. SeenUpTo(c, Len(log) - 1)
        BY <1>b, <2>2, <3>2
      <4> QED
        BY <1>1, <3>2, <4>1 DEF SeenUpTo
    <3> QED
      BY <3>1, <3>2
  <2> QED
    BY <1>1, <1>a, <1>b, <2>2 DEF Relayed
<1>2. CASE Deliver
  BY <1>1, <1>2, DeliverFacts DEF ToCome
<1>3. CASE RegisterCallback
  <2>0. PICK c : c = callbacks + 1
    OBVIOUS
  <2>1. /\ callbacks' = c /\ c \in Callbacks /\ since'[c] = Len(log)
        /\ \A d \in Callbacks \ {c} : since'[d] = since[d]
        /\ UNCHANGED <<pc, cb, entry, log, seen, gaveUp>>
    BY <1>3, <1>t, <2>0 DEF RegisterCallback, Typed, TypeOK, threadVars
  <2>2. \A d : ToCome(d)' = ToCome(d)
    BY <2>1 DEF ToCome
  <2>3. seen[c] = <<>> /\ Len(seen[c]) = 0 /\ DOMAIN seen[c] = {}
    <3>1. c \in Callbacks \ (1..callbacks)
      BY <1>t, <2>0, <2>1
    <3> QED
      BY <1>b, <3>1, EmptySeq
  <2>4. ASSUME NEW d \in 1..callbacks, ~gaveUp
        PROVE  SeenUpTo(d, IF ToCome(d) = {} THEN Len(log) ELSE Len(log) - 1)'
    <3>1. d \in Callbacks \ {c} /\ since'[d] = since[d] /\ seen'[d] = seen[d] /\ log' = log
      BY <1>t, <2>0, <2>1
    <3>2. SeenUpTo(d, IF ToCome(d) = {} THEN Len(log) ELSE Len(log) - 1)
      BY <1>b, <2>4
    <3>3. CASE ToCome(d) = {}
      BY <2>2, <3>1, <3>2, <3>3 DEF SeenUpTo
    <3>4. CASE ToCome(d) # {}
      BY <2>2, <3>1, <3>2, <3>4 DEF SeenUpTo
    <3> QED
      BY <3>3, <3>4
  <2>5. ASSUME ~gaveUp
        PROVE  SeenUpTo(c, IF ToCome(c) = {} THEN Len(log) ELSE Len(log) - 1)'
    <3>0. Len(seen'[c]) = 0 /\ DOMAIN seen'[c] = {} /\ log' = log /\ since'[c] = Len(log)
      BY <2>1, <2>3
    <3>1. CASE ToCome(c) = {}
      <4>1. Len(log) \in {since'[c] - 1, since'[c]} \ {-1} /\ Len(log) + 0 = Len(log)
        BY <1>t, <3>0
      <4>2. SeenUpTo(c, Len(log))'
        BY <3>0, <4>1 DEF SeenUpTo
      <4> QED
        BY <2>2, <3>1, <4>2
    <3>2. CASE ToCome(c) # {}
      <4>1. Len(log) \in Nat \ {0}
        BY <1>b, <1>t, <2>5, <3>2 DEF ToCome
      <4>2. Len(log) - 1 \in {since'[c] - 1, since'[c]} \ {-1} /\ (Len(log) - 1) + 0 = Len(log) - 1
        BY <3>0, <4>1
      <4>3. SeenUpTo(c, Len(log) - 1)'
        BY <3>0, <4>2 DEF SeenUpTo
      <4> QED
        BY <2>2, <3>2, <4>3
    <3> QED
      BY <3>1, <3>2
  <2>6. 1..callbacks' = (1..callbacks) \union {c}
    BY <1>t, <2>0, <2>1
  <2>7. ASSUME NEW d \in 1..callbacks', ~gaveUp'
        PROVE  SeenUpTo(d, IF ToCome(d) = {} THEN Len(log) ELSE Len(log) - 1)'
    <3>1. CASE d = c
      BY <1>a, <2>5, <2>7, <3>1
    <3>2. CASE d \in 1..callbacks
      BY <1>a, <2>4, <2>7, <3>2
    <3> QED
      BY <2>6, <3>1, <3>2
  <2>8. /\ \A t \in Threads : pc'[t] = "callback" => cb'[t] <= callbacks' + 1
        /\ \A d \in Callbacks \ (1..callbacks') : seen'[d] = <<>>
        /\ ~gaveUp' => \A t \in Threads : pc'[t] = "callback" => log' # <<>> /\ entry'[t] = log'[Len(log')]
    <3>1. \A t \in Threads : pc'[t] = "callback" => cb'[t] <= callbacks' + 1
      <4>1. \A k \in Nat : k <= callbacks + 1 => k <= c + 1
        BY <1>t, <2>0
      <4> QED
        BY <1>b, <1>t, <2>1, <4>1
    <3>2. \A d \in Callbacks \ (1..callbacks') : seen'[d] = <<>>
      BY <1>b, <2>1, <2>6
    <3>3. ~gaveUp' => \A t \in Threads : pc'[t] = "callback" => log' # <<>> /\ entry'[t] = log'[Len(log')]
      BY <1>b, <2>1
    <3> QED
      BY <3>1, <3>2, <3>3
  <2> QED
    BY <2>7, <2>8 DEF Relayed
<1>4. ASSUME NEW t \in Threads, RecvPacket(t) PROVE Relayed'
  <2>1. /\ pc[t] = "recv" /\ pc'[t] = "handle" /\ \A u \in Threads \ {t} : pc'[u] = pc[u]
        /\ \A u \in Threads \ {t} : entry'[u] = entry[u]
        /\ UNCHANGED <<cb, callbacks, log, seen, since>>
    BY <1>4, RecvFacts
  <2>2. \A c : ToCome(c)' = ToCome(c)
    BY <2>1 DEF ToCome
  <2> QED
    BY <1>1, <2>1, <2>2
<1>5. ASSUME NEW t \in Threads, Store(t) PROVE Relayed'
  <2>1. /\ pc[t] = "handle" /\ pc'[t] = "callback" /\ \A u \in Threads \ {t} : pc'[u] = pc[u]
        /\ cb'[t] = 1 /\ \A u \in Threads \ {t} : cb'[u] = cb[u]
        /\ entry' = entry /\ Len(log') = Len(log) + 1
        /\ \A i \in DOMAIN log : log'[i] = log[i]
        /\ log'[Len(log) + 1] = entry[t] /\ log' # <<>>
        /\ UNCHANGED <<callbacks, seen, since, gaveUp>>
    BY <1>5, StoreFacts, EmptySeq
  <2>2. ~gaveUp => \A u \in Threads : pc[u] \in Reading => u = t
    BY <2>1, Alone DEF Reading
  <2>3. ASSUME NEW c \in 1..callbacks, ~gaveUp
        PROVE  SeenUpTo(c, IF ToCome(c) = {} THEN Len(log) ELSE Len(log) - 1)'
    <3>1. ToCome(c) = {} /\ t \in ToCome(c)'
      BY <2>1, <2>2, <2>3 DEF ToCome, Reading
    <3>2. SeenUpTo(c, Len(log))
      BY <1>b, <2>3, <3>1
    <3>3. PICK skipped \in {since[c] - 1, since[c]} \ {-1} :
            /\ skipped + Len(seen[c]) = Len(log)
            /\ \A i \in DOMAIN seen[c] : seen[c][i] = log[skipped + i]
      BY <3>2 DEF SeenUpTo
    <3>n. \A k \in Int : (k + 1) - 1 = k
      OBVIOUS
    <3>4. /\ c \in Callbacks /\ skipped \in Nat
          /\ Len(seen[c]) \in Nat /\ DOMAIN seen[c] = 1..Len(seen[c])
      BY <1>t
    <3>5. \A i \in DOMAIN seen[c] : seen[c][i] = log'[skipped + i]
      <4> SUFFICES ASSUME NEW i \in 1..Len(seen[c]) PROVE seen[c][i] = log'[skipped + i]
        BY <3>4
      <4>1. skipped + i \in 1..Len(log)
        BY <1>t, <3>3, <3>4
      <4> QED
        BY <1>t, <2>1, <3>3, <3>4, <4>1
    <3>6. skipped + Len(seen[c]) = Len(log') - 1
      BY <1>t, <2>1, <3>3, <3>n
    <3>7. SeenUpTo(c, Len(log) - 1)'
      BY <2>1, <3>3, <3>5, <3>6 DEF SeenUpTo
    <3> QED
      BY <3>1, <3>7
  <2>4. ~gaveUp => \A u \in Threads : pc'[u] = "callback" => u = t
    BY <2>1, <2>2 DEF Reading
  <2> QED
    BY <1>b, <1>t, <2>1, <2>3, <2>4 DEF Relayed
<1>6. ASSUME NEW t \in Threads, Callback(t) PROVE Relayed'
  <2> DEFINE c == cb[t]
  <2>1. /\ pc[t] = "callback" /\ pc' = pc /\ c \in Callbacks /\ c <= callbacks
        /\ cb'[t] = c + 1 /\ \A u \in Threads \ {t} : cb'[u] = cb[u]
        /\ Len(seen'[c]) = Len(seen[c]) + 1
        /\ DOMAIN seen'[c] = DOMAIN seen[c] \union {Len(seen[c]) + 1}
        /\ \A i \in DOMAIN seen[c] : seen'[c][i] = seen[c][i]
        /\ seen'[c][Len(seen[c]) + 1] = entry[t]
        /\ \A d \in Callbacks \ {c} : seen'[d] = seen[d]
        /\ UNCHANGED <<entry, callbacks, log, since, gaveUp>>
    BY <1>6, CallbackFacts
  <2> HIDE DEF c
  <2>2. ~gaveUp => \A u \in Threads : pc[u] = "callback" => u = t
    BY <2>1, Alone DEF Reading
  <2>3. ASSUME NEW d \in 1..callbacks, ~gaveUp
        PROVE  SeenUpTo(d, IF ToCome(d) = {} THEN Len(log) ELSE Len(log) - 1)'
    <3>0. d \in Callbacks /\ c \in Nat
      BY <1>t, <2>1
    <3>1. CASE d = c
      <4>1. t \in ToCome(d) /\ ToCome(d)' = {}
        BY <2>1, <2>2, <2>3, <3>0, <3>1 DEF ToCome, c
      <4>2. PICK skipped \in {since[d] - 1, since[d]} \ {-1} :
              /\ skipped + Len(seen[d]) = Len(log) - 1
              /\ \A i \in DOMAIN seen[d] : seen[d][i] = log[skipped + i]
        BY <1>b, <2>3, <4>1 DEF SeenUpTo
      <4>0. Len(seen[d]) \in Nat /\ skipped \in Int
        BY <1>t, <3>0
      <4>3. skipped + Len(seen'[d]) = Len(log) /\ skipped + (Len(seen[d]) + 1) = Len(log)
        <5>1. \A k \in Int, j, n \in Nat : k + j = n - 1 => k + (j + 1) = n
          OBVIOUS
        <5>2. skipped \in Int /\ Len(seen[d]) \in Nat /\ Len(log) \in Nat
          BY <1>t, <4>0
        <5>3. skipped + Len(seen[d]) = Len(log) - 1
          BY <4>2
        <5>4. skipped + (Len(seen[d]) + 1) = Len(log)
          BY <5>1, <5>2, <5>3
        <5> QED
          BY <2>1, <3>1, <5>4
      <4>4. \A i \in DOMAIN seen'[d] : seen'[d][i] = log[skipped + i]
        BY <1>b, <2>1, <2>3, <3>1, <4>2, <4>3
      <4>5. SeenUpTo(d, Len(log))'
        BY <2>1, <4>2, <4>3, <4>4 DEF SeenUpTo
      <4> QED
        BY <4>1, <4>5
    <3>2. CASE d # c
      <4>1. ToCome(d)' = ToCome(d)
        <5>1. cb[t] <= d <=> cb'[t] <= d
          BY <2>1, <3>0, <3>2 DEF c, Callbacks
        <5> QED
          BY <2>1, <5>1 DEF ToCome
      <4>2. seen'[d] = seen[d] /\ since'[d] = since[d] /\ log' = log
        BY <2>1, <3>0, <3>2
      <4>3. CASE ToCome(d) = {}
        <5>1. SeenUpTo(d, Len(log))
          BY <1>b, <2>3, <4>3
        <5> QED
          BY <4>1, <4>2, <4>3, <5>1 DEF SeenUpTo
      <4>4. CASE ToCome(d) # {}
        <5>1. SeenUpTo(d, Len(log) - 1)
          BY <1>b, <2>3, <4>4
        <5> QED
          BY <4>1, <4>2, <4>4, <5>1 DEF SeenUpTo
      <4> QED
        BY <4>3, <4>4
    <3> QED
      BY <3>1, <3>2
  <2>4. \A u \in Threads : pc'[u] = "callback" => cb'[u] <= callbacks' + 1
    BY <1>b, <1>t, <2>1 DEF c
  <2>5. \A d \in Callbacks \ (1..callbacks') : seen'[d] = <<>>
    BY <1>b, <1>t, <2>1
  <2> QED
    BY <1>b, <2>1, <2>3, <2>4, <2>5 DEF Relayed
<1>7. CASE OtherStep
  <2>1. \A c \in 1..callbacks : ToCome(c)' = ToCome(c)
    <3> SUFFICES ASSUME NEW c \in 1..callbacks, NEW t \in Threads
                 PROVE  (pc'[t] = "callback" /\ cb'[t] <= c) <=> (pc[t] = "callback" /\ cb[t] <= c)
      BY DEF ToCome
    <3>1. cb[t] > callbacks => ~(cb[t] <= c)
      BY <1>t
    <3> QED
      BY <1>7, <3>1 DEF OtherStep, Handling
  <2> QED
    BY <1>1, <1>7, <2>1 DEF OtherStep, Handling
<1> QED
  BY <1>2, <1>3, <1>4, <1>5, <1>6, <1>7, StepKinds

LEMMA NextOnePlace == Typed /\ Arrival /\ OnePlace /\ [Next]_vars => OnePlace'
<1> SUFFICES ASSUME Typed, Arrival, OnePlace, [Next]_vars PROVE OnePlace'
  OBVIOUS
<1>b. /\ \A t, u \in Threads : \A k \in DOMAIN queue[t], l \in DOMAIN queue[u] :
           queue[t][k].id = queue[u][l].id => t = u
      /\ \A t, u \in Threads : pc[t] \in Handling /\ pc[u] \in Handling /\ entry[t].id = entry[u].id => t = u
      /\ \A t, u \in Threads : \A k \in DOMAIN queue[u] : pc[t] \in Handling => entry[t].id # queue[u][k].id
      /\ \A i \in DOMAIN log, u \in Threads : \A k \in DOMAIN queue[u] : log[i].id # queue[u][k].id
      /\ \A i \in DOMAIN log, t \in Threads : pc[t] = "handle" => log[i].id # entry[t].id
      /\ \A i, j \in DOMAIN log : log[i].id = log[j].id => i = j
      /\ \A t \in Threads : pc[t] = "callback" => \E i \in DOMAIN log : log[i] = entry[t]
  BY DEF OnePlace, In, Handling
<1> SUFFICES
      /\ \A t, u \in Threads : \A k \in DOMAIN queue'[t], l \in DOMAIN queue'[u] :
           queue'[t][k].id = queue'[u][l].id => t = u
      /\ \A t, u \in Threads : pc'[t] \in Handling /\ pc'[u] \in Handling /\ entry'[t].id = entry'[u].id => t = u
      /\ \A t, u \in Threads : \A k \in DOMAIN queue'[u] : pc'[t] \in Handling => entry'[t].id # queue'[u][k].id
      /\ \A i \in DOMAIN log', u \in Threads : \A k \in DOMAIN queue'[u] : log'[i].id # queue'[u][k].id
      /\ \A i \in DOMAIN log', t \in Threads : pc'[t] = "handle" => log'[i].id # entry'[t].id
      /\ \A i, j \in DOMAIN log' : log'[i].id = log'[j].id => i = j
      /\ \A t \in Threads : pc'[t] = "callback" => \E i \in DOMAIN log' : log'[i] = entry'[t]
  BY DEF OnePlace, In, Handling
<1>c. /\ sent \in Nat
      /\ \A t \in Threads : \A k \in DOMAIN queue[t] : queue[t][k].id # sent + 1
      /\ \A t \in Threads : pc[t] \in Handling => entry[t].id # sent + 1
      /\ \A i \in DOMAIN log : log[i].id # sent + 1
  <2>1. \A p \in Packets : p.id \in Nat
    BY PacketIds
  <2>2. sent \in Nat
    BY MaxPacketsAssumption DEF Typed, TypeOK
  <2>3. \A i \in DOMAIN log : log[i] \in Packets
    BY LenProperties, ElementOfSeq DEF Typed, TypeOK
  <2>4. \A t \in Threads : \A k \in DOMAIN queue[t] : queue[t][k] \in Packets
    BY LenProperties, ElementOfSeq DEF Typed, TypeOK
  <2>5. \A t \in Threads : pc[t] \in Handling => entry[t] \in Packets
    BY DEF Typed, HandsOK, Handling
  <2> QED
    BY <2>1, <2>2, <2>3, <2>4, <2>5 DEF Arrival, Handling
<1>1. CASE Deliver
  <2>1. PICK m \in Packets, r \in Threads \union {None} :
           /\ m.id = sent + 1
           /\ \A t \in Threads \ {r} : queue'[t] = queue[t]
           /\ r \in Threads => /\ DOMAIN queue'[r] = DOMAIN queue[r] \union {Len(queue[r]) + 1}
                               /\ \A k \in DOMAIN queue[r] : k <= Len(queue[r]) /\ queue'[r][k] = queue[r][k]
                               /\ queue'[r][Len(queue[r]) + 1] = m
           /\ UNCHANGED <<pc, entry, log>>
    BY <1>1, DeliverFacts
  <2>2. \A t \in Threads : \A k \in DOMAIN queue'[t] :
           \/ t = r /\ queue'[t][k].id = sent + 1
           \/ k \in DOMAIN queue[t] /\ queue'[t][k] = queue[t][k]
    BY <2>1
  <2> QED
    BY <1>b, <1>c, <2>1, <2>2
<1>2. CASE RegisterCallback
  BY <1>2, <1>b DEF RegisterCallback, threadVars, extVars
<1>3. ASSUME NEW t \in Threads, RecvPacket(t)
      PROVE  /\ \A u, v \in Threads : \A k \in DOMAIN queue'[u], l \in DOMAIN queue'[v] :
                  queue'[u][k].id = queue'[v][l].id => u = v
             /\ \A u, v \in Threads : pc'[u] \in Handling /\ pc'[v] \in Handling /\ entry'[u].id = entry'[v].id => u = v
             /\ \A u, v \in Threads : \A k \in DOMAIN queue'[v] : pc'[u] \in Handling => entry'[u].id # queue'[v][k].id
             /\ \A i \in DOMAIN log', u \in Threads : \A k \in DOMAIN queue'[u] : log'[i].id # queue'[u][k].id
             /\ \A i \in DOMAIN log', u \in Threads : pc'[u] = "handle" => log'[i].id # entry'[u].id
             /\ \A u \in Threads : pc'[u] = "callback" => \E i \in DOMAIN log' : log'[i] = entry'[u]
             /\ log' = log
  <2>0. PICK r : r = rsock[t]
    OBVIOUS
  <2>1. /\ pc'[t] = "handle" /\ \A u \in Threads \ {t} : pc'[u] = pc[u]
        /\ r \in Threads /\ 1 \in DOMAIN queue[r]
        /\ entry'[t] = queue[r][1] /\ \A u \in Threads \ {t} : entry'[u] = entry[u]
        /\ \A u \in Threads \ {r} : queue'[u] = queue[u]
        /\ \A k \in DOMAIN queue'[r] :
             k \in Nat /\ k + 1 \in DOMAIN queue[r] /\ 1 < k + 1 /\ queue'[r][k] = queue[r][k + 1]
        /\ log' = log
    BY <1>3, <2>0, RecvFacts
  <2>2. \A u \in Threads : \A k \in DOMAIN queue'[u] : \E l \in DOMAIN queue[u] : queue'[u][k] = queue[u][l]
    BY <2>1
  <2>3. \A u \in Threads : \A k \in DOMAIN queue'[u] : entry'[t].id # queue'[u][k].id
    <3>1. \A u \in Threads \ {r} : \A k \in DOMAIN queue'[u] : entry'[t].id # queue'[u][k].id
      BY <1>b, <2>1
    <3>2. \A k \in DOMAIN queue[r] : 1 < k => queue[r][1].id < queue[r][k].id
      BY <2>1 DEF Arrival
    <3>3. \A k \in DOMAIN queue[r] : queue[r][k].id \in Nat
      <4>1. queue[r] \in Seq(Packets)
        BY <2>1 DEF Typed, TypeOK
      <4> QED
        BY <4>1, LenProperties, ElementOfSeq, PacketIds
    <3>4. \A k \in DOMAIN queue'[r] : entry'[t].id # queue'[r][k].id
      BY <2>1, <3>2, <3>3
    <3> QED
      BY <3>1, <3>4
  <2>4. \A u \in Threads \ {t} : pc'[u] \in Handling => entry'[u].id # entry'[t].id
    BY <1>b, <2>1
  <2>5. \A u, v \in Threads : \A k \in DOMAIN queue'[u], l \in DOMAIN queue'[v] :
          queue'[u][k].id = queue'[v][l].id => u = v
    BY <1>b, <2>2
  <2>6. \A u \in Threads \ {t}, v \in Threads : \A k \in DOMAIN queue'[v] :
          pc'[u] \in Handling => entry'[u].id # queue'[v][k].id
    BY <1>b, <2>1, <2>2
  <2>7. \A i \in DOMAIN log', u \in Threads : \A k \in DOMAIN queue'[u] : log'[i].id # queue'[u][k].id
    BY <1>b, <2>1, <2>2
  <2>8. \A i \in DOMAIN log', u \in Threads : pc'[u] = "handle" => log'[i].id # entry'[u].id
    BY <1>b, <2>1
  <2>9. \A u \in Threads : pc'[u] = "callback" => \E i \in DOMAIN log' : log'[i] = entry'[u]
    BY <1>b, <2>1
  <2>10. \A u, v \in Threads : pc'[u] \in Handling /\ pc'[v] \in Handling /\ entry'[u].id = entry'[v].id => u = v
    BY <1>b, <2>1, <2>4
  <2> QED
    BY <2>1, <2>3, <2>5, <2>6, <2>7, <2>8, <2>9, <2>10
<1>4. ASSUME NEW t \in Threads, Store(t)
      PROVE  /\ UNCHANGED <<queue, entry>>
             /\ \A u \in Threads : pc'[u] \in Handling => pc[u] \in Handling
             /\ \A i \in DOMAIN log', u \in Threads : \A k \in DOMAIN queue'[u] : log'[i].id # queue'[u][k].id
             /\ \A i \in DOMAIN log', u \in Threads : pc'[u] = "handle" => log'[i].id # entry'[u].id
             /\ \A i, j \in DOMAIN log' : log'[i].id = log'[j].id => i = j
             /\ \A u \in Threads : pc'[u] = "callback" => \E i \in DOMAIN log' : log'[i] = entry'[u]
  <2>1. /\ pc[t] = "handle" /\ pc'[t] = "callback" /\ \A u \in Threads \ {t} : pc'[u] = pc[u]
        /\ DOMAIN log' = DOMAIN log \union {Len(log) + 1}
        /\ \A i \in DOMAIN log : log'[i] = log[i]
        /\ log'[Len(log) + 1] = entry[t]
        /\ UNCHANGED <<queue, entry>>
    BY <1>4, StoreFacts
  <2>2. pc[t] \in Handling
    BY <2>1 DEF Handling
  <2>3. \A i \in DOMAIN log' : (i \in DOMAIN log /\ log'[i] = log[i]) \/ (i = Len(log) + 1 /\ log'[i] = entry[t])
    BY <2>1
  <2>4. \A i \in DOMAIN log', u \in Threads : \A k \in DOMAIN queue'[u] : log'[i].id # queue'[u][k].id
    BY <1>b, <2>1, <2>2, <2>3
  <2>5. \A i \in DOMAIN log', u \in Threads : pc'[u] = "handle" => log'[i].id # entry'[u].id
    BY <1>b, <2>1, <2>2, <2>3 DEF Handling
  <2>6. \A i, j \in DOMAIN log' : log'[i].id = log'[j].id => i = j
    BY <1>b, <2>1, <2>3
  <2>7. \A u \in Threads : pc'[u] = "callback" => \E i \in DOMAIN log' : log'[i] = entry'[u]
    BY <1>b, <2>1
  <2> QED
    BY <2>1, <2>2, <2>4, <2>5, <2>6, <2>7
<1>5. ASSUME NEW t \in Threads, Callback(t) PROVE UNCHANGED <<pc, queue, entry, log>>
  BY <1>5, CallbackFacts
<1>6. CASE OtherStep
  <2>1. \A t \in Threads : queue'[t] = queue[t] \/ DOMAIN queue'[t] = {}
    BY <1>6, EmptySeq DEF OtherStep
  <2>2. \A t \in Threads : \A k \in DOMAIN queue'[t] : k \in DOMAIN queue[t] /\ queue'[t][k] = queue[t][k]
    BY <2>1
  <2>3. UNCHANGED <<entry, log>> /\ \A t \in Threads : pc'[t] \in Handling => pc'[t] = pc[t]
    BY <1>6 DEF OtherStep
  <2> QED
    BY <1>b, <2>2, <2>3 DEF Handling
<1>7. CASE \E t \in Threads : RecvPacket(t) \/ Store(t) \/ Callback(t)
  <2>1. PICK t \in Threads : RecvPacket(t) \/ Store(t) \/ Callback(t)
    BY <1>7
  <2>2. CASE RecvPacket(t)
    BY <1>b, <1>3, <2>2
  <2>3. CASE Store(t)
    BY <1>b, <1>4, <2>3
  <2>4. CASE Callback(t)
    BY <1>b, <1>5, <2>4
  <2> QED
    BY <2>1, <2>2, <2>3, <2>4
<1> QED
  BY <1>1, <1>2, <1>6, <1>7, StepKinds

LEMMA NextShownOnce == Typed /\ OnePlace /\ ShownOnce /\ [Next]_vars => ShownOnce'
<1> SUFFICES ASSUME Typed, OnePlace, ShownOnce, [Next]_vars PROVE ShownOnce'
  OBVIOUS
<1>b. /\ \A c \in Callbacks : \A i \in DOMAIN seen[c] : \E j \in DOMAIN log : log[j] = seen[c][i]
      /\ \A c \in Callbacks : \A i, j \in DOMAIN seen[c] : seen[c][i] = seen[c][j] => i = j
      /\ \A t \in Threads, c \in Callbacks : pc[t] = "callback" /\ cb[t] <= c =>
           \A i \in DOMAIN seen[c] : seen[c][i] # entry[t]
      /\ \A c \in 1..callbacks : \A i \in (since[c] + 1)..Len(log) :
           \/ \E j \in DOMAIN seen[c] : seen[c][j] = log[i]
           \/ \E t \in Threads : pc[t] = "callback" /\ cb[t] <= c /\ entry[t] = log[i]
  BY DEF ShownOnce, In, Registered, ToCome
<1> SUFFICES
      /\ \A c \in Callbacks : \A i \in DOMAIN seen'[c] : \E j \in DOMAIN log' : log'[j] = seen'[c][i]
      /\ \A c \in Callbacks : \A i, j \in DOMAIN seen'[c] : seen'[c][i] = seen'[c][j] => i = j
      /\ \A t \in Threads, c \in Callbacks : pc'[t] = "callback" /\ cb'[t] <= c =>
           \A i \in DOMAIN seen'[c] : seen'[c][i] # entry'[t]
      /\ \A c \in 1..callbacks' : \A i \in (since'[c] + 1)..Len(log') :
           \/ \E j \in DOMAIN seen'[c] : seen'[c][j] = log'[i]
           \/ \E t \in Threads : pc'[t] = "callback" /\ cb'[t] <= c /\ entry'[t] = log'[i]
  BY DEF ShownOnce, In, Registered, ToCome
<1>t. /\ callbacks \in 0..NumCallbacks /\ Callbacks = 1..NumCallbacks /\ NumCallbacks \in Nat
      /\ \A t \in Threads : cb[t] \in Nat
      /\ \A c \in Callbacks : since[c] \in Nat
      /\ Len(log) \in Nat /\ DOMAIN log = 1..Len(log)
  BY NumCallbacksAssumption, LenProperties DEF Typed, TypeOK, Callbacks
<1>1. CASE Deliver
  BY <1>1, <1>b, DeliverFacts
<1>2. CASE RegisterCallback
  <2>0. PICK c : c = callbacks + 1
    OBVIOUS
  <2>1. /\ callbacks' = c /\ c \in Callbacks /\ since'[c] = Len(log)
        /\ \A d \in Callbacks \ {c} : since'[d] = since[d]
        /\ UNCHANGED <<pc, cb, entry, log, seen>>
    BY <1>2, <1>t, <2>0 DEF RegisterCallback, Typed, TypeOK, threadVars
  <2>2. (since'[c] + 1)..Len(log) = {}
    BY <1>t, <2>1
  <2>3. \A d \in 1..callbacks' : d = c \/ (d \in 1..callbacks /\ since'[d] = since[d])
    BY <1>t, <2>0, <2>1
  <2> QED
    BY <1>b, <2>1, <2>2, <2>3
<1>3. ASSUME NEW t \in Threads, RecvPacket(t)
      PROVE  /\ \A u \in Threads : pc'[u] = "callback" <=> pc[u] = "callback"
             /\ \A u \in Threads : pc[u] = "callback" => entry'[u] = entry[u]
             /\ UNCHANGED <<cb, callbacks, log, seen, since>>
  BY <1>3, RecvFacts
<1>4. ASSUME NEW t \in Threads, Store(t)
      PROVE  /\ UNCHANGED <<seen, entry, since, callbacks>>
             /\ \A c \in Callbacks : \A i \in DOMAIN seen[c] : \E j \in DOMAIN log' : log'[j] = seen[c][i]
             /\ \A u \in Threads, c \in Callbacks : pc'[u] = "callback" /\ cb'[u] <= c =>
                  \A i \in DOMAIN seen[c] : seen[c][i] # entry[u]
             /\ \A c \in 1..callbacks : \A i \in (since[c] + 1)..Len(log') :
                  \/ \E j \in DOMAIN seen[c] : seen[c][j] = log'[i]
                  \/ \E u \in Threads : pc'[u] = "callback" /\ cb'[u] <= c /\ entry[u] = log'[i]
  <2>1. /\ pc[t] = "handle" /\ pc'[t] = "callback" /\ \A u \in Threads \ {t} : pc'[u] = pc[u]
        /\ cb'[t] = 1 /\ \A u \in Threads \ {t} : cb'[u] = cb[u]
        /\ Len(log') = Len(log) + 1
        /\ DOMAIN log' = DOMAIN log \union {Len(log) + 1}
        /\ \A i \in DOMAIN log : log'[i] = log[i]
        /\ log'[Len(log) + 1] = entry[t]
        /\ UNCHANGED <<seen, entry, since, callbacks>>
    BY <1>4, StoreFacts
  <2>2. \A c \in Callbacks : \A i \in DOMAIN seen[c] : \E j \in DOMAIN log' : log'[j] = seen[c][i]
    BY <1>b, <2>1
  <2>3. \A i \in DOMAIN log : log[i] # entry[t]
    BY <2>1 DEF OnePlace
  <2>4. \A c \in Callbacks : \A i \in DOMAIN seen[c] : seen[c][i] # entry[t]
    BY <1>b, <2>3
  <2>5. \A u \in Threads, c \in Callbacks : pc'[u] = "callback" /\ cb'[u] <= c =>
          \A i \in DOMAIN seen[c] : seen[c][i] # entry[u]
    BY <1>b, <2>1, <2>4
  <2>6. ASSUME NEW c \in 1..callbacks, NEW i \in (since[c] + 1)..Len(log')
        PROVE  \/ \E j \in DOMAIN seen[c] : seen[c][j] = log'[i]
               \/ \E u \in Threads : pc'[u] = "callback" /\ cb'[u] <= c /\ entry[u] = log'[i]
    <3>1. CASE i = Len(log) + 1
      BY <1>t, <2>1, <3>1
    <3>2. CASE i # Len(log) + 1
      <4>1. since[c] \in Nat
        BY <1>t
      <4>2. i \in (since[c] + 1)..Len(log) /\ i \in DOMAIN log
        BY <1>t, <2>1, <3>2, <4>1
      <4>3. log'[i] = log[i]
        BY <2>1, <4>2
      <4>4. \/ \E j \in DOMAIN seen[c] : seen[c][j] = log[i]
            \/ \E u \in Threads : pc[u] = "callback" /\ cb[u] <= c /\ entry[u] = log[i]
        BY <1>b, <4>2
      <4> QED
        BY <2>1, <4>3, <4>4
    <3> QED
      BY <3>1, <3>2
  <2> QED
    BY <2>1, <2>2, <2>5, <2>6
<1>5. ASSUME NEW t \in Threads, Callback(t)
      PROVE  /\ UNCHANGED <<pc, entry, callbacks, log, since>>
             /\ \A d \in Callbacks : \A i \in DOMAIN seen'[d] : \E j \in DOMAIN log : log[j] = seen'[d][i]
             /\ \A d \in Callbacks : \A i, j \in DOMAIN seen'[d] : seen'[d][i] = seen'[d][j] => i = j
             /\ \A u \in Threads, d \in Callbacks : pc[u] = "callback" /\ cb'[u] <= d =>
                  \A i \in DOMAIN seen'[d] : seen'[d][i] # entry[u]
             /\ \A d \in 1..callbacks : \A i \in (since[d] + 1)..Len(log) :
                  \/ \E j \in DOMAIN seen'[d] : seen'[d][j] = log[i]
                  \/ \E u \in Threads : pc[u] = "callback" /\ cb'[u] <= d /\ entry[u] = log[i]
  <2>0. PICK c : c = cb[t]
    OBVIOUS
  <2>1. /\ pc[t] = "callback" /\ c \in Callbacks
        /\ cb'[t] = c + 1 /\ \A u \in Threads \ {t} : cb'[u] = cb[u]
        /\ DOMAIN seen'[c] = DOMAIN seen[c] \union {Len(seen[c]) + 1}
        /\ \A i \in DOMAIN seen[c] : seen'[c][i] = seen[c][i]
        /\ seen'[c][Len(seen[c]) + 1] = entry[t]
        /\ \A d \in Callbacks \ {c} : seen'[d] = seen[d]
        /\ UNCHANGED <<pc, entry, callbacks, log, since>>
    BY <1>5, <2>0, CallbackFacts
  <2>2. \A d \in Callbacks : \A i \in DOMAIN seen'[d] :
          \/ i \in DOMAIN seen[d] /\ seen'[d][i] = seen[d][i]
          \/ d = c /\ i = Len(seen[d]) + 1 /\ seen'[d][i] = entry[t]
    BY <2>1
  <2>3. \E j \in DOMAIN log : log[j] = entry[t]
    BY <2>1 DEF OnePlace, In
  <2>4. \A i \in DOMAIN seen[c] : seen[c][i] # entry[t]
    BY <1>b, <1>t, <2>0, <2>1
  <2>5. \A d \in Callbacks : \A i \in DOMAIN seen'[d] : \E j \in DOMAIN log : log[j] = seen'[d][i]
    BY <1>b, <2>2, <2>3
  <2>6. \A d \in Callbacks : \A i, j \in DOMAIN seen'[d] : seen'[d][i] = seen'[d][j] => i = j
    BY <1>b, <2>2, <2>4
  <2>7. ASSUME NEW u \in Threads, NEW d \in Callbacks, pc[u] = "callback", cb'[u] <= d, NEW i \in DOMAIN seen'[d]
        PROVE  seen'[d][i] # entry[u]
    <3>1. cb[u] <= d
      BY <1>t, <2>0, <2>1, <2>7
    <3>2. CASE i \in DOMAIN seen[d] /\ seen'[d][i] = seen[d][i]
      BY <1>b, <2>7, <3>1, <3>2
    <3>3. CASE d = c /\ seen'[d][i] = entry[t]
      <4>1. u # t
        BY <1>t, <2>0, <2>1, <2>7, <3>3
      <4> QED
        BY <2>1, <2>7, <3>3, <4>1 DEF OnePlace
    <3> QED
      BY <2>2, <3>2, <3>3
  <2>8. ASSUME NEW d \in 1..callbacks, NEW i \in (since[d] + 1)..Len(log)
        PROVE  \/ \E j \in DOMAIN seen'[d] : seen'[d][j] = log[i]
               \/ \E u \in Threads : pc[u] = "callback" /\ cb'[u] <= d /\ entry[u] = log[i]
    <3>0. d \in Callbacks /\ d \in Nat /\ c \in Nat
      BY <1>t, <2>1
    <3>1. CASE \E j \in DOMAIN seen[d] : seen[d][j] = log[i]
      BY <2>1, <3>0, <3>1
    <3>2. CASE \E u \in Threads : pc[u] = "callback" /\ cb[u] <= d /\ entry[u] = log[i]
      <4>1. PICK u \in Threads : pc[u] = "callback" /\ cb[u] <= d /\ entry[u] = log[i]
        BY <3>2
      <4>2. CASE u # t
        BY <2>1, <4>1, <4>2
      <4>3. CASE u = t /\ d = c
        BY <2>1, <4>1, <4>3
      <4>4. CASE u = t /\ d # c
        <5>1. c + 1 <= d
          BY <2>0, <3>0, <4>1, <4>4
        <5> QED
          BY <2>1, <4>1, <4>4, <5>1
      <4> QED
        BY <4>2, <4>3, <4>4
    <3> QED
      BY <1>b, <3>1, <3>2
  <2> QED
    BY <2>1, <2>5, <2>6, <2>7, <2>8
<1>6. CASE OtherStep
  <2>1. /\ UNCHANGED <<callbacks, entry, cb, log, seen, since>>
        /\ \A t \in Threads : pc'[t] = "callback" => pc[t] = "callback"
        /\ \A t \in Threads : pc[t] = "callback" => pc'[t] = "callback" \/ cb[t] > callbacks
    BY <1>6 DEF OtherStep, Handling
  <2>2. ASSUME NEW c \in 1..callbacks, NEW t \in Threads, pc[t] = "callback" /\ cb[t] <= c
        PROVE  pc'[t] = "callback"
    <3>1. ~(cb[t] > callbacks)
      BY <1>t, <2>2
    <3> QED
      BY <2>1, <2>2, <3>1
  <2> QED
    BY <1>b, <2>1, <2>2
<1>7. CASE \E t \in Threads : RecvPacket(t) \/ Store(t) \/ Callback(t)
  <2>1. PICK t \in Threads : RecvPacket(t) \/ Store(t) \/ Callback(t)
    BY <1>7
  <2>2. CASE RecvPacket(t)
    BY <1>b, <1>3, <2>2
  <2>3. CASE Store(t)
    BY <1>b, <1>4, <2>3
  <2>4. CASE Callback(t)
    BY <1>5, <2>4
  <2> QED
    BY <2>1, <2>2, <2>3, <2>4
<1> QED
  BY <1>1, <1>2, <1>6, <1>7, StepKinds

LEMMA InitRelay == Init => Arrival /\ InOrder /\ Relayed /\ OnePlace /\ ShownOnce
<1> SUFFICES ASSUME Init PROVE Arrival /\ InOrder /\ Relayed /\ OnePlace /\ ShownOnce
  OBVIOUS
<1>1. /\ \A t \in Threads : pc[t] = "unborn" /\ DOMAIN queue[t] = {}
      /\ DOMAIN log = {} /\ callbacks = 0 /\ 1..callbacks = {}
      /\ \A c \in Callbacks : seen[c] = <<>> /\ DOMAIN seen[c] = {}
  BY EmptySeq DEF Init
<1> QED
  BY <1>1 DEF Arrival, InOrder, Relayed, OnePlace, ShownOnce, Registered

LEMMA RelayInvariant ==
  Spec => [](Typed /\ OnlyLastAlive /\ OwnSockets /\ Arrival /\ InOrder /\ Relayed /\ OnePlace /\ ShownOnce)
<1>1. Init => Typed /\ OnlyLastAlive /\ OwnSockets /\ Arrival /\ InOrder /\ Relayed /\ OnePlace /\ ShownOnce
  BY InitTyped, InitOnlyLastAlive, InitOwnSockets, InitRelay
<1>2. /\ Typed /\ OnlyLastAlive /\ OwnSockets /\ Arrival /\ InOrder /\ Relayed /\ OnePlace /\ ShownOnce
      /\ [Next]_vars
      => (Typed /\ OnlyLastAlive /\ OwnSockets /\ Arrival /\ InOrder /\ Relayed /\ OnePlace /\ ShownOnce)'
  BY NextTyped, NextOnlyLastAlive, NextOwnSockets, NextArrival, NextInOrder, NextRelayed, NextOnePlace,
     NextShownOnce
<1> QED
  BY <1>1, <1>2, PTL DEF Spec

(* Every callback has seen the packets stored since it was registered, in   *)
(* the order of arrival, and is at most one behind the buffer, however many *)
(* packets come and whenever the callbacks are registered, as long as no    *)
(* join timed out.                                                          *)
THEOREM RelayIsFaithful == Spec => []FaithfulRelay
<1>1. Typed /\ InOrder /\ Relayed => FaithfulRelay
  <2> SUFFICES ASSUME Typed, InOrder, Relayed, ~gaveUp, NEW c \in Registered
               PROVE  \E skipped \in {since[c] - 1, since[c]} \ {-1} :
                        /\ Len(log) - 1 <= skipped + Len(seen[c]) /\ skipped + Len(seen[c]) <= Len(log)
                        /\ \A i \in DOMAIN seen[c] : seen[c][i] = log[skipped + i]
    BY DEF FaithfulRelay, InOrder
  <2>1. Len(log) \in Nat
    BY LenProperties DEF Typed, TypeOK
  <2>2. SeenUpTo(c, Len(log)) \/ SeenUpTo(c, Len(log) - 1)
    BY DEF Relayed
  <2>3. \A n \in {Len(log) - 1, Len(log)} : Len(log) - 1 <= n /\ n <= Len(log)
    BY <2>1
  <2> QED
    BY <2>2, <2>3 DEF SeenUpTo
<1> QED
  BY <1>1, RelayInvariant, PTL

(* Even when two listeners share the socket after a join timed out, no      *)
(* packet is stored or shown twice and none is lost between the buffer and  *)
(* the callbacks.                                                           *)
THEOREM NoPacketTwice == Spec => []EachPacketOnce
<1>1. Typed /\ OnePlace /\ ShownOnce => EachPacketOnce
  <2> SUFFICES ASSUME Typed, OnePlace, ShownOnce PROVE EachPacketOnce
    OBVIOUS
  <2>1. \A i, j \in DOMAIN log : log[i] = log[j] => i = j
    BY DEF OnePlace
  <2>2. \A c \in Registered : \A i, j \in DOMAIN seen[c] : seen[c][i] = seen[c][j] => i = j
    <3>1. Registered \subseteq Callbacks
      BY NumCallbacksAssumption DEF Typed, TypeOK, Registered, Callbacks
    <3> QED
      BY <3>1 DEF ShownOnce
  <2>3. \A c \in Registered : \A i \in (since[c] + 1)..Len(log) :
          \/ In(log[i], seen[c])
          \/ \E t \in Threads : pc[t] = "callback" /\ entry[t] = log[i]
    BY DEF ShownOnce, ToCome
  <2> QED
    BY <2>1, <2>2, <2>3 DEF EachPacketOnce
<1> QED
  BY <1>1, RelayInvariant, PTL

=============================================================================
