-------------------------- MODULE ConnectionProofs --------------------------
(***************************************************************************)
(* Proofs about Connection, for every set of timer identifiers, every      *)
(* choice of options and every bound on the write queue.                   *)
(***************************************************************************)
EXTENDS Connection, TLAPS

Serialised(t) ==
    /\ t.writing <=> t.write # "idle"
    /\ t.writing => t.queue # <<>>

NoDisconnect(q) == \A i \in 1..Len(q) : q[i] # "DisconnectRequest"

-----------------------------------------------------------------------------
(* What the operations of the transport do to it. *)

(* Replacing the queue leaves the rest of the transport alone. *)
LEMMA WithQueue ==
    ASSUME NEW t \in Transports, NEW s \in Seq(Messages)
    PROVE  LET q == [t EXCEPT !.queue = s]
           IN  /\ q \in Transports /\ q.queue = s
               /\ q.socket = t.socket /\ q.connect = t.connect /\ q.read = t.read
               /\ q.writing = t.writing /\ q.write = t.write
  BY DEF Transports

(* A queued write leaves the rest of the transport alone, is appended to the *)
(* queue, and starts an async_write only when none is in flight.             *)
LEMMA AsyncWrite ==
    ASSUME NEW t \in Transports, NEW m \in Messages
    PROVE  LET w == async_write(t, m)
           IN  /\ w \in Transports
               /\ w.socket = t.socket /\ w.connect = t.connect /\ w.read = t.read
               /\ w.queue = Append(t.queue, m)
               /\ Serialised(t) => Serialised(w)
  <1> DEFINE s == Append(t.queue, m)
             q == [t EXCEPT !.queue = s]
  <1>1. /\ t.queue \in Seq(Messages) /\ t.writing \in BOOLEAN /\ t.write \in WriteOps
        /\ s \in Seq(Messages) /\ s # <<>>
    <2>1. t.queue \in Seq(Messages) /\ t.writing \in BOOLEAN /\ t.write \in WriteOps
      BY DEF Transports
    <2>2. s \in Seq(Messages) /\ Len(s) = Len(t.queue) + 1 /\ Len(t.queue) \in Nat
      BY <2>1
    <2>3. Len(<<>>) = 0
      OBVIOUS
    <2> QED
      BY <2>1, <2>2, <2>3
  <1>3. async_write(t, m) = IF t.writing THEN q ELSE do_write(q)
    BY DEF async_write
  <1>s. s = Append(t.queue, m)
    OBVIOUS
  <1> HIDE DEF s
  <1>2. /\ q \in Transports /\ q.queue = s
        /\ q.socket = t.socket /\ q.connect = t.connect /\ q.read = t.read
        /\ q.writing = t.writing /\ q.write = t.write
    BY <1>1, WithQueue
  <1> HIDE DEF q
  <1>4. CASE t.writing
    BY <1>1, <1>s, <1>2, <1>3, <1>4 DEF Serialised
  <1>5. CASE ~t.writing
    <2> DEFINE op == IF is_open(q) THEN "pending" ELSE "error"
    <2>1. async_write(t, m) = [q EXCEPT !.writing = TRUE, !.write = op]
      BY <1>1, <1>2, <1>3, <1>5 DEF do_write
    <2>2. op \in WriteOps /\ op # "idle"
      BY DEF WriteOps
    <2> QED
      BY <1>1, <1>s, <1>2, <2>1, <2>2 DEF Transports, Serialised
  <1> QED
    BY <1>4, <1>5

(* Closing releases the socket and leaves no operation pending. *)
LEMMA Close ==
    ASSUME NEW t \in Transports
    PROVE  LET c == close(t)
           IN  /\ c \in Transports
               /\ c.socket = "closed" /\ c.queue = t.queue
               /\ t.connect = "idle" <=> c.connect = "idle"
               /\ t.read = "idle" <=> c.read = "idle"
               /\ Serialised(t) => Serialised(c)
  BY ZenonT(40) DEF close, Transports, Serialised, WriteOps, ReadOps, ConnectOps, Sockets

(* Starting, ending and continuing the connect and the read. *)
LEMMA ConnectAndRead ==
    ASSUME NEW t \in Transports
    PROVE  /\ async_connect(t) \in Transports
           /\ begin_connect(t) \in Transports
           /\ end_connect(t) \in Transports
           /\ end_read(t) \in Transports
           /\ do_read(t) \in Transports
           /\ continue_read(t) \in Transports
  BY DEF async_connect, begin_connect, end_connect, end_read, do_read, continue_read,
         is_open, Transports, ReadOps, ConnectOps, Sockets

(* The head of the queue is written: it is removed from the queue... *)
LEMMA PopWrite ==
    ASSUME NEW t \in Transports, t.queue # <<>>
    PROVE  LET p == pop_write(t)
           IN  /\ p \in Transports
               /\ p.queue = Tail(t.queue) /\ p.write = "idle"
               /\ p.socket = t.socket /\ p.connect = t.connect /\ p.read = t.read
  <1> DEFINE s == Tail(t.queue)
             p == [t EXCEPT !.queue = s, !.write = "idle"]
  <1>1. s \in Seq(Messages)
    BY DEF Transports
  <1>2. pop_write(t) = p
    BY DEF pop_write
  <1>s. s = Tail(t.queue)
    OBVIOUS
  <1> HIDE DEF s
  <1>3. /\ p \in Transports /\ p.queue = s /\ p.write = "idle"
        /\ p.socket = t.socket /\ p.connect = t.connect /\ p.read = t.read
    BY <1>1 DEF Transports, WriteOps
  <1> QED
    BY <1>2, <1>3, <1>s

(* ... and the next write is started, unless this one failed. *)
LEMMA ContinueWrite ==
    ASSUME NEW t \in Transports, NEW ok \in BOOLEAN, t.write = "idle"
    PROVE  LET w == continue_write(t, ok)
           IN  /\ w \in Transports
               /\ w.socket = t.socket /\ w.connect = t.connect /\ w.read = t.read
               /\ w.queue = t.queue
               /\ Serialised(w)
  BY DEF continue_write, do_write, is_open, Transports, WriteOps, Serialised

-----------------------------------------------------------------------------
(* Timers. *)

(* Scheduling, cancelling, expiring and erasing a timer keep the table typed. *)
LEMMA Timers ==
    ASSUME NEW tm \in TimerTable, NEW id \in TimerIds, NEW kind \in TimerKinds,
           NEW ids
    PROVE  /\ schedule_after(tm, id, kind) \in TimerTable
           /\ cancel(tm, ids) \in TimerTable
           /\ erase(tm, id) \in TimerTable
           /\ tm[id].status = "armed" => expire(tm, id) \in TimerTable
  BY DEF schedule_after, cancel, erase, expire, TimerTable, TimerKinds, FreeTimer

(* A fresh identifier exists where one was asked for, and is free. *)
LEMMA Fresh ==
    ASSUME NEW tm, NEW held, FreshIds(tm, held) # {}
    PROVE  /\ NewTimer(tm, held) \in TimerIds \ held
           /\ tm[NewTimer(tm, held)].status = "free"
  BY DEF NewTimer, FreshIds

-----------------------------------------------------------------------------
(* Type correctness. *)

Handles == TimerIds \cup {invalid_timer}
Causes == {"none", "transport", "protocol", "handshake", "message"}

(* finish_connect reports through on_done if the handler is still set. *)
LEMMA FinishType ==
    ASSUME TypeOK, NEW ec \in {"ok", "error"}, finish_connect(ec)
    PROVE  connect_handler' \in BOOLEAN /\ on_done' \in Seq({"ok", "error"})
  <1>1. Append(on_done, ec) \in Seq({"ok", "error"})
    BY DEF TypeOK
  <1> QED
    BY <1>1 DEF TypeOK, finish_connect

(* fail() keeps the types of everything it writes. *)
LEMMA FailType ==
    ASSUME TypeOK, NEW why \in Causes, NEW tm \in TimerTable, NEW pong \in Handles,
           NEW t \in Transports, fail(why, tm, pong, t)
    PROVE  /\ state' \in ConnectionStates /\ cause' \in Causes
           /\ connect_handler' \in BOOLEAN /\ on_done' \in Seq({"ok", "error"})
           /\ connect_timer' \in Handles /\ ping_timer' \in Handles
           /\ pong_timer' \in Handles /\ awaiting_pong' \in BOOLEAN
           /\ timers' \in TimerTable /\ transport' \in Transports
  <1>1. CASE Terminal
    BY <1>1 DEF fail, TypeOK, Handles, Causes, connect_vars
  <1>2. CASE ~Terminal
    <2>1. connect_handler' \in BOOLEAN /\ on_done' \in Seq({"ok", "error"})
      BY <1>2, FinishType DEF fail
    <2>2. close(t) \in Transports
      BY Close
    <2>3. \A ids : cancel(tm, ids) \in TimerTable
      BY DEF cancel, TimerTable, TimerKinds, FreeTimer
    <2> QED
      BY <1>2, <2>1, <2>2, <2>3 DEF fail, stop_keepalive, TypeOK, Handles, ConnectionStates
  <1> QED
    BY <1>1, <1>2

(* The queue stays free of DisconnectRequest under other messages. *)
LEMMA AppendOther ==
    ASSUME NEW q \in Seq(Messages), NEW m \in Messages, m # "DisconnectRequest",
           NoDisconnect(q)
    PROVE  NoDisconnect(Append(q, m))
  BY DEF NoDisconnect

(* ... and when its head is written. *)
LEMMA TailOther ==
    ASSUME NEW q \in Seq(Messages), q # <<>>, NoDisconnect(q)
    PROVE  NoDisconnect(Tail(q)) /\ Head(q) # "DisconnectRequest"
  BY DEF NoDisconnect

(* send_hello queues Hello and, with a login, Auth behind it. *)
LEMMA SendHello ==
    ASSUME NEW t \in Transports
    PROVE  LET w == send_hello(t)
           IN  /\ w \in Transports
               /\ w.socket = t.socket /\ w.connect = t.connect /\ w.read = t.read
               /\ NoDisconnect(t.queue) => NoDisconnect(w.queue)
               /\ Serialised(t) => Serialised(w)
  <1> DEFINE h == async_write(t, "Hello")
             a == async_write(h, "Auth")
  <1>1. /\ h \in Transports
        /\ h.socket = t.socket /\ h.connect = t.connect /\ h.read = t.read
        /\ h.queue = Append(t.queue, "Hello")
        /\ Serialised(t) => Serialised(h)
    BY AsyncWrite, MessagesAssumption
  <1>2. t.queue \in Seq(Messages) /\ h.queue \in Seq(Messages)
    BY <1>1 DEF Transports
  <1>3. NoDisconnect(t.queue) => NoDisconnect(h.queue)
    BY <1>1, <1>2, AppendOther, MessagesAssumption
  <1>d. send_hello(t) = IF Login THEN a ELSE h
    BY DEF send_hello
  <1> HIDE DEF h
  <1>4. /\ a \in Transports
        /\ a.socket = h.socket /\ a.connect = h.connect /\ a.read = h.read
        /\ a.queue = Append(h.queue, "Auth")
        /\ Serialised(h) => Serialised(a)
    BY <1>1, AsyncWrite, MessagesAssumption
  <1>5. NoDisconnect(h.queue) => NoDisconnect(a.queue)
    BY <1>2, <1>4, AppendOther, MessagesAssumption
  <1> HIDE DEF a
  <1> QED
    BY <1>1, <1>3, <1>4, <1>5, <1>d

-----------------------------------------------------------------------------
(* The inductive invariant.  Its conjuncts in three groups. *)

Phases == HandshakeComesFirst /\ ConnectPhase /\ EarlyIsQuiet
Watches == HandlesCurrent /\ KeepaliveWatches /\ OnePingTimer /\ DeadlineGuardsAttempt
Pumps == ReadPumpRuns /\ WritesSerialised /\ ClosedIsReleased

(* The invariant as the proofs below use it. *)
LEMMA IndInvFacts ==
    IndInv <=> TypeOK /\ Phases /\ Watches /\ Pumps
  BY DEF IndInv, Phases, Watches, Pumps

(* The types of the variables the steps below assign. *)
LEMMA TypeFacts ==
    ASSUME IndInv
    PROVE  /\ transport \in Transports /\ timers \in TimerTable
           /\ transport.queue \in Seq(Messages) /\ Serialised(transport)
           /\ (Early \/ state = "Connected") => NoDisconnect(transport.queue)
  BY DEF IndInv, TypeOK, WritesSerialised, Serialised, Transports, EarlyIsQuiet, NoDisconnect

(* fail(), from any handler: tm is the timer table with at most the entry of *)
(* the timer that fired erased, and t the transport with at most the         *)
(* operation that completed ended.                                           *)
LEMMA FailStep ==
    ASSUME IndInv,
           NEW why \in Causes, NEW tm \in TimerTable, NEW pong \in Handles,
           NEW t \in Transports, fail(why, tm, pong, t),
           \A id \in TimerIds : tm[id] \in {timers[id], FreeTimer},
           pong \in {pong_timer, invalid_timer},
           Serialised(t), t.queue = transport.queue, t.socket = transport.socket,
           t.connect \in {transport.connect, "idle"}, t.read \in {transport.read, "idle"},
           last_error' \in {"null", "ProtocolError", "HandshakeError"},
           \/ noise_state' = noise_state
           \/ noise_state # "Ready" /\ noise_state' = "Failed",
           drain' \in {"idle", "fed", "draining"}, drain' # "idle" => drain # "idle"
    PROVE  IndInv'
  <1> USE DEF keepalive_vars, connect_vars, error_vars
  <1>1. TypeOK'
    <2>1. noise_state' \in NoiseStates
      BY DEF IndInv, TypeOK, NoiseStates
    <2> QED
      BY <2>1, FailType DEF IndInv, TypeOK, Handles, Causes
  <1>t. /\ transport' \in Transports /\ Serialised(transport')
        /\ transport'.queue = transport.queue
        /\ transport'.connect # "idle" => transport.connect # "idle"
        /\ transport.read = "idle" => transport'.read = "idle"
        /\ \A id \in TimerIds : timers'[id] \in {timers[id], FreeTimer}
    <2>1. CASE Terminal
      BY <2>1 DEF fail
    <2>2. CASE ~Terminal
      BY <2>2, Close DEF fail, stop_keepalive, cancel
    <2> QED
      BY <2>1, <2>2
  <1>s. \/ state \in {"Failed", "Closed"} /\ state' = state /\ transport' = t
        \/ state \notin {"Failed", "Closed"} /\ state' = "Failed"
    BY DEF fail, Terminal
  <1>2. Phases'
    BY <1>t, <1>s DEF IndInv, Phases, HandshakeComesFirst, ConnectPhase, EarlyIsQuiet,
       Early, Armed, Pending, FreeTimer
  <1>3. Watches'
    <2>1. HandlesCurrent' /\ KeepaliveWatches' /\ DeadlineGuardsAttempt'
      BY <1>s DEF IndInv, HandlesCurrent, KeepaliveWatches, DeadlineGuardsAttempt, fail,
         Terminal, stop_keepalive, finish_connect
    <2>2. OnePingTimer'
      BY <1>t DEF IndInv, OnePingTimer, Armed, Pending, FreeTimer
    <2> QED
      BY <2>1, <2>2 DEF Watches
  <1>4. Pumps'
    BY <1>t, <1>s DEF IndInv, Pumps, ReadPumpRuns, WritesSerialised, ClosedIsReleased,
       Serialised
  <1> QED
    BY <1>1, <1>2, <1>3, <1>4, IndInvFacts DEF IndInv, Phases, Watches, Pumps

(* A step that leaves the state, the handler, the handles and the timers     *)
(* alone can disturb only what the transport takes part in.                  *)
LEMMA TransportStep ==
    ASSUME IndInv,
           UNCHANGED <<state, connect_vars, keepalive_vars, cause, timers>>,
           last_error' = last_error,
           transport' \in Transports, Serialised(transport'),
           noise_state' \in NoiseStates,
           noise_state' # "Ready" => noise_state # "Ready",
           noise_state = "Ready" => noise_state' = "Ready",
           drain' \in {"idle", "fed", "draining"},
           transport'.connect # "idle" => transport.connect # "idle",
           transport'.connect # "idle" => transport'.read = "idle" /\ drain' = "idle",
           state = "Disconnected" => transport'.read = "idle" /\ drain' = "idle",
           (Early \/ state = "Connected") => NoDisconnect(transport'.queue),
           state \in {"HelloSent", "Connected"} /\ transport'.socket = "open" =>
              transport'.read # "idle" \/ drain' # "idle",
           drain' # "idle" => transport'.read = "idle",
           state = "Closed" => transport'.socket = "closed"
    PROVE  IndInv'
  <1> USE DEF keepalive_vars, connect_vars, error_vars
  <1>1. TypeOK'
    BY DEF IndInv, TypeOK
  <1>2. Phases'
    BY DEF IndInv, Phases, HandshakeComesFirst, ConnectPhase, EarlyIsQuiet, NoDisconnect,
       Early, Armed
  <1>3. Watches'
    BY DEF IndInv, Watches, HandlesCurrent, KeepaliveWatches, OnePingTimer,
       DeadlineGuardsAttempt, Armed
  <1>4. Pumps'
    BY DEF IndInv, Pumps, ReadPumpRuns, WritesSerialised, ClosedIsReleased, Serialised
  <1> QED
    BY <1>1, <1>2, <1>3, <1>4 DEF IndInv, Phases, Watches, Pumps

-----------------------------------------------------------------------------
(* One lemma per group of actions. *)

(* A new Connection satisfies the invariant. *)
LEMMA InitInd == Init => IndInv
  <1> SUFFICES ASSUME Init PROVE IndInv
    OBVIOUS
  <1>1. TypeOK
    <2>1. <<>> \in Seq(Messages) /\ <<>> \in Seq({"ok", "error"})
      OBVIOUS
    <2>2. NewTransport \in Transports
      BY <2>1 DEF NewTransport, Transports, Sockets, ConnectOps, ReadOps, WriteOps
    <2>3. NoTimers \in TimerTable
      BY DEF NoTimers, TimerTable
    <2>4. noise_state \in NoiseStates
      BY DEF Init, NoiseStates
    <2> QED
      BY <2>1, <2>2, <2>3, <2>4 DEF Init, TypeOK, ConnectionStates
  <1>2. Phases
    BY DEF Init, Phases, HandshakeComesFirst, ConnectPhase, EarlyIsQuiet, NewTransport,
       NoTimers, FreeTimer, Armed, Pending
  <1>3. Watches
    BY DEF Init, Watches, HandlesCurrent, KeepaliveWatches, OnePingTimer,
       DeadlineGuardsAttempt, NoTimers, FreeTimer, Armed, Pending
  <1>4. Pumps
    BY DEF Init, Pumps, ReadPumpRuns, WritesSerialised, ClosedIsReleased, NewTransport
  <1> QED
    BY <1>1, <1>2, <1>3, <1>4 DEF IndInv, Phases, Watches, Pumps

(* start() schedules the connect deadline together with the handler. *)
LEMMA StartInd == IndInv /\ start => IndInv'
  <1> SUFFICES ASSUME IndInv, start PROVE IndInv'
    OBVIOUS
  <1> USE DEF keepalive_vars, connect_vars, error_vars
  <1> DEFINE id == NewTimer(timers, {})
  <1>f. id \in TimerIds /\ timers[id].status = "free"
    BY Fresh DEF start
  <1>s. /\ state = "Disconnected" /\ state' = "Connecting"
        /\ timers' = schedule_after(timers, id, "connect") /\ connect_timer' = id
        /\ connect_handler' = TRUE /\ last_error' = "null"
        /\ transport' = async_connect(transport)
        /\ UNCHANGED <<on_done, keepalive_vars, cause, noise_state, drain>>
    BY DEF start
  <1> HIDE DEF id
  <1>t. /\ transport' \in Transports /\ Serialised(transport')
        /\ transport'.queue = transport.queue /\ transport'.read = transport.read
        /\ transport'.socket = transport.socket
    BY <1>s, TypeFacts DEF async_connect, Transports, Serialised, ConnectOps
  <1>1. TypeOK'
    BY <1>s, <1>t, <1>f, Timers DEF IndInv, TypeOK, TimerKinds, ConnectionStates
  <1>2. Phases'
    BY <1>s, <1>t, <1>f, TypeFacts DEF IndInv, Phases, HandshakeComesFirst, ConnectPhase,
       EarlyIsQuiet, Early, Armed, Pending, schedule_after, TimerTable
  <1>3. Watches'
    BY <1>s, <1>f, TypeFacts DEF IndInv, Watches, HandlesCurrent, KeepaliveWatches,
       OnePingTimer, DeadlineGuardsAttempt, Armed, Pending, schedule_after, TimerTable
  <1>4. Pumps'
    BY <1>s, <1>t DEF IndInv, Pumps, ConnectPhase, ReadPumpRuns, WritesSerialised,
       ClosedIsReleased, Serialised
  <1> QED
    BY <1>1, <1>2, <1>3, <1>4 DEF IndInv, Phases, Watches, Pumps

(* send() only queues a write, in whatever state the connection is. *)
LEMMA SendInd == IndInv /\ send => IndInv'
  <1> SUFFICES ASSUME IndInv, send PROVE IndInv'
    OBVIOUS
  <1>t. /\ transport' \in Transports /\ Serialised(transport')
        /\ transport'.queue = Append(transport.queue, "App")
        /\ transport'.socket = transport.socket /\ transport'.connect = transport.connect
        /\ transport'.read = transport.read
    BY TypeFacts, AsyncWrite, MessagesAssumption DEF send
  <1>q. (Early \/ state = "Connected") => NoDisconnect(transport'.queue)
    BY <1>t, TypeFacts, AppendOther, MessagesAssumption
  <1> QED
    BY <1>t, <1>q, TransportStep DEF send, error_vars, IndInv, TypeOK, ConnectPhase,
       ReadPumpRuns, ClosedIsReleased

(* disconnect() stops keepalive and leaves the connect deadline running. *)
LEMMA DisconnectInd == IndInv /\ disconnect => IndInv'
  <1> SUFFICES ASSUME IndInv, disconnect PROVE IndInv'
    OBVIOUS
  <1> USE DEF keepalive_vars, connect_vars, error_vars
  <1>t. /\ transport' \in Transports /\ Serialised(transport')
        /\ transport'.socket = transport.socket /\ transport'.connect = transport.connect
        /\ transport'.read = transport.read
    BY TypeFacts, AsyncWrite, MessagesAssumption DEF disconnect
  <1>c. timers' \in TimerTable
    BY TypeFacts DEF disconnect, stop_keepalive, cancel, TimerTable, TimerKinds, FreeTimer
  <1>1. TypeOK'
    BY <1>t, <1>c DEF IndInv, disconnect, stop_keepalive, TypeOK, ConnectionStates
  <1>2. Phases'
    BY <1>t DEF IndInv, Phases, disconnect, HandshakeComesFirst, ConnectPhase,
       EarlyIsQuiet, Early
  <1>3. Watches'
    BY TimerIdsAssumption DEF IndInv, Watches, disconnect, stop_keepalive, cancel,
       HandlesCurrent, KeepaliveWatches, OnePingTimer, DeadlineGuardsAttempt, Armed,
       Pending, FreeTimer, invalid_timer
  <1>4. Pumps'
    BY <1>t DEF IndInv, Pumps, disconnect, ReadPumpRuns, WritesSerialised,
       ClosedIsReleased, Serialised
  <1> QED
    BY <1>1, <1>2, <1>3, <1>4 DEF IndInv, Phases, Watches, Pumps

(* The connect completes.  A late success revives a failed attempt: Early    *)
(* still holds, so nothing of an earlier session is in its way.              *)
LEMMA ConnectedInd == IndInv /\ on_connected_transport => IndInv'
  <1> SUFFICES ASSUME IndInv, on_connected_transport PROVE IndInv'
    OBVIOUS
  <1> USE DEF keepalive_vars, connect_vars, error_vars
  <1> DEFINE t == end_connect(transport)
             r == do_read(t)
  <1>t. /\ t \in Transports /\ Serialised(t) /\ t.queue = transport.queue
        /\ t.socket = transport.socket /\ t.connect = "idle" /\ t.read = transport.read
    BY TypeFacts DEF end_connect, Transports, Serialised, ConnectOps
  <1>r. /\ r \in Transports /\ Serialised(r) /\ r.queue = transport.queue
        /\ r.socket = transport.socket /\ r.connect = "idle" /\ r.read # "idle"
    BY <1>t DEF do_read, Transports, Serialised, ReadOps
  <1>d. t = end_connect(transport) /\ r = do_read(end_connect(transport))
    OBVIOUS
  <1>i. drain = "idle"
    BY DEF on_connected_transport
  <1> HIDE DEF t, r
  <1>1. CASE resolve_failed \/ connect_failed
    <2>1. fail("transport", timers, pong_timer, t)
      BY <1>1, <1>d DEF resolve_failed, connect_failed
    <2>2. /\ timers \in TimerTable /\ pong_timer \in Handles /\ "transport" \in Causes
          /\ last_error' \in {"null", "ProtocolError", "HandshakeError"}
          /\ noise_state' = noise_state /\ drain' = drain
      BY <1>1 DEF IndInv, TypeOK, Handles, Causes, resolve_failed, connect_failed
    <2> QED
      BY <1>t, <1>i, <2>1, <2>2, FailStep
  <1>2. CASE resolve_done
    <2>1. /\ transport' \in Transports /\ Serialised(transport')
          /\ transport'.queue = transport.queue /\ transport'.socket = "opening"
          /\ transport'.read = transport.read /\ transport.connect = "resolved"
      BY <1>2, TypeFacts
         DEF resolve_done, begin_connect, Transports, Serialised, ConnectOps, Sockets
    <2> QED
      BY <1>2, <1>i, <2>1, TypeFacts, TransportStep
         DEF resolve_done, IndInv, TypeOK, ConnectPhase, ReadPumpRuns, ClosedIsReleased
  <1>3. CASE connected_plaintext
    <2>s. /\ transport' = send_hello(r) /\ state' = "HelloSent"
          /\ transport.connect = "connected" /\ ~Encrypted
          /\ UNCHANGED <<connect_vars, keepalive_vars, error_vars, noise_state, drain, timers>>
      BY <1>3, <1>d DEF connected_plaintext
    <2>t. /\ transport' \in Transports /\ Serialised(transport')
          /\ transport'.socket = transport.socket /\ transport'.connect = "idle"
          /\ transport'.read # "idle" /\ NoDisconnect(transport'.queue)
      BY <2>s, <1>r, SendHello, TypeFacts DEF Early
    <2>1. TypeOK'
      BY <2>s, <2>t DEF IndInv, TypeOK, ConnectionStates
    <2>2. Phases'
      BY <2>s, <2>t, <1>i DEF IndInv, Phases, HandshakeComesFirst, ConnectPhase,
         EarlyIsQuiet, Early, NoDisconnect, Armed
    <2>3. Watches'
      BY <2>s DEF IndInv, Watches, HandlesCurrent, KeepaliveWatches, OnePingTimer,
         DeadlineGuardsAttempt, ConnectPhase, Armed
    <2>4. Pumps'
      BY <2>s, <2>t, <1>i DEF IndInv, Pumps, ReadPumpRuns, WritesSerialised,
         ClosedIsReleased, Serialised
    <2> QED
      BY <2>1, <2>2, <2>3, <2>4 DEF IndInv, Phases, Watches, Pumps
  <1>4. CASE connected_noise
    <2>s. transport' = async_write(r, "NoiseHello") /\ transport.connect = "connected"
      BY <1>4, <1>d DEF connected_noise
    <2>m. "NoiseHello" \in Messages
      BY MessagesAssumption
    <2>1. /\ transport' \in Transports /\ Serialised(transport')
          /\ transport'.queue = Append(transport.queue, "NoiseHello")
          /\ transport'.socket = transport.socket /\ transport'.connect = "idle"
          /\ transport.connect = "connected"
      BY <2>s, <2>m, <1>r, AsyncWrite
    <2>2. NoDisconnect(transport'.queue)
      BY <2>1, TypeFacts, AppendOther, MessagesAssumption DEF Early
    <2>3. state \in {"Connecting", "Failed"}
      BY <2>1 DEF IndInv, ConnectPhase
    <2> QED
      BY <1>4, <1>i, <2>1, <2>2, <2>3, TransportStep DEF connected_noise, IndInv, TypeOK
  <1> QED
    BY <1>1, <1>2, <1>3, <1>4 DEF on_connected_transport

(* A timer fires.  The entry is erased first; the connect and the pong timer *)
(* fail the connection, the ping timer schedules the next ping and, if no    *)
(* pong is awaited, the timer that waits for it.                             *)
LEMMA FireTimerInd ==
    ASSUME NEW id \in TimerIds, IndInv, FireTimer(id)
    PROVE  IndInv'
  <1> USE DEF keepalive_vars, connect_vars, error_vars
  <1> DEFINE tm == erase(timers, id)
  <1>t. /\ tm \in TimerTable /\ \A i \in TimerIds : tm[i] \in {timers[i], FreeTimer}
        /\ \A i \in TimerIds : i # id => tm[i] = timers[i]
        /\ tm[id] = FreeTimer
    BY TypeFacts DEF erase, TimerTable
  <1>d. tm = erase(timers, id)
    OBVIOUS
  <1>k. /\ drain = "idle" /\ timers[id].status = "expired"
        /\ UNCHANGED <<noise_state, drain>>
        /\ \/ timers[id].kind = "connect" /\ connect_timeout(tm)
           \/ timers[id].kind = "ping" /\ send_ping(tm)
           \/ timers[id].kind = "pong" /\ pong_timeout(tm)
    BY DEF FireTimer
  <1> HIDE DEF tm
  <1>h. /\ pong_timer \in Handles /\ invalid_timer \in Handles /\ "transport" \in Causes
        /\ last_error \in {"null", "ProtocolError", "HandshakeError"}
    BY DEF IndInv, TypeOK, Handles, Causes
  <1>1. ASSUME NEW pong \in {pong_timer, invalid_timer}, last_error' = last_error,
               fail("transport", tm, pong, transport)
        PROVE  IndInv'
    BY <1>1, <1>t, <1>k, <1>h, TypeFacts, FailStep
  <1>2. CASE timers[id].kind = "connect" /\ connect_timeout(tm)
    <2>1. CASE state # "Connected"
      BY <1>1, <1>2, <2>1 DEF connect_timeout
    <2>2. CASE state = "Connected"
      <3>s. timers' = tm /\ UNCHANGED <<state, connect_vars, keepalive_vars, error_vars, transport>>
        BY <1>2, <2>2 DEF connect_timeout
      <3>1. TypeOK'
        BY <3>s, <1>t, <1>k DEF IndInv, TypeOK
      <3>2. Phases'
        BY <3>s, <1>t, <1>k DEF IndInv, Phases, HandshakeComesFirst, ConnectPhase,
           EarlyIsQuiet, Early, Armed, Pending, FreeTimer
      <3>3. Watches'
        BY <3>s, <1>t, <1>2, <2>2 DEF IndInv, Watches, HandlesCurrent, KeepaliveWatches,
           OnePingTimer, DeadlineGuardsAttempt, Armed, Pending, FreeTimer
      <3>4. Pumps'
        BY <3>s, <1>k DEF IndInv, Pumps, ReadPumpRuns, WritesSerialised, ClosedIsReleased
      <3> QED
        BY <3>1, <3>2, <3>3, <3>4 DEF IndInv, Phases, Watches, Pumps
    <2> QED
      BY <2>1, <2>2
  <1>3. CASE timers[id].kind = "pong" /\ pong_timeout(tm)
    <2>1. CASE awaiting_pong
      BY <1>1, <1>3, <2>1 DEF pong_timeout
    <2>2. CASE ~awaiting_pong
      <3>s. /\ timers' = tm /\ pong_timer' = invalid_timer
            /\ UNCHANGED <<state, connect_vars, ping_timer, awaiting_pong, error_vars, transport>>
        BY <1>3, <2>2 DEF pong_timeout
      <3>1. TypeOK'
        BY <3>s, <1>t, <1>k DEF IndInv, TypeOK
      <3>2. Phases'
        BY <3>s, <1>t, <1>k DEF IndInv, Phases, HandshakeComesFirst, ConnectPhase,
           EarlyIsQuiet, Early, Armed, Pending, FreeTimer
      <3>3. Watches'
        BY <3>s, <1>t, <1>3, <2>2 DEF IndInv, Watches, HandlesCurrent, KeepaliveWatches,
           OnePingTimer, DeadlineGuardsAttempt, Armed, Pending, FreeTimer
      <3>4. Pumps'
        BY <3>s, <1>k DEF IndInv, Pumps, ReadPumpRuns, WritesSerialised, ClosedIsReleased
      <3> QED
        BY <3>1, <3>2, <3>3, <3>4 DEF IndInv, Phases, Watches, Pumps
    <2> QED
      BY <2>1, <2>2
  <1>4. CASE timers[id].kind = "ping" /\ send_ping(tm)
    <2>1. CASE state # "Connected"
      <3>s. timers' = tm /\ UNCHANGED <<state, connect_vars, keepalive_vars, error_vars, transport>>
        BY <1>4, <2>1 DEF send_ping
      <3>1. TypeOK'
        BY <3>s, <1>t, <1>k DEF IndInv, TypeOK
      <3>2. Phases'
        BY <3>s, <1>t, <1>k DEF IndInv, Phases, HandshakeComesFirst, ConnectPhase,
           EarlyIsQuiet, Early, Armed, Pending, FreeTimer
      <3>3. Watches'
        BY <3>s, <1>t, <1>4, <2>1 DEF IndInv, Watches, HandlesCurrent, KeepaliveWatches,
           OnePingTimer, DeadlineGuardsAttempt, Armed, Pending, FreeTimer
      <3>4. Pumps'
        BY <3>s, <1>k DEF IndInv, Pumps, ReadPumpRuns, WritesSerialised, ClosedIsReleased
      <3> QED
        BY <3>1, <3>2, <3>3, <3>4 DEF IndInv, Phases, Watches, Pumps
    <2>2. CASE state = "Connected"
      <3> DEFINE pong == NewTimer(tm, {connect_timer, ping_timer})
                 armed == IF awaiting_pong THEN tm ELSE schedule_after(tm, pong, "pong")
                 handle == IF awaiting_pong THEN pong_timer ELSE pong
                 ping == NewTimer(armed, {connect_timer, handle})
      <3>s. /\ FreshIds(tm, {connect_timer, ping_timer}) # {}
            /\ FreshIds(armed, {connect_timer, handle}) # {}
            /\ transport' = async_write(transport, "Ping")
            /\ awaiting_pong' = TRUE /\ pong_timer' = handle
            /\ timers' = schedule_after(armed, ping, "ping") /\ ping_timer' = ping
            /\ UNCHANGED <<state, connect_vars, error_vars>>
        BY <1>4, <2>2 DEF send_ping
      <3>a. pong \in TimerIds /\ tm[pong].status = "free"
        BY <3>s, Fresh
      <3>b. ping \in TimerIds /\ ping # handle /\ armed[ping].status = "free"
        BY <3>s, Fresh
      <3>x. /\ armed = IF awaiting_pong THEN tm ELSE schedule_after(tm, pong, "pong")
            /\ handle = IF awaiting_pong THEN pong_timer ELSE pong
        OBVIOUS
      <3> HIDE DEF pong, armed, handle, ping
      <3>c. /\ armed \in TimerTable /\ handle \in TimerIds
            /\ armed[handle].status # "free" /\ armed[handle].kind = "pong"
            /\ \A i \in TimerIds : armed[i].status = "free" \/ armed[i].kind # "ping"
        <4>1. CASE awaiting_pong
          BY <3>x, <4>1, <1>t, <1>4, <1>k DEF IndInv, KeepaliveWatches, OnePingTimer,
             Armed, Pending, FreeTimer
        <4>2. CASE ~awaiting_pong
          BY <3>x, <3>a, <4>2, <1>t, <1>4, <1>k, Timers DEF IndInv, OnePingTimer, Armed,
             Pending, FreeTimer, schedule_after, TimerTable, TimerKinds
        <4> QED
          BY <4>1, <4>2
      <3>t. /\ transport' \in Transports /\ Serialised(transport')
            /\ transport'.socket = transport.socket /\ transport'.connect = transport.connect
            /\ transport'.read = transport.read
            /\ transport'.queue = Append(transport.queue, "Ping")
        BY <3>s, TypeFacts, AsyncWrite, MessagesAssumption
      <3>u. /\ timers' \in TimerTable
            /\ timers'[ping].status = "armed" /\ timers'[ping].kind = "ping"
            /\ \A i \in TimerIds : i # ping => timers'[i] = armed[i]
        BY <3>s, <3>b, <3>c, Timers DEF schedule_after, TimerTable, TimerKinds
      <3>1. TypeOK'
        BY <3>s, <3>b, <3>c, <3>t, <3>u, <1>k DEF IndInv, TypeOK
      <3>q. NoDisconnect(transport'.queue)
        BY <3>t, <2>2, TypeFacts, AppendOther, MessagesAssumption
      <3>2. Phases'
        BY <3>s, <3>t, <3>q, <2>2, <1>k DEF IndInv, Phases, HandshakeComesFirst,
           ConnectPhase, EarlyIsQuiet, Early, NoDisconnect
      <3>3. Watches'
        BY <3>s, <3>b, <3>c, <3>u, <2>2 DEF IndInv, Watches, HandlesCurrent,
           KeepaliveWatches, OnePingTimer, DeadlineGuardsAttempt, Armed, Pending
      <3>4. Pumps'
        BY <3>s, <3>t, <1>k, <2>2 DEF IndInv, Pumps, ReadPumpRuns, WritesSerialised,
           ClosedIsReleased, Serialised
      <3> QED
        BY <3>1, <3>2, <3>3, <3>4 DEF IndInv, Phases, Watches, Pumps
    <2> QED
      BY <2>1, <2>2
  <1> QED
    BY <1>k, <1>2, <1>3, <1>4

(* A write completes.  The DisconnectRequest closes the connection; by       *)
(* EarlyIsQuiet it is in the queue only after the session was established.   *)
LEMMA WrittenInd == IndInv /\ on_written => IndInv'
  <1> SUFFICES ASSUME IndInv, drain = "idle", NEW ok \in BOOLEAN,
                      transport.write \in {"raced", IF ok THEN "ok" ELSE "error"},
                      disconnect_written(ok) \/ other_written(ok),
                      UNCHANGED <<connect_vars, keepalive_vars, error_vars, noise_state,
                                  drain, timers>>
               PROVE  IndInv'
    BY DEF on_written
  <1> USE DEF keepalive_vars, connect_vars, error_vars
  <1>q. transport.queue # <<>>
    BY TypeFacts DEF Serialised
  <1> DEFINE p == pop_write(transport)
  <1>p. /\ p \in Transports /\ p.queue = Tail(transport.queue) /\ p.write = "idle"
        /\ p.socket = transport.socket /\ p.connect = transport.connect
        /\ p.read = transport.read
    BY <1>q, TypeFacts, PopWrite
  <1>d. p = pop_write(transport)
    OBVIOUS
  <1> HIDE DEF p
  <1>1. CASE disconnect_written(ok)
    <2> DEFINE c == close(p)
    <2>c. /\ c \in Transports /\ c.write = "idle" /\ c.socket = "closed"
          /\ p.connect = "idle" <=> c.connect = "idle"
          /\ p.read = "idle" <=> c.read = "idle"
      <3>1. c.write = "idle"
        BY <1>p DEF close, Transports
      <3> QED
        BY <3>1, <1>p, Close
    <2>s. /\ transport' = continue_write(c, ok) /\ state' = "Closed"
          /\ Head(transport.queue) = "DisconnectRequest"
      BY <1>1, <1>d DEF disconnect_written
    <2> HIDE DEF c
    <2>t. /\ transport' \in Transports /\ Serialised(transport')
          /\ transport'.socket = "closed" /\ transport'.connect = c.connect
          /\ transport'.read = c.read
      BY <2>c, <2>s, ContinueWrite
    <2>e. ~Early /\ state # "Connected"
      BY <2>s, <1>q, TypeFacts, TailOther
    <2>1. TypeOK'
      BY <2>s, <2>t DEF IndInv, TypeOK, ConnectionStates
    <2>2. Phases'
      BY <2>s, <2>t, <2>e, <2>c, <1>p DEF IndInv, Phases, HandshakeComesFirst,
         ConnectPhase, EarlyIsQuiet, Early
    <2>3. Watches'
      BY <2>s, <2>e DEF IndInv, Watches, HandlesCurrent, KeepaliveWatches, OnePingTimer,
         DeadlineGuardsAttempt, Armed, Early
    <2>4. Pumps'
      BY <2>s, <2>t, <2>e, <2>c, <1>p DEF IndInv, Pumps, ReadPumpRuns, WritesSerialised,
         ClosedIsReleased, Serialised, Early
    <2> QED
      BY <2>1, <2>2, <2>3, <2>4 DEF IndInv, Phases, Watches, Pumps
  <1>2. CASE other_written(ok)
    <2>s. transport' = continue_write(p, ok) /\ UNCHANGED state
      BY <1>2, <1>d DEF other_written
    <2>t. /\ transport' \in Transports /\ Serialised(transport')
          /\ transport'.socket = transport.socket /\ transport'.connect = transport.connect
          /\ transport'.read = transport.read /\ transport'.queue = Tail(transport.queue)
      BY <2>s, <1>p, ContinueWrite
    <2>q. (Early \/ state = "Connected") => NoDisconnect(transport'.queue)
      BY <2>t, <1>q, TypeFacts, TailOther
    <2> QED
      BY <2>s, <2>t, <2>q, TransportStep DEF IndInv, TypeOK, ConnectPhase, ReadPumpRuns,
         ClosedIsReleased
  <1> QED
    BY <1>1, <1>2

(* The read completes, and its handler returns. *)
LEMMA ReadInd == IndInv /\ (read_error \/ feed \/ drain_end) => IndInv'
  <1> SUFFICES ASSUME IndInv, read_error \/ feed \/ drain_end PROVE IndInv'
    OBVIOUS
  <1> USE DEF keepalive_vars, connect_vars, error_vars
  <1> DEFINE t == end_read(transport)
  <1>t. /\ t \in Transports /\ Serialised(t) /\ t.queue = transport.queue
        /\ t.socket = transport.socket /\ t.connect = transport.connect /\ t.read = "idle"
    BY TypeFacts DEF end_read, Transports, Serialised, ReadOps
  <1>d. t = end_read(transport)
    OBVIOUS
  <1> HIDE DEF t
  <1>q. (Early \/ state = "Connected") => NoDisconnect(transport.queue)
    BY TypeFacts
  <1>1. CASE read_error
    <2>1. CASE state \in {"Closing", "Closed"}
      BY <1>1, <2>1, <1>t, <1>d, <1>q, TransportStep
         DEF read_error, IndInv, TypeOK, ConnectPhase, ClosedIsReleased
    <2>2. CASE state \notin {"Closing", "Closed"}
      <3>1. /\ fail("transport", timers, pong_timer, t) /\ drain = "idle"
            /\ UNCHANGED <<last_error, noise_state, drain>>
        BY <1>1, <2>2, <1>d DEF read_error
      <3>2. /\ timers \in TimerTable /\ pong_timer \in Handles /\ "transport" \in Causes
            /\ last_error' \in {"null", "ProtocolError", "HandshakeError"}
        BY <3>1 DEF IndInv, TypeOK, Handles, Causes
      <3> QED
        BY <1>t, <3>1, <3>2, FailStep
    <2> QED
      BY <2>1, <2>2
  <1>2. CASE feed
    <2>1. transport.read # "idle"
      BY <1>2 DEF feed
    <2> QED
      BY <1>2, <2>1, <1>t, <1>d, <1>q, TransportStep
         DEF feed, IndInv, TypeOK, ConnectPhase, ClosedIsReleased
  <1>3. CASE drain_end
    <2>1. /\ transport' \in Transports /\ Serialised(transport')
          /\ transport'.queue = transport.queue /\ transport'.socket = transport.socket
          /\ transport'.connect = transport.connect
          /\ transport.socket # "closed" => transport'.read # "idle"
      BY <1>3, TypeFacts DEF drain_end, continue_read, do_read, is_open, Transports,
         Serialised, ReadOps
    <2>2. transport.connect = "idle" /\ state # "Disconnected"
      BY <1>3 DEF drain_end, IndInv, ConnectPhase
    <2> QED
      BY <1>3, <2>1, <2>2, <1>q, TransportStep
         DEF drain_end, IndInv, TypeOK, ClosedIsReleased
  <1> QED
    BY <1>1, <1>2, <1>3

(* Frames the connection fails on, in the codec, the handshake or the message. *)
LEMMA RejectedInd ==
    IndInv /\ (malformed_frame \/ report_error \/ rejected_message) => IndInv'
  <1> SUFFICES ASSUME IndInv, malformed_frame \/ report_error \/ rejected_message
               PROVE  IndInv'
    OBVIOUS
  <1>1. PICK why \in Causes : fail(why, timers, pong_timer, transport)
    BY DEF malformed_frame, report_error, rejected_message, Causes
  <1>2. /\ last_error' \in {"null", "ProtocolError", "HandshakeError"}
        /\ drain # "idle" /\ drain' \in {"idle", "fed", "draining"}
        /\ \/ noise_state' = noise_state
           \/ noise_state # "Ready" /\ noise_state' = "Failed"
    BY DEF malformed_frame, report_error, rejected_message, NextFrame, IndInv, TypeOK
  <1>3. timers \in TimerTable /\ pong_timer \in Handles
    BY DEF IndInv, TypeOK, Handles
  <1> QED
    BY <1>1, <1>2, <1>3, TypeFacts, FailStep

(* The Noise handshake goes on.  Its last message sends Hello, also when the *)
(* connection has failed meanwhile.                                          *)
LEMMA HandshakeInd == IndInv /\ (server_hello \/ server_handshake) => IndInv'
  <1> SUFFICES ASSUME IndInv, server_hello \/ server_handshake PROVE IndInv'
    OBVIOUS
  <1> USE DEF keepalive_vars, connect_vars, error_vars
  <1>i. /\ transport.connect = "idle" /\ state \notin {"Disconnected", "Closed"}
        /\ Early
    BY DEF server_hello, server_handshake, IndInv, ConnectPhase, HandshakeComesFirst, Early
  <1>1. CASE server_hello
    BY <1>1, <1>i, TypeFacts, TransportStep
       DEF server_hello, IndInv, TypeOK, NoiseStates, ReadPumpRuns, ClosedIsReleased
  <1>2. CASE server_handshake
    <2>s. /\ transport' = send_hello(transport) /\ state' = "HelloSent"
          /\ noise_state = "ExpectHandshake" /\ noise_state' = "Ready" /\ drain = "fed"
          /\ UNCHANGED <<connect_vars, keepalive_vars, error_vars, drain, timers>>
      BY <1>2 DEF server_handshake
    <2>t. /\ transport' \in Transports /\ Serialised(transport')
          /\ transport'.socket = transport.socket /\ transport'.connect = "idle"
          /\ transport'.read = transport.read /\ NoDisconnect(transport'.queue)
      BY <2>s, <1>i, SendHello, TypeFacts
    <2>1. TypeOK'
      BY <2>s, <2>t DEF IndInv, TypeOK, ConnectionStates, NoiseStates
    <2>2. Phases'
      BY <2>s, <2>t, <1>i DEF IndInv, Phases, HandshakeComesFirst, ConnectPhase,
         EarlyIsQuiet, Early, NoDisconnect, Armed
    <2>3. Watches'
      BY <2>s, <1>i DEF IndInv, Watches, HandlesCurrent, KeepaliveWatches, OnePingTimer,
         DeadlineGuardsAttempt, HandshakeComesFirst, Armed
    <2>4. Pumps'
      BY <2>s, <2>t DEF IndInv, Pumps, ReadPumpRuns, WritesSerialised, ClosedIsReleased,
         Serialised
    <2> QED
      BY <2>1, <2>2, <2>3, <2>4 DEF IndInv, Phases, Watches, Pumps
  <1> QED
    BY <1>1, <1>2

(* HelloResponse: the connect timer goes, the first ping timer comes, and    *)
(* the user's callback may already have asked for a disconnect.              *)
LEMMA HelloResponseInd == IndInv /\ hello_response => IndInv'
  <1> SUFFICES ASSUME IndInv, hello_response PROVE IndInv'
    OBVIOUS
  <1> USE DEF keepalive_vars, connect_vars, error_vars
  <1>s. /\ state = "HelloSent" /\ noise_state = "Ready" /\ drain # "idle"
        /\ drain' = "draining" /\ UNCHANGED <<last_error, noise_state, cause>>
        /\ connect_timer' = invalid_timer /\ connect_handler' = FALSE
    BY DEF hello_response, NextFrame, finish_connect
  <1>h. on_done' \in Seq({"ok", "error"})
    BY FinishType DEF hello_response, IndInv
  <1>i. /\ transport.connect = "idle" /\ transport.read = "idle" /\ ~awaiting_pong
        /\ ping_timer = invalid_timer /\ pong_timer = invalid_timer
        /\ NoDisconnect(transport.queue)
        /\ \A id \in TimerIds : timers[id].status = "free" \/ timers[id].kind # "ping"
    <2>1. Early
      BY <1>s DEF Early
    <2> QED
      BY <1>s, <2>1, TypeFacts DEF IndInv, ConnectPhase, ReadPumpRuns, KeepaliveWatches,
         HandlesCurrent, EarlyIsQuiet, Armed, Pending
  <1> DEFINE c == cancel(timers, {connect_timer, ping_timer, pong_timer})
             d == cancel(timers, {connect_timer})
  <1>c. /\ c \in TimerTable /\ c = d
        /\ \A id \in TimerIds : c[id] \in {timers[id], FreeTimer}
        /\ FreshIds(c, {}) # {}
    BY <1>i, TimerIdsAssumption, TypeFacts DEF hello_response, cancel, TimerTable,
       TimerKinds, FreeTimer, FreshIds, invalid_timer
  <1>k. start_keepalive(c, invalid_timer)
    BY <1>c, <1>i DEF hello_response, hello_accepted, hello_accepted_disconnect
  <1>t. /\ transport' \in Transports /\ Serialised(transport')
        /\ transport'.connect = "idle" /\ transport'.read = "idle"
        /\ transport'.socket = transport.socket
        /\ \/ state' = "Connected" /\ transport' = transport
           \/ state' = "Closing"
        /\ ~awaiting_pong' /\ awaiting_pong' \in BOOLEAN /\ pong_timer' = invalid_timer
    <2>1. CASE hello_accepted
      BY <2>1, <1>i, TypeFacts DEF hello_accepted, IndInv, TypeOK
    <2>2. CASE hello_accepted_disconnect
      BY <2>2, <1>i, TypeFacts, AsyncWrite, MessagesAssumption DEF hello_accepted_disconnect
    <2> QED
      BY <2>1, <2>2 DEF hello_response
  <1> HIDE DEF c, d
  <1> DEFINE id == NewTimer(c, {})
  <1>f. id \in TimerIds /\ c[id].status = "free"
    BY <1>c, Fresh
  <1>u. /\ timers' = (IF Keepalive THEN schedule_after(c, id, "ping") ELSE c)
        /\ ping_timer' = (IF Keepalive THEN id ELSE invalid_timer)
    BY <1>k DEF start_keepalive
  <1> HIDE DEF id
  <1>v. /\ timers' \in TimerTable /\ ping_timer' \in TimerIds \cup {invalid_timer}
        /\ Keepalive => ping_timer' = id /\ timers'[id].status = "armed"
                        /\ timers'[id].kind = "ping"
        /\ \A i \in TimerIds : \/ i = id
                               \/ timers'[i].status = "free" \/ timers'[i].kind # "ping"
    <2>1. \A i \in TimerIds : c[i].status = "free" \/ c[i].kind # "ping"
      BY <1>c, <1>i DEF FreeTimer
    <2>2. CASE Keepalive
      BY <1>u, <1>f, <1>c, <2>1, <2>2, Timers DEF schedule_after, TimerTable, TimerKinds
    <2>3. CASE ~Keepalive
      BY <1>u, <1>c, <2>1, <2>3
    <2> QED
      BY <2>2, <2>3
  <1>1. TypeOK'
    BY <1>s, <1>h, <1>t, <1>v DEF IndInv, TypeOK, ConnectionStates
  <1>2. Phases'
    BY <1>s, <1>t, <1>i DEF IndInv, Phases, HandshakeComesFirst, ConnectPhase,
       EarlyIsQuiet, Early, NoDisconnect
  <1>3. Watches'
    <2>1. HandlesCurrent' /\ DeadlineGuardsAttempt'
      BY <1>s, <1>t DEF HandlesCurrent, DeadlineGuardsAttempt
    <2>2. KeepaliveWatches'
      BY <1>t, <1>v, <1>f DEF KeepaliveWatches, Armed, Pending
    <2>3. OnePingTimer'
      BY <1>v DEF OnePingTimer, Armed, Pending
    <2> QED
      BY <2>1, <2>2, <2>3 DEF Watches
  <1>4. Pumps'
    BY <1>s, <1>t DEF IndInv, Pumps, ReadPumpRuns, WritesSerialised, ClosedIsReleased,
       Serialised
  <1> QED
    BY <1>1, <1>2, <1>3, <1>4 DEF IndInv, Phases, Watches, Pumps

(* The peer ends the session, asking for it or answering our request. *)
LEMMA PeerDisconnectInd ==
    IndInv /\ (disconnect_request \/ disconnect_response) => IndInv'
  <1> SUFFICES ASSUME IndInv, disconnect_request \/ disconnect_response PROVE IndInv'
    OBVIOUS
  <1> USE DEF keepalive_vars, connect_vars, error_vars
  <1>s. /\ state' = "Closed" /\ noise_state = "Ready" /\ drain # "idle"
        /\ drain' = "draining" /\ UNCHANGED <<last_error, noise_state, cause, connect_timer>>
        /\ stop_keepalive(timers, pong_timer, {})
    BY DEF disconnect_request, disconnect_response, NextFrame
  <1>h. connect_handler' \in BOOLEAN /\ on_done' \in Seq({"ok", "error"})
    BY FinishType DEF disconnect_request, disconnect_response, IndInv, TypeOK
  <1>i. transport.connect = "idle" /\ transport.read = "idle"
    BY <1>s DEF IndInv, ConnectPhase, ReadPumpRuns
  <1>t. /\ transport' \in Transports /\ Serialised(transport')
        /\ transport'.socket = "closed"
        /\ transport'.connect = "idle" /\ transport'.read = "idle"
    <2>1. CASE disconnect_request
      <3> DEFINE w == async_write(transport, "DisconnectResponse")
      <3>1. /\ w \in Transports /\ Serialised(w)
            /\ w.connect = "idle" /\ w.read = "idle"
        BY <1>i, TypeFacts, AsyncWrite, MessagesAssumption
      <3>2. transport' = close(w)
        BY <2>1 DEF disconnect_request
      <3> HIDE DEF w
      <3> QED
        BY <3>1, <3>2, Close
    <2>2. CASE disconnect_response
      BY <2>2, <1>i, TypeFacts, Close DEF disconnect_response
    <2> QED
      BY <2>1, <2>2
  <1>c. /\ timers' \in TimerTable
        /\ \A id \in TimerIds : timers'[id] \in {timers[id], FreeTimer}
    BY <1>s, TypeFacts DEF stop_keepalive, cancel, TimerTable, TimerKinds, FreeTimer
  <1>1. TypeOK'
    BY <1>s, <1>h, <1>t, <1>c DEF stop_keepalive, IndInv, TypeOK, ConnectionStates
  <1>2. Phases'
    BY <1>s, <1>t DEF IndInv, Phases, HandshakeComesFirst, ConnectPhase, EarlyIsQuiet, Early
  <1>3. Watches'
    <2>1. HandlesCurrent' /\ KeepaliveWatches' /\ DeadlineGuardsAttempt'
      BY <1>s DEF stop_keepalive, HandlesCurrent, KeepaliveWatches, DeadlineGuardsAttempt
    <2>2. OnePingTimer'
      BY <1>c DEF IndInv, OnePingTimer, Armed, Pending, FreeTimer
    <2> QED
      BY <2>1, <2>2 DEF Watches
  <1>4. Pumps'
    BY <1>s, <1>t DEF Pumps, ReadPumpRuns, WritesSerialised, ClosedIsReleased, Serialised
  <1> QED
    BY <1>1, <1>2, <1>3, <1>4 DEF IndInv, Phases, Watches, Pumps

(* The remaining messages. *)
LEMMA MessageInd ==
    IndInv /\ (ping_request \/ ping_response \/ other_message) => IndInv'
  <1> SUFFICES ASSUME IndInv, ping_request \/ ping_response \/ other_message
               PROVE  IndInv'
    OBVIOUS
  <1> USE DEF keepalive_vars, connect_vars, error_vars
  <1>s. /\ drain # "idle" /\ drain' = "draining" /\ UNCHANGED <<last_error, noise_state>>
        /\ transport.read = "idle" /\ transport.connect = "idle" /\ state # "Disconnected"
    BY DEF ping_request, ping_response, other_message, NextFrame, IndInv, ConnectPhase,
       ReadPumpRuns
  <1>1. CASE ping_request
    <2>t. /\ transport' \in Transports /\ Serialised(transport')
          /\ transport'.queue = Append(transport.queue, "Pong")
          /\ transport'.socket = transport.socket /\ transport'.connect = transport.connect
          /\ transport'.read = transport.read
      BY <1>1, TypeFacts, AsyncWrite, MessagesAssumption DEF ping_request
    <2>q. (Early \/ state = "Connected") => NoDisconnect(transport'.queue)
      BY <2>t, TypeFacts, AppendOther, MessagesAssumption
    <2> QED
      BY <1>1, <1>s, <2>t, <2>q, TransportStep
         DEF ping_request, IndInv, TypeOK, ClosedIsReleased
  <1>2. CASE ping_response
    <2>s. /\ timers' = cancel(timers, {pong_timer}) /\ pong_timer' = invalid_timer
          /\ awaiting_pong' = FALSE
          /\ UNCHANGED <<state, connect_vars, ping_timer, cause, transport>>
      BY <1>2 DEF ping_response
    <2>c. /\ timers' \in TimerTable
          /\ \A id \in TimerIds : timers'[id] \in {timers[id], FreeTimer}
          /\ \A id \in TimerIds : id # pong_timer => timers'[id] = timers[id]
      BY <2>s, TypeFacts DEF cancel, TimerTable, TimerKinds, FreeTimer
    <2>1. TypeOK'
      BY <1>s, <2>s, <2>c DEF IndInv, TypeOK
    <2>p. \A id \in TimerIds : Armed(id, "ping")' => Armed(id, "ping")
      BY <2>c DEF Armed, Pending, FreeTimer
    <2>2. Phases'
      BY <1>s, <2>s, <2>p DEF IndInv, Phases, HandshakeComesFirst, ConnectPhase,
         EarlyIsQuiet, Early
    <2>3. Watches'
      <3>1. HandlesCurrent'
        BY <2>s DEF IndInv, HandlesCurrent
      <3>2. OnePingTimer'
        BY <2>p DEF IndInv, OnePingTimer
      <3>3. KeepaliveWatches'
        BY <2>s, <2>c, TimerIdsAssumption DEF IndInv, KeepaliveWatches, HandlesCurrent,
           Armed, Pending, invalid_timer
      <3>4. DeadlineGuardsAttempt'
        BY <2>s, <2>c, TimerIdsAssumption DEF IndInv, KeepaliveWatches, HandlesCurrent,
           DeadlineGuardsAttempt, Armed, Pending, invalid_timer
      <3> QED
        BY <3>1, <3>2, <3>3, <3>4 DEF Watches
    <2>4. Pumps'
      BY <1>s, <2>s DEF IndInv, Pumps, ReadPumpRuns, WritesSerialised, ClosedIsReleased
    <2> QED
      BY <2>1, <2>2, <2>3, <2>4 DEF IndInv, Phases, Watches, Pumps
  <1>3. CASE other_message
    BY <1>3, <1>s, TypeFacts, TransportStep
       DEF other_message, IndInv, TypeOK, ClosedIsReleased
  <1> QED
    BY <1>1, <1>2, <1>3

(* The environment completes an operation or lets a deadline pass. *)
LEMMA EnvironmentInd == IndInv /\ Environment => IndInv'
  <1> SUFFICES ASSUME IndInv, Environment PROVE IndInv'
    OBVIOUS
  <1> USE DEF keepalive_vars, connect_vars, error_vars
  <1>1. CASE IoCompletes
    <2>s. PICK ok \in BOOLEAN : \/ ResolveCompletes(ok) \/ ConnectCompletes(ok)
                                \/ ReadCompletes(ok) \/ WriteCompletes(ok)
      BY <1>1 DEF IoCompletes
    <2>t. /\ transport' \in Transports /\ Serialised(transport')
          /\ transport'.queue = transport.queue
          /\ transport.connect = "idle" => /\ transport'.connect = "idle"
                                           /\ transport'.socket = transport.socket
          /\ transport.connect # "idle" => transport'.connect # "idle"
          /\ transport.read = "idle" <=> transport'.read = "idle"
      <3>1. CASE ResolveCompletes(ok)
        BY <3>1, TypeFacts DEF ResolveCompletes, Transports, Serialised, ConnectOps
      <3>2. CASE ConnectCompletes(ok)
        BY <3>2, TypeFacts DEF ConnectCompletes, Transports, Serialised, ConnectOps, Sockets
      <3>3. CASE ReadCompletes(ok)
        BY <3>3, TypeFacts DEF ReadCompletes, Transports, Serialised, ReadOps
      <3>4. CASE WriteCompletes(ok)
        BY <3>4, TypeFacts DEF WriteCompletes, Transports, Serialised, WriteOps
      <3> QED
        BY <2>s, <3>1, <3>2, <3>3, <3>4
    <2> QED
      BY <1>1, <2>t, TypeFacts, TransportStep
         DEF IoCompletes, IndInv, TypeOK, ConnectPhase, ReadPumpRuns, ClosedIsReleased
  <1>2. ASSUME NEW id \in TimerIds, TimerExpires(id) PROVE IndInv'
    <2>s. /\ timers' = expire(timers, id) /\ timers[id].status = "armed"
          /\ UNCHANGED <<state, connect_vars, keepalive_vars, error_vars, noise_state,
                         drain, transport>>
      BY <1>2 DEF TimerExpires
    <2>c. /\ timers' \in TimerTable
          /\ \A i \in TimerIds : /\ timers'[i].kind = timers[i].kind
                                 /\ timers'[i].status = "free" <=> timers[i].status = "free"
      BY <2>s, TypeFacts DEF expire, TimerTable, TimerKinds, FreeTimer
    <2>1. TypeOK'
      BY <2>s, <2>c DEF IndInv, TypeOK
    <2>2. Phases'
      BY <2>s, <2>c DEF IndInv, Phases, HandshakeComesFirst, ConnectPhase, EarlyIsQuiet,
         Early, Armed, Pending
    <2>3. Watches'
      BY <2>s, <2>c DEF IndInv, Watches, HandlesCurrent, KeepaliveWatches, OnePingTimer,
         DeadlineGuardsAttempt, Armed, Pending
    <2>4. Pumps'
      BY <2>s DEF IndInv, Pumps, ReadPumpRuns, WritesSerialised, ClosedIsReleased
    <2> QED
      BY <2>1, <2>2, <2>3, <2>4 DEF IndInv, Phases, Watches, Pumps
  <1> QED
    BY <1>1, <1>2 DEF Environment

(* A stuttering step changes nothing the invariant speaks of. *)
LEMMA StutterInd == IndInv /\ UNCHANGED vars => IndInv'
  BY DEF vars, connect_vars, keepalive_vars, error_vars, IndInv, TypeOK,
     HandshakeComesFirst, ConnectPhase, EarlyIsQuiet, Early, HandlesCurrent,
     KeepaliveWatches, OnePingTimer, DeadlineGuardsAttempt, ReadPumpRuns,
     WritesSerialised, ClosedIsReleased, Armed, Pending

-----------------------------------------------------------------------------
(* The invariant of connection.cpp: it holds in every state that any order   *)
(* of user calls, completions, timers and frames can reach.                  *)
THEOREM Invariance == Spec => []IndInv
  <1>1. IndInv /\ [Next]_vars => IndInv'
    <2> SUFFICES ASSUME IndInv, [Next]_vars PROVE IndInv'
      OBVIOUS
    <2>1. CASE User
      BY <2>1, StartInd, SendInd, DisconnectInd DEF User
    <2>2. CASE Environment
      BY <2>2, EnvironmentInd
    <2>3. CASE Handlers
      <3>1. CASE on_bytes
        BY <3>1, ReadInd, RejectedInd, HandshakeInd, HelloResponseInd, PeerDisconnectInd,
           MessageInd DEF on_bytes, handle_frame
      <3>2. CASE \E id \in TimerIds : FireTimer(id)
        BY <3>2, FireTimerInd
      <3> QED
        BY <2>3, <3>1, <3>2, ConnectedInd, WrittenInd DEF Handlers
    <2>4. CASE UNCHANGED vars
      BY <2>4, StutterInd
    <2> QED
      BY <2>1, <2>2, <2>3, <2>4 DEF Next
  <1> QED
    BY <1>1, InitInd, PTL DEF Spec

(* Every variable of the connection, its timers and its transport has its    *)
(* type: in particular no completion pops an empty write queue.              *)
THEOREM TypeCorrect == Spec => []TypeOK
  <1>1. IndInv => TypeOK
    BY DEF IndInv
  <1> QED
    BY <1>1, Invariance, PTL

(* A Connected session always has its next ping and, while it waits for a    *)
(* pong, its dead-link timer scheduled (start_keepalive, send_ping).         *)
THEOREM KeepaliveCorrect == Spec => []KeepaliveWatches
  <1>1. IndInv => KeepaliveWatches
    BY DEF IndInv
  <1> QED
    BY <1>1, Invariance, PTL

(* No session ever has two ping timers (start_keepalive, send_ping).         *)
THEOREM PingTimerCorrect == Spec => []OnePingTimer
  <1>1. IndInv => OnePingTimer
    BY DEF IndInv
  <1> QED
    BY <1>1, Invariance, PTL

(* A caller of start() that was told nothing yet is guarded by the connect   *)
(* deadline, unless the connection was closed (start, fail, finish_connect). *)
THEOREM DeadlineCorrect == Spec => []DeadlineGuardsAttempt
  <1>1. IndInv => DeadlineGuardsAttempt
    BY DEF IndInv
  <1> QED
    BY <1>1, Invariance, PTL

(* The read pump never stops or doubles in an open session (do_read).        *)
THEOREM ReadPumpCorrect == Spec => []ReadPumpRuns
  <1>1. IndInv => ReadPumpRuns
    BY DEF IndInv
  <1> QED
    BY <1>1, Invariance, PTL

(* One write is in flight, and the queue that its completion pops still has  *)
(* its buffer at the front (send, do_write, and the clears of close).        *)
THEOREM WritesCorrect == Spec => []WritesSerialised
  <1>1. IndInv => WritesSerialised
    BY DEF IndInv
  <1> QED
    BY <1>1, Invariance, PTL

(* With Noise, no session without a completed handshake (server_handshake,   *)
(* handle_internal).                                                         *)
THEOREM HandshakeCorrect == Spec => []HandshakeComesFirst
  <1>1. IndInv => HandshakeComesFirst
    BY DEF IndInv
  <1> QED
    BY <1>1, Invariance, PTL

(* What is Closed holds no socket and no connect that could open one         *)
(* (disconnect, handle_internal and the completions that come late).         *)
THEOREM ReleaseCorrect == Spec => []ClosedIsReleased
  <1>1. IndInv => ClosedIsReleased
    BY DEF IndInv
  <1> QED
    BY <1>1, Invariance, PTL
=============================================================================
