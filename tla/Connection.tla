----------------------------- MODULE Connection -----------------------------
(***************************************************************************)
(* Connection (src/connection/connection.cpp): the protocol state machine  *)
(* of one session, over the timers of AsioExecutor and the asynchronous    *)
(* operations of TcpTransport, with the handshake states of the frame      *)
(* helper.  One connection attempt: start() is called once.                *)
(*                                                                         *)
(* Everything runs on one thread.  A handler runs to its end before the    *)
(* next one, so a handler is one action, except on_bytes: it handles any   *)
(* number of frames, and user callbacks run between two frames.  drain     *)
(* says how far it has come:                                               *)
(*   idle      no read handler is running                                  *)
(*   fed       bytes were fed, no message was handed to the connection yet *)
(*   draining  at least one message was handled in drain_frames()          *)
(* Completions are queued by the environment (asio, the network, time) and *)
(* their handlers run later, here in any order.  AsioLoop adds asio's.     *)
(***************************************************************************)
EXTENDS AsioExecutor, TcpTransport

CONSTANTS Encrypted,   \* the frame helper is a NoiseFrameHelper
          Login,       \* options_.login
          Keepalive,   \* options_.keepalive_interval > 0
          MaxQueue     \* bound: no new input or ping with a longer write queue

ASSUME OptionsAssumption ==
    /\ Encrypted \in BOOLEAN /\ Login \in BOOLEAN /\ Keepalive \in BOOLEAN
    /\ MaxQueue \in Nat

ASSUME MessagesAssumption ==
    {"NoiseHello", "Hello", "Auth", "Ping", "Pong", "DisconnectRequest",
     "DisconnectResponse", "App"} \subseteq Messages

VARIABLES
    state,            \* state_
    connect_handler,  \* connect_handler_ is set
    on_done,          \* the error codes on_done was called with, in order
    connect_timer, ping_timer, pong_timer,
    awaiting_pong,
    last_error,       \* type of the exception in last_error_
    cause,            \* what the last effective fail() was called for
    noise_state,      \* state_ of the frame helper
    drain,
    timers,           \* timers_ of the executor
    transport

keepalive_vars == <<ping_timer, pong_timer, awaiting_pong>>
connect_vars == <<connect_handler, on_done, connect_timer>>
error_vars == <<last_error, cause>>
vars == <<state, connect_vars, keepalive_vars, error_vars, noise_state,
          drain, timers, transport>>

ConnectionStates == {"Disconnected", "Connecting", "HelloSent", "Connected",
                     "Closing", "Closed", "Failed"}
NoiseStates == {"ExpectServerHello", "ExpectHandshake", "Ready", "Failed"}

Terminal == state \in {"Failed", "Closed"}

(* Bound: the peer, the user and the ping timer add nothing to a full queue. *)
Room == Len(transport.queue) < MaxQueue

Init ==
    /\ state = "Disconnected"
    /\ connect_handler = FALSE /\ on_done = <<>>
    /\ connect_timer = invalid_timer
    /\ ping_timer = invalid_timer /\ pong_timer = invalid_timer
    /\ awaiting_pong = FALSE
    /\ last_error = "null" /\ cause = "none"
    /\ noise_state = IF Encrypted THEN "ExpectServerHello" ELSE "Ready"
    /\ drain = "idle"
    /\ timers = NoTimers
    /\ transport = NewTransport

-----------------------------------------------------------------------------
(* Parts of handlers.  tm, pong and t are the timer table, the pong handle  *)
(* and the transport as the handler has left them so far.                  *)

NewTimer(tm, held) == CHOOSE id \in FreshIds(tm, held) : TRUE

stop_keepalive(tm, pong, rest) ==
    /\ timers' = cancel(tm, {ping_timer, pong} \cup rest)
    /\ ping_timer' = invalid_timer
    /\ pong_timer' = invalid_timer
    /\ awaiting_pong' = FALSE

finish_connect(ec) ==
    /\ connect_handler' = FALSE
    /\ on_done' = IF connect_handler THEN Append(on_done, ec) ELSE on_done

fail(why, tm, pong, t) ==
    IF Terminal
    THEN /\ timers' = tm /\ pong_timer' = pong /\ transport' = t
         /\ UNCHANGED <<state, connect_vars, ping_timer, awaiting_pong, cause>>
    ELSE /\ stop_keepalive(tm, pong, {connect_timer})
         /\ connect_timer' = invalid_timer
         /\ transport' = close(t)
         /\ state' = "Failed"
         /\ cause' = why
         /\ finish_connect("error")

send_hello(t) ==
    LET hello == async_write(t, "Hello")
    IN  IF Login THEN async_write(hello, "Auth") ELSE hello

-----------------------------------------------------------------------------
(* The user. *)

start ==
    /\ state = "Disconnected"
    /\ FreshIds(timers, {}) # {}
    /\ LET id == NewTimer(timers, {})
       IN  /\ timers' = schedule_after(timers, id, "connect")
           /\ connect_timer' = id
    /\ connect_handler' = TRUE
    /\ last_error' = "null"
    /\ state' = "Connecting"
    /\ transport' = async_connect(transport)
    /\ UNCHANGED <<on_done, keepalive_vars, cause, noise_state, drain>>

send ==
    /\ Room
    /\ transport' = async_write(transport, "App")
    /\ UNCHANGED <<state, connect_vars, keepalive_vars, error_vars, noise_state,
                   drain, timers>>

(* Bug variant of disconnect: the connect deadline is dropped as well. *)
disconnect_drops_deadline ==
    /\ state \in {"Connected", "HelloSent"}
    /\ stop_keepalive(timers, pong_timer, {connect_timer})
    /\ state' = "Closing"
    /\ transport' = async_write(transport, "DisconnectRequest")
    /\ UNCHANGED <<connect_vars, error_vars, noise_state, drain>>

disconnect ==
    /\ state \in {"Connected", "HelloSent"}
    /\ stop_keepalive(timers, pong_timer, {})
    /\ state' = "Closing"
    /\ transport' = async_write(transport, "DisconnectRequest")
    /\ UNCHANGED <<connect_vars, error_vars, noise_state, drain>>

User == start \/ send \/ disconnect

-----------------------------------------------------------------------------
(* Completion of the name lookup and of the TCP connect. *)

resolve_failed ==
    /\ transport.connect = "unresolved"
    /\ fail("transport", timers, pong_timer, end_connect(transport))
    /\ UNCHANGED <<last_error, noise_state, drain>>

resolve_done ==
    /\ transport.connect = "resolved"
    /\ transport' = begin_connect(transport)
    /\ UNCHANGED <<state, connect_vars, keepalive_vars, error_vars, noise_state,
                   drain, timers>>

connect_failed ==
    /\ transport.connect = "failed"
    /\ fail("transport", timers, pong_timer, end_connect(transport))
    /\ UNCHANGED <<last_error, noise_state, drain>>

connected_plaintext ==
    /\ transport.connect = "connected" /\ ~Encrypted
    /\ transport' = send_hello(do_read(end_connect(transport)))
    /\ state' = "HelloSent"
    /\ UNCHANGED <<connect_vars, keepalive_vars, error_vars, noise_state, drain,
                   timers>>

connected_noise ==
    /\ transport.connect = "connected" /\ Encrypted
    /\ transport' = async_write(do_read(end_connect(transport)), "NoiseHello")
    /\ UNCHANGED <<state, connect_vars, keepalive_vars, error_vars, noise_state,
                   drain, timers>>

on_connected_transport ==
    /\ drain = "idle"
    /\ \/ resolve_failed \/ resolve_done
       \/ connect_failed \/ connected_plaintext \/ connected_noise

-----------------------------------------------------------------------------
(* Timers.  FireTimer runs a queued timer completion. *)

(* Bug variant of connect_timeout: only the TCP connect is timed, not the wait *)
(* for HelloResponse.                                                         *)
connect_timeout_tcp_only(tm) ==
    /\ IF state # "Connecting"
       THEN /\ timers' = tm
            /\ UNCHANGED <<state, connect_vars, keepalive_vars, cause, transport>>
       ELSE fail("transport", tm, pong_timer, transport)
    /\ UNCHANGED last_error

connect_timeout(tm) ==
    /\ IF state = "Connected"
       THEN /\ timers' = tm
            /\ UNCHANGED <<state, connect_vars, keepalive_vars, cause, transport>>
       ELSE fail("transport", tm, pong_timer, transport)
    /\ UNCHANGED last_error

(* Bug variant of send_ping: the next ping is not scheduled. *)
send_ping_once(tm) ==
    /\ IF state # "Connected" \/ awaiting_pong
       THEN timers' = tm /\ UNCHANGED <<keepalive_vars, transport>>
       ELSE /\ transport' = async_write(transport, "Ping")
            /\ FreshIds(tm, {connect_timer, ping_timer}) # {}
            /\ LET pong == NewTimer(tm, {connect_timer, ping_timer})
               IN  /\ awaiting_pong' = TRUE /\ pong_timer' = pong
                   /\ timers' = schedule_after(tm, pong, "pong")
            /\ UNCHANGED ping_timer
    /\ UNCHANGED <<state, connect_vars, error_vars>>

(* Bug variant of send_ping: every ping waits, but only a fresh wait is timed *)
(* by a timer that the code forgets to arm.                                   *)
send_ping_untimed(tm) ==
    /\ IF state # "Connected"
       THEN timers' = tm /\ UNCHANGED <<keepalive_vars, transport>>
       ELSE /\ transport' = async_write(transport, "Ping")
            /\ FreshIds(tm, {connect_timer}) # {}
            /\ LET ping == NewTimer(tm, {connect_timer})
               IN  /\ awaiting_pong' = TRUE /\ UNCHANGED pong_timer
                   /\ timers' = schedule_after(tm, ping, "ping")
                   /\ ping_timer' = ping
    /\ UNCHANGED <<state, connect_vars, error_vars>>

send_ping(tm) ==
    /\ IF state # "Connected"
       THEN /\ timers' = tm
            /\ UNCHANGED <<keepalive_vars, transport>>
       ELSE /\ transport' = async_write(transport, "Ping")
            /\ FreshIds(tm, {connect_timer, ping_timer}) # {}
            /\ LET pong == NewTimer(tm, {connect_timer, ping_timer})
                   armed == IF awaiting_pong THEN tm
                            ELSE schedule_after(tm, pong, "pong")
                   handle == IF awaiting_pong THEN pong_timer ELSE pong
                   ping == NewTimer(armed, {connect_timer, handle})
               IN  /\ FreshIds(armed, {connect_timer, handle}) # {}
                   /\ awaiting_pong' = TRUE
                   /\ pong_timer' = handle
                   /\ timers' = schedule_after(armed, ping, "ping")
                   /\ ping_timer' = ping
    /\ UNCHANGED <<state, connect_vars, error_vars>>

pong_timeout(tm) ==
    /\ IF awaiting_pong
       THEN fail("transport", tm, invalid_timer, transport)
       ELSE /\ pong_timer' = invalid_timer
            /\ timers' = tm
            /\ UNCHANGED <<state, connect_vars, ping_timer, awaiting_pong, cause,
                           transport>>
    /\ UNCHANGED last_error

FireTimer(id) ==
    /\ drain = "idle"
    /\ timers[id].status = "expired"
    /\ LET tm == erase(timers, id)
       IN  \/ timers[id].kind = "connect" /\ connect_timeout(tm)
           \/ timers[id].kind = "ping" /\ send_ping(tm)
           \/ timers[id].kind = "pong" /\ pong_timeout(tm)
    /\ UNCHANGED <<noise_state, drain>>

-----------------------------------------------------------------------------
(* Completion of a write: the head of the queue, with its handler. *)

disconnect_written(ok) ==
    /\ Head(transport.queue) = "DisconnectRequest"
    /\ transport' = continue_write(close(pop_write(transport)), ok)
    /\ state' = "Closed"

other_written(ok) ==
    /\ Head(transport.queue) # "DisconnectRequest"
    /\ transport' = continue_write(pop_write(transport), ok)
    /\ UNCHANGED state

on_written ==
    /\ drain = "idle"
    /\ \E ok \in BOOLEAN :
          /\ transport.write \in {"raced", IF ok THEN "ok" ELSE "error"}
          /\ disconnect_written(ok) \/ other_written(ok)
    /\ UNCHANGED <<connect_vars, keepalive_vars, error_vars, noise_state, drain,
                   timers>>

-----------------------------------------------------------------------------
(* on_bytes: a read error, or bytes that drain_frames() takes apart. *)

read_error ==
    /\ drain = "idle" /\ transport.read = "error"
    /\ IF state \in {"Closing", "Closed"}
       THEN /\ transport' = end_read(transport)
            /\ UNCHANGED <<state, connect_vars, keepalive_vars, cause, timers>>
       ELSE fail("transport", timers, pong_timer, end_read(transport))
    /\ UNCHANGED <<last_error, noise_state, drain>>

(* Bug variant of feed: the next read is started before the handler runs. *)
feed_reads_ahead ==
    /\ drain = "idle" /\ transport.read = "data"
    /\ transport' = do_read(transport)
    /\ drain' = "fed"
    /\ UNCHANGED <<state, connect_vars, keepalive_vars, error_vars, noise_state,
                   timers>>

feed ==
    /\ drain = "idle" /\ transport.read = "data"
    /\ transport' = end_read(transport)
    /\ drain' = "fed"
    /\ UNCHANGED <<state, connect_vars, keepalive_vars, error_vars, noise_state,
                   timers>>

(* Bug variant of drain_end: reading goes on only once Connected. *)
drain_end_connected_only ==
    /\ drain # "idle"
    /\ drain' = "idle"
    /\ transport' = IF state = "Connected" THEN continue_read(transport) ELSE transport
    /\ UNCHANGED <<state, connect_vars, keepalive_vars, error_vars, noise_state,
                   timers>>

(* No complete frame is left, or the loop stops after a terminal state: the *)
(* read handler returns and the transport reads on if it is still open.     *)
drain_end ==
    /\ drain # "idle"
    /\ drain' = "idle"
    /\ transport' = continue_read(transport)
    /\ UNCHANGED <<state, connect_vars, keepalive_vars, error_vars, noise_state,
                   timers>>

(* The codec or the decryption rejects the bytes and throws ProtocolError. *)
malformed_frame ==
    /\ drain = "fed" \/ (drain = "draining" /\ ~Terminal)
    /\ last_error' = "ProtocolError"
    /\ fail("protocol", timers, pong_timer, transport)
    /\ drain' = "draining"
    /\ UNCHANGED noise_state

-----------------------------------------------------------------------------
(* Handshake frames of the Noise helper, consumed inside next(). *)

server_hello ==
    /\ drain = "fed" /\ noise_state = "ExpectServerHello"
    /\ noise_state' = "ExpectHandshake"
    /\ UNCHANGED <<state, connect_vars, keepalive_vars, error_vars, drain, timers,
                   transport>>

server_handshake ==
    /\ drain = "fed" /\ noise_state = "ExpectHandshake"
    /\ noise_state' = "Ready"
    /\ transport' = send_hello(transport)
    /\ state' = "HelloSent"
    /\ UNCHANGED <<connect_vars, keepalive_vars, error_vars, drain, timers>>

report_error ==
    /\ drain = "fed" /\ noise_state \in {"ExpectServerHello", "ExpectHandshake"}
    /\ noise_state' = "Failed"
    /\ last_error' = "HandshakeError"
    /\ fail("handshake", timers, pong_timer, transport)
    /\ UNCHANGED drain

-----------------------------------------------------------------------------
(* handle_frame: one message, by its id.  drain_frames() tests the state    *)
(* after a message only, so the first one of a chunk is handled in any.     *)

(* Bug variant of NextFrame: messages are accepted before the handshake. *)
NextFrame_unauthenticated ==
    /\ drain = "fed" \/ (drain = "draining" /\ ~Terminal)
    /\ drain' = "draining"
    /\ UNCHANGED <<last_error, noise_state>>

NextFrame ==
    /\ drain = "fed" \/ (drain = "draining" /\ ~Terminal)
    /\ noise_state = "Ready"
    /\ drain' = "draining"
    /\ UNCHANGED <<last_error, noise_state>>

start_keepalive(tm, ping) ==
    LET id == NewTimer(tm, {})
    IN  /\ timers' = IF Keepalive THEN schedule_after(tm, id, "ping") ELSE tm
        /\ ping_timer' = IF Keepalive THEN id ELSE ping

hello_accepted ==
    /\ state' = "Connected"
    /\ start_keepalive(cancel(timers, {connect_timer}), ping_timer)
    /\ UNCHANGED <<pong_timer, awaiting_pong, transport>>

(* The user's on_state(Connected) callback calls disconnect(), which returns *)
(* into the handler: keepalive starts and on_done reports success after all. *)
hello_accepted_disconnect ==
    /\ state' = "Closing"
    /\ start_keepalive(cancel(timers, {connect_timer, ping_timer, pong_timer}),
                       invalid_timer)
    /\ pong_timer' = invalid_timer /\ awaiting_pong' = FALSE
    /\ transport' = async_write(transport, "DisconnectRequest")

(* Bug variant of hello_response: the test for HelloSent is missing, so that a *)
(* repeated HelloResponse starts keepalive again.                              *)
hello_response_any_state ==
    /\ NextFrame
    /\ state \in {"HelloSent", "Connected"}
    /\ FreshIds(timers, {}) # {}
    /\ hello_accepted \/ hello_accepted_disconnect
    /\ connect_timer' = invalid_timer
    /\ finish_connect("ok")
    /\ UNCHANGED cause

hello_response ==
    /\ NextFrame
    /\ state = "HelloSent"
    /\ FreshIds(timers, {}) # {}
    /\ hello_accepted \/ hello_accepted_disconnect
    /\ connect_timer' = invalid_timer
    /\ finish_connect("ok")
    /\ UNCHANGED cause

(* Unsupported API version, unexpected name, rejected password, or a payload *)
(* that does not parse.                                                      *)
rejected_message ==
    /\ NextFrame
    /\ fail("message", timers, pong_timer, transport)

(* Bug variant of disconnect_request: the transport is not closed. *)
disconnect_request_keeps_socket ==
    /\ NextFrame
    /\ stop_keepalive(timers, pong_timer, {})
    /\ transport' = async_write(transport, "DisconnectResponse")
    /\ state' = "Closed"
    /\ finish_connect("error")
    /\ UNCHANGED <<connect_timer, cause>>

disconnect_request ==
    /\ NextFrame
    /\ stop_keepalive(timers, pong_timer, {})
    /\ transport' = close(async_write(transport, "DisconnectResponse"))
    /\ state' = "Closed"
    /\ finish_connect("error")
    /\ UNCHANGED <<connect_timer, cause>>

disconnect_response ==
    /\ NextFrame
    /\ stop_keepalive(timers, pong_timer, {})
    /\ transport' = close(transport)
    /\ state' = "Closed"
    /\ UNCHANGED <<connect_vars, cause>>

ping_request ==
    /\ NextFrame /\ Room
    /\ transport' = async_write(transport, "Pong")
    /\ UNCHANGED <<state, connect_vars, keepalive_vars, cause, timers>>

ping_response ==
    /\ NextFrame
    /\ awaiting_pong' = FALSE
    /\ timers' = cancel(timers, {pong_timer})
    /\ pong_timer' = invalid_timer
    /\ UNCHANGED <<state, connect_vars, ping_timer, cause, transport>>

(* A message for the user's handlers, or of an unknown id: a HelloResponse  *)
(* out of turn and an accepted password change nothing either.              *)
other_message ==
    /\ NextFrame
    /\ UNCHANGED <<state, connect_vars, keepalive_vars, cause, timers, transport>>

handle_frame ==
    \/ hello_response \/ rejected_message \/ disconnect_request
    \/ disconnect_response \/ ping_request \/ ping_response \/ other_message

on_bytes ==
    \/ read_error \/ feed \/ malformed_frame \/ drain_end
    \/ server_hello \/ server_handshake \/ report_error \/ handle_frame

-----------------------------------------------------------------------------
(* The environment: asio, the network and time complete what is pending.   *)

ResolveCompletes(ok) ==
    /\ transport.connect = "resolving"
    /\ transport' = [transport EXCEPT !.connect = IF ok THEN "resolved"
                                                        ELSE "unresolved"]

ConnectCompletes(ok) ==
    /\ transport.connect = "connecting"
    /\ transport' = [transport EXCEPT !.connect = IF ok THEN "connected" ELSE "failed",
                                      !.socket = IF ok THEN "open" ELSE @]

ReadCompletes(ok) ==
    /\ transport.read = "pending"
    /\ transport' = [transport EXCEPT !.read = IF ok THEN "data" ELSE "error"]

WriteCompletes(ok) ==
    /\ transport.write = "pending" /\ (ok => transport.socket = "open")
    /\ transport' = [transport EXCEPT !.write = IF ok THEN "ok" ELSE "error"]

IoCompletes ==
    /\ drain = "idle"
    /\ \E ok \in BOOLEAN : \/ ResolveCompletes(ok) \/ ConnectCompletes(ok)
                           \/ ReadCompletes(ok) \/ WriteCompletes(ok)
    /\ UNCHANGED <<state, connect_vars, keepalive_vars, error_vars, noise_state,
                   drain, timers>>

TimerExpires(id) ==
    /\ drain = "idle"
    /\ timers[id].status = "armed"
    /\ timers[id].kind = "ping" =>
          Room /\ FreshIds(timers, {connect_timer, ping_timer, pong_timer}) # {}
    /\ timers' = expire(timers, id)
    /\ UNCHANGED <<state, connect_vars, keepalive_vars, error_vars, noise_state,
                   drain, transport>>

Environment == IoCompletes \/ \E id \in TimerIds : TimerExpires(id)

Handlers ==
    \/ on_connected_transport \/ on_written \/ on_bytes
    \/ \E id \in TimerIds : FireTimer(id)

Next == User \/ Environment \/ Handlers

Spec == Init /\ [][Next]_vars

-----------------------------------------------------------------------------
TypeOK ==
    /\ state \in ConnectionStates
    /\ connect_handler \in BOOLEAN
    /\ on_done \in Seq({"ok", "error"})
    /\ connect_timer \in TimerIds \cup {invalid_timer}
    /\ ping_timer \in TimerIds \cup {invalid_timer}
    /\ pong_timer \in TimerIds \cup {invalid_timer}
    /\ awaiting_pong \in BOOLEAN
    /\ last_error \in {"null", "ProtocolError", "HandshakeError"}
    /\ cause \in {"none", "transport", "protocol", "handshake", "message"}
    /\ noise_state \in NoiseStates
    /\ drain \in {"idle", "fed", "draining"}
    /\ timers \in TimerTable
    /\ transport \in Transports

Armed(id, kind) == Pending(timers, id) /\ timers[id].kind = kind

(* A connection that shows Connected is watched: the next ping is scheduled  *)
(* under ping_timer, and while a PingResponse is awaited the timer that      *)
(* declares the link dead is scheduled under pong_timer.  Nothing is awaited *)
(* in another state, so no stale wait can fail a later one.                  *)
KeepaliveWatches ==
    /\ state = "Connected" /\ Keepalive => Armed(ping_timer, "ping")
    /\ awaiting_pong => state = "Connected" /\ Armed(pong_timer, "pong")

(* At most one ping timer runs: a second one would double the ping rate for  *)
(* the rest of the session.                                                  *)
OnePingTimer ==
    \A i, j \in TimerIds : Armed(i, "ping") /\ Armed(j, "ping") => i = j

(* While the caller of start() waits, the connect deadline is scheduled,     *)
(* unless the connection was closed; and neither Connected nor Failed is     *)
(* reached with the caller still waiting.                                    *)
DeadlineGuardsAttempt ==
    connect_handler =>
        /\ state \notin {"Disconnected", "Connected", "Failed"}
        /\ state # "Closed" => Armed(connect_timer, "connect")

(* An open session goes on reading: one async_read_some is outstanding, its  *)
(* completion is queued, or its handler is running, and never two of these,  *)
(* which would share read_buffer_.                                           *)
ReadPumpRuns ==
    /\ state \in {"HelloSent", "Connected"} /\ transport.socket = "open" =>
          transport.read # "idle" \/ drain # "idle"
    /\ drain # "idle" => transport.read = "idle"

(* The writes are serialised: writing_ is set exactly while one async_write  *)
(* is in flight, and that one still has its buffer at the front of the queue *)
(* that its completion pops.                                                 *)
WritesSerialised ==
    /\ transport.writing <=> transport.write # "idle"
    /\ transport.writing => transport.queue # <<>>

(* A closed session holds no socket and has no connect left that could open  *)
(* one: nothing comes back to life after Closed.                             *)
ClosedIsReleased ==
    state = "Closed" => transport.socket = "closed" /\ transport.connect = "idle"

(* An encrypted session exists only after the handshake: a peer that has not *)
(* proved the key brings the connection neither to HelloSent or Connected    *)
(* nor to an orderly end.                                                    *)
HandshakeComesFirst ==
    state \in {"HelloSent", "Connected", "Closing", "Closed"} => noise_state = "Ready"

-----------------------------------------------------------------------------
(* The facts that make the properties above inductive. *)

(* No HelloResponse was accepted yet. *)
Early ==
    \/ transport.connect # "idle" \/ noise_state # "Ready"
    \/ state \in {"Disconnected", "Connecting", "HelloSent"}

(* Until then no keepalive timer runs, and until a disconnect() no           *)
(* DisconnectRequest is queued whose completion would close the connection:  *)
(* also when a failed attempt is revived by a late completion.               *)
EarlyIsQuiet ==
    /\ Early => \A id \in TimerIds : ~Armed(id, "ping")
    /\ Early \/ state = "Connected" =>
          \A i \in 1..Len(transport.queue) : transport.queue[i] # "DisconnectRequest"

(* The connect is in progress in Connecting, or in Failed when given up on,  *)
(* and nothing is read before it is over.                                    *)
ConnectPhase ==
    /\ transport.connect # "idle" => state \in {"Connecting", "Failed"}
    /\ transport.connect # "idle" \/ state = "Disconnected" =>
          transport.read = "idle" /\ drain = "idle"
    /\ ~Encrypted => noise_state = "Ready"

(* A handle that is set belongs to a phase in which its timer may run. *)
HandlesCurrent ==
    /\ ping_timer # invalid_timer => state \in {"Connected", "Closing", "Closed"}
    /\ pong_timer # invalid_timer => awaiting_pong

IndInv ==
    /\ TypeOK /\ HandshakeComesFirst /\ ConnectPhase /\ EarlyIsQuiet
    /\ HandlesCurrent /\ KeepaliveWatches /\ OnePingTimer
    /\ DeadlineGuardsAttempt /\ ReadPumpRuns /\ WritesSerialised /\ ClosedIsReleased
=============================================================================
