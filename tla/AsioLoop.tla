------------------------------ MODULE AsioLoop ------------------------------
(***************************************************************************)
(* Connection on one thread that runs an asio io_context: completions are   *)
(* queued in the order in which they become ready, and the handler at the   *)
(* head of the queue is the next to run.  A handler that closes the socket  *)
(* makes its pending operations ready, the read before the write.           *)
(***************************************************************************)
EXTENDS Connection, SequencesExt

VARIABLE ready   \* the queue of completions whose handlers have not run

loop_vars == <<vars, ready>>

(* A completion is an operation of the transport or a timer. *)
Completions ==
    <<<<"connect", 0>>, <<"read", 0>>, <<"write", 0>>>>
        \o SetToSeq({<<"timer", id>> : id \in TimerIds})

IsReady(c, tm, t) ==
    CASE c[1] = "connect" -> t.connect \in {"resolved", "unresolved", "connected", "failed"}
      [] c[1] = "read" -> t.read \in {"data", "error"}
      [] c[1] = "write" -> t.write \in {"ok", "error", "raced"}
      [] c[1] = "timer" -> tm[c[2]].status = "expired"

(* What a step makes ready goes to the end of the queue. *)
Enqueue(queue) ==
    ready' = queue \o SelectSeq(Completions, LAMBDA c : /\ IsReady(c, timers', transport')
                                                        /\ ~Contains(queue, c))

RunHandler(c) ==
    CASE c[1] = "connect" -> on_connected_transport
      [] c[1] = "read" -> read_error \/ feed
      [] c[1] = "write" -> on_written
      [] c[1] = "timer" -> FireTimer(c[2])

(* io_context::run: the head of the queue, or the rest of a read handler. *)
run_one ==
    /\ ready # <<>> /\ drain = "idle"
    /\ RunHandler(Head(ready))
    /\ Enqueue(Tail(ready))

drain_frames ==
    /\ drain # "idle" /\ on_bytes
    /\ Enqueue(ready)

Outside == (User \/ Environment) /\ Enqueue(ready)

LoopInit == Init /\ ready = <<>>

LoopNext == run_one \/ drain_frames \/ Outside

(***************************************************************************)
(* Fairness.  The thread in io_context::run goes on running handlers, a     *)
(* read handler returns because a chunk holds finitely many frames, and a   *)
(* deadline passes.  The network, the peer and the user owe nothing: no     *)
(* fairness on IoCompletes, on frames or on User.                           *)
(***************************************************************************)
Fairness ==
    /\ WF_loop_vars(run_one)
    /\ WF_loop_vars(drain_end /\ Enqueue(ready))
    /\ \A id \in TimerIds : SF_loop_vars(TimerExpires(id) /\ Enqueue(ready))

LoopSpec == LoopInit /\ [][LoopNext]_loop_vars /\ Fairness

-----------------------------------------------------------------------------
(* A wait for a PingResponse ends: the pong arrives, the session ends, or   *)
(* the pong timer fails it.  It never outlives a dead peer (send_ping).     *)
PongWaitEnds == awaiting_pong ~> ~awaiting_pong

(* Whoever called start() learns the outcome, or the connection is closed   *)
(* (the connect timer of start(), fail, finish_connect).                    *)
AttemptSettles == connect_handler ~> (~connect_handler \/ state = "Closed")

-----------------------------------------------------------------------------
(* What a comment says and the code does not do.                            *)

(* connection_state.hpp: transitions are strictly monotonic per attempt, so  *)
(* an attempt that has failed or was closed never becomes a session.  But    *)
(* close() does not reach a lookup whose completion is queued: its handler   *)
(* opens the socket again, and on_connected_transport() does not look at the *)
(* state it leaves.                                                          *)
DeadStaysDead == [](Terminal => [](state # "Connected"))
=============================================================================
