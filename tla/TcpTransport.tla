---------------------------- MODULE TcpTransport ----------------------------
(***************************************************************************)
(* TcpTransport (src/transport/tcp_transport.cpp) as operators on a record *)
(* that holds the socket, the asynchronous operations started on it and    *)
(* the write queue.  Operations are the ones asio runs for the transport;  *)
(* each is pending until it completes and then waits in the io_context,    *)
(* with its outcome, for its handler to run.                               *)
(*                                                                         *)
(*   socket   closed, opening (open, TCP connect in progress) or open      *)
(*   connect  async_resolve, then async_connect                            *)
(*   read     the outstanding async_read_some of the read pump             *)
(*   write    the async_write of the head of queue, when writing           *)
(***************************************************************************)
EXTENDS Sequences

CONSTANT Messages   \* what the owner of the transport writes

Sockets == {"closed", "opening", "open"}
ConnectOps == {"idle", "resolving", "resolved", "unresolved",
               "connecting", "connected", "failed"}
ReadOps == {"idle", "pending", "data", "error"}
WriteOps == {"idle", "pending", "ok", "error", "raced"}

Transports ==
    [socket : Sockets, connect : ConnectOps, read : ReadOps,
     queue : Seq(Messages), writing : BOOLEAN, write : WriteOps]

NewTransport ==
    [socket |-> "closed", connect |-> "idle", read |-> "idle",
     queue |-> <<>>, writing |-> FALSE, write |-> "idle"]

is_open(t) == t.socket # "closed"

-----------------------------------------------------------------------------
(* Operations of the transport, called by its owner. *)

async_connect(t) == [t EXCEPT !.connect = "resolving"]

do_read(t) == [t EXCEPT !.read = IF is_open(t) THEN "pending" ELSE "error"]

do_write(t) ==
    IF t.queue = <<>>
    THEN [t EXCEPT !.writing = FALSE, !.write = "idle"]
    ELSE [t EXCEPT !.writing = TRUE,
                   !.write = IF is_open(t) THEN "pending" ELSE "error"]

async_write(t, msg) ==
    LET queued == [t EXCEPT !.queue = Append(@, msg)]
    IN  IF t.writing THEN queued ELSE do_write(queued)

(* Pending operations complete with operation_aborted.  A completion that  *)
(* is queued keeps its outcome, except that the composed async_connect     *)
(* reports an abort when it finds the socket closed.  resolver_.cancel()   *)
(* reaches a lookup in progress and not one whose completion is queued.    *)
(* asio tries a write as soon as it is started, so one closed in the same  *)
(* handler may have succeeded: it is "raced" and has either outcome.       *)
close(t) ==
    [t EXCEPT !.socket = "closed",
              !.connect = CASE @ = "resolving" -> "unresolved"
                            [] @ \in {"connecting", "connected"} -> "failed"
                            [] OTHER -> @,
              !.read = IF @ = "pending" THEN "error" ELSE @,
              !.write = IF @ = "pending" THEN "raced" ELSE @]

-----------------------------------------------------------------------------
(* Handlers of the transport's own completions, up to the owner's callback. *)

(* The lookup succeeded: asio::async_connect opens the socket. *)
begin_connect(t) == [t EXCEPT !.socket = "opening", !.connect = "connecting"]

end_connect(t) == [t EXCEPT !.connect = "idle"]

(* The read handler is entered; do_read follows it only if still open. *)
end_read(t) == [t EXCEPT !.read = "idle"]

continue_read(t) == IF is_open(t) THEN do_read(t) ELSE t

(* The head of the queue is removed before its write handler is called. *)
pop_write(t) == [t EXCEPT !.queue = Tail(@), !.write = "idle"]

(* Bug variant of continue_write: a failed write leaves writing_ set. *)
continue_write_keeps_flag(t, ok) == IF ok THEN do_write(t) ELSE t

(* After the write handler: an error leaves the rest of the queue behind. *)
continue_write(t, ok) ==
    IF ok THEN do_write(t) ELSE [t EXCEPT !.writing = FALSE]
=============================================================================
