---------------------------- MODULE AsioExecutor ----------------------------
(***************************************************************************)
(* One-shot timers of AsioExecutor (src/transport/asio_executor.cpp), as   *)
(* operators on the value of the table timers_.                            *)
(*                                                                         *)
(* A timer is armed until its deadline passes; from then on its completion *)
(* is queued in the io_context and the timer is expired.  cancel() reaches *)
(* an armed timer only: a completion that is already queued still runs its *)
(* callback, with no error code.  The handler of a cancelled timer erases  *)
(* the table entry and nothing else, so cancelling frees the entry here.   *)
(*                                                                         *)
(* next_id_ never repeats an identifier.  The model reuses the ones that   *)
(* neither the table nor the owner of the timers still mentions.           *)
(***************************************************************************)
EXTENDS Integers

CONSTANT TimerIds   \* the identifiers in use at one time

ASSUME TimerIdsAssumption == TimerIds \subseteq Nat \ {0}

invalid_timer == 0

TimerKinds == {"connect", "ping", "pong"}

FreeTimer == [status |-> "free", kind |-> "none"]

TimerTable ==
    [TimerIds -> {FreeTimer} \cup [status : {"armed", "expired"}, kind : TimerKinds]]

NoTimers == [id \in TimerIds |-> FreeTimer]

Pending(tm, id) == id \in TimerIds /\ tm[id].status # "free"

(* Identifiers that a new timer may get, given the handles still held. *)
FreshIds(tm, held) == {id \in TimerIds : tm[id].status = "free" /\ id \notin held}

schedule_after(tm, id, kind) ==
    [tm EXCEPT ![id] = [status |-> "armed", kind |-> kind]]

(* Bug variant of cancel: the entry of a cancelled timer is left behind. *)
cancel_keeps_entry(tm, ids) ==
    [id \in TimerIds |-> IF id \in ids /\ tm[id].status = "armed"
                         THEN [tm[id] EXCEPT !.status = "free"] ELSE tm[id]]

cancel(tm, ids) ==
    [id \in TimerIds |-> IF id \in ids /\ tm[id].status = "armed"
                         THEN FreeTimer ELSE tm[id]]

(* The deadline passes: the completion enters the queue of the io_context. *)
expire(tm, id) == [tm EXCEPT ![id].status = "expired"]

(* The queued completion runs: the table entry is erased before the callback. *)
erase(tm, id) == [tm EXCEPT ![id] = FreeTimer]
=============================================================================
