----------------------------- MODULE SyncClient -----------------------------
(***************************************************************************)
(* The blocking client (src/sync_client.cpp): each call installs a handler, *)
(* sends its request and pumps the loop until the handler has run or the    *)
(* deadline passes.  The handlers refer to locals of the call.              *)
(*                                                                          *)
(* The connection is reduced to what the calls see of it (Connection.tla):  *)
(* its state, the completion of connect, messages in the order they were    *)
(* sent.  The device restarts with another configuration when it is lost.   *)
(***************************************************************************)
EXTENDS Naturals, Sequences, FiniteSets, SequencesExt

CONSTANTS Entities,               \* the entities of the device
          MaxCalls,               \* bound: calls of the program
          MaxDrops                \* bound: lost connections

ASSUME SyncAssumption ==
    Entities # {} /\ IsFiniteSet(Entities) /\ {MaxCalls, MaxDrops} \subseteq Nat

VARIABLES subscribe_on_connect_,
          conn,        \* ConnectionState
          connecting,  \* the number of the call that on_done belongs to, 0 for none
          handlers,    \* message id -> the number of the call that installed it, or 0
          call,        \* the call that is running
          calls,       \* calls made
          outbox, inbox,
          stored,      \* entities of this session that the store has taken in
          cached,      \* the DeviceInfo that the client holds: a session, or 0
          session,     \* which connection this is, and so which configuration
          outcome,     \* of the last call
          dangling     \* a handler has run whose call is over

sync_vars == <<subscribe_on_connect_, conn, connecting, handlers, call, calls, outbox, inbox,
               stored, cached, session, outcome, dangling>>

net_vars == <<subscribe_on_connect_, conn, connecting, outbox, inbox, stored, cached, session,
              dangling>>

Ids == {"ListEntitiesDoneResponse", "DeviceInfoResponse"}

Idle == [op |-> "none", n |-> 0, done |-> FALSE, ok |-> FALSE, info |-> 0]

Started(op) == [op |-> op, n |-> calls + 1, done |-> FALSE, ok |-> FALSE, info |-> 0]

NoOutcome == [op |-> "none", how |-> "none", info |-> 0]

is_connected == conn = "Connected"

SyncInit ==
    /\ subscribe_on_connect_ \in BOOLEAN
    /\ conn = "Disconnected" /\ connecting = 0 /\ handlers = [id \in Ids |-> 0]
    /\ call = Idle /\ calls = 0 /\ outbox = <<>> /\ inbox = <<>>
    /\ stored = {} /\ cached = 0 /\ session = 0
    /\ outcome = NoOutcome /\ dangling = FALSE

-----------------------------------------------------------------------------
(* The calls.  A call ends with an outcome; a TimeoutError leaves its handler *)
(* where it is.                                                               *)

Ends(how, info) ==
    /\ outcome' = [op |-> call.op, how |-> how, info |-> info]
    /\ call' = Idle

Refused(op) ==
    /\ outcome' = [op |-> op, how |-> "threw", info |-> 0]
    /\ UNCHANGED <<call, handlers>> /\ UNCHANGED net_vars

Begins == call = Idle /\ calls < MaxCalls /\ calls' = calls + 1

connect ==
    /\ Begins /\ conn \in {"Disconnected", "Failed", "Closed"}
    /\ call' = Started("connect")
    /\ conn' = "Connecting" /\ connecting' = calls + 1
    /\ session' = session + 1
    /\ stored' = {}
    /\ UNCHANGED <<subscribe_on_connect_, handlers, outbox, inbox, cached, outcome, dangling>>

(* The request of list_entities() or device_info(): handler, then message. *)
Requests(c, id, request) ==
    /\ call' = c
    /\ handlers' = [handlers EXCEPT ![id] = c.n]
    /\ outbox' = outbox \o request
    /\ UNCHANGED <<subscribe_on_connect_, conn, connecting, inbox, stored, cached, session,
                   dangling>>

list_entities ==
    /\ Begins
    /\ IF is_connected
       THEN /\ Requests(Started("list_entities"), "ListEntitiesDoneResponse",
                        <<"ListEntitiesRequest">>)
            /\ UNCHANGED outcome
       ELSE Refused("list_entities")

(* Bug variant of device_info: a cached answer will do. *)
device_info_cached ==
    /\ Begins
    /\ IF cached # 0
       THEN /\ outcome' = [op |-> "device_info", how |-> "returned", info |-> cached]
            /\ UNCHANGED <<call, handlers>> /\ UNCHANGED net_vars
       ELSE IF is_connected
       THEN /\ Requests(Started("device_info"), "DeviceInfoResponse", <<"DeviceInfoRequest">>)
            /\ UNCHANGED outcome
       ELSE Refused("device_info")

device_info ==
    /\ Begins
    /\ IF is_connected
       THEN /\ Requests(Started("device_info"), "DeviceInfoResponse", <<"DeviceInfoRequest">>)
            /\ UNCHANGED outcome
       ELSE Refused("device_info")

(* The name is one of the DeviceInfo that the client holds, or it is not. *)
Looks_up(info) == \E how \in {"returned", "threw"} :
                      outcome' = [op |-> "serial_proxy", how |-> how, info |-> info]

(* serial_proxy(name): what the client holds will do, of whatever session. *)
serial_proxy ==
    /\ Begins
    /\ \/ cached # 0 /\ Looks_up(cached) /\ UNCHANGED <<call, handlers>> /\ UNCHANGED net_vars
       \/ /\ cached = 0 /\ is_connected
          /\ Requests(Started("serial_proxy"), "DeviceInfoResponse", <<"DeviceInfoRequest">>)
          /\ UNCHANGED outcome
       \/ cached = 0 /\ ~is_connected /\ Refused("serial_proxy")

(* Where a connect() goes on once on_done has run. *)
connect_goes_on ==
    /\ call.op = "connect" /\ call.done
    /\ IF ~call.ok \/ (subscribe_on_connect_ /\ ~is_connected)
       THEN Ends("threw", 0) /\ UNCHANGED handlers /\ UNCHANGED net_vars
       ELSE IF subscribe_on_connect_
       THEN /\ Requests([call EXCEPT !.op = "connect_list", !.done = FALSE],
                        "ListEntitiesDoneResponse",
                        <<"SubscribeStatesRequest", "ListEntitiesRequest">>)
            /\ UNCHANGED outcome
       ELSE Ends("returned", 0) /\ UNCHANGED handlers /\ UNCHANGED net_vars
    /\ UNCHANGED calls

disconnect ==
    /\ Begins
    /\ IF is_connected THEN call' = Started("disconnect") /\ conn' = "Closing"
                       ELSE UNCHANGED <<call, conn>>
    /\ UNCHANGED <<subscribe_on_connect_, connecting, handlers, outbox, inbox, stored, cached,
                   session, outcome, dangling>>

Awaited == [list_entities |-> "ListEntitiesDoneResponse",
            connect_list |-> "ListEntitiesDoneResponse",
            device_info |-> "DeviceInfoResponse", serial_proxy |-> "DeviceInfoResponse"]

(* The predicate of pump_until() holds after a slice. *)
request_returns ==
    /\ call.op \in DOMAIN Awaited /\ call.done
    /\ handlers' = [handlers EXCEPT ![Awaited[call.op]] = 0]
    /\ IF call.op = "serial_proxy" THEN Looks_up(cached) /\ call' = Idle
                                   ELSE Ends("returned", call.info)
    /\ UNCHANGED calls /\ UNCHANGED net_vars

disconnect_returns ==
    /\ call.op = "disconnect" /\ conn \in {"Closed", "Failed", "Disconnected"}
    /\ Ends("returned", 0)
    /\ UNCHANGED <<calls, handlers>> /\ UNCHANGED net_vars

Pumping == DOMAIN Awaited \cup {"connect", "disconnect"}

(* Bug variant of pump_times_out: only a connected client looks at the clock. *)
pump_times_out_connected ==
    /\ call.op \in Pumping /\ ~call.done /\ is_connected
    /\ Ends(IF call.op = "disconnect" THEN "returned" ELSE "threw", 0)
    /\ UNCHANGED <<calls, handlers>> /\ UNCHANGED net_vars

(* The deadline of pump_until(), whatever the state of the connection is.  The  *)
(* one of connect() is later than the connection's own, which ends an attempt   *)
(* that is still under way.                                                     *)
pump_times_out ==
    /\ call.op \in Pumping /\ ~call.done
    /\ call.op = "connect" => conn # "Connecting"
    /\ Ends(IF call.op = "disconnect" THEN "returned" ELSE "threw", 0)
    /\ UNCHANGED <<calls, handlers>> /\ UNCHANGED net_vars

-----------------------------------------------------------------------------
(* What run_for() does, in a call or between calls. *)

OnDone(ok) ==
    /\ connecting' = 0
    /\ call' = IF connecting = call.n THEN [call EXCEPT !.done = TRUE, !.ok = ok] ELSE call
    /\ dangling' = (dangling \/ connecting # call.n)
    /\ UNCHANGED <<subscribe_on_connect_, handlers, calls, outbox, inbox, stored, cached,
                   session, outcome>>

connection_established == conn = "Connecting" /\ conn' = "Connected" /\ OnDone(TRUE)
connection_fails ==
    conn = "Connecting" /\ conn' \in {"Failed", "Closed"} /\ OnDone(FALSE)

(* A DisconnectResponse in the Hello exchange: nobody calls on_done. *)
connection_closed_early ==
    /\ conn = "Connecting" /\ conn' = "Closed"
    /\ UNCHANGED <<subscribe_on_connect_, connecting, handlers, call, calls, outbox, inbox, stored,
                   cached, session, outcome, dangling>>

(* Bug variant of remember: the first DeviceInfo is kept. *)
remember_first(m) == IF m.id = "DeviceInfoResponse" /\ cached = 0 THEN m.session ELSE cached

(* The newest DeviceInfo, from whatever session. *)
remember(m) == IF m.id = "DeviceInfoResponse" THEN m.session ELSE cached

(* Bug variant of resolves: any message of a list ends the wait. *)
resolves_early(id, m) == m.id = id \/ (id = "ListEntitiesDoneResponse" /\ m.id = "Entity")

resolves(id, m) == m.id = id

(* The handler of the message's id first, then the store and the client. *)
handle_frame ==
    /\ inbox # <<>> /\ conn \in {"Connected", "Closing"}
    /\ LET m == Head(inbox)
           run == {id \in Ids : resolves(id, m) /\ handlers[id] # 0}
           mine == {id \in run : handlers[id] = call.n}
       IN  /\ call' = IF mine # {} THEN [call EXCEPT !.done = TRUE, !.info = m.session]
                                   ELSE call
           /\ dangling' = (dangling \/ run # mine)
           /\ stored' = IF m.id = "Entity" THEN stored \cup {m.entity} ELSE stored
           /\ cached' = remember(m)
    /\ inbox' = Tail(inbox)
    /\ UNCHANGED <<subscribe_on_connect_, conn, connecting, handlers, calls, outbox, session,
                   outcome>>

connection_closes ==
    /\ conn = "Closing"
    /\ conn' = "Closed" /\ outbox' = <<>> /\ inbox' = <<>>
    /\ UNCHANGED <<subscribe_on_connect_, connecting, handlers, call, calls, stored, cached,
                   session, outcome, dangling>>

(* The peer, external: it answers when it likes, or is lost. *)
Message(id, e) == [id |-> id, entity |-> e, session |-> session]

NoEntity == CHOOSE e \in Entities : TRUE

Answer(request) ==
    CASE request = "ListEntitiesRequest" ->
             [i \in 1..Cardinality(Entities) |-> Message("Entity", SetToSeq(Entities)[i])]
                 \o <<Message("ListEntitiesDoneResponse", NoEntity)>>
      [] request = "DeviceInfoRequest" -> <<Message("DeviceInfoResponse", NoEntity)>>
      [] OTHER -> <<>>

DeviceAnswers ==
    /\ outbox # <<>> /\ is_connected
    /\ inbox' = inbox \o Answer(Head(outbox))
    /\ outbox' = Tail(outbox)
    /\ UNCHANGED <<subscribe_on_connect_, conn, connecting, handlers, call, calls, stored,
                   cached, session, outcome, dangling>>

Drop ==
    /\ is_connected /\ session <= MaxDrops
    /\ conn' \in {"Failed", "Closed"} /\ outbox' = <<>> /\ inbox' = <<>>
    /\ UNCHANGED <<subscribe_on_connect_, connecting, handlers, call, calls, stored, cached,
                   session, outcome, dangling>>

SyncNext ==
    \/ connect \/ list_entities \/ device_info \/ serial_proxy \/ disconnect
    \/ connect_goes_on \/ request_returns \/ disconnect_returns \/ pump_times_out
    \/ connection_established \/ connection_fails \/ connection_closed_early
    \/ handle_frame \/ connection_closes
    \/ DeviceAnswers \/ Drop

(* Each call pumps until it ends; the connection's own deadline ends an attempt. *)
SyncFairness ==
    /\ WF_sync_vars(connect_goes_on \/ request_returns \/ disconnect_returns
                    \/ pump_times_out)
    /\ WF_sync_vars(connection_established \/ connection_fails \/ connection_closed_early)

SyncSpec == SyncInit /\ [][SyncNext]_sync_vars /\ SyncFairness

-----------------------------------------------------------------------------
(* When connect() or list_entities() returns, every entity is in the store,    *)
(* although the answer may be that of an earlier call that timed out           *)
(* (SyncClient::list_entities: "block until ListEntitiesDoneResponse").        *)
ListIsComplete ==
    [][outcome' # outcome /\ outcome'.how = "returned"
          /\ outcome'.op \in {"list_entities", "connect_list"} => stored' = Entities]_sync_vars

(* device_info() returns what the device of this session sent, not what an     *)
(* earlier connection left behind.                                             *)
InfoIsOfThisSession ==
    [][outcome' # outcome /\ outcome'.op = "device_info" /\ outcome'.how = "returned"
          => outcome'.info = session]_sync_vars

(* serial_proxy(name) knows what device_info() has just returned: it may go by *)
(* what an earlier session left behind, but by nothing older than that         *)
(* (SyncClient::serial_proxy, Client::device_info_loaded).                     *)
NameFollowsInfo ==
    [][outcome' # outcome /\ outcome'.op = "serial_proxy" /\ outcome'.info # 0
          /\ outcome.op = "device_info" /\ outcome.how = "returned"
          => outcome'.info = outcome.info]_sync_vars

(* Every call ends, also when the connection is lost while it waits, when the  *)
(* device never answers, and when the attempt ends without a word to the call  *)
(* (pump_until: the wait does not look at the state, its deadline ends it).    *)
CallsEnd == call # Idle ~> call = Idle

(* A handler only runs while the call whose locals it refers to is running.    *)
NoHandlerOutlivesItsCall == ~dangling
=============================================================================
