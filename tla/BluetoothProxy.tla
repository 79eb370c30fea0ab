--------------------------- MODULE BluetoothProxy ---------------------------
(***************************************************************************)
(* The GATT requests of BluetoothProxy (src/subsystems/bluetooth_proxy.cpp) *)
(* and the tables that correlate responses with the callbacks that wait for *)
(* them.  A call is named by its number; the callbacks it registers run one *)
(* by one, and each of them, like the persistent on_* handlers, may call    *)
(* the proxy again before the handler of the message goes on.               *)
(*                                                                          *)
(* The BLE proxy device is external.  It works on the requests it has       *)
(* received, discoveries of one peer in turn and everything else in any     *)
(* order, and answers each of them: a read or a write with one response or  *)
(* an error, a discovery with the batches of the service table and Done, or *)
(* an error.  A message does not name the request it answers: `request` in   *)
(* the messages of the model is there for the properties only.              *)
(***************************************************************************)
EXTENDS Integers, Sequences, SequencesExt, FiniteSets

CONSTANTS Addresses, Handles,
          AddressSpan,   \* 2^48 in the code: the addresses that << 16 keeps in 64 bits
          Batches,    \* batches a discovery takes, numbered from 1
          MaxCalls,   \* bound: calls in all
          MaxInbox    \* bound: messages not yet handled

ASSUME GattAssumption ==
    /\ Batches \in Nat /\ MaxCalls \in Nat /\ MaxInbox \in Nat \ {0}
    /\ AddressSpan \in Nat \ {0}
    /\ \A a \in Addresses : a \in Nat /\ a < AddressSpan
    /\ \A h \in Handles : h \in Nat /\ h < 65536

VARIABLES
    calls,             \* the calls made so far
    gatt_registered,   \* gatt_registered_: the handlers of the responses are set
    pending_reads, pending_writes, pending_services,
    dispatch,          \* the message being handled, with the tables left to look at
    once,              \* the callbacks left to run for it, as call numbers
    in_user,           \* user code may run: a handler or callback, or nothing
    fired,             \* what the callbacks ran with: a sequence per call
    requests,          \* external: what the device still works on
    inbox              \* messages sent by the device and not yet handled

tables == <<pending_reads, pending_writes, pending_services>>
gatt_vars == <<calls, gatt_registered, tables, dispatch, once, in_user, fired, requests, inbox>>

Ops == {"read", "write", "notify", "services"}
NoMessage == [type |-> "none"]

(* Bug variant of gatt_key: the shift is done in a word one bit too narrow. *)
gatt_key_narrow(address, handle) ==
    (address % (AddressSpan \div 2)) * 65536 + (handle % 65536)

(* (address << 16) | (handle & 0xFFFF) in a 64-bit word: the lower bits that  *)
(* the shift clears take the handle, the upper ones fall out.                 *)
gatt_key(address, handle) == (address % AddressSpan) * 65536 + (handle % 65536)

Keys == {gatt_key(a, h) : a \in Addresses, h \in Handles \cup {0}}

NoServices == [services |-> <<>>, handlers |-> <<>>]

GattInit ==
    /\ calls = <<>> /\ gatt_registered = FALSE
    /\ pending_reads = [k \in Keys |-> <<>>]
    /\ pending_writes = [k \in Keys |-> <<>>]
    /\ pending_services = [a \in Addresses |-> NoServices]
    /\ dispatch = [msg |-> NoMessage, left |-> <<>>]
    /\ once = <<>> /\ in_user = TRUE
    /\ fired = [id \in 1..MaxCalls |-> <<>>]
    /\ requests = {} /\ inbox = <<>>

-----------------------------------------------------------------------------
(* The user: with a done callback, or raw.  Each sends its request. *)

Call(op, address, handle, done) ==
    /\ in_user /\ Len(calls) < MaxCalls
    /\ calls' = Append(calls, [op |-> op, address |-> address, handle |-> handle,
                               done |-> done])
    /\ gatt_registered' = (gatt_registered \/ done)
    /\ requests' = requests \cup {[id |-> Len(calls) + 1, batch |-> 1]}
    /\ UNCHANGED <<dispatch, once, in_user, fired, inbox>>

Waiting(table, key, done) ==
    IF done THEN [table EXCEPT ![key] = Append(@, Len(calls) + 1)] ELSE table

read(address, handle, done) ==
    /\ Call("read", address, handle, done)
    /\ pending_reads' = Waiting(pending_reads, gatt_key(address, handle), done)
    /\ UNCHANGED <<pending_writes, pending_services>>

write(address, handle, done) ==
    /\ Call("write", address, handle, done)
    /\ pending_writes' = Waiting(pending_writes, gatt_key(address, handle), done)
    /\ UNCHANGED <<pending_reads, pending_services>>

(* Raw only: its answer, and the data that follow, go to on_notify_data. *)
notify(address, handle) == Call("notify", address, handle, FALSE) /\ UNCHANGED tables

get_services(address, done) ==
    /\ Call("services", address, 0, done)
    /\ pending_services' = IF done
           THEN [pending_services EXCEPT ![address].handlers = Append(@, Len(calls) + 1)]
           ELSE pending_services
    /\ UNCHANGED <<pending_reads, pending_writes>>

(* on_read, on_notify_data, on_services, on_services_done and on_error. *)
on_handler ==
    /\ in_user /\ ~gatt_registered
    /\ gatt_registered' = TRUE
    /\ UNCHANGED <<calls, tables, dispatch, once, in_user, fired, requests, inbox>>

-----------------------------------------------------------------------------
(* The device. *)

Message(type, id, services) ==
    [type |-> type, address |-> calls[id].address, handle |-> calls[id].handle,
     services |-> services, request |-> id]

Answer(req, msg, req_left) ==
    /\ Len(inbox) < MaxInbox
    /\ inbox' = Append(inbox, msg)
    /\ requests' = (requests \ {req}) \cup req_left
    /\ UNCHANGED <<calls, gatt_registered, tables, dispatch, once, in_user, fired>>

DeviceError(req) == Answer(req, Message("error", req.id, <<>>), {})

DeviceResponds(req) ==
    /\ calls[req.id].op \in {"read", "write", "notify"}
    /\ Answer(req, Message(calls[req.id].op, req.id, <<>>), {})

(* One discovery of a device at a time, in the order they were asked for. *)
Discovering(req) ==
    /\ calls[req.id].op = "services"
    /\ \A other \in requests :
          calls[other.id].op = "services" /\ calls[other.id].address = calls[req.id].address
              => req.id <= other.id

DeviceBatch(req) ==
    /\ Discovering(req) /\ req.batch <= Batches
    /\ Answer(req, Message("services", req.id, <<req.batch>>),
              {[req EXCEPT !.batch = @ + 1]})

DeviceDone(req) ==
    /\ Discovering(req) /\ req.batch > Batches
    /\ Answer(req, Message("done", req.id, <<>>), {})

Device ==
    \E req \in requests :
        \/ DeviceError(req) \/ DeviceResponds(req)
        \/ DeviceBatch(req) \/ DeviceDone(req)

-----------------------------------------------------------------------------
(* The handlers of the responses.  First the persistent handler runs, if the *)
(* message has one, then the tables are looked at in this order.             *)

(* Bug variant of Lookups: an error response forgets the waiting writes. *)
Lookups_no_write_errors(type) ==
    CASE type = "read" -> <<"read">>
      [] type = "write" -> <<"write">>
      [] type = "notify" -> <<>>
      [] type = "services" -> <<"batch">>
      [] type = "done" -> <<"services">>
      [] type = "error" -> <<"read", "services">>

Lookups(type) ==
    CASE type = "read" -> <<"read">>
      [] type = "write" -> <<"write">>
      [] type = "notify" -> <<>>
      [] type = "services" -> <<"batch">>
      [] type = "done" -> <<"services">>
      [] type = "error" -> <<"read", "write", "services">>

(* Nobody listens to the responses of raw calls. *)
ignore ==
    /\ inbox # <<>> /\ ~gatt_registered
    /\ inbox' = Tail(inbox)
    /\ UNCHANGED <<calls, gatt_registered, tables, dispatch, once, in_user, fired, requests>>

receive ==
    /\ dispatch.msg = NoMessage /\ inbox # <<>> /\ gatt_registered
    /\ dispatch' = [msg |-> Head(inbox), left |-> Lookups(Head(inbox).type)]
    /\ inbox' = Tail(inbox)
    /\ in_user' = (Head(inbox).type # "write")
    /\ UNCHANGED <<calls, gatt_registered, tables, once, fired, requests>>

Key == gatt_key(dispatch.msg.address, dispatch.msg.handle)

(* Looking at a table: its entry is moved out and erased before the callbacks *)
(* run, which may add a new one.                                              *)
Looking(table) ==
    /\ dispatch.left # <<>> /\ Head(dispatch.left) = table
    /\ once = <<>>
    /\ dispatch' = [dispatch EXCEPT !.left = Tail(@)]
    /\ in_user' = FALSE
    /\ UNCHANGED <<calls, gatt_registered, fired, requests, inbox>>

look_reads ==
    /\ Looking("read")
    /\ once' = [i \in DOMAIN pending_reads[Key] |->
                   [id |-> pending_reads[Key][i], services |-> <<>>]]
    /\ pending_reads' = [pending_reads EXCEPT ![Key] = <<>>]
    /\ UNCHANGED <<pending_writes, pending_services>>

(* Bug variant of look_writes: the entry is not erased. *)
look_writes_keeps ==
    /\ Looking("write")
    /\ once' = [i \in DOMAIN pending_writes[Key] |->
                   [id |-> pending_writes[Key][i], services |-> <<>>]]
    /\ UNCHANGED tables

look_writes ==
    /\ Looking("write")
    /\ once' = [i \in DOMAIN pending_writes[Key] |->
                   [id |-> pending_writes[Key][i], services |-> <<>>]]
    /\ pending_writes' = [pending_writes EXCEPT ![Key] = <<>>]
    /\ UNCHANGED <<pending_reads, pending_services>>

(* Bug variant of look_services: the batches stay behind. *)
look_services_keeps ==
    /\ Looking("services")
    /\ LET address == dispatch.msg.address
           acc == pending_services[address]
       IN  /\ once' = [i \in DOMAIN acc.handlers |->
                          [id |-> acc.handlers[i], services |-> acc.services]]
           /\ pending_services' = [pending_services EXCEPT ![address].handlers = <<>>]
    /\ UNCHANGED <<pending_reads, pending_writes>>

(* An error hands over no services. *)
look_services ==
    /\ Looking("services")
    /\ LET address == dispatch.msg.address
           acc == pending_services[address]
       IN  /\ once' = [i \in DOMAIN acc.handlers |->
                          [id |-> acc.handlers[i],
                           services |-> IF dispatch.msg.type = "done" THEN acc.services
                                                                      ELSE <<>>]]
           /\ pending_services' = [pending_services EXCEPT ![address] = NoServices]
    /\ UNCHANGED <<pending_reads, pending_writes>>

(* A batch is kept whether or not anyone waits for it. *)
keep_batch ==
    /\ Looking("batch")
    /\ pending_services' = [pending_services EXCEPT
                               ![dispatch.msg.address].services = @ \o dispatch.msg.services]
    /\ UNCHANGED <<once, pending_reads, pending_writes>>

run_callback ==
    /\ once # <<>>
    /\ fired' = [fired EXCEPT ![Head(once).id] =
                     Append(@, [dispatch.msg EXCEPT !.services = Head(once).services])]
    /\ once' = Tail(once)
    /\ in_user' = TRUE
    /\ UNCHANGED <<calls, gatt_registered, tables, dispatch, requests, inbox>>

handled ==
    /\ dispatch.msg # NoMessage /\ dispatch.left = <<>> /\ once = <<>>
    /\ dispatch' = [msg |-> NoMessage, left |-> <<>>]
    /\ in_user' = TRUE
    /\ UNCHANGED <<calls, gatt_registered, tables, once, fired, requests, inbox>>

Dispatch ==
    \/ ignore \/ receive \/ look_reads \/ look_writes \/ look_services \/ keep_batch
    \/ run_callback \/ handled

User ==
    \/ on_handler
    \/ \E a \in Addresses, done \in BOOLEAN :
          \/ \E h \in Handles :
                read(a, h, done) \/ write(a, h, done) \/ (~done /\ notify(a, h))
          \/ get_services(a, done)

GattNext == User \/ Device \/ Dispatch

GattSpec == GattInit /\ [][GattNext]_gatt_vars

-----------------------------------------------------------------------------
CallIds == 1..Len(calls)

Results(id) == ToSet(fired[id])

Count(s, id) == Cardinality({i \in DOMAIN s : s[i] = id})
CountIds(s, id) == Cardinality({i \in DOMAIN s : s[i].id = id})

(* Where the callback of call id is held: in the table of its own operation, *)
(* under its own key, or in the list that is being run.                      *)
Held(id) ==
    LET c == calls[id]
        k == gatt_key(c.address, c.handle)
    IN  CountIds(once, id) +
        CASE c.op = "read" -> Count(pending_reads[k], id)
          [] c.op = "write" -> Count(pending_writes[k], id)
          [] c.op = "notify" -> 0
          [] c.op = "services" -> Count(pending_services[c.address].handlers, id)

(* No callback is lost and none runs twice, whatever calls the callbacks     *)
(* make: every done is held in exactly one place until it has run, once.     *)
EachDoneOnce ==
    \A id \in CallIds :
        Held(id) + Len(fired[id]) = IF calls[id].done THEN 1 ELSE 0

(* The responses carry no request id: a result may be the answer to another  *)
(* request, but to one of the same operation on the same device and           *)
(* characteristic (gatt_key), or else an error, of any operation on that      *)
(* characteristic, or for a service table, on that device.                    *)
ResultIsForTheCall ==
    \A id \in CallIds : \A msg \in Results(id) :
        LET c == calls[id]
            r == calls[msg.request]
        IN  /\ r.address = c.address
            /\ c.op # "services" => r.handle = c.handle
            /\ r.op = c.op \/ msg.type = "error"

(* The result of a call is the device's answer to this call, as the comment   *)
(* in bluetooth_proxy.hpp says. Not an invariant (README, section 5).         *)
AnswersOwnCall ==
    \A id \in CallIds : \A msg \in Results(id) : msg.request = id

(* When every request is answered and every answer handled, every done has   *)
(* run: nothing waits for a message that will not come, also not a done      *)
(* registered by a callback of the last answer for a request of its own.     *)
NoDoneForgotten ==
    requests = {} /\ inbox = <<>> /\ dispatch.msg = NoMessage =>
        \A id \in CallIds : calls[id].done => fired[id] # <<>>

(* A discovery is told the batches of one service table in their order, none *)
(* twice and none of another discovery in between: at worst the first ones   *)
(* are missing, which an error of another operation or a time without        *)
(* handlers threw away (pending_services_).                                  *)
ServicesInOrder ==
    \A id \in CallIds : \A msg \in Results(id) :
        msg.type = "done" =>
            \E first \in 1..(Batches + 1) :
                msg.services = [b \in 1..(Batches + 1 - first) |-> first + b - 1]
=============================================================================
