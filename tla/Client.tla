------------------------------- MODULE Client -------------------------------
(***************************************************************************)
(* A Client (src/client.cpp) that lists a device's entities, subscribes to  *)
(* their states, reads them through the registry and toggles them, against  *)
(* a device that changes on its own, drops the connection and may come back *)
(* with another configuration.  Every message that arrives goes into the    *)
(* entity store, which survives the connection.                             *)
(*                                                                          *)
(* The connection itself is in Connection.tla; here it delivers in order or *)
(* is lost with everything on its way.                                      *)
(***************************************************************************)
EXTENDS EntityStore, FiniteSets, SequencesExt

CONSTANTS Configs,      \* configurations of the device: sets of entities
          SendsIds,     \* does the device send object_id (API before 1.14)?
          MaxCalls,     \* bound: requests, toggles and clears of the program
          MaxChanges,   \* bound: changes the device makes by itself
          MaxDrops      \* bound: lost connections

AllEntities == UNION Configs

ASSUME ClientAssumption ==
    /\ Configs # {} /\ SendsIds \in BOOLEAN
    /\ {MaxCalls, MaxChanges, MaxDrops} \subseteq Nat
    /\ \A c \in Configs : IsFiniteSet(c)

(* An entity has a domain and a key, no other of its domain has the key, and    *)
(* its name has a character that an object id keeps.  Entities of different     *)
(* domains may share a key, and any may share an object id: a device makes the  *)
(* key from the name, and a lamp and its sensor are often called the same.      *)
ASSUME EntityAssumption ==
    /\ \A e \in AllEntities : /\ e = [type |-> e.type, key |-> e.key, name |-> e.name]
                              /\ e.type \in EntityDomains
                              /\ object_id_from_name(e.name) # <<>>
    /\ \A e, f \in AllEntities : e.type = f.type /\ e.key = f.key => e = f

VARIABLES connected, store, inbox, outbox,
          listed,       \* has this session's list of entities arrived?
          config, value, subscribed,    \* the device
          calls, changes, drops

client_vars == <<connected, store, inbox, outbox, listed, config, value, subscribed,
                 calls, changes, drops>>

device_vars == <<config, value, subscribed, changes>>

(* An entity's name, which gives its object id, its key and its domain. *)
Entity(type, key, name) == [type |-> type, key |-> key, name |-> name]

OidOf(e) == object_id_from_name(e.name)

ListMessage(e) ==
    [kind |-> "list", token |-> e.type, key |-> e.key, name |-> e.name, value |-> 0,
     object_id |-> IF SendsIds THEN OidOf(e) ELSE <<>>]

StateMessage(e, v) == [kind |-> "state", token |-> e.type, key |-> e.key, value |-> v]

(* ListEntitiesDoneResponse: no entity message. *)
ListDone == [kind |-> "other", token |-> Unknown, key |-> 0, value |-> 0]

ClientInit ==
    /\ connected = FALSE /\ store = EmptyStore /\ inbox = <<>> /\ outbox = <<>>
    /\ listed = FALSE
    /\ config \in Configs
    /\ value = [e \in AllEntities |-> 0]
    /\ subscribed = FALSE
    /\ calls = 0 /\ changes = 0 /\ drops = 0

-----------------------------------------------------------------------------
(* The program. *)

async_connect ==
    /\ ~connected
    /\ connected' = TRUE
    /\ UNCHANGED <<store, inbox, outbox, listed, calls, drops>> /\ UNCHANGED device_vars

Sends(msg) ==
    /\ connected /\ calls < MaxCalls
    /\ calls' = calls + 1
    /\ outbox' = Append(outbox, msg)
    /\ UNCHANGED <<connected, store, inbox, listed, drops>> /\ UNCHANGED device_vars

request_entity_list == Sends([kind |-> "ListEntitiesRequest"])

subscribe_to_states == Sends([kind |-> "SubscribeStatesRequest"])

(* entities().x(object_id)->toggle(), x a domain that can be toggled. *)
toggle(e) ==
    \E key \in UNION by_object_id(store, e.type, OidOf(e)) :
        LET on == typed_state(store, e.type, key).value
        IN  Sends([kind |-> "Command", type |-> e.type, key |-> key, value |-> 1 - on])

clear_store ==
    /\ calls < MaxCalls
    /\ calls' = calls + 1
    /\ store' = clear(store) /\ listed' = FALSE
    /\ UNCHANGED <<connected, inbox, outbox, drops>> /\ UNCHANGED device_vars

(* The handler that Impl gives to on_any: the message goes into the store.  The *)
(* state callback is the last thing that ingest does and the program's handlers *)
(* come behind it; what they call are the program's actions above.              *)
feed ==
    /\ inbox # <<>>
    /\ store' = ingest(store, Head(inbox))
    /\ listed' = (listed \/ Head(inbox) = ListDone)
    /\ inbox' = Tail(inbox)
    /\ UNCHANGED <<connected, outbox, calls, drops>> /\ UNCHANGED device_vars

-----------------------------------------------------------------------------
(* The device and the network, external. *)

States(v) == SetToSeq({StateMessage(e, v[e]) : e \in config})

DeviceAnswers ==
    /\ outbox # <<>>
    /\ outbox' = Tail(outbox)
    /\ LET m == Head(outbox)
           addressed == {e \in config : m.kind = "Command" /\ e.type = m.type
                                        /\ e.key = m.key}
           changed == [e \in AllEntities |-> IF e \in addressed THEN m.value ELSE value[e]]
       IN  CASE m.kind = "ListEntitiesRequest" ->
                   /\ inbox' = inbox \o SetToSeq({ListMessage(e) : e \in config})
                                     \o <<ListDone>>
                   /\ UNCHANGED <<value, subscribed>>
             [] m.kind = "SubscribeStatesRequest" ->
                   /\ inbox' = inbox \o States(value)
                   /\ subscribed' = TRUE
                   /\ UNCHANGED value
             [] m.kind = "Command" ->
                   /\ value' = changed
                   /\ inbox' = IF subscribed
                               THEN inbox \o SetToSeq({StateMessage(e, changed[e]) :
                                                          e \in addressed})
                               ELSE inbox
                   /\ UNCHANGED subscribed
    /\ UNCHANGED <<connected, store, listed, config, calls, changes, drops>>

DeviceChanges(e) ==
    /\ e \in config /\ changes < MaxChanges
    /\ changes' = changes + 1
    /\ value' = [value EXCEPT ![e] = 1 - @]
    /\ inbox' = IF subscribed THEN Append(inbox, StateMessage(e, 1 - value[e])) ELSE inbox
    /\ UNCHANGED <<connected, store, outbox, listed, config, subscribed, calls, drops>>

(* The connection is lost, and the device restarts with some configuration. *)
Drop ==
    /\ connected /\ drops < MaxDrops
    /\ drops' = drops + 1
    /\ connected' = FALSE /\ inbox' = <<>> /\ outbox' = <<>> /\ subscribed' = FALSE
    /\ listed' = FALSE
    /\ config' \in Configs
    /\ value' \in {value, [e \in AllEntities |-> 0]}
    /\ UNCHANGED <<store, calls, changes>>

ClientNext ==
    \/ async_connect \/ request_entity_list \/ subscribe_to_states \/ clear_store \/ feed
    \/ DeviceAnswers \/ Drop
    \/ \E e \in AllEntities : toggle(e) \/ DeviceChanges(e)

ClientSpec == ClientInit /\ [][ClientNext]_client_vars

(* The loop runs the handlers of what arrives, and a device answers. *)
ClientFairSpec ==
    ClientSpec /\ WF_client_vars(feed) /\ WF_client_vars(DeviceAnswers)

-----------------------------------------------------------------------------
(* The key of e is its own: no entity of another domain has it. *)
OwnKey(e) == \A f \in AllEntities : f.key = e.key => f = e

(* While subscribed, what the store holds of an entity whose key is its own is *)
(* the device's state, or a newer state is on its way, across reconnects,      *)
(* commands and states that come before their description                      *)
(* (EntityStore::ingest).                                                      *)
CacheIsCurrent ==
    \A e \in config :
        /\ connected /\ subscribed /\ OwnKey(e)
        /\ typed_state(store, e.type, e.key) # NoMessage
        /\ \A i \in DOMAIN inbox : ~(inbox[i].kind = "state" /\ inbox[i].key = e.key)
        => typed_state(store, e.type, e.key).value = value[e]

(* A name leads to its entity, whether or not the device sends an object id: a *)
(* lookup in the registry gives an entity of that domain and name or none, the *)
(* list of the domain has every entity that the store holds the description    *)
(* of, and the lookup gives it when no other entry has its object id           *)
(* (EntityStore::ingest_list, find_by_object_id, EntityRegistry::one).         *)
NamedEntityFound ==
    \A e \in AllEntities :
        LET id == OidOf(e)
            described == typed_info(store, e.type, e.key) # NoMessage
        IN  /\ \A key \in UNION by_object_id(store, e.type, id) :
                  \E f \in AllEntities : f.key = key /\ f.type = e.type /\ OidOf(f) = id
            /\ described => e.key \in EntityList_find(store, e.type, id)
            /\ described /\ (\A k \in DOMAIN store : store[k].object_id = id => k = e.key)
                  => by_object_id(store, e.type, id) = {{e.key}}

(* A subscription brings the state of every entity whose key is its own,       *)
(* listed or not, unless the connection is lost (Client::subscribe_to_states,  *)
(* EntityStore::ingest).                                                       *)
SubscriptionFillsStore ==
    \A e \in AllEntities :
        /\ \E i \in DOMAIN outbox : outbox[i].kind = "SubscribeStatesRequest"
        /\ e \in config /\ OwnKey(e)
        ~> ~connected \/ typed_state(store, e.type, e.key) # NoMessage

-----------------------------------------------------------------------------
(* What the documentation says and the code does not do (README, section 5):   *)
(* none of these is an invariant.                                              *)

(* An entry is an entity, with its domain, its identity and its latest info    *)
(* and state (entity_store.hpp:47), so that a typed accessor only casts        *)
(* messages of its own domain.                                                 *)
TypedAccess ==
    \A type \in {e.type : e \in AllEntities} : \A key \in DOMAIN store :
        \A m \in {typed_info(store, type, key), typed_state(store, type, key)} :
            m # NoMessage => m.token = type

(* A lookup by object id is empty if the device, whose entities have been      *)
(* listed, has no such entity of the domain (README.md:84).                    *)
AbsentIsNotFound ==
    connected /\ listed =>
        \A e \in AllEntities :
            (\A f \in config : f.type = e.type => OidOf(f) # OidOf(e))
                => by_object_id(store, e.type, OidOf(e)) = {{}}

(* A lookup by object id is empty only if the device, whose entities have been *)
(* listed, has no such entity of the domain (README.md:84).                    *)
ListedIsFound ==
    connected /\ listed => \A e \in config : {} \notin by_object_id(store, e.type, OidOf(e))
=============================================================================
