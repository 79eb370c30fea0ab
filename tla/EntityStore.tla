----------------------------- MODULE EntityStore -----------------------------
(***************************************************************************)
(* The entity cache (src/model/entity_store.cpp) and the registry on top of *)
(* it (entity_registry.hpp), as operators on a store: a function from keys  *)
(* to entries.  A message is a record: kind "list", "state" or "other", the *)
(* token of its name, and its fields.  Texts are sequences of characters.  *)
(***************************************************************************)
EXTENDS EntityTypes, Sequences

Unknown == "Unknown"

(* The token of a message's name: ListEntities<token>Response, or               *)
(* <token>StateResponse.                                                        *)
entity_type_from_token(token) == IF token \in EntityDomains THEN token ELSE Unknown

(* A missing info or state message. *)
NoMessage == [kind |-> "none", token |-> Unknown, value |-> 0]

StoredEntity == [type |-> Unknown, object_id |-> <<>>, info |-> NoMessage,
                 state |-> NoMessage]

EmptyStore == <<>>

(* Upper case letters and the blank of the alphabet, and what becomes of them. *)
Lower == [A |-> "a", B |-> "b"]

sanitized(c) == IF c \in DOMAIN Lower THEN Lower[c] ELSE IF c = " " THEN "_" ELSE c

object_id_from_name(name) ==
    SelectSeq([i \in DOMAIN name |-> sanitized(name[i])],
              LAMBDA c : c \in {"a", "b", "_", "-", "1"})

entry(store, key) == IF key \in DOMAIN store THEN store[key] ELSE StoredEntity

set_entry(store, key, e) ==
    [k \in DOMAIN store \cup {key} |-> IF k = key THEN e ELSE store[k]]

(* Bug variant of ingest_list: no fallback for an empty object_id. *)
ingest_list_verbatim(store, msg) ==
    set_entry(store, msg.key, [entry(store, msg.key) EXCEPT
        !.type = entity_type_from_token(msg.token), !.object_id = msg.object_id, !.info = msg])

ingest_list(store, msg) ==
    set_entry(store, msg.key, [entry(store, msg.key) EXCEPT
        !.type = entity_type_from_token(msg.token),
        !.object_id = IF msg.object_id = <<>> THEN object_id_from_name(msg.name)
                                              ELSE msg.object_id,
        !.info = msg])

(* Bug variants of ingest_state: only the first state is kept; the state of an  *)
(* entity that was not listed yet is dropped.                                   *)
ingest_state_first(store, msg) ==
    LET e == entry(store, msg.key)
    IN  set_entry(store, msg.key, [e EXCEPT
            !.type = IF @ = Unknown THEN entity_type_from_token(msg.token) ELSE @,
            !.state = IF @ = NoMessage THEN msg ELSE @])
ingest_state_listed(store, msg) ==
    IF msg.key \notin DOMAIN store THEN store
    ELSE [store EXCEPT ![msg.key].state = msg]

(* The type of the entry stays when it is known, whatever the message's is. *)
ingest_state(store, msg) ==
    set_entry(store, msg.key, [entry(store, msg.key) EXCEPT
        !.type = IF @ = Unknown THEN entity_type_from_token(msg.token) ELSE @,
        !.state = msg])

ingest(store, msg) ==
    CASE msg.kind = "list" -> ingest_list(store, msg)
      [] msg.kind = "state" -> ingest_state(store, msg)
      [] OTHER -> store

clear(store) == EmptyStore

find(store, key) == {k \in {key} : k \in DOMAIN store}

(* The entry that the walk over the unordered map meets first may be any that   *)
(* has the object id: one outcome for each, or that of finding none.            *)
find_by_object_id(store, object_id) ==
    LET keys == {k \in DOMAIN store : store[k].object_id = object_id}
    IN  IF keys = {} THEN {{}} ELSE {{k} : k \in keys}

entities(store) == DOMAIN store

(* x_info(key) and x_state(key): the message that is cast to the type's class, *)
(* or NoMessage for std::nullopt.                                              *)
typed_info(store, type, key) ==
    IF key \in DOMAIN store /\ store[key].type = type THEN store[key].info ELSE NoMessage
typed_state(store, type, key) ==
    IF key \in DOMAIN store /\ store[key].type = type THEN store[key].state ELSE NoMessage

-----------------------------------------------------------------------------
(* The registry: the keys of the handles. *)

collect(store, type) == {k \in entities(store) : store[k].type = type}

(* find of a list: the handles with the object id. *)
EntityList_find(store, type, object_id) ==
    {k \in collect(store, type) : store[k].object_id = object_id}

(* A handle for what was found, if it is of the type. *)
one(store, type, found) == {k \in found : store[k].type = type}

by_key(store, type, key) == one(store, type, find(store, key))

(* The outcomes of a lookup by object id: a key, or none. *)
by_object_id(store, type, object_id) ==
    {one(store, type, found) : found \in find_by_object_id(store, object_id)}
=============================================================================
