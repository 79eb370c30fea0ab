----------------------------- MODULE Subsystems -----------------------------
(***************************************************************************)
(* The subsystem managers of a client (src/subsystems/) and a device at the *)
(* other end.  A manager keeps one handler per kind of message and tells    *)
(* the connection, whose table has one entry per message id, to run it; it  *)
(* turns its other methods into messages.  The serial proxy also answers    *)
(* one-shot callbacks of get_modem_pins() and has handlers per instance.    *)
(* The GATT part of the Bluetooth proxy is in BluetoothProxy.tla.           *)
(*                                                                          *)
(* A handler is the number of the call that gave it.  The arguments of a    *)
(* call are one value v that every field of its message takes up.           *)
(***************************************************************************)
EXTENDS Naturals, Sequences, FiniteSets, SequencesExt

CONSTANTS Programs,      \* sets of methods that a program uses
          Instances,     \* instances of the serial proxy
          MaxCalls,      \* bound: calls of the program
          MaxMessages,   \* bound: messages the device sends by itself
          MaxDrops       \* bound: lost connections

VARIABLES program,              \* the methods in use
          table,                \* message id -> the method whose handler runs, or none
          slot,                 \* method -> handler, or 0
          instance_data_handlers_, pending_modem_pins_,
          registered,           \* data_registered_ and modem_pins_registered_
          services_, next_call_id_,
          running,              \* the pins answer being dispatched, and who is left to run
          calls, outbox, inbox,
          wanted,               \* message id or instance -> the handler the program gave
          ran,                  \* handlers of the last message dispatched, and those due
          asked,                \* get_modem_pins calls with a callback
          lines_set,            \* instance -> the lines that the program set last
          answers,              \* what the callbacks were given
          said, heard,          \* requests of the program, and as the device takes them
          pins, messages, drops

proxy_vars == <<table, slot, instance_data_handlers_, pending_modem_pins_, registered,
                services_, next_call_id_>>
history == <<wanted, asked, lines_set, said>>
sub_vars == <<program, proxy_vars, running, calls, outbox, inbox, ran, answers, history,
              heard, pins, messages, drops>>

-----------------------------------------------------------------------------
(* The methods that take a handler: the id they register it for, the members   *)
(* that they fill in before they run it, the request that they send.           *)

Registration(id, fills, sends) == [id |-> id, fills |-> fills, sends |-> sends]

LogStream_subscribe ==
    Registration("SubscribeLogsResponse", {"level", "message"}, <<"SubscribeLogsRequest">>)
VoiceAssistant_subscribe ==
    Registration("VoiceAssistantRequest",
                 {"start", "conversation_id", "flags", "noise_suppression_level", "auto_gain",
                  "volume_multiplier", "wake_word_phrase"},
                 <<"SubscribeVoiceAssistantRequest">>)
VoiceAssistant_on_event ==
    Registration("VoiceAssistantEventResponse", {"event_type", "data"}, <<>>)

(* Bug variant of on_audio: the id of another message. *)
on_audio_wrong_id == Registration("VoiceAssistantEventResponse", {"data", "end"}, <<>>)

VoiceAssistant_on_audio == Registration("VoiceAssistantAudio", {"data", "end"}, <<>>)
VoiceAssistant_on_announce_finished ==
    Registration("VoiceAssistantAnnounceFinished", {"success"}, <<>>)
VoiceAssistant_request_configuration ==
    Registration("VoiceAssistantConfigurationResponse",
                 {"available_wake_words", "active_wake_words", "max_active_wake_words"},
                 <<"VoiceAssistantConfigurationRequest">>)
VoiceAssistant_on_timer_event ==
    Registration("VoiceAssistantTimerEventResponse",
                 {"event_type", "timer_id", "name", "total_seconds", "seconds_left",
                  "is_active"}, <<>>)
ZWaveProxy_on_frame == Registration("ZWaveProxyFrame", {"data"}, <<>>)
HomeAssistantServices_on_service ==
    Registration("ListEntitiesServicesResponse",
                 {"name", "key", "supports_response", "args"}, <<>>)
BluetoothProxy_subscribe_advertisements ==
    Registration("BluetoothLEAdvertisementResponse",
                 {"address", "name", "rssi", "address_type", "service_uuids",
                  "service_data", "manufacturer_data"},
                 <<"SubscribeBluetoothLEAdvertisementsRequest">>)
BluetoothProxy_on_raw_advertisements ==
    Registration("BluetoothLERawAdvertisementsResponse",
                 {"address", "rssi", "address_type", "data"}, <<>>)
BluetoothProxy_on_scanner_state ==
    Registration("BluetoothScannerStateResponse", {"state", "mode", "configured_mode"}, <<>>)
BluetoothProxy_on_connection ==
    Registration("BluetoothDeviceConnectionResponse",
                 {"address", "connected", "mtu", "error"}, <<>>)
BluetoothProxy_on_connections_free ==
    Registration("BluetoothConnectionsFreeResponse", {"free", "limit", "allocated"}, <<>>)
SerialProxy_on_request_response ==
    Registration("SerialProxyRequestResponse",
                 {"instance", "type", "status", "error_message"}, <<>>)

Registrations ==
    [LogStream_subscribe |-> LogStream_subscribe,
     VoiceAssistant_subscribe |-> VoiceAssistant_subscribe,
     VoiceAssistant_on_event |-> VoiceAssistant_on_event,
     VoiceAssistant_on_audio |-> VoiceAssistant_on_audio,
     VoiceAssistant_on_announce_finished |-> VoiceAssistant_on_announce_finished,
     VoiceAssistant_request_configuration |-> VoiceAssistant_request_configuration,
     VoiceAssistant_on_timer_event |-> VoiceAssistant_on_timer_event,
     ZWaveProxy_on_frame |-> ZWaveProxy_on_frame,
     HomeAssistantServices_on_service |-> HomeAssistantServices_on_service,
     BluetoothProxy_subscribe_advertisements |-> BluetoothProxy_subscribe_advertisements,
     BluetoothProxy_on_raw_advertisements |-> BluetoothProxy_on_raw_advertisements,
     BluetoothProxy_on_scanner_state |-> BluetoothProxy_on_scanner_state,
     BluetoothProxy_on_connection |-> BluetoothProxy_on_connection,
     BluetoothProxy_on_connections_free |-> BluetoothProxy_on_connections_free,
     SerialProxy_on_request_response |-> SerialProxy_on_request_response]

(* What the headers promise: which message runs the handler, and the members   *)
(* of the structure that it gets.                                              *)
Promise(id, members) == [id |-> id, members |-> members]

LogEntry == Promise("SubscribeLogsResponse", {"level", "message"})
VoiceRequest ==
    Promise("VoiceAssistantRequest",
            {"start", "conversation_id", "flags", "wake_word_phrase"} \cup
            {"noise_suppression_level", "auto_gain", "volume_multiplier"})
VoiceEvent == Promise("VoiceAssistantEventResponse", {"event_type", "data"})
VoiceAudio == Promise("VoiceAssistantAudio", {"data", "end"})
AnnounceFinished == Promise("VoiceAssistantAnnounceFinished", {"success"})
VoiceTimerEvent ==
    Promise("VoiceAssistantTimerEventResponse",
            {"event_type", "timer_id", "name", "total_seconds", "seconds_left", "is_active"})
VoiceConfiguration ==
    Promise("VoiceAssistantConfigurationResponse",
            {"available_wake_words", "active_wake_words", "max_active_wake_words"})
ZWaveFrame == Promise("ZWaveProxyFrame", {"data"})
UserService ==
    Promise("ListEntitiesServicesResponse", {"name", "key", "args", "supports_response"})
BleAdvertisement ==
    Promise("BluetoothLEAdvertisementResponse",
            {"address", "name", "rssi", "address_type", "service_data", "service_uuids",
             "manufacturer_data"})
BleRawAdvertisement ==
    Promise("BluetoothLERawAdvertisementsResponse", {"address", "rssi", "address_type", "data"})
BleScannerState ==
    Promise("BluetoothScannerStateResponse", {"state", "mode", "configured_mode"})
BleConnection ==
    Promise("BluetoothDeviceConnectionResponse", {"address", "connected", "mtu", "error"})
BleConnectionsFree ==
    Promise("BluetoothConnectionsFreeResponse", {"free", "limit", "allocated"})
SerialProxyResponse ==
    Promise("SerialProxyRequestResponse", {"instance", "type", "status", "error_message"})

Promises ==
    [LogStream_subscribe |-> LogEntry, VoiceAssistant_subscribe |-> VoiceRequest,
     VoiceAssistant_on_event |-> VoiceEvent, VoiceAssistant_on_audio |-> VoiceAudio,
     VoiceAssistant_on_announce_finished |-> AnnounceFinished,
     VoiceAssistant_request_configuration |-> VoiceConfiguration,
     VoiceAssistant_on_timer_event |-> VoiceTimerEvent, ZWaveProxy_on_frame |-> ZWaveFrame,
     HomeAssistantServices_on_service |-> UserService,
     BluetoothProxy_subscribe_advertisements |-> BleAdvertisement,
     BluetoothProxy_on_raw_advertisements |-> BleRawAdvertisement,
     BluetoothProxy_on_scanner_state |-> BleScannerState,
     BluetoothProxy_on_connection |-> BleConnection,
     BluetoothProxy_on_connections_free |-> BleConnectionsFree,
     SerialProxy_on_request_response |-> SerialProxyResponse]

-----------------------------------------------------------------------------
(* The other methods: the message that they send, and what the request says    *)
(* by proto/api.proto, from which the device takes it.                         *)

Request(name, kind, v) == [name |-> name, kind |-> kind, v |-> v]

VoiceAssistant_send_response(v) == Request("VoiceAssistantResponse", "", v)
VoiceAssistant_send_audio(v) == Request("VoiceAssistantAudio", "", v)
VoiceAssistant_announce(v) == Request("VoiceAssistantAnnounceRequest", "", v)
VoiceAssistant_set_configuration(v) == Request("VoiceAssistantSetConfiguration", "", v)
ZWaveProxy_send_frame(v) == Request("ZWaveProxyFrame", "", v)
ZWaveProxy_request(v) == Request("ZWaveProxyRequest", "", v)
BluetoothProxy_unsubscribe_advertisements(v) ==
    Request("UnsubscribeBluetoothLEAdvertisementsRequest", "", v)
BluetoothProxy_set_scanner_mode(v) == Request("BluetoothScannerSetModeRequest", "", v)

(* v is the address; with_cache is the default. *)
BluetoothProxy_request_connection(v) ==
    Request("BluetoothDeviceRequest", "CONNECT_V3_WITH_CACHE", v)
BluetoothProxy_request_uncached(v) ==
    Request("BluetoothDeviceRequest", "CONNECT_V3_WITHOUT_CACHE", v)

(* Bug variant of disconnect: the request type is left at its default. *)
disconnect_default_type(v) == Request("BluetoothDeviceRequest", "CONNECT", v)

BluetoothProxy_disconnect(v) == Request("BluetoothDeviceRequest", "DISCONNECT", v)
BluetoothProxy_subscribe_connections_free(v) ==
    Request("SubscribeBluetoothConnectionsFreeRequest", "", v)
SerialProxy_request(v) == Request("SerialProxyRequest", "", v)
SerialProxy_configure(v) == Request("SerialProxyConfigureRequest", "", v)
SerialProxy_write(v) == Request("SerialProxyWriteRequest", "", v)

Requests(method, v) ==
    CASE method = "VoiceAssistant_send_response" -> VoiceAssistant_send_response(v)
      [] method = "VoiceAssistant_send_audio" -> VoiceAssistant_send_audio(v)
      [] method = "VoiceAssistant_announce" -> VoiceAssistant_announce(v)
      [] method = "VoiceAssistant_set_configuration" -> VoiceAssistant_set_configuration(v)
      [] method = "ZWaveProxy_send_frame" -> ZWaveProxy_send_frame(v)
      [] method = "ZWaveProxy_request" -> ZWaveProxy_request(v)
      [] method = "BluetoothProxy_unsubscribe_advertisements" ->
             BluetoothProxy_unsubscribe_advertisements(v)
      [] method = "BluetoothProxy_set_scanner_mode" -> BluetoothProxy_set_scanner_mode(v)
      [] method = "BluetoothProxy_request_connection" -> BluetoothProxy_request_connection(v)
      [] method = "BluetoothProxy_request_uncached" -> BluetoothProxy_request_uncached(v)
      [] method = "BluetoothProxy_disconnect" -> BluetoothProxy_disconnect(v)
      [] method = "BluetoothProxy_subscribe_connections_free" ->
             BluetoothProxy_subscribe_connections_free(v)
      [] method = "SerialProxy_request" -> SerialProxy_request(v)
      [] method = "SerialProxy_configure" -> SerialProxy_configure(v)
      [] method = "SerialProxy_write" -> SerialProxy_write(v)

(* What a device does on a request, in the words of the methods. *)
Meaning ==
    [VoiceAssistantResponse |-> "VoiceAssistant_send_response",
     VoiceAssistantAudio |-> "VoiceAssistant_send_audio",
     VoiceAssistantAnnounceRequest |-> "VoiceAssistant_announce",
     VoiceAssistantSetConfiguration |-> "VoiceAssistant_set_configuration",
     ZWaveProxyFrame |-> "ZWaveProxy_send_frame", ZWaveProxyRequest |-> "ZWaveProxy_request",
     UnsubscribeBluetoothLEAdvertisementsRequest |->
         "BluetoothProxy_unsubscribe_advertisements",
     BluetoothScannerSetModeRequest |-> "BluetoothProxy_set_scanner_mode",
     CONNECT_V3_WITH_CACHE |-> "BluetoothProxy_request_connection",
     CONNECT_V3_WITHOUT_CACHE |-> "BluetoothProxy_request_uncached",
     CONNECT |-> "an older kind of connection", DISCONNECT |-> "BluetoothProxy_disconnect",
     SubscribeBluetoothConnectionsFreeRequest |-> "BluetoothProxy_subscribe_connections_free",
     SerialProxyRequest |-> "SerialProxy_request",
     SerialProxyConfigureRequest |-> "SerialProxy_configure",
     SerialProxyWriteRequest |-> "SerialProxy_write",
     SubscribeLogsRequest |-> "LogStream_subscribe",
     SubscribeVoiceAssistantRequest |-> "VoiceAssistant_subscribe",
     VoiceAssistantConfigurationRequest |-> "VoiceAssistant_request_configuration",
     SubscribeBluetoothLEAdvertisementsRequest |-> "BluetoothProxy_subscribe_advertisements",
     ExecuteServiceRequest |-> "HomeAssistantServices_execute"]

(* ServiceValue: the alternative that is active, and the field that each type  *)
(* of argument is read from.                                                   *)
ServiceTypes == {"bool", "int32", "float", "string", "bools", "int32s", "floats", "strings"}

set_argument(type) ==
    [bool |-> "bool_", int32 |-> "int_", float |-> "float_", string |-> "string_",
     bools |-> "bool_array", int32s |-> "int_array", floats |-> "float_array",
     strings |-> "string_array"][type]

ArgumentField ==
    [bool_ |-> "bool", int_ |-> "int32", legacy_int |-> "an older device's int32",
     float_ |-> "float", string_ |-> "string", bool_array |-> "bools",
     int_array |-> "int32s", float_array |-> "floats", string_array |-> "strings"]

Means(r) ==
    [method |-> Meaning[IF r.name = "BluetoothDeviceRequest" THEN r.kind ELSE r.name],
     v |-> IF r.name = "ExecuteServiceRequest"
           THEN [call_id |-> r.v.call_id, type |-> ArgumentField[r.v.field]] ELSE r.v]

-----------------------------------------------------------------------------
DataId == "SerialProxyDataReceived"
PinsId == "SerialProxyGetModemPinsResponse"
Ids == {Registrations[m].id : m \in DOMAIN Registrations} \cup
       {Promises[m].id : m \in DOMAIN Promises} \cup {DataId, PinsId}

Slots == DOMAIN Registrations \cup {"SerialProxy_on_data", "SerialProxy_on_modem_pins"}

SerialMethods == {"SerialProxy_on_data", "SerialProxy_on_data_of",
                  "SerialProxy_on_modem_pins", "SerialProxy_get_modem_pins",
                  "SerialProxy_set_modem_pins"}

(* The methods that only send. *)
SendMethods ==
    {"VoiceAssistant_send_response", "VoiceAssistant_send_audio", "VoiceAssistant_announce",
     "VoiceAssistant_set_configuration", "ZWaveProxy_send_frame", "ZWaveProxy_request",
     "BluetoothProxy_unsubscribe_advertisements", "BluetoothProxy_set_scanner_mode",
     "BluetoothProxy_request_connection", "BluetoothProxy_request_uncached",
     "BluetoothProxy_disconnect", "BluetoothProxy_subscribe_connections_free",
     "SerialProxy_request", "SerialProxy_configure", "SerialProxy_write"}

(* A program uses methods of the managers; the instances of the serial proxy   *)
(* are no message ids (wanted has an entry for each of both).                  *)
ASSUME SubsystemsAssumption ==
    /\ Programs \subseteq SUBSET (DOMAIN Registrations \cup SendMethods \cup SerialMethods
                                  \cup {"HomeAssistantServices_execute"})
    /\ Instances # {} /\ Instances \cap Ids = {}
    /\ {MaxCalls, MaxMessages, MaxDrops} \subseteq Nat

(* SerialProxyLineStates *)
Lines == [rts : BOOLEAN, dtr : BOOLEAN]

from_bits(bits) == [rts |-> bits % 2 = 1, dtr |-> (bits \div 2) % 2 = 1]

(* Bug variant of to_bits: the two lines are mixed up. *)
to_bits_swapped(l) == (IF l.dtr THEN 1 ELSE 0) + (IF l.rts THEN 2 ELSE 0)

to_bits(l) == (IF l.rts THEN 1 ELSE 0) + (IF l.dtr THEN 2 ELSE 0)

NotRunning == [todo |-> <<>>, inside |-> FALSE, instance |-> "", bits |-> 0]

SubInit ==
    /\ program \in Programs
    /\ table = [id \in Ids |-> "none"] /\ slot = [m \in Slots |-> 0]
    /\ instance_data_handlers_ = [i \in Instances |-> 0]
    /\ pending_modem_pins_ = [i \in Instances |-> <<>>]
    /\ registered = {} /\ services_ = <<>> /\ next_call_id_ = 1
    /\ running = NotRunning /\ calls = 0 /\ outbox = <<>> /\ inbox = <<>>
    /\ wanted = [k \in Ids \cup Instances |-> 0]
    /\ ran = [id |-> "none", handlers |-> {}, due |-> {}, members |-> {}]
    /\ asked = <<>> /\ lines_set = [i \in Instances |-> from_bits(0)]
    /\ answers = <<>> /\ said = <<>> /\ heard = <<>>
    /\ pins = [i \in Instances |-> 0] /\ messages = 0 /\ drops = 0

-----------------------------------------------------------------------------
(* The program calls between two messages, or inside a one-shot callback. *)
Calls(method) ==
    /\ method \in program /\ calls < MaxCalls
    /\ running.todo = <<>> \/ running.inside
    /\ calls' = calls + 1
    /\ UNCHANGED <<program, running, inbox, ran, answers, heard, pins, messages, drops>>

register(m) ==
    /\ Calls(m)
    /\ LET r == Registrations[m]
       IN  /\ slot' = [slot EXCEPT ![m] = calls + 1]
           /\ table' = [table EXCEPT ![r.id] = m]
           /\ outbox' = outbox \o [i \in DOMAIN r.sends |-> Request(r.sends[i], "", 0)]
           /\ said' = said \o [i \in DOMAIN r.sends |-> [method |-> m, v |-> 0]]
    /\ wanted' = [wanted EXCEPT ![Promises[m].id] = calls + 1]
    /\ UNCHANGED <<instance_data_handlers_, pending_modem_pins_, registered, services_,
                   next_call_id_, asked, lines_set>>

send(method, v) ==
    /\ Calls(method)
    /\ outbox' = Append(outbox, Requests(method, v))
    /\ said' = Append(said, [method |-> method, v |-> v])
    /\ UNCHANGED proxy_vars /\ UNCHANGED <<wanted, asked, lines_set>>

execute(type) ==
    /\ Calls("HomeAssistantServices_execute")
    /\ next_call_id_' = next_call_id_ + 1
    /\ outbox' = Append(outbox, Request("ExecuteServiceRequest", "",
                            [call_id |-> next_call_id_, field |-> set_argument(type)]))
    /\ said' = Append(said, [method |-> "HomeAssistantServices_execute",
                             v |-> [call_id |-> next_call_id_, type |-> type]])
    /\ UNCHANGED <<table, slot, instance_data_handlers_, pending_modem_pins_, registered,
                   services_, wanted, asked, lines_set>>

(* ensure_data_handler() and ensure_modem_pins_handler(): the first time only. *)
ensure_handler(id, method) ==
    /\ registered' = registered \cup {id}
    /\ table' = IF id \in registered THEN table ELSE [table EXCEPT ![id] = method]

on_data ==
    /\ Calls("SerialProxy_on_data")
    /\ slot' = [slot EXCEPT !["SerialProxy_on_data"] = calls + 1]
    /\ ensure_handler(DataId, "SerialProxy_on_data")
    /\ wanted' = [wanted EXCEPT ![DataId] = calls + 1]
    /\ UNCHANGED <<instance_data_handlers_, pending_modem_pins_, services_, next_call_id_,
                   asked, lines_set, said, outbox>>

on_data_of(i) ==
    /\ Calls("SerialProxy_on_data_of")
    /\ instance_data_handlers_' = [instance_data_handlers_ EXCEPT ![i] = calls + 1]
    /\ ensure_handler(DataId, "SerialProxy_on_data")
    /\ wanted' = [wanted EXCEPT ![i] = calls + 1]
    /\ UNCHANGED <<slot, pending_modem_pins_, services_, next_call_id_, asked,
                   lines_set, said, outbox>>

on_modem_pins ==
    /\ Calls("SerialProxy_on_modem_pins")
    /\ slot' = [slot EXCEPT !["SerialProxy_on_modem_pins"] = calls + 1]
    /\ ensure_handler(PinsId, "SerialProxy_on_modem_pins")
    /\ wanted' = [wanted EXCEPT ![PinsId] = calls + 1]
    /\ UNCHANGED <<instance_data_handlers_, pending_modem_pins_, services_, next_call_id_,
                   asked, lines_set, said, outbox>>

Pins(name, i, bits) == [name |-> name, instance |-> i, bits |-> bits]
IsPins(r) == r.name \in {"Get", "Set"}

(* No other answer about the instance is under way. *)
Alone(i) ==
    /\ \A k \in DOMAIN outbox : ~(outbox[k].name = "Get" /\ outbox[k].instance = i)
    /\ \A k \in DOMAIN inbox : ~(inbox[k].id = PinsId /\ inbox[k].instance = i)

(* Bug variant of get_modem_pins: the handler of the answers is not registered. *)
get_modem_pins_unregistered(i, once) ==
    /\ Calls("SerialProxy_get_modem_pins")
    /\ outbox' = Append(outbox, Pins("Get", i, 0))
    /\ once
    /\ pending_modem_pins_' = [pending_modem_pins_ EXCEPT ![i] = Append(@, calls + 1)]
    /\ asked' = Append(asked, [n |-> calls + 1, instance |-> i, alone |-> Alone(i),
                               lines |-> lines_set[i]])
    /\ UNCHANGED <<registered, table, slot, instance_data_handlers_, services_,
                   next_call_id_, wanted, lines_set, said>>

get_modem_pins(i, once) ==
    /\ Calls("SerialProxy_get_modem_pins")
    /\ outbox' = Append(outbox, Pins("Get", i, 0))
    /\ IF once
       THEN /\ ensure_handler(PinsId, "SerialProxy_on_modem_pins")
            /\ pending_modem_pins_' = [pending_modem_pins_ EXCEPT ![i] = Append(@, calls + 1)]
            /\ asked' = Append(asked, [n |-> calls + 1, instance |-> i, alone |-> Alone(i),
                                       lines |-> lines_set[i]])
       ELSE UNCHANGED <<registered, table, pending_modem_pins_, asked>>
    /\ UNCHANGED <<slot, instance_data_handlers_, services_, next_call_id_, wanted, lines_set,
                   said>>

set_modem_pins(i, l) ==
    /\ Calls("SerialProxy_set_modem_pins")
    /\ outbox' = Append(outbox, Pins("Set", i, to_bits(l)))
    /\ lines_set' = [lines_set EXCEPT ![i] = l]
    /\ UNCHANGED proxy_vars /\ UNCHANGED <<wanted, asked, said>>

-----------------------------------------------------------------------------
(* The connection runs the handler of the first message that has arrived. *)

Receives == /\ inbox # <<>> /\ running.todo = <<>> /\ inbox' = Tail(inbox)
            /\ UNCHANGED <<program, calls, outbox, answers, heard, pins, messages, drops>>
            /\ UNCHANGED history

Ran(id, handlers, due, members) ==
    ran' = [id |-> id, handlers |-> handlers \ {0}, due |-> due \ {0}, members |-> members]

handle_message ==
    LET id == Head(inbox).id
        m == table[id]
    IN  /\ Receives /\ id \notin {DataId, PinsId}
        /\ Ran(id, IF m = "none" THEN {} ELSE {slot[m]}, {wanted[id]},
               IF m = "none" THEN {} ELSE Registrations[m].fills)
        /\ services_' = IF m = "HomeAssistantServices_on_service"
                        THEN Append(services_, Head(inbox).instance) ELSE services_
        /\ UNCHANGED <<running, table, slot, instance_data_handlers_, pending_modem_pins_,
                       registered, next_call_id_>>

handle_data ==
    LET i == Head(inbox).instance
    IN  /\ Receives /\ Head(inbox).id = DataId
        /\ Ran(DataId, IF table[DataId] = "none" THEN {}
                       ELSE {slot["SerialProxy_on_data"], instance_data_handlers_[i]},
               {wanted[DataId], wanted[i]}, {"instance", "data"})
        /\ UNCHANGED running /\ UNCHANGED proxy_vars

(* Bug variant of handle_pins: the callbacks are erased after they have run. *)
handle_pins_erases_late ==
    LET i == Head(inbox).instance
    IN  /\ Receives /\ Head(inbox).id = PinsId
        /\ running' = [todo |-> pending_modem_pins_[i] \o <<0>>, inside |-> FALSE,
                       instance |-> i, bits |-> Head(inbox).bits]
        /\ UNCHANGED <<table, slot, instance_data_handlers_, registered, services_,
                       next_call_id_, ran, pending_modem_pins_>>

(* The callbacks are moved out and erased before the first of them runs; 0     *)
(* stands for the persistent handler, which is last.                           *)
handle_pins ==
    LET i == Head(inbox).instance
    IN  /\ Receives /\ Head(inbox).id = PinsId
        /\ IF table[PinsId] = "none" THEN UNCHANGED <<running, pending_modem_pins_>>
           ELSE /\ running' = [todo |-> pending_modem_pins_[i] \o <<0>>, inside |-> FALSE,
                               instance |-> i, bits |-> Head(inbox).bits]
                /\ pending_modem_pins_' = [pending_modem_pins_ EXCEPT ![i] = <<>>]
        /\ UNCHANGED <<table, slot, instance_data_handlers_, registered, services_,
                       next_call_id_, ran>>

run_callback ==
    /\ running.todo # <<>>
    /\ LET n == Head(running.todo)
       IN  IF n = 0
           THEN /\ running' = NotRunning
                /\ Ran(PinsId, {slot["SerialProxy_on_modem_pins"]}, {wanted[PinsId]},
                       {"instance", "lines"})
                /\ UNCHANGED answers
           ELSE /\ running' = [running EXCEPT !.todo = Tail(@), !.inside = TRUE]
                /\ answers' = Append(answers, [n |-> n, instance |-> running.instance,
                                               lines |-> from_bits(running.bits)])
                /\ UNCHANGED ran
    /\ UNCHANGED <<program, calls, outbox, inbox, heard, pins, messages, drops>>
    /\ UNCHANGED proxy_vars /\ UNCHANGED history

-----------------------------------------------------------------------------
(* The device and the network, external. *)

Message(id, i, bits) == [id |-> id, instance |-> i, bits |-> bits]

DeviceTakes ==
    /\ outbox # <<>> /\ outbox' = Tail(outbox)
    /\ LET r == Head(outbox)
       IN  /\ pins' = IF r.name = "Set" THEN [pins EXCEPT ![r.instance] = r.bits] ELSE pins
           /\ inbox' = IF r.name = "Get"
                       THEN Append(inbox, Message(PinsId, r.instance, pins[r.instance]))
                       ELSE inbox
           /\ heard' = IF IsPins(r) THEN heard ELSE Append(heard, Means(r))
    /\ UNCHANGED <<program, running, calls, ran, answers, messages, drops>>
    /\ UNCHANGED proxy_vars /\ UNCHANGED history

(* A message of a kind that the program's methods are about. *)
DeviceSends(i) ==
    /\ messages < MaxMessages /\ messages' = messages + 1
    /\ \E id \in {Promises[m].id : m \in program \cap DOMAIN Promises} \cup
                  (IF "SerialProxy_on_data_of" \in program THEN {DataId} ELSE {}) :
           inbox' = Append(inbox, Message(id, i, 0))
    /\ UNCHANGED <<program, running, calls, outbox, ran, answers, heard, pins, drops>>
    /\ UNCHANGED proxy_vars /\ UNCHANGED history

(* The connection is lost with what is under way, and made again. *)
Drop ==
    /\ running.todo = <<>> /\ drops < MaxDrops /\ drops' = drops + 1
    /\ inbox' = <<>> /\ outbox' = <<>> /\ said' = heard
    /\ lines_set' = [i \in Instances |-> from_bits(pins[i])]
    /\ asked' = [k \in DOMAIN asked |-> [asked[k] EXCEPT !.alone = FALSE]]
    /\ UNCHANGED <<program, running, calls, ran, answers, heard, pins, messages, wanted>>
    /\ UNCHANGED proxy_vars

SubNext ==
    \/ \E m \in DOMAIN Registrations : register(m)
    \/ \E m \in program \ (DOMAIN Registrations \cup {"HomeAssistantServices_execute"}) :
          \E v \in {0, 1} : m \notin SerialMethods /\ send(m, v)
    \/ \E type \in ServiceTypes : execute(type)
    \/ on_data \/ on_modem_pins \/ \E i \in Instances : on_data_of(i)
    \/ \E i \in Instances, once \in BOOLEAN : get_modem_pins(i, once)
    \/ \E i \in Instances, l \in Lines : set_modem_pins(i, l)
    \/ handle_message \/ handle_data \/ handle_pins \/ run_callback
    \/ DeviceTakes \/ (\E i \in Instances : DeviceSends(i)) \/ Drop

(* The loop runs the handlers of what arrives, and the device answers. *)
SubFairness ==
    /\ WF_sub_vars(handle_message \/ handle_data \/ handle_pins \/ run_callback)
    /\ WF_sub_vars(DeviceTakes)

SubSpec == SubInit /\ [][SubNext]_sub_vars /\ SubFairness

-----------------------------------------------------------------------------
(* A message runs the handler that the program last gave for messages of its   *)
(* kind, and for its instance, with every member of the structure filled in,   *)
(* whatever else was registered before and after it (the managers' on_x).      *)
EveryHandlerHears ==
    /\ ran.handlers = ran.due
    /\ ran.handlers # {} /\ ran.id \notin {DataId, PinsId} =>
           \A m \in DOMAIN Promises : Promises[m].id = ran.id =>
               Promises[m].members = ran.members

(* What the device takes from the messages is what the methods were called     *)
(* for, in their order (BluetoothProxy, VoiceAssistant, HomeAssistantServices, *)
(* SerialProxy): what it has heard, then the requests under way that are not   *)
(* about modem lines, which are at the positions at.                           *)
DeviceHearsCalls ==
    LET n == Len(said) - Len(heard)
    IN  \E at \in [1..n -> DOMAIN outbox] :
            /\ \A j, k \in 1..n : j < k => at[j] < at[k]
            /\ \A k \in DOMAIN outbox : ~IsPins(outbox[k]) <=> \E j \in 1..n : at[j] = k
            /\ said = heard \o [j \in 1..n |-> Means(outbox[at[j]])]

(* A one-shot callback of get_modem_pins() is held in one place until it has   *)
(* run, once and with an answer of its instance, also when it asks again and   *)
(* across lost connections ("invoked exactly once with the matching response   *)
(* for this instance").                                                        *)
PinsExactlyOnce ==
    \A a \in Range(asked) :
        LET held == pending_modem_pins_[a.instance] \o running.todo
            given == {k \in DOMAIN answers : answers[k].n = a.n}
        IN  /\ Cardinality({k \in DOMAIN held : held[k] = a.n}) + Cardinality(given) = 1
            /\ \A k \in given : answers[k].instance = a.instance

(* A program that asks when no other answer about the instance is under way    *)
(* reads the lines it set last (get_modem_pins, set_modem_pins).               *)
ReadsOwnWrites ==
    \A k \in DOMAIN answers : \A a \in Range(asked) :
        a.n = answers[k].n /\ a.alone => answers[k].lines = a.lines

(* A callback runs in the end unless the connection is lost.                   *)
PinsAnswered ==
    \A n \in 1..MaxCalls :
        (\E a \in Range(asked) : a.n = n)
            ~> drops > 0 \/ \E k \in DOMAIN answers : answers[k].n = n
=============================================================================
