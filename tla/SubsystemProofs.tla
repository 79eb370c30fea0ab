-------------------------- MODULE SubsystemProofs --------------------------
(***************************************************************************)
(* The safety of the subsystem managers (Subsystems.tla) for any number of  *)
(* calls, messages, lost connections and serial proxy instances, and for    *)
(* every program that uses the managers' methods.                           *)
(*                                                                          *)
(* The invariant has a part for each property: which handler the table      *)
(* leads to (HandlersPlaced), where a modem pins callback is (CallbacksHeld, *)
(* Disjoint, NoneLost), and which answer an undisturbed get_modem_pins()    *)
(* will be given (OwnAnswerComes).  DeviceHearsCalls speaks of positions in  *)
(* the queue; Heard says the same by the queue itself.                      *)
(***************************************************************************)
EXTENDS Subsystems, FiniteSetTheorems, TLAPS

Messages == [id : Ids, instance : Instances, bits : Nat]

PinsRequests == [name : {"Get", "Set"}, instance : Instances, bits : Nat]

(* The methods that take a handler, and those among them that send. *)
Methods == DOMAIN Registrations

Askers == {m \in Methods : Registrations[m].sends # <<>>}

(* The requests of the other methods. *)
SendRequests == UNION {{Requests(m, v) : v \in {0, 1}} : m \in SendMethods}

RegisterRequests == {Request(Registrations[m].sends[1], "", 0) : m \in Askers}

ExecuteRequests ==
    {Request("ExecuteServiceRequest", "", w) :
        w \in [call_id : Nat, field : {set_argument(type) : type \in ServiceTypes}]}

OtherRequests == SendRequests \cup RegisterRequests \cup ExecuteRequests

Sent == PinsRequests \cup OtherRequests

Meant == {Means(r) : r \in OtherRequests}

Asked == [n : Nat, instance : Instances, alone : BOOLEAN, lines : Lines]

Given == [n : Nat, instance : Instances, lines : Lines]

SubTypes ==
    /\ program \in Programs
    /\ table \in [Ids -> Slots \cup {"none"}] /\ slot \in [Slots -> Nat]
    /\ instance_data_handlers_ \in [Instances -> Nat]
    /\ pending_modem_pins_ \in [Instances -> Seq(Nat)]
    /\ wanted \in [Ids \cup Instances -> Nat]
    /\ calls \in Nat /\ next_call_id_ \in Nat
    /\ inbox \in Seq(Messages) /\ outbox \in Seq(Sent)
    /\ running \in [todo : Seq(Nat), inside : BOOLEAN, instance : Instances \cup {""},
                    bits : Nat]
    /\ asked \in Seq(Asked) /\ answers \in Seq(Given)
    /\ lines_set \in [Instances -> Lines] /\ pins \in [Instances -> Nat]
    /\ said \in Seq(Meant) /\ heard \in Seq(Meant)

(* The entry of an id leads to the handler that was given last for it. *)
HandlersPlaced ==
    /\ \A id \in Ids \ {DataId, PinsId} :
          \/ table[id] = "none" /\ wanted[id] = 0
          \/ /\ table[id] \in DOMAIN Registrations /\ Registrations[table[id]].id = id
             /\ slot[table[id]] = wanted[id]
    /\ slot["SerialProxy_on_data"] = wanted[DataId]
    /\ slot["SerialProxy_on_modem_pins"] = wanted[PinsId]
    /\ \A i \in Instances : instance_data_handlers_[i] = wanted[i]
    /\ table[DataId] = "none" => wanted[DataId] = 0 /\ \A i \in Instances : wanted[i] = 0
    /\ \A id \in registered : id \in {DataId, PinsId} /\ table[id] # "none"

(* Numbers of calls whose callbacks are held, moved out or have run. *)
Has(s, n) == \E p \in DOMAIN s : s[p] = n

Answered(n) == \E k \in DOMAIN answers : answers[k].n = n

OfCall(n, i) == \E k \in DOMAIN asked : asked[k].n = n /\ asked[k].instance = i

Distinct(s) == \A p, q \in DOMAIN s : s[p] = s[q] => p = q

(* Each callback belongs to a call about the instance that it is held for; 0,  *)
(* the persistent handler, is the last of those that run.                      *)
CallsNumbered ==
    /\ \A k \in DOMAIN asked : asked[k].n # 0 /\ asked[k].n <= calls
    /\ \A j, k \in DOMAIN asked : asked[j].n = asked[k].n => j = k

PendingHeld ==
    \A i \in Instances :
        /\ Distinct(pending_modem_pins_[i])
        /\ \A n : Has(pending_modem_pins_[i], n) => OfCall(n, i)
        /\ pending_modem_pins_[i] # <<>> => PinsId \in registered

RunningHeld ==
    /\ Distinct(running.todo)
    /\ running.todo # <<>> => running.instance \in Instances
    /\ \A p \in DOMAIN running.todo : running.todo[p] = 0 => p = Len(running.todo)
    /\ \A n : Has(running.todo, n) /\ n # 0 => OfCall(n, running.instance)

AnswersHeld ==
    /\ \A j, k \in DOMAIN answers : answers[j].n = answers[k].n => j = k
    /\ \A k \in DOMAIN answers : OfCall(answers[k].n, answers[k].instance)

CallbacksHeld == CallsNumbered /\ PendingHeld /\ RunningHeld /\ AnswersHeld

(* No callback is in two places. *)
Disjoint ==
    \A n : n # 0 =>
        /\ \A i \in Instances :
              Has(pending_modem_pins_[i], n) => ~Has(running.todo, n) /\ ~Answered(n)
        /\ Has(running.todo, n) => ~Answered(n)

(* And none is lost. *)
NoneLost ==
    \A k \in DOMAIN asked :
        \/ Has(pending_modem_pins_[asked[k].instance], asked[k].n)
        \/ Has(running.todo, asked[k].n)
        \/ Answered(asked[k].n)

(* The requests and answers about the lines of an instance. *)
IsGet(r, i) == r.name = "Get" /\ r.instance = i
IsSet(r, i) == r.name = "Set" /\ r.instance = i
IsAnswer(m, i) == m.id = PinsId /\ m.instance = i

FirstAnswer(box, p, i) == IsAnswer(box[p], i) /\ \A q \in 1..(p - 1) : ~IsAnswer(box[q], i)
FirstGet(out, p, i) == IsGet(out[p], i) /\ \A q \in 1..(p - 1) : ~IsGet(out[q], i)
LastSet(out, q, p, i) ==
    q < p /\ IsSet(out[q], i) /\ \A k \in (q + 1)..(p - 1) : ~IsSet(out[k], i)

(* The lines of the instance once the device, at bits, has taken the requests  *)
(* before position p.                                                          *)
LinesBefore(out, p, i, bits, lines) ==
    /\ \A q \in DOMAIN out : LastSet(out, q, p, i) => from_bits(out[q].bits) = lines
    /\ (\A q \in DOMAIN out : q < p => ~IsSet(out[q], i)) => from_bits(bits) = lines

(* What the program set last is what the device will have. *)
LinesUnderWay ==
    \A i \in Instances : LinesBefore(outbox, Len(outbox) + 1, i, pins[i], lines_set[i])

(* The next answer about the instance will have these lines. *)
NextAnswer(box, out, i, bits, lines) ==
    /\ \/ \E p \in DOMAIN box : IsAnswer(box[p], i)
       \/ \E p \in DOMAIN out : IsGet(out[p], i)
    /\ \A p \in DOMAIN box : FirstAnswer(box, p, i) => from_bits(box[p].bits) = lines
    /\ (\A p \in DOMAIN box : ~IsAnswer(box[p], i)) =>
           \A p \in DOMAIN out : FirstGet(out, p, i) => LinesBefore(out, p, i, bits, lines)

(* A call that was alone is given the lines that were set before it. *)
OwnAnswerComes ==
    \A k \in DOMAIN asked : asked[k].alone =>
        LET i == asked[k].instance
            n == asked[k].n
        IN  /\ Has(pending_modem_pins_[i], n) =>
                   NextAnswer(inbox, outbox, i, pins[i], asked[k].lines)
            /\ Has(running.todo, n) => from_bits(running.bits) = asked[k].lines
            /\ \A j \in DOMAIN answers : answers[j].n = n => answers[j].lines = asked[k].lines

(* What the device has heard and will hear of what was said: at are the        *)
(* positions of the requests that are not about modem lines.                   *)
Positions(out, n, at) ==
    /\ at \in [1..n -> DOMAIN out]
    /\ \A j, k \in 1..n : j < k => at[j] < at[k]
    /\ \A k \in DOMAIN out : ~IsPins(out[k]) <=> \E j \in 1..n : at[j] = k

Says(out, n, at, s, h) ==
    /\ Len(s) = Len(h) + n
    /\ \A k \in 1..Len(h) : s[k] = h[k]
    /\ \A j \in 1..n : s[Len(h) + j] = Means(out[at[j]])

Heard(out, s, h) == \E n \in Nat : \E at : Positions(out, n, at) /\ Says(out, n, at, s, h)

SubInv ==
    /\ SubTypes /\ HandlersPlaced /\ EveryHandlerHears /\ Heard(outbox, said, heard)
    /\ CallbacksHeld /\ Disjoint /\ NoneLost
    /\ LinesUnderWay /\ OwnAnswerComes

-----------------------------------------------------------------------------
(* The methods that take a handler are no others. *)
LEMMA MethodNames ==
  /\ DOMAIN Promises = Methods
  /\ \A m \in Methods : m \notin SerialMethods /\ m # "none" /\ m # "HomeAssistantServices_execute"
  BY DEF Methods, Registrations, Promises, SerialMethods

(* A handler gets the message and the members that the header promises, and    *)
(* the request that its method sends is the one that asks for the messages     *)
(* (LogStream, VoiceAssistant, ZWaveProxy, HomeAssistantServices,              *)
(* BluetoothProxy and SerialProxy, method by method).                          *)
LEMMA PromiseKept ==
  ASSUME NEW m \in Methods
  PROVE  /\ Registrations[m].id = Promises[m].id
         /\ Registrations[m].fills = Promises[m].members
         /\ Registrations[m].id \notin {DataId, PinsId}
         /\ \/ Registrations[m].sends = <<>>
            \/ \E name :
                  /\ Registrations[m].sends = <<name>> /\ name \notin {"Get", "Set"}
                  /\ Means(Request(name, "", 0)) = [method |-> m, v |-> 0]
  <1> USE Zenon DEF Registration, Promise, Registrations, Promises, DataId, PinsId, Means,
          Meaning, Request
  <1>1. CASE m = "LogStream_subscribe"
    <2>1. Means(Request("SubscribeLogsRequest", "", 0)) = [method |-> m, v |-> 0]
      BY <1>1
    <2>2. /\ Registrations[m].sends = <<"SubscribeLogsRequest">>
          /\ "SubscribeLogsRequest" \notin {"Get", "Set"}
      BY <1>1 DEF LogStream_subscribe
    <2>3. /\ Registrations[m].id = Promises[m].id /\ Registrations[m].id \notin {DataId, PinsId}
          /\ Registrations[m].fills = Promises[m].members
      BY <1>1 DEF LogStream_subscribe, LogEntry
    <2> HIDE DEF Registrations, Promises, DataId, PinsId, Means, Meaning, Request
    <2> QED
      BY <2>1, <2>2, <2>3
  <1>2. CASE m = "VoiceAssistant_subscribe"
    <2>1. Means(Request("SubscribeVoiceAssistantRequest", "", 0)) = [method |-> m, v |-> 0]
      BY <1>2
    <2>2. /\ Registrations[m].sends = <<"SubscribeVoiceAssistantRequest">>
          /\ "SubscribeVoiceAssistantRequest" \notin {"Get", "Set"}
      BY <1>2 DEF VoiceAssistant_subscribe
    <2>3. /\ Registrations[m].id = Promises[m].id /\ Registrations[m].id \notin {DataId, PinsId}
          /\ Registrations[m].fills = Promises[m].members
      BY <1>2 DEF VoiceAssistant_subscribe, VoiceRequest
    <2> HIDE DEF Registrations, Promises, DataId, PinsId, Means, Meaning, Request
    <2> QED
      BY <2>1, <2>2, <2>3
  <1>3. CASE m = "VoiceAssistant_on_event"
    BY <1>3 DEF VoiceAssistant_on_event, VoiceEvent
  <1>4. CASE m = "VoiceAssistant_on_audio"
    BY <1>4 DEF VoiceAssistant_on_audio, VoiceAudio
  <1>5. CASE m = "VoiceAssistant_on_announce_finished"
    BY <1>5 DEF VoiceAssistant_on_announce_finished, AnnounceFinished
  <1>6. CASE m = "VoiceAssistant_request_configuration"
    <2>1. Means(Request("VoiceAssistantConfigurationRequest", "", 0)) = [method |-> m, v |-> 0]
      BY <1>6
    <2>2. /\ Registrations[m].sends = <<"VoiceAssistantConfigurationRequest">>
          /\ "VoiceAssistantConfigurationRequest" \notin {"Get", "Set"}
      BY <1>6 DEF VoiceAssistant_request_configuration
    <2>3. /\ Registrations[m].id = Promises[m].id /\ Registrations[m].id \notin {DataId, PinsId}
          /\ Registrations[m].fills = Promises[m].members
      BY <1>6 DEF VoiceAssistant_request_configuration, VoiceConfiguration
    <2> HIDE DEF Registrations, Promises, DataId, PinsId, Means, Meaning, Request
    <2> QED
      BY <2>1, <2>2, <2>3
  <1>7. CASE m = "VoiceAssistant_on_timer_event"
    BY <1>7 DEF VoiceAssistant_on_timer_event, VoiceTimerEvent
  <1>8. CASE m = "ZWaveProxy_on_frame"
    BY <1>8 DEF ZWaveProxy_on_frame, ZWaveFrame
  <1>9. CASE m = "HomeAssistantServices_on_service"
    BY <1>9 DEF HomeAssistantServices_on_service, UserService
  <1>10. CASE m = "BluetoothProxy_subscribe_advertisements"
    <2>1. Means(Request("SubscribeBluetoothLEAdvertisementsRequest", "", 0)) = [method |-> m, v |-> 0]
      BY <1>10
    <2>2. /\ Registrations[m].sends = <<"SubscribeBluetoothLEAdvertisementsRequest">>
          /\ "SubscribeBluetoothLEAdvertisementsRequest" \notin {"Get", "Set"}
      BY <1>10 DEF BluetoothProxy_subscribe_advertisements
    <2>3. /\ Registrations[m].id = Promises[m].id /\ Registrations[m].id \notin {DataId, PinsId}
          /\ Registrations[m].fills = Promises[m].members
      BY <1>10 DEF BluetoothProxy_subscribe_advertisements, BleAdvertisement
    <2> HIDE DEF Registrations, Promises, DataId, PinsId, Means, Meaning, Request
    <2> QED
      BY <2>1, <2>2, <2>3
  <1>11. CASE m = "BluetoothProxy_on_raw_advertisements"
    BY <1>11 DEF BluetoothProxy_on_raw_advertisements, BleRawAdvertisement
  <1>12. CASE m = "BluetoothProxy_on_scanner_state"
    BY <1>12 DEF BluetoothProxy_on_scanner_state, BleScannerState
  <1>13. CASE m = "BluetoothProxy_on_connection"
    BY <1>13 DEF BluetoothProxy_on_connection, BleConnection
  <1>14. CASE m = "BluetoothProxy_on_connections_free"
    BY <1>14 DEF BluetoothProxy_on_connections_free, BleConnectionsFree
  <1>15. CASE m = "SerialProxy_on_request_response"
    BY <1>15 DEF SerialProxy_on_request_response, SerialProxyResponse
  <1> QED
    BY <1>1, <1>2, <1>3, <1>4, <1>5, <1>6, <1>7, <1>8, <1>9, <1>10, <1>11, <1>12, <1>13, <1>14, <1>15 DEF Methods

(* No two kinds of handlers hear the same message. *)
LEMMA IdsDiffer ==
  ASSUME NEW m \in Methods, NEW n \in Methods, Promises[m].id = Promises[n].id
  PROVE  m = n
  BY DEF Methods, Registrations, Promises, Promise, LogEntry,
      VoiceRequest,
      VoiceEvent,
      VoiceAudio,
      AnnounceFinished,
      VoiceConfiguration,
      VoiceTimerEvent,
      ZWaveFrame,
      UserService,
      BleAdvertisement,
      BleRawAdvertisement,
      BleScannerState,
      BleConnection,
      BleConnectionsFree,
      SerialProxyResponse

(* A request says what its method was called for (api.proto). *)
LEMMA SendsMeant ==
  ASSUME NEW m \in SendMethods, NEW v
  PROVE  /\ Means(Requests(m, v)) = [method |-> m, v |-> v]
         /\ \E name, kind :
               Requests(m, v) = Request(name, kind, v) /\ name \notin {"Get", "Set"}
  <1>1. CASE m = "VoiceAssistant_send_response"
    <2>1. Requests(m, v) = Request("VoiceAssistantResponse", "", v)
      BY <1>1 DEF Requests, VoiceAssistant_send_response
    <2>2. Means(Request("VoiceAssistantResponse", "", v)) = [method |-> m, v |-> v]
      BY <1>1, Zenon DEF Means, Meaning, Request
    <2>3. "VoiceAssistantResponse" \notin {"Get", "Set"}
      OBVIOUS
    <2> QED
      BY <2>1, <2>2, <2>3, Zenon
  <1>2. CASE m = "VoiceAssistant_send_audio"
    <2>1. Requests(m, v) = Request("VoiceAssistantAudio", "", v)
      BY <1>2 DEF Requests, VoiceAssistant_send_audio
    <2>2. Means(Request("VoiceAssistantAudio", "", v)) = [method |-> m, v |-> v]
      BY <1>2, Zenon DEF Means, Meaning, Request
    <2>3. "VoiceAssistantAudio" \notin {"Get", "Set"}
      OBVIOUS
    <2> QED
      BY <2>1, <2>2, <2>3, Zenon
  <1>3. CASE m = "VoiceAssistant_announce"
    <2>1. Requests(m, v) = Request("VoiceAssistantAnnounceRequest", "", v)
      BY <1>3 DEF Requests, VoiceAssistant_announce
    <2>2. Means(Request("VoiceAssistantAnnounceRequest", "", v)) = [method |-> m, v |-> v]
      BY <1>3, Zenon DEF Means, Meaning, Request
    <2>3. "VoiceAssistantAnnounceRequest" \notin {"Get", "Set"}
      OBVIOUS
    <2> QED
      BY <2>1, <2>2, <2>3, Zenon
  <1>4. CASE m = "VoiceAssistant_set_configuration"
    <2>1. Requests(m, v) = Request("VoiceAssistantSetConfiguration", "", v)
      BY <1>4 DEF Requests, VoiceAssistant_set_configuration
    <2>2. Means(Request("VoiceAssistantSetConfiguration", "", v)) = [method |-> m, v |-> v]
      BY <1>4, Zenon DEF Means, Meaning, Request
    <2>3. "VoiceAssistantSetConfiguration" \notin {"Get", "Set"}
      OBVIOUS
    <2> QED
      BY <2>1, <2>2, <2>3, Zenon
  <1>5. CASE m = "ZWaveProxy_send_frame"
    <2>1. Requests(m, v) = Request("ZWaveProxyFrame", "", v)
      BY <1>5 DEF Requests, ZWaveProxy_send_frame
    <2>2. Means(Request("ZWaveProxyFrame", "", v)) = [method |-> m, v |-> v]
      BY <1>5, Zenon DEF Means, Meaning, Request
    <2>3. "ZWaveProxyFrame" \notin {"Get", "Set"}
      OBVIOUS
    <2> QED
      BY <2>1, <2>2, <2>3, Zenon
  <1>6. CASE m = "ZWaveProxy_request"
    <2>1. Requests(m, v) = Request("ZWaveProxyRequest", "", v)
      BY <1>6 DEF Requests, ZWaveProxy_request
    <2>2. Means(Request("ZWaveProxyRequest", "", v)) = [method |-> m, v |-> v]
      BY <1>6, Zenon DEF Means, Meaning, Request
    <2>3. "ZWaveProxyRequest" \notin {"Get", "Set"}
      OBVIOUS
    <2> QED
      BY <2>1, <2>2, <2>3, Zenon
  <1>7. CASE m = "BluetoothProxy_unsubscribe_advertisements"
    <2>1. Requests(m, v) = Request("UnsubscribeBluetoothLEAdvertisementsRequest", "", v)
      BY <1>7 DEF Requests, BluetoothProxy_unsubscribe_advertisements
    <2>2. Means(Request("UnsubscribeBluetoothLEAdvertisementsRequest", "", v)) = [method |-> m, v |-> v]
      BY <1>7, Zenon DEF Means, Meaning, Request
    <2>3. "UnsubscribeBluetoothLEAdvertisementsRequest" \notin {"Get", "Set"}
      OBVIOUS
    <2> QED
      BY <2>1, <2>2, <2>3, Zenon
  <1>8. CASE m = "BluetoothProxy_set_scanner_mode"
    <2>1. Requests(m, v) = Request("BluetoothScannerSetModeRequest", "", v)
      BY <1>8 DEF Requests, BluetoothProxy_set_scanner_mode
    <2>2. Means(Request("BluetoothScannerSetModeRequest", "", v)) = [method |-> m, v |-> v]
      BY <1>8, Zenon DEF Means, Meaning, Request
    <2>3. "BluetoothScannerSetModeRequest" \notin {"Get", "Set"}
      OBVIOUS
    <2> QED
      BY <2>1, <2>2, <2>3, Zenon
  <1>9. CASE m = "BluetoothProxy_request_connection"
    <2>1. Requests(m, v) = Request("BluetoothDeviceRequest", "CONNECT_V3_WITH_CACHE", v)
      BY <1>9 DEF Requests, BluetoothProxy_request_connection
    <2>2. Means(Request("BluetoothDeviceRequest", "CONNECT_V3_WITH_CACHE", v)) = [method |-> m, v |-> v]
      BY <1>9, Zenon DEF Means, Meaning, Request
    <2>3. "BluetoothDeviceRequest" \notin {"Get", "Set"}
      OBVIOUS
    <2> QED
      BY <2>1, <2>2, <2>3, Zenon
  <1>10. CASE m = "BluetoothProxy_request_uncached"
    <2>1. Requests(m, v) = Request("BluetoothDeviceRequest", "CONNECT_V3_WITHOUT_CACHE", v)
      BY <1>10 DEF Requests, BluetoothProxy_request_uncached
    <2>2. Means(Request("BluetoothDeviceRequest", "CONNECT_V3_WITHOUT_CACHE", v)) = [method |-> m, v |-> v]
      BY <1>10, Zenon DEF Means, Meaning, Request
    <2>3. "BluetoothDeviceRequest" \notin {"Get", "Set"}
      OBVIOUS
    <2> QED
      BY <2>1, <2>2, <2>3, Zenon
  <1>11. CASE m = "BluetoothProxy_disconnect"
    <2>1. Requests(m, v) = Request("BluetoothDeviceRequest", "DISCONNECT", v)
      BY <1>11 DEF Requests, BluetoothProxy_disconnect
    <2>2. Means(Request("BluetoothDeviceRequest", "DISCONNECT", v)) = [method |-> m, v |-> v]
      BY <1>11, Zenon DEF Means, Meaning, Request
    <2>3. "BluetoothDeviceRequest" \notin {"Get", "Set"}
      OBVIOUS
    <2> QED
      BY <2>1, <2>2, <2>3, Zenon
  <1>12. CASE m = "BluetoothProxy_subscribe_connections_free"
    <2>1. Requests(m, v) = Request("SubscribeBluetoothConnectionsFreeRequest", "", v)
      BY <1>12 DEF Requests, BluetoothProxy_subscribe_connections_free
    <2>2. Means(Request("SubscribeBluetoothConnectionsFreeRequest", "", v)) = [method |-> m, v |-> v]
      BY <1>12, Zenon DEF Means, Meaning, Request
    <2>3. "SubscribeBluetoothConnectionsFreeRequest" \notin {"Get", "Set"}
      OBVIOUS
    <2> QED
      BY <2>1, <2>2, <2>3, Zenon
  <1>13. CASE m = "SerialProxy_request"
    <2>1. Requests(m, v) = Request("SerialProxyRequest", "", v)
      BY <1>13 DEF Requests, SerialProxy_request
    <2>2. Means(Request("SerialProxyRequest", "", v)) = [method |-> m, v |-> v]
      BY <1>13, Zenon DEF Means, Meaning, Request
    <2>3. "SerialProxyRequest" \notin {"Get", "Set"}
      OBVIOUS
    <2> QED
      BY <2>1, <2>2, <2>3, Zenon
  <1>14. CASE m = "SerialProxy_configure"
    <2>1. Requests(m, v) = Request("SerialProxyConfigureRequest", "", v)
      BY <1>14 DEF Requests, SerialProxy_configure
    <2>2. Means(Request("SerialProxyConfigureRequest", "", v)) = [method |-> m, v |-> v]
      BY <1>14, Zenon DEF Means, Meaning, Request
    <2>3. "SerialProxyConfigureRequest" \notin {"Get", "Set"}
      OBVIOUS
    <2> QED
      BY <2>1, <2>2, <2>3, Zenon
  <1>15. CASE m = "SerialProxy_write"
    <2>1. Requests(m, v) = Request("SerialProxyWriteRequest", "", v)
      BY <1>15 DEF Requests, SerialProxy_write
    <2>2. Means(Request("SerialProxyWriteRequest", "", v)) = [method |-> m, v |-> v]
      BY <1>15, Zenon DEF Means, Meaning, Request
    <2>3. "SerialProxyWriteRequest" \notin {"Get", "Set"}
      OBVIOUS
    <2> QED
      BY <2>1, <2>2, <2>3, Zenon
  <1> QED
    BY <1>1, <1>2, <1>3, <1>4, <1>5, <1>6, <1>7, <1>8, <1>9, <1>10, <1>11, <1>12, <1>13, <1>14, <1>15
        DEF SendMethods

(* The argument of a service is read from the field that it was put into. *)
LEMMA ExecuteMeant ==
  ASSUME NEW type \in ServiceTypes, NEW n
  PROVE  Means(Request("ExecuteServiceRequest", "",
                       [call_id |-> n, field |-> set_argument(type)])) =
            [method |-> "HomeAssistantServices_execute",
             v |-> [call_id |-> n, type |-> type]]
  <1>1. ArgumentField[set_argument(type)] = type
    <2>1. CASE type = "bool"
      BY <2>1, Zenon DEF set_argument, ArgumentField
    <2>2. CASE type = "int32"
      BY <2>2, Zenon DEF set_argument, ArgumentField
    <2>3. CASE type = "float"
      BY <2>3, Zenon DEF set_argument, ArgumentField
    <2>4. CASE type = "string"
      BY <2>4, Zenon DEF set_argument, ArgumentField
    <2>5. CASE type = "bools"
      BY <2>5, Zenon DEF set_argument, ArgumentField
    <2>6. CASE type = "int32s"
      BY <2>6, Zenon DEF set_argument, ArgumentField
    <2>7. CASE type = "floats"
      BY <2>7, Zenon DEF set_argument, ArgumentField
    <2>8. CASE type = "strings"
      BY <2>8, Zenon DEF set_argument, ArgumentField
    <2> QED
      BY <2>1, <2>2, <2>3, <2>4, <2>5, <2>6, <2>7, <2>8 DEF ServiceTypes
  <1> DEFINE w == [call_id |-> n, field |-> set_argument(type)]
             r == Request("ExecuteServiceRequest", "", w)
  <1>2. w.call_id = n /\ w.field = set_argument(type)
    OBVIOUS
  <1> HIDE DEF w
  <1>3. r.name = "ExecuteServiceRequest" /\ r.kind = "" /\ r.v = w
    BY DEF Request
  <1> HIDE DEF r
  <1>4. Meaning["ExecuteServiceRequest"] = "HomeAssistantServices_execute"
    BY DEF Meaning
  <1>5. Means(r) = [method |-> "HomeAssistantServices_execute",
                    v |-> [call_id |-> n, type |-> type]]
    BY <1>1, <1>2, <1>3, <1>4, Zenon DEF Means
  <1> QED
    BY <1>5, Zenon DEF r, w

(* Only two requests are about modem lines. *)
LEMMA OthersAreNotPins == \A r \in OtherRequests : ~IsPins(r)
  <1>1. ASSUME NEW name, NEW kind, NEW v, name \notin {"Get", "Set"}
        PROVE  ~IsPins(Request(name, kind, v))
    BY <1>1 DEF Request, IsPins
  <1>2. ASSUME NEW m \in SendMethods, NEW v \in {0, 1} PROVE ~IsPins(Requests(m, v))
    <2>1. PICK name, kind : Requests(m, v) = Request(name, kind, v) /\ name \notin {"Get", "Set"}
      BY SendsMeant, Zenon
    <2> QED
      BY <1>1, <2>1
  <1>3. ASSUME NEW m \in Askers PROVE ~IsPins(Request(Registrations[m].sends[1], "", 0))
    <2>1. PICK n : Registrations[m].sends = <<n>> /\ n \notin {"Get", "Set"}
      BY PromiseKept, Zenon DEF Askers
    <2>2. Registrations[m].sends[1] = n
      BY <2>1
    <2> QED
      BY <1>1, <2>1, <2>2, Zenon
  <1>4. ASSUME NEW v PROVE ~IsPins(Request("ExecuteServiceRequest", "", v))
    BY <1>1, Zenon
  <1>5. \A r \in SendRequests : ~IsPins(r)
    BY <1>2 DEF SendRequests
  <1>6. \A r \in RegisterRequests : ~IsPins(r)
    BY <1>3, Zenon DEF RegisterRequests
  <1>7. \A r \in ExecuteRequests : ~IsPins(r)
    BY <1>4, Zenon DEF ExecuteRequests
  <1> QED
    BY <1>5, <1>6, <1>7, Zenon DEF OtherRequests

(* The lines survive their encoding as bits. *)
LEMMA LinesKept ==
  ASSUME NEW l \in Lines
  PROVE  to_bits(l) \in Nat /\ from_bits(to_bits(l)) = l
  <1>0. l = [rts |-> l.rts, dtr |-> l.dtr] /\ l.rts \in BOOLEAN /\ l.dtr \in BOOLEAN
    BY DEF Lines
  <1>1. CASE l.rts = TRUE /\ l.dtr = TRUE
    <2>1. to_bits(l) = 3
      BY <1>1 DEF to_bits
    <2>2. (3 % 2 = 1) = TRUE /\ ((3 \div 2) % 2 = 1) = TRUE
      OBVIOUS
    <2>3. from_bits(3) = [rts |-> TRUE, dtr |-> TRUE]
      BY <2>2, Zenon DEF from_bits
    <2>4. l = [rts |-> TRUE, dtr |-> TRUE]
      BY <1>0, <1>1, Zenon
    <2> QED
      BY <2>1, <2>3, <2>4
  <1>2. CASE l.rts = TRUE /\ l.dtr = FALSE
    <2>1. to_bits(l) = 1
      BY <1>2 DEF to_bits
    <2>2. (1 % 2 = 1) = TRUE /\ ((1 \div 2) % 2 = 1) = FALSE
      OBVIOUS
    <2>3. from_bits(1) = [rts |-> TRUE, dtr |-> FALSE]
      BY <2>2, Zenon DEF from_bits
    <2>4. l = [rts |-> TRUE, dtr |-> FALSE]
      BY <1>0, <1>2, Zenon
    <2> QED
      BY <2>1, <2>3, <2>4
  <1>3. CASE l.rts = FALSE /\ l.dtr = TRUE
    <2>1. to_bits(l) = 2
      BY <1>3 DEF to_bits
    <2>2. (2 % 2 = 1) = FALSE /\ ((2 \div 2) % 2 = 1) = TRUE
      OBVIOUS
    <2>3. from_bits(2) = [rts |-> FALSE, dtr |-> TRUE]
      BY <2>2, Zenon DEF from_bits
    <2>4. l = [rts |-> FALSE, dtr |-> TRUE]
      BY <1>0, <1>3, Zenon
    <2> QED
      BY <2>1, <2>3, <2>4
  <1>4. CASE l.rts = FALSE /\ l.dtr = FALSE
    <2>1. to_bits(l) = 0
      BY <1>4 DEF to_bits
    <2>2. (0 % 2 = 1) = FALSE /\ ((0 \div 2) % 2 = 1) = FALSE
      OBVIOUS
    <2>3. from_bits(0) = [rts |-> FALSE, dtr |-> FALSE]
      BY <2>2, Zenon DEF from_bits
    <2>4. l = [rts |-> FALSE, dtr |-> FALSE]
      BY <1>0, <1>4, Zenon
    <2> QED
      BY <2>1, <2>3, <2>4
  <1>5. to_bits(l) \in Nat
    BY DEF to_bits
  <1> QED
    BY <1>0, <1>1, <1>2, <1>3, <1>4, <1>5, Zenon

-----------------------------------------------------------------------------
(* Sequences. *)
LEMMA SameElements ==
  ASSUME NEW S, NEW s \in Seq(S), NEW t \in Seq(S), Len(s) = Len(t),
         \A i \in 1..Len(s) : s[i] = t[i]
  PROVE  s = t
  <1>1. s = [i \in 1..Len(s) |-> s[i]] /\ t = [i \in 1..Len(s) |-> t[i]]
    OBVIOUS
  <1> QED
    BY <1>1, Zenon

(* What is left of a queue whose first element is taken. *)
LEMMA Taken ==
  ASSUME NEW S, NEW s \in Seq(S), s # <<>>
  PROVE  /\ Head(s) \in S /\ Tail(s) \in Seq(S) /\ 1 \in DOMAIN s /\ s[1] = Head(s)
         /\ Len(Tail(s)) = Len(s) - 1
         /\ \A i \in DOMAIN Tail(s) :
               i \in Nat \ {0} /\ i + 1 \in DOMAIN s /\ Tail(s)[i] = s[i + 1] /\ i + 1 # 1
         /\ \A i \in DOMAIN s : i = 1 \/ (i - 1 \in DOMAIN Tail(s) /\ Tail(s)[i - 1] = s[i])
  OBVIOUS

IsJoin(j, s, t) ==
    /\ Len(j) = Len(s) + Len(t)
    /\ \A i \in 1..Len(s) : j[i] = s[i]
    /\ \A i \in 1..Len(t) : j[Len(s) + i] = t[i]

(* Where the elements of two sequences are in their concatenation. *)
LEMMA JoinedIs ==
  ASSUME NEW S, NEW s \in Seq(S), NEW t \in Seq(S)
  PROVE  s \o t \in Seq(S) /\ IsJoin(s \o t, s, t)
  BY DEF IsJoin

(* Where the elements are when one is appended. *)
LEMMA AppendedIs ==
  ASSUME NEW S, NEW s \in Seq(S), NEW e \in S
  PROVE  /\ Append(s, e) \in Seq(S) /\ Len(Append(s, e)) = Len(s) + 1
         /\ Len(s) \in Nat /\ DOMAIN s = 1..Len(s)
         /\ DOMAIN Append(s, e) = DOMAIN s \cup {Len(s) + 1} /\ Len(s) + 1 \notin DOMAIN s
         /\ Append(s, e)[Len(s) + 1] = e
         /\ \A i \in DOMAIN s : Append(s, e)[i] = s[i]
  OBVIOUS

-----------------------------------------------------------------------------
(* A request is about modem lines or one whose meaning the device records. *)
LEMMA OtherIs ==
  ASSUME NEW r \in Sent
  PROVE  /\ IsPins(r) => r \in PinsRequests
         /\ ~IsPins(r) => r \in OtherRequests /\ Means(r) \in Meant
  BY OthersAreNotPins DEF Sent, Meant, PinsRequests, IsPins

(* The form of the invariant gives the property. *)
LEMMA HeardIs ==
  ASSUME outbox \in Seq(Sent), said \in Seq(Meant), heard \in Seq(Meant),
         Heard(outbox, said, heard)
  PROVE  DeviceHearsCalls
  <1> DEFINE Map(n, at) == [j \in 1..n |-> Means(outbox[at[j]])]
  <1>1. ASSUME NEW n \in Nat, NEW at, Positions(outbox, n, at)
        PROVE  /\ Map(n, at) \in Seq(Meant) /\ Len(Map(n, at)) = n
               /\ \A j \in 1..n : Map(n, at)[j] = Means(outbox[at[j]])
    <2>1. ASSUME NEW j \in 1..n PROVE Means(outbox[at[j]]) \in Meant
      <3>1. at[j] \in DOMAIN outbox /\ ~IsPins(outbox[at[j]])
        BY <1>1, Zenon DEF Positions
      <3>2. outbox[at[j]] \in Sent
        BY <3>1
      <3> QED
        BY <3>1, <3>2, OtherIs
    <2> QED
      BY <2>1
  <1>2. ASSUME NEW n \in Nat, NEW at, Positions(outbox, n, at)
        PROVE  said = heard \o Map(n, at) <=> Says(outbox, n, at, said, heard)
    <2> DEFINE m == Map(n, at)
    <2>1. /\ m \in Seq(Meant) /\ Len(m) = n
          /\ \A j \in 1..n : m[j] = Means(outbox[at[j]])
      BY <1>1, <1>2
    <2> HIDE DEF m, Map
    <2>2. /\ heard \o m \in Seq(Meant) /\ Len(heard \o m) = Len(heard) + n
          /\ \A k \in 1..Len(heard) : (heard \o m)[k] = heard[k]
          /\ \A j \in 1..n : (heard \o m)[Len(heard) + j] = m[j]
      <3>1. heard \o m \in Seq(Meant) /\ IsJoin(heard \o m, heard, m)
        BY <2>1, JoinedIs, Zenon
      <3> QED
        BY <2>1, <3>1 DEF IsJoin
    <2>3. ASSUME said = heard \o m PROVE Says(outbox, n, at, said, heard)
      BY <2>1, <2>2, <2>3 DEF Says
    <2>4. ASSUME Says(outbox, n, at, said, heard) PROVE said = heard \o m
      <3>1. ASSUME NEW k \in 1..(Len(heard) + n) PROVE said[k] = (heard \o m)[k]
        <4>1. CASE k \in 1..Len(heard)
          BY <2>2, <2>4, <4>1 DEF Says
        <4>2. CASE k \notin 1..Len(heard)
          <5>1. PICK j \in 1..n : k = Len(heard) + j
            <6>1. k - Len(heard) \in 1..n /\ k = Len(heard) + (k - Len(heard))
              BY <4>2
            <6> QED
              BY <6>1
          <5> QED
            BY <2>1, <2>2, <2>4, <5>1 DEF Says
        <4> QED
          BY <4>1, <4>2, Zenon
      <3>2. Len(said) = Len(heard \o m)
        BY <2>2, <2>4 DEF Says
      <3> QED
        BY <2>2, <3>1, <3>2, SameElements, Zenon
    <2> QED
      BY <2>3, <2>4 DEF m
  <1> DEFINE n == Len(said) - Len(heard)
  <1>3. PICK k \in Nat : \E at : Positions(outbox, k, at) /\ Says(outbox, k, at, said, heard)
    BY Zenon DEF Heard
  <1>4. n = k
    BY <1>3 DEF Says
  <1>5. PICK at : Positions(outbox, n, at) /\ said = heard \o Map(n, at)
    BY <1>2, <1>3, <1>4, Zenon
  <1> QED
    BY <1>5, Zenon DEF DeviceHearsCalls, Positions

(* A request behind the others: it is said, unless it is about modem lines. *)
LEMMA HeardPins ==
  ASSUME NEW out \in Seq(Sent), NEW r \in Sent, IsPins(r), NEW s, NEW h, Heard(out, s, h)
  PROVE  Heard(Append(out, r), s, h)
  <1> DEFINE more == Append(out, r)
  <1>0. /\ DOMAIN more = DOMAIN out \cup {Len(out) + 1} /\ Len(out) + 1 \notin DOMAIN out
        /\ more[Len(out) + 1] = r /\ \A i \in DOMAIN out : more[i] = out[i]
    BY AppendedIs
  <1> HIDE DEF more
  <1>1. PICK n \in Nat : \E at : Positions(out, n, at) /\ Says(out, n, at, s, h)
    BY DEF Heard
  <1>2. PICK at : Positions(out, n, at) /\ Says(out, n, at, s, h)
    BY <1>1
  <1>3. Positions(more, n, at)
    BY <1>0, <1>2 DEF Positions
  <1>4. Says(more, n, at, s, h)
    BY <1>0, <1>2, Zenon DEF Says, Positions
  <1> QED
    BY <1>3, <1>4, Zenon DEF Heard, more

(* A request that is sent with its meaning stays behind the others. *)
LEMMA HeardOther ==
  ASSUME NEW out \in Seq(Sent), NEW r \in Sent, ~IsPins(r),
         NEW s \in Seq(Meant), NEW h \in Seq(Meant), Heard(out, s, h)
  PROVE  Heard(Append(out, r), Append(s, Means(r)), h)
  <1> DEFINE more == Append(out, r)
             t == Append(s, Means(r))
  <1>0. /\ DOMAIN more = DOMAIN out \cup {Len(out) + 1} /\ DOMAIN out = 1..Len(out)
        /\ Len(out) \in Nat
        /\ more[Len(out) + 1] = r /\ \A i \in DOMAIN out : more[i] = out[i]
    BY AppendedIs
  <1>t. /\ Len(s) \in Nat /\ Len(h) \in Nat /\ Len(t) = Len(s) + 1
        /\ \A i \in 1..Len(s) : t[i] = s[i]
        /\ t[Len(s) + 1] = Means(r)
    BY OtherIs, AppendedIs
  <1> HIDE DEF more, t
  <1>1. PICK n \in Nat : \E at : Positions(out, n, at) /\ Says(out, n, at, s, h)
    BY DEF Heard
  <1>2. PICK at : Positions(out, n, at) /\ Says(out, n, at, s, h)
    BY <1>1
  <1> DEFINE at2 == [j \in 1..(n + 1) |-> IF j = n + 1 THEN Len(out) + 1 ELSE at[j]]
  <1>a. /\ at \in [1..n -> DOMAIN out] /\ at2[n + 1] = Len(out) + 1
        /\ \A j \in 1..n : at2[j] = at[j] /\ at[j] \in 1..Len(out)
        /\ at2 \in [1..(n + 1) -> DOMAIN more]
    BY <1>0, <1>2 DEF Positions
  <1>b. \A j \in 1..(n + 1) : j \in 1..n \/ j = n + 1
    OBVIOUS
  <1> HIDE DEF at2
  <1>3. \A j, k \in 1..(n + 1) : j < k => at2[j] < at2[k]
    <2> TAKE j, k \in 1..(n + 1)
    <2>1. CASE k \in 1..n
      <3>1. j < k => j \in 1..n
        BY <2>1
      <3> QED
        BY <1>2, <1>a, <2>1, <3>1 DEF Positions
    <2>2. CASE k = n + 1
      <3>1. j < k => j \in 1..n
        BY <2>2
      <3> QED
        BY <1>0, <1>a, <2>2, <3>1
    <2> QED
      BY <1>b, <2>1, <2>2
  <1>4. \A k \in DOMAIN more : ~IsPins(more[k]) <=> \E j \in 1..(n + 1) : at2[j] = k
    <2> TAKE k \in DOMAIN more
    <2>1. CASE k \in DOMAIN out
      <3>1. ~IsPins(more[k]) <=> \E j \in 1..n : at[j] = k
        BY <1>0, <1>2, <2>1, Zenon DEF Positions
      <3>2. at2[n + 1] # k
        BY <1>0, <1>a, <2>1
      <3>3. \A j \in 1..n : j \in 1..(n + 1)
        OBVIOUS
      <3> QED
        BY <1>a, <1>b, <3>1, <3>2, <3>3, Zenon
    <2>2. CASE k = Len(out) + 1
      <3>1. n + 1 \in 1..(n + 1)
        OBVIOUS
      <3> QED
        BY <1>0, <1>a, <2>2, <3>1, Zenon
    <2> QED
      BY <1>0, <2>1, <2>2
  <1>5. Positions(more, n + 1, at2)
    BY <1>3, <1>4, <1>a, Zenon DEF Positions
  <1>6. Says(more, n + 1, at2, t, h)
    <2>1. Len(t) = Len(h) + (n + 1) /\ \A k \in 1..Len(h) : t[k] = h[k]
      BY <1>2, <1>t DEF Says
    <2>2. ASSUME NEW j \in 1..(n + 1) PROVE t[Len(h) + j] = Means(more[at2[j]])
      <3>1. CASE j \in 1..n
        <4>1. Len(h) + j \in 1..Len(s) /\ s[Len(h) + j] = Means(out[at[j]])
          BY <1>2, <1>t, <3>1 DEF Says
        <4> QED
          BY <1>0, <1>a, <1>t, <3>1, <4>1
      <3>2. CASE j = n + 1
        <4>1. Len(h) + j = Len(s) + 1
          BY <1>2, <1>t, <3>2 DEF Says
        <4> QED
          BY <1>0, <1>a, <1>t, <3>2, <4>1
      <3> QED
        BY <1>b, <3>1, <3>2
    <2> QED
      BY <2>1, <2>2, Zenon DEF Says
  <1>7. n + 1 \in Nat
    OBVIOUS
  <1> QED
    BY <1>5, <1>6, <1>7, Zenon DEF Heard, more, t

(* The device takes the first request. *)
LEMMA TakePins ==
  ASSUME NEW out \in Seq(Sent), out # <<>>, IsPins(Head(out)), NEW s, NEW h, Heard(out, s, h)
  PROVE  Heard(Tail(out), s, h)
  <1> DEFINE rest == Tail(out)
  <1>0. /\ 1 \in DOMAIN out /\ out[1] = Head(out) /\ DOMAIN out \subseteq Int
        /\ \A i \in DOMAIN rest : i \in Nat /\ i + 1 \in DOMAIN out /\ rest[i] = out[i + 1]
        /\ \A i \in DOMAIN out : i = 1 \/ (i - 1 \in DOMAIN rest /\ rest[i - 1] = out[i])
    BY Taken
  <1> HIDE DEF rest
  <1>1. PICK n \in Nat : \E at : Positions(out, n, at) /\ Says(out, n, at, s, h)
    BY DEF Heard
  <1>2. PICK at : Positions(out, n, at) /\ Says(out, n, at, s, h)
    BY <1>1
  <1> DEFINE at2 == [j \in 1..n |-> at[j] - 1]
  <1>3. ASSUME NEW j \in 1..n
        PROVE  /\ at[j] \in DOMAIN out /\ at[j] \in Int /\ at2[j] = at[j] - 1
               /\ at2[j] \in DOMAIN rest /\ rest[at2[j]] = out[at[j]]
    <2>1. at[j] \in DOMAIN out /\ at[j] # 1 /\ at[j] \in Int
      BY <1>0, <1>2 DEF Positions
    <2> QED
      BY <1>0, <2>1
  <1>4. at2 \in [1..n -> DOMAIN rest]
    BY <1>3
  <1> HIDE DEF at2
  <1>5. \A j, k \in 1..n : j < k => at2[j] < at2[k]
    BY <1>2, <1>3 DEF Positions
  <1>6. ASSUME NEW k \in DOMAIN rest
        PROVE  ~IsPins(rest[k]) <=> \E j \in 1..n : at2[j] = k
    <2>1. k \in Nat /\ k + 1 \in DOMAIN out /\ rest[k] = out[k + 1]
      BY <1>0
    <2>2. ~IsPins(rest[k]) <=> \E j \in 1..n : at[j] = k + 1
      BY <1>2, <2>1 DEF Positions
    <2>3. \A j \in 1..n : at[j] = k + 1 <=> at2[j] = k
      BY <1>3, <2>1
    <2> QED
      BY <2>2, <2>3
  <1>7. Positions(rest, n, at2)
    BY <1>4, <1>5, <1>6, Zenon DEF Positions
  <1>8. Says(rest, n, at2, s, h)
    BY <1>2, <1>3 DEF Says
  <1> QED
    BY <1>7, <1>8, Zenon DEF Heard, rest

(* The device hears the first request under way next. *)
LEMMA TakeOther ==
  ASSUME NEW out \in Seq(Sent), out # <<>>, ~IsPins(Head(out)),
         NEW s \in Seq(Meant), NEW h \in Seq(Meant), Heard(out, s, h)
  PROVE  Heard(Tail(out), s, Append(h, Means(Head(out))))
  <1> DEFINE rest == Tail(out)
             g == Append(h, Means(Head(out)))
  <1>0. /\ 1 \in DOMAIN out /\ out[1] = Head(out) /\ DOMAIN out \subseteq Nat \ {0}
        /\ \A i \in DOMAIN rest : i \in Nat \ {0} /\ i + 1 \in DOMAIN out /\ rest[i] = out[i + 1]
        /\ \A i \in DOMAIN out : i = 1 \/ (i - 1 \in DOMAIN rest /\ rest[i - 1] = out[i])
        /\ Head(out) \in Sent
    BY Taken
  <1>t. /\ Len(s) \in Nat /\ Len(h) \in Nat /\ Len(g) = Len(h) + 1
        /\ \A i \in 1..Len(h) : g[i] = h[i]
        /\ g[Len(h) + 1] = Means(Head(out))
    BY <1>0, OtherIs, AppendedIs
  <1> HIDE DEF rest, g
  <1>1. PICK n \in Nat : \E at : Positions(out, n, at) /\ Says(out, n, at, s, h)
    BY DEF Heard
  <1>2. PICK at : Positions(out, n, at) /\ Says(out, n, at, s, h)
    BY <1>1
  <1>n. \A j \in 1..n : at[j] \in DOMAIN out /\ at[j] \in Nat \ {0}
    BY <1>0, <1>2 DEF Positions
  <1>f. n # 0 /\ at[1] = 1
    <2>1. PICK j \in 1..n : at[j] = 1
      BY <1>0, <1>2 DEF Positions
    <2>2. 1 \in 1..n /\ (j # 1 => 1 < j)
      BY <2>1
    <2>3. j # 1 => at[1] < 1
      BY <1>2, <2>1, <2>2 DEF Positions
    <2>4. at[1] \in Nat \ {0}
      BY <1>n, <2>2
    <2> QED
      BY <2>1, <2>2, <2>3, <2>4
  <1> DEFINE at2 == [j \in 1..(n - 1) |-> at[j + 1] - 1]
  <1>3. ASSUME NEW j \in 1..(n - 1)
        PROVE  /\ j + 1 \in 1..n /\ at[j + 1] \in Nat /\ at2[j] = at[j + 1] - 1
               /\ at2[j] \in DOMAIN rest /\ rest[at2[j]] = out[at[j + 1]]
    <2>1. j + 1 \in 1..n /\ 1 \in 1..n /\ 1 < j + 1
      BY <1>f
    <2>2. at[1] < at[j + 1]
      BY <1>2, <2>1 DEF Positions
    <2>3. at[j + 1] \in DOMAIN out /\ at[j + 1] # 1 /\ at[j + 1] \in Nat
      BY <1>n, <1>f, <2>1, <2>2
    <2> QED
      BY <1>0, <2>1, <2>3
  <1>4. at2 \in [1..(n - 1) -> DOMAIN rest]
    BY <1>3
  <1> HIDE DEF at2
  <1>5. ASSUME NEW j \in 1..(n - 1), NEW k \in 1..(n - 1), j < k PROVE at2[j] < at2[k]
    <2>1. j + 1 \in 1..n /\ k + 1 \in 1..n /\ j + 1 < k + 1
      BY <1>3, <1>5
    <2>2. at[j + 1] < at[k + 1]
      BY <1>2, <2>1 DEF Positions
    <2> QED
      BY <1>3, <2>2
  <1>6. ASSUME NEW k \in DOMAIN rest
        PROVE  ~IsPins(rest[k]) <=> \E j \in 1..(n - 1) : at2[j] = k
    <2>1. k \in Nat \ {0} /\ k + 1 \in DOMAIN out /\ rest[k] = out[k + 1]
      BY <1>0
    <2>2. ~IsPins(rest[k]) <=> \E j \in 1..n : at[j] = k + 1
      BY <1>2, <2>1 DEF Positions
    <2>3. ASSUME NEW j \in 1..n, at[j] = k + 1 PROVE \E i \in 1..(n - 1) : at2[i] = k
      <3>1. j # 1
        BY <1>f, <2>1, <2>3
      <3>2. j - 1 \in 1..(n - 1) /\ (j - 1) + 1 = j
        BY <3>1
      <3>3. at2[j - 1] = at[(j - 1) + 1] - 1
        BY <1>3, <3>2
      <3>4. at2[j - 1] = k
        BY <2>1, <2>3, <3>2, <3>3, SMTT(40)
      <3> QED
        BY <3>2, <3>4
    <2>4. ASSUME NEW j \in 1..(n - 1), at2[j] = k PROVE \E i \in 1..n : at[i] = k + 1
      <3>1. j + 1 \in 1..n /\ at[j + 1] \in Nat /\ at2[j] = at[j + 1] - 1
        BY <1>3
      <3>2. at[j + 1] = k + 1
        BY <2>1, <2>4, <3>1
      <3> QED
        BY <3>1, <3>2, Zenon
    <2> QED
      BY <2>2, <2>3, <2>4
  <1>7. Positions(rest, n - 1, at2)
    BY <1>4, <1>5, <1>6, Zenon DEF Positions
  <1>8. Says(rest, n - 1, at2, s, g)
    <2>1. Len(s) = Len(g) + (n - 1)
      BY <1>2, <1>t DEF Says
    <2>2. ASSUME NEW k \in 1..Len(g) PROVE s[k] = g[k]
      <3>1. CASE k \in 1..Len(h)
        BY <1>2, <1>t, <3>1 DEF Says
      <3>2. CASE k = Len(h) + 1
        <4>1. s[Len(h) + 1] = Means(out[at[1]])
          BY <1>2, <1>f DEF Says
        <4> QED
          BY <1>0, <1>f, <1>t, <3>2, <4>1
      <3> QED
        BY <1>t, <3>1, <3>2
    <2>3. ASSUME NEW j \in 1..(n - 1) PROVE s[Len(g) + j] = Means(rest[at2[j]])
      <3>1. Len(g) + j = Len(h) + (j + 1) /\ j + 1 \in 1..n
        BY <1>t, <1>3
      <3>2. s[Len(h) + (j + 1)] = Means(out[at[j + 1]])
        BY <1>2, <3>1 DEF Says
      <3> QED
        BY <1>3, <3>1, <3>2
    <2> QED
      BY <2>1, <2>2, <2>3, Zenon DEF Says
  <1>9. n - 1 \in Nat
    BY <1>f
  <1> QED
    BY <1>7, <1>8, <1>9, Zenon DEF Heard, rest, g
-----------------------------------------------------------------------------
(* The lines that the device will have: a request behind position p does not   *)
(* change what is before p.                                                    *)
LEMMA LinesAppended ==
  ASSUME NEW out \in Seq(Sent), NEW r \in Sent, NEW p \in 1..(Len(out) + 1),
         NEW i, NEW b, NEW l, LinesBefore(out, p, i, b, l)
  PROVE  LinesBefore(Append(out, r), p, i, b, l)
  <1> DEFINE more == Append(out, r)
  <1>0. /\ DOMAIN more = DOMAIN out \cup {Len(out) + 1} /\ DOMAIN out = 1..Len(out)
        /\ Len(out) \in Nat
        /\ \A k \in DOMAIN out : more[k] = out[k]
    BY AppendedIs
  <1> HIDE DEF more
  <1>1. \A q \in DOMAIN more : q < p => q \in DOMAIN out
    BY <1>0
  <1>2. ASSUME NEW q \in DOMAIN more, LastSet(more, q, p, i) PROVE from_bits(more[q].bits) = l
    <2>1. q \in DOMAIN out /\ q < p /\ IsSet(more[q], i)
      BY <1>1, <1>2 DEF LastSet
    <2>2. \A k \in (q + 1)..(p - 1) : k \in DOMAIN out /\ ~IsSet(more[k], i)
      BY <1>0, <1>2, <2>1 DEF LastSet
    <2>3. LastSet(out, q, p, i)
      BY <1>0, <2>1, <2>2, Zenon DEF LastSet
    <2> QED
      BY <1>0, <2>1, <2>3, Zenon DEF LinesBefore
  <1>3. (\A q \in DOMAIN more : q < p => ~IsSet(more[q], i)) => from_bits(b) = l
    <2> SUFFICES ASSUME \A q \in DOMAIN more : q < p => ~IsSet(more[q], i)
                 PROVE  from_bits(b) = l
      OBVIOUS
    <2>1. \A q \in DOMAIN out : q < p => ~IsSet(out[q], i)
      BY <1>0, Zenon
    <2> QED
      BY <2>1, Zenon DEF LinesBefore
  <1> QED
    BY <1>2, <1>3, Zenon DEF LinesBefore, more

(* Nor does a request that sets nothing of the instance. *)
LEMMA LinesPast ==
  ASSUME NEW out \in Seq(Sent), NEW r \in Sent, NEW i, NEW b, NEW l,
         LinesBefore(out, Len(out) + 1, i, b, l), ~IsSet(r, i)
  PROVE  LinesBefore(Append(out, r), Len(Append(out, r)) + 1, i, b, l)
  <1> DEFINE more == Append(out, r)
             e == Len(out) + 1
  <1>0. /\ DOMAIN more = DOMAIN out \cup {e} /\ DOMAIN out = 1..Len(out)
        /\ Len(out) \in Nat /\ Len(more) = e /\ more[e] = r
        /\ \A k \in DOMAIN out : more[k] = out[k]
    BY AppendedIs
  <1> HIDE DEF more
  <1>1. ASSUME NEW q \in DOMAIN more, LastSet(more, q, e + 1, i) PROVE from_bits(more[q].bits) = l
    <2>1. q \in DOMAIN out /\ IsSet(out[q], i) /\ q < e
      BY <1>0, <1>1 DEF LastSet
    <2>2. \A k \in (q + 1)..(e - 1) : k \in DOMAIN out /\ k \in (q + 1)..((e + 1) - 1)
      BY <1>0, <2>1
    <2>3. LastSet(out, q, e, i)
      BY <1>0, <1>1, <2>1, <2>2 DEF LastSet
    <2> QED
      BY <1>0, <2>1, <2>3, Zenon DEF LinesBefore
  <1>2. (\A q \in DOMAIN more : q < e + 1 => ~IsSet(more[q], i)) => from_bits(b) = l
    <2> SUFFICES ASSUME \A q \in DOMAIN more : q < e + 1 => ~IsSet(more[q], i)
                 PROVE  from_bits(b) = l
      OBVIOUS
    <2>1. \A q \in DOMAIN out : q < e + 1
      BY <1>0
    <2>2. \A q \in DOMAIN out : q < e => ~IsSet(out[q], i)
      BY <1>0, <2>1, Zenon
    <2> QED
      BY <2>2, Zenon DEF LinesBefore
  <1>3. LinesBefore(more, e + 1, i, b, l)
    BY <1>1, <1>2, Zenon DEF LinesBefore
  <1> QED
    BY <1>0, <1>3 DEF more

(* A request that sets them: they are what it sets. *)
LEMMA LinesSet ==
  ASSUME NEW out \in Seq(Sent), NEW r \in Sent, NEW i, NEW b, IsSet(r, i)
  PROVE  LinesBefore(Append(out, r), Len(Append(out, r)) + 1, i, b, from_bits(r.bits))
  <1> DEFINE more == Append(out, r)
             e == Len(out) + 1
  <1>0. /\ DOMAIN more = DOMAIN out \cup {e} /\ DOMAIN out = 1..Len(out)
        /\ Len(out) \in Nat /\ Len(more) = e /\ more[e] = r
    BY AppendedIs
  <1> HIDE DEF more
  <1>1. ASSUME NEW q \in DOMAIN more, LastSet(more, q, e + 1, i)
        PROVE  from_bits(more[q].bits) = from_bits(r.bits)
    <2>1. q = e
      <3>1. q \in DOMAIN out => e \in (q + 1)..((e + 1) - 1)
        BY <1>0
      <3>2. q \in DOMAIN out => ~IsSet(more[e], i)
        BY <1>1, <3>1 DEF LastSet
      <3> QED
        BY <1>0, <3>2
    <2> QED
      BY <1>0, <2>1
  <1>2. ~(\A q \in DOMAIN more : q < e + 1 => ~IsSet(more[q], i))
    BY <1>0
  <1>3. LinesBefore(more, e + 1, i, b, from_bits(r.bits))
    BY <1>1, <1>2, Zenon DEF LinesBefore
  <1> QED
    BY <1>0, <1>3 DEF more

(* The device takes the first request, and sets its lines if that says so. *)
LEMMA LinesTaken ==
  ASSUME NEW out \in Seq(Sent), out # <<>>, NEW p \in Nat, p > 1, p <= Len(out) + 1,
         NEW i, NEW b, NEW l, LinesBefore(out, p, i, b, l)
  PROVE  LinesBefore(Tail(out), p - 1, i, IF IsSet(Head(out), i) THEN Head(out).bits ELSE b, l)
  <1> DEFINE rest == Tail(out)
             c == IF IsSet(Head(out), i) THEN Head(out).bits ELSE b
  <1>0. /\ 1 \in DOMAIN out /\ out[1] = Head(out) /\ DOMAIN out = 1..Len(out)
        /\ Len(out) \in Nat /\ DOMAIN rest = 1..(Len(out) - 1)
        /\ \A k \in DOMAIN rest : k + 1 \in DOMAIN out /\ rest[k] = out[k + 1]
    BY Taken
  <1> HIDE DEF rest
  <1>1. ASSUME NEW q \in DOMAIN rest, LastSet(rest, q, p - 1, i) PROVE from_bits(rest[q].bits) = l
    <2>1. q + 1 \in DOMAIN out /\ q + 1 < p /\ IsSet(out[q + 1], i) /\ q \in Nat
      BY <1>0, <1>1 DEF LastSet
    <2>2. ASSUME NEW k \in ((q + 1) + 1)..(p - 1) PROVE ~IsSet(out[k], i)
      <3>1. k - 1 \in (q + 1)..((p - 1) - 1) /\ k - 1 \in DOMAIN rest /\ (k - 1) + 1 = k
        BY <1>0, <2>1
      <3>2. ~IsSet(rest[k - 1], i)
        BY <1>1, <3>1 DEF LastSet
      <3> QED
        BY <1>0, <3>1, <3>2
    <2>3. LastSet(out, q + 1, p, i)
      BY <2>1, <2>2, Zenon DEF LastSet
    <2> QED
      BY <1>0, <2>1, <2>3, Zenon DEF LinesBefore
  <1>2. ASSUME \A q \in DOMAIN rest : q < p - 1 => ~IsSet(rest[q], i)
        PROVE  from_bits(c) = l
    <2>1. ASSUME NEW k \in 2..(p - 1) PROVE ~IsSet(out[k], i)
      <3>1. k - 1 \in DOMAIN rest /\ k - 1 < p - 1 /\ (k - 1) + 1 = k
        BY <1>0
      <3>2. rest[k - 1] = out[k]
        BY <1>0, <3>1
      <3> QED
        BY <1>2, <3>1, <3>2, Zenon
    <2>2. CASE IsSet(Head(out), i)
      <3>1. LastSet(out, 1, p, i)
        BY <1>0, <2>1, <2>2 DEF LastSet
      <3> QED
        BY <1>0, <2>2, <3>1 DEF LinesBefore
    <2>3. CASE ~IsSet(Head(out), i)
      <3>1. ASSUME NEW q \in DOMAIN out, q < p PROVE ~IsSet(out[q], i)
        <4>1. q = 1 \/ q \in 2..(p - 1)
          BY <1>0, <3>1
        <4> QED
          BY <1>0, <2>1, <2>3, <4>1
      <3>2. from_bits(b) = l
        BY <3>1, Zenon DEF LinesBefore
      <3> QED
        BY <2>3, <3>2
    <2> QED
      BY <2>2, <2>3
  <1> HIDE DEF c
  <1>3. LinesBefore(rest, p - 1, i, c, l)
    BY <1>1, <1>2, Zenon DEF LinesBefore
  <1> QED
    BY <1>3 DEF rest, c
-----------------------------------------------------------------------------
(* The next answer about an instance.  A request behind those that will bring  *)
(* it does not change it.                                                      *)
LEMMA AnswerAsked ==
  ASSUME NEW box, NEW out \in Seq(Sent), NEW r \in Sent, NEW i, NEW b, NEW l,
         NextAnswer(box, out, i, b, l)
  PROVE  NextAnswer(box, Append(out, r), i, b, l)
  <1> DEFINE more == Append(out, r)
  <1>0. /\ DOMAIN more = DOMAIN out \cup {Len(out) + 1} /\ DOMAIN out = 1..Len(out)
        /\ Len(out) \in Nat
        /\ \A k \in DOMAIN out : more[k] = out[k]
    BY AppendedIs
  <1>1. \A p \in DOMAIN out : LinesBefore(out, p, i, b, l) => LinesBefore(more, p, i, b, l)
    BY <1>0, LinesAppended
  <1> HIDE DEF more
  <1>2. \/ \E p \in DOMAIN box : IsAnswer(box[p], i)
        \/ \E p \in DOMAIN more : IsGet(more[p], i)
    BY <1>0, Zenon DEF NextAnswer
  <1>3. ASSUME \A p \in DOMAIN box : ~IsAnswer(box[p], i),
               NEW p \in DOMAIN more, FirstGet(more, p, i)
        PROVE  LinesBefore(more, p, i, b, l)
    <2>1. PICK g \in DOMAIN out : IsGet(out[g], i)
      BY <1>3, Zenon DEF NextAnswer
    <2>2. p \in DOMAIN out
      <3>1. p = Len(out) + 1 => g \in 1..(p - 1)
        BY <1>0, <2>1
      <3> QED
        BY <1>0, <1>3, <2>1, <3>1, Zenon DEF FirstGet
    <2>3. \A q \in 1..(p - 1) : q \in DOMAIN out
      BY <1>0, <2>2
    <2>4. FirstGet(out, p, i)
      BY <1>0, <1>3, <2>2, <2>3, Zenon DEF FirstGet
    <2>5. LinesBefore(out, p, i, b, l)
      BY <1>3, <2>2, <2>4, Zenon DEF NextAnswer
    <2> QED
      BY <1>1, <2>2, <2>5, Zenon
  <1> QED
    BY <1>2, <1>3, Zenon DEF NextAnswer, more

(* The first that asks is answered with what was set before it. *)
LEMMA AnswerAlone ==
  ASSUME NEW box, NEW out \in Seq(Sent), NEW r \in Sent, NEW i, NEW b, NEW l,
         IsGet(r, i), LinesBefore(out, Len(out) + 1, i, b, l),
         \A p \in DOMAIN box : ~IsAnswer(box[p], i),
         \A p \in DOMAIN out : ~IsGet(out[p], i)
  PROVE  NextAnswer(box, Append(out, r), i, b, l)
  <1> DEFINE more == Append(out, r)
             e == Len(out) + 1
  <1>0. /\ DOMAIN more = DOMAIN out \cup {e} /\ DOMAIN out = 1..Len(out)
        /\ Len(out) \in Nat /\ more[e] = r
        /\ \A k \in DOMAIN out : more[k] = out[k]
    BY AppendedIs
  <1>1. LinesBefore(more, e, i, b, l)
    BY <1>0, LinesAppended
  <1> HIDE DEF more, e
  <1>2. \A p \in DOMAIN more : FirstGet(more, p, i) => p = e
    BY <1>0, Zenon DEF FirstGet
  <1>3. \E p \in DOMAIN more : IsGet(more[p], i)
    BY <1>0, Zenon
  <1> QED
    BY <1>1, <1>2, <1>3, Zenon DEF NextAnswer, FirstAnswer, more

(* The device takes a request that is not for an answer about the instance. *)
LEMMA AnswerTaken ==
  ASSUME NEW box, NEW out \in Seq(Sent), out # <<>>, NEW i, NEW b, NEW l,
         NextAnswer(box, out, i, b, l), ~IsGet(Head(out), i)
  PROVE  NextAnswer(box, Tail(out), i, IF IsSet(Head(out), i) THEN Head(out).bits ELSE b, l)
  <1> DEFINE rest == Tail(out)
             c == IF IsSet(Head(out), i) THEN Head(out).bits ELSE b
  <1>0. /\ 1 \in DOMAIN out /\ out[1] = Head(out) /\ DOMAIN out = 1..Len(out)
        /\ Len(out) \in Nat /\ DOMAIN rest = 1..(Len(out) - 1)
        /\ \A k \in DOMAIN rest : k + 1 \in DOMAIN out /\ rest[k] = out[k + 1]
        /\ \A k \in DOMAIN out : k = 1 \/ (k - 1 \in DOMAIN rest /\ rest[k - 1] = out[k])
    BY Taken
  <1>1. ASSUME NEW p \in DOMAIN rest, LinesBefore(out, p + 1, i, b, l)
        PROVE  LinesBefore(rest, p, i, c, l)
    <2>1. p + 1 \in Nat /\ p + 1 > 1 /\ p + 1 <= Len(out) + 1 /\ (p + 1) - 1 = p
      BY <1>0
    <2>2. LinesBefore(rest, (p + 1) - 1, i, c, l)
      BY <1>1, <2>1, LinesTaken, Zenon
    <2> QED
      BY <2>1, <2>2
  <1> HIDE DEF rest, c
  <1>2. \/ \E p \in DOMAIN box : IsAnswer(box[p], i)
        \/ \E p \in DOMAIN rest : IsGet(rest[p], i)
    BY <1>0, Zenon DEF NextAnswer
  <1>3. ASSUME \A p \in DOMAIN box : ~IsAnswer(box[p], i),
               NEW p \in DOMAIN rest, FirstGet(rest, p, i)
        PROVE  LinesBefore(rest, p, i, c, l)
    <2>1. p + 1 \in DOMAIN out /\ IsGet(out[p + 1], i)
      BY <1>0, <1>3 DEF FirstGet
    <2>2. ASSUME NEW q \in 1..((p + 1) - 1) PROVE ~IsGet(out[q], i)
      <3>1. q = 1 \/ (q - 1 \in 1..(p - 1) /\ q - 1 \in DOMAIN rest /\ rest[q - 1] = out[q])
        <4>1. q \in DOMAIN out /\ (q = 1 \/ q - 1 \in 1..(p - 1))
          BY <1>0
        <4> QED
          BY <1>0, <4>1, Zenon
      <3> QED
        BY <1>0, <1>3, <3>1, Zenon DEF FirstGet
    <2>3. FirstGet(out, p + 1, i)
      BY <2>1, <2>2, Zenon DEF FirstGet
    <2>4. LinesBefore(out, p + 1, i, b, l)
      BY <1>3, <2>1, <2>3, Zenon DEF NextAnswer
    <2> QED
      BY <1>1, <2>4
  <1> QED
    BY <1>2, <1>3, Zenon DEF NextAnswer, rest, c

(* It takes the one that is, and answers with its lines. *)
LEMMA AnswerGiven ==
  ASSUME NEW box \in Seq(Messages), NEW out \in Seq(Sent), out # <<>>, NEW i, NEW b, NEW l,
         NextAnswer(box, out, i, b, l), IsGet(Head(out), i),
         NEW m \in Messages, IsAnswer(m, i), m.bits = b
  PROVE  NextAnswer(Append(box, m), Tail(out), i, b, l)
  <1> DEFINE more == Append(box, m)
             e == Len(box) + 1
  <1>0. /\ DOMAIN more = DOMAIN box \cup {e} /\ DOMAIN box = 1..Len(box)
        /\ Len(box) \in Nat /\ more[e] = m /\ e \in Nat
        /\ \A k \in DOMAIN box : more[k] = box[k]
    BY AppendedIs
  <1>1. 1 \in DOMAIN out /\ out[1] = Head(out) /\ DOMAIN out = 1..Len(out)
    BY Taken
  <1> HIDE DEF more
  <1>2. ASSUME NEW p \in DOMAIN more, FirstAnswer(more, p, i) PROVE from_bits(more[p].bits) = l
    <2>1. CASE \E k \in DOMAIN box : IsAnswer(box[k], i)
      <3>1. PICK k \in DOMAIN box : IsAnswer(box[k], i)
        BY <2>1
      <3>2. p = e => k \in 1..(p - 1)
        BY <1>0
      <3>3. p \in DOMAIN box
        BY <1>0, <1>2, <3>1, <3>2, Zenon DEF FirstAnswer
      <3>4. \A q \in 1..(p - 1) : q \in DOMAIN box
        BY <1>0, <3>3
      <3>5. FirstAnswer(box, p, i)
        BY <1>0, <1>2, <3>3, <3>4, Zenon DEF FirstAnswer
      <3> QED
        BY <1>0, <3>3, <3>5, Zenon DEF NextAnswer
    <2>2. CASE \A k \in DOMAIN box : ~IsAnswer(box[k], i)
      <3>1. p = e
        BY <1>0, <1>2, <2>2, Zenon DEF FirstAnswer
      <3>2. FirstGet(out, 1, i)
        BY <1>1 DEF FirstGet
      <3>3. LinesBefore(out, 1, i, b, l)
        BY <1>1, <2>2, <3>2, Zenon DEF NextAnswer
      <3>4. \A q \in DOMAIN out : q < 1 => ~IsSet(out[q], i)
        BY <1>1
      <3>5. from_bits(b) = l
        BY <3>3, <3>4, Zenon DEF LinesBefore
      <3> QED
        BY <1>0, <3>1, <3>5
    <2> QED
      BY <2>1, <2>2
  <1>3. \E p \in DOMAIN more : IsAnswer(more[p], i)
    BY <1>0, Zenon
  <1> QED
    BY <1>2, <1>3, Zenon DEF NextAnswer, more

(* A message behind the others that is no answer about the instance. *)
LEMMA AnswerBehind ==
  ASSUME NEW box \in Seq(Messages), NEW m \in Messages, NEW out, NEW i, NEW b, NEW l,
         NextAnswer(box, out, i, b, l), ~IsAnswer(m, i)
  PROVE  NextAnswer(Append(box, m), out, i, b, l)
  <1> DEFINE more == Append(box, m)
             e == Len(box) + 1
  <1>0. /\ DOMAIN more = DOMAIN box \cup {e} /\ DOMAIN box = 1..Len(box)
        /\ Len(box) \in Nat /\ more[e] = m
        /\ \A k \in DOMAIN box : more[k] = box[k]
    BY AppendedIs
  <1> HIDE DEF more, e
  <1>1. ASSUME NEW p \in DOMAIN more, FirstAnswer(more, p, i) PROVE from_bits(more[p].bits) = l
    <2>1. p \in DOMAIN box
      BY <1>0, <1>1, Zenon DEF FirstAnswer
    <2>2. \A q \in 1..(p - 1) : q \in DOMAIN box
      BY <1>0, <2>1
    <2>3. FirstAnswer(box, p, i)
      BY <1>0, <1>1, <2>1, <2>2, Zenon DEF FirstAnswer
    <2> QED
      BY <1>0, <2>1, <2>3, Zenon DEF NextAnswer
  <1>2. \A p \in DOMAIN box : IsAnswer(box[p], i) => p \in DOMAIN more /\ IsAnswer(more[p], i)
    BY <1>0, Zenon
  <1>3. (\A p \in DOMAIN more : ~IsAnswer(more[p], i)) => \A p \in DOMAIN box : ~IsAnswer(box[p], i)
    BY <1>2, Zenon
  <1>4. \/ \E p \in DOMAIN more : IsAnswer(more[p], i)
        \/ \E p \in DOMAIN out : IsGet(out[p], i)
    BY <1>2, Zenon DEF NextAnswer
  <1> QED
    BY <1>1, <1>3, <1>4, Zenon DEF NextAnswer, more

(* The first message is handled: it is the next answer, or that is behind it. *)
LEMMA AnswerHandled ==
  ASSUME NEW box \in Seq(Messages), box # <<>>, NEW out, NEW i, NEW b, NEW l,
         NextAnswer(box, out, i, b, l)
  PROVE  /\ IsAnswer(Head(box), i) => from_bits(Head(box).bits) = l
         /\ ~IsAnswer(Head(box), i) => NextAnswer(Tail(box), out, i, b, l)
  <1> DEFINE rest == Tail(box)
  <1>0. /\ 1 \in DOMAIN box /\ box[1] = Head(box) /\ DOMAIN box = 1..Len(box)
        /\ Len(box) \in Nat /\ DOMAIN rest = 1..(Len(box) - 1)
        /\ \A k \in DOMAIN rest : k + 1 \in DOMAIN box /\ rest[k] = box[k + 1]
        /\ \A k \in DOMAIN box : k = 1 \/ (k - 1 \in DOMAIN rest /\ rest[k - 1] = box[k])
    BY Taken
  <1> HIDE DEF rest
  <1>1. ASSUME IsAnswer(Head(box), i) PROVE from_bits(Head(box).bits) = l
    <2>1. FirstAnswer(box, 1, i)
      BY <1>0, <1>1 DEF FirstAnswer
    <2>2. from_bits(box[1].bits) = l
      BY <1>0, <2>1, Zenon DEF NextAnswer
    <2> QED
      BY <1>0, <2>2
  <1>2. ASSUME ~IsAnswer(Head(box), i) PROVE NextAnswer(rest, out, i, b, l)
    <2>1. ASSUME NEW p \in DOMAIN rest, FirstAnswer(rest, p, i) PROVE from_bits(rest[p].bits) = l
      <3>1. p + 1 \in DOMAIN box /\ rest[p] = box[p + 1]
        BY <1>0
      <3>2. ASSUME NEW q \in 1..((p + 1) - 1) PROVE ~IsAnswer(box[q], i)
        <4>1. q = 1 \/ (q - 1 \in 1..(p - 1) /\ q - 1 \in DOMAIN rest /\ rest[q - 1] = box[q])
          <5>1. q \in DOMAIN box /\ (q = 1 \/ q - 1 \in 1..(p - 1))
            BY <1>0
          <5> QED
            BY <1>0, <5>1, Zenon
        <4> QED
          BY <1>0, <1>2, <2>1, <4>1, Zenon DEF FirstAnswer
      <3>3. FirstAnswer(box, p + 1, i)
        BY <2>1, <3>1, <3>2, Zenon DEF FirstAnswer
      <3> QED
        BY <3>1, <3>3, Zenon DEF NextAnswer
    <2>2. (\E p \in DOMAIN box : IsAnswer(box[p], i)) <=> \E p \in DOMAIN rest : IsAnswer(rest[p], i)
      BY <1>0, <1>2, Zenon
    <2> QED
      BY <2>1, <2>2, Zenon DEF NextAnswer
  <1> QED
    BY <1>1, <1>2 DEF rest
-----------------------------------------------------------------------------
(* At first nothing is held, said or heard. *)
LEMMA SubInitInd == SubInit => SubInv
  <1> SUFFICES ASSUME SubInit PROVE SubInv
    OBVIOUS
  <1>i. from_bits(0) \in Lines
    BY DEF from_bits, Lines
  <1>s. {DataId, PinsId} \subseteq Ids /\ {"SerialProxy_on_data", "SerialProxy_on_modem_pins"} \subseteq Slots
    BY DEF Ids, Slots
  <1>r. running = NotRunning
    BY Zenon DEF SubInit
  <1>t. running.todo = <<>>
    BY <1>r, Zenon DEF NotRunning
  <1>0. /\ outbox = <<>> /\ inbox = <<>> /\ asked = <<>> /\ answers = <<>> /\ said = <<>>
        /\ heard = <<>> /\ running.todo = <<>>
        /\ \A i \in Instances : pending_modem_pins_[i] = <<>>
    BY <1>t, Zenon DEF SubInit
  <1>e. \A x : x \notin DOMAIN <<>>
    OBVIOUS
  <1>1. SubTypes
    <2>1. /\ table = [id \in Ids |-> "none"] /\ slot = [m \in Slots |-> 0]
          /\ instance_data_handlers_ = [i \in Instances |-> 0]
          /\ pending_modem_pins_ = [i \in Instances |-> <<>>]
          /\ wanted = [k \in Ids \cup Instances |-> 0]
          /\ lines_set = [i \in Instances |-> from_bits(0)]
          /\ pins = [i \in Instances |-> 0]
          /\ calls = 0 /\ next_call_id_ = 1 /\ program \in Programs
      BY Zenon DEF SubInit
    <2>2. \A S : <<>> \in Seq(S)
      OBVIOUS
    <2>3. 0 \in Nat /\ 1 \in Nat
      OBVIOUS
    <2>4. running \in [todo : Seq(Nat), inside : BOOLEAN, instance : Instances \cup {""},
                       bits : Nat]
      BY <1>r, <2>2, <2>3, Zenon DEF NotRunning
    <2> QED
      BY <1>0, <1>i, <2>1, <2>2, <2>3, <2>4, Zenon DEF SubTypes
  <1>2. HandlersPlaced
    BY <1>s, Zenon DEF SubInit, HandlersPlaced
  <1>3. EveryHandlerHears
    BY Zenon DEF SubInit, EveryHandlerHears
  <1>4. Heard(outbox, said, heard)
    <2>1. Positions(outbox, 0, <<>>) /\ Says(outbox, 0, <<>>, said, heard)
      BY <1>0 DEF Positions, Says
    <2> QED
      BY <2>1 DEF Heard
  <1>5. CallbacksHeld /\ Disjoint /\ NoneLost
    BY <1>0, <1>e, Zenon DEF CallbacksHeld, CallsNumbered, PendingHeld, RunningHeld,
        AnswersHeld, Disjoint, NoneLost, Has, Answered, Distinct
  <1>6. LinesUnderWay
    <2>1. \A i \in Instances : pins[i] = 0 /\ lines_set[i] = from_bits(0)
      BY Zenon DEF SubInit
    <2> QED
      BY <1>0, <1>e, <2>1, Zenon DEF LinesUnderWay, LinesBefore
  <1>7. OwnAnswerComes
    BY <1>0, <1>e, Zenon DEF OwnAnswerComes
  <1> QED
    BY <1>1, <1>2, <1>3, <1>4, <1>5, <1>6, <1>7, Zenon DEF SubInv

-----------------------------------------------------------------------------
(* What is said is what is sent. *)
SaysWhatItSends ==
    \/ UNCHANGED <<outbox, said>>
    \/ \E r \in OtherRequests : outbox' = Append(outbox, r) /\ said' = Append(said, Means(r))

(* Joining a sequence of one element appends it. *)
LEMMA OneMore ==
  ASSUME NEW S, NEW s \in Seq(S), NEW e \in S, NEW one \in Seq(S), Len(one) = 1, one[1] = e
  PROVE  s \o one = Append(s, e)
  <1> DEFINE j == s \o one
             a == Append(s, e)
  <1>1. j \in Seq(S) /\ IsJoin(j, s, one)
    BY JoinedIs
  <1>2. a \in Seq(S) /\ Len(a) = Len(s) + 1 /\ a[Len(s) + 1] = e /\ \A i \in 1..Len(s) : a[i] = s[i]
    OBVIOUS
  <1> HIDE DEF j, a
  <1>3. Len(j) = Len(a) /\ \A i \in 1..Len(j) : j[i] = a[i]
    BY <1>1, <1>2 DEF IsJoin
  <1>4. j = a
    BY <1>1, <1>2, <1>3, SameElements
  <1> QED
    BY <1>4 DEF j, a

(* A sequence of one element. *)
LEMMA Single ==
  ASSUME NEW S, NEW e \in S
  PROVE  LET one == [i \in {1} |-> e] IN one \in Seq(S) /\ Len(one) = 1 /\ one[1] = e
  <1>1. {1} = 1..1
    OBVIOUS
  <1> DEFINE one == [i \in 1..1 |-> e]
  <1>2. one \in Seq(S) /\ Len(one) = 1 /\ one[1] = e
    OBVIOUS
  <1> QED
    BY <1>1, <1>2, Zenon

(* A method that takes a handler says what it sends, if it sends. *)
LEMMA RegisterSays ==
  ASSUME SubTypes, NEW m \in Methods, register(m)
  PROVE  SaysWhatItSends
  <1> DEFINE r == Registrations[m].sends
             d == [method |-> m, v |-> 0]
             more == [i \in DOMAIN r |-> Request(r[i], "", 0)]
             told == [i \in DOMAIN r |-> d]
  <1>0. outbox \in Seq(Sent) /\ said \in Seq(Meant)
    BY Zenon DEF SubTypes
  <1>1. outbox' = outbox \o more /\ said' = said \o told
    BY Zenon DEF register
  <1>2. CASE r = <<>>
    <2>1. more = <<>> /\ told = <<>>
      BY <1>2
    <2> HIDE DEF more, told
    <2>2. outbox' = outbox /\ said' = said
      BY <1>0, <1>1, <2>1
    <2> QED
      BY <2>2, Zenon DEF SaysWhatItSends
  <1>3. CASE r # <<>>
    <2>1. PICK name : r = <<name>> /\ Means(Request(name, "", 0)) = d
      BY <1>3, PromiseKept, Zenon
    <2> DEFINE q == Request(name, "", 0)
    <2>a. r = <<name>> /\ m \in Askers
      BY <1>3, <2>1, Zenon DEF Askers
    <2>2. r[1] = name /\ DOMAIN r = {1}
      BY <2>a
    <2>3. q \in RegisterRequests
      BY <2>a, <2>2, Zenon DEF RegisterRequests
    <2>4. q \in OtherRequests /\ q \in Sent /\ d \in Meant
      BY <2>1, <2>3, Zenon DEF OtherRequests, Sent, Meant
    <2>5. more = [i \in {1} |-> q] /\ told = [i \in {1} |-> d]
      BY <2>2, Zenon
    <2> HIDE DEF more, told, q, d
    <2>6. more \in Seq(Sent) /\ Len(more) = 1 /\ more[1] = q
      BY <2>4, <2>5, Single, Zenon
    <2>7. told \in Seq(Meant) /\ Len(told) = 1 /\ told[1] = d
      BY <2>4, <2>5, Single, Zenon
    <2>8. outbox' = Append(outbox, q) /\ said' = Append(said, d)
      BY <1>0, <1>1, <2>4, <2>6, <2>7, OneMore, Zenon
    <2> QED
      BY <2>1, <2>4, <2>8, Zenon DEF SaysWhatItSends, q
  <1> QED
    BY <1>2, <1>3, Zenon

(* A method that only sends says what it sends. *)
LEMMA SendSays ==
  ASSUME NEW m \in SendMethods, NEW v \in {0, 1}, send(m, v)
  PROVE  SaysWhatItSends
  <1>1. Requests(m, v) \in OtherRequests
    BY DEF OtherRequests, SendRequests
  <1> QED
    BY <1>1, SendsMeant, Zenon DEF send, SaysWhatItSends

(* So does the call of a service. *)
LEMMA ExecuteSays ==
  ASSUME SubTypes, NEW type \in ServiceTypes, execute(type)
  PROVE  SaysWhatItSends
  <1> DEFINE w == [call_id |-> next_call_id_, field |-> set_argument(type)]
  <1>1. w \in [call_id : Nat, field : {set_argument(t) : t \in ServiceTypes}]
    BY Zenon DEF SubTypes
  <1>2. Request("ExecuteServiceRequest", "", w) \in OtherRequests
    BY <1>1, Zenon DEF OtherRequests, ExecuteRequests
  <1> QED
    BY <1>2, ExecuteMeant, Zenon DEF execute, SaysWhatItSends

-----------------------------------------------------------------------------
(* The elements of a sequence have its type. *)
LEMMA ElementsIn ==
  ASSUME NEW S, NEW s \in Seq(S), NEW k \in DOMAIN s
  PROVE  s[k] \in S
  OBVIOUS

(* The entries of the two records of calls. *)
LEMMA AskedTypes ==
  ASSUME SubTypes
  PROVE  /\ \A k \in DOMAIN asked : /\ asked[k] \in Asked
                                    /\ asked[k].n \in Nat /\ asked[k].instance \in Instances
         /\ \A k \in DOMAIN answers : /\ answers[k] \in Given
                                      /\ answers[k].n \in Nat
                                      /\ answers[k].instance \in Instances
  <1>1. asked \in Seq(Asked) /\ answers \in Seq(Given)
    BY Zenon DEF SubTypes
  <1>2. \A k \in DOMAIN asked : asked[k] \in Asked
    BY <1>1, ElementsIn, Zenon
  <1>3. \A k \in DOMAIN answers : answers[k] \in Given
    BY <1>1, ElementsIn, Zenon
  <1> QED
    BY <1>2, <1>3, Zenon DEF Asked, Given

(* A call that gives no callback leaves the callbacks where they are, and the  *)
(* answers that they will be given.                                            *)
CallbacksUntouched ==
    /\ UNCHANGED <<asked, pending_modem_pins_, running, answers, inbox, pins, ran>>
    /\ calls' = calls + 1 /\ registered \subseteq registered'

Sends(r) == r \in Sent /\ outbox' = Append(outbox, r)

(* A call that leaves the callbacks alone keeps the parts about them. *)
LEMMA CallKeeps ==
  ASSUME SubInv, CallbacksUntouched, UNCHANGED outbox \/ \E r : Sends(r)
  PROVE  EveryHandlerHears' /\ CallbacksHeld' /\ Disjoint' /\ NoneLost' /\ OwnAnswerComes'
  <1>i. /\ SubTypes /\ EveryHandlerHears /\ CallbacksHeld /\ Disjoint /\ NoneLost
        /\ OwnAnswerComes
    BY Zenon DEF SubInv
  <1>u. /\ asked' = asked /\ pending_modem_pins_' = pending_modem_pins_ /\ running' = running
        /\ answers' = answers /\ inbox' = inbox /\ pins' = pins /\ ran' = ran
    BY Zenon DEF CallbacksUntouched
  <1>1. EveryHandlerHears'
    BY <1>i, <1>u, Zenon DEF EveryHandlerHears
  <1>2. Disjoint' /\ NoneLost'
    BY <1>i, <1>u, Zenon DEF Disjoint, NoneLost, Answered
  <1>3. CallbacksHeld'
    <2>0. calls \in Nat /\ calls' = calls + 1 /\ registered \subseteq registered'
      BY <1>i, Zenon DEF SubTypes, CallbacksUntouched
    <2>1. \A k \in DOMAIN asked : asked[k].n \in Nat /\ asked[k].n # 0 /\ asked[k].n <= calls
      BY <1>i, AskedTypes, Zenon DEF CallbacksHeld, CallsNumbered
    <2>2. \A k \in DOMAIN asked : asked[k].n <= calls'
      BY <2>0, <2>1
    <2>3. CallsNumbered'
      BY <1>i, <1>u, <2>1, <2>2, Zenon DEF CallbacksHeld, CallsNumbered
    <2>4. PendingHeld'
      BY <1>i, <1>u, <2>0, ZenonT(40) DEF CallbacksHeld, PendingHeld, OfCall
    <2>5. RunningHeld' /\ AnswersHeld'
      BY <1>i, <1>u, Zenon DEF CallbacksHeld, RunningHeld, AnswersHeld, OfCall
    <2> QED
      BY <2>3, <2>4, <2>5 DEF CallbacksHeld
  <1>4. OwnAnswerComes'
    <2>0. outbox \in Seq(Sent)
      BY <1>i, Zenon DEF SubTypes
    <2>1. \A i : \A l : NextAnswer(inbox, outbox, i, pins[i], l)
                            => NextAnswer(inbox, outbox', i, pins[i], l)
      BY <2>0, AnswerAsked, Zenon DEF Sends
    <2> QED
      BY <1>i, <1>u, <2>1, Zenon DEF OwnAnswerComes
  <1> QED
    BY <1>1, <1>2, <1>3, <1>4

(* A call that says what it sends keeps the parts about the requests. *)
LEMMA SaidKeeps ==
  ASSUME SubInv, SaysWhatItSends, UNCHANGED <<heard, lines_set, pins>>
  PROVE  /\ UNCHANGED outbox \/ \E r : Sends(r)
         /\ outbox' \in Seq(Sent) /\ said' \in Seq(Meant) /\ heard' \in Seq(Meant)
         /\ Heard(outbox, said, heard)' /\ LinesUnderWay'
  <1>0. /\ outbox \in Seq(Sent) /\ said \in Seq(Meant) /\ heard \in Seq(Meant)
        /\ LinesUnderWay /\ Heard(outbox, said, heard)
    BY Zenon DEF SubInv, SubTypes
  <1>1. CASE UNCHANGED <<outbox, said>>
    BY <1>0, <1>1, Zenon DEF LinesUnderWay
  <1>2. CASE ~UNCHANGED <<outbox, said>>
    <2>1. PICK r \in OtherRequests : outbox' = Append(outbox, r) /\ said' = Append(said, Means(r))
      BY <1>2, Zenon DEF SaysWhatItSends
    <2>2. r \in Sent /\ ~IsPins(r) /\ Means(r) \in Meant
      BY OthersAreNotPins, Zenon DEF Sent, Meant
    <2>3. outbox' \in Seq(Sent) /\ said' \in Seq(Meant) /\ heard' \in Seq(Meant)
      BY <1>0, <2>1, <2>2, AppendedIs, Zenon
    <2>5. Heard(Append(outbox, r), Append(said, Means(r)), heard)
      BY <1>0, <2>2, HeardOther, Zenon
    <2>6. Heard(outbox', said', heard')
      BY <2>1, <2>5, Zenon
    <2>8. \A i \in Instances : ~IsSet(r, i)
      BY <2>2, Zenon DEF IsSet, IsPins
    <2>9. LinesUnderWay'
      BY <1>0, <2>1, <2>2, <2>8, LinesPast, Zenon DEF LinesUnderWay
    <2> QED
      BY <2>1, <2>2, <2>3, <2>6, <2>9, Zenon DEF Sends
  <1> QED
    BY <1>1, <1>2

(* The number of a call is new and is not that of no handler. *)
LEMMA CallNumber ==
  ASSUME SubTypes
  PROVE  calls \in Nat /\ calls + 1 \in Nat /\ calls + 1 # 0 /\ \A n \in Nat : n <= calls => n # calls + 1
  <1>1. calls \in Nat
    BY Zenon DEF SubTypes
  <1> QED
    BY <1>1

(* What a call that only gives handlers or sends leaves alone. *)
LEMMA PlainCall ==
  ASSUME SubInv, CallbacksUntouched, SaysWhatItSends, UNCHANGED <<heard, lines_set, pins, program>>,
         HandlersPlaced',
         table' \in [Ids -> Slots \cup {"none"}], slot' \in [Slots -> Nat],
         instance_data_handlers_' \in [Instances -> Nat],
         wanted' \in [Ids \cup Instances -> Nat], next_call_id_' \in Nat
  PROVE  SubInv'
  <1>1. EveryHandlerHears' /\ CallbacksHeld' /\ Disjoint' /\ NoneLost' /\ OwnAnswerComes'
    BY CallKeeps, SaidKeeps, Zenon
  <1>2. /\ outbox' \in Seq(Sent) /\ said' \in Seq(Meant) /\ heard' \in Seq(Meant)
        /\ Heard(outbox, said, heard)' /\ LinesUnderWay'
    BY SaidKeeps, Zenon
  <1>3. SubTypes'
    <2>1. SubTypes
      BY Zenon DEF SubInv
    <2>2. calls' \in Nat
      BY <2>1, CallNumber, Zenon DEF CallbacksUntouched
    <2> QED
      BY <1>2, <2>1, <2>2, Zenon DEF SubTypes, CallbacksUntouched
  <1> QED
    BY <1>1, <1>2, <1>3, Zenon DEF SubInv

(* The names of the table's entries and slots differ where they must. *)
LEMMA Names ==
  /\ {DataId, PinsId} \subseteq Ids /\ DataId # PinsId
  /\ "SerialProxy_on_data" \in Slots /\ "SerialProxy_on_modem_pins" \in Slots
  /\ "SerialProxy_on_data" # "SerialProxy_on_modem_pins"
  /\ "SerialProxy_on_data" # "none" /\ "SerialProxy_on_modem_pins" # "none"
  /\ \A m \in Methods : /\ m \in Slots /\ m # "none" /\ Registrations[m].id \in Ids
                        /\ m # "SerialProxy_on_data" /\ m # "SerialProxy_on_modem_pins"
  /\ \A i \in Instances : i \notin Ids
  <1>1. {DataId, PinsId} \subseteq Ids /\ DataId # PinsId
    BY DEF Ids, DataId, PinsId
  <1>2. "SerialProxy_on_data" \in Slots /\ "SerialProxy_on_modem_pins" \in Slots
    BY DEF Slots
  <1>3. \A m \in Methods : /\ m \in Slots /\ m # "none" /\ Registrations[m].id \in Ids
                           /\ m # "SerialProxy_on_data" /\ m # "SerialProxy_on_modem_pins"
    <2>1. \A m \in Methods : m \in Slots /\ Registrations[m].id \in Ids
      BY Zenon DEF Slots, Ids, Methods
    <2> QED
      BY <2>1, MethodNames DEF SerialMethods
  <1> QED
    BY <1>1, <1>2, <1>3, SubsystemsAssumption

(* register(): the new handler is the one of its id, and of no other.          *)
LEMMA RegisterStep ==
  ASSUME SubInv, NEW m \in Methods, register(m)
  PROVE  SubInv'
  <1> DEFINE id == Registrations[m].id
  <1>i. SubTypes /\ HandlersPlaced
    BY Zenon DEF SubInv
  <1>t. /\ table \in [Ids -> Slots \cup {"none"}] /\ slot \in [Slots -> Nat]
        /\ wanted \in [Ids \cup Instances -> Nat] /\ calls + 1 \in Nat
    BY <1>i, CallNumber, Zenon DEF SubTypes
  <1>d. id = Promises[m].id /\ id \notin {DataId, PinsId} /\ m \in Slots /\ id \in Ids
    BY PromiseKept, Names, Zenon
  <1>a. /\ slot' = [slot EXCEPT ![m] = calls + 1] /\ table' = [table EXCEPT ![id] = m]
        /\ wanted' = [wanted EXCEPT ![id] = calls + 1]
        /\ UNCHANGED <<instance_data_handlers_, registered, next_call_id_, heard, lines_set,
                       pins, program>>
    BY <1>d, Zenon DEF register, Calls
  <1> HIDE DEF id
  <1>1. CallbacksUntouched
    BY Zenon DEF register, Calls, CallbacksUntouched
  <1>2. HandlersPlaced'
    <2>1. ASSUME NEW k \in Ids \ {DataId, PinsId}
          PROVE  \/ table'[k] = "none" /\ wanted'[k] = 0
                 \/ /\ table'[k] \in Methods /\ Registrations[table'[k]].id = k
                    /\ slot'[table'[k]] = wanted'[k]
      <3>1. CASE k = id
        BY <1>a, <1>d, <1>t, <3>1, Zenon DEF id
      <3>2. CASE k # id
        <4>1. table'[k] = table[k] /\ wanted'[k] = wanted[k]
          BY <1>a, <1>d, <1>t, <3>2
        <4>2. \/ table[k] = "none" /\ wanted[k] = 0
              \/ /\ table[k] \in Methods /\ Registrations[table[k]].id = k
                 /\ slot[table[k]] = wanted[k]
          BY <1>i, Zenon DEF HandlersPlaced, Methods
        <4>3. ASSUME table[k] \in Methods, Registrations[table[k]].id = k
              PROVE  slot'[table[k]] = slot[table[k]]
          BY <1>a, <1>t, <3>2, <4>3, Names, Zenon DEF id
        <4> QED
          BY <4>1, <4>2, <4>3, Zenon
      <3> QED
        BY <3>1, <3>2
    <2>2. /\ slot'["SerialProxy_on_data"] = slot["SerialProxy_on_data"]
          /\ slot'["SerialProxy_on_modem_pins"] = slot["SerialProxy_on_modem_pins"]
      BY <1>a, <1>t, Names, Zenon
    <2>3. /\ wanted'[DataId] = wanted[DataId] /\ wanted'[PinsId] = wanted[PinsId]
          /\ table'[DataId] = table[DataId] /\ table'[PinsId] = table[PinsId]
      BY <1>a, <1>d, <1>t, Names, Zenon
    <2>4. \A i \in Instances : wanted'[i] = wanted[i]
      BY <1>a, <1>d, <1>t, Names, Zenon
    <2>5. \A k \in registered' : k \in {DataId, PinsId} /\ table'[k] # "none"
      BY <1>a, <1>i, <2>3, Zenon DEF HandlersPlaced
    <2>6. /\ slot'["SerialProxy_on_data"] = wanted'[DataId]
          /\ slot'["SerialProxy_on_modem_pins"] = wanted'[PinsId]
          /\ \A i \in Instances : instance_data_handlers_'[i] = wanted'[i]
      BY <1>a, <1>i, <2>2, <2>3, <2>4, Zenon DEF HandlersPlaced
    <2>7. table'[DataId] = "none" => wanted'[DataId] = 0 /\ \A i \in Instances : wanted'[i] = 0
      BY <1>i, <2>3, <2>4, Zenon DEF HandlersPlaced
    <2> QED
      BY <2>1, <2>5, <2>6, <2>7, Zenon DEF HandlersPlaced, Methods
  <1>3. SaysWhatItSends
    BY <1>i, RegisterSays
  <1>4. /\ table' \in [Ids -> Slots \cup {"none"}] /\ slot' \in [Slots -> Nat]
        /\ wanted' \in [Ids \cup Instances -> Nat]
    BY <1>a, <1>d, <1>t
  <1>5. instance_data_handlers_' \in [Instances -> Nat] /\ next_call_id_' \in Nat
    BY <1>a, <1>i, Zenon DEF SubTypes
  <1> QED
    BY <1>1, <1>2, <1>3, <1>4, <1>5, <1>a, PlainCall, Zenon

(* The methods that only send change no handler. *)
LEMMA HandlersUntouched ==
  ASSUME HandlersPlaced, UNCHANGED <<table, slot, instance_data_handlers_, registered, wanted>>
  PROVE  HandlersPlaced'
  <1>1. /\ table' = table /\ slot' = slot /\ registered' = registered /\ wanted' = wanted
        /\ instance_data_handlers_' = instance_data_handlers_
    OBVIOUS
  <1> QED
    BY <1>1, Zenon DEF HandlersPlaced

(* The steps of the other calls. *)
LEMMA SendStep ==
  ASSUME SubInv, NEW m \in SendMethods, NEW v \in {0, 1}, send(m, v)
  PROVE  SubInv'
  <1>i. SubTypes /\ HandlersPlaced
    BY Zenon DEF SubInv
  <1>1. /\ UNCHANGED <<table, slot, instance_data_handlers_, registered, wanted>>
        /\ UNCHANGED <<heard, lines_set, pins, program>> /\ next_call_id_' = next_call_id_
    BY Zenon DEF send, Calls, proxy_vars
  <1>2. CallbacksUntouched
    BY Zenon DEF send, Calls, proxy_vars, CallbacksUntouched
  <1>3. /\ table' \in [Ids -> Slots \cup {"none"}] /\ slot' \in [Slots -> Nat]
        /\ wanted' \in [Ids \cup Instances -> Nat]
        /\ instance_data_handlers_' \in [Instances -> Nat] /\ next_call_id_' \in Nat
    BY <1>i, <1>1, Zenon DEF SubTypes
  <1> QED
    BY <1>i, <1>1, <1>2, <1>3, SendSays, HandlersUntouched, PlainCall, Zenon

LEMMA ExecuteStep ==
  ASSUME SubInv, NEW type \in ServiceTypes, execute(type)
  PROVE  SubInv'
  <1>i. SubTypes /\ HandlersPlaced
    BY Zenon DEF SubInv
  <1>1. /\ UNCHANGED <<table, slot, instance_data_handlers_, registered, wanted>>
        /\ UNCHANGED <<heard, lines_set, pins, program>>
    BY Zenon DEF execute, Calls
  <1>2. CallbacksUntouched
    BY Zenon DEF execute, Calls, CallbacksUntouched
  <1>n. next_call_id_ \in Nat /\ next_call_id_' = next_call_id_ + 1
    BY <1>i, Zenon DEF SubTypes, execute
  <1>m. next_call_id_' \in Nat
    BY <1>n
  <1>3. /\ table' \in [Ids -> Slots \cup {"none"}] /\ slot' \in [Slots -> Nat]
        /\ wanted' \in [Ids \cup Instances -> Nat]
        /\ instance_data_handlers_' \in [Instances -> Nat]
    BY <1>i, <1>1, Zenon DEF SubTypes
  <1> QED
    BY <1>i, <1>1, <1>2, <1>3, <1>m, ExecuteSays, HandlersUntouched, PlainCall, Zenon

(* ensure_data_handler(), ensure_modem_pins_handler(). *)
LEMMA Ensured ==
  ASSUME SubTypes, HandlersPlaced, NEW id \in {DataId, PinsId},
         NEW m \in {"SerialProxy_on_data", "SerialProxy_on_modem_pins"}, ensure_handler(id, m)
  PROVE  /\ table' \in [Ids -> Slots \cup {"none"}] /\ table'[id] # "none"
         /\ \A k \in Ids \ {id} : table'[k] = table[k]
         /\ registered \subseteq registered' /\ id \in registered'
         /\ \A k \in registered' : k \in {DataId, PinsId} /\ table'[k] # "none"
  <1>1. table \in [Ids -> Slots \cup {"none"}]
    BY Zenon DEF SubTypes
  <1>2. \A k \in registered : k \in {DataId, PinsId} /\ table[k] # "none"
    BY Zenon DEF HandlersPlaced
  <1>3. id \in Ids /\ m \in Slots /\ m # "none"
    BY Names, Zenon
  <1>4. \/ id \in registered /\ table' = table
        \/ table' = [table EXCEPT ![id] = m]
    BY Zenon DEF ensure_handler
  <1>5. registered' = registered \cup {id}
    BY Zenon DEF ensure_handler
  <1>6. /\ table' \in [Ids -> Slots \cup {"none"}] /\ table'[id] # "none"
        /\ \A k \in Ids \ {id} : table'[k] = table[k]
    BY <1>1, <1>2, <1>3, <1>4
  <1>7. {DataId, PinsId} \subseteq Ids
    BY Names, Zenon
  <1>8. \A k \in registered' : k \in {DataId, PinsId} /\ table'[k] # "none"
    BY <1>2, <1>5, <1>6, <1>7, Zenon
  <1> QED
    BY <1>5, <1>6, <1>8, Zenon

(* on_data(), on_data_of() and on_modem_pins() change no handler of another    *)
(* message.                                                                    *)
LEMMA SerialPlaced ==
  ASSUME SubTypes, HandlersPlaced, NEW id \in {DataId, PinsId},
         NEW m \in {"SerialProxy_on_data", "SerialProxy_on_modem_pins"}, ensure_handler(id, m),
         \A n \in Methods : slot'[n] = slot[n],
         \A k \in Ids \ {DataId, PinsId} : wanted'[k] = wanted[k],
         slot'["SerialProxy_on_data"] = wanted'[DataId],
         slot'["SerialProxy_on_modem_pins"] = wanted'[PinsId],
         \A i \in Instances : instance_data_handlers_'[i] = wanted'[i],
         id = DataId \/ (wanted'[DataId] = wanted[DataId] /\ \A i \in Instances : wanted'[i] = wanted[i])
  PROVE  /\ HandlersPlaced' /\ table' \in [Ids -> Slots \cup {"none"}]
         /\ registered \subseteq registered' /\ id \in registered'
  <1>1. /\ table' \in [Ids -> Slots \cup {"none"}] /\ table'[id] # "none"
        /\ \A k \in Ids \ {id} : table'[k] = table[k]
        /\ registered \subseteq registered' /\ id \in registered'
        /\ \A k \in registered' : k \in {DataId, PinsId} /\ table'[k] # "none"
    BY Ensured, Zenon
  <1>2. HandlersPlaced'
    <2>1. ASSUME NEW k \in Ids \ {DataId, PinsId}
          PROVE  \/ table'[k] = "none" /\ wanted'[k] = 0
                 \/ /\ table'[k] \in Methods /\ Registrations[table'[k]].id = k
                    /\ slot'[table'[k]] = wanted'[k]
      <3>1. table'[k] = table[k] /\ wanted'[k] = wanted[k]
        BY <1>1, Zenon
      <3>2. \/ table[k] = "none" /\ wanted[k] = 0
            \/ /\ table[k] \in Methods /\ Registrations[table[k]].id = k
               /\ slot[table[k]] = wanted[k]
        BY Zenon DEF HandlersPlaced, Methods
      <3> QED
        BY <3>1, <3>2, Zenon
    <2>2. table'[DataId] = "none" => wanted'[DataId] = 0 /\ \A i \in Instances : wanted'[i] = 0
      <3>1. CASE id = DataId
        BY <1>1, <3>1, Zenon
      <3>2. CASE id # DataId
        <4>1. table'[DataId] = table[DataId]
          BY <1>1, <3>2, Names, Zenon
        <4> QED
          BY <3>2, <4>1, Zenon DEF HandlersPlaced
      <3> QED
        BY <3>1, <3>2
    <2> QED
      BY <1>1, <2>1, <2>2, Zenon DEF HandlersPlaced, Methods
  <1> QED
    BY <1>1, <1>2

(* A handler of the serial proxy is placed, and no other is displaced. *)
LEMMA SerialHandlers ==
  ASSUME SubInv, NEW id \in {DataId, PinsId},
         NEW m \in {"SerialProxy_on_data", "SerialProxy_on_modem_pins"}, ensure_handler(id, m),
         \A n \in Methods : slot'[n] = slot[n],
         \A k \in Ids \ {DataId, PinsId} : wanted'[k] = wanted[k],
         slot'["SerialProxy_on_data"] = wanted'[DataId],
         slot'["SerialProxy_on_modem_pins"] = wanted'[PinsId],
         \A i \in Instances : instance_data_handlers_'[i] = wanted'[i],
         id = DataId \/ (wanted'[DataId] = wanted[DataId] /\ \A i \in Instances : wanted'[i] = wanted[i]),
         slot' \in [Slots -> Nat], wanted' \in [Ids \cup Instances -> Nat],
         instance_data_handlers_' \in [Instances -> Nat],
         UNCHANGED <<outbox, said, heard, lines_set, pins, program, next_call_id_, asked,
                     pending_modem_pins_, running, answers, inbox, ran>>,
         calls' = calls + 1
  PROVE  SubInv'
  <1>i. SubTypes /\ HandlersPlaced
    BY Zenon DEF SubInv
  <1>1. /\ HandlersPlaced' /\ table' \in [Ids -> Slots \cup {"none"}]
        /\ registered \subseteq registered'
    BY <1>i, SerialPlaced, Zenon
  <1>3. CallbacksUntouched
    BY <1>1, Zenon DEF CallbacksUntouched
  <1>4. SaysWhatItSends /\ UNCHANGED <<heard, lines_set, pins, program>>
    BY Zenon DEF SaysWhatItSends
  <1>5. next_call_id_' \in Nat
    BY <1>i, Zenon DEF SubTypes
  <1> QED
    BY <1>1, <1>3, <1>4, <1>5, PlainCall, Zenon

LEMMA OnDataStep ==
  ASSUME SubInv, on_data
  PROVE  SubInv'
  <1>i. SubTypes /\ HandlersPlaced
    BY Zenon DEF SubInv
  <1>t. /\ slot \in [Slots -> Nat] /\ wanted \in [Ids \cup Instances -> Nat] /\ calls + 1 \in Nat
        /\ instance_data_handlers_ \in [Instances -> Nat]
    BY <1>i, CallNumber, Zenon DEF SubTypes
  <1>a. /\ slot' = [slot EXCEPT !["SerialProxy_on_data"] = calls + 1]
        /\ wanted' = [wanted EXCEPT ![DataId] = calls + 1]
        /\ instance_data_handlers_' = instance_data_handlers_ /\ calls' = calls + 1
        /\ ensure_handler(DataId, "SerialProxy_on_data")
        /\ UNCHANGED <<outbox, said, heard, lines_set, pins, program, next_call_id_, asked,
                       pending_modem_pins_, running, answers, inbox, ran>>
    BY Zenon DEF on_data, Calls
  <1>h. /\ slot["SerialProxy_on_data"] = wanted[DataId]
        /\ slot["SerialProxy_on_modem_pins"] = wanted[PinsId]
        /\ \A i \in Instances : instance_data_handlers_[i] = wanted[i]
    BY <1>i, Zenon DEF HandlersPlaced
  <1>1. slot' \in [Slots -> Nat] /\ wanted' \in [Ids \cup Instances -> Nat]
    BY <1>a, <1>t, Names
  <1>2. \A n \in Methods : slot'[n] = slot[n]
    BY <1>a, <1>t, Names, Zenon
  <1>3. \A k \in Ids \cup Instances : k # DataId => wanted'[k] = wanted[k]
    BY <1>a, <1>t, Names
  <1>4. /\ slot'["SerialProxy_on_data"] = wanted'[DataId]
        /\ slot'["SerialProxy_on_modem_pins"] = wanted'[PinsId]
    BY <1>a, <1>h, <1>t, Names, Zenon
  <1>5. \A i \in Instances : instance_data_handlers_'[i] = wanted'[i] /\ wanted'[i] = wanted[i]
    BY <1>3, <1>a, <1>h, Names, Zenon
  <1>6. \A k \in Ids \ {DataId, PinsId} : wanted'[k] = wanted[k]
    BY <1>3, Zenon
  <1>7. DataId = DataId \/ wanted'[DataId] = wanted[DataId]
    BY <1>3, Names, Zenon
  <1> QED
    BY <1>1, <1>2, <1>4, <1>5, <1>6, <1>7, <1>a, <1>t, SerialHandlers, Zenon

LEMMA OnModemPinsStep ==
  ASSUME SubInv, on_modem_pins
  PROVE  SubInv'
  <1>i. SubTypes /\ HandlersPlaced
    BY Zenon DEF SubInv
  <1>t. /\ slot \in [Slots -> Nat] /\ wanted \in [Ids \cup Instances -> Nat] /\ calls + 1 \in Nat
        /\ instance_data_handlers_ \in [Instances -> Nat]
    BY <1>i, CallNumber, Zenon DEF SubTypes
  <1>a. /\ slot' = [slot EXCEPT !["SerialProxy_on_modem_pins"] = calls + 1]
        /\ wanted' = [wanted EXCEPT ![PinsId] = calls + 1]
        /\ instance_data_handlers_' = instance_data_handlers_ /\ calls' = calls + 1
        /\ ensure_handler(PinsId, "SerialProxy_on_modem_pins")
        /\ UNCHANGED <<outbox, said, heard, lines_set, pins, program, next_call_id_, asked,
                       pending_modem_pins_, running, answers, inbox, ran>>
    BY Zenon DEF on_modem_pins, Calls
  <1>h. /\ slot["SerialProxy_on_data"] = wanted[DataId]
        /\ slot["SerialProxy_on_modem_pins"] = wanted[PinsId]
        /\ \A i \in Instances : instance_data_handlers_[i] = wanted[i]
    BY <1>i, Zenon DEF HandlersPlaced
  <1>1. slot' \in [Slots -> Nat] /\ wanted' \in [Ids \cup Instances -> Nat]
    BY <1>a, <1>t, Names
  <1>2. \A n \in Methods : slot'[n] = slot[n]
    BY <1>a, <1>t, Names, Zenon
  <1>3. \A k \in Ids \cup Instances : k # PinsId => wanted'[k] = wanted[k]
    BY <1>a, <1>t, Names
  <1>4. /\ slot'["SerialProxy_on_data"] = wanted'[DataId]
        /\ slot'["SerialProxy_on_modem_pins"] = wanted'[PinsId]
    BY <1>a, <1>h, <1>t, Names, Zenon
  <1>5. \A i \in Instances : instance_data_handlers_'[i] = wanted'[i] /\ wanted'[i] = wanted[i]
    BY <1>3, <1>a, <1>h, Names, Zenon
  <1>6. \A k \in Ids \ {DataId, PinsId} : wanted'[k] = wanted[k]
    BY <1>3, Zenon
  <1>7. PinsId = DataId \/ wanted'[DataId] = wanted[DataId]
    BY <1>3, Names, Zenon
  <1> QED
    BY <1>1, <1>2, <1>4, <1>5, <1>6, <1>7, <1>a, <1>t, SerialHandlers, Zenon

LEMMA OnDataOfStep ==
  ASSUME SubInv, NEW i \in Instances, on_data_of(i)
  PROVE  SubInv'
  <1>i. SubTypes /\ HandlersPlaced
    BY Zenon DEF SubInv
  <1>t. /\ slot \in [Slots -> Nat] /\ wanted \in [Ids \cup Instances -> Nat] /\ calls + 1 \in Nat
        /\ instance_data_handlers_ \in [Instances -> Nat]
    BY <1>i, CallNumber, Zenon DEF SubTypes
  <1>a. /\ instance_data_handlers_' = [instance_data_handlers_ EXCEPT ![i] = calls + 1]
        /\ wanted' = [wanted EXCEPT ![i] = calls + 1]
        /\ slot' = slot /\ calls' = calls + 1
        /\ ensure_handler(DataId, "SerialProxy_on_data")
        /\ UNCHANGED <<outbox, said, heard, lines_set, pins, program, next_call_id_, asked,
                       pending_modem_pins_, running, answers, inbox, ran>>
    BY Zenon DEF on_data_of, Calls
  <1>h. /\ slot["SerialProxy_on_data"] = wanted[DataId]
        /\ slot["SerialProxy_on_modem_pins"] = wanted[PinsId]
        /\ \A j \in Instances : instance_data_handlers_[j] = wanted[j]
    BY <1>i, Zenon DEF HandlersPlaced
  <1>1. /\ wanted' \in [Ids \cup Instances -> Nat]
        /\ instance_data_handlers_' \in [Instances -> Nat]
    BY <1>a, <1>t
  <1>2. \A k \in Ids : wanted'[k] = wanted[k]
    BY <1>a, <1>t, Names, Zenon
  <1>3. \A j \in Instances : instance_data_handlers_'[j] = wanted'[j]
    BY <1>a, <1>h, <1>t
  <1>4. /\ slot'["SerialProxy_on_data"] = wanted'[DataId]
        /\ slot'["SerialProxy_on_modem_pins"] = wanted'[PinsId]
    BY <1>2, <1>a, <1>h, Names, Zenon
  <1> QED
    BY <1>1, <1>2, <1>3, <1>4, <1>a, <1>t, SerialHandlers, Zenon

(* set_modem_pins(): the device will have the lines of the request, which say  *)
(* what the program gave.                                                      *)
LEMMA SetStep ==
  ASSUME SubInv, NEW i \in Instances, NEW l \in Lines, set_modem_pins(i, l)
  PROVE  SubInv'
  <1> DEFINE r == Pins("Set", i, to_bits(l))
  <1>i. /\ SubTypes /\ HandlersPlaced /\ LinesUnderWay /\ Heard(outbox, said, heard)
        /\ outbox \in Seq(Sent) /\ lines_set \in [Instances -> Lines]
    BY Zenon DEF SubInv, SubTypes
  <1>a. /\ outbox' = Append(outbox, r) /\ lines_set' = [lines_set EXCEPT ![i] = l]
        /\ UNCHANGED <<table, slot, instance_data_handlers_, registered, wanted, next_call_id_>>
        /\ UNCHANGED <<heard, said, pins, program, inbox>>
        /\ UNCHANGED <<asked, answers, running, pending_modem_pins_>> /\ calls' = calls + 1
    BY Zenon DEF set_modem_pins, Calls, proxy_vars
  <1>b. CallbacksUntouched
    BY Zenon DEF set_modem_pins, Calls, proxy_vars, CallbacksUntouched
  <1>k. to_bits(l) \in Nat /\ from_bits(to_bits(l)) = l
    BY LinesKept, Zenon
  <1>r. /\ r \in PinsRequests /\ r.name = "Set" /\ r.instance = i /\ r.bits = to_bits(l)
    BY <1>k, Zenon DEF Pins, PinsRequests
  <1> HIDE DEF r
  <1>s. r \in Sent /\ IsPins(r) /\ IsSet(r, i) /\ \A j : IsSet(r, j) => j = i
    BY <1>r, Zenon DEF Sent, IsPins, IsSet
  <1>1. EveryHandlerHears' /\ CallbacksHeld' /\ Disjoint' /\ NoneLost' /\ OwnAnswerComes'
    BY <1>a, <1>b, <1>s, CallKeeps, Zenon DEF Sends
  <1>2. Heard(outbox, said, heard)'
    <2>1. Heard(Append(outbox, r), said, heard)
      BY <1>i, <1>s, HeardPins, Zenon
    <2> QED
      BY <1>a, <2>1, Zenon
  <1>3. LinesUnderWay'
    <2>1. ASSUME NEW j \in Instances
          PROVE  LinesBefore(outbox', Len(outbox') + 1, j, pins'[j], lines_set'[j])
      <3>1. CASE j = i
        <4>1. lines_set'[j] = from_bits(r.bits)
          BY <1>a, <1>i, <1>k, <1>r, <3>1, Zenon
        <4>2. LinesBefore(Append(outbox, r), Len(Append(outbox, r)) + 1, j, pins[j], from_bits(r.bits))
          BY <1>i, <1>s, <3>1, LinesSet, Zenon
        <4> QED
          BY <1>a, <4>1, <4>2, Zenon
      <3>2. CASE j # i
        <4>1. lines_set'[j] = lines_set[j]
          BY <1>a, <1>i, <3>2, Zenon
        <4>2. LinesBefore(Append(outbox, r), Len(Append(outbox, r)) + 1, j, pins[j], lines_set[j])
          BY <1>i, <1>s, <3>2, LinesPast, Zenon DEF LinesUnderWay
        <4> QED
          BY <1>a, <4>1, <4>2, Zenon
      <3> QED
        BY <3>1, <3>2
    <2> QED
      BY <2>1, Zenon DEF LinesUnderWay
  <1>4. HandlersPlaced'
    BY <1>a, <1>i, HandlersUntouched, Zenon
  <1>5. SubTypes'
    <2>1. outbox' \in Seq(Sent) /\ calls' \in Nat
      BY <1>a, <1>i, <1>s, AppendedIs, CallNumber, Zenon
    <2>2. lines_set' \in [Instances -> Lines]
      BY <1>a, <1>i, Zenon
    <2> QED
      BY <1>a, <1>i, <2>1, <2>2, Zenon DEF SubTypes
  <1> QED
    BY <1>1, <1>2, <1>3, <1>4, <1>5, Zenon DEF SubInv

-----------------------------------------------------------------------------
(* The numbers in a queue of callbacks. *)
LEMMA HasAppended ==
  ASSUME NEW s \in Seq(Nat), NEW e \in Nat
  PROVE  /\ \A n : Has(Append(s, e), n) <=> Has(s, n) \/ n = e
         /\ Append(s, e) # <<>> /\ Append(s, e) \in Seq(Nat)
         /\ Distinct(s) /\ ~Has(s, e) => Distinct(Append(s, e))
  <1> DEFINE t == Append(s, e)
             k == Len(s) + 1
  <1>1. /\ DOMAIN t = DOMAIN s \cup {k} /\ k \notin DOMAIN s /\ t[k] = e
        /\ \A p \in DOMAIN s : t[p] = s[p]
        /\ t \in Seq(Nat)
    BY AppendedIs
  <1>2. t # <<>>
    OBVIOUS
  <1> HIDE DEF t, k
  <1>3. \A n : Has(t, n) <=> Has(s, n) \/ n = e
    BY <1>1, Zenon DEF Has
  <1>4. Distinct(s) /\ ~Has(s, e) => Distinct(t)
    BY <1>1, Zenon DEF Has, Distinct
  <1> QED
    BY <1>1, <1>2, <1>3, <1>4, Zenon DEF t

(* No callback has the number of the call that comes next. *)
LEMMA NewNumber ==
  ASSUME SubTypes, CallbacksHeld
  PROVE  /\ \A i : ~OfCall(calls + 1, i)
         /\ \A i \in Instances : ~Has(pending_modem_pins_[i], calls + 1)
         /\ ~Has(running.todo, calls + 1) /\ ~Answered(calls + 1)
         /\ \A k \in DOMAIN asked : asked[k].n # calls + 1
  <1>1. \A k \in DOMAIN asked : asked[k].n # calls + 1
    BY AskedTypes, CallNumber, Zenon DEF CallbacksHeld, CallsNumbered
  <1>2. \A i : ~OfCall(calls + 1, i)
    BY <1>1, Zenon DEF OfCall
  <1>3. calls + 1 # 0
    BY CallNumber, Zenon
  <1>4. \A i \in Instances : ~Has(pending_modem_pins_[i], calls + 1)
    BY <1>2, Zenon DEF CallbacksHeld, PendingHeld
  <1>5. ~Has(running.todo, calls + 1)
    BY <1>2, <1>3, Zenon DEF CallbacksHeld, RunningHeld
  <1>6. ~Answered(calls + 1)
    BY <1>2, Zenon DEF CallbacksHeld, AnswersHeld, Answered
  <1> QED
    BY <1>1, <1>2, <1>4, <1>5, <1>6

(* get_modem_pins() with a callback: the callback is held, and if no other     *)
(* answer is under way it will be given the lines that were set last.          *)
LEMMA GetHolds ==
  ASSUME SubInv, NEW i \in Instances, get_modem_pins(i, TRUE)
  PROVE  CallbacksHeld' /\ Disjoint' /\ NoneLost' /\ OwnAnswerComes'
  <1> DEFINE r == Pins("Get", i, 0)
             new == calls + 1
             a == [n |-> new, instance |-> i, alone |-> Alone(i), lines |-> lines_set[i]]
             e == Len(asked) + 1
  <1>i. /\ SubTypes /\ CallbacksHeld /\ Disjoint /\ NoneLost /\ OwnAnswerComes /\ LinesUnderWay
        /\ HandlersPlaced
    BY Zenon DEF SubInv
  <1>j. CallsNumbered /\ PendingHeld /\ RunningHeld /\ AnswersHeld
    BY <1>i, Zenon DEF CallbacksHeld
  <1>t. /\ outbox \in Seq(Sent) /\ lines_set \in [Instances -> Lines] /\ asked \in Seq(Asked)
        /\ pending_modem_pins_ \in [Instances -> Seq(Nat)]
    BY <1>i, Zenon DEF SubTypes
  <1>n. new \in Nat /\ new # 0 /\ calls \in Nat
    BY <1>i, CallNumber, Zenon
  <1>a. /\ outbox' = Append(outbox, r) /\ asked' = Append(asked, a) /\ calls' = new
        /\ pending_modem_pins_' = [pending_modem_pins_ EXCEPT ![i] = Append(@, new)]
        /\ ensure_handler(PinsId, "SerialProxy_on_modem_pins")
        /\ running' = running /\ answers' = answers /\ inbox' = inbox /\ pins' = pins
    BY Zenon DEF get_modem_pins, Calls
  <1>r. r \in Sent /\ IsGet(r, i)
    <2>1. 0 \in Nat
      OBVIOUS
    <2> QED
      BY <2>1, Zenon DEF Sent, Pins, PinsRequests, IsGet
  <1>b. a \in Asked /\ a.n = new /\ a.instance = i /\ a.alone = Alone(i) /\ a.lines = lines_set[i]
    <2>1. Alone(i) \in BOOLEAN
      BY Zenon DEF Alone
    <2> HIDE DEF new
    <2> QED
      BY <1>n, <1>t, <2>1, Zenon DEF Asked
  <1> HIDE DEF r, a
  <1>c. /\ DOMAIN asked' = DOMAIN asked \cup {e} /\ e \notin DOMAIN asked /\ asked'[e] = a
        /\ \A k \in DOMAIN asked : asked'[k] = asked[k]
    <2>1. /\ DOMAIN Append(asked, a) = DOMAIN asked \cup {e} /\ e \notin DOMAIN asked
          /\ Append(asked, a)[e] = a
          /\ \A k \in DOMAIN asked : Append(asked, a)[k] = asked[k]
      BY <1>b, <1>t, AppendedIs
    <2> HIDE DEF e
    <2> QED
      BY <1>a, <2>1, Zenon
  <1> HIDE DEF e
  <1>p. /\ pending_modem_pins_'[i] = Append(pending_modem_pins_[i], new)
        /\ \A j \in Instances : j # i => pending_modem_pins_'[j] = pending_modem_pins_[j]
    BY <1>a, <1>t, Zenon
  <1>h. /\ \A n : Has(pending_modem_pins_'[i], n) <=> Has(pending_modem_pins_[i], n) \/ n = new
        /\ pending_modem_pins_'[i] # <<>>
        /\ Distinct(pending_modem_pins_[i]) /\ ~Has(pending_modem_pins_[i], new)
              => Distinct(pending_modem_pins_'[i])
    <2>1. pending_modem_pins_[i] \in Seq(Nat)
      BY <1>t, Zenon
    <2> HIDE DEF new
    <2> DEFINE q == Append(pending_modem_pins_[i], new)
    <2>2. /\ \A n : Has(q, n) <=> Has(pending_modem_pins_[i], n) \/ n = new
          /\ q # <<>>
          /\ Distinct(pending_modem_pins_[i]) /\ ~Has(pending_modem_pins_[i], new) => Distinct(q)
      BY <1>n, <2>1, HasAppended, Zenon
    <2>3. q = pending_modem_pins_'[i]
      BY <1>p, Zenon
    <2> HIDE DEF q
    <2> QED
      BY <2>2, <2>3
  <1>f. /\ \A j : ~OfCall(new, j)
        /\ \A j \in Instances : ~Has(pending_modem_pins_[j], new)
        /\ ~Has(running.todo, new) /\ ~Answered(new)
        /\ \A k \in DOMAIN asked : asked[k].n # new
    BY <1>i, NewNumber, Zenon
  <1>g. PinsId \in registered'
    BY <1>a, Zenon DEF ensure_handler
  <1>q. \A k \in DOMAIN asked : asked[k].n \in Nat /\ asked[k].n <= calls /\ asked[k].n # 0 /\ asked[k].instance \in Instances
    BY <1>i, AskedTypes, Zenon DEF CallbacksHeld, CallsNumbered
  <1>z. (\A k \in DOMAIN asked : asked[k].n <= new) /\ new <= new
    BY <1>n, <1>q
  <1>y. \A m : (\E k \in DOMAIN answers' : answers'[k].n = m) <=> Answered(m)
    BY <1>a, Zenon DEF Answered
  <1> HIDE DEF new
  <1>1. CallsNumbered'
    <2>1. \A k \in DOMAIN asked' : asked'[k].n # 0 /\ asked'[k].n <= new
      BY <1>b, <1>c, <1>n, <1>q, <1>z, Zenon
    <2>2. \A j, k \in DOMAIN asked' : asked'[j].n = asked'[k].n => j = k
      BY <1>b, <1>c, <1>f, <1>j, Zenon DEF CallsNumbered
    <2> QED
      BY <1>a, <2>1, <2>2, Zenon DEF CallsNumbered
  <1>o. /\ \A m, j : OfCall(m, j) => \E k \in DOMAIN asked' : asked'[k].n = m /\ asked'[k].instance = j
        /\ \E k \in DOMAIN asked' : asked'[k].n = new /\ asked'[k].instance = i
    BY <1>b, <1>c, Zenon DEF OfCall
  <1>2. PendingHeld'
    <2>1. ASSUME NEW j \in Instances
          PROVE  /\ Distinct(pending_modem_pins_'[j])
                 /\ \A n : Has(pending_modem_pins_'[j], n) =>
                       \E k \in DOMAIN asked' : asked'[k].n = n /\ asked'[k].instance = j
      <3>0. /\ Distinct(pending_modem_pins_[j])
            /\ \A n : Has(pending_modem_pins_[j], n) => OfCall(n, j)
        BY <1>j, Zenon DEF PendingHeld
      <3>1. CASE j = i
        <4>1. ~Has(pending_modem_pins_[j], new)
          BY <1>f
        <4> QED
          BY <1>h, <1>o, <3>0, <3>1, <4>1
      <3>2. CASE j # i
        <4>1. pending_modem_pins_'[j] = pending_modem_pins_[j]
          BY <1>p, <3>2
        <4> QED
          BY <1>o, <3>0, <4>1
      <3> QED
        BY <3>1, <3>2
    <2> QED
      BY <1>g, <2>1, Zenon DEF PendingHeld, OfCall
  <1>3. RunningHeld' /\ AnswersHeld'
    <2>1. \A m, j : OfCall(m, j) => OfCall(m, j)'
      BY <1>o, Zenon DEF OfCall
    <2>2. RunningHeld'
      BY <1>a, <1>j, <2>1, Zenon DEF RunningHeld
    <2>3. AnswersHeld'
      BY <1>a, <1>j, <2>1, Zenon DEF AnswersHeld
    <2> QED
      BY <2>2, <2>3
  <1>4. Disjoint'
    <2>1. ASSUME NEW n, n # 0
          PROVE  /\ \A j \in Instances :
                       Has(pending_modem_pins_'[j], n) => ~Has(running.todo, n) /\ ~Answered(n)
                 /\ Has(running.todo, n) => ~Answered(n)
      <3>1. \A j \in Instances : Has(pending_modem_pins_'[j], n) => Has(pending_modem_pins_[j], n) \/ n = new
        BY <1>h, <1>p, Zenon
      <3> QED
        BY <1>f, <1>i, <2>1, <3>1, Zenon DEF Disjoint
    <2> QED
      BY <1>a, <1>y, <2>1, Zenon DEF Disjoint, Answered
  <1>5. NoneLost'
    <2>1. ASSUME NEW k \in DOMAIN asked'
          PROVE  \/ Has(pending_modem_pins_'[asked'[k].instance], asked'[k].n)
                 \/ Has(running.todo, asked'[k].n) \/ Answered(asked'[k].n)
      <3>1. CASE k = e
        BY <1>b, <1>c, <1>h, <3>1, Zenon
      <3>2. CASE k # e
        <4>1. k \in DOMAIN asked /\ asked'[k] = asked[k] /\ asked[k].instance \in Instances
          BY <1>c, <1>q, <3>2, Zenon
        <4> QED
          BY <1>h, <1>i, <1>p, <4>1, Zenon DEF NoneLost
      <3> QED
        BY <3>1, <3>2
    <2> QED
      BY <1>a, <1>y, <2>1, Zenon DEF NoneLost, Answered
  <1>6. OwnAnswerComes'
    <2>1. ASSUME NEW k \in DOMAIN asked', asked'[k].alone
          PROVE  /\ Has(pending_modem_pins_'[asked'[k].instance], asked'[k].n) =>
                       NextAnswer(inbox, outbox', asked'[k].instance, pins[asked'[k].instance], asked'[k].lines)
                 /\ Has(running.todo, asked'[k].n) => from_bits(running.bits) = asked'[k].lines
                 /\ \A j \in DOMAIN answers : answers[j].n = asked'[k].n => answers[j].lines = asked'[k].lines
      <3>1. CASE k = e
        <4>1. Alone(i)
          BY <1>b, <1>c, <2>1, <3>1, Zenon
        <4>2. /\ \A p \in DOMAIN inbox : ~IsAnswer(inbox[p], i)
              /\ \A p \in DOMAIN outbox : ~IsGet(outbox[p], i)
          BY <4>1, Zenon DEF Alone, IsAnswer, IsGet
        <4>3. LinesBefore(outbox, Len(outbox) + 1, i, pins[i], lines_set[i])
          BY <1>i, Zenon DEF LinesUnderWay
        <4>4. NextAnswer(inbox, Append(outbox, r), i, pins[i], lines_set[i])
          BY <1>r, <1>t, <4>2, <4>3, AnswerAlone, Zenon
        <4> QED
          BY <1>a, <1>b, <1>c, <1>f, <3>1, <4>4, Zenon DEF Answered
      <3>2. CASE k # e
        <4>1. k \in DOMAIN asked /\ asked'[k] = asked[k] /\ asked[k].instance \in Instances
          BY <1>c, <1>q, <3>2, Zenon
        <4>2. Has(pending_modem_pins_'[asked[k].instance], asked[k].n)
                 => Has(pending_modem_pins_[asked[k].instance], asked[k].n)
          BY <1>f, <1>h, <1>p, <4>1, Zenon
        <4>3. \A j, l : NextAnswer(inbox, outbox, j, pins[j], l) => NextAnswer(inbox, outbox', j, pins[j], l)
          BY <1>a, <1>r, <1>t, AnswerAsked, Zenon
        <4>4. asked[k].alone
          BY <2>1, <4>1, Zenon
        <4> QED
          BY <1>i, <4>1, <4>2, <4>3, <4>4, Zenon DEF OwnAnswerComes
      <3> QED
        BY <3>1, <3>2
    <2>2. running' = running /\ answers' = answers /\ inbox' = inbox /\ pins' = pins
      BY <1>a, Zenon
    <2> QED
      BY <2>1, <2>2, Zenon DEF OwnAnswerComes
  <1> QED
    BY <1>1, <1>2, <1>3, <1>4, <1>5, <1>6, Zenon DEF CallbacksHeld

(* get_modem_pins, with and without a callback: the queue of its instance grows. *)
LEMMA GetStep ==
  ASSUME SubInv, NEW i \in Instances, NEW once \in BOOLEAN, get_modem_pins(i, once)
  PROVE  SubInv'
  <1> DEFINE r == Pins("Get", i, 0)
  <1>i. /\ SubTypes /\ HandlersPlaced /\ LinesUnderWay /\ Heard(outbox, said, heard)
        /\ EveryHandlerHears
        /\ outbox \in Seq(Sent) /\ lines_set \in [Instances -> Lines] /\ asked \in Seq(Asked)
        /\ pending_modem_pins_ \in [Instances -> Seq(Nat)]
    BY Zenon DEF SubInv, SubTypes
  <1>a. /\ outbox' = Append(outbox, r) /\ calls' = calls + 1
        /\ UNCHANGED <<slot, instance_data_handlers_, wanted, next_call_id_, lines_set, said>>
        /\ UNCHANGED <<program, running, inbox, ran, answers, heard, pins>>
    BY Zenon DEF get_modem_pins, Calls
  <1>r. r \in Sent /\ IsPins(r) /\ \A j : ~IsSet(r, j)
    <2>1. 0 \in Nat
      OBVIOUS
    <2>2. r.name = "Get" /\ r \in PinsRequests
      BY <2>1, Zenon DEF Pins, PinsRequests
    <2> HIDE DEF r
    <2> QED
      BY <2>2, Zenon DEF Sent, IsPins, IsSet
  <1> HIDE DEF r
  <1>1. Heard(outbox, said, heard)'
    <2>1. Heard(Append(outbox, r), said, heard)
      BY <1>i, <1>r, HeardPins, Zenon
    <2> QED
      BY <1>a, <2>1, Zenon
  <1>2. LinesUnderWay'
    <2>1. \A j \in Instances : LinesBefore(Append(outbox, r), Len(Append(outbox, r)) + 1, j, pins[j],
                                           lines_set[j])
      BY <1>i, <1>r, LinesPast, Zenon DEF LinesUnderWay
    <2> QED
      BY <1>a, <2>1, Zenon DEF LinesUnderWay
  <1>3. outbox' \in Seq(Sent) /\ calls' \in Nat
    BY <1>a, <1>i, <1>r, AppendedIs, CallNumber, Zenon
  <1>4. CASE once = FALSE
    <2>1. UNCHANGED <<registered, table, pending_modem_pins_, asked>>
      BY <1>4, Zenon DEF get_modem_pins
    <2>2. CallbacksUntouched
      BY <1>a, <2>1, Zenon DEF CallbacksUntouched
    <2>3. EveryHandlerHears' /\ CallbacksHeld' /\ Disjoint' /\ NoneLost' /\ OwnAnswerComes'
      BY <1>a, <1>r, <2>2, CallKeeps, Zenon DEF Sends
    <2>4. HandlersPlaced'
      BY <1>a, <1>i, <2>1, HandlersUntouched, Zenon
    <2>5. SubTypes'
      BY <1>a, <1>i, <1>3, <2>1, Zenon DEF SubTypes
    <2> QED
      BY <1>1, <1>2, <2>3, <2>4, <2>5, Zenon DEF SubInv
  <1>5. CASE once = TRUE
    <2>1. get_modem_pins(i, TRUE)
      BY <1>5, Zenon
    <2>2. CallbacksHeld' /\ Disjoint' /\ NoneLost' /\ OwnAnswerComes'
      BY <2>1, GetHolds, Zenon
    <2>3. EveryHandlerHears'
      BY <1>a, <1>i, Zenon DEF EveryHandlerHears
    <2>4. HandlersPlaced' /\ table' \in [Ids -> Slots \cup {"none"}]
      <3>1. ensure_handler(PinsId, "SerialProxy_on_modem_pins")
        BY <2>1, Zenon DEF get_modem_pins
      <3>2. /\ slot["SerialProxy_on_data"] = wanted[DataId]
            /\ slot["SerialProxy_on_modem_pins"] = wanted[PinsId]
            /\ \A j \in Instances : instance_data_handlers_[j] = wanted[j]
        BY <1>i, Zenon DEF HandlersPlaced
      <3>3. slot' = slot /\ wanted' = wanted /\ instance_data_handlers_' = instance_data_handlers_
        BY <1>a, Zenon
      <3> QED
        BY <1>i, <3>1, <3>2, <3>3, SerialPlaced, Zenon
    <2>5. SubTypes'
      <3> DEFINE a == [n |-> calls + 1, instance |-> i, alone |-> Alone(i), lines |-> lines_set[i]]
      <3>1. /\ pending_modem_pins_' = [pending_modem_pins_ EXCEPT ![i] = Append(@, calls + 1)]
            /\ asked' = Append(asked, a)
        BY <2>1, Zenon DEF get_modem_pins
      <3>2. calls + 1 \in Nat /\ Alone(i) \in BOOLEAN
        BY <1>i, CallNumber, Zenon DEF Alone
      <3>3. a \in Asked
        BY <1>i, <3>2, Zenon DEF Asked
      <3> HIDE DEF a
      <3>4. asked' \in Seq(Asked)
        BY <1>i, <3>1, <3>3, AppendedIs, Zenon
      <3>5. pending_modem_pins_' \in [Instances -> Seq(Nat)]
        BY <1>i, <3>1, <3>2, AppendedIs
      <3> QED
        BY <1>a, <1>i, <1>3, <2>4, <3>4, <3>5, Zenon DEF SubTypes
    <2> QED
      BY <1>1, <1>2, <2>2, <2>3, <2>4, <2>5, Zenon DEF SubInv
  <1> QED
    BY <1>4, <1>5, Zenon

-----------------------------------------------------------------------------
(* A message that is no answer about modem lines, or one that nobody asked     *)
(* for, leaves the callbacks alone.                                            *)
LEMMA MessageTaken ==
  ASSUME SubInv, Receives,
         Head(inbox).id # PinsId \/ \A i \in Instances : pending_modem_pins_[i] = <<>>,
         UNCHANGED <<running, table, slot, instance_data_handlers_, pending_modem_pins_,
                     registered, next_call_id_>>,
         EveryHandlerHears'
  PROVE  SubInv'
  <1>i. /\ SubTypes /\ HandlersPlaced /\ Heard(outbox, said, heard) /\ CallbacksHeld
        /\ Disjoint /\ NoneLost /\ LinesUnderWay /\ OwnAnswerComes
    BY Zenon DEF SubInv
  <1>j. CallsNumbered /\ PendingHeld /\ RunningHeld /\ AnswersHeld
    BY <1>i, Zenon DEF CallbacksHeld
  <1>a. /\ inbox # <<>> /\ inbox' = Tail(inbox)
        /\ program' = program /\ calls' = calls /\ outbox' = outbox /\ answers' = answers
        /\ heard' = heard /\ pins' = pins /\ wanted' = wanted /\ asked' = asked
        /\ lines_set' = lines_set /\ said' = said
    BY Zenon DEF Receives, history
  <1>u. /\ running' = running /\ table' = table /\ slot' = slot
        /\ instance_data_handlers_' = instance_data_handlers_
        /\ pending_modem_pins_' = pending_modem_pins_ /\ registered' = registered
        /\ next_call_id_' = next_call_id_
    OBVIOUS
  <1>1. inbox \in Seq(Messages) /\ inbox' \in Seq(Messages)
    <2>1. inbox \in Seq(Messages)
      BY <1>i, Zenon DEF SubTypes
    <2> QED
      BY <1>a, <2>1, Taken, Zenon
  <1>2. SubTypes'
    BY <1>1, <1>a, <1>i, <1>u, Zenon DEF SubTypes
  <1>3. HandlersPlaced'
    BY <1>a, <1>i, <1>u, HandlersUntouched, Zenon
  <1>4. CallsNumbered' /\ AnswersHeld'
    BY <1>a, <1>j, Zenon DEF CallsNumbered, AnswersHeld, OfCall
  <1>o. \A m, j : OfCall(m, j) => OfCall(m, j)'
    BY <1>a, Zenon DEF OfCall
  <1>5. PendingHeld'
    BY <1>j, <1>o, <1>u DEF PendingHeld
  <1>6. RunningHeld'
    BY <1>j, <1>o, <1>u, Zenon DEF RunningHeld
  <1>7. Disjoint' /\ NoneLost'
    BY <1>a, <1>i, <1>u, Zenon DEF Disjoint, NoneLost, Answered
  <1>8. LinesUnderWay' /\ Heard(outbox, said, heard)'
    BY <1>a, <1>i, Zenon DEF LinesUnderWay
  <1>9. OwnAnswerComes'
    <2>1. CASE Head(inbox).id # PinsId
      <3>1. \A i, l : NextAnswer(inbox, outbox, i, pins[i], l) => NextAnswer(inbox', outbox, i, pins[i], l)
        BY <1>1, <1>a, <2>1, AnswerHandled, Zenon DEF IsAnswer
      <3> QED
        BY <1>a, <1>i, <1>u, <3>1, Zenon DEF OwnAnswerComes
    <2>2. CASE \A i \in Instances : pending_modem_pins_[i] = <<>>
      <3>1. DOMAIN <<>> = {}
        OBVIOUS
      <3>2. \A k \in DOMAIN asked : asked[k].instance \in Instances
        BY <1>i, AskedTypes, Zenon
      <3>3. \A k \in DOMAIN asked : \A n : ~Has(pending_modem_pins_[asked[k].instance], n)
        BY <2>2, <3>1, <3>2, Zenon DEF Has
      <3> QED
        BY <1>a, <1>i, <1>u, <3>3, Zenon DEF OwnAnswerComes
    <2> QED
      BY <2>1, <2>2
  <1> QED
    BY <1>2, <1>3, <1>4, <1>5, <1>6, <1>7, <1>8, <1>9, Zenon DEF SubInv, CallbacksHeld

(* The message that is received. *)
LEMMA FirstMessage ==
  ASSUME SubTypes, Receives
  PROVE  /\ inbox \in Seq(Messages) /\ inbox # <<>> /\ Head(inbox) \in Messages
         /\ Head(inbox).id \in Ids /\ Head(inbox).instance \in Instances
         /\ Head(inbox).bits \in Nat /\ Tail(inbox) \in Seq(Messages)
  <1>1. inbox \in Seq(Messages) /\ inbox # <<>>
    BY Zenon DEF SubTypes, Receives
  <1>2. Head(inbox) \in Messages /\ Tail(inbox) \in Seq(Messages)
    BY <1>1, Taken, Zenon
  <1> QED
    BY <1>1, <1>2, Zenon DEF Messages

(* A message of the other managers runs the handler in the table. *)
LEMMA HandleMessageStep ==
  ASSUME SubInv, handle_message
  PROVE  SubInv'
  <1> DEFINE id == Head(inbox).id
             m == table[id]
  <1>i. SubTypes /\ HandlersPlaced
    BY Zenon DEF SubInv
  <1>a. /\ Receives /\ id \notin {DataId, PinsId}
        /\ Ran(id, IF m = "none" THEN {} ELSE {slot[m]}, {wanted[id]},
               IF m = "none" THEN {} ELSE Registrations[m].fills)
        /\ UNCHANGED <<running, table, slot, instance_data_handlers_, pending_modem_pins_,
                       registered, next_call_id_>>
    BY Zenon DEF handle_message
  <1>b. id \in Ids
    BY <1>a, <1>i, FirstMessage, Zenon
  <1>h. \/ m = "none" /\ wanted[id] = 0
        \/ m \in Methods /\ Registrations[m].id = id /\ slot[m] = wanted[id]
    BY <1>a, <1>b, <1>i, Zenon DEF HandlersPlaced, Methods
  <1> HIDE DEF id, m
  <1>1. EveryHandlerHears'
    <2>1. CASE m = "none" /\ wanted[id] = 0
      <3>1. ran' = [id |-> id, handlers |-> {} \ {0}, due |-> {0} \ {0}, members |-> {}]
        BY <1>a, <2>1, Zenon DEF Ran
      <3>2. ran'.handlers = {} /\ ran'.due = {}
        BY <3>1
      <3> QED
        BY <3>2, Zenon DEF EveryHandlerHears
    <2>2. CASE m \in Methods /\ Registrations[m].id = id /\ slot[m] = wanted[id]
      <3>1. m # "none"
        BY <2>2, Names, Zenon
      <3>2. ran' = [id |-> id, handlers |-> {wanted[id]} \ {0}, due |-> {wanted[id]} \ {0},
                    members |-> Registrations[m].fills]
        <4>1. Ran(id, {slot[m]}, {wanted[id]}, Registrations[m].fills)
          BY <1>a, <3>1
        <4> QED
          BY <2>2, <4>1, Zenon DEF Ran
      <3>3. ran'.handlers = ran'.due /\ ran'.id = id /\ ran'.members = Promises[m].members
        BY <2>2, <3>2, PromiseKept, Zenon
      <3>4. \A n \in Methods : Promises[n].id = id => n = m
        <4>1. Promises[m].id = id /\ m \in Methods
          BY <2>2, PromiseKept, Zenon
        <4> QED
          BY <4>1, IdsDiffer, Zenon
      <3> QED
        BY <3>3, <3>4, MethodNames, Zenon DEF EveryHandlerHears
    <2> QED
      BY <1>h, <2>1, <2>2
  <1> QED
    BY <1>1, <1>a, MessageTaken, Zenon DEF id

(* Serial data runs the general handler and that of the instance. *)
LEMMA HandleDataStep ==
  ASSUME SubInv, handle_data
  PROVE  SubInv'
  <1> DEFINE i == Head(inbox).instance
  <1>i. SubTypes /\ HandlersPlaced
    BY Zenon DEF SubInv
  <1>a. /\ Receives /\ Head(inbox).id = DataId
        /\ Ran(DataId, IF table[DataId] = "none" THEN {}
                       ELSE {slot["SerialProxy_on_data"], instance_data_handlers_[i]},
               {wanted[DataId], wanted[i]}, {"instance", "data"})
        /\ UNCHANGED running /\ UNCHANGED proxy_vars
    BY Zenon DEF handle_data
  <1>u. UNCHANGED <<running, table, slot, instance_data_handlers_, pending_modem_pins_,
                    registered, next_call_id_>>
    BY <1>a, Zenon DEF proxy_vars
  <1>b. i \in Instances
    BY <1>a, <1>i, FirstMessage, Zenon
  <1>h. /\ slot["SerialProxy_on_data"] = wanted[DataId]
        /\ instance_data_handlers_[i] = wanted[i]
        /\ table[DataId] = "none" => wanted[DataId] = 0 /\ wanted[i] = 0
    BY <1>b, <1>i, Zenon DEF HandlersPlaced
  <1> HIDE DEF i
  <1>1. EveryHandlerHears'
    <2>1. /\ ran'.handlers = (IF table[DataId] = "none" THEN {} ELSE {wanted[DataId], wanted[i]}) \ {0}
          /\ ran'.due = {wanted[DataId], wanted[i]} \ {0} /\ ran'.id = DataId
      BY <1>a, <1>h, Zenon DEF Ran
    <2>2. ran'.handlers = ran'.due
      BY <1>h, <2>1
    <2> QED
      BY <2>1, <2>2, Zenon DEF EveryHandlerHears
  <1> QED
    BY <1>1, <1>a, <1>u, MessageTaken, Names, Zenon

-----------------------------------------------------------------------------
(* handle_pins(): the callbacks of the instance are moved out, behind them the *)
(* persistent handler.                                                         *)
LEMMA HasZeroLast ==
  ASSUME NEW s \in Seq(Nat), Distinct(s), \A n : Has(s, n) => n # 0
  PROVE  /\ s \o <<0>> \in Seq(Nat) /\ s \o <<0>> # <<>> /\ Distinct(s \o <<0>>)
         /\ \A n : Has(s \o <<0>>, n) <=> Has(s, n) \/ n = 0
         /\ \A p \in DOMAIN (s \o <<0>>) : (s \o <<0>>)[p] = 0 => p = Len(s \o <<0>>)
  <1> DEFINE t == Append(s, 0)
  <1>0. 0 \in Nat /\ <<0>> \in Seq(Nat) /\ Len(<<0>>) = 1 /\ <<0>>[1] = 0
    OBVIOUS
  <1>1. s \o <<0>> = t
    BY <1>0, OneMore, Zenon
  <1>2. /\ \A n : Has(t, n) <=> Has(s, n) \/ n = 0
        /\ t # <<>> /\ t \in Seq(Nat)
        /\ Distinct(s) /\ ~Has(s, 0) => Distinct(t)
    BY <1>0, HasAppended, Zenon
  <1>3. \A p \in DOMAIN t : t[p] = 0 => p = Len(t)
    <2>1. ASSUME NEW p \in DOMAIN t, t[p] = 0, p # Len(t) PROVE FALSE
      <3>1. p \in DOMAIN s /\ s[p] = 0
        BY <2>1
      <3> QED
        BY <3>1, Zenon DEF Has
    <2> QED
      BY <2>1
  <1> HIDE DEF t
  <1> QED
    BY <1>1, <1>2, <1>3, Zenon

(* An answer moves the whole queue of its instance to the running callbacks. *)
LEMMA HandlePinsHolds ==
  ASSUME SubInv, handle_pins, table[PinsId] # "none"
  PROVE  CallbacksHeld' /\ Disjoint' /\ NoneLost' /\ OwnAnswerComes' /\ SubTypes'
  <1> DEFINE i == Head(inbox).instance
             s == pending_modem_pins_[i]
             t == s \o <<0>>
  <1>i. SubTypes /\ CallbacksHeld /\ Disjoint /\ NoneLost /\ OwnAnswerComes
    BY Zenon DEF SubInv
  <1>j. CallsNumbered /\ PendingHeld /\ RunningHeld /\ AnswersHeld
    BY <1>i, Zenon DEF CallbacksHeld
  <1>r. Receives /\ Head(inbox).id = PinsId
    BY Zenon DEF handle_pins
  <1>m. /\ inbox \in Seq(Messages) /\ inbox # <<>> /\ i \in Instances /\ Head(inbox).bits \in Nat
        /\ Tail(inbox) \in Seq(Messages)
    BY <1>i, <1>r, FirstMessage, Zenon
  <1>p. pending_modem_pins_ \in [Instances -> Seq(Nat)] /\ s \in Seq(Nat)
    <2>1. pending_modem_pins_ \in [Instances -> Seq(Nat)]
      BY <1>i, Zenon DEF SubTypes
    <2> QED
      BY <1>m, <2>1, Zenon
  <1>a. /\ inbox' = Tail(inbox) /\ running.todo = <<>>
        /\ program' = program /\ calls' = calls /\ outbox' = outbox /\ answers' = answers
        /\ heard' = heard /\ pins' = pins /\ wanted' = wanted /\ asked' = asked
        /\ lines_set' = lines_set /\ said' = said
    BY <1>r, Zenon DEF Receives, history
  <1>b. /\ running' = [todo |-> t, inside |-> FALSE, instance |-> i, bits |-> Head(inbox).bits]
        /\ pending_modem_pins_' = [pending_modem_pins_ EXCEPT ![i] = <<>>]
    BY Zenon DEF handle_pins
  <1>u. /\ table' = table /\ slot' = slot /\ instance_data_handlers_' = instance_data_handlers_
        /\ registered' = registered /\ next_call_id_' = next_call_id_
    BY Zenon DEF handle_pins
  <1> HIDE DEF i
  <1>c. /\ running'.todo = t /\ running'.instance = i /\ running'.bits = Head(inbox).bits
    BY <1>b, Zenon
  <1>d. /\ pending_modem_pins_'[i] = <<>>
        /\ \A j \in Instances : j # i => pending_modem_pins_'[j] = pending_modem_pins_[j]
    BY <1>b, <1>m, <1>p, Zenon
  <1>e. \A n : ~Has(<<>>, n) /\ Distinct(<<>>)
    <2>1. DOMAIN <<>> = {}
      OBVIOUS
    <2> QED
      BY <2>1, Zenon DEF Has, Distinct
  <1>s. /\ Distinct(s) /\ \A n : Has(s, n) => OfCall(n, i)
    BY <1>j, <1>m, Zenon DEF PendingHeld
  <1>z. \A n, j : OfCall(n, j) => n # 0
    BY <1>j, Zenon DEF OfCall, CallsNumbered
  <1>t. /\ t \in Seq(Nat) /\ t # <<>> /\ Distinct(t)
        /\ \A n : Has(t, n) <=> Has(s, n) \/ n = 0
        /\ \A p \in DOMAIN t : t[p] = 0 => p = Len(t)
    BY <1>p, <1>s, <1>z, HasZeroLast, Zenon
  <1>q. \A k \in DOMAIN asked : asked[k].n # 0 /\ asked[k].instance \in Instances
    BY <1>i, <1>j, AskedTypes, Zenon DEF CallsNumbered
  <1> HIDE DEF s, t
  <1>o. /\ \A m, j : OfCall(m, j) <=> OfCall(m, j)'
        /\ \A m : Answered(m) <=> Answered(m)'
    BY <1>a, Zenon DEF OfCall, Answered
  <1>1. CallsNumbered' /\ AnswersHeld'
    BY <1>a, <1>j, <1>o, Zenon DEF CallsNumbered, AnswersHeld
  <1>2. PendingHeld'
    <2>1. ASSUME NEW j \in Instances
          PROVE  /\ Distinct(pending_modem_pins_'[j])
                 /\ \A n : Has(pending_modem_pins_'[j], n) => OfCall(n, j)'
                 /\ pending_modem_pins_'[j] # <<>> => PinsId \in registered'
      <3>1. CASE j = i
        BY <1>d, <1>e, <3>1
      <3>2. CASE j # i
        <4>1. pending_modem_pins_'[j] = pending_modem_pins_[j]
          BY <1>d, <3>2
        <4>2. /\ Distinct(pending_modem_pins_[j])
              /\ \A n : Has(pending_modem_pins_[j], n) => OfCall(n, j)
              /\ pending_modem_pins_[j] # <<>> => PinsId \in registered
          BY <1>j, Zenon DEF PendingHeld
        <4> QED
          BY <1>o, <1>u, <4>1, <4>2
      <3> QED
        BY <3>1, <3>2
    <2> QED
      BY <2>1, Zenon DEF PendingHeld
  <1>3. RunningHeld'
    <2>1. \A n : Has(t, n) /\ n # 0 =>
             \E k \in DOMAIN asked' : asked'[k].n = n /\ asked'[k].instance = i
      BY <1>a, <1>s, <1>t, Zenon DEF OfCall
    <2> QED
      BY <1>c, <1>m, <1>t, <2>1, Zenon DEF RunningHeld, OfCall
  <1>4. Disjoint'
    <2>1. ASSUME NEW n, n # 0
          PROVE  /\ \A j \in Instances :
                       Has(pending_modem_pins_'[j], n) => ~Has(t, n) /\ ~Answered(n)
                 /\ Has(t, n) => ~Answered(n)
      <3>0. \A j \in Instances : Has(pending_modem_pins_[j], n) => ~Answered(n) /\ OfCall(n, j)
        BY <1>i, <1>j, <2>1, Zenon DEF Disjoint, PendingHeld
      <3>1. ASSUME NEW j \in Instances, Has(pending_modem_pins_'[j], n)
            PROVE  ~Has(t, n) /\ ~Answered(n)
        <4>1. j # i /\ Has(pending_modem_pins_[j], n)
          BY <1>d, <1>e, <3>1
        <4>2. OfCall(n, j) /\ ~Answered(n)
          BY <3>0, <4>1
        <4>3. ~OfCall(n, i)
          BY <1>j, <4>1, <4>2, Zenon DEF OfCall, CallsNumbered
        <4> QED
          BY <1>s, <1>t, <2>1, <4>2, <4>3
      <3>2. Has(t, n) => ~Answered(n)
        BY <1>m, <1>t, <2>1, <3>0 DEF s
      <3> QED
        BY <3>1, <3>2
    <2> QED
      BY <1>c, <1>o, <2>1, Zenon DEF Disjoint
  <1>5. NoneLost'
    <2>1. ASSUME NEW k \in DOMAIN asked
          PROVE  \/ Has(pending_modem_pins_'[asked[k].instance], asked[k].n)
                 \/ Has(t, asked[k].n) \/ Answered(asked[k].n)
      <3>1. \/ Has(pending_modem_pins_[asked[k].instance], asked[k].n)
            \/ Has(running.todo, asked[k].n) \/ Answered(asked[k].n)
        BY <1>i, Zenon DEF NoneLost
      <3>2. ~Has(running.todo, asked[k].n)
        BY <1>a, <1>e
      <3> QED
        BY <1>d, <1>q, <1>t, <3>1, <3>2 DEF s
    <2> QED
      BY <1>a, <1>c, <1>o, <2>1, Zenon DEF NoneLost
  <1>6. OwnAnswerComes'
    <2>1. ASSUME NEW k \in DOMAIN asked, asked[k].alone
          PROVE  /\ Has(pending_modem_pins_'[asked[k].instance], asked[k].n) =>
                       NextAnswer(inbox', outbox, asked[k].instance, pins[asked[k].instance], asked[k].lines)
                 /\ Has(t, asked[k].n) => from_bits(Head(inbox).bits) = asked[k].lines
                 /\ \A j \in DOMAIN answers : answers[j].n = asked[k].n => answers[j].lines = asked[k].lines
      <3>1. /\ Has(pending_modem_pins_[asked[k].instance], asked[k].n) =>
                  NextAnswer(inbox, outbox, asked[k].instance, pins[asked[k].instance], asked[k].lines)
            /\ \A j \in DOMAIN answers : answers[j].n = asked[k].n => answers[j].lines = asked[k].lines
        BY <1>i, <2>1, Zenon DEF OwnAnswerComes
      <3>2. ASSUME Has(pending_modem_pins_'[asked[k].instance], asked[k].n)
            PROVE  NextAnswer(inbox', outbox, asked[k].instance, pins[asked[k].instance], asked[k].lines)
        <4>1. asked[k].instance # i /\ Has(pending_modem_pins_[asked[k].instance], asked[k].n)
          BY <1>d, <1>e, <1>q, <3>2
        <4>2. ~IsAnswer(Head(inbox), asked[k].instance)
          BY <4>1, Zenon DEF IsAnswer, i
        <4>3. NextAnswer(inbox, outbox, asked[k].instance, pins[asked[k].instance], asked[k].lines)
          BY <3>1, <4>1
        <4> QED
          BY <1>a, <1>m, <4>2, <4>3, AnswerHandled, Zenon
      <3>3. ASSUME Has(t, asked[k].n) PROVE from_bits(Head(inbox).bits) = asked[k].lines
        <4>1. Has(s, asked[k].n)
          BY <1>q, <1>t, <3>3
        <4>2. OfCall(asked[k].n, i)
          BY <1>s, <4>1
        <4>3. asked[k].instance = i
          BY <1>j, <4>2, Zenon DEF OfCall, CallsNumbered
        <4>4. NextAnswer(inbox, outbox, i, pins[i], asked[k].lines)
          BY <3>1, <4>1, <4>3 DEF s
        <4>5. IsAnswer(Head(inbox), i)
          BY <1>r, Zenon DEF IsAnswer, i
        <4> QED
          BY <1>m, <4>4, <4>5, AnswerHandled, Zenon
      <3> QED
        BY <3>1, <3>2, <3>3
    <2> QED
      BY <1>a, <1>c, <2>1, Zenon DEF OwnAnswerComes
  <1>7. SubTypes'
    <2>1. running' \in [todo : Seq(Nat), inside : BOOLEAN, instance : Instances \cup {""},
                        bits : Nat]
      BY <1>b, <1>m, <1>t, Zenon
    <2>2. pending_modem_pins_' \in [Instances -> Seq(Nat)]
      <3>1. <<>> \in Seq(Nat)
        OBVIOUS
      <3> QED
        BY <1>b, <1>p, <3>1, Zenon
    <2>3. inbox' \in Seq(Messages)
      BY <1>a, <1>m
    <2> QED
      BY <1>a, <1>i, <1>u, <2>1, <2>2, <2>3, Zenon DEF SubTypes
  <1> QED
    BY <1>1, <1>2, <1>3, <1>4, <1>5, <1>6, <1>7, Zenon DEF CallbacksHeld

(* The step of an answer about modem lines. *)
LEMMA HandlePinsStep ==
  ASSUME SubInv, handle_pins
  PROVE  SubInv'
  <1>i. SubTypes /\ HandlersPlaced /\ EveryHandlerHears /\ LinesUnderWay /\ Heard(outbox, said, heard)
    BY Zenon DEF SubInv
  <1>r. /\ Receives
        /\ UNCHANGED <<table, slot, instance_data_handlers_, registered, next_call_id_, ran>>
    BY Zenon DEF handle_pins
  <1>1. EveryHandlerHears'
    BY <1>i, <1>r, Zenon DEF EveryHandlerHears
  <1>2. CASE table[PinsId] = "none"
    <2>1. UNCHANGED <<running, pending_modem_pins_>>
      BY <1>2, Zenon DEF handle_pins
    <2>2. PinsId \notin registered
      BY <1>2, <1>i, Zenon DEF HandlersPlaced
    <2>3. \A i \in Instances : pending_modem_pins_[i] = <<>>
      BY <2>2, Zenon DEF SubInv, CallbacksHeld, PendingHeld
    <2> QED
      BY <1>1, <1>r, <2>1, <2>3, MessageTaken, Zenon
  <1>3. CASE table[PinsId] # "none"
    <2>1. CallbacksHeld' /\ Disjoint' /\ NoneLost' /\ OwnAnswerComes' /\ SubTypes'
      BY <1>3, HandlePinsHolds, Zenon
    <2>2. /\ outbox' = outbox /\ said' = said /\ heard' = heard /\ pins' = pins
          /\ lines_set' = lines_set /\ wanted' = wanted
      BY <1>r, Zenon DEF Receives, history
    <2>3. LinesUnderWay' /\ Heard(outbox, said, heard)'
      BY <1>i, <2>2, Zenon DEF LinesUnderWay
    <2>4. HandlersPlaced'
      BY <1>i, <1>r, <2>2, HandlersUntouched, Zenon
    <2> QED
      BY <1>1, <2>1, <2>3, <2>4, Zenon DEF SubInv
  <1> QED
    BY <1>2, <1>3

-----------------------------------------------------------------------------
(* run_callback(): the first of those moved out.  After the persistent handler *)
(* nothing is left.                                                            *)
LEMMA HasTail ==
  ASSUME NEW s \in Seq(Nat), s # <<>>, Distinct(s)
  PROVE  /\ \A n : Has(s, n) <=> n = Head(s) \/ Has(Tail(s), n)
         /\ ~Has(Tail(s), Head(s)) /\ Distinct(Tail(s)) /\ Tail(s) \in Seq(Nat)
         /\ (\A p \in DOMAIN s : s[p] = 0 => p = Len(s))
               => \A p \in DOMAIN Tail(s) : Tail(s)[p] = 0 => p = Len(Tail(s))
  <1> DEFINE t == Tail(s)
  <1>1. /\ 1 \in DOMAIN s /\ s[1] = Head(s) /\ t \in Seq(Nat)
        /\ \A i \in DOMAIN t : i \in Nat \ {0} /\ i + 1 \in DOMAIN s /\ t[i] = s[i + 1] /\ i + 1 # 1
        /\ \A i \in DOMAIN s : i = 1 \/ (i - 1 \in DOMAIN t /\ t[i - 1] = s[i])
        /\ Len(t) = Len(s) - 1 /\ Len(s) \in Nat
    BY Taken
  <1> HIDE DEF t
  <1>2. \A n : Has(s, n) <=> n = Head(s) \/ Has(t, n)
    BY <1>1, Zenon DEF Has
  <1>3. ~Has(t, Head(s))
    BY <1>1, Zenon DEF Has, Distinct
  <1>4. Distinct(t)
    <2>1. ASSUME NEW p \in DOMAIN t, NEW q \in DOMAIN t, t[p] = t[q] PROVE p = q
      <3>1. p + 1 \in DOMAIN s /\ q + 1 \in DOMAIN s /\ s[p + 1] = s[q + 1]
        BY <1>1, <2>1
      <3>2. p + 1 = q + 1
        BY <3>1, Zenon DEF Distinct
      <3> QED
        BY <1>1, <3>2
    <2> QED
      BY <2>1 DEF Distinct
  <1>5. (\A p \in DOMAIN s : s[p] = 0 => p = Len(s))
           => \A p \in DOMAIN t : t[p] = 0 => p = Len(t)
    BY <1>1
  <1> QED
    BY <1>1, <1>2, <1>3, <1>4, <1>5, Zenon DEF t

(* The persistent handler runs: no one-shot callback is touched. *)
LEMMA RunHandlerStep ==
  ASSUME SubInv, run_callback, Head(running.todo) = 0
  PROVE  SubInv'
  <1>i. /\ SubTypes /\ HandlersPlaced /\ Heard(outbox, said, heard) /\ CallbacksHeld
        /\ Disjoint /\ NoneLost /\ LinesUnderWay /\ OwnAnswerComes
    BY Zenon DEF SubInv
  <1>j. CallsNumbered /\ PendingHeld /\ RunningHeld /\ AnswersHeld
    BY <1>i, Zenon DEF CallbacksHeld
  <1>t. running.todo # <<>> /\ running.todo \in Seq(Nat)
    BY <1>i, Zenon DEF run_callback, SubTypes
  <1>a. /\ running' = NotRunning /\ answers' = answers
        /\ Ran(PinsId, {slot["SerialProxy_on_modem_pins"]}, {wanted[PinsId]},
               {"instance", "lines"})
    BY Zenon DEF run_callback
  <1>u. /\ program' = program /\ calls' = calls /\ outbox' = outbox /\ inbox' = inbox
        /\ heard' = heard /\ pins' = pins /\ wanted' = wanted /\ asked' = asked
        /\ lines_set' = lines_set /\ said' = said
        /\ table' = table /\ slot' = slot /\ instance_data_handlers_' = instance_data_handlers_
        /\ pending_modem_pins_' = pending_modem_pins_ /\ registered' = registered
        /\ next_call_id_' = next_call_id_
    BY Zenon DEF run_callback, proxy_vars, history
  <1>n. running'.todo = <<>>
    BY <1>a, Zenon DEF NotRunning
  <1>e. (\A n : ~Has(<<>>, n)) /\ Distinct(<<>>) /\ DOMAIN <<>> = {}
    <2>1. DOMAIN <<>> = {}
      OBVIOUS
    <2> QED
      BY <2>1, Zenon DEF Has, Distinct
  <1>l. \A n : Has(running.todo, n) => n = 0
    <2>1. 1 \in DOMAIN running.todo /\ running.todo[1] = 0
      BY <1>t, Taken
    <2>2. 1 = Len(running.todo)
      BY <1>j, <2>1, Zenon DEF RunningHeld
    <2>3. DOMAIN running.todo = {1}
      BY <1>t, <2>2
    <2> QED
      BY <2>1, <2>3, Zenon DEF Has
  <1>1. EveryHandlerHears'
    <2>1. slot["SerialProxy_on_modem_pins"] = wanted[PinsId]
      BY <1>i, Zenon DEF HandlersPlaced
    <2>2. ran'.handlers = ran'.due /\ ran'.id = PinsId
      BY <1>a, <2>1, Zenon DEF Ran
    <2> QED
      BY <2>2, Zenon DEF EveryHandlerHears
  <1>o. \A m, j : OfCall(m, j) => OfCall(m, j)'
    BY <1>u, Zenon DEF OfCall
  <1>2. CallsNumbered' /\ AnswersHeld'
    BY <1>a, <1>j, <1>o, <1>u, Zenon DEF CallsNumbered, AnswersHeld
  <1>3. PendingHeld'
    BY <1>j, <1>o, <1>u DEF PendingHeld
  <1>4. RunningHeld'
    BY <1>e, <1>n, Zenon DEF RunningHeld
  <1>5. Disjoint'
    BY <1>a, <1>e, <1>i, <1>n, <1>u, Zenon DEF Disjoint, Answered
  <1>6. NoneLost'
    <2>1. \A k \in DOMAIN asked : ~Has(running.todo, asked[k].n)
      BY <1>j, <1>l, Zenon DEF CallsNumbered
    <2> QED
      BY <1>a, <1>i, <1>u, <2>1, Zenon DEF NoneLost, Answered
  <1>7. OwnAnswerComes'
    BY <1>a, <1>e, <1>i, <1>n, <1>u, Zenon DEF OwnAnswerComes
  <1>8. LinesUnderWay' /\ Heard(outbox, said, heard)' /\ HandlersPlaced'
    BY <1>i, <1>u, HandlersUntouched, Zenon DEF LinesUnderWay
  <1>9. SubTypes'
    <2>1. 0 \in Nat /\ <<>> \in Seq(Nat)
      OBVIOUS
    <2>2. running' \in [todo : Seq(Nat), inside : BOOLEAN, instance : Instances \cup {""},
                        bits : Nat]
      BY <1>a, <2>1, Zenon DEF NotRunning
    <2> QED
      BY <1>a, <1>i, <1>u, <2>2, Zenon DEF SubTypes
  <1> QED
    BY <1>1, <1>2, <1>3, <1>4, <1>5, <1>6, <1>7, <1>8, <1>9, Zenon DEF SubInv, CallbacksHeld

(* A one-shot callback runs and becomes an answer. *)
LEMMA RunOnceStep ==
  ASSUME SubInv, run_callback, Head(running.todo) # 0
  PROVE  SubInv'
  <1> DEFINE s == running.todo
             h == Head(s)
             g == [n |-> h, instance |-> running.instance, lines |-> from_bits(running.bits)]
             e == Len(answers) + 1
  <1>i. /\ SubTypes /\ HandlersPlaced /\ Heard(outbox, said, heard) /\ CallbacksHeld
        /\ Disjoint /\ NoneLost /\ LinesUnderWay /\ OwnAnswerComes /\ EveryHandlerHears
    BY Zenon DEF SubInv
  <1>j. CallsNumbered /\ PendingHeld /\ RunningHeld /\ AnswersHeld
    BY <1>i, Zenon DEF CallbacksHeld
  <1>t. /\ s # <<>> /\ answers \in Seq(Given)
        /\ running \in [todo : Seq(Nat), inside : BOOLEAN, instance : Instances \cup {""}, bits : Nat]
    BY <1>i, Zenon DEF run_callback, SubTypes
  <1>s. s \in Seq(Nat) /\ running.bits \in Nat
    BY <1>t, Zenon
  <1>a. /\ running' = [running EXCEPT !.todo = Tail(@), !.inside = TRUE]
        /\ answers' = Append(answers, g) /\ ran' = ran
    BY Zenon DEF run_callback
  <1>u. /\ program' = program /\ calls' = calls /\ outbox' = outbox /\ inbox' = inbox
        /\ heard' = heard /\ pins' = pins /\ wanted' = wanted /\ asked' = asked
        /\ lines_set' = lines_set /\ said' = said
        /\ table' = table /\ slot' = slot /\ instance_data_handlers_' = instance_data_handlers_
        /\ pending_modem_pins_' = pending_modem_pins_ /\ registered' = registered
        /\ next_call_id_' = next_call_id_
    BY Zenon DEF run_callback, proxy_vars, history
  <1>b. /\ running'.todo = Tail(s) /\ running'.instance = running.instance
        /\ running'.bits = running.bits
        /\ running' \in [todo : Seq(Nat), inside : BOOLEAN, instance : Instances \cup {""}, bits : Nat]
    <2>1. Tail(s) \in Seq(Nat)
      BY <1>s, <1>t, Taken, Zenon
    <2> QED
      BY <1>a, <1>t, <2>1, Zenon
  <1>l. \A b \in Nat : from_bits(b) \in Lines
    BY DEF from_bits, Lines
  <1>c. running.instance \in Instances
    BY <1>j, <1>t, Zenon DEF RunningHeld
  <1>g. g \in Given /\ g.n = h /\ g.instance = running.instance /\ g.lines = from_bits(running.bits)
    <2>1. h \in Nat
      BY <1>s, <1>t, Taken, Zenon
    <2> HIDE DEF h
    <2> QED
      BY <1>c, <1>l, <1>s, <2>1, Zenon DEF Given
  <1> HIDE DEF g
  <1>d. /\ DOMAIN answers' = DOMAIN answers \cup {e} /\ e \notin DOMAIN answers /\ answers'[e] = g
        /\ \A k \in DOMAIN answers : answers'[k] = answers[k]
    <2>1. /\ DOMAIN Append(answers, g) = DOMAIN answers \cup {e} /\ e \notin DOMAIN answers
          /\ Append(answers, g)[e] = g
          /\ \A k \in DOMAIN answers : Append(answers, g)[k] = answers[k]
      <3>1. answers \in Seq(Given) /\ g \in Given
        BY <1>g, <1>t, Zenon
      <3> QED
        BY <3>1, AppendedIs
    <2> HIDE DEF e
    <2> QED
      BY <1>a, <2>1, Zenon
  <1>h. /\ \A n : Has(s, n) <=> n = h \/ Has(Tail(s), n)
        /\ ~Has(Tail(s), h) /\ Distinct(Tail(s)) /\ Tail(s) \in Seq(Nat)
        /\ \A p \in DOMAIN Tail(s) : Tail(s)[p] = 0 => p = Len(Tail(s))
    BY <1>j, <1>s, <1>t, HasTail, Zenon DEF RunningHeld
  <1>f. h # 0 /\ Has(s, h) /\ OfCall(h, running.instance) /\ ~Answered(h)
    <2>1. h # 0 /\ Has(s, h)
      BY <1>h, Zenon
    <2> QED
      BY <1>i, <1>j, <2>1, Zenon DEF RunningHeld, Disjoint
  <1> HIDE DEF s, h, e
  <1>y. \A n : (\E k \in DOMAIN answers' : answers'[k].n = n) <=> Answered(n) \/ n = h
    BY <1>d, <1>g, Zenon DEF Answered
  <1>o. \A m, j : OfCall(m, j) => OfCall(m, j)'
    BY <1>u, Zenon DEF OfCall
  <1>1. CallsNumbered' /\ EveryHandlerHears'
    BY <1>a, <1>i, <1>j, <1>u, Zenon DEF CallsNumbered, EveryHandlerHears
  <1>2. PendingHeld'
    BY <1>j, <1>o, <1>u DEF PendingHeld
  <1>3. RunningHeld'
    <2>1. \A n : Has(Tail(s), n) /\ n # 0 =>
             \E k \in DOMAIN asked' : asked'[k].n = n /\ asked'[k].instance = running.instance
      BY <1>h, <1>j, <1>u, Zenon DEF RunningHeld, OfCall, s
    <2>2. running'.todo = Tail(s) /\ running'.instance = running.instance
      BY <1>b, Zenon
    <2>3. /\ Distinct(running'.todo) /\ running'.instance \in Instances
          /\ \A p \in DOMAIN running'.todo : running'.todo[p] = 0 => p = Len(running'.todo)
          /\ \A n : Has(running'.todo, n) /\ n # 0 =>
                \E k \in DOMAIN asked' : asked'[k].n = n /\ asked'[k].instance = running'.instance
      BY <1>c, <1>h, <2>1, <2>2
    <2> QED
      BY <2>3, Zenon DEF RunningHeld, OfCall
  <1>4. AnswersHeld'
    <2>1. \A j, k \in DOMAIN answers' : answers'[j].n = answers'[k].n => j = k
      BY <1>d, <1>f, <1>g, <1>j, Zenon DEF AnswersHeld, Answered
    <2>2. \A k \in DOMAIN answers' :
             \E j \in DOMAIN asked : asked[j].n = answers'[k].n /\ asked[j].instance = answers'[k].instance
      BY <1>d, <1>f, <1>g, <1>j, ZenonT(40) DEF AnswersHeld, OfCall
    <2> QED
      BY <1>u, <2>1, <2>2, Zenon DEF AnswersHeld, OfCall
  <1>5. Disjoint'
    <2>1. ASSUME NEW n, n # 0
          PROVE  /\ \A j \in Instances :
                       Has(pending_modem_pins_[j], n) => ~Has(Tail(s), n) /\ ~(Answered(n) \/ n = h)
                 /\ Has(Tail(s), n) => ~(Answered(n) \/ n = h)
      <3>1. /\ \A j \in Instances : Has(pending_modem_pins_[j], n) => ~Has(s, n) /\ ~Answered(n)
            /\ Has(s, n) => ~Answered(n)
        BY <1>i, <2>1, Zenon DEF Disjoint, s
      <3> QED
        BY <1>f, <1>h, <3>1, Zenon
    <2> QED
      BY <1>b, <1>u, <1>y, <2>1, Zenon DEF Disjoint, Answered
  <1>6. NoneLost'
    <2>1. ASSUME NEW k \in DOMAIN asked
          PROVE  \/ Has(pending_modem_pins_[asked[k].instance], asked[k].n)
                 \/ Has(Tail(s), asked[k].n) \/ Answered(asked[k].n) \/ asked[k].n = h
      BY <1>h, <1>i, Zenon DEF NoneLost, s
    <2> QED
      BY <1>b, <1>u, <1>y, <2>1, Zenon DEF NoneLost, Answered
  <1>7. OwnAnswerComes'
    <2>1. ASSUME NEW k \in DOMAIN asked, asked[k].alone
          PROVE  /\ Has(pending_modem_pins_[asked[k].instance], asked[k].n) =>
                       NextAnswer(inbox, outbox, asked[k].instance, pins[asked[k].instance], asked[k].lines)
                 /\ Has(Tail(s), asked[k].n) => from_bits(running.bits) = asked[k].lines
                 /\ \A j \in DOMAIN answers' : answers'[j].n = asked[k].n => answers'[j].lines = asked[k].lines
      <3>1. /\ Has(pending_modem_pins_[asked[k].instance], asked[k].n) =>
                  NextAnswer(inbox, outbox, asked[k].instance, pins[asked[k].instance], asked[k].lines)
            /\ Has(s, asked[k].n) => from_bits(running.bits) = asked[k].lines
            /\ \A j \in DOMAIN answers : answers[j].n = asked[k].n => answers[j].lines = asked[k].lines
        BY <1>i, <2>1, Zenon DEF OwnAnswerComes, s
      <3>2. Has(Tail(s), asked[k].n) => from_bits(running.bits) = asked[k].lines
        BY <1>h, <3>1, Zenon
      <3>3. \A j \in DOMAIN answers' : answers'[j].n = asked[k].n => answers'[j].lines = asked[k].lines
        BY <1>d, <1>f, <1>g, <3>1, Zenon
      <3> QED
        BY <3>1, <3>2, <3>3
    <2>2. running'.todo = Tail(s) /\ running'.bits = running.bits
      BY <1>b, Zenon
    <2> QED
      BY <1>u, <2>1, <2>2, Zenon DEF OwnAnswerComes
  <1>8. LinesUnderWay' /\ Heard(outbox, said, heard)' /\ HandlersPlaced'
    BY <1>i, <1>u, HandlersUntouched, Zenon DEF LinesUnderWay
  <1>9. SubTypes'
    <2>1. answers' \in Seq(Given)
      BY <1>a, <1>g, <1>t, AppendedIs, Zenon
    <2> QED
      BY <1>b, <1>i, <1>u, <2>1, Zenon DEF SubTypes
  <1> QED
    BY <1>1, <1>2, <1>3, <1>4, <1>5, <1>6, <1>7, <1>8, <1>9, Zenon DEF SubInv, CallbacksHeld

-----------------------------------------------------------------------------
(* What the device does leaves the callbacks where they are. *)
LEMMA CallbacksStay ==
  ASSUME SubInv, UNCHANGED <<asked, pending_modem_pins_, running, answers, calls, registered>>,
         \A i \in Instances : \A l : NextAnswer(inbox, outbox, i, pins[i], l)
                                       => NextAnswer(inbox', outbox', i, pins'[i], l)
  PROVE  CallbacksHeld' /\ Disjoint' /\ NoneLost' /\ OwnAnswerComes'
  <1>i. SubTypes /\ CallbacksHeld /\ Disjoint /\ NoneLost /\ OwnAnswerComes
    BY Zenon DEF SubInv
  <1>j. CallsNumbered /\ PendingHeld /\ RunningHeld /\ AnswersHeld
    BY <1>i, Zenon DEF CallbacksHeld
  <1>u. /\ asked' = asked /\ pending_modem_pins_' = pending_modem_pins_ /\ running' = running
        /\ answers' = answers /\ calls' = calls /\ registered' = registered
    OBVIOUS
  <1>o. \A m, j : OfCall(m, j) => OfCall(m, j)'
    BY <1>u, Zenon DEF OfCall
  <1>1. CallsNumbered' /\ AnswersHeld'
    BY <1>j, <1>o, <1>u, Zenon DEF CallsNumbered, AnswersHeld
  <1>2. PendingHeld'
    BY <1>j, <1>o, <1>u DEF PendingHeld
  <1>3. RunningHeld'
    BY <1>j, <1>o, <1>u, Zenon DEF RunningHeld
  <1>4. Disjoint' /\ NoneLost'
    BY <1>i, <1>u, Zenon DEF Disjoint, NoneLost, Answered
  <1>5. \A k \in DOMAIN asked : asked[k].instance \in Instances
    BY <1>i, AskedTypes, Zenon
  <1>6. OwnAnswerComes'
    <2>1. ASSUME NEW k \in DOMAIN asked, asked[k].alone
          PROVE  /\ Has(pending_modem_pins_[asked[k].instance], asked[k].n) =>
                       NextAnswer(inbox', outbox', asked[k].instance, pins'[asked[k].instance], asked[k].lines)
                 /\ Has(running.todo, asked[k].n) => from_bits(running.bits) = asked[k].lines
                 /\ \A j \in DOMAIN answers : answers[j].n = asked[k].n => answers[j].lines = asked[k].lines
      <3>1. /\ Has(pending_modem_pins_[asked[k].instance], asked[k].n) =>
                  NextAnswer(inbox, outbox, asked[k].instance, pins[asked[k].instance], asked[k].lines)
            /\ Has(running.todo, asked[k].n) => from_bits(running.bits) = asked[k].lines
            /\ \A j \in DOMAIN answers : answers[j].n = asked[k].n => answers[j].lines = asked[k].lines
        BY <1>i, <2>1, Zenon DEF OwnAnswerComes
      <3> QED
        BY <1>5, <3>1, Zenon
    <2>2. ASSUME NEW k \in DOMAIN asked', asked'[k].alone
          PROVE  /\ Has(pending_modem_pins_'[asked'[k].instance], asked'[k].n) =>
                       NextAnswer(inbox', outbox', asked'[k].instance, pins'[asked'[k].instance], asked'[k].lines)
                 /\ Has(running'.todo, asked'[k].n) => from_bits(running'.bits) = asked'[k].lines
                 /\ \A j \in DOMAIN answers' : answers'[j].n = asked'[k].n => answers'[j].lines = asked'[k].lines
      <3>1. k \in DOMAIN asked /\ asked[k].alone
        BY <1>u, <2>2
      <3> QED
        BY <1>u, <2>1, <3>1
    <2> QED
      BY <2>2, Zenon DEF OwnAnswerComes
  <1> QED
    BY <1>1, <1>2, <1>3, <1>4, <1>6, Zenon DEF CallbacksHeld

(* The device takes a request: it hears it, sets the lines, or answers. *)
LEMMA DeviceTakesStep ==
  ASSUME SubInv, DeviceTakes
  PROVE  SubInv'
  <1> DEFINE r == Head(outbox)
             m == Message(PinsId, r.instance, pins[r.instance])
  <1>i. /\ SubTypes /\ HandlersPlaced /\ Heard(outbox, said, heard) /\ LinesUnderWay
        /\ EveryHandlerHears
    BY Zenon DEF SubInv
  <1>t. /\ outbox \in Seq(Sent) /\ inbox \in Seq(Messages) /\ pins \in [Instances -> Nat]
        /\ said \in Seq(Meant) /\ heard \in Seq(Meant)
    BY <1>i, Zenon DEF SubTypes
  <1>a. /\ outbox # <<>> /\ outbox' = Tail(outbox)
        /\ pins' = IF r.name = "Set" THEN [pins EXCEPT ![r.instance] = r.bits] ELSE pins
        /\ inbox' = IF r.name = "Get" THEN Append(inbox, m) ELSE inbox
        /\ heard' = IF IsPins(r) THEN heard ELSE Append(heard, Means(r))
    BY Zenon DEF DeviceTakes
  <1>u. /\ program' = program /\ running' = running /\ calls' = calls /\ ran' = ran
        /\ answers' = answers /\ table' = table /\ slot' = slot
        /\ instance_data_handlers_' = instance_data_handlers_
        /\ pending_modem_pins_' = pending_modem_pins_ /\ registered' = registered
        /\ next_call_id_' = next_call_id_ /\ wanted' = wanted /\ asked' = asked
        /\ lines_set' = lines_set /\ said' = said
    BY Zenon DEF DeviceTakes, proxy_vars, history
  <1>r. r \in Sent /\ Tail(outbox) \in Seq(Sent)
    BY <1>a, <1>t, Taken, Zenon
  <1>n. IsPins(r) <=> r.name = "Get" \/ r.name = "Set"
    BY DEF IsPins
  <1>p. IsPins(r) => r.instance \in Instances /\ r.bits \in Nat
    <2>1. IsPins(r) => r \in PinsRequests
      BY <1>r, OtherIs, Zenon
    <2> HIDE DEF r
    <2> QED
      BY <2>1, Zenon DEF PinsRequests
  <1>q. "Get" # "Set"
    OBVIOUS
  <1>m. r.name = "Get" => /\ m \in Messages /\ m.bits = pins[r.instance]
                          /\ \A i : IsAnswer(m, i) <=> i = r.instance
    <2> HIDE DEF r
    <2>1. ASSUME r.name = "Get" PROVE m \in Messages
      <3>1. PinsId \in Ids /\ r.instance \in Instances /\ pins[r.instance] \in Nat
        BY <1>n, <1>p, <1>t, <2>1, Names, Zenon
      <3> QED
        BY <3>1, Zenon DEF Messages, Message
    <2>2. m.id = PinsId /\ m.instance = r.instance /\ m.bits = pins[r.instance]
      BY Zenon DEF Message
    <2> HIDE DEF m
    <2> QED
      BY <2>1, <2>2, Zenon DEF IsAnswer
  <1> HIDE DEF r, m
  <1>b. \A i \in Instances : pins'[i] = IF IsSet(r, i) THEN r.bits ELSE pins[i]
    <2>1. CASE r.name = "Set"
      <3>1. r.instance \in Instances /\ pins' = [pins EXCEPT ![r.instance] = r.bits]
        BY <1>a, <1>n, <1>p, <2>1, Zenon
      <3> QED
        BY <1>t, <2>1, <3>1, Zenon DEF IsSet
    <2>2. CASE r.name # "Set"
      BY <1>a, <2>2, Zenon DEF IsSet
    <2> QED
      BY <2>1, <2>2
  <1>1. SubTypes'
    <2>1. pins' \in [Instances -> Nat]
      <3>1. CASE r.name = "Set"
        <4>1. r.instance \in Instances /\ r.bits \in Nat /\ pins' = [pins EXCEPT ![r.instance] = r.bits]
          BY <1>a, <1>n, <1>p, <3>1, Zenon
        <4> QED
          BY <1>t, <4>1, Zenon
      <3>2. CASE r.name # "Set"
        BY <1>a, <1>t, <3>2, Zenon
      <3> QED
        BY <3>1, <3>2
    <2>2. inbox' \in Seq(Messages)
      <3>1. CASE r.name = "Get"
        BY <1>a, <1>m, <1>t, <3>1, AppendedIs, Zenon
      <3>2. CASE r.name # "Get"
        BY <1>a, <1>t, <3>2, Zenon
      <3> QED
        BY <3>1, <3>2
    <2>3. heard' \in Seq(Meant)
      <3>1. CASE IsPins(r)
        BY <1>a, <1>t, <3>1, Zenon
      <3>2. CASE ~IsPins(r)
        BY <1>a, <1>r, <1>t, <3>2, OtherIs, AppendedIs, Zenon
      <3> QED
        BY <3>1, <3>2
    <2>4. outbox' \in Seq(Sent)
      BY <1>a, <1>r, Zenon
    <2> QED
      BY <1>i, <1>u, <2>1, <2>2, <2>3, <2>4, Zenon DEF SubTypes
  <1>2. HandlersPlaced' /\ EveryHandlerHears'
    BY <1>i, <1>u, HandlersUntouched, Zenon DEF EveryHandlerHears
  <1>3. Heard(outbox, said, heard)'
    <2>1. CASE IsPins(r)
      <3>1. Heard(Tail(outbox), said, heard)
        BY <1>a, <1>i, <1>t, <2>1, TakePins, Zenon DEF r
      <3> QED
        BY <1>a, <1>u, <2>1, <3>1, Zenon
    <2>2. CASE ~IsPins(r)
      <3>1. Heard(Tail(outbox), said, Append(heard, Means(r)))
        BY <1>a, <1>i, <1>t, <2>2, TakeOther, Zenon DEF r
      <3> QED
        BY <1>a, <1>u, <2>2, <3>1, Zenon
    <2> QED
      BY <2>1, <2>2
  <1>4. LinesUnderWay'
    <2> DEFINE p == Len(outbox) + 1
    <2>1. p \in Nat /\ p > 1 /\ p <= Len(outbox) + 1 /\ p - 1 = Len(Tail(outbox)) + 1
      BY <1>a, <1>t
    <2>2. \A i \in Instances : LinesBefore(outbox, p, i, pins[i], lines_set[i])
      BY <1>i, Zenon DEF LinesUnderWay
    <2> HIDE DEF p
    <2>3. ASSUME NEW i \in Instances
          PROVE  LinesBefore(Tail(outbox), p - 1, i, IF IsSet(r, i) THEN r.bits ELSE pins[i], lines_set[i])
      BY <1>a, <1>t, <2>1, <2>2, LinesTaken, Zenon DEF r
    <2>4. \A i \in Instances : LinesBefore(outbox', Len(outbox') + 1, i, pins'[i], lines_set'[i])
      BY <1>a, <1>b, <1>u, <2>1, <2>3, Zenon
    <2> QED
      BY <2>4, Zenon DEF LinesUnderWay
  <1>5. ASSUME NEW i \in Instances, NEW l, NextAnswer(inbox, outbox, i, pins[i], l)
        PROVE  NextAnswer(inbox', outbox', i, pins'[i], l)
    <2>1. CASE IsGet(r, i)
      <3>1. r.name = "Get" /\ r.instance = i
        BY <2>1, Zenon DEF IsGet
      <3>2. pins'[i] = pins[i]
        BY <1>b, <1>q, <3>1, Zenon DEF IsSet
      <3>3. m \in Messages /\ IsAnswer(m, i) /\ m.bits = pins[i]
        BY <1>m, <3>1, Zenon
      <3>4. NextAnswer(Append(inbox, m), Tail(outbox), i, pins[i], l)
        BY <1>5, <1>a, <1>t, <2>1, <3>3, AnswerGiven, Zenon DEF r
      <3>5. inbox' = Append(inbox, m) /\ outbox' = Tail(outbox)
        BY <1>a, <3>1, Zenon
      <3> QED
        BY <3>2, <3>4, <3>5, Zenon
    <2>2. CASE ~IsGet(r, i)
      <3>1. NextAnswer(inbox, Tail(outbox), i, IF IsSet(r, i) THEN r.bits ELSE pins[i], l)
        BY <1>5, <1>a, <1>t, <2>2, AnswerTaken, Zenon DEF r
      <3>2. NextAnswer(inbox, outbox', i, pins'[i], l)
        BY <1>a, <1>b, <3>1, Zenon
      <3>3. CASE r.name = "Get"
        <4>1. m \in Messages /\ ~IsAnswer(m, i)
          BY <1>m, <2>2, <3>3, Zenon DEF IsGet
        <4>2. NextAnswer(Append(inbox, m), outbox', i, pins'[i], l)
          BY <1>t, <3>2, <4>1, AnswerBehind, Zenon
        <4>3. inbox' = Append(inbox, m)
          BY <1>a, <3>3, Zenon
        <4> QED
          BY <4>2, <4>3, Zenon
      <3>4. CASE r.name # "Get"
        BY <1>a, <3>2, <3>4, Zenon
      <3> QED
        BY <3>3, <3>4
    <2> QED
      BY <2>1, <2>2
  <1>6. CallbacksHeld' /\ Disjoint' /\ NoneLost' /\ OwnAnswerComes'
    BY <1>5, <1>u, CallbacksStay, Zenon
  <1> QED
    BY <1>1, <1>2, <1>3, <1>4, <1>6, Zenon DEF SubInv

(* The device sends by itself, which is no answer about modem lines. *)
LEMMA DeviceSendsStep ==
  ASSUME SubInv, NEW i \in Instances, DeviceSends(i)
  PROVE  SubInv'
  <1>i. /\ SubTypes /\ HandlersPlaced /\ Heard(outbox, said, heard) /\ LinesUnderWay
        /\ EveryHandlerHears /\ inbox \in Seq(Messages)
    BY Zenon DEF SubInv, SubTypes
  <1>u. /\ program' = program /\ running' = running /\ calls' = calls /\ ran' = ran
        /\ answers' = answers /\ table' = table /\ slot' = slot
        /\ instance_data_handlers_' = instance_data_handlers_
        /\ pending_modem_pins_' = pending_modem_pins_ /\ registered' = registered
        /\ next_call_id_' = next_call_id_ /\ wanted' = wanted /\ asked' = asked
        /\ lines_set' = lines_set /\ said' = said /\ outbox' = outbox /\ heard' = heard
        /\ pins' = pins
    BY Zenon DEF DeviceSends, proxy_vars, history
  <1>1. PICK id : /\ inbox' = Append(inbox, Message(id, i, 0))
                  /\ id \in {Promises[n].id : n \in program \cap DOMAIN Promises} \/ id = DataId
    BY Zenon DEF DeviceSends
  <1>2. id \in Ids /\ id # PinsId
    <2>1. CASE id \in {Promises[n].id : n \in program \cap DOMAIN Promises}
      <3>1. PICK n \in Methods : id = Promises[n].id
        BY <2>1, MethodNames, Zenon
      <3>2. id = Registrations[n].id /\ id \notin {DataId, PinsId}
        BY <3>1, PromiseKept, Zenon
      <3> QED
        BY <3>2, Names, Zenon
    <2>2. CASE id = DataId
      BY <2>2, Names, Zenon
    <2> QED
      BY <1>1, <2>1, <2>2
  <1> DEFINE m == Message(id, i, 0)
  <1>3. m \in Messages /\ \A j : ~IsAnswer(m, j)
    <2>1. 0 \in Nat
      OBVIOUS
    <2>2. m \in Messages /\ m.id = id
      BY <1>2, <2>1, Zenon DEF Message, Messages
    <2> HIDE DEF m
    <2> QED
      BY <1>2, <2>2, Zenon DEF IsAnswer
  <1> HIDE DEF m
  <1>4. inbox' = Append(inbox, m)
    BY <1>1, Zenon DEF m
  <1>5. \A j, l : NextAnswer(inbox, outbox, j, pins[j], l) => NextAnswer(inbox', outbox, j, pins[j], l)
    BY <1>3, <1>4, <1>i, AnswerBehind, Zenon
  <1>6. CallbacksHeld' /\ Disjoint' /\ NoneLost' /\ OwnAnswerComes'
    BY <1>5, <1>u, CallbacksStay, Zenon
  <1>7. HandlersPlaced' /\ EveryHandlerHears' /\ LinesUnderWay' /\ Heard(outbox, said, heard)'
    BY <1>i, <1>u, HandlersUntouched, Zenon DEF EveryHandlerHears, LinesUnderWay
  <1>8. SubTypes'
    <2>1. inbox' \in Seq(Messages)
      BY <1>3, <1>4, <1>i, AppendedIs, Zenon
    <2> QED
      BY <1>i, <1>u, <2>1, Zenon DEF SubTypes
  <1> QED
    BY <1>6, <1>7, <1>8, Zenon DEF SubInv

(* A lost connection takes what is under way with it.  The callbacks stay; but *)
(* whether one of them gets an answer is no longer for the program to know.    *)
LEMMA DropStep ==
  ASSUME SubInv, Drop
  PROVE  SubInv'
  <1>i. /\ SubTypes /\ HandlersPlaced /\ EveryHandlerHears /\ CallbacksHeld /\ Disjoint /\ NoneLost
    BY Zenon DEF SubInv
  <1>j. CallsNumbered /\ PendingHeld /\ RunningHeld /\ AnswersHeld
    BY <1>i, Zenon DEF CallbacksHeld
  <1>t. heard \in Seq(Meant) /\ asked \in Seq(Asked) /\ pins \in [Instances -> Nat]
    BY <1>i, Zenon DEF SubTypes
  <1>a. /\ inbox' = <<>> /\ outbox' = <<>> /\ said' = heard
        /\ lines_set' = [i \in Instances |-> from_bits(pins[i])]
        /\ asked' = [k \in DOMAIN asked |-> [asked[k] EXCEPT !.alone = FALSE]]
    BY Zenon DEF Drop
  <1>u. /\ program' = program /\ running' = running /\ calls' = calls /\ ran' = ran
        /\ answers' = answers /\ table' = table /\ slot' = slot
        /\ instance_data_handlers_' = instance_data_handlers_
        /\ pending_modem_pins_' = pending_modem_pins_ /\ registered' = registered
        /\ next_call_id_' = next_call_id_ /\ wanted' = wanted /\ heard' = heard
        /\ pins' = pins
    BY Zenon DEF Drop, proxy_vars
  <1>b. /\ DOMAIN asked' = DOMAIN asked
        /\ \A k \in DOMAIN asked : /\ asked'[k] = [asked[k] EXCEPT !.alone = FALSE]
                                   /\ asked'[k].n = asked[k].n
                                   /\ asked'[k].instance = asked[k].instance
                                   /\ asked'[k].alone = FALSE /\ asked'[k] \in Asked
    <2>1. /\ DOMAIN asked' = DOMAIN asked
          /\ \A k \in DOMAIN asked : asked'[k] = [asked[k] EXCEPT !.alone = FALSE]
      BY <1>a, Zenon
    <2>2. \A k \in DOMAIN asked : asked[k] \in Asked
      BY <1>i, AskedTypes, Zenon
    <2>3. ASSUME NEW x \in Asked, NEW y, y = [x EXCEPT !.alone = FALSE]
          PROVE  y.n = x.n /\ y.instance = x.instance /\ y.alone = FALSE /\ y \in Asked
      BY <2>3, Zenon DEF Asked
    <2>4. ASSUME NEW k \in DOMAIN asked
          PROVE  /\ asked'[k].n = asked[k].n /\ asked'[k].instance = asked[k].instance
                 /\ asked'[k].alone = FALSE /\ asked'[k] \in Asked
      <3>1. asked[k] \in Asked /\ asked'[k] = [asked[k] EXCEPT !.alone = FALSE]
        BY <2>1, <2>2, Zenon
      <3> QED
        BY <2>3, <3>1, Zenon
    <2> QED
      BY <2>1, <2>4, Zenon
  <1>c. asked' \in Seq(Asked)
    <2>1. DOMAIN asked = 1..Len(asked) /\ Len(asked) \in Nat
      BY <1>t
    <2> DEFINE f == [k \in 1..Len(asked) |-> [asked[k] EXCEPT !.alone = FALSE]]
    <2>2. asked' = f
      BY <1>a, <2>1, Zenon
    <2>3. \A k \in 1..Len(asked) : [asked[k] EXCEPT !.alone = FALSE] \in Asked
      BY <1>b, <2>1, Zenon
    <2>4. f \in Seq(Asked)
      BY <2>1, <2>3
    <2> QED
      BY <2>2, <2>4, Zenon
  <1>o. \A m, j : OfCall(m, j) => OfCall(m, j)'
    BY <1>b, Zenon DEF OfCall
  <1>1. CallsNumbered' /\ AnswersHeld'
    BY <1>b, <1>j, <1>o, <1>u, Zenon DEF CallsNumbered, AnswersHeld
  <1>2. PendingHeld'
    BY <1>j, <1>o, <1>u DEF PendingHeld
  <1>3. RunningHeld'
    BY <1>j, <1>o, <1>u, Zenon DEF RunningHeld
  <1>4. Disjoint' /\ NoneLost'
    <2>1. Disjoint'
      BY <1>i, <1>u, Zenon DEF Disjoint, Answered
    <2>2. \A k \in DOMAIN asked' : \/ Has(pending_modem_pins_[asked'[k].instance], asked'[k].n)
                                   \/ Has(running.todo, asked'[k].n)
                                   \/ Answered(asked'[k].n)
      <3>1. DOMAIN asked' = DOMAIN asked /\ \A k \in DOMAIN asked : asked'[k].n = asked[k].n
                                                           /\ asked'[k].instance = asked[k].instance
        BY <1>b, Zenon
      <3> QED
        BY <1>i, <3>1 DEF NoneLost
    <2>3. NoneLost'
      BY <1>u, <2>2, Zenon DEF NoneLost, Answered
    <2> QED
      BY <2>1, <2>3
  <1>5. OwnAnswerComes'
    BY <1>b, Zenon DEF OwnAnswerComes
  <1>6. LinesUnderWay'
    <2>1. DOMAIN <<>> = {}
      OBVIOUS
    <2>2. \A i \in Instances : lines_set'[i] = from_bits(pins[i])
      BY <1>a, Zenon
    <2> QED
      BY <1>a, <1>u, <2>1, <2>2, Zenon DEF LinesUnderWay, LinesBefore
  <1>7. Heard(outbox, said, heard)'
    <2>1. Positions(<<>>, 0, <<>>) /\ Says(<<>>, 0, <<>>, heard, heard)
      BY <1>t DEF Positions, Says
    <2>2. Heard(<<>>, heard, heard)
      <3>1. 0 \in Nat
        OBVIOUS
      <3> QED
        BY <2>1, <3>1, Zenon DEF Heard
    <2> QED
      BY <1>a, <1>u, <2>2, Zenon
  <1>8. HandlersPlaced' /\ EveryHandlerHears'
    BY <1>i, <1>u, HandlersUntouched, Zenon DEF EveryHandlerHears
  <1>9. SubTypes'
    <2>1. \A S : <<>> \in Seq(S)
      OBVIOUS
    <2>2. \A b \in Nat : from_bits(b) \in Lines
      BY DEF from_bits, Lines
    <2>3. lines_set' \in [Instances -> Lines]
      BY <1>a, <1>t, <2>2, Zenon
    <2> QED
      BY <1>a, <1>c, <1>i, <1>t, <1>u, <2>1, <2>3, Zenon DEF SubTypes
  <1> QED
    BY <1>1, <1>2, <1>3, <1>4, <1>5, <1>6, <1>7, <1>8, <1>9, Zenon DEF SubInv, CallbacksHeld

-----------------------------------------------------------------------------
(* Every step of the program, the loop, the device and the network. *)
LEMMA SubStep == SubInv /\ [SubNext]_sub_vars => SubInv'
  <1> SUFFICES ASSUME SubInv, [SubNext]_sub_vars PROVE SubInv'
    OBVIOUS
  <1>1. CASE \E m \in DOMAIN Registrations : register(m)
    BY <1>1, RegisterStep, Zenon DEF Methods
  <1>2. CASE \E m \in program \ (DOMAIN Registrations \cup {"HomeAssistantServices_execute"}) :
                \E v \in {0, 1} : m \notin SerialMethods /\ send(m, v)
    <2>1. PICK m \in program \ (DOMAIN Registrations \cup {"HomeAssistantServices_execute"}) :
             \E v \in {0, 1} : m \notin SerialMethods /\ send(m, v)
      BY <1>2, Zenon
    <2>2. program \in Programs
      BY Zenon DEF SubInv, SubTypes
    <2>3. m \in SendMethods
      <3>1. m \in DOMAIN Registrations \cup SendMethods \cup SerialMethods
                     \cup {"HomeAssistantServices_execute"}
        BY <2>2, SubsystemsAssumption
      <3> QED
        BY <2>1, <3>1
    <2> QED
      BY <2>1, <2>3, SendStep, Zenon
  <1>3. CASE \E type \in ServiceTypes : execute(type)
    BY <1>3, ExecuteStep, Zenon
  <1>4. CASE on_data
    BY <1>4, OnDataStep
  <1>5. CASE on_modem_pins
    BY <1>5, OnModemPinsStep
  <1>6. CASE \E i \in Instances : on_data_of(i)
    BY <1>6, OnDataOfStep, Zenon
  <1>7. CASE \E i \in Instances, once \in BOOLEAN : get_modem_pins(i, once)
    BY <1>7, GetStep, Zenon
  <1>8. CASE \E i \in Instances, l \in Lines : set_modem_pins(i, l)
    BY <1>8, SetStep, Zenon
  <1>9. CASE handle_message
    BY <1>9, HandleMessageStep
  <1>10. CASE handle_data
    BY <1>10, HandleDataStep
  <1>11. CASE handle_pins
    BY <1>11, HandlePinsStep
  <1>12. CASE run_callback
    BY <1>12, RunHandlerStep, RunOnceStep, Zenon
  <1>13. CASE DeviceTakes
    BY <1>13, DeviceTakesStep
  <1>14. CASE \E i \in Instances : DeviceSends(i)
    BY <1>14, DeviceSendsStep, Zenon
  <1>15. CASE Drop
    BY <1>15, DropStep
  <1>16. CASE UNCHANGED sub_vars
    <2>1. /\ program' = program /\ running' = running /\ calls' = calls /\ ran' = ran
          /\ answers' = answers /\ table' = table /\ slot' = slot
          /\ instance_data_handlers_' = instance_data_handlers_
          /\ pending_modem_pins_' = pending_modem_pins_ /\ registered' = registered
          /\ next_call_id_' = next_call_id_ /\ wanted' = wanted /\ asked' = asked
          /\ lines_set' = lines_set /\ said' = said /\ outbox' = outbox /\ heard' = heard
          /\ pins' = pins /\ inbox' = inbox
      BY <1>16, Zenon DEF sub_vars, proxy_vars, history
    <2>i. /\ SubTypes /\ HandlersPlaced /\ Heard(outbox, said, heard) /\ LinesUnderWay
          /\ EveryHandlerHears
      BY Zenon DEF SubInv
    <2>2. CallbacksHeld' /\ Disjoint' /\ NoneLost' /\ OwnAnswerComes'
      BY <2>1, CallbacksStay, Zenon
    <2>3. HandlersPlaced' /\ EveryHandlerHears' /\ LinesUnderWay' /\ Heard(outbox, said, heard)'
      BY <2>1, <2>i, HandlersUntouched, Zenon DEF EveryHandlerHears, LinesUnderWay
    <2>4. SubTypes'
      BY <2>1, <2>i, Zenon DEF SubTypes
    <2> QED
      BY <2>2, <2>3, <2>4, Zenon DEF SubInv
  <1> QED
    BY <1>1, <1>2, <1>3, <1>4, <1>5, <1>6, <1>7, <1>8, <1>9, <1>10, <1>11, <1>12, <1>13, <1>14,
       <1>15, <1>16, Zenon DEF SubNext

(* The invariant holds of every program, device and sequence of lost           *)
(* connections.                                                                *)
THEOREM SubInvariance == SubSpec => []SubInv
  BY SubInitInd, SubStep, PTL DEF SubSpec

(* A message runs the handler that the program gave last for it, and for its   *)
(* instance, with every member filled in (the managers' on_x and subscribe,    *)
(* ensure_data_handler, ensure_modem_pins_handler).                            *)
THEOREM EveryHandlerHearsHolds == SubSpec => []EveryHandlerHears
  <1>1. SubInv => EveryHandlerHears
    BY Zenon DEF SubInv
  <1> QED
    BY <1>1, SubInvariance, PTL

(* What the device takes from the requests is what the methods were called     *)
(* for, in their order: no request is lost, doubled or mixed up on the way     *)
(* through the managers.                                                       *)
THEOREM DeviceHearsCallsHolds == SubSpec => []DeviceHearsCalls
  <1>1. SubInv => DeviceHearsCalls
    <2> SUFFICES ASSUME SubInv PROVE DeviceHearsCalls
      OBVIOUS
    <2>1. /\ outbox \in Seq(Sent) /\ said \in Seq(Meant) /\ heard \in Seq(Meant)
          /\ Heard(outbox, said, heard)
      BY Zenon DEF SubInv, SubTypes
    <2> QED
      BY <2>1, HeardIs, Zenon
  <1> QED
    BY <1>1, SubInvariance, PTL

(* A number that two queues without repetitions hold once. *)
LEMMA JoinedOnce ==
  ASSUME NEW s \in Seq(Nat), NEW t \in Seq(Nat), NEW n,
         Distinct(s), Distinct(t), Has(s, n) => ~Has(t, n)
  PROVE  LET P == {k \in DOMAIN (s \o t) : (s \o t)[k] = n}
         IN  /\ P # {} <=> Has(s, n) \/ Has(t, n)
             /\ \A j, k \in P : j = k
  <1> DEFINE h == s \o t
             P == {k \in DOMAIN h : h[k] = n}
  <1>0. /\ Len(s) \in Nat /\ Len(t) \in Nat /\ DOMAIN s = 1..Len(s) /\ DOMAIN t = 1..Len(t)
        /\ DOMAIN h = 1..(Len(s) + Len(t))
    OBVIOUS
  <1>1. IsJoin(h, s, t)
    BY JoinedIs
  <1> HIDE DEF h
  <1>2. /\ \A k \in DOMAIN s : k \in DOMAIN h /\ h[k] = s[k]
        /\ \A k \in DOMAIN t : Len(s) + k \in DOMAIN h /\ h[Len(s) + k] = t[k]
    BY <1>0, <1>1 DEF IsJoin
  <1>3. \A k \in DOMAIN h : k \in DOMAIN s \/ (k - Len(s) \in DOMAIN t /\ k = Len(s) + (k - Len(s)))
    BY <1>0
  <1>4. P # {} <=> Has(s, n) \/ Has(t, n)
    <2>1. Has(s, n) => P # {}
      BY <1>2, Zenon DEF Has
    <2>2. Has(t, n) => P # {}
      BY <1>2, Zenon DEF Has
    <2>3. ASSUME NEW k \in P PROVE Has(s, n) \/ Has(t, n)
      BY <1>2, <1>3, ZenonT(40) DEF Has
    <2> QED
      BY <2>1, <2>2, <2>3, Zenon
  <1>5. ASSUME NEW j \in P, NEW k \in P PROVE j = k
    <2>1. CASE j \in DOMAIN s /\ k \in DOMAIN s
      BY <1>2, <2>1, Zenon DEF Distinct
    <2>2. CASE j \notin DOMAIN s /\ k \notin DOMAIN s
      <3>1. /\ j - Len(s) \in DOMAIN t /\ j = Len(s) + (j - Len(s)) /\ k - Len(s) \in DOMAIN t
            /\ k = Len(s) + (k - Len(s))
        BY <1>3, <2>2, Zenon
      <3>2. t[j - Len(s)] = n /\ t[k - Len(s)] = n
        BY <1>2, <3>1, Zenon
      <3>3. j - Len(s) = k - Len(s)
        BY <3>1, <3>2, Zenon DEF Distinct
      <3> QED
        BY <3>1, <3>3, Zenon
    <2>3. CASE j \in DOMAIN s /\ k \notin DOMAIN s
      BY <1>2, <1>3, <2>3, ZenonT(40) DEF Has
    <2>4. CASE j \notin DOMAIN s /\ k \in DOMAIN s
      BY <1>2, <1>3, <2>4, ZenonT(40) DEF Has
    <2> QED
      BY <2>1, <2>2, <2>3, <2>4
  <1> QED
    BY <1>4, <1>5, Zenon DEF h

(* A set without two elements has at most one. *)
LEMMA CountOnce ==
  ASSUME NEW P, \A i, j \in P : i = j
  PROVE  Cardinality(P) = IF P = {} THEN 0 ELSE 1
  <1>1. CASE P = {}
    BY <1>1, FS_EmptySet
  <1>2. CASE P # {}
    <2>1. PICK i \in P : TRUE
      BY <1>2, Zenon
    <2>2. P = {i}
      BY <2>1, Zenon
    <2> QED
      BY <1>2, <2>2, FS_Singleton, Zenon
  <1> QED
    BY <1>1, <1>2

(* A one-shot callback of get_modem_pins() is in exactly one place, pending,   *)
(* moved out or run, and runs with an answer about its own instance.           *)
THEOREM PinsExactlyOnceHolds == SubSpec => []PinsExactlyOnce
  <1>1. SubInv => PinsExactlyOnce
    <2> DEFINE Once(a) ==
                   LET queue == pending_modem_pins_[a.instance] \o running.todo
                       given == {k \in DOMAIN answers : answers[k].n = a.n}
                   IN  /\ Cardinality({k \in DOMAIN queue : queue[k] = a.n}) + Cardinality(given) = 1
                       /\ \A k \in given : answers[k].instance = a.instance
    <2>o. (\A a \in Range(asked) : Once(a)) => PinsExactlyOnce
      BY Zenon DEF PinsExactlyOnce
    <2>a. \A a \in Range(asked) : \E x \in DOMAIN asked : a = asked[x]
      BY Zenon DEF Range
    <2> SUFFICES ASSUME SubInv, NEW x \in DOMAIN asked PROVE Once(asked[x])
      <3> HIDE DEF Once
      <3> QED
        BY <2>o, <2>a, Zenon
    <2>i. /\ SubTypes /\ CallsNumbered /\ PendingHeld /\ RunningHeld /\ AnswersHeld
          /\ Disjoint /\ NoneLost
      BY Zenon DEF SubInv, CallbacksHeld
    <2> DEFINE i == asked[x].instance
               n == asked[x].n
               s == pending_modem_pins_[i]
               t == running.todo
               held == s \o t
               P == {k \in DOMAIN held : held[k] = n}
               G == {k \in DOMAIN answers : answers[k].n = n}
    <2>1. i \in Instances /\ n # 0
      BY <2>i, AskedTypes, Zenon DEF CallsNumbered
    <2>2. s \in Seq(Nat) /\ t \in Seq(Nat)
      BY <2>1, <2>i, Zenon DEF SubTypes
    <2>3. /\ Has(s, n) => ~Has(t, n) /\ ~Answered(n)
          /\ Has(t, n) => ~Answered(n)
          /\ Has(s, n) \/ Has(t, n) \/ Answered(n)
      BY <2>1, <2>i, Zenon DEF Disjoint, NoneLost
    <2>4. Distinct(s) /\ Distinct(t)
      BY <2>1, <2>i, Zenon DEF PendingHeld, RunningHeld
    <2>5. /\ Answered(n) <=> G # {}
          /\ \A j, k \in G : j = k
      BY <2>i, Zenon DEF Answered, AnswersHeld
    <2>6. \A k \in G : answers[k].instance = i
      <3>1. ASSUME NEW k \in G PROVE answers[k].instance = i
        <4>1. OfCall(n, answers[k].instance)
          BY <2>i, <3>1, Zenon DEF AnswersHeld
        <4> QED
          BY <2>i, <4>1, Zenon DEF OfCall, CallsNumbered
      <3> QED
        BY <3>1
    <2> HIDE DEF n, s, t
    <2>7. /\ P # {} <=> Has(s, n) \/ Has(t, n)
          /\ \A j, k \in P : j = k
      BY <2>2, <2>3, <2>4, JoinedOnce, Zenon
    <2>8. Cardinality(P) = (IF P = {} THEN 0 ELSE 1) /\ Cardinality(G) = (IF G = {} THEN 0 ELSE 1)
      <3> HIDE DEF P, G
      <3> QED
        BY <2>5, <2>7, CountOnce, Zenon
    <2>9. Cardinality(P) + Cardinality(G) = 1
      <3> HIDE DEF P, G
      <3> QED
        BY <2>3, <2>5, <2>7, <2>8
    <2> QED
      BY <2>6, <2>9, Zenon DEF n, s, t
  <1> QED
    BY <1>1, SubInvariance, PTL

(* A get_modem_pins() that nothing disturbs is answered with the lines that    *)
(* the program set last, however many requests were under way before it.       *)
THEOREM ReadsOwnWritesHolds == SubSpec => []ReadsOwnWrites
  <1>1. SubInv => ReadsOwnWrites
    <2>1. SubInv => OwnAnswerComes
      BY Zenon DEF SubInv
    <2> QED
      BY <2>1, Zenon DEF OwnAnswerComes, ReadsOwnWrites, Range
  <1> QED
    BY <1>1, SubInvariance, PTL
=============================================================================
