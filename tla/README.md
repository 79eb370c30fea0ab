# TLA+ models of cpp-esphome-api

cpp-esphome-api is a C++ client for the ESPHome native API: a message protocol
over TCP, in plaintext or inside a Noise session, driven by one thread that runs
an asio `io_context`. Everything below the user's calls happens in completion
handlers: of the resolver, the socket and timers. What is hard to get right is
therefore not a single handler but their order: a completion may already be
queued when another handler cancels, closes or fails what it belongs to, and
user callbacks run in the middle of the library's own handlers. Above that lie
tables whose entries must match what a device on the other side does: messages,
entities, commands with their `has_` flags, one-shot callbacks.

The modules here model that, TLC checks them on small instances, and TLAPS proves
every safety property that holds, but one, for every value of the constants: those of the session,
of the plaintext stream, of the Noise session, of the GATT calls, of the client and its
store, of the commands, of the blocking calls and of the subsystem managers.

## 1. Inventory

| Component | State | Operations | Interacts with |
|---|---|---|---|
| `Connection` | `state_`, `connect_handler_`, `last_error_`, three timer handles, `awaiting_pong_` | `start`, `disconnect`, `send`, the transport's callbacks, timers, `handle_frame` | owns a transport and a frame helper; calls the user's `on_done`, state and message handlers |
| `TcpTransport` | socket, `read_handler_`, `write_queue_`, `writing_` | `async_connect`, `async_read_start`, `async_write`, `close`, four completion handlers | asio; calls back into `Connection` |
| `AsioExecutor` | `timers_`, next identifier | `schedule_after`, `cancel`, `post` | asio timers; runs closures of `Connection` |
| `PlaintextFrameHelper`, `bytes` | `buffer_`, `consumed_` | `encode`, `feed`, `next` | fed by `Connection::on_bytes`, drained by `drain_frames` |
| `NoiseFrameHelper`, `crypto/` | handshake state, cipher keys and nonces, buffer | `start_handshake`, `handle_server_hello`, `handle_server_handshake`, `encode`, `next` | the same, and the handshake callbacks |
| Wire format, generated messages | none | `encode`, `calculate_size`, `decode` | payloads of the frame helpers |
| `EntityStore`, registry | `entities_` by key | `ingest`, `find`, typed access | fed by the catch-all handler of `Client` |
| Entity handles, commands | none of their own | getters, one method per command, `to_message` | read the store, send through `Client` |
| `Client` | connection, store, `any_handlers`, cached device information | `connect`, `on`, `on_any`, subsystem accessors | everything above |
| `SyncClient` | timeout | blocking calls over `pump_until` | runs the `io_context` of `Client` |
| `BluetoothProxy` | `pending_reads_`, `pending_writes_`, `pending_services_`, handler slots | `read`, `write`, `notify`, `get_services`, `on_*`, five response handlers | `Client::on`, the user's callbacks |
| `SerialProxy`, `VoiceAssistant`, `HomeAssistantServices`, `LogStream`, `ZWaveProxy` | handler slots, `pending_modem_pins_` | requests and response handlers | `Client::on` |
| Command line tool | the command's own | entity actions, serial bridge, output | `Client`, handles |
| Protocol generator | the syntax tree | lexer, parser, emitters | writes the generated messages |
| `Discovery`, JSON output | services found; none | mDNS query; formatting | UDP socket; none |

What makes each of them correct:

- *Connection*: the caller of `start()` learns the outcome; a session in use is
  watched by exactly one ping timer and every awaited pong by a deadline; an
  encrypted session starts only after the handshake; nothing comes back to life
  after it was closed.
- *Transport*: an open session keeps exactly one read outstanding; one write is in
  flight while its buffer is at the front of the queue.
- *Frames*: the messages handed up depend on the bytes received and not on how TCP
  cut them into chunks, and are the messages sent; over Noise both ends hold the
  same keys and nonces.
- *Wire format*: what is parsed is what was encoded, in every field the reader
  knows, also from a sender with a newer `api.proto`.
- *Entity store and client*: a state belongs to the description it is read with,
  and the cache is not older than what the device last sent.
- *Commands*: a command changes what it names at the device and nothing else.
- *SyncClient*: a call returns its own answer or an error, and leaves nothing behind.
- *Subsystems*: every one-shot callback runs exactly once, with an answer of its own
  request, whatever the callbacks do; handlers hear what they were registered for.

The hard behaviours, at the lines where they bite, are the `hazards` of
PROJECT.json. They are races between a queued completion and a cancellation,
re-entrant callbacks, chunk, width and budget boundaries, state that outlives a
connection, and waits that nothing ends.

## 2. Modules

| Module | Models | Notes |
|---|---|---|
| `AsioExecutor` | `asio_executor.cpp` | timer table as a function from identifiers to records; operators only |
| `TcpTransport` | `tcp_transport.cpp` | a transport as a record; operators only |
| `Connection` | `connection.cpp`, with the two above | the state machine: one action per handler |
| `AsioLoop` | `Connection` on one thread | adds the FIFO queue of completions and fairness |
| `PlaintextFrame` | `plaintext_frame_helper.cpp`, `bytes.cpp` | varints, `encode`, `feed`, `compact`, `next` |
| `MessageChannel` | | abstract: a reliable FIFO channel of messages |
| `FrameStream` | sender, TCP stream, reader | composes two helpers with the wire; implements `MessageChannel` |
| `ProtoWire` | `proto/wire.hpp`, `emit_messages.cpp` | writer, reader, and the generated codec as a function of the fields |
| `MessageStream` | `handle_frame` parsing | `ProtoWire` over `FrameStream` |
| `NoiseHandshake` | `crypto/` | tokens, symmetric state, cipher states over ideal primitives |
| `NoiseFrame` | `noise_frame_helper.cpp` | with a responder; implements two `MessageChannel`s |
| `EntityTypes` | `model/entities/` | which members a domain has and which a parse function fills |
| `EntityCommands` | `to_message` of every domain, `entity_handles.hpp` | commands, flags, handle methods |
| `CliActions` | `entity_actions.cpp`, `cmd_entity.cpp` | the values of the command line, on top of the above, with a device |
| `EntityStore` | `entity_store.cpp`, `entity_registry.hpp` | operators on a store |
| `Client` | `client.cpp` | catch-all feed, list, subscribe, toggle, with a device that changes |
| `SyncClient` | `sync_client.cpp` | blocking calls, their handlers and deadlines |
| `BluetoothProxy` | GATT part of `bluetooth_proxy.cpp` | with the BLE proxy device as environment |
| `Subsystems` | the other managers, and the rest of the Bluetooth proxy | with a device |
| `MC*` | | instances for TLC |
| `ConnectionProofs`, `FrameProofs`, `NoiseProofs`, `GattProofs`, `ClientProofs`, `CommandProofs`, `SyncProofs`, `SubsystemProofs` | | theorems about `Connection`, `PlaintextFrame` and `FrameStream`, `NoiseFrame`, `BluetoothProxy`, `Client`, `CliActions`, `SyncClient`, `Subsystems` |

### Connection, TcpTransport, AsioExecutor

The variables of `Connection` are the members of the class: `state`,
`connect_handler` (is it set), `connect_timer`, `ping_timer`, `pong_timer`,
`awaiting_pong`, `last_error`, and `noise_state` for the frame helper. `timers` and
`transport` hold the executor's table and the socket with its pending
operations. `on_done` records what the caller of `start()` was told and `cause`
what the first failure was; both exist for the properties only. `drain` says that
the loop of `drain_frames()` is running: each frame is an action, because user
handlers run between frames and may call `disconnect()` or `send()`.

Every asynchronous operation goes through three states: pending, completed with
its handler queued, and handled. The environment completes, the handlers handle.
`close()` makes pending operations complete with an error but, as asio documents,
leaves alone the ones that are already queued; `cancel()` likewise. An
operator that is the body of several handlers (`fail`, `stop_keepalive`,
`finish_connect`) keeps the source's name and is used inside the actions that
call it, so that an action is the whole handler.

The early returns are guards: `fail` in `Failed` or `Closed` changes nothing,
`send_ping` outside `Connected` neither, and `hello_response` only counts in
`HelloSent`. `hello_accepted_disconnect` is the state callback that calls
`disconnect()` from inside the handling of HelloResponse.

Of a message only its kind is kept; of the Noise handshake only its states, with a
failure possible at each (`NoiseFrame` has the handshake itself); unsupported
version, unexpected name, bad password and a payload that does not parse are one
action, since all of them call `fail`.

`Connection` runs queued handlers in any order, which is more than asio does and
enough for the safety properties. `AsioLoop` adds the queue: completions are
handled first in, first out. `DeadStaysDead` is looked for there, so that its
violation is no artefact of a reordering asio would not do.

### PlaintextFrame, FrameStream, MessageChannel

Bytes are numbers. `decode_varint` has the source's three results with its
two tests of the budget, `parse` the checks of `next()` in their order, `feed` and
`compact` the two-cursor buffer. `drain_stop` is the loop of `drain_frames()` ending
at a frame that closed the connection, with data left in the buffer. `Split` is the
reference: it cuts the whole input at once, by recursion over positions, and
knows nothing of chunks.

`FrameStream` connects `encode` with `next` through a wire that delivers any
non-empty prefix that fits the read buffer. `ImplementsChannel` instantiates
`MessageChannel` with the messages sent and those handed up.

### ProtoWire, MessageStream

The generator writes the same few statements for every field of a kind, so the
model has those statements once, as operators of a field description: `encode_field`,
`size_field` and `decode_field` are what `emit_encode_field`, `emit_size_field` and
`emit_decode_field` emit, and a message type is the set of its fields. C++ integers
are words, functions from bit positions to bits, because the interesting cases are
the widths: zigzag in 32 and 64 bits, the sign extension of an int32 to ten
bytes, the tenth byte of a varint. A member of floating point type is its bits; the
comparison with 0 that decides whether it is sent does not see the sign, so
a negative zero arrives as zero.

In `MessageStream` the sender has more fields than the reader, in embedded messages
too, and packs the lists the other way round; `Understood` says what the reader
should see.

### NoiseHandshake, NoiseFrame

The primitives are ideal: a hash is the sequence of what was hashed, a key the
sequence of what was mixed in, a ciphertext opens under the key, nonce and
associated data it was made with and not otherwise. Everything around them is the
code's: the order of tokens, `mix_hash`, `mix_key`, `split`, nonces that count up, the
states of the helper, header bytes and u16 lengths. A byte of a frame is a symbol, so
that chunks may end anywhere. The devices of a run differ from the expected one in
key, name, protocol byte, hello, or by not being encrypted at all.

`encode` can be called in every state, as `Client::send` can. Before the session is ready the
cipher has no key and passes the message through: it goes out in the clear, takes no nonce
and no place in the channel. A device does not expect such a frame; it hangs up
(`DeviceHangsUp`), and the read that ends with an error fails the session (`read_fails`).
The variable `clear` follows this.

### EntityTypes, EntityCommands, CliActions

For each domain `EntityTypes` lists the members of its structures and the ones
its parse function copies. A command is a function from engaged members to values;
`to_message` of each domain gives the message with its flags. `EntityCommands` has
the methods of the handles, `toggle()` with its use of the last report included, and
`CliActions` the actions of the tool: their parsers with rejection, percentages and
fractions, and the command they build. The device applies a message as ESPHome
documents it: a field counts when its flag is set. It reports later, so
that handles read old states in between. Floats are counted in steps of `1/Unit`, with
NaN and the infinities beside them, which `strtof` reads as words and `Clamp` treats as
`std::clamp` does; integers of the parsers are cut to `-IntLimit .. IntLimit - 1` as by a
cast to `std::int32_t`.

### EntityStore, Client

`ingest` dispatches on the name of a message, keeps description and state under the
key and derives the object identifier; the registry searches it. `find_by_object_id` walks an
unordered map and takes the first entry that fits, so the operator gives the set of its
outcomes, and `one` drops what is of another domain. In `Client` a device
with several configurations answers requests, changes by itself, and loses the
connection; the store survives that, as in the code, unless the program clears it.
Entities of one domain have different keys; those of different domains may share keys and
object identifiers. `state_cb_` is called at the end of `ingest` and has no step of its own.

### SyncClient

A call is a number; `handlers` holds the number of the call whose lambda is
installed. `pump_until` is the state of the running call: it ends when its flag is
set or its deadline passes, and the cleanup behind it is skipped by the
exception in the second case. The wait does not look at the state of the connection: when
the device ends the Hello exchange with a DisconnectResponse, nobody calls `on_done`
(`connection_closed_early`), and `connect()` ends by its own deadline. `serial_proxy(name)`
goes by the newest DeviceInfo the client has ever received and asks for one only when there is
none. The connection is reduced to its state, the completion of `connect` and an ordered
stream of messages.

### BluetoothProxy, Subsystems

In `BluetoothProxy` a call is a number; `calls` says what it asked for. The three tables
are functions from keys to sequences of calls; a key is the number that `gatt_key` packs into
64 bits, addresses are numbers below `AddressSpan` (2^48, as a Bluetooth address is) and
handles below 2^16. A message holds the number of the request that it answers for the
properties only. The handler of a message is several actions,
because user code runs between them: the persistent handler (`receive` lets the
user in), then one action per table looked at, then `run_callback` for each
callback. The entry is moved out and erased before callbacks run, as in the
source. The device is external: it works on requests in any order except
discoveries of one peer, and answers each with a response or an error.

`Subsystems` has one definition per method of the managers: the ones that register a
handler say for which message and which members of the structure they fill, the ones
that send say what message they build. The connection's table has one entry
per message identifier, so that handlers of two managers could displace each
other. The modem lines of the serial proxy have the full one-shot table,
with callbacks that ask again.

## 3. Runs

| Run | Shows | Bounds |
|---|---|---|
| `connection_noise` | eight invariants of a session over Noise, with every order of completions, timers, frames and user calls | 4 timers, 2 queued writes |
| `loop_plain` | plaintext on the fair event loop: a wait for a pong and an attempt always end; the inductive invariant of the proofs holds | 3 timers, 1 queued write |
| `frame_bytes` | any 8 bytes from {0, 1, 2, 128} in chunks of 1 to 3: frames, waits and errors are the reference's | payload limit 1 |
| `frame_stream` | sender and reader implement a FIFO channel; everything sent is delivered; messages of a newer sender are parsed right | 2 frames, 2 types, 4 messages, reads of up to 6 bytes |
| `noise_frames` | both ends are ready only with the same keys, with a device that differs in any way; then both directions are FIFO channels and everything sent is decrypted | 6 devices, 2 messages each way, payloads of 0 and 1 byte |
| `entity_commands` | commands of 19 domains, by handle and by command line, change what they name, read back, and send no number out of range | 2 entities, 2 commands, 8-bit integers, NaN and infinities |
| `client_store` | the store answers with the last state, and a name leads to its entity or to none, across lost connections and a changed configuration; a subscription fills it | 3 entities, two with one key, two with one object identifier; 4 calls, 1 change, 2 losses, 2 configurations |
| `sync_client` | what a blocking call returns is complete and of this session; a name is resolved with the newest device information; every call ends | 5 calls, 2 losses, 2 entities |
| `gatt_callbacks` | every `done` runs exactly once, with a response to its own operation on its own characteristic or an error of that characteristic; a service table is told in order | 3 calls, 2 devices that differ in the top bit, 2 batches |
| `subsystems` | handlers hear what they were registered for, the device hears the calls, modem pin callbacks run exactly once and read what was set | pairs of methods, 3 calls, 1 unsolicited message, 1 loss |
| `loop_revived`, `sync_late` | a counterexample each, section 5 | those of the passing run of the module |

Why the bounds suffice. A session has at most one connect, one ping and one pong
timer that count; the fourth identifier is for one that was cancelled too late.
`MaxQueue` bounds the writes user and ping actions may add; two are one in flight
and one behind it, which is what `do_write` distinguishes. The writes of
the handlers that close the connection are not bounded. In `frame_bytes` eight
bytes hold two frames with one-byte varints, a frame whose varint spans chunks, and the
four-byte budget of the varint with its boundary (128 is the continuation byte, 1 the
Noise indicator); a payload limit of 1 puts the limit check within reach.
`frame_stream` uses types with two and four varint bytes; its messages have numbers at
both ends of their ranges, an empty payload, an empty embedded message, and fields of
every wire type that the reader lacks. Reads of 6 bytes cut each frame in several
places and hold two empty messages at once.

In `noise_frames` the base of a byte is 2, so that the two-byte lengths reach their high
byte with three symbols; two messages per direction show nonces that have advanced. Two
commands are what a `has_` flag left over or a toggle before the report needs;
two entities, which are interchangeable (the symmetry set), show a command that reaches
the wrong one. In `client_store` four calls are list, subscribe, lose, subscribe
again, and a toggle; the three entities are what it takes to share a key and an object
identifier and to have one of each alone. In `sync_client` a call that times out, its late answer in
the next call, a loss and a new connection fit into five calls. Three GATT calls are one
that is answered, one behind it under the same key and one made by a callback; the
addresses 1 and 3 of a span of 4 differ in the top bit only, which a key that is a bit
too narrow would lose. In
`subsystems` any two methods of a manager are combined in any order and repeated, which is
what displacing a handler takes; the three methods of the modem lines are used
together.

Deadlock is not checked: a session that has ended, an input that is used up and a
user who makes no more calls are legitimate ends.

### Fairness

`AsioLoop` assumes that the thread in `io_context::run` goes on (weak fairness of
`run_one`), that a read handler ends because a chunk holds finitely many frames
(`drain_end`), and that armed deadlines pass (strong fairness of each timer: a
timer is disabled while a handler runs and enabled again after it).
Network, peer and user owe nothing. `FrameStream` and `NoiseFrame` assume that bytes
under way arrive and the reader reads them; `NoiseFrame` also that the device handles what
it was sent, hangs up on what is in the clear, and that the read error is handled. `Client` and `Subsystems` assume that the loop handles what has
arrived and the device answers, and state their liveness with the loss of the
connection as a way out. `SyncClient` assumes that a running call goes on, its deadline
included, and that a connection attempt is decided, which is what `loop_plain`
shows of `AsioLoop`, be it by closing without a word to the call; the device owes it no answer. `BluetoothProxy` and `CliActions` need none.

## 4. Theorems

`ConnectionProofs` proves `Spec => []IndInv` for any finite or infinite set of timer
identifiers, either frame helper, keepalive on or off, and any queue bound. The properties
are not inductive as they stand:

- `KeepaliveWatches` needs that no ping timer runs before the session is up and that
  no DisconnectRequest is in the queue while it is (`EarlyIsQuiet`). An attempt that
  failed can be revived by a queued connect completion, so "before" is told by
  the transport and the Noise state and not by `state` alone (`Early`).
- `DeadlineGuardsAttempt` needs that the connect handle is current;
  `HandlesCurrent` relates handles to phases.
- `ReadPumpRuns` needs that nothing is read while the connect is in progress
  (`ConnectPhase`).

The proof goes action by action; facts about the timer table (`cancel` frees or
leaves queued, `schedule_after` touches one identifier) and the transport
(`async_write` and `close` keep the write queue serialised) are lemmas.
`TypeCorrect`, `KeepaliveCorrect`, `PingTimerCorrect`, `DeadlineCorrect`,
`ReadPumpCorrect`, `WritesCorrect`, `HandshakeCorrect` and `ReleaseCorrect` are its
corollaries, one per property.

`FrameProofs` proves `FrameSpec => [](FrameTypeOK /\ BufferIsTail)` for input of any
length in any chunks: the buffer from `consumed_` on is exactly the part of the
input that no frame has taken, so no byte is lost, repeated or reordered. It
rests on lemmas about what `decode_varint` consumes.

It also proves `SplitIsReference`: the frames, waits and errors of the incremental parser are
those of `Split`, which cuts the whole input at once, so they depend on the bytes and not on
how TCP delivered them. `Split` is a recursive function and `Value` a fold over the bytes
of a varint, so the proof first unfolds them. That is induction over data, which
here goes through sets: a set of numbers that is not empty has a least element
(`WFMin` with `NatLessThanWellFounded`, neither of which takes an operator), hence a set
that holds 0 and is closed under adding 1 holds every number, and the domains on which a
function satisfies its defining equation are such a set (`SplitUnfolds`). `ParseIs` relates
`parse()` to the reference on one buffer, and `FrameStays` says that a frame or an error found
in a prefix stays one when more bytes arrive. The invariant `SplitInv` strengthens
`BufferIsTail` by where the frames end in the input (`EndsOf`).

`FrameProofs` finally proves `StreamSpec => ImplementsChannel`: sender, TCP stream and reader
are a FIFO channel, for any number of frames, any payloads within the payload limit, any
chunks. The lemmas show that `decode_varint` gives back what `append_varint` wrote, that
`parse` of a whole encoded frame is that frame with nothing left over, and that `parse`
of a proper prefix waits. The invariant `StreamInv` says where the frames end in the
stream (`Cuts`): a function from frame numbers to positions, so that no recursive
concatenation is needed, and that the reader stands at one of these positions. A step of
the wire changes no position, and a step of the reader moves to the next. Types
and lengths are below 2^28, what the four bytes of `varint_budget` hold.

`NoiseProofs` proves `ReadyMeansAgreed` and `NoiseSpec => NoiseImplementsChannel`: a session
is ready only with a device that knows the key and has the name asked for, and then both
directions are FIFO channels, for any devices, keys, names, byte base, number of messages
and chunks, over the ideal primitives of `NoiseHandshake`. What it assumes of the constants
is that a message with its inner header and tag, and the hello of a device, fit the u16
length fields; beyond that `append_u16` truncates. Three parts of `NoiseInv` go in step:

- `KeysAgree`, a lemma about the handshake: when the device could open the first message its
  key was the client's, and the two sides then mix the same tokens and split the result
  into the same two keys, which differ from each other and from no key. It follows the
  symmetric state token by token (`FirstIs`, `HeardIs`, `SplitIs`).
- `Session`: the bodies written by the device are its greeting, its answer and its messages,
  the k-th under nonce k - 1; what the client sent and the device has not read are its
  messages in order under the nonces that follow; each cipher's nonce is the number of
  messages of its direction. Before the device has answered, `Greeting` says which of
  the first frames were exchanged.
  A message that goes out in the clear ends the list: what is behind it the device
  does not read.
- `Aligned`: buffer and stream together are whole frames from the body that the reader
  expects next to the last one written. As in `FrameProofs` a function says where each
  frame begins (`LaidOut`). A chunk changes nothing of it, a frame written comes behind
  (`LaidMore`), a frame read is the first (`LaidTake`).

`GattProofs` proves `EachDoneOnce`, `NoDoneForgotten` and `ResultIsForTheCall` for any
addresses of 48 and handles of 16 bits, calls and callbacks that call again. That `gatt_key`
tells their pairs apart is a lemma; a response is of the call's own operation, device and
characteristic, while an error may be that of a write given to a read, or answer an earlier
request. The properties count; `GattInv` says where a callback is: in the
table of its operation under its own key, in the list that is being run, or run, and in one
of these only, and that the message being handled agrees with the ones in the list.
`NoDoneForgotten` needs that what waits in a table has a request or an answer under way
(`AnswerComing`), and that is also true while the tables of a message are looked at one
after the other. `ServicesInOrder`, that a discovery is told consecutive batches of
its table up to the end, needs `OrderInv` besides. Of every peer one knows, at each message in
the inbox, which batch comes next (`InOrder`): the kept batches end before the one that the
first message brings, each message leads to the next (`Follows`), and behind the last stands
the batch that the device will send, since only its oldest discovery is under way
(`Underway`). What is in the list being run, or has been run, was taken from there
(`OnceInOrder`, `FiredInOrder`). An error may throw away the first batches of a table, so
that what is told is consecutive up to the end and need not start at the beginning.

`ClientProofs` proves `CacheIsCurrent` and `NamedEntityFound` for any entities, configurations,
calls, changes and lost connections. `ClientInv` says that an entry of the store is made of
messages of entities with its key (`StoreOfEntities`), and that the state in the store, or the
newest one under way behind it, is the device's (`Current`, `Newest`). What it assumes of a
device (`EntityAssumption`) is that a key stands for one entity of its domain and that a name has a
character that an object identifier keeps. Keys and object identifiers may be shared
between domains: `CacheIsCurrent` and `SubscriptionFillsStore` speak of entities whose key is their
own, `NamedEntityFound` of all of them. What then goes wrong is in section 5.

`CommandProofs` proves `DeviceFollows`, `HandleReadsBack` and `ValuesLimited` for the nineteen
domains, any number of entities and calls, messages in flight, and any width and unit of
numbers. `AppliesAsks` is the heart: the device, given the message that `to_message` of a domain
builds from a command, changes the members that the command engages and nothing else; for
seventeen domains by the shape of the message (`MessageShape`), for the light with one
flag for three channels, for the water heater whose flags are bits of a sum (`FlagBits`).
`ActionIsGood` goes through every action of the tool: it sends a command of its domain whose
members are in range or NaN, or a value was refused. `DeviceFollows` speaks of a fold over the messages in
flight; `FoldChain` unfolds it into a chain of states of the device, after which a message sent
is one more state and a message applied one less (`FoldFacts`), and messages for other
entities leave an entity alone (`FoldUntouched`). The invariants are `CliInv` (members of the
device, keys of the messages, the fold), `CacheInv` (what was reported since the last change is
what the device has) and `RangeInv`.

`SyncProofs` proves the action properties `ListIsComplete`, `InfoIsOfThisSession` and
`NameFollowsInfo` for any finite set of entities. They speak of the step in which a call returns; the invariant
relates messages under way to the session: queues hold only messages of this
session (`QueuesOfSession`), before a ListEntitiesDoneResponse come all entities that the
store lacks (`ListEndsComplete`), a finished call has its answer (`DoneHasAnswer`), and what
`device_info()` returned is held until the next `connect()` (`InfoHeld`).
That an answer may belong to an earlier call that timed out is part of it.

`SubsystemProofs` proves `EveryHandlerHears`, `DeviceHearsCalls`, `PinsExactlyOnce` and
`ReadsOwnWrites` for any number of calls, messages, lost connections and serial proxy
instances, and every program that uses the managers' methods. `SubInv` says
which handler an entry of the table leads to (`HandlersPlaced`), where a callback of
`get_modem_pins` is (`CallbacksHeld`, `Disjoint`, `NoneLost`), and for `ReadsOwnWrites` what
the device's lines will be after the requests under way (`LinesUnderWay`) and which answer a
call that was alone will be given (`OwnAnswerComes`). Instances and message identifiers are
different values; that is how the model keeps both in one function.

Only model-checked: the liveness properties (`PongWaitEnds`, `AttemptSettles`,
`EveryFrameDelivered`, `EveryMessageDecrypted`, `HandshakeSettles`, `SubscriptionFillsStore`,
`CallsEnd`, `PinsAnswered`), since fairness and ENABLED are outside the prover's reach; and
`MessagesDecoded`, because embedded messages make the codec of `ProtoWire` mutually recursive
operators, which the prover does not admit.

## 5. Where the code departs from its documentation

Two departures have a run of their own:

1. `DeadStaysDead` (`loop_revived`): the connect deadline fails an attempt whose name
   lookup has completed with its handler queued; `resolver_.cancel()` does not reach it, the
   handler connects, and the attempt that was reported as failed becomes `Connected`
   (tcp_transport.cpp:84, connection.cpp:107; connection_state.hpp:8 says transitions are
   strictly monotonic).
2. `NoHandlerOutlivesItsCall` (`sync_late`): a blocking request that times out throws past the
   line that removes its handler; a late answer, pumped by a later call, runs it with
   references to locals that are gone (sync_client.cpp:73, 129). README.md:179 says that a call
   pumps until the request resolves or its timeout fires, which leaves open what a
   timeout leaves behind; the property is what the lambda's captures need.

Five have a definition that states what the documentation says, beside the property that
states what remains true. None of the five is an invariant: as the only invariant of the
passing run's configuration, each is violated within seconds.

3. `AnswersOwnCall` (`BluetoothProxy`, Gatt.cfg): a `done` gets the answer to an earlier request
   of its key, or the error of another operation (bluetooth_proxy.cpp:207, 287;
   bluetooth_proxy.hpp:230 says that the device's response to your call is delivered). After an
   error of another operation a discovery may be told the rest of the table as the whole
   (bluetooth_proxy.cpp:303; bluetooth_proxy.hpp:243 says the full table).
   `ResultIsForTheCall` and `ServicesInOrder` are what remains true.
4. `FractionsInRange` (`CliActions`, Commands.cfg): `turn_on nan` sends a brightness that is no
   number (entity_actions.cpp:71, 101; entity_actions.hpp:41 says clamped to [0, 1]).
   `ValuesLimited` is what remains true.
5. `TypedAccess` (`Client`, Client.cfg): the store is keyed by the key alone
   (entity_store.cpp:33, 50), so that of two entities of different domains with one key the
   state of one ends in the entry of the other and is cast to its class (entity_store.hpp:47
   says a single entity with its latest state). ESPHome allows such a device: keys are made
   from names.
6. `AbsentIsNotFound` (`Client`, Client.cfg): an entity of an earlier configuration is still
   found after the device was listed anew (entity_store.cpp:33; README.md:84).
7. `ListedIsFound` (`Client`, Client.cfg): of two entities of different domains with one object
   identifier the lookup meets one first and gives nothing for the other, although the device
   has it (entity_store.cpp:71, entity_registry.hpp:353; README.md:84). `NamedEntityFound` is
   what remains true.

Others the models contain, met on the way and not worth a run:

- A DisconnectResponse in the Hello exchange, so also the answer to a `disconnect()` made
  there, closes the connection and never calls `on_done` (connection.cpp:242, 309;
  connection.hpp:57 says exactly once). `AttemptSettles` excuses a closed session;
  `SyncClient::connect` is ended by its own deadline.
- Malformed data read before a transport failure and parsed after it sets `last_error()`
  (connection.cpp:147; connection.hpp:100).
- A failed write abandons the writes behind it, handlers included, and with them the
  DisconnectRequest: the session stays `Closing` (tcp_transport.cpp:150; transport.hpp:35).
- A pong timer cancelled after its completion was queued fails the connection if the next
  ping has been sent by then (connection.cpp:372). `KeepaliveWatches` says that a wait has a
  deadline, not that it is its own.
- A message sent over Noise before the session is ready leaves in the clear
  (noise_frame_helper.cpp:69, cipher_state.cpp:13): nothing between `Client::send` and the
  socket looks at the state.
- `serial_proxy(name)` after a reconnect resolves the name with the DeviceInfo of an earlier
  session unless `device_info()` was called since (sync_client.cpp:82).
- `get_modem_pins()` whose answer is lost keeps its callback for the next answer
  (serial_proxy.cpp:118): in `PinsExactlyOnce` a callback that is kept counts as held.
- `toggle()` twice before a report sends the same command twice (entity_handles.hpp:90).

## 6. Not modelled, and the plan

Left out, with the reason:

- the cryptographic primitives: arithmetic on words of 32 and 255 bits, with test vectors
  of their own;
- `Discovery`: one browse over a multicast socket, whose only state is a table filled from
  records; a decoder of names with a limit on pointers;
- JSON and text output: formatting only;
- lexer and parser of the generator, and the layout of its files: a run of it leaves
  nothing behind but the text; the functions in that text are in `ProtoWire`;
- the other commands of the command line tool: files, signals, a pseudo-terminal;
- a second `start()` on one `Connection`: `Client`, `SyncClient` and `Subsystems` connect again
  after a `Drop`, with queues that are empty, while in the code the frame buffer and the write
  queue of the first attempt survive, so that what these modules show of a later session
  rests on the peer seeing a clean stream;
- handlers that throw, and catch-all handlers that register others: what they do depends on
  who runs the `io_context` and on the library.

Next: the codec of embedded messages as a recursive function over the nesting depth, so that
`MessagesDecoded` can be proved as `SplitIsReference` was.
