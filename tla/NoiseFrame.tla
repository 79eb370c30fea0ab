----------------------------- MODULE NoiseFrame -----------------------------
(***************************************************************************)
(* The encrypted frame helper (src/frame/noise_frame_helper.cpp) at the     *)
(* client, and a device that answers it.  What the device writes reaches    *)
(* feed() byte by byte or in chunks of any size; the frames of the client   *)
(* reach the device whole.                                                  *)
(*                                                                          *)
(* A byte is a record: the number of the frame body it belongs to and its   *)
(* place in it, or body 0 and a value for the three bytes of a header.      *)
(***************************************************************************)
EXTENDS NoiseHandshake, SequencesExt

CONSTANTS Devices,        \* the devices a run tries: key, name, protocol, encrypted or not
          PskOfClient,    \* noise_psk of the options
          ExpectedName,   \* expected_name of the options, "" for any
          Base,           \* values of a byte: the u16 fields hold Base * Base values
          HeaderLen,      \* bytes of the inner header: type and length
          TagLen,         \* bytes that encryption adds
          PayloadLens,    \* lengths of application payloads
          MaxSent         \* bound: application messages of either side

ASSUME NoiseAssumption ==
    /\ Base \in Nat \ {0, 1} /\ {HeaderLen, TagLen, MaxSent} \subseteq Nat
    /\ \A n \in PayloadLens : n \in Nat /\ n + HeaderLen + TagLen < Base * Base
    /\ \A d \in Devices : d.encrypted \in BOOLEAN /\ d.hello \in 0..(Base * Base - 1)

VARIABLES state_, handshake_, encrypt_, decrypt_, buffer_, consumed_,
          draining,      \* the loop over next() is running
          open,          \* the transport is open and the session has not failed
          received,      \* application messages that next() returned
          sent,          \* application messages that encode() sealed
          clear,         \* a frame without encryption: "none", "sent" or "met" by the device
          device,        \* the device: its configuration, handshake and ciphers
          to_device,     \* frames on their way to the device
          bodies, wire,  \* bodies written by the device, bytes not yet read
          device_sent, device_received

client_noise == <<state_, handshake_, encrypt_, decrypt_, buffer_, consumed_>>
noise_vars == <<client_noise, draining, open, received, sent, clear, device, to_device, bodies,
                wire, device_sent, device_received>>

Messages == [type : {1}, len : PayloadLens]

-----------------------------------------------------------------------------
(* Bytes *)

append_u16(n) == LET m == n % (Base * Base)
                 IN  <<[body |-> 0, at |-> m \div Base], [body |-> 0, at |-> m % Base]>>

indicator == [body |-> 0, at |-> 1]

(* The frame whose body has the number id and n bytes. *)
Framed(id, n) ==
    <<indicator>> \o append_u16(n) \o [i \in 1..n |-> [body |-> id, at |-> i]]

(* Bug variant of Inner: the length counts the header too. *)
Inner_with_header(m) ==
    [type |-> m.type % (Base * Base), len |-> (HeaderLen + m.len) % (Base * Base)]

(* The plaintext [u16 type][u16 len][payload] of a message. *)
Inner(m) == [type |-> m.type % (Base * Base), len |-> m.len % (Base * Base)]

SizeOf(m) == HeaderLen + m.len + TagLen

(* Bug variant of enough: the last byte of a body is not seen. *)
enough_late(n, len) == n - 3 > len

enough(n, len) == n - 3 >= len

compact == IF consumed_ >= Len(buffer_) THEN <<>>
           ELSE SubSeq(buffer_, consumed_ + 1, Len(buffer_))

(* next_raw after compact(): NeedMore, an exception, or the bytes of a body. *)
next_raw(b) ==
    LET len == b[2].at * Base + b[3].at
    IN  CASE Len(b) < 3 -> [status |-> "NeedMore", raw |-> <<>>]
          [] Len(b) >= 3 /\ b[1].at # indicator.at -> [status |-> "throw", raw |-> <<>>]
          [] OTHER -> IF enough(Len(b), len)
                      THEN [status |-> "Ok", raw |-> SubSeq(b, 4, 3 + len)]
                      ELSE [status |-> "NeedMore", raw |-> <<>>]

(* The body that a raw payload is, if it is one from its first byte to its last. *)
Body(raw) == IF raw = <<>> THEN [kind |-> "empty"] ELSE bodies[raw[1].body]

-----------------------------------------------------------------------------
NoiseInit ==
    /\ state_ = "ExpectServerHello"
    /\ handshake_ = initialize("Initiator", PskOfClient)
    /\ encrypt_ = CipherState(NoKey) /\ decrypt_ = CipherState(NoKey)
    /\ buffer_ = <<>> /\ consumed_ = 0 /\ draining = FALSE /\ open = FALSE
    /\ received = <<>> /\ sent = <<>> /\ clear = "none"
    /\ \E d \in Devices :
          device = [conf |-> d, up |-> FALSE, hs |-> initialize("Responder", d.psk),
                    send |-> CipherState(NoKey), recv |-> CipherState(NoKey)]
    /\ to_device = <<>> /\ bodies = <<>> /\ wire = <<>>
    /\ device_sent = <<>> /\ device_received = <<>>

(* A frame on its way to the device, which reads nothing behind one in the     *)
(* clear.                                                                      *)
Carry(frames) == to_device' = IF clear = "none" THEN to_device \o frames ELSE to_device

(* The transport is connected: NOISE_HELLO and the first handshake message. *)
connect_bytes ==
    /\ ~open /\ handshake_ = initialize("Initiator", PskOfClient)
    /\ open' = TRUE
    /\ \E w \in {write_message(handshake_)} :
           /\ handshake_' = w.hs
           /\ Carry(<<[kind |-> "hello"], [kind |-> "handshake", msg |-> w.msg]>>)
    /\ UNCHANGED <<state_, encrypt_, decrypt_, buffer_, consumed_, draining, received, sent,
                   clear, device, bodies, wire, device_sent, device_received>>

(* Called in every state.  Before split() the cipher has no key and the message *)
(* goes out as it is; on a socket that is not connected the write may fail, or  *)
(* wait and go out ahead of the handshake.                                      *)
encode(m) ==
    /\ \E ct \in {encrypt_with_ad(encrypt_, <<>>, Inner(m))} :
          \/ /\ encrypt_.key # NoKey /\ Len(sent) < MaxSent
             /\ encrypt_' = ct.cipher
             /\ Carry(<<[kind |-> "app", ct |-> ct.out]>>)
             /\ sent' = Append(sent, m)
             /\ UNCHANGED clear
          \/ /\ encrypt_.key = NoKey /\ clear = "none"
             /\ clear' \in IF open THEN {"sent"} ELSE {"none", "sent"}
             /\ UNCHANGED <<encrypt_, to_device, sent>>
    /\ UNCHANGED <<state_, handshake_, decrypt_, buffer_, consumed_, draining, open,
                   received, device, bodies, wire, device_sent, device_received>>

feed(n) ==
    /\ open /\ ~draining /\ n <= Len(wire)
    /\ buffer_' = buffer_ \o SubSeq(wire, 1, n)
    /\ wire' = SubSeq(wire, n + 1, Len(wire))
    /\ draining' = TRUE
    /\ UNCHANGED <<state_, handshake_, encrypt_, decrypt_, consumed_, open, received, sent,
                   clear, device, to_device, bodies, device_sent, device_received>>

unchanged_by_next == UNCHANGED <<sent, clear, device, to_device, bodies, wire,
                                 device_sent, device_received>>

next_needs_more ==
    /\ draining /\ next_raw(compact).status = "NeedMore"
    /\ buffer_' = compact /\ consumed_' = 0
    /\ draining' = FALSE
    /\ UNCHANGED <<state_, handshake_, encrypt_, decrypt_, open, received>>
    /\ unchanged_by_next

(* A ProtocolError: the connection fails and closes the transport. *)
throws ==
    /\ draining' = FALSE /\ open' = FALSE
    /\ UNCHANGED <<state_, handshake_, encrypt_, decrypt_, received>>

next_throws ==
    /\ draining /\ next_raw(compact).status = "throw"
    /\ buffer_' = compact /\ consumed_' = 0
    /\ throws
    /\ unchanged_by_next

(* on_error_ makes the connection fail. *)
report_error ==
    /\ state_' = "Failed" /\ open' = FALSE
    /\ UNCHANGED <<handshake_, encrypt_, decrypt_, draining, received>>

(* Bug variant of hello_accepted: the name is not compared. *)
any_name_accepted(b) == b.kind = "hello" /\ b.proto = 1

hello_accepted(b) ==
    /\ b.kind = "hello" /\ b.proto = 1
    /\ ExpectedName # "" => b.name = ExpectedName

handle_server_hello(b) ==
    \/ /\ hello_accepted(b)
       /\ state_' = "ExpectHandshake"
       /\ UNCHANGED <<handshake_, encrypt_, decrypt_, draining, open, received>>
    \/ ~hello_accepted(b) /\ report_error

handle_server_handshake(b) ==
    IF b.kind # "handshake" THEN report_error
    ELSE \E r \in {read_message(handshake_, b.msg)} :
            \/ /\ r.ok
               /\ handshake_' = r.hs
               /\ \E ciphers \in {split(r.hs)} :
                     encrypt_' = ciphers.send /\ decrypt_' = ciphers.recv
               /\ state_' = "Ready"
               /\ UNCHANGED <<draining, open, received>>
            \/ ~r.ok /\ report_error

handle_message(b) ==
    LET pt == decrypt_with_ad(decrypt_, <<>>, b.ct)
    IN  IF b.kind = "app" /\ pt.ok
        THEN /\ decrypt_' = pt.cipher
             /\ received' = Append(received, b.ct.text)
             /\ UNCHANGED <<state_, handshake_, encrypt_, draining, open>>
        ELSE throws

next_frame ==
    LET b == compact
        r == next_raw(b)
    IN  /\ draining /\ r.status = "Ok"
        /\ buffer_' = b /\ consumed_' = 3 + Len(r.raw)
        /\ \/ state_ = "ExpectServerHello" /\ handle_server_hello(Body(r.raw))
           \/ state_ = "ExpectHandshake" /\ handle_server_handshake(Body(r.raw))
           \/ state_ = "Ready" /\ handle_message(Body(r.raw))
           \/ state_ = "Failed" /\ draining' = FALSE
              /\ UNCHANGED <<state_, handshake_, encrypt_, decrypt_, open, received>>
        /\ unchanged_by_next

-----------------------------------------------------------------------------
(* The device, external. *)

Writes(body, n) ==
    /\ bodies' = Append(bodies, body)
    /\ wire' = wire \o Framed(Len(bodies) + 1, n)

DeviceSaysHello ==
    IF device.conf.encrypted
    THEN Writes([kind |-> "hello", proto |-> device.conf.proto, name |-> device.conf.name],
                device.conf.hello)
    ELSE /\ wire' = wire \o [i \in 1..3 |-> [body |-> 0, at |-> 0]]
         /\ UNCHANGED bodies

DeviceShakesHands(msg) ==
    \E r \in {read_message(device.hs, msg)} :
        \/ /\ r.ok
           /\ \E w \in {write_message(r.hs)} : \E ciphers \in {split(w.hs)} :
                 /\ device' = [device EXCEPT !.up = TRUE, !.hs = w.hs,
                                  !.send = ciphers.send, !.recv = ciphers.recv]
                 /\ Writes([kind |-> "handshake", msg |-> w.msg], 2)
        \/ ~r.ok /\ Writes([kind |-> "rejected"], 2) /\ UNCHANGED device

DeviceReads ==
    /\ to_device # <<>> /\ open
    /\ LET f == Head(to_device)
       IN  \/ /\ f.kind = "hello" /\ DeviceSaysHello
              /\ UNCHANGED <<device, device_received>>
           \/ /\ f.kind = "handshake" /\ device.conf.encrypted /\ DeviceShakesHands(f.msg)
              /\ UNCHANGED device_received
           \/ /\ f.kind = "handshake" /\ ~device.conf.encrypted
              /\ UNCHANGED <<device, device_received, bodies, wire>>
           \/ LET pt == decrypt_with_ad(device.recv, <<>>, f.ct)
              IN  /\ f.kind = "app" /\ pt.ok
                  /\ device' = [device EXCEPT !.recv = pt.cipher]
                  /\ device_received' = Append(device_received, f.ct.text)
                  /\ UNCHANGED <<bodies, wire>>
    /\ to_device' = Tail(to_device)
    /\ UNCHANGED <<client_noise, draining, open, received, sent, clear, device_sent>>

DeviceSends(m) ==
    /\ device.up /\ open /\ clear # "met" /\ Len(device_sent) < MaxSent
    /\ LET ct == encrypt_with_ad(device.send, <<>>, Inner(m))
       IN  /\ device' = [device EXCEPT !.send = ct.cipher]
           /\ Writes([kind |-> "app", ct |-> ct.out], SizeOf(m))
    /\ device_sent' = Append(device_sent, m)
    /\ UNCHANGED <<client_noise, draining, open, received, sent, clear, to_device,
                   device_received>>

(* What is not encrypted is no frame that the device expects: it hangs up, *)
DeviceHangsUp ==
    /\ clear = "sent" /\ open /\ to_device = <<>>
    /\ clear' = "met"
    /\ UNCHANGED <<client_noise, draining, open, received, sent, device, to_device, bodies,
                   wire, device_sent, device_received>>

(* and the read that ends with an error fails the session. *)
read_fails ==
    /\ clear = "met" /\ open /\ ~draining
    /\ open' = FALSE
    /\ UNCHANGED <<client_noise, draining, received, sent, clear, device, to_device, bodies,
                   wire, device_sent, device_received>>

NoiseNext ==
    \/ connect_bytes \/ next_needs_more \/ next_throws \/ next_frame \/ DeviceReads
    \/ DeviceHangsUp \/ read_fails
    \/ \E n \in 1..Len(wire) : feed(n)
    \/ \E m \in Messages : encode(m) \/ DeviceSends(m)

(* The reader's loop goes on, and the device reads or hangs up. *)
NoiseSpec ==
    /\ NoiseInit /\ [][NoiseNext]_noise_vars
    /\ WF_noise_vars(DeviceReads) /\ WF_noise_vars(DeviceHangsUp) /\ WF_noise_vars(read_fails)
    /\ WF_noise_vars(\E n \in 1..Len(wire) : feed(n))
    /\ WF_noise_vars(next_needs_more \/ next_throws \/ next_frame)

-----------------------------------------------------------------------------
(* A session is only ready with a device that knows the key and has the name   *)
(* asked for, and then each side decrypts with what the other encrypts with,   *)
(* in either direction another key (handle_server_hello, handle_server_        *)
(* handshake, NoiseHandshake::split).                                          *)
ReadyMeansAgreed ==
    state_ = "Ready" =>
        /\ device.conf.psk = PskOfClient
        /\ ExpectedName # "" => device.conf.name = ExpectedName
        /\ encrypt_.key = device.recv.key /\ decrypt_.key = device.send.key
        /\ encrypt_.key # decrypt_.key /\ NoKey \notin {encrypt_.key, decrypt_.key}

ToClient == INSTANCE MessageChannel WITH
                Frames <- Messages, delivered <- received,
                in_transit <- SubSeq(device_sent, Len(received) + 1, Len(device_sent))

ToDevice == INSTANCE MessageChannel WITH
                Frames <- Messages, delivered <- device_received,
                in_transit <- SubSeq(sent, Len(device_received) + 1, Len(sent))

(* Both directions are reliable channels: the nonces stay in step and the      *)
(* lengths say where a frame ends, for every chunking, so every message is     *)
(* decrypted once, in order and with its own type and length.  A message given *)
(* to encode() before the session is ready takes no nonce and no place in the  *)
(* channel: nothing of it or behind it is delivered.                           *)
NoiseImplementsChannel == ToClient!ChannelSpec /\ ToDevice!ChannelSpec

(* The handshake ends, whatever the device is: ready, or with an error that    *)
(* fails the connection; no byte that has arrived is waited for.               *)
HandshakeSettles == open ~> state_ = "Ready" \/ ~open

(* In a session that is ready, what the device sent is received: no message    *)
(* makes decryption fail and none is held back.  Only a message that went out  *)
(* before the session was ready, and so in the clear, can end it.              *)
EveryMessageDecrypted ==
    \A n \in 1..MaxSent :
        state_ = "Ready" /\ Len(device_sent) >= n ~> Len(received) >= n \/ clear # "none"
=============================================================================
