----------------------------- MODULE NoiseProofs -----------------------------
(***************************************************************************)
(* The safety of the encrypted session (NoiseFrame.tla) over the ideal       *)
(* primitives, for any devices, keys, names and lengths that fit the u16     *)
(* fields, and any chunks: a ready session is one with a device that knows   *)
(* the key, and both directions are reliable channels of messages.           *)
(*                                                                          *)
(* Three things go in step.  The bytes that the reader has not consumed are  *)
(* whole frames from the body it expects next to the last one written        *)
(* (Aligned).  The bodies are the greeting, the handshake and the messages   *)
(* of the device in order, the k-th under nonce k - 1 (Session).  And the    *)
(* two sides derived the same two keys (KeysAgree).                          *)
(***************************************************************************)
EXTENDS NoiseFrame, TLAPS

Bytes == [body : Nat, at : Nat]

(* The handshake as it goes with the device d: what the client writes, what the   *)
(* device makes of it and answers, and what the client makes of the answer.       *)
Fresh == initialize("Initiator", PskOfClient)
Opening == write_message(Fresh)
Heard(d) == read_message(initialize("Responder", d.psk), Opening.msg)
Reply(d) == write_message(Heard(d).hs)
Answered(d) == read_message(Opening.hs, Reply(d).msg)

ToClientKey(d) == split(Reply(d).hs).send.key
ToDeviceKey(d) == split(Reply(d).hs).recv.key

(* What the client sends before it is ready, and what the device writes. *)
Hello == [kind |-> "hello"]
Shake == [kind |-> "handshake", msg |-> Opening.msg]
Told(d) == [kind |-> "hello", proto |-> d.proto, name |-> d.name]
Rejected == [kind |-> "rejected"]
Agreed(d) == [kind |-> "handshake", msg |-> Reply(d).msg]
App(key, n, m) == [kind |-> "app", ct |-> [key |-> key, nonce |-> n, ad |-> <<>>, text |-> m]]

NewDevice(d) ==
    [conf |-> d, up |-> FALSE, hs |-> initialize("Responder", d.psk),
     send |-> CipherState(NoKey), recv |-> CipherState(NoKey)]

-----------------------------------------------------------------------------
(* The invariant *)

NoiseTypes ==
    /\ device.conf \in Devices /\ open \in BOOLEAN /\ draining \in BOOLEAN
    /\ state_ \in {"ExpectServerHello", "ExpectHandshake", "Ready", "Failed"}
    /\ buffer_ \in Seq(Bytes) /\ wire \in Seq(Bytes) /\ consumed_ \in 0..Len(buffer_)
    /\ sent \in Seq(Messages) /\ received \in Seq(Messages)
    /\ device_sent \in Seq(Messages) /\ device_received \in Seq(Messages)
    /\ clear \in {"none", "sent", "met"}

(* The transport is not connected yet. *)
Before ==
    /\ ~open /\ ~draining /\ state_ = "ExpectServerHello" /\ handshake_ = Fresh
    /\ to_device = <<>> /\ bodies = <<>> /\ buffer_ = <<>> /\ consumed_ = 0 /\ wire = <<>>

(* The device has no keys: it did not read the handshake, or rejected it, or is   *)
(* not encrypted, or never comes to the handshake, behind a frame in the clear.   *)
Greeting ==
    LET d == device.conf
    IN  /\ device = NewDevice(d) /\ state_ # "Ready"
        /\ sent = <<>> /\ received = <<>> /\ device_sent = <<>> /\ device_received = <<>>
        /\ \/ Before
           \/ /\ handshake_ = Opening.hs
              /\ \/ to_device = <<Hello, Shake>> /\ bodies = <<>>
                 \/ to_device = <<Shake>> /\ (d.encrypted => bodies = <<Told(d)>>)
                 \/ to_device = <<>> /\ (d.encrypted => bodies = <<Told(d), Rejected>>)
                 \/ to_device = <<>> /\ bodies = <<>> /\ clear # "none"

(* What the device wrote, and its nonces. *)
DeviceSide ==
    LET d == device.conf
    IN  /\ d.encrypted /\ Heard(d).ok
        /\ device = [conf |-> d, up |-> TRUE, hs |-> Reply(d).hs,
                     send |-> [key |-> ToClientKey(d), nonce |-> Len(device_sent)],
                     recv |-> [key |-> ToDeviceKey(d), nonce |-> Len(device_received)]]
        /\ Len(bodies) = 2 + Len(device_sent)
        /\ bodies = [i \in 1..Len(bodies) |->
                        IF i = 1 THEN Told(d) ELSE IF i = 2 THEN Agreed(d)
                        ELSE App(ToClientKey(d), i - 3, device_sent[i - 2])]

(* What the client sent that the device has not read, and its nonces; behind a     *)
(* frame in the clear the device reads nothing.                                   *)
ClientSide ==
    LET d == device.conf
    IN  /\ clear = "none" =>
              to_device = [j \in 1..(Len(sent) - Len(device_received)) |->
                             App(ToDeviceKey(d), Len(device_received) + j - 1,
                                 sent[Len(device_received) + j])]
        /\ clear # "none" => to_device = <<>> /\ device_received = <<>>
        /\ state_ # "Ready" => handshake_ = Opening.hs /\ sent = <<>> /\ received = <<>>
        /\ state_ = "Ready" =>
              /\ handshake_ = Answered(d).hs
              /\ encrypt_ = [key |-> ToDeviceKey(d), nonce |-> Len(sent)]
              /\ decrypt_ = [key |-> ToClientKey(d), nonce |-> Len(received)]

(* What was received is what was sent. *)
InOrder ==
    /\ Len(device_received) <= Len(sent)
    /\ \A k \in 1..Len(device_received) : device_received[k] = sent[k]
    /\ Len(received) <= Len(device_sent)
    /\ \A k \in 1..Len(received) : received[k] = device_sent[k]

Session == DeviceSide /\ ClientSide /\ InOrder

(* The client goes on only with a device it accepts, and not after an error, and  *)
(* has no key to encrypt with before it is ready.                                 *)
Accepted ==
    /\ state_ \in {"ExpectHandshake", "Ready"} => hello_accepted(Told(device.conf))
    /\ state_ = "Failed" => ~open
    /\ state_ # "Ready" => encrypt_.key = NoKey

-----------------------------------------------------------------------------
(* The bytes that the reader has not consumed. *)
Pending == compact \o wire

(* A frame of n bytes at position p: its header, and the body that it starts. *)
FrameAt(u, p, id, n) ==
    /\ n \in Nat /\ n < Base * Base /\ p + 2 + n <= Len(u)
    /\ u[p].at = 1 /\ u[p + 1].at * Base + u[p + 2].at = n
    /\ n > 0 => u[p + 3].body = id

(* The bytes are the frames of the bodies from first to last: start says where    *)
(* each begins.                                                                   *)
LaidOut(u, first, last, start) ==
    /\ first \in 1..(last + 1)
    /\ start \in [first..(last + 1) -> Nat]
    /\ start[first] = 1 /\ start[last + 1] = Len(u) + 1
    /\ \A i, j \in first..(last + 1) : i < j => start[i] + 3 <= start[j]
    /\ \A id \in first..last : FrameAt(u, start[id], id, start[id + 1] - start[id] - 3)

Laid(u, first, last) == \E start : LaidOut(u, first, last, start)

(* The number of the body that the reader expects. *)
Expected ==
    IF state_ = "ExpectServerHello" THEN 1
    ELSE IF state_ = "ExpectHandshake" THEN 2 ELSE 3 + Len(received)

(* As long as the reader is called: whole frames, or a device that speaks         *)
(* plaintext and no frame at all.                                                 *)
Aligned ==
    (open \/ draining) /\ state_ # "Failed" =>
        /\ device.conf.encrypted => Laid(Pending, Expected, Len(bodies))
        /\ ~device.conf.encrypted =>
              state_ = "ExpectServerHello" /\ \A i \in DOMAIN Pending : Pending[i].at = 0

NoiseInv == NoiseTypes /\ (Greeting \/ Session) /\ Accepted /\ Aligned

-----------------------------------------------------------------------------
(* The handshake: what both sides derive.                                    *)

Sym(h, ck, output, nonce) == [h |-> h, ck |-> ck, output |-> output, nonce |-> nonce]

(* What each operation on the symmetric state does to its fields: the hash, *)
LEMMA MixHash ==
  ASSUME NEW h, NEW ck, NEW o, NEW n, NEW x
  PROVE  \E g : mix_hash(Sym(h, ck, o, n), x) = Sym(g, ck, o, n)
  <1>1. mix_hash(Sym(h, ck, o, n), x) = Sym(Append(h, x), ck, o, n)
    BY SMTT(30) DEF mix_hash, Sym
  <1> QED
    BY <1>1, Zenon

(* the chaining key, *)
LEMMA MixKey ==
  ASSUME NEW h, NEW ck, NEW o, NEW n, NEW x
  PROVE  mix_key(Sym(h, ck, o, n), x) = Sym(h, Append(ck, x), 2, 0)
  <1> DEFINE y == mix_key(Sym(h, ck, o, n), x)
  <1>1. y \in [h : {h}, ck : {Append(ck, x)}, output : {2}, nonce : {0}]
    BY DEF mix_key, Sym
  <1> HIDE DEF y
  <1>2. y = [h |-> h, ck |-> Append(ck, x), output |-> 2, nonce |-> 0]
    BY <1>1
  <1> QED
    BY <1>2 DEF y, Sym

(* both, *)
LEMMA MixBoth ==
  ASSUME NEW h, NEW ck, NEW o, NEW n, NEW x
  PROVE  \E g : mix_key_and_hash(Sym(h, ck, o, n), x) = Sym(g, Append(ck, x), 3, 0)
  <1> DEFINE y == mix_key_and_hash(Sym(h, ck, o, n), x)
             g == Append(h, Item("output 2 of", x.of))
  <1>1. y \in [h : {g}, ck : {Append(ck, x)}, output : {3}, nonce : {0}]
    BY DEF mix_key_and_hash, Sym
  <1> HIDE DEF y, g
  <1>2. y = [h |-> g, ck |-> Append(ck, x), output |-> 3, nonce |-> 0]
    BY <1>1
  <1> QED
    BY <1>2 DEF y, Sym

(* and an ephemeral key. *)
LEMMA MixEphemeral ==
  ASSUME NEW h, NEW ck, NEW o, NEW n, NEW owner, NEW x, x = Item("e", {owner})
  PROVE  \E g : mix_ephemeral(Sym(h, ck, o, n), owner) = Sym(g, Append(ck, x), 2, 0)
  <1>1. PICK g : mix_hash(Sym(h, ck, o, n), x) = Sym(g, ck, o, n)
    BY MixHash
  <1>2. mix_key(Sym(g, ck, o, n), x) = Sym(g, Append(ck, x), 2, 0)
    BY MixKey
  <1> QED
    BY <1>1, <1>2 DEF mix_ephemeral

(* Who decrypts a payload comes to the state of who encrypted it. *)
LEMMA SameState ==
  ASSUME NEW s, NEW x
  PROVE  decrypt_and_hash(s, encrypt_and_hash(s, x).out).symmetric =
             encrypt_and_hash(s, x).symmetric
  BY DEF encrypt_and_hash, decrypt_and_hash

(* A payload is encrypted under the last key, which stays. *)
LEMMA Payload ==
  ASSUME NEW h, NEW ck, NEW o, NEW n \in Nat, NEW x, o # 0, NEW s, s = Sym(h, ck, o, n)
  PROVE  /\ \E g : encrypt_and_hash(s, x).symmetric = Sym(g, ck, o, n + 1)
         /\ encrypt_and_hash(s, x).out.key = [chain |-> ck, output |-> o]
  <1> DEFINE it == Item("ciphertext", {encrypt_with_ad(cipher_(s), s.h, x).out})
  <1>1. PICK g : mix_hash(s, it) = Sym(g, ck, o, n)
    BY MixHash
  <1>2. [Sym(g, ck, o, n) EXCEPT !.nonce = @ + 1] = Sym(g, ck, o, n + 1)
    BY DEF Sym
  <1>3. encrypt_and_hash(s, x).symmetric = Sym(g, ck, o, n + 1)
    BY <1>1, <1>2 DEF encrypt_and_hash
  <1>5. cipher_(s).key = [chain |-> ck, output |-> o] /\ cipher_(s).key # NoKey
    BY DEF cipher_, Sym, NoKey
  <1>6. encrypt_and_hash(s, x).out.key = [chain |-> ck, output |-> o]
    BY <1>5 DEF encrypt_and_hash, encrypt_with_ad
  <1> QED
    BY <1>3, <1>6

(* A payload is decrypted only under the key that it was encrypted under. *)
LEMMA Opens ==
  ASSUME NEW h, NEW ck, NEW n, NEW ct, NEW s, s = Sym(h, ck, 2, n), decrypt_and_hash(s, ct).ok
  PROVE  ct.key = [chain |-> ck, output |-> 2]
  <1>1. cipher_(s).key = [chain |-> ck, output |-> 2] /\ cipher_(s).key # NoKey
    BY DEF cipher_, Sym, NoKey
  <1> QED
    BY <1>1 DEF decrypt_and_hash, decrypt_with_ad, aead_decrypt

(* The state after the tokens psk and e of the first message, for the key p. *)
First(p) ==
    mix_ephemeral(mix_key_and_hash(mix_hash(SymmetricState, Item("prologue", {})),
                                   Item("psk", {p})), "Initiator")

(* After the tokens e and ee of the second one. *)
Second(s) == mix_key(mix_ephemeral(s, "Responder"), Item("dh", {"Initiator", "Responder"}))

ChainOf(p) == Append(Append(<<Item("protocol_name", {})>>, Item("psk", {p})),
                     Item("e", {"Initiator"}))

(* The chain and the output that they have. *)
LEMMA FirstIs ==
  ASSUME NEW p
  PROVE  \E g : First(p) = Sym(g, ChainOf(p), 2, 0)
  <1> DEFINE one == <<Item("protocol_name", {})>>
             psk == Item("psk", {p})
             e == Item("e", {"Initiator"})
  <1>1. SymmetricState = Sym(one, one, 0, 0)
    BY DEF SymmetricState, Sym
  <1>c. ChainOf(p) = Append(Append(one, psk), e)
    BY DEF ChainOf
  <1>f. First(p) = mix_ephemeral(mix_key_and_hash(mix_hash(SymmetricState,
                                                           Item("prologue", {})), psk),
                                 "Initiator")
    BY DEF First
  <1>e. e = Item("e", {"Initiator"})
    OBVIOUS
  <1> HIDE DEF one, psk, e
  <1>2. PICK g0 : mix_hash(SymmetricState, Item("prologue", {})) = Sym(g0, one, 0, 0)
    BY <1>1, MixHash
  <1>3. PICK g1 : mix_key_and_hash(Sym(g0, one, 0, 0), psk) = Sym(g1, Append(one, psk), 3, 0)
    BY MixBoth
  <1> DEFINE c1 == Append(one, psk)
  <1> HIDE DEF c1
  <1>4. PICK g2 : mix_ephemeral(Sym(g1, c1, 3, 0), "Initiator") = Sym(g2, Append(c1, e), 2, 0)
    BY <1>e, MixEphemeral
  <1> QED
    BY <1>c, <1>f, <1>2, <1>3, <1>4 DEF c1

(* Different keys, different chains. *)
LEMMA ChainTells ==
  ASSUME NEW p, NEW q, ChainOf(p) = ChainOf(q)
  PROVE  p = q
  <1>1. ASSUME NEW r PROVE ChainOf(r)[2].of = {r}
    <2> DEFINE a == Item("protocol_name", {})
               b == Item("psk", {r})
               c == Item("e", {"Initiator"})
    <2>1. b.of = {r}
      BY DEF Item
    <2>2. ChainOf(r) = Append(Append(<<a>>, b), c)
      BY DEF ChainOf
    <2> HIDE DEF a, b, c
    <2>3. ChainOf(r)[2] = b
      BY <2>2
    <2> QED
      BY <2>1, <2>3
  <1>2. {p} = {q}
    BY <1>1
  <1> QED
    BY <1>2

(* What the client writes first. *)
LEMMA OpeningIs ==
  LET ct == encrypt_and_hash(First(PskOfClient), Empty)
  IN  /\ Opening.msg.e = "Initiator" /\ Opening.msg.ct = ct.out
      /\ \E psk : Opening.hs = [role |-> "Initiator", psk |-> psk, remote |-> "Initiator",
                                symmetric |-> ct.symmetric]
      /\ ct.out.key = [chain |-> ChainOf(PskOfClient), output |-> 2]
      /\ \E h, ck : ct.symmetric = Sym(h, ck, 2, 1)
      /\ Opening.hs # Fresh
  <1> DEFINE ct == encrypt_and_hash(First(PskOfClient), Empty)
             start == mix_hash(SymmetricState, Item("prologue", {}))
             psk == Item("psk", {PskOfClient})
  <1>1. Fresh = [role |-> "Initiator", psk |-> psk, remote |-> "Initiator",
                 symmetric |-> start]
    BY DEF Fresh, initialize
  <1>2. Fresh.role = "Initiator" /\ psk_e(Fresh, "Initiator") = First(PskOfClient)
    BY <1>1 DEF psk_e, First
  <1>3. Opening = [msg |-> [e |-> "Initiator", ct |-> ct.out],
                   hs |-> [Fresh EXCEPT !.symmetric = ct.symmetric]]
    BY <1>2, Zenon DEF Opening, write_message
  <1>4. start.output = 0
    BY DEF mix_hash, SymmetricState
  <1>5. PICK g : First(PskOfClient) = Sym(g, ChainOf(PskOfClient), 2, 0)
    BY FirstIs
  <1>6. /\ ct.out.key = [chain |-> ChainOf(PskOfClient), output |-> 2]
        /\ \E h : ct.symmetric = Sym(h, ChainOf(PskOfClient), 2, 1)
    BY <1>5, Payload
  <1>7. ct.symmetric.output = 2
    BY <1>6 DEF Sym
  <1> HIDE DEF ct, start, psk
  <1>8. /\ Opening.msg.e = "Initiator" /\ Opening.msg.ct = ct.out
        /\ Opening.hs = [role |-> "Initiator", psk |-> psk, remote |-> "Initiator",
                         symmetric |-> ct.symmetric]
    BY <1>1, <1>3
  <1>9. Opening.hs # Fresh
    BY <1>1, <1>4, <1>7, <1>8
  <1> QED
    BY <1>6, <1>8, <1>9, Zenon DEF ct

(* The device reads it with its own key: if it decrypts, the keys are the same, *)
(* and so is all that was hashed and derived.                                   *)
LEMMA HeardIs ==
  ASSUME NEW d, Heard(d).ok
  PROVE  /\ d.psk = PskOfClient
         /\ \E psk : Heard(d).hs = [role |-> "Responder", psk |-> psk, remote |-> "Initiator",
                                    symmetric |-> Opening.hs.symmetric]
  <1> DEFINE hs == initialize("Responder", d.psk)
             start == mix_hash(SymmetricState, Item("prologue", {}))
             psk == Item("psk", {d.psk})
             known == [hs EXCEPT !.remote = Opening.msg.e]
             pt == decrypt_and_hash(First(d.psk), Opening.msg.ct)
  <1>1. hs = [role |-> "Responder", psk |-> psk, remote |-> "Responder", symmetric |-> start]
    BY DEF initialize
  <1>o. Opening.msg.e = "Initiator"
    BY OpeningIs, Zenon
  <1>2. known = [role |-> "Responder", psk |-> psk, remote |-> "Initiator", symmetric |-> start]
    <2> HIDE DEF hs, psk, start
    <2> QED
      BY <1>1, <1>o
  <1>3. psk_e(known, "Initiator") = First(d.psk) /\ hs.role = "Responder"
    <2> HIDE DEF hs, known
    <2> QED
      BY <1>1, <1>2 DEF psk_e, First
  <1> DEFINE after == [known EXCEPT !.symmetric = pt.symmetric]
  <1>4. Heard(d) = [ok |-> pt.ok, hs |-> after]
    BY <1>3, <1>o, Zenon DEF Heard, read_message
  <1>h. Heard(d).hs = after
    <2> HIDE DEF after, pt
    <2> QED
      BY <1>4
  <1>k. pt.ok
    <2> HIDE DEF after, pt
    <2> QED
      BY <1>4
  <1> HIDE DEF known
  <1>5. Heard(d).hs = [role |-> "Responder", psk |-> psk, remote |-> "Initiator",
                       symmetric |-> pt.symmetric]
    <2> HIDE DEF pt, psk, start
    <2> QED
      BY <1>2, <1>h
  <1>6. PICK g : First(d.psk) = Sym(g, ChainOf(d.psk), 2, 0)
    BY FirstIs
  <1>7. Opening.msg.ct.key = [chain |-> ChainOf(d.psk), output |-> 2]
    <2> DEFINE s == First(d.psk)
               c == Opening.msg.ct
    <2>1. decrypt_and_hash(s, c).ok /\ s = Sym(g, ChainOf(d.psk), 2, 0)
      BY <1>k, <1>6
    <2> HIDE DEF s, c
    <2>2. c.key = [chain |-> ChainOf(d.psk), output |-> 2]
      BY <2>1, Opens, Zenon
    <2> QED
      BY <2>2 DEF c
  <1>8. d.psk = PskOfClient
    <2>1. Opening.msg.ct.key = [chain |-> ChainOf(PskOfClient), output |-> 2]
      BY OpeningIs
    <2>2. ChainOf(PskOfClient) = ChainOf(d.psk)
      BY <1>7, <2>1
    <2> QED
      BY <2>2, ChainTells
  <1>9. pt.symmetric = Opening.hs.symmetric
    <2> DEFINE ct == encrypt_and_hash(First(d.psk), Empty)
    <2>1. Opening.msg.ct = ct.out /\ Opening.hs.symmetric = ct.symmetric
      BY <1>8, OpeningIs
    <2>2. decrypt_and_hash(First(d.psk), ct.out).symmetric = ct.symmetric
      BY SameState, Zenon
    <2> QED
      BY <2>1, <2>2, Zenon
  <1> QED
    BY <1>5, <1>8, <1>9, Zenon

(* Keys are told apart by the output that they are. *)
LEMMA OutputTells ==
  ASSUME NEW one, NEW two, one.output = 1, two.output = 2
  PROVE  one # two /\ one # NoKey /\ two # NoKey
  BY DEF NoKey

(* The keys that split gives to the two sides. *)
LEMMA SplitIs ==
  ASSUME NEW hs, NEW one, NEW two, one = hkdf(hs.symmetric.ck, Item("", {}), 1),
         two = hkdf(hs.symmetric.ck, Item("", {}), 2)
  PROVE  /\ hs.role = "Initiator" => split(hs) = [send |-> [key |-> one, nonce |-> 0],
                                                  recv |-> [key |-> two, nonce |-> 0]]
         /\ hs.role = "Responder" => split(hs) = [send |-> [key |-> two, nonce |-> 0],
                                                  recv |-> [key |-> one, nonce |-> 0]]
         /\ one # two /\ one # NoKey /\ two # NoKey
  <1>1. one.output = 1 /\ two.output = 2
    BY DEF hkdf
  <1>2. split_keys(hs.symmetric)[1] = one /\ split_keys(hs.symmetric)[2] = two
    BY DEF split_keys
  <1>3. hs.role = "Initiator" => split(hs) = [send |-> [key |-> one, nonce |-> 0],
                                              recv |-> [key |-> two, nonce |-> 0]]
    BY <1>2, Zenon DEF split, CipherState
  <1>4. hs.role = "Responder" => split(hs) = [send |-> [key |-> two, nonce |-> 0],
                                              recv |-> [key |-> one, nonce |-> 0]]
    BY <1>2 DEF split, CipherState
  <1>5. one # two /\ one # NoKey /\ two # NoKey
    BY <1>1, OutputTells, Zenon
  <1> QED
    BY <1>3, <1>4, <1>5, Zenon

(* Both sides mix the same tokens into the second message, and split the result  *)
(* into the same two keys, each for one direction.                               *)
LEMMA KeysAgree ==
  ASSUME NEW d, Heard(d).ok
  PROVE  /\ d.psk = PskOfClient
         /\ split(Reply(d).hs) = [send |-> [key |-> ToClientKey(d), nonce |-> 0],
                                  recv |-> [key |-> ToDeviceKey(d), nonce |-> 0]]
         /\ split(Answered(d).hs) = [send |-> [key |-> ToDeviceKey(d), nonce |-> 0],
                                     recv |-> [key |-> ToClientKey(d), nonce |-> 0]]
         /\ ToClientKey(d) # ToDeviceKey(d) /\ ToClientKey(d) # NoKey
         /\ ToDeviceKey(d) # NoKey /\ Answered(d).hs # Fresh
  <1> DEFINE sym == Opening.hs.symmetric
             s == Second(sym)
             ct == encrypt_and_hash(s, Empty)
             known == [Opening.hs EXCEPT !.remote = "Responder"]
             pt == decrypt_and_hash(s, ct.out)
             one == hkdf(ct.symmetric.ck, Item("", {}), 1)
             two == hkdf(ct.symmetric.ck, Item("", {}), 2)
  <1>1. PICK psk : Heard(d).hs = [role |-> "Responder", psk |-> psk, remote |-> "Initiator",
                                  symmetric |-> sym]
    BY HeardIs, Zenon
  <1>2. PICK mine : Opening.hs = [role |-> "Initiator", psk |-> mine, remote |-> "Initiator",
                                  symmetric |-> sym]
    <2>1. PICK mine, x : Opening.hs = [role |-> "Initiator", psk |-> mine,
                                       remote |-> "Initiator", symmetric |-> x]
      BY OpeningIs, Zenon
    <2>2. sym = x
      BY <2>1
    <2> QED
      BY <2>1, <2>2, Zenon
  <1> HIDE DEF sym
  <1>3. e_ee(Heard(d).hs, "Responder") = s /\ Heard(d).hs.role = "Responder"
    <2>1. x25519("Responder", "Initiator") = Item("dh", {"Initiator", "Responder"})
      <3>1. {"Responder", "Initiator"} = {"Initiator", "Responder"}
        OBVIOUS
      <3> QED
        BY <3>1, Zenon DEF x25519
    <2>2. /\ Heard(d).hs.role = "Responder" /\ Heard(d).hs.remote = "Initiator"
          /\ Heard(d).hs.symmetric = sym
      BY <1>1
    <2> QED
      BY <2>1, <2>2 DEF e_ee, Second
  <1>4. Reply(d) = [msg |-> [e |-> "Responder", ct |-> ct.out],
                    hs |-> [Heard(d).hs EXCEPT !.symmetric = ct.symmetric]]
    BY <1>3 DEF Reply, write_message
  <1>5. known = [role |-> "Initiator", psk |-> mine, remote |-> "Responder", symmetric |-> sym]
    BY <1>2
  <1> HIDE DEF known
  <1>6. e_ee(known, "Responder") = s
    BY <1>5, Zenon DEF e_ee, Second, x25519
  <1>7. /\ Reply(d).msg.e = "Responder" /\ Reply(d).msg.ct = ct.out
        /\ Reply(d).hs = [Heard(d).hs EXCEPT !.symmetric = ct.symmetric]
    <2> DEFINE after == [Heard(d).hs EXCEPT !.symmetric = ct.symmetric]
    <2>1. Reply(d) = [msg |-> [e |-> "Responder", ct |-> ct.out], hs |-> after]
      BY <1>4, Zenon
    <2> HIDE DEF after, ct
    <2>2. Reply(d).msg.e = "Responder" /\ Reply(d).msg.ct = ct.out /\ Reply(d).hs = after
      BY <2>1
    <2> QED
      BY <2>2, Zenon DEF after
  <1>8. Answered(d).hs = [known EXCEPT !.symmetric = ct.symmetric]
    <2> DEFINE after == [known EXCEPT !.symmetric = pt.symmetric]
    <2>1. pt.symmetric = ct.symmetric
      BY SameState, Zenon
    <2>2. Opening.hs.role # "Responder"
      BY <1>2
    <2>3. Answered(d) =
              [ok |-> decrypt_and_hash(e_ee(known, "Responder"), ct.out).ok,
               hs |-> [known EXCEPT !.symmetric =
                          decrypt_and_hash(e_ee(known, "Responder"), ct.out).symmetric]]
      BY <1>7, <2>2, Zenon DEF read_message, known, Answered
    <2>4. Answered(d) = [ok |-> pt.ok, hs |-> after]
      BY <1>6, <2>3, Zenon
    <2>5. Answered(d).hs = after
      <3> HIDE DEF after, pt
      <3> QED
        BY <2>4
    <2> QED
      BY <2>1, <2>5, Zenon
  <1> HIDE DEF ct
  <1>11. /\ Reply(d).hs.role = "Responder" /\ Reply(d).hs.symmetric = ct.symmetric
         /\ Answered(d).hs.role = "Initiator" /\ Answered(d).hs.symmetric = ct.symmetric
    BY <1>1, <1>5, <1>7, <1>8
  <1>12. /\ split(Reply(d).hs) = [send |-> [key |-> two, nonce |-> 0],
                                  recv |-> [key |-> one, nonce |-> 0]]
         /\ split(Answered(d).hs) = [send |-> [key |-> one, nonce |-> 0],
                                     recv |-> [key |-> two, nonce |-> 0]]
         /\ one # two /\ one # NoKey /\ two # NoKey
    <2>1. /\ one = hkdf(Reply(d).hs.symmetric.ck, Item("", {}), 1)
          /\ two = hkdf(Reply(d).hs.symmetric.ck, Item("", {}), 2)
          /\ one = hkdf(Answered(d).hs.symmetric.ck, Item("", {}), 1)
          /\ two = hkdf(Answered(d).hs.symmetric.ck, Item("", {}), 2)
      BY <1>11, Zenon
    <2> HIDE DEF one, two
    <2>2. /\ split(Reply(d).hs) = [send |-> [key |-> two, nonce |-> 0],
                                   recv |-> [key |-> one, nonce |-> 0]]
          /\ one # two /\ one # NoKey /\ two # NoKey
      <3> DEFINE hs == Reply(d).hs
      <3>1. /\ one = hkdf(hs.symmetric.ck, Item("", {}), 1)
            /\ two = hkdf(hs.symmetric.ck, Item("", {}), 2) /\ hs.role = "Responder"
        BY <1>11, <2>1, Zenon
      <3> HIDE DEF hs
      <3>2. /\ split(hs) = [send |-> [key |-> two, nonce |-> 0],
                            recv |-> [key |-> one, nonce |-> 0]]
            /\ one # two /\ one # NoKey /\ two # NoKey
        BY <3>1, SplitIs, Zenon
      <3> QED
        BY <3>2 DEF hs
    <2>3. split(Answered(d).hs) = [send |-> [key |-> one, nonce |-> 0],
                                   recv |-> [key |-> two, nonce |-> 0]]
      <3> DEFINE hs == Answered(d).hs
      <3>1. /\ one = hkdf(hs.symmetric.ck, Item("", {}), 1)
            /\ two = hkdf(hs.symmetric.ck, Item("", {}), 2) /\ hs.role = "Initiator"
        BY <1>11, <2>1, Zenon
      <3> HIDE DEF hs
      <3>2. split(hs) = [send |-> [key |-> one, nonce |-> 0],
                         recv |-> [key |-> two, nonce |-> 0]]
        BY <3>1, SplitIs, Zenon
      <3> QED
        BY <3>2 DEF hs
    <2> QED
      BY <2>2, <2>3
  <1> HIDE DEF one, two
  <1>13. ToClientKey(d) = two /\ ToDeviceKey(d) = one
    BY <1>12 DEF ToClientKey, ToDeviceKey
  <1>14. Answered(d).hs.remote = "Responder" /\ Fresh.remote = "Initiator"
    BY <1>5, <1>8 DEF Fresh, initialize
  <1>15. Answered(d).hs # Fresh
    BY <1>14
  <1> QED
    BY <1>12, <1>13, <1>15, HeardIs, Zenon

-----------------------------------------------------------------------------
(* The bytes *)

(* A length in two bytes. *)
LEMMA TwoBytes ==
  ASSUME NEW n \in Nat, n < Base * Base
  PROVE  /\ append_u16(n) = <<[body |-> 0, at |-> n \div Base], [body |-> 0, at |-> n % Base]>>
         /\ n \div Base \in Nat /\ n % Base \in Nat
         /\ (n \div Base) * Base + (n % Base) = n
  <1>1. Base \in Nat /\ Base > 1
    BY NoiseAssumption
  <1>2. Base * Base \in Nat /\ Base * Base > 0
    BY <1>1
  <1>3. n % (Base * Base) = n
    <2> DEFINE b == Base * Base
    <2> HIDE DEF b
    <2>1. b \in Nat /\ b > n
      BY <1>2 DEF b
    <2>2. n % b = n
      BY <2>1
    <2> QED
      BY <2>2 DEF b
  <1>4. n \div Base \in Nat /\ n % Base \in Nat /\ (n \div Base) * Base + (n % Base) = n
    BY <1>1
  <1> QED
    BY <1>3, <1>4 DEF append_u16

(* The frame that the device writes. *)
LEMMA FramedIs ==
  ASSUME NEW id \in Nat, NEW n \in Nat, n < Base * Base
  PROVE  /\ Framed(id, n) \in Seq(Bytes) /\ Len(Framed(id, n)) = 3 + n
         /\ FrameAt(Framed(id, n), 1, id, n)
  <1> DEFINE a == [body |-> 0, at |-> n \div Base]
             b == [body |-> 0, at |-> n % Base]
             t == [i \in 1..n |-> [body |-> id, at |-> i]]
             f == <<indicator>> \o <<a, b>> \o t
  <1>1. Framed(id, n) = f
    BY TwoBytes DEF Framed
  <1>2. /\ a \in Bytes /\ b \in Bytes /\ indicator \in Bytes /\ a.at * Base + b.at = n
        /\ indicator.at = 1
    <2>1. a.at = n \div Base /\ b.at = n % Base
      OBVIOUS
    <2>2. (n \div Base) * Base + (n % Base) = n /\ n \div Base \in Nat /\ n % Base \in Nat
      BY TwoBytes
    <2>3. a \in Bytes /\ b \in Bytes
      BY <2>2 DEF Bytes
    <2>4. indicator \in Bytes /\ indicator.at = 1
      BY DEF Bytes, indicator
    <2> QED
      BY <2>1, <2>2, <2>3, <2>4, Zenon
  <1>3. t \in Seq(Bytes) /\ Len(t) = n /\ (n > 0 => t[1].body = id)
    BY DEF Bytes
  <1> HIDE DEF a, b, t
  <1>4. /\ f \in Seq(Bytes) /\ Len(f) = 3 + n /\ f[1] = indicator /\ f[2] = a /\ f[3] = b
        /\ n > 0 => f[4] = t[1]
    BY <1>2, <1>3
  <1> HIDE DEF f
  <1>5. FrameAt(f, 1, id, n)
    BY <1>2, <1>3, <1>4 DEF FrameAt
  <1> QED
    BY <1>1, <1>4, <1>5

(* No frame is no bytes. *)
LEMMA LaidNone == Laid(<<>>, 1, 0)
  <1> DEFINE start == [i \in 1..1 |-> 1]
  <1>1. LaidOut(<<>>, 1, 0, start)
    BY DEF LaidOut
  <1> QED
    BY <1>1, Zenon DEF Laid

(* A frame behind the others. *)
LEMMA LaidMore ==
  ASSUME NEW u \in Seq(Bytes), NEW first \in Nat, NEW last \in Nat, Laid(u, first, last),
         NEW f \in Seq(Bytes), NEW n \in Nat, FrameAt(f, 1, last + 1, n), Len(f) = 3 + n
  PROVE  Laid(u \o f, first, last + 1)
  <1>1. PICK start : LaidOut(u, first, last, start)
    BY Zenon DEF Laid
  <1> DEFINE after == [i \in first..((last + 1) + 1) |->
                          IF i = last + 2 THEN Len(u) + 4 + n ELSE start[i]]
             w == u \o f
  <1>2. /\ Len(w) = Len(u) + 3 + n /\ Len(u) \in Nat
        /\ \A i \in 1..Len(u) : w[i] = u[i]
        /\ \A i \in 1..(3 + n) : w[Len(u) + i] = f[i]
    OBVIOUS
  <1> HIDE DEF w
  <1>3. /\ first \in 1..(last + 1) /\ start \in [first..(last + 1) -> Nat]
        /\ start[first] = 1 /\ start[last + 1] = Len(u) + 1
        /\ \A i, j \in first..(last + 1) : i < j => start[i] + 3 <= start[j]
    BY <1>1, Zenon DEF LaidOut
  <1>4. /\ after \in [first..((last + 1) + 1) -> Nat] /\ after[first] = 1
        /\ after[(last + 1) + 1] = Len(w) + 1
        /\ \A i \in first..(last + 1) : after[i] = start[i]
    BY <1>2, <1>3
  <1> HIDE DEF after
  <1>5. \A i, j \in first..((last + 1) + 1) : i < j => after[i] + 3 <= after[j]
    <2>1. ASSUME NEW i \in first..(last + 1) PROVE start[i] <= Len(u) + 1 /\ start[i] \in Nat
      <3>1. last + 1 \in first..(last + 1) /\ start[i] \in Nat
        BY <1>3
      <3>2. i = last + 1 \/ i < last + 1
        OBVIOUS
      <3>3. i < last + 1 => start[i] + 3 <= start[last + 1]
        BY <1>3, <3>1, Zenon
      <3> QED
        BY <1>2, <1>3, <3>1, <3>2, <3>3
    <2>2. after[(last + 1) + 1] = Len(u) + 4 + n
      BY <1>2, <1>4
    <2>3. ASSUME NEW i \in first..((last + 1) + 1), NEW j \in first..((last + 1) + 1), i < j
          PROVE  after[i] + 3 <= after[j]
      <3>1. i \in first..(last + 1) /\ after[i] = start[i] /\ start[i] \in Nat
            /\ start[i] <= Len(u) + 1
        BY <2>3, <1>4, <2>1
      <3>2. CASE j = (last + 1) + 1
        <4> DEFINE a == start[i]
                   l == Len(u)
        <4>1. a \in Nat /\ l \in Nat /\ a <= l + 1
          BY <1>2, <3>1, Zenon
        <4> HIDE DEF a, l
        <4>2. a + 3 <= l + 4 + n
          BY <4>1
        <4> QED
          BY <2>2, <3>1, <3>2, <4>2, Zenon DEF a, l
      <3>3. CASE j # (last + 1) + 1
        <4>1. j \in first..(last + 1) /\ after[j] = start[j]
          BY <2>3, <3>3, <1>4
        <4> QED
          BY <1>3, <2>3, <3>1, <4>1
      <3> QED
        BY <3>2, <3>3
    <2> QED
      BY <2>3
  <1>6. ASSUME NEW id \in first..(last + 1)
        PROVE  FrameAt(w, after[id], id, after[id + 1] - after[id] - 3)
    <2>1. CASE id = last + 1
      <3>1. after[id] = Len(u) + 1 /\ after[id + 1] - after[id] - 3 = n
        BY <1>2, <1>3, <1>4, <2>1
      <3>2. FrameAt(w, Len(u) + 1, last + 1, n)
        <4> DEFINE p == Len(u) + 1
        <4>1. /\ n < Base * Base /\ f[1].at = 1 /\ f[1 + 1].at * Base + f[1 + 2].at = n
              /\ n > 0 => f[1 + 3].body = last + 1
          BY Zenon DEF FrameAt
        <4>2. /\ w[p] = f[1] /\ w[p + 1] = f[1 + 1] /\ w[p + 2] = f[1 + 2]
              /\ n > 0 => w[p + 3] = f[1 + 3]
              /\ p + 2 + n <= Len(w)
          <5>1. /\ 1 \in 1..(3 + n) /\ 1 + 1 \in 1..(3 + n) /\ 1 + 2 \in 1..(3 + n)
                /\ n > 0 => 1 + 3 \in 1..(3 + n)
            OBVIOUS
          <5>2. /\ p = Len(u) + 1 /\ p + 1 = Len(u) + (1 + 1) /\ p + 2 = Len(u) + (1 + 2)
                /\ p + 3 = Len(u) + (1 + 3) /\ p + 2 + n <= Len(w)
            BY <1>2
          <5>3. /\ w[Len(u) + 1] = f[1] /\ w[Len(u) + (1 + 1)] = f[1 + 1]
                /\ w[Len(u) + (1 + 2)] = f[1 + 2]
                /\ n > 0 => w[Len(u) + (1 + 3)] = f[1 + 3]
            BY <1>2, <5>1, Zenon
          <5> HIDE DEF p
          <5> QED
            BY <5>2, <5>3, Zenon
        <4> QED
          BY <4>1, <4>2, Zenon DEF FrameAt
      <3> QED
        BY <2>1, <3>1, <3>2
    <2>2. CASE id # last + 1
      <3>1. id \in first..last /\ id \in first..(last + 1) /\ id + 1 \in first..(last + 1)
        BY <1>6, <2>2, <1>3
      <3>2. FrameAt(u, start[id], id, start[id + 1] - start[id] - 3)
        BY <3>1, <1>1, Zenon DEF LaidOut
      <3>3. after[id] = start[id] /\ after[id + 1] = start[id + 1]
        BY <3>1, <1>4
      <3>4. start[id] \in Nat /\ start[id] >= 1
        <4>1. start[id] \in Nat /\ first \in first..(last + 1) /\ (id = first \/ first < id)
          BY <3>1, <1>3
        <4>2. first < id => start[first] + 3 <= start[id]
          BY <1>3, <3>1, <4>1, Zenon
        <4> QED
          BY <1>3, <4>1, <4>2
      <3> DEFINE p == start[id]
                 k == start[id + 1] - start[id] - 3
      <3>5. FrameAt(u, p, id, k) /\ p \in Nat /\ p >= 1
        BY <3>2, <3>4
      <3> HIDE DEF p, k
      <3>6. FrameAt(w, p, id, k)
        <4>1. /\ k \in Nat /\ k < Base * Base /\ p + 2 + k <= Len(u)
              /\ u[p].at = 1 /\ u[p + 1].at * Base + u[p + 2].at = k
              /\ k > 0 => u[p + 3].body = id
          BY <3>5, Zenon DEF FrameAt
        <4>2. /\ w[p] = u[p] /\ w[p + 1] = u[p + 1] /\ w[p + 2] = u[p + 2]
              /\ k > 0 => w[p + 3] = u[p + 3]
          <5>1. p \in Nat /\ p >= 1 /\ k \in Nat /\ p + 2 + k <= Len(u)
            BY <3>5, <4>1, Zenon
          <5>2. /\ p \in 1..Len(u) /\ p + 1 \in 1..Len(u) /\ p + 2 \in 1..Len(u)
                /\ k > 0 => p + 3 \in 1..Len(u)
            BY <1>2, <5>1
          <5> QED
            BY <1>2, <5>2, Zenon
        <4>3. p + 2 + k <= Len(w)
          BY <1>2, <3>5, <4>1
        <4> QED
          BY <4>1, <4>2, <4>3, Zenon DEF FrameAt
      <3> QED
        BY <3>3, <3>6 DEF p, k
    <2> QED
      BY <2>1, <2>2
  <1>7. LaidOut(w, first, last + 1, after)
    <2>1. first \in 1..((last + 1) + 1)
      BY <1>3
    <2> QED
      BY <1>4, <1>5, <1>6, <2>1, Zenon DEF LaidOut
  <1> QED
    BY <1>7, Zenon DEF Laid, w

(* The first frame, and the others without it. *)
LEMMA LaidTake ==
  ASSUME NEW u \in Seq(Bytes), NEW first \in Nat, NEW last \in Nat, Laid(u, first, last),
         u # <<>>
  PROVE  /\ first \in 1..last
         /\ \E n \in Nat : /\ FrameAt(u, 1, first, n)
                           /\ Laid(SubSeq(u, 4 + n, Len(u)), first + 1, last)
  <1>1. PICK start : LaidOut(u, first, last, start)
    BY Zenon DEF Laid
  <1>2. /\ first \in 1..(last + 1) /\ start \in [first..(last + 1) -> Nat]
        /\ start[first] = 1 /\ start[last + 1] = Len(u) + 1
        /\ \A i, j \in first..(last + 1) : i < j => start[i] + 3 <= start[j]
    BY <1>1, Zenon DEF LaidOut
  <1>3. first \in 1..last
    <2>1. Len(u) \in Nat /\ Len(u) # 0
      OBVIOUS
    <2>2. first # last + 1
      BY <1>2, <2>1
    <2> QED
      BY <1>2, <2>2
  <1> DEFINE k == start[first + 1] - 4
  <1>4. FrameAt(u, 1, first, k)
    <2>1. FrameAt(u, start[first], first, start[first + 1] - start[first] - 3)
      BY <1>1, <1>3 DEF LaidOut
    <2>2. start[first + 1] - start[first] - 3 = k
      <3>1. first + 1 \in first..(last + 1)
        BY <1>3
      <3>2. start[first + 1] \in Nat
        BY <1>2, <3>1
      <3> QED
        BY <1>2, <3>2
    <2> QED
      BY <1>2, <2>1, <2>2
  <1>k. k \in Nat /\ start[first + 1] = k + 4 /\ k + 3 <= Len(u)
    <2>1. k \in Nat /\ 1 + 2 + k <= Len(u)
      BY <1>4, Zenon DEF FrameAt
    <2>2. start[first + 1] \in Nat
      BY <1>2, <1>3
    <2>3. start[first + 1] = k + 4
      BY <2>2
    <2> HIDE DEF k
    <2> QED
      BY <2>1, <2>3
  <1> HIDE DEF k
  <1> DEFINE w == SubSeq(u, 4 + k, Len(u))
             after == [i \in (first + 1)..(last + 1) |-> start[i] - (3 + k)]
  <1>5. Len(w) = Len(u) - (3 + k) /\ \A i \in 1..Len(w) : w[i] = u[3 + k + i]
    <2> DEFINE a == 4 + k
    <2>1. a \in 1..(Len(u) + 1) /\ Len(u) \in Nat
      BY <1>k
    <2> HIDE DEF a
    <2>2. /\ Len(SubSeq(u, a, Len(u))) = Len(u) - a + 1
          /\ \A i \in 1..(Len(u) - a + 1) : SubSeq(u, a, Len(u))[i] = u[a + i - 1]
      BY <2>1
    <2>3. Len(u) - a + 1 = Len(u) - (3 + k) /\ \A i \in Int : a + i - 1 = 3 + k + i
      BY <1>k DEF a
    <2>4. SubSeq(u, a, Len(u)) = w
      BY DEF a
    <2> HIDE DEF w
    <2>5. Len(w) = Len(u) - (3 + k)
      BY <2>2, <2>3, <2>4
    <2>6. ASSUME NEW i \in 1..Len(w) PROVE w[i] = u[3 + k + i]
      <3>1. i \in 1..(Len(u) - a + 1) /\ i \in Int
        BY <2>2, <2>4
      <3>2. w[i] = u[a + i - 1] /\ a + i - 1 = 3 + k + i
        BY <2>2, <2>3, <2>4, <3>1, Zenon
      <3> QED
        BY <3>2
    <2> QED
      BY <2>5, <2>6
  <1> HIDE DEF w
  <1>6. ASSUME NEW i \in (first + 1)..(last + 1)
        PROVE  /\ i \in Int /\ i \in first..(last + 1) /\ start[i] \in Nat /\ start[i] >= k + 4
               /\ after[i] = start[i] - (3 + k) /\ after[i] \in Nat /\ after[i] >= 1
    <2>1. i \in first..(last + 1) /\ first + 1 \in first..(last + 1) /\ start[i] \in Nat
      BY <1>2, <1>3
    <2>2. i = first + 1 \/ first + 1 < i
      BY <1>3
    <2>3. first + 1 < i => start[first + 1] + 3 <= start[i]
      BY <1>2, <2>1, Zenon
    <2>4. start[i] >= k + 4
      BY <1>k, <2>1, <2>2, <2>3
    <2> QED
      BY <1>k, <2>1, <2>4
  <1>7. /\ after \in [(first + 1)..(last + 1) -> Nat] /\ after[first + 1] = 1
        /\ after[last + 1] = Len(w) + 1
    <2>1. first + 1 \in (first + 1)..(last + 1) /\ last + 1 \in (first + 1)..(last + 1)
      BY <1>3
    <2>2. after \in [(first + 1)..(last + 1) -> Nat]
      BY <1>6
    <2>3. after[first + 1] = 1
      BY <1>6, <1>k, <2>1
    <2>4. after[last + 1] = Len(w) + 1
      BY <1>6, <1>k, <1>2, <1>5, <2>1
    <2> QED
      BY <2>2, <2>3, <2>4
  <1> HIDE DEF after
  <1>8. ASSUME NEW i \in (first + 1)..(last + 1), NEW j \in (first + 1)..(last + 1), i < j
        PROVE  after[i] + 3 <= after[j]
    <2>1. start[i] + 3 <= start[j]
      BY <1>2, <1>6, <1>8, Zenon
    <2>2. /\ start[i] \in Nat /\ after[i] = start[i] - (3 + k)
          /\ start[j] \in Nat /\ after[j] = start[j] - (3 + k)
      BY <1>6, Zenon
    <2> DEFINE a == start[i]
               b == start[j]
               x == after[i]
               y == after[j]
    <2>3. a \in Nat /\ b \in Nat /\ x = a - (3 + k) /\ y = b - (3 + k) /\ a + 3 <= b
      BY <2>1, <2>2, Zenon
    <2> HIDE DEF a, b, x, y
    <2>4. x + 3 <= y
      BY <1>k, <2>3
    <2> QED
      BY <2>4 DEF x, y
  <1>9. ASSUME NEW id \in (first + 1)..last
        PROVE  FrameAt(w, after[id], id, after[id + 1] - after[id] - 3)
    <2>1. /\ id \in first..last /\ id \in (first + 1)..(last + 1)
          /\ id + 1 \in (first + 1)..(last + 1)
      BY <1>3
    <2> DEFINE p == after[id]
               l == start[id + 1] - start[id] - 3
    <2>2. /\ p \in Nat /\ p >= 1 /\ start[id] = p + (3 + k)
          /\ after[id + 1] - after[id] - 3 = l
      <3>1. /\ start[id] \in Nat /\ after[id] = start[id] - (3 + k) /\ after[id] \in Nat
            /\ after[id] >= 1
            /\ start[id + 1] \in Nat /\ after[id + 1] = start[id + 1] - (3 + k)
        BY <1>6, <2>1, Zenon
      <3>2. \A x, y \in Nat : /\ (y - (3 + k)) - (x - (3 + k)) - 3 = y - x - 3
                              /\ x = (x - (3 + k)) + (3 + k)
        BY <1>k
      <3>3. after[id + 1] - after[id] - 3 = start[id + 1] - start[id] - 3
        <4>1. (start[id + 1] - (3 + k)) - (start[id] - (3 + k)) - 3 =
                  start[id + 1] - start[id] - 3
          BY <3>1, <3>2, Zenon
        <4> QED
          BY <3>1, <4>1, Zenon
      <3>4. start[id] = after[id] + (3 + k)
        BY <3>1, <3>2
      <3> QED
        BY <3>1, <3>3, <3>4, Zenon
    <2>3. FrameAt(u, p + (3 + k), id, l)
      <3>1. FrameAt(u, start[id], id, l)
        BY <1>1, <2>1, Zenon DEF LaidOut
      <3> QED
        BY <2>2, <3>1
    <2> HIDE DEF p, l
    <2>4. /\ l \in Nat /\ l < Base * Base /\ (p + (3 + k)) + 2 + l <= Len(u)
          /\ u[p + (3 + k)].at = 1
          /\ u[(p + (3 + k)) + 1].at * Base + u[(p + (3 + k)) + 2].at = l
          /\ l > 0 => u[(p + (3 + k)) + 3].body = id
      BY <2>3, Zenon DEF FrameAt
    <2>5. /\ w[p] = u[p + (3 + k)] /\ w[p + 1] = u[(p + (3 + k)) + 1]
          /\ w[p + 2] = u[(p + (3 + k)) + 2]
          /\ l > 0 => w[p + 3] = u[(p + (3 + k)) + 3]
          /\ p + 2 + l <= Len(w)
      <3>1. /\ p \in Nat /\ p >= 1 /\ k \in Nat /\ l \in Nat
            /\ (p + (3 + k)) + 2 + l <= Len(u) /\ Len(u) \in Nat
        BY <1>k, <2>2, <2>4
      <3>2. /\ p \in 1..Len(w) /\ p + 1 \in 1..Len(w) /\ p + 2 \in 1..Len(w)
            /\ l > 0 => p + 3 \in 1..Len(w)
            /\ p + 2 + l <= Len(w)
        BY <1>5, <3>1
      <3>3. /\ p + (3 + k) = 3 + k + p /\ (p + (3 + k)) + 1 = 3 + k + (p + 1)
            /\ (p + (3 + k)) + 2 = 3 + k + (p + 2) /\ (p + (3 + k)) + 3 = 3 + k + (p + 3)
        BY <3>1
      <3> QED
        BY <1>5, <3>2, <3>3
    <2>6. FrameAt(w, p, id, l)
      BY <2>4, <2>5, Zenon DEF FrameAt
    <2> QED
      BY <2>2, <2>6 DEF p
  <1>10. LaidOut(w, first + 1, last, after)
    <2>1. first + 1 \in 1..(last + 1)
      BY <1>3
    <2> QED
      BY <1>7, <1>8, <1>9, <2>1, Zenon DEF LaidOut
  <1> QED
    BY <1>3, <1>4, <1>k, <1>10, Zenon DEF Laid, w

-----------------------------------------------------------------------------
(* Sequences without their first elements. *)
Rest(s, k) == SubSeq(s, k + 1, Len(s))

(* Sequences are equal when they have the same elements in every place. *)
LEMMA EqualInPlaces ==
  ASSUME NEW S, NEW s \in Seq(S), NEW t \in Seq(S), Len(s) = Len(t),
         \A i \in 1..Len(s) : s[i] = t[i]
  PROVE  s = t
  <1>1. s = [i \in 1..Len(s) |-> s[i]] /\ t = [i \in 1..Len(s) |-> t[i]]
    OBVIOUS
  <1> QED
    BY <1>1, Zenon

(* The elements of the rest. *)
LEMMA RestIs ==
  ASSUME NEW S, NEW s \in Seq(S), NEW k \in 0..Len(s)
  PROVE  /\ Rest(s, k) \in Seq(S) /\ Len(Rest(s, k)) = Len(s) - k
         /\ \A i \in 1..(Len(s) - k) : Rest(s, k)[i] = s[k + i]
         /\ Rest(s, 0) = s
  <1>1. /\ Rest(s, k) \in Seq(S) /\ Len(Rest(s, k)) = Len(s) - k
        /\ \A i \in 1..(Len(s) - k) : Rest(s, k)[i] = s[k + i]
    BY DEF Rest
  <1>2. Rest(s, 0) = s
    <2> DEFINE r == Rest(s, 0)
    <2>1. r \in Seq(S) /\ Len(r) = Len(s) /\ \A i \in 1..Len(s) : r[i] = s[i]
      BY DEF Rest
    <2> HIDE DEF r
    <2>2. r = s
      BY <2>1, EqualInPlaces
    <2> QED
      BY <2>2 DEF r
  <1> QED
    BY <1>1, <1>2, Zenon

(* What comes behind stays behind the rest. *)
LEMMA RestJoined ==
  ASSUME NEW S, NEW s \in Seq(S), NEW t \in Seq(S), NEW k \in 0..Len(s)
  PROVE  Rest(s \o t, k) = Rest(s, k) \o t
  <1> DEFINE w == s \o t
             a == Rest(w, k)
             r == Rest(s, k)
             b == r \o t
  <1>1. /\ w \in Seq(S) /\ Len(w) = Len(s) + Len(t) /\ k \in 0..Len(w)
        /\ \A i \in 1..Len(s) : w[i] = s[i]
        /\ \A i \in 1..Len(t) : w[Len(s) + i] = t[i]
    OBVIOUS
  <1> HIDE DEF w
  <1>2. /\ a \in Seq(S) /\ Len(a) = Len(s) + Len(t) - k
        /\ \A i \in 1..(Len(s) + Len(t) - k) : a[i] = w[k + i]
    <2>1. a \in Seq(S) /\ Len(a) = Len(w) - k /\ \A i \in 1..(Len(w) - k) : a[i] = w[k + i]
      BY <1>1, RestIs
    <2>2. Len(w) - k = Len(s) + Len(t) - k
      BY <1>1
    <2> HIDE DEF a
    <2> QED
      BY <2>1, <2>2, Zenon
  <1>3. r \in Seq(S) /\ Len(r) = Len(s) - k /\ \A i \in 1..(Len(s) - k) : r[i] = s[k + i]
    BY RestIs
  <1> HIDE DEF a, r
  <1>4. /\ b \in Seq(S) /\ Len(b) = Len(s) - k + Len(t)
        /\ \A i \in 1..(Len(s) - k) : b[i] = r[i]
        /\ \A i \in 1..Len(t) : b[Len(s) - k + i] = t[i]
    <2>1. /\ b \in Seq(S) /\ Len(b) = Len(r) + Len(t) /\ \A i \in 1..Len(r) : b[i] = r[i]
          /\ \A i \in 1..Len(t) : b[Len(r) + i] = t[i]
      <3>1. r \in Seq(S)
        BY <1>3
      <3> QED
        BY <3>1
    <2> HIDE DEF b
    <2> QED
      BY <1>3, <2>1
  <1> HIDE DEF b
  <1>5. ASSUME NEW i \in 1..Len(a) PROVE a[i] = b[i]
    <2>1. a[i] = w[k + i]
      BY <1>2
    <2>2. CASE i <= Len(s) - k
      <3>1. i \in 1..(Len(s) - k) /\ k + i \in 1..Len(s)
        BY <1>2, <2>2
      <3> QED
        BY <1>1, <1>3, <1>4, <2>1, <3>1, Zenon
    <2>3. CASE i > Len(s) - k
      <3> DEFINE j == i - (Len(s) - k)
      <3>1. j \in 1..Len(t) /\ k + i = Len(s) + j /\ i = Len(s) - k + j
        BY <1>2, <2>3
      <3> HIDE DEF j
      <3> QED
        BY <1>1, <1>4, <2>1, <3>1, Zenon
    <2> QED
      BY <1>2, <2>2, <2>3
  <1>6. a = b
    <2>1. Len(a) = Len(b)
      BY <1>2, <1>4
    <2> QED
      BY <1>2, <1>4, <1>5, <2>1, EqualInPlaces
  <1> QED
    BY <1>6 DEF a, b, r, w

(* A chunk and the rest. *)
LEMMA Chunk ==
  ASSUME NEW S, NEW s \in Seq(S), NEW k \in 0..Len(s)
  PROVE  SubSeq(s, 1, k) \in Seq(S) /\ SubSeq(s, 1, k) \o Rest(s, k) = s
  <1> DEFINE c == SubSeq(s, 1, k)
             r == Rest(s, k)
             b == c \o r
  <1>1. c \in Seq(S) /\ Len(c) = k /\ \A i \in 1..k : c[i] = s[i]
    OBVIOUS
  <1>2. r \in Seq(S) /\ Len(r) = Len(s) - k /\ \A i \in 1..(Len(s) - k) : r[i] = s[k + i]
    BY RestIs
  <1> HIDE DEF c, r
  <1>3. /\ b \in Seq(S) /\ Len(b) = Len(s) /\ \A i \in 1..k : b[i] = c[i]
        /\ \A i \in 1..(Len(s) - k) : b[k + i] = r[i]
    BY <1>1, <1>2
  <1> HIDE DEF b
  <1>4. ASSUME NEW i \in 1..Len(s) PROVE b[i] = s[i]
    <2>1. CASE i <= k
      BY <1>1, <1>3, <2>1
    <2>2. CASE i > k
      <3>1. i - k \in 1..(Len(s) - k) /\ k + (i - k) = i
        BY <2>2
      <3> QED
        BY <1>2, <1>3, <3>1
    <2> QED
      BY <2>1, <2>2
  <1>5. b = s
    BY <1>3, <1>4, EqualInPlaces
  <1> QED
    BY <1>1, <1>5 DEF b, c, r

(* Joining three sequences. *)
LEMMA JoinThree ==
  ASSUME NEW S, NEW r \in Seq(S), NEW s \in Seq(S), NEW t \in Seq(S)
  PROVE  (r \o s) \o t = r \o (s \o t)
  OBVIOUS

(* Zeroes behind zeroes. *)
LEMMA ZeroesJoin ==
  ASSUME NEW u \in Seq(Bytes), NEW z \in Seq(Bytes), \A i \in DOMAIN u : u[i].at = 0,
         \A i \in DOMAIN z : z[i].at = 0
  PROVE  \A i \in DOMAIN (u \o z) : (u \o z)[i].at = 0
  <1> DEFINE w == u \o z
  <1>1. /\ w \in Seq(Bytes) /\ Len(w) = Len(u) + Len(z)
        /\ \A i \in 1..Len(u) : w[i] = u[i]
        /\ \A i \in 1..Len(z) : w[Len(u) + i] = z[i]
    OBVIOUS
  <1>2. DOMAIN u = 1..Len(u) /\ DOMAIN z = 1..Len(z) /\ Len(u) \in Nat /\ Len(z) \in Nat
    OBVIOUS
  <1> HIDE DEF w
  <1>3. DOMAIN w = 1..Len(w)
    BY <1>1
  <1>4. ASSUME NEW i \in DOMAIN w PROVE w[i].at = 0
    <2> DEFINE j == i - Len(u)
    <2>1. i \in 1..Len(u) \/ (j \in 1..Len(z) /\ Len(u) + j = i)
      BY <1>1, <1>2, <1>3
    <2> HIDE DEF j
    <2>2. CASE i \in 1..Len(u)
      BY <1>1, <1>2, <2>2, Zenon
    <2>3. CASE j \in 1..Len(z) /\ Len(u) + j = i
      <3>1. w[Len(u) + j] = z[j] /\ z[j].at = 0
        BY <1>1, <1>2, <2>3, Zenon
      <3> QED
        BY <2>3, <3>1, Zenon
    <2> QED
      BY <2>1, <2>2, <2>3, Zenon
  <1> QED
    BY <1>4 DEF w

(* The rest of the rest. *)
LEMMA RestTwice ==
  ASSUME NEW S, NEW s \in Seq(S), NEW k \in 0..Len(s)
  PROVE  /\ k < Len(s) => /\ Rest(s, k) # <<>> /\ Head(Rest(s, k)) = s[k + 1]
                          /\ Tail(Rest(s, k)) = Rest(s, k + 1)
         /\ \A x \in S : Rest(Append(s, x), k) = Append(Rest(s, k), x)
  <1>1. ASSUME k < Len(s)
        PROVE  /\ Rest(s, k) # <<>> /\ Head(Rest(s, k)) = s[k + 1]
               /\ Tail(Rest(s, k)) = Rest(s, k + 1)
    <2> DEFINE q == Rest(s, k)
               r == Rest(s, k + 1)
    <2>0. k + 1 \in 0..Len(s)
      BY <1>1
    <2>1. q \in Seq(S) /\ Len(q) = Len(s) - k /\ \A i \in 1..(Len(s) - k) : q[i] = s[k + i]
      BY RestIs
    <2>2. /\ r \in Seq(S) /\ Len(r) = Len(s) - (k + 1)
          /\ \A i \in 1..(Len(s) - (k + 1)) : r[i] = s[(k + 1) + i]
      BY <2>0, RestIs
    <2> HIDE DEF q, r
    <2>3. q # <<>> /\ Head(q) = s[k + 1]
      BY <1>1, <2>1
    <2>4. /\ Tail(q) \in Seq(S) /\ Len(Tail(q)) = Len(s) - (k + 1)
          /\ \A i \in 1..(Len(s) - (k + 1)) : Tail(q)[i] = q[i + 1]
      BY <1>1, <2>1, <2>3
    <2>5. ASSUME NEW i \in 1..(Len(s) - (k + 1)) PROVE Tail(q)[i] = r[i]
      <3>1. i + 1 \in 1..(Len(s) - k) /\ k + (i + 1) = (k + 1) + i
        BY <1>1
      <3> QED
        BY <2>1, <2>2, <2>4, <3>1
    <2>6. Tail(q) = r
      BY <2>2, <2>4, <2>5, EqualInPlaces
    <2> QED
      BY <2>3, <2>6 DEF q, r
  <1>2. ASSUME NEW x \in S PROVE Rest(Append(s, x), k) = Append(Rest(s, k), x)
    <2> DEFINE r == Rest(s, k)
    <2>1. Append(s, x) = s \o <<x>> /\ <<x>> \in Seq(S)
      OBVIOUS
    <2>2. Rest(s \o <<x>>, k) = r \o <<x>>
      BY <2>1, RestJoined
    <2>3. r \in Seq(S)
      BY RestIs
    <2> HIDE DEF r
    <2>4. r \o <<x>> = Append(r, x)
      BY <2>3
    <2> QED
      BY <2>1, <2>2, <2>4 DEF r
  <1> QED
    BY <1>1, <1>2

-----------------------------------------------------------------------------
(* The reader *)

(* compact() drops what was consumed. *)
LEMMA CompactRest ==
  ASSUME NEW b \in Seq(Bytes), NEW c \in 0..Len(b)
  PROVE  (IF c >= Len(b) THEN <<>> ELSE SubSeq(b, c + 1, Len(b))) = Rest(b, c)
  <1>1. CASE c >= Len(b)
    <2>1. Rest(b, c) \in Seq(Bytes) /\ Len(Rest(b, c)) = 0
      BY <1>1, RestIs
    <2>2. Rest(b, c) = <<>>
      BY <2>1
    <2> QED
      BY <1>1, <2>2
  <1>2. CASE ~(c >= Len(b))
    BY <1>2 DEF Rest
  <1> QED
    BY <1>1, <1>2

(* What is pending, in terms of the rest of the buffer. *)
LEMMA PendingIs ==
  ASSUME NoiseTypes
  PROVE  /\ compact = Rest(buffer_, consumed_) /\ compact \in Seq(Bytes)
         /\ Pending = Rest(buffer_, consumed_) \o wire /\ Pending \in Seq(Bytes)
  <1>1. /\ buffer_ \in Seq(Bytes) /\ consumed_ \in 0..Len(buffer_) /\ wire \in Seq(Bytes)
    BY Zenon DEF NoiseTypes
  <1>2. compact = Rest(buffer_, consumed_)
    BY <1>1, CompactRest DEF compact
  <1>3. Rest(buffer_, consumed_) \in Seq(Bytes)
    BY <1>1, RestIs
  <1>4. Pending = Rest(buffer_, consumed_) \o wire
    BY <1>2, Zenon DEF Pending
  <1> QED
    BY <1>1, <1>2, <1>3, <1>4

(* The same after a step. *)
LEMMA PendingAfter ==
  ASSUME buffer_' \in Seq(Bytes), consumed_' \in 0..Len(buffer_')
  PROVE  Pending' = Rest(buffer_', consumed_') \o wire'
  <1>1. compact' = Rest(buffer_', consumed_')
    BY CompactRest DEF compact
  <1> QED
    BY <1>1, Zenon DEF Pending

(* A chunk moves from the stream to the buffer. *)
LEMMA FeedKeeps ==
  ASSUME NoiseTypes, NEW n \in 1..Len(wire), feed(n)
  PROVE  /\ Pending' = Pending /\ buffer_' \in Seq(Bytes) /\ wire' \in Seq(Bytes)
         /\ consumed_' \in 0..Len(buffer_')
  <1> DEFINE c == SubSeq(wire, 1, n)
  <1>1. /\ buffer_ \in Seq(Bytes) /\ consumed_ \in 0..Len(buffer_) /\ wire \in Seq(Bytes)
        /\ n \in 0..Len(wire)
    BY DEF NoiseTypes
  <1>2. buffer_' = buffer_ \o c /\ wire' = Rest(wire, n) /\ consumed_' = consumed_
    BY DEF feed, Rest
  <1>3. c \in Seq(Bytes) /\ c \o Rest(wire, n) = wire /\ Rest(wire, n) \in Seq(Bytes)
    BY <1>1, Chunk, RestIs
  <1> HIDE DEF c
  <1>4. buffer_' \in Seq(Bytes) /\ consumed_' \in 0..Len(buffer_') /\ wire' \in Seq(Bytes)
    BY <1>1, <1>2, <1>3
  <1>5. Rest(buffer_', consumed_') = Rest(buffer_, consumed_) \o c
    BY <1>1, <1>2, <1>3, RestJoined
  <1> DEFINE r == Rest(buffer_, consumed_)
             w == Rest(wire, n)
  <1>6. r \in Seq(Bytes) /\ w \in Seq(Bytes) /\ c \o w = wire /\ Pending = r \o wire
    BY <1>1, <1>3, RestIs, PendingIs
  <1>7. Pending' = (r \o c) \o w
    BY <1>2, <1>4, <1>5, PendingAfter
  <1> HIDE DEF r, w
  <1>8. (r \o c) \o w = r \o (c \o w)
    <2>1. r \in Seq(Bytes) /\ c \in Seq(Bytes) /\ w \in Seq(Bytes)
      BY <1>3, <1>6
    <2> QED
      BY <2>1, JoinThree, SMTT(30)
  <1> QED
    BY <1>4, <1>6, <1>7, <1>8

(* The device writes a frame. *)
LEMMA WriteAdds ==
  ASSUME NoiseTypes, NEW f \in Seq(Bytes), wire' = wire \o f, buffer_' = buffer_,
         consumed_' = consumed_
  PROVE  /\ Pending' = Pending \o f /\ buffer_' \in Seq(Bytes) /\ wire' \in Seq(Bytes)
         /\ consumed_' \in 0..Len(buffer_')
  <1>1. /\ buffer_ \in Seq(Bytes) /\ consumed_ \in 0..Len(buffer_) /\ wire \in Seq(Bytes)
    BY Zenon DEF NoiseTypes
  <1>2. buffer_' \in Seq(Bytes) /\ consumed_' \in 0..Len(buffer_') /\ wire' \in Seq(Bytes)
    BY <1>1
  <1> DEFINE r == Rest(buffer_, consumed_)
  <1>3. r \in Seq(Bytes) /\ Pending = r \o wire /\ Pending' = r \o (wire \o f)
    BY <1>1, <1>2, RestIs, PendingIs, PendingAfter
  <1> HIDE DEF r
  <1>4. (r \o wire) \o f = r \o (wire \o f)
    <2>1. r \in Seq(Bytes) /\ wire \in Seq(Bytes) /\ f \in Seq(Bytes)
      BY <1>1, <1>3, Zenon
    <2> QED
      BY <2>1, JoinThree, SMTT(30)
  <1> QED
    BY <1>2, <1>3, <1>4

(* next() keeps the buffer without what was consumed, and may consume k bytes more. *)
LEMMA NextKeeps ==
  ASSUME NoiseTypes, NEW k \in 0..Len(compact), buffer_' = compact, consumed_' = k, wire' = wire
  PROVE  /\ Pending' = Rest(Pending, k) /\ buffer_' \in Seq(Bytes) /\ wire' \in Seq(Bytes)
         /\ consumed_' \in 0..Len(buffer_')
  <1>1. compact \in Seq(Bytes) /\ wire \in Seq(Bytes) /\ Pending = compact \o wire
    BY PendingIs DEF NoiseTypes, Pending
  <1>2. buffer_' \in Seq(Bytes) /\ consumed_' \in 0..Len(buffer_') /\ wire' \in Seq(Bytes)
    BY <1>1
  <1>3. Pending' = Rest(compact, k) \o wire
    BY <1>2, PendingAfter
  <1>4. Rest(compact \o wire, k) = Rest(compact, k) \o wire
    BY <1>1, RestJoined
  <1> QED
    BY <1>1, <1>2, <1>3, <1>4

(* What next_raw() returns: the bytes behind a header, as many as it says. *)
LEMMA RawIs ==
  ASSUME NEW b \in Seq(Bytes), next_raw(b).status = "Ok"
  PROVE  LET n == b[2].at * Base + b[3].at
             raw == next_raw(b).raw
         IN  /\ Len(b) >= 3 /\ b[1].at = 1 /\ n \in Nat /\ 3 + n <= Len(b) /\ Len(raw) = n
             /\ n = 0 => raw = <<>>
             /\ n > 0 => raw # <<>> /\ raw[1] = b[4]
  <1> DEFINE n == b[2].at * Base + b[3].at
             raw == next_raw(b).raw
  <1>1. Len(b) >= 3 /\ b[1].at = indicator.at
    BY DEF next_raw
  <1>2. n \in Nat
    <2>1. b[2] \in Bytes /\ b[3] \in Bytes
      BY <1>1
    <2>2. b[2].at \in Nat /\ b[3].at \in Nat /\ Base \in Nat
      BY <2>1, NoiseAssumption DEF Bytes
    <2>3. \A x, y, z \in Nat : x * y + z \in Nat
      OBVIOUS
    <2> QED
      BY <2>2, <2>3, Zenon
  <1>3. enough(Len(b), n) /\ raw = SubSeq(b, 4, 3 + n)
    BY <1>1 DEF next_raw
  <1> HIDE DEF n
  <1>4. 3 + n <= Len(b)
    BY <1>1, <1>2, <1>3 DEF enough
  <1>5. SubSeq(b, 4, 3 + n) \in Seq(Bytes) /\ Len(SubSeq(b, 4, 3 + n)) = n
        /\ (n > 0 => SubSeq(b, 4, 3 + n)[1] = b[4])
    BY <1>1, <1>2, <1>4
  <1>6. raw \in Seq(Bytes) /\ Len(raw) = n /\ (n > 0 => raw[1] = b[4])
    BY <1>3, <1>5
  <1> HIDE DEF raw
  <1>7. (n = 0 => raw = <<>>) /\ (n > 0 => raw # <<>>)
    BY <1>2, <1>6
  <1>8. b[1].at = 1
    BY <1>1 DEF indicator
  <1> QED
    BY <1>1, <1>2, <1>4, <1>6, <1>7, <1>8 DEF n, raw

(* The reader takes the frame of the body that it expects, or one without a byte. *)
LEMMA FrameTaken ==
  ASSUME NoiseTypes, NEW a \in Nat, NEW l \in Nat, Laid(Pending, a, l),
         next_raw(compact).status = "Ok", buffer_' = compact,
         consumed_' = 3 + Len(next_raw(compact).raw), wire' = wire
  PROVE  /\ a \in 1..l /\ Laid(Pending', a + 1, l)
         /\ Body(next_raw(compact).raw) \in {[kind |-> "empty"], bodies[a]}
         /\ buffer_' \in Seq(Bytes) /\ wire' \in Seq(Bytes) /\ consumed_' \in 0..Len(buffer_')
  <1> DEFINE b == compact
             u == Pending
             raw == next_raw(compact).raw
             n == b[2].at * Base + b[3].at
  <1>1. b \in Seq(Bytes) /\ wire \in Seq(Bytes) /\ u = b \o wire /\ u \in Seq(Bytes)
    BY PendingIs DEF NoiseTypes, Pending
  <1>2. /\ Len(b) >= 3 /\ b[1].at = 1 /\ n \in Nat /\ 3 + n <= Len(b) /\ Len(raw) = n
        /\ n = 0 => raw = <<>>
        /\ n > 0 => raw # <<>> /\ raw[1] = b[4]
    BY <1>1, RawIs
  <1> HIDE DEF b, u, raw
  <1>3. /\ u # <<>> /\ Len(u) >= Len(b)
        /\ \A i \in 1..Len(b) : u[i] = b[i]
    <2>1. Len(b) >= 3 /\ b \in Seq(Bytes) /\ wire \in Seq(Bytes)
      BY <1>1, <1>2
    <2>2. /\ Len(b \o wire) = Len(b) + Len(wire) /\ b \o wire \in Seq(Bytes)
          /\ \A i \in 1..Len(b) : (b \o wire)[i] = b[i]
      BY <2>1
    <2> QED
      BY <1>1, <2>1, <2>2
  <1>4. PICK k \in Nat : FrameAt(u, 1, a, k) /\ Laid(SubSeq(u, 4 + k, Len(u)), a + 1, l)
    BY <1>1, <1>3, LaidTake DEF u
  <1>5. a \in 1..l
    BY <1>1, <1>3, LaidTake DEF u
  <1>6. k = n /\ (k > 0 => u[4].body = a)
    <2>1. u[1 + 1].at * Base + u[1 + 2].at = k /\ (k > 0 => u[1 + 3].body = a)
      BY <1>4, Zenon DEF FrameAt
    <2>2. 1 + 1 = 2 /\ 1 + 2 = 3 /\ 1 + 3 = 4
      OBVIOUS
    <2>3. u[2] = b[2] /\ u[3] = b[3]
      <3>1. 2 \in 1..Len(b) /\ 3 \in 1..Len(b)
        BY <1>1, <1>2
      <3> QED
        BY <3>1, <1>3
    <2>4. u[2].at * Base + u[3].at = k /\ (k > 0 => u[4].body = a)
      BY <2>1, <2>2, Zenon
    <2> QED
      BY <2>3, <2>4, Zenon
  <1> HIDE DEF n
  <1>7. Body(raw) \in {[kind |-> "empty"], bodies[a]}
    <2>1. CASE n = 0
      BY <1>2, <2>1 DEF Body
    <2>2. CASE n > 0
      <3>1. raw # <<>> /\ raw[1] = b[4] /\ 4 \in 1..Len(b)
        BY <1>1, <1>2, <2>2
      <3>2. raw[1].body = a
        BY <1>3, <1>6, <2>2, <3>1
      <3> QED
        BY <3>1, <3>2 DEF Body
    <2> QED
      BY <1>2, <2>1, <2>2
  <1>8. 3 + n \in 0..Len(b)
    BY <1>1, <1>2
  <1>9. /\ Pending' = Rest(u, 3 + n) /\ buffer_' \in Seq(Bytes) /\ wire' \in Seq(Bytes)
        /\ consumed_' \in 0..Len(buffer_')
    <2>1. consumed_' = 3 + n /\ 3 + n \in 0..Len(compact)
      BY <1>2, <1>8 DEF b, raw
    <2> QED
      BY <2>1, NextKeeps DEF u
  <1>10. Laid(Pending', a + 1, l)
    <2>1. Rest(u, 3 + n) = SubSeq(u, 4 + n, Len(u))
      <3>1. (3 + n) + 1 = 4 + n
        BY <1>2
      <3> QED
        BY <3>1, Zenon DEF Rest
    <2> QED
      BY <1>4, <1>6, <1>9, <2>1, Zenon
  <1> QED
    BY <1>5, <1>7, <1>9, <1>10 DEF raw

-----------------------------------------------------------------------------
(* Queues given by their elements. *)

(* A queue with one more element. *)
LEMMA Added ==
  ASSUME NEW n \in Nat, NEW s, s = [i \in 1..n |-> s[i]], NEW x
  PROVE  /\ Len(s) = n /\ Len(Append(s, x)) = n + 1
         /\ Append(s, x) = [i \in 1..(n + 1) |-> IF i = n + 1 THEN x ELSE s[i]]
  <1> DEFINE S == {s[i] : i \in 1..n} \cup {x}
             a == Append(s, x)
  <1>1. s \in Seq(S) /\ Len(s) = n
    <2>1. \A i \in 1..n : s[i] \in S
      OBVIOUS
    <2> HIDE DEF S
    <2> QED
      BY <2>1
  <1>2. x \in S
    OBVIOUS
  <1> HIDE DEF S
  <1>3. /\ a \in Seq(S) /\ Len(a) = n + 1 /\ a[n + 1] = x /\ \A i \in 1..n : a[i] = s[i]
    BY <1>1, <1>2
  <1> HIDE DEF a
  <1>4. a = [i \in 1..(n + 1) |-> a[i]]
    BY <1>3
  <1>5. \A i \in 1..(n + 1) : a[i] = IF i = n + 1 THEN x ELSE s[i]
    BY <1>3
  <1> QED
    BY <1>1, <1>3, <1>4, <1>5 DEF a

(* One more element is a queue of one behind it. *)
LEMMA Joined ==
  ASSUME NEW n \in Nat, NEW s, s = [i \in 1..n |-> s[i]], NEW x
  PROVE  s \o <<x>> = Append(s, x)
  <1> DEFINE S == {s[i] : i \in 1..n} \cup {x}
  <1>1. s \in Seq(S)
    <2>1. \A i \in 1..n : s[i] \in S
      OBVIOUS
    <2> HIDE DEF S
    <2> QED
      BY <2>1
  <1>2. x \in S
    OBVIOUS
  <1> HIDE DEF S
  <1> QED
    BY <1>1, <1>2

(* A queue of two. *)
LEMMA AddSecond ==
  ASSUME NEW t, NEW r
  PROVE  Append(<<t>>, r) = <<t, r>>
  <1> DEFINE s == <<t>>
  <1>1. s = [i \in 1..1 |-> s[i]] /\ s[1] = t
    OBVIOUS
  <1> HIDE DEF s
  <1>2. Append(s, r) = [i \in 1..(1 + 1) |-> IF i = 1 + 1 THEN r ELSE s[i]]
    BY <1>1, Added
  <1>3. <<t, r>> = [i \in 1..2 |-> IF i = 1 THEN t ELSE r]
    OBVIOUS
  <1>4. 1 + 1 = 2 /\ 1 # 2 /\ \A i \in 1..2 : i = 1 \/ i = 2
    OBVIOUS
  <1>5. \A i \in 1..2 : (IF i = 2 THEN r ELSE s[i]) = IF i = 1 THEN t ELSE r
    BY <1>1, <1>4, Zenon
  <1>6. Append(s, r) = <<t, r>>
    BY <1>2, <1>3, <1>4, <1>5, Zenon
  <1> QED
    BY <1>6 DEF s

(* A queue without its first element. *)
LEMMA Removed ==
  ASSUME NEW n \in Nat, NEW s, s = [i \in 1..n |-> s[i]], s # <<>>
  PROVE  /\ n > 0 /\ Head(s) = s[1] /\ Len(Tail(s)) = n - 1
         /\ Tail(s) = [i \in 1..(n - 1) |-> s[i + 1]]
  <1> DEFINE S == {s[i] : i \in 1..n}
             t == Tail(s)
  <1>1. s \in Seq(S) /\ Len(s) = n
    <2>1. \A i \in 1..n : s[i] \in S
      OBVIOUS
    <2> HIDE DEF S
    <2> QED
      BY <2>1
  <1> HIDE DEF S
  <1>2. n > 0 /\ Head(s) = s[1]
    BY <1>1
  <1>3. t \in Seq(S) /\ Len(t) = n - 1 /\ \A i \in 1..(n - 1) : t[i] = s[i + 1]
    BY <1>1
  <1> HIDE DEF t
  <1>4. t = [i \in 1..(n - 1) |-> t[i]]
    BY <1>3
  <1> QED
    BY <1>2, <1>3, <1>4 DEF t

-----------------------------------------------------------------------------
(* The steps *)

(* The invariant holds before anything is sent. *)
LEMMA NoiseInitInd == NoiseInit => NoiseInv
  <1> SUFFICES ASSUME NoiseInit PROVE NoiseInv
    OBVIOUS
  <1>1. PICK d \in Devices : device = NewDevice(d)
    BY Zenon DEF NoiseInit, NewDevice
  <1>2. device.conf = d
    BY <1>1 DEF NewDevice
  <1>3. NoiseTypes
    <2>1. /\ buffer_ = <<>> /\ wire = <<>> /\ sent = <<>> /\ received = <<>>
          /\ device_sent = <<>> /\ device_received = <<>> /\ consumed_ = 0
          /\ state_ = "ExpectServerHello" /\ draining = FALSE /\ open = FALSE
          /\ clear = "none"
      BY Zenon DEF NoiseInit
    <2>2. <<>> \in Seq(Bytes) /\ <<>> \in Seq(Messages) /\ 0 \in 0..Len(<<>>)
      OBVIOUS
    <2> QED
      BY <1>2, <2>1, <2>2, Zenon DEF NoiseTypes
  <1>4. Greeting
    BY <1>1, <1>2, Zenon DEF NoiseInit, Greeting, Before, Fresh
  <1>5. Accepted /\ Aligned
    BY DEF NoiseInit, Accepted, Aligned, CipherState
  <1> QED
    BY <1>3, <1>4, <1>5, Zenon DEF NoiseInv

(* What the device and the client have said to each other, and the ciphers. *)
talk == <<device, sent, received, device_sent, device_received, handshake_, to_device, bodies,
          encrypt_, decrypt_, clear>>

(* A step that says nothing, once the conversation has begun. *)
LEMMA TalkKeeps ==
  ASSUME Greeting \/ Session, open \/ draining, UNCHANGED talk,
         state_' = "Ready" <=> state_ = "Ready"
  PROVE  Greeting' \/ Session'
  <1>1. CASE Greeting
    <2>1. ~Before
      BY Zenon DEF Before
    <2> QED
      BY <1>1, <2>1, Zenon DEF Greeting, talk
  <1>2. CASE Session
    BY <1>2, Zenon DEF Session, DeviceSide, ClientSide, InOrder, talk
  <1> QED
    BY <1>1, <1>2, Zenon

(* How one direction goes on in a step: not at all, with a message sent, or with   *)
(* the next one received.                                                          *)
Carried(s, r, s1, r1) ==
    \/ s1 = s /\ r1 = r
    \/ r1 = r /\ \E m \in Messages : s1 = Append(s, m)
    \/ s1 = s /\ Len(r) < Len(s) /\ r1 = Append(r, s[Len(r) + 1])

BothCarried ==
    /\ Carried(device_sent, received, device_sent', received')
    /\ Carried(sent, device_received, sent', device_received')

(* The transport is connected. *)
LEMMA ConnectInd ==
  ASSUME NoiseInv, connect_bytes
  PROVE  NoiseInv' /\ BothCarried
  <1>1. /\ ~open /\ handshake_ = Fresh /\ open' = TRUE /\ handshake_' = Opening.hs
        /\ to_device' = IF clear = "none" THEN to_device \o <<Hello, Shake>> ELSE to_device
        /\ UNCHANGED <<state_, encrypt_, decrypt_, buffer_, consumed_, draining, received, sent,
                       clear, device, bodies, wire, device_sent, device_received>>
    BY Zenon DEF connect_bytes, Carry, Opening, Fresh, Hello, Shake
  <1>2. NoiseTypes /\ (Greeting \/ Session) /\ Accepted
    BY Zenon DEF NoiseInv
  <1>3. ~Session
    BY <1>1, OpeningIs, KeysAgree, Zenon DEF Session, DeviceSide, ClientSide
  <1>4. Greeting /\ Before
    BY <1>1, <1>2, <1>3, OpeningIs, Zenon DEF Greeting
  <1>5. NoiseTypes'
    BY <1>1, <1>2, Zenon DEF NoiseTypes
  <1>6. Greeting'
    <2>1. \A f \in {<<Hello, Shake>>} : <<>> \o f = f
      <3> DEFINE a == Hello
                 b == Shake
      <3> HIDE DEF a, b
      <3>1. <<>> \o <<a, b>> = <<a, b>>
        OBVIOUS
      <3> QED
        BY <3>1 DEF a, b
    <2>2. to_device' = <<Hello, Shake>> \/ (to_device' = <<>> /\ clear' # "none")
      BY <1>1, <1>4, <2>1, Zenon DEF Before
    <2> QED
      BY <1>1, <1>4, <2>2, Zenon DEF Greeting, Before
  <1>7. Accepted'
    BY <1>1, <1>2, <1>4 DEF Accepted, Before
  <1>8. Pending' = <<>> /\ Len(bodies') = 0 /\ state_' = "ExpectServerHello" /\ Expected' = 1
    BY <1>1, <1>4 DEF Before, Pending, compact, Expected
  <1>9. Aligned'
    <2>1. Laid(Pending', Expected', Len(bodies'))
      BY <1>8, LaidNone
    <2>2. \A i \in DOMAIN Pending' : Pending'[i].at = 0
      BY <1>8
    <2> QED
      BY <1>8, <2>1, <2>2, Zenon DEF Aligned
  <1>10. BothCarried
    BY <1>1, Zenon DEF BothCarried, Carried
  <1> QED
    BY <1>5, <1>6, <1>7, <1>9, <1>10, Zenon DEF NoiseInv

(* What the bodies are once the conversation has begun. *)
LEMMA BodiesAre ==
  ASSUME NoiseTypes, Greeting \/ Session, device.conf.encrypted, open \/ draining
  PROVE  /\ Len(bodies) \in Nat /\ bodies = [i \in 1..Len(bodies) |-> bodies[i]]
         /\ 1 \in 1..Len(bodies) => bodies[1] = Told(device.conf)
         /\ 2 \in 1..Len(bodies) =>
               bodies[2] = Rejected \/ (Session /\ bodies[2] = Agreed(device.conf))
         /\ Session => \A i \in 3..Len(bodies) :
               bodies[i] = App(ToClientKey(device.conf), i - 3, device_sent[i - 2])
  <1> DEFINE d == device.conf
  <1>1. CASE Greeting /\ ~Session
    <2>1. \/ bodies = <<>> \/ bodies = <<Told(d)>> \/ bodies = <<Told(d), Rejected>>
      BY <1>1, Zenon DEF Greeting, Before
    <2> DEFINE t == Told(d)
               r == Rejected
    <2>2. \/ bodies = <<>> \/ bodies = <<t>> \/ bodies = <<t, r>>
      BY <2>1
    <2> HIDE DEF t, r, d
    <2>4. bodies \in Seq({t, r})
      <3> DEFINE S == {t, r}
      <3>1. t \in S /\ r \in S
        OBVIOUS
      <3> HIDE DEF S
      <3>2. <<>> \in Seq(S) /\ <<t>> \in Seq(S) /\ <<t, r>> \in Seq(S)
        BY <3>1
      <3> QED
        BY <2>2, <3>2, Zenon DEF S
    <2>5. bodies = [i \in 1..Len(bodies) |-> bodies[i]]
      BY <2>4
    <2>3. /\ Len(bodies) \in Nat /\ (1 \in 1..Len(bodies) => bodies[1] = t)
          /\ (2 \in 1..Len(bodies) => bodies[2] = r)
      BY <2>2
    <2> QED
      BY <1>1, <2>3, <2>5, Zenon DEF t, r, d
  <1>2. CASE Session
    <2>1. /\ Len(bodies) = 2 + Len(device_sent)
          /\ bodies = [i \in 1..Len(bodies) |->
                        IF i = 1 THEN Told(d) ELSE IF i = 2 THEN Agreed(d)
                        ELSE App(ToClientKey(d), i - 3, device_sent[i - 2])]
      BY <1>2, Zenon DEF Session, DeviceSide
    <2>2. Len(bodies) \in Nat
      BY <2>1 DEF NoiseTypes
    <2>5. bodies = [i \in 1..Len(bodies) |-> bodies[i]]
      BY <2>1, Zenon
    <2>3. /\ 1 \in 1..Len(bodies) => bodies[1] = Told(d)
          /\ 2 \in 1..Len(bodies) => bodies[2] = Agreed(d)
      <3>1. 2 # 1
        OBVIOUS
      <3> QED
        BY <2>1, <3>1, Zenon
    <2>4. ASSUME NEW i \in 3..Len(bodies)
          PROVE  bodies[i] = App(ToClientKey(d), i - 3, device_sent[i - 2])
      <3>1. i \in 1..Len(bodies) /\ i # 1 /\ i # 2
        BY <2>2
      <3> QED
        BY <2>1, <3>1, Zenon
    <2> QED
      BY <1>2, <2>2, <2>3, <2>4, <2>5, Zenon
  <1> QED
    BY <1>1, <1>2, Zenon

(* A chunk arrives. *)
LEMMA FeedInd ==
  ASSUME NoiseInv, NEW n \in 1..Len(wire), feed(n)
  PROVE  NoiseInv' /\ BothCarried
  <1>1. NoiseTypes /\ (Greeting \/ Session) /\ Accepted /\ Aligned
    BY Zenon DEF NoiseInv
  <1>2. /\ open /\ draining' = TRUE /\ open' = open /\ state_' = state_ /\ UNCHANGED talk
    BY Zenon DEF feed, talk
  <1>3. /\ Pending' = Pending /\ buffer_' \in Seq(Bytes) /\ wire' \in Seq(Bytes)
        /\ consumed_' \in 0..Len(buffer_')
    BY <1>1, FeedKeeps
  <1>4. NoiseTypes'
    BY <1>1, <1>2, <1>3, Zenon DEF NoiseTypes, talk
  <1>5. Greeting' \/ Session'
    BY <1>1, <1>2, TalkKeeps, Zenon
  <1>6. Accepted'
    BY <1>1, <1>2, Zenon DEF Accepted, talk, hello_accepted
  <1>7. Aligned'
    BY <1>1, <1>2, <1>3, Zenon DEF Aligned, Expected, talk
  <1>8. BothCarried
    BY <1>2, Zenon DEF BothCarried, Carried, talk
  <1> QED
    BY <1>4, <1>5, <1>6, <1>7, <1>8, Zenon DEF NoiseInv

(* The buffer does not hold a whole frame. *)
LEMMA NeedsMoreInd ==
  ASSUME NoiseInv, next_needs_more
  PROVE  NoiseInv' /\ BothCarried
  <1>1. NoiseTypes /\ (Greeting \/ Session) /\ Accepted /\ Aligned
    BY Zenon DEF NoiseInv
  <1>2. /\ draining /\ draining' = FALSE /\ open' = open /\ state_' = state_ /\ UNCHANGED talk
        /\ buffer_' = compact /\ consumed_' = 0 /\ wire' = wire
    BY Zenon DEF next_needs_more, unchanged_by_next, talk
  <1>3. /\ Pending' = Pending /\ buffer_' \in Seq(Bytes) /\ wire' \in Seq(Bytes)
        /\ consumed_' \in 0..Len(buffer_')
    <2>1. compact \in Seq(Bytes) /\ Pending \in Seq(Bytes)
      BY <1>1, PendingIs
    <2>2. 0 \in 0..Len(compact) /\ 0 \in 0..Len(Pending)
      BY <2>1
    <2>3. Rest(Pending, 0) = Pending
      BY <2>1, <2>2, RestIs
    <2> QED
      BY <1>1, <1>2, <2>2, <2>3, NextKeeps
  <1>4. NoiseTypes'
    BY <1>1, <1>2, <1>3, Zenon DEF NoiseTypes, talk
  <1>5. Greeting' \/ Session'
    BY <1>1, <1>2, TalkKeeps, Zenon
  <1>6. Accepted'
    BY <1>1, <1>2, Zenon DEF Accepted, talk, hello_accepted
  <1>7. Aligned'
    BY <1>1, <1>2, <1>3, Zenon DEF Aligned, Expected, talk
  <1>8. BothCarried
    BY <1>2, Zenon DEF BothCarried, Carried, talk
  <1> QED
    BY <1>4, <1>5, <1>6, <1>7, <1>8, Zenon DEF NoiseInv

(* The bytes are not a frame: the session ends. *)
LEMMA ThrowsInd ==
  ASSUME NoiseInv, next_throws
  PROVE  NoiseInv' /\ BothCarried
  <1>1. NoiseTypes /\ (Greeting \/ Session) /\ Accepted /\ Aligned
    BY Zenon DEF NoiseInv
  <1>2. /\ draining /\ draining' = FALSE /\ open' = FALSE /\ state_' = state_ /\ UNCHANGED talk
        /\ buffer_' = compact /\ consumed_' = 0 /\ wire' = wire
    BY Zenon DEF next_throws, throws, unchanged_by_next, talk
  <1>3. /\ buffer_' \in Seq(Bytes) /\ wire' \in Seq(Bytes) /\ consumed_' \in 0..Len(buffer_')
    <2>1. 0 \in 0..Len(compact)
      BY <1>1, PendingIs
    <2> QED
      BY <1>1, <1>2, <2>1, NextKeeps
  <1>4. NoiseTypes'
    BY <1>1, <1>2, <1>3, Zenon DEF NoiseTypes, talk
  <1>5. Greeting' \/ Session'
    BY <1>1, <1>2, TalkKeeps, Zenon
  <1>6. Accepted'
    BY <1>1, <1>2, Zenon DEF Accepted, talk, hello_accepted
  <1>7. Aligned'
    BY <1>2, Zenon DEF Aligned
  <1>8. BothCarried
    BY <1>2, Zenon DEF BothCarried, Carried, talk
  <1> QED
    BY <1>4, <1>5, <1>6, <1>7, <1>8, Zenon DEF NoiseInv

(* What every result of next() with a frame has in common. *)
LEMMA FrameReached ==
  ASSUME NoiseInv, next_frame
  PROVE  LET raw == next_raw(compact).raw
             b == Body(raw)
         IN  /\ NoiseTypes /\ (Greeting \/ Session) /\ Accepted /\ draining
             /\ \/ state_ = "ExpectServerHello" /\ handle_server_hello(b)
                \/ state_ = "ExpectHandshake" /\ handle_server_handshake(b)
                \/ state_ = "Ready" /\ handle_message(b)
                \/ state_ = "Failed" /\ draining' = FALSE
                   /\ UNCHANGED <<state_, handshake_, encrypt_, decrypt_, open, received>>
             /\ UNCHANGED <<sent, clear, device, to_device, bodies, wire, device_sent,
                            device_received>>
             /\ buffer_' \in Seq(Bytes) /\ wire' \in Seq(Bytes)
             /\ consumed_' \in 0..Len(buffer_')
             /\ state_ # "Failed" =>
                   /\ device.conf.encrypted /\ Len(bodies) \in Nat
                   /\ Expected \in 1..Len(bodies)
                   /\ Laid(Pending', Expected + 1, Len(bodies))
                   /\ b \in {[kind |-> "empty"], bodies[Expected]}
  <1> DEFINE raw == next_raw(compact).raw
             b == Body(raw)
  <1>1. NoiseTypes /\ (Greeting \/ Session) /\ Accepted /\ Aligned
    BY Zenon DEF NoiseInv
  <1>2. /\ draining /\ next_raw(compact).status = "Ok" /\ buffer_' = compact
        /\ consumed_' = 3 + Len(raw)
        /\ \/ state_ = "ExpectServerHello" /\ handle_server_hello(b)
           \/ state_ = "ExpectHandshake" /\ handle_server_handshake(b)
           \/ state_ = "Ready" /\ handle_message(b)
           \/ state_ = "Failed" /\ draining' = FALSE
              /\ UNCHANGED <<state_, handshake_, encrypt_, decrypt_, open, received>>
        /\ UNCHANGED <<sent, clear, device, to_device, bodies, wire, device_sent, device_received>>
    BY Zenon DEF next_frame, unchanged_by_next
  <1>3. compact \in Seq(Bytes) /\ wire \in Seq(Bytes) /\ Pending = compact \o wire
    BY <1>1, PendingIs DEF NoiseTypes, Pending
  <1>4. Len(compact) >= 3 /\ compact[1].at = 1 /\ 3 + Len(raw) \in 0..Len(compact)
    <2> DEFINE n == compact[2].at * Base + compact[3].at
    <2>1. Len(compact) >= 3 /\ compact[1].at = 1 /\ n \in Nat /\ 3 + n <= Len(compact)
          /\ Len(raw) = n
      BY <1>2, <1>3, RawIs
    <2> HIDE DEF n, raw
    <2> QED
      BY <1>3, <2>1
  <1>5. /\ buffer_' \in Seq(Bytes) /\ wire' \in Seq(Bytes) /\ consumed_' \in 0..Len(buffer_')
    BY <1>1, <1>2, <1>4, NextKeeps
  <1>6. ASSUME state_ # "Failed"
        PROVE  /\ device.conf.encrypted /\ Len(bodies) \in Nat
               /\ Expected \in 1..Len(bodies)
               /\ Laid(Pending', Expected + 1, Len(bodies))
               /\ b \in {[kind |-> "empty"], bodies[Expected]}
    <2>1. device.conf.encrypted
      <3> SUFFICES ASSUME ~device.conf.encrypted PROVE FALSE
        BY Zenon
      <3>1. \A i \in DOMAIN Pending : Pending[i].at = 0
        BY <1>1, <1>2, <1>6, Zenon DEF Aligned
      <3> DEFINE c == compact
                 u == c \o wire
      <3>2. c \in Seq(Bytes) /\ wire \in Seq(Bytes) /\ Len(c) >= 3
        BY <1>3, <1>4
      <3>3. Pending = u
        BY <1>3
      <3> HIDE DEF c
      <3>4. 1 \in DOMAIN u /\ u[1] = c[1]
        BY <3>2
      <3> HIDE DEF u
      <3>5. c[1].at = 0
        BY <3>1, <3>3, <3>4, Zenon
      <3> QED
        BY <1>4, <3>5 DEF c
    <2>2. Len(bodies) \in Nat
      BY <1>1, <1>2, <2>1, BodiesAre, Zenon
    <2>3. Expected \in Nat
      BY <1>1 DEF Expected, NoiseTypes
    <2>4. Laid(Pending, Expected, Len(bodies))
      BY <1>1, <1>2, <1>6, <2>1, Zenon DEF Aligned
    <2>5. /\ Expected \in 1..Len(bodies) /\ Laid(Pending', Expected + 1, Len(bodies))
          /\ b \in {[kind |-> "empty"], bodies[Expected]}
      <3>1. wire' = wire
        BY <1>2, Zenon
      <3> QED
        BY <1>1, <1>2, <2>2, <2>3, <2>4, <3>1, FrameTaken, Zenon
    <2> QED
      BY <2>1, <2>2, <2>5, Zenon
  <1> QED
    BY <1>1, <1>2, <1>5, <1>6, Zenon

(* An error ends the session. *)
LEMMA ErrorInd ==
  ASSUME NoiseInv, next_frame, state_ # "Ready", report_error
  PROVE  NoiseInv' /\ BothCarried
  <1>1. /\ NoiseTypes /\ (Greeting \/ Session) /\ Accepted /\ draining
        /\ UNCHANGED <<sent, clear, device, to_device, bodies, wire, device_sent, device_received>>
        /\ buffer_' \in Seq(Bytes) /\ wire' \in Seq(Bytes) /\ consumed_' \in 0..Len(buffer_')
    BY FrameReached, Zenon
  <1>2. /\ state_' = "Failed" /\ open' = FALSE /\ draining' = draining /\ UNCHANGED talk
    BY <1>1, Zenon DEF report_error, talk
  <1>4. NoiseTypes'
    BY <1>1, <1>2, Zenon DEF NoiseTypes, talk
  <1>5. Greeting' \/ Session'
    <2>1. state_' # "Ready"
      BY <1>2
    <2> QED
      BY <1>1, <1>2, <2>1, TalkKeeps, Zenon
  <1>6. Accepted' /\ Aligned'
    BY <1>1, <1>2 DEF Accepted, Aligned, talk
  <1>8. BothCarried
    BY <1>2, Zenon DEF BothCarried, Carried, talk
  <1> QED
    BY <1>4, <1>5, <1>6, <1>8, Zenon DEF NoiseInv

(* The reader stops, with a ProtocolError or because it has failed before. *)
LEMMA StopInd ==
  ASSUME NoiseInv, next_frame, draining' = FALSE, ~open',
         UNCHANGED <<state_, handshake_, encrypt_, decrypt_, received>>, open' \in BOOLEAN
  PROVE  NoiseInv' /\ BothCarried
  <1>1. /\ NoiseTypes /\ (Greeting \/ Session) /\ Accepted /\ draining
        /\ UNCHANGED <<sent, clear, device, to_device, bodies, wire, device_sent, device_received>>
        /\ buffer_' \in Seq(Bytes) /\ wire' \in Seq(Bytes) /\ consumed_' \in 0..Len(buffer_')
    BY FrameReached, Zenon
  <1>2. state_' = state_ /\ UNCHANGED talk
    BY <1>1, Zenon DEF talk
  <1>4. NoiseTypes'
    BY <1>1, <1>2, Zenon DEF NoiseTypes, talk
  <1>5. Greeting' \/ Session'
    BY <1>1, <1>2, TalkKeeps, Zenon
  <1>6. Accepted'
    BY <1>1, <1>2, Zenon DEF Accepted, talk, hello_accepted
  <1>7. Aligned'
    BY Zenon DEF Aligned
  <1>8. BothCarried
    BY <1>2, Zenon DEF BothCarried, Carried, talk
  <1> QED
    BY <1>4, <1>5, <1>6, <1>7, <1>8, Zenon DEF NoiseInv

(* The greeting of the device. *)
LEMMA HelloInd ==
  ASSUME NoiseInv, next_frame, state_ = "ExpectServerHello"
  PROVE  NoiseInv' /\ BothCarried
  <1> DEFINE b == Body(next_raw(compact).raw)
             d == device.conf
  <1>1. /\ NoiseTypes /\ (Greeting \/ Session) /\ Accepted /\ draining
        /\ UNCHANGED <<sent, clear, device, to_device, bodies, wire, device_sent, device_received>>
        /\ buffer_' \in Seq(Bytes) /\ wire' \in Seq(Bytes) /\ consumed_' \in 0..Len(buffer_')
        /\ handle_server_hello(b)
    BY FrameReached
  <1>2. /\ device.conf.encrypted /\ Len(bodies) \in Nat /\ Expected \in 1..Len(bodies)
        /\ Laid(Pending', Expected + 1, Len(bodies))
        /\ b \in {[kind |-> "empty"], bodies[Expected]}
    <2>1. state_ # "Failed"
      OBVIOUS
    <2> QED
      BY <2>1, FrameReached, Zenon
  <1>3. Expected = 1
    BY DEF Expected
  <1>4. CASE ~hello_accepted(b)
    <2>1. report_error /\ state_ # "Ready"
      BY <1>1, <1>4 DEF handle_server_hello
    <2> QED
      BY <2>1, ErrorInd, Zenon
  <1>5. CASE hello_accepted(b)
    <2>1. /\ state_' = "ExpectHandshake" /\ draining' = draining /\ open' = open
          /\ UNCHANGED talk
      BY <1>1, <1>5, Zenon DEF handle_server_hello, talk
    <2>2. b # [kind |-> "empty"]
      <3> HIDE DEF b
      <3>1. b.kind = "hello"
        BY <1>5, Zenon DEF hello_accepted
      <3> QED
        BY <3>1
    <2>3. b = Told(d)
      <3>1. bodies[1] = Told(d)
        BY <1>1, <1>2, <1>3, BodiesAre, Zenon
      <3> QED
        BY <1>2, <1>3, <2>2, <3>1, Zenon
    <2>4. hello_accepted(Told(d))
      BY <1>5, <2>3, Zenon
    <2>5. NoiseTypes'
      BY <1>1, <2>1, Zenon DEF NoiseTypes, talk
    <2>6. Greeting' \/ Session'
      <3>1. state_' # "Ready" /\ state_ # "Ready"
        BY <2>1
      <3> QED
        BY <1>1, <2>1, <3>1, TalkKeeps, Zenon
    <2>7. Accepted'
      <3>1. hello_accepted(Told(device.conf))'
        BY <2>1, <2>4, Zenon DEF talk, hello_accepted, Told
      <3>2. state_' # "Failed" /\ state_ # "Ready"
        BY <2>1
      <3>3. encrypt_'.key = NoKey
        BY <1>1, <2>1, <3>2, Zenon DEF Accepted, talk
      <3> QED
        BY <3>1, <3>2, <3>3, Zenon DEF Accepted
    <2>8. Aligned'
      <3>1. Expected' = 2 /\ Expected + 1 = 2
        BY <1>3, <2>1 DEF Expected
      <3>2. device.conf' = device.conf /\ bodies' = bodies
        BY <1>1, Zenon
      <3> QED
        BY <1>2, <3>1, <3>2, Zenon DEF Aligned
    <2>9. BothCarried
      BY <2>1, Zenon DEF BothCarried, Carried, talk
    <2> QED
      BY <2>5, <2>6, <2>7, <2>8, <2>9, Zenon DEF NoiseInv
  <1> QED
    BY <1>4, <1>5, Zenon

(* The answer of the device to the handshake. *)
LEMMA HandshakeInd ==
  ASSUME NoiseInv, next_frame, state_ = "ExpectHandshake"
  PROVE  NoiseInv' /\ BothCarried
  <1> DEFINE b == Body(next_raw(compact).raw)
             d == device.conf
  <1>1. /\ NoiseTypes /\ (Greeting \/ Session) /\ Accepted /\ draining
        /\ UNCHANGED <<sent, clear, device, to_device, bodies, wire, device_sent, device_received>>
        /\ buffer_' \in Seq(Bytes) /\ wire' \in Seq(Bytes) /\ consumed_' \in 0..Len(buffer_')
        /\ handle_server_handshake(b)
    BY FrameReached
  <1>2. /\ device.conf.encrypted /\ Len(bodies) \in Nat /\ Expected \in 1..Len(bodies)
        /\ Laid(Pending', Expected + 1, Len(bodies))
        /\ b \in {[kind |-> "empty"], bodies[Expected]}
    <2>1. state_ # "Failed"
      OBVIOUS
    <2> QED
      BY <2>1, FrameReached, Zenon
  <1>3. Expected = 2
    BY DEF Expected
  <1>4. CASE report_error
    <2>1. state_ # "Ready"
      OBVIOUS
    <2> QED
      BY <1>4, <2>1, ErrorInd, Zenon
  <1>5. CASE ~report_error
    <2>1. /\ b.kind = "handshake" /\ read_message(handshake_, b.msg).ok
          /\ handshake_' = read_message(handshake_, b.msg).hs
          /\ encrypt_' = split(read_message(handshake_, b.msg).hs).send
          /\ decrypt_' = split(read_message(handshake_, b.msg).hs).recv
          /\ state_' = "Ready" /\ UNCHANGED <<draining, open, received>>
      BY <1>1, <1>5, Zenon DEF handle_server_handshake
    <2>2. b # [kind |-> "empty"] /\ b # Rejected
      <3> HIDE DEF b
      <3> QED
        BY <2>1 DEF Rejected
    <2>3. Session /\ b = Agreed(d)
      BY <1>1, <1>2, <1>3, <2>2, BodiesAre, Zenon
    <2>4. handshake_ = Opening.hs /\ sent = <<>> /\ received = <<>>
      <3>1. state_ # "Ready"
        OBVIOUS
      <3> QED
        BY <2>3, <3>1, Zenon DEF Session, ClientSide
    <2>5. b.msg = Reply(d).msg
      BY <2>3 DEF Agreed
    <2>6. read_message(handshake_, b.msg) = Answered(d)
      BY <2>4, <2>5, Zenon DEF Answered
    <2>7. Heard(d).ok
      BY <2>3, Zenon DEF Session, DeviceSide
    <2>8. /\ handshake_' = Answered(d).hs
          /\ encrypt_' = [key |-> ToDeviceKey(d), nonce |-> 0]
          /\ decrypt_' = [key |-> ToClientKey(d), nonce |-> 0]
      <3>1. /\ split(Answered(d).hs).send = [key |-> ToDeviceKey(d), nonce |-> 0]
            /\ split(Answered(d).hs).recv = [key |-> ToClientKey(d), nonce |-> 0]
        <4> DEFINE y == split(Answered(d).hs)
                   out == [key |-> ToDeviceKey(d), nonce |-> 0]
                   in == [key |-> ToClientKey(d), nonce |-> 0]
        <4>1. y = [send |-> out, recv |-> in]
          BY <2>7, KeysAgree, Zenon
        <4> HIDE DEF y, out, in
        <4>2. y.send = out /\ y.recv = in
          BY <4>1
        <4> QED
          BY <4>2, Zenon DEF y, out, in
      <3> QED
        BY <2>1, <2>6, <3>1, Zenon
    <2>9. NoiseTypes'
      BY <1>1, <2>1, Zenon DEF NoiseTypes
    <2>10. Session'
      <3>1. DeviceSide' /\ InOrder'
        BY <1>1, <2>1, <2>3, Zenon DEF Session, DeviceSide, InOrder
      <3>2. Len(sent') = 0 /\ Len(received') = 0
        BY <1>1, <2>1, <2>4
      <3>3. ClientSide'
        BY <1>1, <2>1, <2>3, <2>8, <3>2, Zenon DEF Session, ClientSide
      <3> QED
        BY <3>1, <3>3, Zenon DEF Session
    <2>11. Accepted'
      <3>1. hello_accepted(Told(d))
        BY <1>1, Zenon DEF Accepted
      <3>2. hello_accepted(Told(device.conf))'
        BY <1>1, <3>1, Zenon DEF hello_accepted, Told
      <3>3. state_' # "Failed"
        BY <2>1
      <3> QED
        BY <2>1, <3>2, <3>3, Zenon DEF Accepted
    <2>12. Aligned'
      <3>1. Expected' = 3 /\ Expected + 1 = 3
        BY <1>3, <2>1, <2>4 DEF Expected
      <3>2. device.conf' = device.conf /\ bodies' = bodies
        BY <1>1, Zenon
      <3> QED
        BY <1>2, <3>1, <3>2, Zenon DEF Aligned
    <2>13. BothCarried
      BY <1>1, <2>1, Zenon DEF BothCarried, Carried
    <2> QED
      BY <2>9, <2>10, <2>11, <2>12, <2>13, Zenon DEF NoiseInv
  <1> QED
    BY <1>4, <1>5, Zenon

(* A message from the device. *)
LEMMA MessageInd ==
  ASSUME NoiseInv, next_frame, state_ = "Ready"
  PROVE  NoiseInv' /\ BothCarried
  <1> DEFINE b == Body(next_raw(compact).raw)
             d == device.conf
             n == Len(received)
             m == device_sent[n + 1]
             ct == [key |-> ToClientKey(d), nonce |-> n, ad |-> <<>>, text |-> m]
             pt == decrypt_with_ad(decrypt_, <<>>, b.ct)
  <1>1. /\ NoiseTypes /\ (Greeting \/ Session) /\ Accepted /\ draining
        /\ UNCHANGED <<sent, clear, device, to_device, bodies, wire, device_sent, device_received>>
        /\ buffer_' \in Seq(Bytes) /\ wire' \in Seq(Bytes) /\ consumed_' \in 0..Len(buffer_')
        /\ handle_message(b)
    BY FrameReached
  <1>2. /\ device.conf.encrypted /\ Len(bodies) \in Nat /\ Expected \in 1..Len(bodies)
        /\ Laid(Pending', Expected + 1, Len(bodies))
        /\ b \in {[kind |-> "empty"], bodies[Expected]}
    <2>1. state_ # "Failed"
      OBVIOUS
    <2> QED
      BY <2>1, FrameReached, Zenon
  <1>3. Expected = 3 + n
    BY DEF Expected
  <1>4. Session
    BY <1>1, Zenon DEF Greeting
  <1>5. n \in Nat /\ n < Len(device_sent) /\ Len(device_sent) \in Nat
        /\ 3 + n \in 3..Len(bodies) /\ (3 + n) - 3 = n /\ (3 + n) - 2 = n + 1
    <2>1. Len(bodies) = 2 + Len(device_sent)
      BY <1>4, Zenon DEF Session, DeviceSide
    <2>2. received \in Seq(Messages) /\ device_sent \in Seq(Messages)
      BY <1>1, Zenon DEF NoiseTypes
    <2>3. n \in Nat /\ Len(device_sent) \in Nat
      BY <2>2
    <2> HIDE DEF n
    <2> QED
      BY <1>2, <1>3, <2>1, <2>3
  <1>6. bodies[Expected] = [kind |-> "app", ct |-> ct]
    BY <1>1, <1>2, <1>3, <1>4, <1>5, BodiesAre, Zenon DEF App
  <1>7. CASE throws
    <2>1. open' \in BOOLEAN /\ ~open'
      BY <1>7 DEF throws
    <2> QED
      BY <1>7, <2>1, StopInd, Zenon DEF throws
  <1>8. CASE ~throws
    <2>1. /\ b.kind = "app" /\ pt.ok /\ decrypt_' = pt.cipher
          /\ received' = Append(received, b.ct.text)
          /\ UNCHANGED <<state_, handshake_, encrypt_, draining, open>>
      BY <1>1, <1>8, Zenon DEF handle_message
    <2>2. b = [kind |-> "app", ct |-> ct]
      <3> DEFINE body == [kind |-> "app", ct |-> ct]
      <3>1. b \in {[kind |-> "empty"], body}
        BY <1>2, <1>6, Zenon
      <3> HIDE DEF b, body
      <3>2. b = body
        BY <2>1, <3>1
      <3> QED
        BY <3>2, Zenon DEF body
    <2>3. b.ct = ct
      <3> HIDE DEF b, ct
      <3> QED
        BY <2>2
    <2>4. ct.text = m /\ ct.key = ToClientKey(d)
      <3> HIDE DEF m, n, d
      <3> QED
        OBVIOUS
    <2>5. received' = Append(received, m)
      BY <2>1, <2>3, <2>4, Zenon
    <2>6. decrypt_ = [key |-> ToClientKey(d), nonce |-> n]
      BY <1>4, Zenon DEF Session, ClientSide
    <2>7. decrypt_' = [key |-> ToClientKey(d), nonce |-> n + 1]
      <3>1. ToClientKey(d) # NoKey
        BY <1>4, KeysAgree, Zenon DEF Session, DeviceSide
      <3>2. decrypt_.key # NoKey /\ pt = decrypt_with_ad(decrypt_, <<>>, ct)
        BY <2>3, <2>6, <3>1
      <3>3. aead_decrypt(decrypt_, <<>>, ct)
        BY <2>1, <3>2 DEF decrypt_with_ad
      <3>4. pt.cipher = [decrypt_ EXCEPT !.nonce = @ + 1]
        BY <3>2, <3>3 DEF decrypt_with_ad
      <3> DEFINE key == ToClientKey(d)
      <3> HIDE DEF key, n, pt
      <3>5. decrypt_ = [key |-> key, nonce |-> n]
        BY <2>6 DEF key
      <3>6. [decrypt_ EXCEPT !.nonce = @ + 1] = [key |-> key, nonce |-> n + 1]
        BY <3>5
      <3> QED
        BY <2>1, <3>4, <3>6 DEF key
    <2>8. m \in Messages /\ received' \in Seq(Messages) /\ Len(received') = n + 1
          /\ received'[n + 1] = m /\ \A k \in 1..n : received'[k] = received[k]
      <3>1. m \in Messages
        BY <1>1, <1>5 DEF NoiseTypes
      <3>2. received \in Seq(Messages)
        BY <1>1, Zenon DEF NoiseTypes
      <3> HIDE DEF m
      <3> QED
        BY <2>5, <3>1, <3>2
    <2>9. NoiseTypes'
      BY <1>1, <2>1, <2>8, Zenon DEF NoiseTypes
    <2>10. Session'
      <3>1. DeviceSide'
        BY <1>1, <1>4, Zenon DEF Session, DeviceSide
      <3>2. ClientSide'
        <4>1. state_' = "Ready" /\ state_ = "Ready"
          BY <2>1
        <4> QED
          BY <1>1, <1>4, <2>1, <2>7, <2>8, <4>1, Zenon DEF Session, ClientSide
      <3>3. InOrder'
        <4>1. \A k \in 1..n : received[k] = device_sent[k]
          BY <1>4, Zenon DEF Session, InOrder
        <4>2. \A k \in 1..(n + 1) : received'[k] = device_sent[k]
          <5>1. \A k \in 1..(n + 1) : k \in 1..n \/ k = n + 1
            BY <1>5
          <5> QED
            BY <2>8, <4>1, <5>1, Zenon
        <4>3. n + 1 <= Len(device_sent)
          BY <1>5
        <4> QED
          BY <1>1, <1>4, <2>8, <4>2, <4>3, Zenon DEF Session, InOrder
      <3> QED
        BY <3>1, <3>2, <3>3, Zenon DEF Session
    <2>11. Accepted'
      BY <1>1, <2>1, Zenon DEF Accepted, hello_accepted, Told
    <2>12. Aligned'
      <3>1. Expected' = Expected + 1
        <4>1. Expected' = 3 + (n + 1)
          BY <2>1, <2>8 DEF Expected
        <4> QED
          BY <1>3, <1>5, <4>1
      <3>2. device.conf' = device.conf /\ bodies' = bodies
        BY <1>1, Zenon
      <3> QED
        BY <1>2, <3>1, <3>2, Zenon DEF Aligned
    <2>13. BothCarried
      BY <1>1, <1>5, <2>5, Zenon DEF BothCarried, Carried
    <2> QED
      BY <2>9, <2>10, <2>11, <2>12, <2>13, Zenon DEF NoiseInv
  <1> QED
    BY <1>7, <1>8, Zenon

(* next() with a frame, whatever the reader waits for. *)
LEMMA FrameInd ==
  ASSUME NoiseInv, next_frame
  PROVE  NoiseInv' /\ BothCarried
  <1>1. CASE state_ = "Failed"
    <2>1. /\ draining' = FALSE /\ open' = open /\ NoiseTypes /\ Accepted
          /\ UNCHANGED <<state_, handshake_, encrypt_, decrypt_, received>>
      BY <1>1, FrameReached
    <2>2. ~open /\ open \in BOOLEAN
      BY <1>1, <2>1, Zenon DEF Accepted, NoiseTypes
    <2> QED
      BY <2>1, <2>2, StopInd, Zenon
  <1>2. state_ \in {"ExpectServerHello", "ExpectHandshake", "Ready", "Failed"}
    BY FrameReached, Zenon DEF NoiseTypes
  <1> QED
    BY <1>1, <1>2, HelloInd, HandshakeInd, MessageInd, Zenon

(* The inner header holds the type and the length of a message: both fit. *)
LEMMA InnerIs ==
  ASSUME NEW m \in Messages
  PROVE  Inner(m) = m /\ SizeOf(m) \in Nat /\ SizeOf(m) < Base * Base
  <1> DEFINE q == Base * Base
  <1>1. /\ Base \in Nat /\ Base > 1 /\ HeaderLen \in Nat /\ TagLen \in Nat
        /\ m.len \in Nat /\ m.len + HeaderLen + TagLen < q
    BY NoiseAssumption DEF Messages
  <1>2. q \in Nat /\ q > 1
    BY <1>1
  <1>3. Inner(m) = [type |-> m.type % q, len |-> m.len % q]
    BY DEF Inner
  <1> HIDE DEF q
  <1>4. m.type = 1 /\ m.type % q = 1 /\ m.len % q = m.len
    <2>1. m.type = 1
      BY DEF Messages
    <2>2. 1 % q = 1
      BY <1>2
    <2>3. m.len < q
      BY <1>1, <1>2
    <2> DEFINE x == m.len
    <2> HIDE DEF x
    <2>4. x \in Nat /\ x < q
      BY <1>1, <2>3 DEF x
    <2>5. x % q = x
      BY <1>2, <2>4
    <2> QED
      BY <2>1, <2>2, <2>5, Zenon DEF x
  <1>5. m = [type |-> 1, len |-> m.len]
    BY DEF Messages
  <1>6. Inner(m) = m
    BY <1>3, <1>4, <1>5, Zenon
  <1>7. SizeOf(m) \in Nat /\ SizeOf(m) < q
    BY <1>1 DEF SizeOf
  <1> QED
    BY <1>6, <1>7 DEF q

(* What encryption makes of a message. *)
LEMMA EncryptIs ==
  ASSUME NEW key, key # NoKey, NEW n \in Nat, NEW x
  PROVE  encrypt_with_ad([key |-> key, nonce |-> n], <<>>, x) =
             [out |-> [key |-> key, nonce |-> n, ad |-> <<>>, text |-> x],
              cipher |-> [key |-> key, nonce |-> n + 1]]
  <1> DEFINE cipher == [key |-> key, nonce |-> n]
  <1>1. cipher.key = key /\ cipher.nonce = n
    OBVIOUS
  <1>2. [cipher EXCEPT !.nonce = @ + 1] = [key |-> key, nonce |-> n + 1]
    OBVIOUS
  <1> HIDE DEF cipher
  <1>3. encrypt_with_ad(cipher, <<>>, x) =
            [out |-> [key |-> key, nonce |-> n, ad |-> <<>>, text |-> x],
             cipher |-> [key |-> key, nonce |-> n + 1]]
    BY <1>1, <1>2, Zenon DEF encrypt_with_ad
  <1> QED
    BY <1>3 DEF cipher

(* encode() seals a message under the next nonce. *)
LEMMA SealInd ==
  ASSUME NoiseInv, NEW m \in Messages, encode(m), encrypt_.key # NoKey
  PROVE  NoiseInv' /\ BothCarried
  <1> DEFINE d == device.conf
             key == ToDeviceKey(d)
             k == Len(device_received)
             ct == encrypt_with_ad(encrypt_, <<>>, Inner(m))
             f == App(key, Len(sent), m)
  <1>1. NoiseTypes /\ (Greeting \/ Session) /\ Accepted /\ Aligned
    BY Zenon DEF NoiseInv
  <1>2. /\ state_ = "Ready" /\ encrypt_' = ct.cipher
        /\ Carry(<<[kind |-> "app", ct |-> ct.out]>>)
        /\ sent' = Append(sent, m)
        /\ UNCHANGED <<state_, handshake_, decrypt_, buffer_, consumed_, draining, open,
                       received, clear, device, bodies, wire, device_sent, device_received>>
    BY <1>1, Zenon DEF encode, Accepted
  <1>3. Session
    BY <1>1, <1>2, Zenon DEF Greeting
  <1>4. sent \in Seq(Messages) /\ Len(sent) \in Nat /\ k \in Nat
    BY <1>1 DEF NoiseTypes
  <1>5. /\ encrypt_' = [key |-> key, nonce |-> Len(sent) + 1]
        /\ to_device' = IF clear = "none" THEN to_device \o <<f>> ELSE to_device
    <2>1. key # NoKey
      BY <1>3, KeysAgree, Zenon DEF Session, DeviceSide
    <2>2. encrypt_ = [key |-> key, nonce |-> Len(sent)]
      BY <1>2, <1>3, Zenon DEF Session, ClientSide
    <2>3. Inner(m) = m
      BY InnerIs
    <2>4. /\ ct.cipher = [key |-> key, nonce |-> Len(sent) + 1]
          /\ ct.out = [key |-> key, nonce |-> Len(sent), ad |-> <<>>, text |-> m]
      <3> DEFINE out == [key |-> key, nonce |-> Len(sent), ad |-> <<>>, text |-> m]
                 cipher == [key |-> key, nonce |-> Len(sent) + 1]
      <3>1. encrypt_with_ad(encrypt_, <<>>, m) = [out |-> out, cipher |-> cipher]
        BY <1>4, <2>1, <2>2, EncryptIs
      <3>2. ct = [out |-> out, cipher |-> cipher]
        BY <2>3, <3>1, Zenon
      <3> HIDE DEF ct, out, cipher
      <3>3. ct.out = out /\ ct.cipher = cipher
        BY <3>2
      <3> QED
        BY <3>3, Zenon DEF out, cipher
    <2> QED
      BY <1>2, <2>4, Zenon DEF App, Carry
  <1>6. /\ sent' \in Seq(Messages) /\ Len(sent') = Len(sent) + 1 /\ sent'[Len(sent) + 1] = m
        /\ \A i \in 1..Len(sent) : sent'[i] = sent[i]
    BY <1>2, <1>4
  <1>7. NoiseTypes'
    BY <1>1, <1>2, <1>6, Zenon DEF NoiseTypes
  <1>14. ASSUME clear = "none" PROVE ClientSide'
    <2> DEFINE t == Len(sent) - k
               g == [j \in 1..t |-> App(key, k + j - 1, sent[k + j])]
               h == [j \in 1..(t + 1) |-> App(key, k + j - 1, sent'[k + j])]
    <2>1. to_device = g /\ k <= Len(sent)
      BY <1>3, <1>14, Zenon DEF Session, ClientSide, InOrder
    <2>2. t \in Nat /\ (Len(sent) + 1) - k = t + 1 /\ k + t = Len(sent)
          /\ k + (t + 1) - 1 = Len(sent) /\ k + (t + 1) = Len(sent) + 1
      BY <1>4, <2>1
    <2>3. ASSUME NEW j \in 1..t PROVE k + j \in 1..Len(sent) /\ sent'[k + j] = sent[k + j]
      <3>1. k + j \in 1..Len(sent)
        BY <1>4, <2>2
      <3> QED
        BY <1>6, <3>1, Zenon
    <2> HIDE DEF t
    <2>4. g \o <<f>> = [j \in 1..(t + 1) |-> IF j = t + 1 THEN f ELSE g[j]]
      <3>1. g = [j \in 1..t |-> g[j]]
        BY Zenon
      <3> HIDE DEF g, f
      <3>2. g \o <<f>> = Append(g, f)
        BY <2>2, <3>1, Joined
      <3>3. Append(g, f) = [j \in 1..(t + 1) |-> IF j = t + 1 THEN f ELSE g[j]]
        BY <2>2, <3>1, Added
      <3> QED
        BY <3>2, <3>3, Zenon
    <2>5. ASSUME NEW j \in 1..(t + 1)
          PROVE  (IF j = t + 1 THEN f ELSE g[j]) = App(key, k + j - 1, sent'[k + j])
      <3>1. CASE j = t + 1
        BY <1>6, <2>2, <3>1, Zenon
      <3>2. CASE j # t + 1
        <4>1. j \in 1..t
          BY <2>2, <3>2
        <4> QED
          BY <2>3, <3>2, <4>1, Zenon
      <3> QED
        BY <3>1, <3>2, Zenon
    <2>6. to_device' = h
      BY <1>5, <1>14, <2>1, <2>4, <2>5, Zenon
    <2>7. Len(sent') - Len(device_received') = t + 1
      <3>1. Len(device_received') = k
        BY <1>2, Zenon
      <3> QED
        BY <1>6, <2>2, <3>1, Zenon
    <2>8. device.conf' = d /\ device_received' = device_received /\ received' = received
          /\ state_' = "Ready" /\ handshake_' = handshake_ /\ decrypt_' = decrypt_
      BY <1>2, Zenon
    <2>9. encrypt_' = [key |-> key, nonce |-> Len(sent')]
      BY <1>5, <1>6, Zenon
    <2> HIDE DEF h
    <2>10. to_device' = [j \in 1..(Len(sent') - Len(device_received')) |->
                           App(ToDeviceKey(device.conf'), Len(device_received') + j - 1,
                               sent'[Len(device_received') + j])]
      BY <2>6, <2>7, <2>8, Zenon DEF h
    <2> QED
      BY <1>2, <1>3, <1>14, <2>8, <2>9, <2>10, Zenon DEF Session, ClientSide
  <1>15. ASSUME clear # "none" PROVE ClientSide'
    <2>1. /\ to_device' = <<>> /\ device_received' = <<>> /\ clear' # "none"
          /\ device.conf' = d /\ encrypt_' = [key |-> key, nonce |-> Len(sent')]
      BY <1>2, <1>3, <1>5, <1>6, <1>15, Zenon DEF Session, ClientSide
    <2> QED
      BY <1>2, <1>3, <2>1, Zenon DEF Session, ClientSide
  <1>8. ClientSide'
    BY <1>14, <1>15, Zenon
  <1>9. DeviceSide'
    BY <1>2, <1>3, Zenon DEF Session, DeviceSide
  <1>10. InOrder'
    <2>1. k <= Len(sent)
      BY <1>3, Zenon DEF Session, InOrder
    <2>2. k <= Len(sent) + 1 /\ \A i \in 1..k : i \in 1..Len(sent)
      BY <1>4, <2>1
    <2>3. \A i \in 1..k : device_received[i] = sent'[i]
      BY <1>3, <1>6, <2>2, Zenon DEF Session, InOrder
    <2> QED
      BY <1>2, <1>3, <1>6, <2>2, <2>3, Zenon DEF Session, InOrder
  <1>11. Accepted'
    BY <1>1, <1>2, Zenon DEF Accepted, hello_accepted, Told
  <1>12. Aligned'
    BY <1>1, <1>2, Zenon DEF Aligned, Expected, Pending, compact
  <1>13. BothCarried
    BY <1>2, Zenon DEF BothCarried, Carried
  <1> QED
    BY <1>7, <1>8, <1>9, <1>10, <1>11, <1>12, <1>13, Zenon DEF NoiseInv, Session

(* A step of the frame in the clear alone: behind it the device reads nothing. *)
LEMMA ClearInd ==
  ASSUME NoiseInv, clear' \in {"none", "sent", "met"}, clear' = "none" => clear = "none",
         Session /\ clear' # "none" => to_device = <<>> /\ device_received = <<>>,
         UNCHANGED <<state_, handshake_, encrypt_, decrypt_, buffer_, consumed_, draining, open,
                     received, sent, to_device, device, bodies, wire, device_sent,
                     device_received>>
  PROVE  NoiseInv' /\ BothCarried
  <1>1. NoiseTypes /\ (Greeting \/ Session) /\ Accepted /\ Aligned
    BY Zenon DEF NoiseInv
  <1>2. NoiseTypes'
    BY <1>1, Zenon DEF NoiseTypes
  <1>3. Greeting => Greeting'
    BY Zenon DEF Greeting, Before
  <1>4. Session => Session'
    BY Zenon DEF Session, DeviceSide, ClientSide, InOrder
  <1>5. Accepted' /\ Aligned'
    BY <1>1, Zenon DEF Accepted, Aligned, hello_accepted, Told, Expected, Pending, compact
  <1>6. BothCarried
    BY Zenon DEF BothCarried, Carried
  <1> QED
    BY <1>1, <1>2, <1>3, <1>4, <1>5, <1>6, Zenon DEF NoiseInv

(* encode() without a key: the message takes no place in the channel. *)
LEMMA InTheClearInd ==
  ASSUME NoiseInv, NEW m \in Messages, encode(m), encrypt_.key = NoKey
  PROVE  NoiseInv' /\ BothCarried
  <1>1. NoiseTypes /\ (Greeting \/ Session)
    BY Zenon DEF NoiseInv
  <1>2. /\ clear = "none" /\ clear' \in IF open THEN {"sent"} ELSE {"none", "sent"}
        /\ UNCHANGED <<state_, handshake_, encrypt_, decrypt_, buffer_, consumed_, draining,
                       open, received, sent, to_device, device, bodies, wire, device_sent,
                       device_received>>
    BY Zenon DEF encode
  <1>3. clear' \in {"none", "sent", "met"}
    BY <1>2
  <1>4. ASSUME Session PROVE to_device = <<>> /\ device_received = <<>>
    <2>1. state_ # "Ready"
      <3> SUFFICES ASSUME state_ = "Ready" PROVE FALSE
        BY Zenon
      <3> DEFINE key == ToDeviceKey(device.conf)
                 n == Len(sent)
      <3>1. encrypt_ = [key |-> key, nonce |-> n] /\ key # NoKey
        BY <1>4, KeysAgree, Zenon DEF Session, DeviceSide, ClientSide
      <3> HIDE DEF key, n
      <3>2. encrypt_.key = key
        BY <3>1
      <3> QED
        BY <3>1, <3>2, Zenon
    <2>2. sent = <<>> /\ Len(device_received) <= Len(sent)
      BY <1>4, <2>1, Zenon DEF Session, ClientSide, InOrder
    <2>3. device_received = <<>> /\ Len(sent) - Len(device_received) = 0
      BY <1>1, <2>2 DEF NoiseTypes
    <2>4. to_device = [j \in 1..(Len(sent) - Len(device_received)) |->
                          App(ToDeviceKey(device.conf), Len(device_received) + j - 1,
                              sent[Len(device_received) + j])]
      BY <1>2, <1>4, Zenon DEF Session, ClientSide
    <2>5. to_device = <<>>
      <3> DEFINE F(j) == App(ToDeviceKey(device.conf), Len(device_received) + j - 1,
                             sent[Len(device_received) + j])
      <3>1. to_device = [j \in 1..(Len(sent) - Len(device_received)) |-> F(j)]
        BY <2>4, Zenon
      <3> HIDE DEF F
      <3> QED
        BY <2>3, <3>1
    <2> QED
      BY <2>3, <2>5, Zenon
  <1> QED
    BY <1>2, <1>3, <1>4, ClearInd, Zenon

(* encode(), in every state. *)
LEMMA EncodeInd ==
  ASSUME NoiseInv, NEW m \in Messages, encode(m)
  PROVE  NoiseInv' /\ BothCarried
  BY SealInd, InTheClearInd, Zenon

(* The device meets the frame in the clear. *)
LEMMA HangsUpInd ==
  ASSUME NoiseInv, DeviceHangsUp
  PROVE  NoiseInv' /\ BothCarried
  <1>1. /\ clear = "sent" /\ clear' = "met"
        /\ UNCHANGED <<state_, handshake_, encrypt_, decrypt_, buffer_, consumed_, draining,
                       open, received, sent, to_device, device, bodies, wire, device_sent,
                       device_received>>
    BY Zenon DEF DeviceHangsUp, client_noise
  <1>2. clear # "none" /\ clear' \in {"none", "sent", "met"} /\ clear' # "none"
    BY <1>1
  <1>3. Session => to_device = <<>> /\ device_received = <<>>
    BY <1>2, Zenon DEF Session, ClientSide
  <1> QED
    BY <1>1, <1>2, <1>3, ClearInd, Zenon

(* The read ends with an error: the session does. *)
LEMMA ReadFailsInd ==
  ASSUME NoiseInv, read_fails
  PROVE  NoiseInv' /\ BothCarried
  <1>1. NoiseTypes /\ (Greeting \/ Session) /\ Accepted
    BY Zenon DEF NoiseInv
  <1>2. /\ open /\ ~open' /\ open' \in BOOLEAN /\ ~draining /\ ~draining'
        /\ UNCHANGED <<state_, buffer_, consumed_, draining, wire>> /\ UNCHANGED talk
    BY DEF read_fails, client_noise, talk
  <1>3. NoiseTypes'
    BY <1>1, <1>2, Zenon DEF NoiseTypes, talk
  <1>4. Greeting' \/ Session'
    BY <1>1, <1>2, TalkKeeps, Zenon
  <1>5. Accepted' /\ Aligned'
    BY <1>1, <1>2, Zenon DEF Accepted, Aligned, talk, hello_accepted
  <1>6. BothCarried
    BY <1>2, Zenon DEF BothCarried, Carried, talk
  <1> QED
    BY <1>3, <1>4, <1>5, <1>6, Zenon DEF NoiseInv

(* The device writes a frame: it comes behind the others. *)
LEMMA WriteInd ==
  ASSUME NoiseTypes, Greeting \/ Session, Aligned, open, device.conf.encrypted,
         NEW body, NEW n \in Nat, n < Base * Base, Writes(body, n),
         UNCHANGED <<state_, received, buffer_, consumed_, open, draining>>,
         device.conf' = device.conf
  PROVE  /\ Aligned' /\ buffer_' \in Seq(Bytes) /\ wire' \in Seq(Bytes)
         /\ consumed_' \in 0..Len(buffer_')
         /\ bodies' = Append(bodies, body) /\ Len(bodies') = Len(bodies) + 1
         /\ bodies' = [i \in 1..(Len(bodies) + 1) |->
                          IF i = Len(bodies) + 1 THEN body ELSE bodies[i]]
  <1> DEFINE l == Len(bodies)
             f == Framed(l + 1, n)
  <1>1. l \in Nat /\ bodies = [i \in 1..l |-> bodies[i]]
    BY BodiesAre, Zenon
  <1>2. bodies' = Append(bodies, body) /\ wire' = wire \o f
    BY Zenon DEF Writes
  <1>3. /\ Len(bodies') = l + 1
        /\ bodies' = [i \in 1..(l + 1) |-> IF i = l + 1 THEN body ELSE bodies[i]]
    <2> HIDE DEF l
    <2> QED
      BY <1>1, <1>2, Added
  <1>4. l + 1 \in Nat
    BY <1>1
  <1>5. f \in Seq(Bytes) /\ Len(f) = 3 + n /\ FrameAt(f, 1, l + 1, n)
    BY <1>4, FramedIs, Zenon
  <1> HIDE DEF f
  <1>6. /\ Pending' = Pending \o f /\ buffer_' \in Seq(Bytes) /\ wire' \in Seq(Bytes)
        /\ consumed_' \in 0..Len(buffer_')
    BY <1>2, <1>5, WriteAdds, Zenon
  <1>7. Aligned'
    <2> SUFFICES ASSUME state_ # "Failed" PROVE Laid(Pending', Expected, l + 1)
      BY <1>3, Zenon DEF Aligned, Expected
    <2>1. Laid(Pending, Expected, l)
      BY Zenon DEF Aligned
    <2>2. Expected \in Nat /\ Pending \in Seq(Bytes)
      BY PendingIs DEF Expected, NoiseTypes
    <2>3. Laid(Pending \o f, Expected, l + 1)
      BY <1>1, <1>5, <2>1, <2>2, LaidMore, Zenon
    <2> QED
      BY <1>6, <2>3, Zenon
  <1> QED
    BY <1>2, <1>3, <1>6, <1>7, Zenon

(* The device seals a message under its next nonce. *)
LEMMA DeviceSendsInd ==
  ASSUME NoiseInv, NEW m \in Messages, DeviceSends(m)
  PROVE  NoiseInv' /\ BothCarried
  <1> DEFINE d == device.conf
             key == ToClientKey(d)
             n == Len(device_sent)
             recv == [key |-> ToDeviceKey(d), nonce |-> Len(device_received)]
             ct == encrypt_with_ad(device.send, <<>>, Inner(m))
  <1>1. NoiseTypes /\ (Greeting \/ Session) /\ Accepted /\ Aligned
    BY Zenon DEF NoiseInv
  <1>2. /\ device.up /\ open /\ device' = [device EXCEPT !.send = ct.cipher]
        /\ Writes([kind |-> "app", ct |-> ct.out], SizeOf(m))
        /\ device_sent' = Append(device_sent, m)
        /\ UNCHANGED <<state_, handshake_, encrypt_, decrypt_, buffer_, consumed_, draining,
                       open, received, sent, clear, to_device, device_received>>
    BY Zenon DEF DeviceSends, client_noise
  <1>3. Session
    <2>1. ASSUME Greeting PROVE FALSE
      <3>1. device = NewDevice(d)
        BY <2>1, Zenon DEF Greeting
      <3>2. NewDevice(d).up = FALSE
        BY DEF NewDevice
      <3> QED
        BY <1>2, <3>1, <3>2, Zenon
    <2> QED
      BY <1>1, <2>1, Zenon
  <1>4. device_sent \in Seq(Messages) /\ n \in Nat
    BY <1>1 DEF NoiseTypes
  <1>5. /\ d.encrypted /\ Heard(d).ok /\ Len(bodies) = 2 + n
        /\ device = [conf |-> d, up |-> TRUE, hs |-> Reply(d).hs,
                     send |-> [key |-> key, nonce |-> n], recv |-> recv]
        /\ bodies = [i \in 1..Len(bodies) |->
                        IF i = 1 THEN Told(d) ELSE IF i = 2 THEN Agreed(d)
                        ELSE App(key, i - 3, device_sent[i - 2])]
    BY <1>3, Zenon DEF Session, DeviceSide
  <1>6. /\ ct.cipher = [key |-> key, nonce |-> n + 1]
        /\ [kind |-> "app", ct |-> ct.out] = App(key, n, m)
    <2> DEFINE out == [key |-> key, nonce |-> n, ad |-> <<>>, text |-> m]
               cipher == [key |-> key, nonce |-> n + 1]
    <2>1. key # NoKey /\ Inner(m) = m /\ device.send = [key |-> key, nonce |-> n]
      <3> DEFINE send == [key |-> key, nonce |-> n]
      <3>1. device.send = send
        <4> DEFINE c == d
                   h == Reply(d).hs
        <4>1. device = [conf |-> c, up |-> TRUE, hs |-> h, send |-> send, recv |-> recv]
          BY <1>5, Zenon
        <4> HIDE DEF send, recv, c, h
        <4> QED
          BY <4>1
      <3> QED
        BY <1>5, <3>1, KeysAgree, InnerIs, Zenon
    <2>2. ct = [out |-> out, cipher |-> cipher]
      BY <1>4, <2>1, EncryptIs
    <2> HIDE DEF ct, out, cipher
    <2>3. ct.out = out /\ ct.cipher = cipher
      BY <2>2
    <2> QED
      BY <2>3, Zenon DEF out, cipher, App
  <1>7. /\ device' = [conf |-> d, up |-> TRUE, hs |-> Reply(d).hs,
                      send |-> [key |-> key, nonce |-> n + 1], recv |-> recv]
        /\ device.conf' = d
    <2> DEFINE h == Reply(d).hs
               s == [key |-> key, nonce |-> n]
               c == d
               x == ct.cipher
               y == device
               z == device'
    <2>1. y = [conf |-> c, up |-> TRUE, hs |-> h, send |-> s, recv |-> recv]
      BY <1>5
    <2>2. z = [y EXCEPT !.send = x]
      BY <1>2
    <2> HIDE DEF h, s, x, y, z, c, recv
    <2>3. /\ z = [conf |-> c, up |-> TRUE, hs |-> h, send |-> x, recv |-> recv]
          /\ z.conf = c
      BY <2>1, <2>2
    <2> QED
      BY <1>6, <2>3, Zenon DEF h, x, z, c
  <1> HIDE DEF ct, recv
  <1>8. /\ Aligned' /\ buffer_' \in Seq(Bytes) /\ wire' \in Seq(Bytes)
        /\ consumed_' \in 0..Len(buffer_')
        /\ Len(bodies') = Len(bodies) + 1
        /\ bodies' = [i \in 1..(Len(bodies) + 1) |->
                         IF i = Len(bodies) + 1 THEN App(key, n, m) ELSE bodies[i]]
    <2>1. Writes(App(key, n, m), SizeOf(m))
      BY <1>2, <1>6, Zenon
    <2>2. SizeOf(m) \in Nat /\ SizeOf(m) < Base * Base
      BY InnerIs, Zenon
    <2> HIDE DEF key, n
    <2> QED
      BY <1>1, <1>2, <1>5, <1>7, <2>1, <2>2, WriteInd, Zenon
  <1>9. /\ device_sent' \in Seq(Messages) /\ Len(device_sent') = n + 1
        /\ device_sent'[n + 1] = m /\ \A i \in 1..n : device_sent'[i] = device_sent[i]
    BY <1>2, <1>4
  <1>10. NoiseTypes'
    BY <1>1, <1>2, <1>7, <1>8, <1>9, Zenon DEF NoiseTypes
  <1>11. DeviceSide'
    <2>1. Len(bodies') = 3 + n /\ Len(bodies') = 2 + Len(device_sent')
          /\ Len(bodies) + 1 = 3 + n
      BY <1>4, <1>5, <1>8, <1>9
    <2>2. ASSUME NEW i \in 1..(3 + n)
          PROVE  (IF i = 3 + n THEN App(key, n, m) ELSE bodies[i]) =
                     IF i = 1 THEN Told(d) ELSE IF i = 2 THEN Agreed(d)
                     ELSE App(key, i - 3, device_sent'[i - 2])
      <3>1. CASE i = 3 + n
        <4>1. i # 1 /\ i # 2 /\ i - 3 = n /\ i - 2 = n + 1
          BY <1>4, <3>1
        <4> QED
          BY <1>9, <3>1, <4>1, Zenon
      <3>2. CASE i # 3 + n
        <4>1. i \in 1..Len(bodies) /\ (i # 1 /\ i # 2 => i - 2 \in 1..n)
          BY <1>4, <2>1, <3>2
        <4>2. bodies[i] = IF i = 1 THEN Told(d) ELSE IF i = 2 THEN Agreed(d)
                          ELSE App(key, i - 3, device_sent[i - 2])
          BY <1>5, <4>1, Zenon
        <4>3. i # 1 /\ i # 2 => device_sent'[i - 2] = device_sent[i - 2]
          BY <1>9, <4>1, Zenon
        <4> HIDE DEF d, key, n
        <4>4. CASE i = 1
          BY <3>2, <4>2, <4>4, Zenon
        <4>5. CASE i # 1 /\ i = 2
          BY <3>2, <4>2, <4>5, Zenon
        <4>6. CASE i # 1 /\ i # 2
          BY <3>2, <4>2, <4>3, <4>6, Zenon
        <4> QED
          BY <4>4, <4>5, <4>6, Zenon
      <3> QED
        BY <3>1, <3>2, Zenon
    <2>3. bodies' = [i \in 1..(3 + n) |->
                        IF i = 1 THEN Told(d) ELSE IF i = 2 THEN Agreed(d)
                        ELSE App(key, i - 3, device_sent'[i - 2])]
      <3>1. bodies' = [i \in 1..(3 + n) |->
                          IF i = 3 + n THEN App(key, n, m) ELSE bodies[i]]
        BY <1>8, <2>1, Zenon
      <3> QED
        BY <2>2, <3>1, Zenon
    <2>4. device' = [conf |-> d, up |-> TRUE, hs |-> Reply(d).hs,
                     send |-> [key |-> key, nonce |-> Len(device_sent')],
                     recv |-> [key |-> ToDeviceKey(d), nonce |-> Len(device_received')]]
      BY <1>2, <1>7, <1>9, Zenon DEF recv
    <2> QED
      BY <1>5, <1>7, <2>1, <2>3, <2>4, Zenon DEF DeviceSide
  <1>12. ClientSide'
    BY <1>2, <1>3, <1>7, Zenon DEF Session, ClientSide
  <1>13. InOrder'
    <2>1. Len(received) \in Nat /\ Len(received) <= n
      BY <1>1, <1>3 DEF Session, InOrder, NoiseTypes
    <2>2. Len(received) <= n + 1 /\ \A i \in 1..Len(received) : i \in 1..n
      BY <1>4, <2>1
    <2>3. \A i \in 1..Len(received) : received[i] = device_sent'[i]
      BY <1>3, <1>9, <2>2, Zenon DEF Session, InOrder
    <2> QED
      BY <1>2, <1>3, <1>9, <2>2, <2>3, Zenon DEF Session, InOrder
  <1>14. Accepted'
    BY <1>1, <1>2, <1>7, Zenon DEF Accepted, hello_accepted, Told
  <1>15. BothCarried
    BY <1>2, Zenon DEF BothCarried, Carried
  <1> QED
    BY <1>8, <1>10, <1>11, <1>12, <1>13, <1>14, <1>15, Zenon DEF NoiseInv, Session

(* What every step of the device that reads a frame has in common. *)
LEMMA ReadsReached ==
  ASSUME NoiseInv, DeviceReads
  PROVE  /\ NoiseTypes /\ (Greeting \/ Session) /\ Accepted /\ Aligned
         /\ open /\ to_device # <<>> /\ to_device' = Tail(to_device)
         /\ UNCHANGED <<state_, handshake_, encrypt_, decrypt_, buffer_, consumed_, draining,
                        open, received, sent, clear, device_sent>>
  BY Zenon DEF NoiseInv, DeviceReads, client_noise

(* The device reads NOISE_HELLO and greets. *)
LEMMA HelloReadInd ==
  ASSUME NoiseInv, DeviceReads, Greeting, to_device = <<Hello, Shake>>, bodies = <<>>
  PROVE  NoiseInv' /\ BothCarried
  <1> DEFINE d == device.conf
  <1>1. /\ NoiseTypes /\ (Greeting \/ Session) /\ Accepted /\ Aligned
        /\ open /\ to_device # <<>> /\ to_device' = Tail(to_device)
        /\ UNCHANGED <<state_, handshake_, encrypt_, decrypt_, buffer_, consumed_, draining,
                       open, received, sent, clear, device_sent>>
    BY ReadsReached, Zenon
  <1>2. Head(to_device).kind = "hello" /\ to_device' = <<Shake>>
    <2> DEFINE s == Shake
    <2>1. to_device = <<Hello, s>>
      BY Zenon
    <2> HIDE DEF s
    <2>2. Head(to_device) = Hello /\ Tail(to_device) = <<s>>
      BY <2>1
    <2>3. Hello.kind = "hello"
      BY DEF Hello
    <2> QED
      BY <1>1, <2>2, <2>3, Zenon DEF s
  <1>3. DeviceSaysHello /\ UNCHANGED <<device, device_received>>
    <2>1. "hello" # "handshake" /\ "hello" # "app"
      OBVIOUS
    <2> QED
      BY <1>2, <2>1, Zenon DEF DeviceReads
  <1>4. handshake_ = Opening.hs
    BY <1>1, Zenon DEF Greeting, Before
  <1>5. Accepted'
    BY <1>1, <1>3, Zenon DEF Accepted, hello_accepted, Told
  <1>6. BothCarried
    BY <1>1, <1>3, Zenon DEF BothCarried, Carried
  <1>7. CASE d.encrypted
    <2>1. Writes(Told(d), d.hello)
      BY <1>3, <1>7, Zenon DEF DeviceSaysHello, Told
    <2>2. d.hello \in Nat /\ d.hello < Base * Base
      <3>1. d.hello \in 0..(Base * Base - 1) /\ Base \in Nat
        BY <1>1, NoiseAssumption DEF NoiseTypes
      <3>2. Base * Base \in Nat
        BY <3>1
      <3> DEFINE q == Base * Base
                 x == d.hello
      <3> HIDE DEF q, x
      <3>3. x \in 0..(q - 1) /\ q \in Nat
        BY <3>1, <3>2 DEF q, x
      <3>4. x \in Nat /\ x < q
        BY <3>3
      <3> QED
        BY <3>4 DEF q, x
    <2>3. /\ Aligned' /\ buffer_' \in Seq(Bytes) /\ wire' \in Seq(Bytes)
          /\ consumed_' \in 0..Len(buffer_') /\ bodies' = Append(bodies, Told(d))
      <3>1. device.conf' = device.conf
        BY <1>3, Zenon
      <3> QED
        BY <1>1, <1>7, <2>1, <2>2, <3>1, WriteInd, Zenon
    <2>4. bodies' = <<Told(d)>>
      <3> DEFINE t == Told(d)
      <3> HIDE DEF t
      <3>1. Append(<<>>, t) = <<t>>
        OBVIOUS
      <3> QED
        BY <2>3, <3>1 DEF t
    <2>5. NoiseTypes'
      BY <1>1, <1>3, <2>3, Zenon DEF NoiseTypes
    <2>6. Greeting'
      BY <1>1, <1>2, <1>3, <1>4, <2>4, Zenon DEF Greeting
    <2> QED
      BY <1>5, <1>6, <2>3, <2>5, <2>6, Zenon DEF NoiseInv
  <1>8. CASE ~d.encrypted
    <2> DEFINE z == [i \in 1..3 |-> [body |-> 0, at |-> 0]]
               u == Pending
    <2>1. wire' = wire \o z /\ bodies' = bodies
      BY <1>3, <1>8, Zenon DEF DeviceSaysHello
    <2>2. z \in Seq(Bytes) /\ Len(z) = 3 /\ \A i \in 1..3 : z[i].at = 0
      BY DEF Bytes
    <2>3. /\ Pending' = u \o z /\ buffer_' \in Seq(Bytes) /\ wire' \in Seq(Bytes)
          /\ consumed_' \in 0..Len(buffer_') /\ u \in Seq(Bytes)
      BY <1>1, <2>1, <2>2, WriteAdds, PendingIs
    <2> HIDE DEF z
    <2>4. Aligned'
      <3> SUFFICES ASSUME state_ # "Failed"
                   PROVE  /\ state_ = "ExpectServerHello"
                          /\ \A i \in DOMAIN Pending' : Pending'[i].at = 0
        BY <1>1, <1>3, <1>8, Zenon DEF Aligned
      <3>1. state_ = "ExpectServerHello" /\ \A i \in DOMAIN u : u[i].at = 0
        BY <1>1, <1>8, Zenon DEF Aligned
      <3> HIDE DEF u
      <3>2. \A i \in DOMAIN z : z[i].at = 0
        BY <2>2
      <3>3. \A i \in DOMAIN (u \o z) : (u \o z)[i].at = 0
        BY <2>2, <2>3, <3>1, <3>2, ZeroesJoin
      <3> QED
        BY <2>3, <3>1, <3>3
    <2>5. NoiseTypes'
      BY <1>1, <1>3, <2>3, Zenon DEF NoiseTypes
    <2>6. Greeting'
      BY <1>1, <1>2, <1>3, <1>4, <1>8, Zenon DEF Greeting
    <2> QED
      BY <1>5, <1>6, <2>4, <2>5, <2>6, Zenon DEF NoiseInv
  <1> QED
    BY <1>7, <1>8, Zenon

(* The device reads the handshake: it answers, or rejects a wrong key. *)
LEMMA ShakeReadInd ==
  ASSUME NoiseInv, DeviceReads, Greeting, to_device = <<Shake>>,
         device.conf.encrypted => bodies = <<Told(device.conf)>>
  PROVE  NoiseInv' /\ BothCarried
  <1> DEFINE d == device.conf
  <1>1. /\ NoiseTypes /\ (Greeting \/ Session) /\ Accepted /\ Aligned
        /\ open /\ to_device # <<>> /\ to_device' = Tail(to_device)
        /\ UNCHANGED <<state_, handshake_, encrypt_, decrypt_, buffer_, consumed_, draining,
                       open, received, sent, clear, device_sent>>
    BY ReadsReached, Zenon
  <1>2. /\ Head(to_device).kind = "handshake" /\ Head(to_device).msg = Opening.msg
        /\ to_device' = <<>>
    <2> DEFINE s == Shake
    <2>1. s.kind = "handshake" /\ s.msg = Opening.msg
      BY DEF Shake
    <2>2. to_device = <<s>>
      BY Zenon
    <2> HIDE DEF s
    <2>3. Head(to_device) = s /\ Tail(to_device) = <<>>
      BY <2>2
    <2> QED
      BY <1>1, <2>1, <2>3, Zenon
  <1>3. /\ UNCHANGED device_received
        /\ d.encrypted => DeviceShakesHands(Opening.msg)
        /\ ~d.encrypted => UNCHANGED <<device, bodies, wire>>
    <2>1. "hello" # "handshake" /\ "handshake" # "app"
      OBVIOUS
    <2> QED
      BY <1>2, <2>1, Zenon DEF DeviceReads
  <1>4. /\ device = NewDevice(d) /\ state_ # "Ready" /\ sent = <<>> /\ received = <<>>
        /\ device_sent = <<>> /\ device_received = <<>> /\ handshake_ = Opening.hs
    BY <1>1, Zenon DEF Greeting, Before
  <1>5. BothCarried
    BY <1>1, <1>3, Zenon DEF BothCarried, Carried
  <1>6. CASE ~d.encrypted
    <2>1. UNCHANGED <<device, bodies, wire>>
      BY <1>3, <1>6, Zenon
    <2>2. NoiseTypes' /\ Accepted'
      BY <1>1, <1>3, <2>1, Zenon DEF NoiseTypes, Accepted, hello_accepted, Told
    <2>3. Greeting'
      BY <1>1, <1>2, <1>3, <1>4, <1>6, <2>1, Zenon DEF Greeting
    <2>4. Aligned'
      BY <1>1, <2>1, Zenon DEF Aligned, Expected, Pending, compact
    <2> QED
      BY <1>5, <2>2, <2>3, <2>4, Zenon DEF NoiseInv
  <1>7. CASE d.encrypted
    <2>0. 2 \in Nat /\ 2 < Base * Base
      <3>1. Base \in Nat /\ Base > 1
        BY NoiseAssumption
      <3> QED
        BY <3>1
    <2>1. device.hs = initialize("Responder", d.psk)
      <3>1. NewDevice(d).hs = initialize("Responder", d.psk)
        BY DEF NewDevice
      <3> QED
        BY <1>4, <3>1, Zenon
    <2>2. read_message(device.hs, Opening.msg) = Heard(d)
      BY <2>1, Zenon DEF Heard
    <2>3. CASE ~Heard(d).ok
      <3>1. Writes(Rejected, 2) /\ UNCHANGED device
        BY <1>3, <1>7, <2>2, <2>3, Zenon DEF DeviceShakesHands, Rejected
      <3>2. /\ Aligned' /\ buffer_' \in Seq(Bytes) /\ wire' \in Seq(Bytes)
            /\ consumed_' \in 0..Len(buffer_') /\ bodies' = Append(bodies, Rejected)
        <4>1. device.conf' = device.conf
          BY <3>1, Zenon
        <4> QED
          BY <1>1, <1>7, <2>0, <3>1, <4>1, WriteInd, Zenon
      <3>3. bodies' = <<Told(d), Rejected>>
        <4> DEFINE t == Told(d)
                   r == Rejected
        <4> HIDE DEF t, r
        <4>1. Append(<<t>>, r) = <<t, r>>
          BY AddSecond
        <4> QED
          BY <1>7, <3>2, <4>1, Zenon DEF t, r
      <3>4. NoiseTypes' /\ Accepted'
        BY <1>1, <1>3, <3>1, <3>2, Zenon DEF NoiseTypes, Accepted, hello_accepted, Told
      <3>5. Greeting'
        BY <1>1, <1>2, <1>3, <1>4, <3>1, <3>3, Zenon DEF Greeting
      <3> QED
        BY <1>5, <3>2, <3>4, <3>5, Zenon DEF NoiseInv
    <2>4. CASE Heard(d).ok
      <3> DEFINE c == split(Reply(d).hs)
                 out == [key |-> ToClientKey(d), nonce |-> 0]
                 in == [key |-> ToDeviceKey(d), nonce |-> 0]
                 h == Reply(d).hs
      <3>1. /\ device' = [device EXCEPT !.up = TRUE, !.hs = h, !.send = c.send,
                              !.recv = c.recv]
            /\ Writes(Agreed(d), 2)
        BY <1>3, <1>7, <2>2, <2>4, Zenon DEF DeviceShakesHands, Reply, Agreed
      <3>2. c = [send |-> out, recv |-> in]
        BY <2>4, KeysAgree, Zenon
      <3>3. c.send = out /\ c.recv = in
        <4> HIDE DEF c, out, in
        <4> QED
          BY <3>2
      <3>4. device' = [conf |-> d, up |-> TRUE, hs |-> h, send |-> out, recv |-> in]
        <4> DEFINE e == d
                   hs0 == initialize("Responder", d.psk)
                   none == CipherState(NoKey)
                   z == device'
        <4>1. device = [conf |-> e, up |-> FALSE, hs |-> hs0, send |-> none, recv |-> none]
          BY <1>4, Zenon DEF NewDevice
        <4>2. z = [device EXCEPT !.up = TRUE, !.hs = h, !.send = out, !.recv = in]
          BY <3>1, <3>3, Zenon
        <4> HIDE DEF e, hs0, none, h, out, in, z
        <4>3. z \in [conf : {e}, up : {TRUE}, hs : {h}, send : {out}, recv : {in}]
          BY <4>1, <4>2
        <4>4. z = [conf |-> e, up |-> TRUE, hs |-> h, send |-> out, recv |-> in]
          BY <4>3
        <4> QED
          BY <4>4, Zenon DEF e, z
      <3>5. device.conf' = d
        <4> DEFINE e == d
                   z == device'
        <4>1. z = [conf |-> e, up |-> TRUE, hs |-> h, send |-> out, recv |-> in]
          BY <3>4, Zenon
        <4> HIDE DEF e, h, out, in, z
        <4>2. z.conf = e
          BY <4>1
        <4> QED
          BY <4>2, Zenon DEF e, z
      <3> HIDE DEF c
      <3>6. /\ Aligned' /\ buffer_' \in Seq(Bytes) /\ wire' \in Seq(Bytes)
            /\ consumed_' \in 0..Len(buffer_') /\ bodies' = Append(bodies, Agreed(d))
        BY <1>1, <1>7, <2>0, <3>1, <3>5, WriteInd, Zenon
      <3>7. bodies' = <<Told(d), Agreed(d)>>
        <4> DEFINE t == Told(d)
                   r == Agreed(d)
        <4> HIDE DEF t, r
        <4>1. Append(<<t>>, r) = <<t, r>>
          BY AddSecond
        <4> QED
          BY <1>7, <3>6, <4>1, Zenon DEF t, r
      <3>8. NoiseTypes' /\ Accepted'
        BY <1>1, <1>3, <3>5, <3>6, Zenon DEF NoiseTypes, Accepted, hello_accepted, Told
      <3>9. /\ Len(sent') = 0 /\ Len(received') = 0 /\ Len(device_sent') = 0
            /\ Len(device_received') = 0
        BY <1>1, <1>3, <1>4
      <3>10. DeviceSide'
        <4> DEFINE t == Told(d)
                   r == Agreed(d)
                   g == [i \in 1..2 |-> IF i = 1 THEN t ELSE IF i = 2 THEN r
                                        ELSE App(ToClientKey(d), i - 3, device_sent'[i - 2])]
        <4>1. Len(bodies') = 2 /\ bodies' = g
          <5>1. bodies' = <<t, r>>
            BY <3>7
          <5> HIDE DEF t, r
          <5>2. Len(bodies') = 2
            BY <5>1
          <5>3. bodies' = [i \in 1..2 |-> IF i = 1 THEN t ELSE r]
            BY <5>1
          <5>4. \A i \in 1..2 : i = 1 \/ i = 2
            OBVIOUS
          <5> QED
            BY <5>2, <5>3, <5>4, Zenon
        <4>2. Len(bodies') = 2 + Len(device_sent')
          BY <3>9, <4>1
        <4> QED
          BY <1>7, <2>4, <3>4, <3>5, <3>9, <4>1, <4>2, Zenon DEF DeviceSide
      <3>11. ClientSide'
        <4>1. Len(sent') - Len(device_received') = 0
          BY <3>9
        <4>2. to_device' = [j \in 1..0 |->
                              App(ToDeviceKey(d), Len(device_received') + j - 1,
                                  sent'[Len(device_received') + j])]
          BY <1>2
        <4> QED
          <5>1. /\ state_' # "Ready" /\ handshake_' = Opening.hs /\ sent' = <<>>
                /\ received' = <<>>
            BY <1>1, <1>4, Zenon
          <5>2. to_device' = [j \in 1..(Len(sent') - Len(device_received')) |->
                                App(ToDeviceKey(device.conf'), Len(device_received') + j - 1,
                                    sent'[Len(device_received') + j])]
            BY <3>5, <4>1, <4>2, Zenon
          <5> QED
            BY <1>2, <1>3, <1>4, <5>1, <5>2, Zenon DEF ClientSide
      <3>12. InOrder'
        BY <3>9 DEF InOrder
      <3> QED
        BY <1>5, <3>6, <3>8, <3>10, <3>11, <3>12, Zenon DEF NoiseInv, Session
    <2> QED
      BY <2>3, <2>4, Zenon
  <1> QED
    BY <1>6, <1>7, Zenon

(* The device opens a message of the client. *)
LEMMA AppReadInd ==
  ASSUME NoiseInv, DeviceReads, Session
  PROVE  NoiseInv' /\ BothCarried
  <1> DEFINE d == device.conf
             key == ToDeviceKey(d)
             k == Len(device_received)
             t == Len(sent) - k
             g == [j \in 1..t |-> App(key, k + j - 1, sent[k + j])]
             m == sent[k + 1]
             ct == [key |-> key, nonce |-> k, ad |-> <<>>, text |-> m]
             f == Head(to_device)
             pt == decrypt_with_ad(device.recv, <<>>, f.ct)
             send == [key |-> ToClientKey(d), nonce |-> Len(device_sent)]
  <1>1. /\ NoiseTypes /\ (Greeting \/ Session) /\ Accepted /\ Aligned
        /\ open /\ to_device # <<>> /\ to_device' = Tail(to_device)
        /\ UNCHANGED <<state_, handshake_, encrypt_, decrypt_, buffer_, consumed_, draining,
                       open, received, sent, clear, device_sent>>
    BY ReadsReached, Zenon
  <1>2. clear = "none" /\ to_device = g /\ k <= Len(sent)
    BY <1>1, Zenon DEF Session, ClientSide, InOrder
  <1>3. /\ sent \in Seq(Messages) /\ device_received \in Seq(Messages) /\ k \in Nat
        /\ Len(sent) \in Nat /\ t \in Nat
    <2>1. sent \in Seq(Messages) /\ device_received \in Seq(Messages)
      BY <1>1, Zenon DEF NoiseTypes
    <2> QED
      BY <1>2, <2>1
  <1>4. /\ t > 0 /\ f = g[1] /\ Tail(g) = [j \in 1..(t - 1) |-> g[j + 1]]
    <2>1. g = [j \in 1..t |-> g[j]] /\ g # <<>>
      BY <1>1, <1>2, Zenon
    <2>2. f = Head(g)
      BY <1>2, Zenon
    <2>3. t \in Nat
      BY <1>3
    <2> HIDE DEF g, f, t
    <2> QED
      BY <2>1, <2>2, <2>3, Removed
  <1>5. /\ 1 \in 1..t /\ k + 1 - 1 = k /\ k < Len(sent) /\ k + 1 \in 1..Len(sent)
        /\ k + 1 <= Len(sent) /\ Len(sent) - (k + 1) = t - 1
    BY <1>3, <1>4
  <1>6. f = [kind |-> "app", ct |-> ct]
    BY <1>4, <1>5, Zenon DEF App
  <1>7. f.kind = "app" /\ f.ct = ct
    <2> HIDE DEF f, ct
    <2> QED
      BY <1>6
  <1>8. /\ pt.ok /\ device' = [device EXCEPT !.recv = pt.cipher]
        /\ device_received' = Append(device_received, f.ct.text)
        /\ UNCHANGED <<bodies, wire>>
    <2>1. "hello" # "app" /\ "handshake" # "app"
      OBVIOUS
    <2> QED
      BY <1>7, <2>1, Zenon DEF DeviceReads
  <1>9. device_received' = Append(device_received, m)
    <2>1. ct.text = m
      <3> HIDE DEF m, key, k
      <3> QED
        OBVIOUS
    <2> QED
      BY <1>7, <1>8, <2>1, Zenon
  <1>10. /\ d.encrypted /\ Heard(d).ok
         /\ device = [conf |-> d, up |-> TRUE, hs |-> Reply(d).hs, send |-> send,
                      recv |-> [key |-> key, nonce |-> k]]
    BY Zenon DEF Session, DeviceSide
  <1>11. device.recv = [key |-> key, nonce |-> k]
    <2> DEFINE e == d
               h == Reply(d).hs
               r == [key |-> key, nonce |-> k]
    <2>1. device = [conf |-> e, up |-> TRUE, hs |-> h, send |-> send, recv |-> r]
      BY <1>10, Zenon
    <2> HIDE DEF e, h, r, send
    <2>2. device.recv = r
      BY <2>1
    <2> QED
      BY <2>2, Zenon DEF r
  <1>12. pt.cipher = [key |-> key, nonce |-> k + 1]
    <2>1. key # NoKey
      BY <1>10, KeysAgree, Zenon
    <2> DEFINE r == device.recv
    <2> HIDE DEF r, key, k, ct
    <2>2. r = [key |-> key, nonce |-> k] /\ r.key # NoKey
      BY <1>11, <2>1 DEF r
    <2>3. pt = decrypt_with_ad(r, <<>>, ct)
      BY <1>7, Zenon DEF r
    <2>4. aead_decrypt(r, <<>>, ct)
      BY <1>8, <2>2, <2>3 DEF decrypt_with_ad
    <2>5. pt.cipher = [r EXCEPT !.nonce = @ + 1]
      BY <2>2, <2>3, <2>4 DEF decrypt_with_ad
    <2>6. [r EXCEPT !.nonce = @ + 1] = [key |-> key, nonce |-> k + 1]
      BY <2>2
    <2> QED
      BY <2>5, <2>6, Zenon
  <1>13. /\ device' = [conf |-> d, up |-> TRUE, hs |-> Reply(d).hs, send |-> send,
                       recv |-> [key |-> key, nonce |-> k + 1]]
         /\ device.conf' = d
    <2> DEFINE h == Reply(d).hs
               r == [key |-> key, nonce |-> k]
               e == d
               x == pt.cipher
               y == device
               z == device'
    <2>1. y = [conf |-> e, up |-> TRUE, hs |-> h, send |-> send, recv |-> r]
      BY <1>10
    <2>2. z = [y EXCEPT !.recv = x]
      BY <1>8
    <2> HIDE DEF h, r, x, y, z, e, send
    <2>3. /\ z = [conf |-> e, up |-> TRUE, hs |-> h, send |-> send, recv |-> x]
          /\ z.conf = e
      BY <2>1, <2>2
    <2> QED
      BY <1>12, <2>3, Zenon DEF h, x, z, e
  <1> HIDE DEF pt, f, send
  <1>14. /\ m \in Messages /\ device_received' \in Seq(Messages)
         /\ Len(device_received') = k + 1 /\ device_received'[k + 1] = m
         /\ \A j \in 1..k : device_received'[j] = device_received[j]
    <2>1. m \in Messages
      BY <1>3, <1>5
    <2> HIDE DEF m
    <2> QED
      BY <1>3, <1>9, <2>1
  <1>15. NoiseTypes' /\ Accepted'
    BY <1>1, <1>8, <1>13, <1>14, Zenon DEF NoiseTypes, Accepted, hello_accepted, Told
  <1>16. Aligned'
    BY <1>1, <1>8, <1>13, Zenon DEF Aligned, Expected, Pending, compact
  <1>17. DeviceSide'
    <2>1. /\ Len(bodies) = 2 + Len(device_sent)
          /\ bodies = [i \in 1..Len(bodies) |->
                          IF i = 1 THEN Told(d) ELSE IF i = 2 THEN Agreed(d)
                          ELSE App(ToClientKey(d), i - 3, device_sent[i - 2])]
      BY Zenon DEF Session, DeviceSide
    <2>2. device' = [conf |-> d, up |-> TRUE, hs |-> Reply(d).hs,
                     send |-> [key |-> ToClientKey(d), nonce |-> Len(device_sent')],
                     recv |-> [key |-> ToDeviceKey(d), nonce |-> Len(device_received')]]
      BY <1>1, <1>13, <1>14, Zenon DEF send
    <2> QED
      BY <1>1, <1>8, <1>10, <1>13, <2>1, <2>2, Zenon DEF DeviceSide
  <1>18. ClientSide'
    <2>1. ASSUME NEW j \in 1..(t - 1)
          PROVE  g[j + 1] = App(key, (k + 1) + j - 1, sent[(k + 1) + j])
      <3>1. /\ j + 1 \in 1..t /\ k + (j + 1) - 1 = (k + 1) + j - 1
            /\ k + (j + 1) = (k + 1) + j
        BY <1>3
      <3>2. g[j + 1] = App(key, k + (j + 1) - 1, sent[k + (j + 1)])
        BY <3>1, Zenon
      <3> QED
        BY <3>1, <3>2, Zenon
    <2>2. to_device' = [j \in 1..(t - 1) |-> App(key, (k + 1) + j - 1, sent[(k + 1) + j])]
      BY <1>1, <1>2, <1>4, <2>1, Zenon
    <2>3. /\ Len(sent') - Len(device_received') = t - 1 /\ Len(device_received') = k + 1
          /\ sent' = sent /\ device.conf' = d
      BY <1>1, <1>5, <1>13, <1>14, Zenon
    <2>4. to_device' = [j \in 1..(Len(sent') - Len(device_received')) |->
                           App(ToDeviceKey(device.conf'), Len(device_received') + j - 1,
                               sent'[Len(device_received') + j])]
      BY <2>2, <2>3, Zenon
    <2> QED
      BY <1>1, <1>2, <1>13, <2>4, Zenon DEF Session, ClientSide
  <1>19. InOrder'
    <2>1. \A j \in 1..k : device_received[j] = sent[j]
      BY Zenon DEF Session, InOrder
    <2>2. \A j \in 1..(k + 1) : device_received'[j] = sent[j]
      <3>1. \A j \in 1..(k + 1) : j \in 1..k \/ j = k + 1
        BY <1>3
      <3> QED
        BY <1>14, <2>1, <3>1, Zenon
    <2> QED
      BY <1>1, <1>5, <1>14, <2>2, Zenon DEF Session, InOrder
  <1>20. BothCarried
    BY <1>1, <1>5, <1>9, Zenon DEF BothCarried, Carried
  <1> QED
    BY <1>15, <1>16, <1>17, <1>18, <1>19, <1>20, Zenon DEF NoiseInv, Session

(* The device reads a frame, whatever it is. *)
LEMMA DeviceReadsInd ==
  ASSUME NoiseInv, DeviceReads
  PROVE  NoiseInv' /\ BothCarried
  <1>1. (Greeting \/ Session) /\ open /\ to_device # <<>>
    BY ReadsReached, Zenon
  <1>2. ASSUME Greeting
        PROVE  \/ to_device = <<Hello, Shake>> /\ bodies = <<>>
               \/ to_device = <<Shake>>
                  /\ (device.conf.encrypted => bodies = <<Told(device.conf)>>)
    BY <1>1, <1>2, Zenon DEF Greeting, Before
  <1> QED
    BY <1>1, <1>2, HelloReadInd, ShakeReadInd, AppReadInd, Zenon

(* Every step keeps the invariant, and carries messages as a channel does. *)
LEMMA NoiseStep ==
  ASSUME NoiseInv, [NoiseNext]_noise_vars
  PROVE  NoiseInv' /\ BothCarried
  <1>1. CASE UNCHANGED noise_vars
    <2>1. UNCHANGED <<state_, buffer_, consumed_, draining, open, wire>> /\ UNCHANGED talk
      BY <1>1, Zenon DEF noise_vars, client_noise, talk
    <2>2. NoiseTypes' /\ Accepted' /\ Aligned'
      BY <2>1, Zenon DEF NoiseInv, NoiseTypes, Accepted, Aligned, talk, hello_accepted, Told,
                         Expected, Pending, compact
    <2>3. Greeting' \/ Session'
      BY <2>1, Zenon DEF NoiseInv, Greeting, Before, Session, DeviceSide, ClientSide, InOrder,
                         talk
    <2>4. BothCarried
      BY <2>1, Zenon DEF BothCarried, Carried, talk
    <2> QED
      BY <2>2, <2>3, <2>4, Zenon DEF NoiseInv
  <1>2. CASE NoiseNext
    BY <1>2, ConnectInd, NeedsMoreInd, ThrowsInd, FrameInd, DeviceReadsInd, FeedInd,
       EncodeInd, DeviceSendsInd, HangsUpInd, ReadFailsInd, Zenon DEF NoiseNext
  <1> QED
    BY <1>1, <1>2, Zenon

(* One direction, as a channel whose messages in transit are those sent and not    *)
(* yet received.                                                                   *)
LEMMA CarriedIsChannel ==
  ASSUME NEW s \in Seq(Messages), NEW r \in Seq(Messages), Len(r) <= Len(s),
         NEW s1, NEW r1, Carried(s, r, s1, r1)
  PROVE  \/ Rest(s1, Len(r1)) = Rest(s, Len(r)) /\ r1 = r
         \/ /\ r1 = r
            /\ \E m \in Messages : Rest(s1, Len(r1)) = Append(Rest(s, Len(r)), m)
         \/ /\ Rest(s, Len(r)) # <<>> /\ r1 = Append(r, Head(Rest(s, Len(r))))
            /\ Rest(s1, Len(r1)) = Tail(Rest(s, Len(r)))
  <1>1. Len(r) \in 0..Len(s)
    OBVIOUS
  <1>2. CASE s1 = s /\ r1 = r
    BY <1>2, Zenon
  <1>3. ASSUME r1 = r, NEW m \in Messages, s1 = Append(s, m)
        PROVE  Rest(s1, Len(r1)) = Append(Rest(s, Len(r)), m)
    <2>1. \A x \in Messages : Rest(Append(s, x), Len(r)) = Append(Rest(s, Len(r)), x)
      <3> DEFINE k == Len(r)
      <3>1. k \in 0..Len(s)
        BY <1>1
      <3> HIDE DEF k
      <3>2. \A x \in Messages : Rest(Append(s, x), k) = Append(Rest(s, k), x)
        BY <3>1, RestTwice
      <3> QED
        BY <3>2, Zenon DEF k
    <2> QED
      BY <1>3, <2>1, Zenon
  <1>4. CASE s1 = s /\ Len(r) < Len(s) /\ r1 = Append(r, s[Len(r) + 1])
    <2>1. /\ Rest(s, Len(r)) # <<>> /\ Head(Rest(s, Len(r))) = s[Len(r) + 1]
          /\ Tail(Rest(s, Len(r))) = Rest(s, Len(r) + 1)
      BY <1>1, <1>4, RestTwice, Zenon
    <2>2. Len(r1) = Len(r) + 1
      BY <1>4
    <2> QED
      BY <1>4, <2>1, <2>2, Zenon
  <1> QED
    BY <1>2, <1>3, <1>4, Zenon DEF Carried

(* Nothing was received that was not sent. *)
LEMMA NoneInvented ==
  ASSUME NoiseInv
  PROVE  Len(received) <= Len(device_sent) /\ Len(device_received) <= Len(sent)
  <1>1. CASE Session
    BY <1>1, Zenon DEF Session, InOrder
  <1>2. CASE Greeting
    <2>1. /\ sent = <<>> /\ received = <<>> /\ device_sent = <<>> /\ device_received = <<>>
      BY <1>2, Zenon DEF Greeting
    <2> QED
      BY <2>1
  <1> QED
    BY <1>1, <1>2, Zenon DEF NoiseInv

(* A step of the session is a step of the channel to the client or none, *)
LEMMA ToClientStep ==
  ASSUME NoiseInv, BothCarried
  PROVE  [ToClient!ChannelNext]_<<SubSeq(device_sent, Len(received) + 1, Len(device_sent)),
                                  received>>
  <1> DEFINE i == Rest(device_sent, Len(received))
             i1 == Rest(device_sent', Len(received'))
  <1>1. /\ device_sent \in Seq(Messages) /\ received \in Seq(Messages)
        /\ Carried(device_sent, received, device_sent', received')
    BY Zenon DEF NoiseInv, NoiseTypes, BothCarried
  <1>2. \/ i1 = i /\ received' = received
        \/ received' = received /\ \E m \in Messages : i1 = Append(i, m)
        \/ i # <<>> /\ received' = Append(received, Head(i)) /\ i1 = Tail(i)
    BY <1>1, NoneInvented, CarriedIsChannel, Zenon
  <1> QED
    BY <1>2, Zenon DEF ToClient!ChannelNext, ToClient!ChannelDeliver, ToClient!ChannelSend, Rest

(* and of the channel to the device or none. *)
LEMMA ToDeviceStep ==
  ASSUME NoiseInv, BothCarried
  PROVE  [ToDevice!ChannelNext]_<<SubSeq(sent, Len(device_received) + 1, Len(sent)),
                                  device_received>>
  <1> DEFINE i == Rest(sent, Len(device_received))
             i1 == Rest(sent', Len(device_received'))
  <1>1. /\ sent \in Seq(Messages) /\ device_received \in Seq(Messages)
        /\ Carried(sent, device_received, sent', device_received')
    BY Zenon DEF NoiseInv, NoiseTypes, BothCarried
  <1>2. \/ i1 = i /\ device_received' = device_received
        \/ device_received' = device_received /\ \E m \in Messages : i1 = Append(i, m)
        \/ i # <<>> /\ device_received' = Append(device_received, Head(i)) /\ i1 = Tail(i)
    BY <1>1, NoneInvented, CarriedIsChannel, Zenon
  <1> QED
    BY <1>2, Zenon DEF ToDevice!ChannelNext, ToDevice!ChannelDeliver, ToDevice!ChannelSend, Rest

-----------------------------------------------------------------------------
(* The results *)

(* The unread bytes stay whole frames, the bodies stay in order under one nonce   *)
(* each, and the keys of both sides stay the same (noise_frame_helper.cpp).       *)
THEOREM NoiseInvariance == NoiseSpec => []NoiseInv
  <1>1. NoiseInit => NoiseInv
    BY NoiseInitInd
  <1>2. NoiseInv /\ [NoiseNext]_noise_vars => NoiseInv'
    BY NoiseStep
  <1> QED
    BY <1>1, <1>2, PTL DEF NoiseSpec

(* A session is ready only with a device that knows the key and has the name      *)
(* asked for, and each side decrypts with what the other encrypts with.           *)
THEOREM ReadyMeansAgreedHolds == NoiseSpec => []ReadyMeansAgreed
  <1>1. NoiseInv => ReadyMeansAgreed
    <2> SUFFICES ASSUME NoiseInv, state_ = "Ready" PROVE ReadyMeansAgreed
      BY Zenon DEF ReadyMeansAgreed
    <2> DEFINE d == device.conf
    <2>1. Session /\ hello_accepted(Told(d))
      BY Zenon DEF NoiseInv, Greeting, Accepted
    <2>2. ExpectedName # "" => d.name = ExpectedName
      <3>1. Told(d).name = d.name
        BY DEF Told
      <3> QED
        BY <2>1, <3>1, Zenon DEF hello_accepted
    <2>3. /\ Heard(d).ok
          /\ device = [conf |-> d, up |-> TRUE, hs |-> Reply(d).hs,
                       send |-> [key |-> ToClientKey(d), nonce |-> Len(device_sent)],
                       recv |-> [key |-> ToDeviceKey(d), nonce |-> Len(device_received)]]
          /\ encrypt_ = [key |-> ToDeviceKey(d), nonce |-> Len(sent)]
          /\ decrypt_ = [key |-> ToClientKey(d), nonce |-> Len(received)]
      BY <2>1, Zenon DEF Session, DeviceSide, ClientSide
    <2>4. /\ d.psk = PskOfClient /\ ToClientKey(d) # ToDeviceKey(d)
          /\ ToClientKey(d) # NoKey /\ ToDeviceKey(d) # NoKey
      BY <2>3, KeysAgree, Zenon
    <2>5. /\ encrypt_.key = ToDeviceKey(d) /\ decrypt_.key = ToClientKey(d)
          /\ device.recv.key = ToDeviceKey(d) /\ device.send.key = ToClientKey(d)
      <3> DEFINE a == ToClientKey(d)
                 b == ToDeviceKey(d)
                 c == d
                 h == Reply(d).hs
      <3>1. /\ device = [conf |-> c, up |-> TRUE, hs |-> h,
                         send |-> [key |-> a, nonce |-> Len(device_sent)],
                         recv |-> [key |-> b, nonce |-> Len(device_received)]]
            /\ encrypt_ = [key |-> b, nonce |-> Len(sent)]
            /\ decrypt_ = [key |-> a, nonce |-> Len(received)]
        BY <2>3, Zenon
      <3> HIDE DEF a, b, c, h
      <3>2. encrypt_.key = b /\ decrypt_.key = a /\ device.recv.key = b /\ device.send.key = a
        BY <3>1
      <3> QED
        BY <3>2, Zenon DEF a, b
    <2> QED
      BY <2>2, <2>4, <2>5, Zenon DEF ReadyMeansAgreed
  <1> QED
    BY <1>1, NoiseInvariance, PTL

(* Both directions are reliable channels: every message arrives once, in order     *)
(* and with its own type and length, for every chunking of the bytes.              *)
THEOREM NoiseChannels == NoiseSpec => NoiseImplementsChannel
  <1>1. NoiseInit => NoiseInv /\ ToClient!ChannelInit /\ ToDevice!ChannelInit
    <2> SUFFICES ASSUME NoiseInit PROVE ToClient!ChannelInit /\ ToDevice!ChannelInit
      BY NoiseInitInd
    <2>1. /\ sent = <<>> /\ received = <<>> /\ device_sent = <<>> /\ device_received = <<>>
      BY Zenon DEF NoiseInit
    <2>2. SubSeq(<<>>, Len(<<>>) + 1, Len(<<>>)) = <<>>
      OBVIOUS
    <2> QED
      BY <2>1, <2>2, Zenon DEF ToClient!ChannelInit, ToDevice!ChannelInit
  <1>2. NoiseInv /\ [NoiseNext]_noise_vars =>
          /\ NoiseInv'
          /\ [ToClient!ChannelNext]_<<SubSeq(device_sent, Len(received) + 1, Len(device_sent)),
                                      received>>
          /\ [ToDevice!ChannelNext]_<<SubSeq(sent, Len(device_received) + 1, Len(sent)),
                                      device_received>>
    BY NoiseStep, ToClientStep, ToDeviceStep, Zenon
  <1> QED
    BY <1>1, <1>2, PTL DEF NoiseSpec, NoiseImplementsChannel, ToClient!ChannelSpec,
                           ToDevice!ChannelSpec
=============================================================================
