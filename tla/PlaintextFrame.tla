--------------------------- MODULE PlaintextFrame ---------------------------
(***************************************************************************)
(* PlaintextFrameHelper (src/frame/plaintext_frame_helper.cpp) with the     *)
(* varint codec of src/bytes.cpp: frames [0x00][length][type][payload] are  *)
(* encoded, and taken apart again from a byte stream that arrives in chunks *)
(* of any size.  drain_frames() of the connection feeds a chunk and calls   *)
(* next() until it has no more; the loop also ends after a frame that       *)
(* closes the session, which leaves that frame in the buffer as consumed.   *)
(***************************************************************************)
EXTENDS Integers, Sequences, SequencesExt, FiniteSets, FiniteSetsExt

CONSTANT MaxFramePayload   \* max_frame_payload, 16 MiB in the code

ASSUME MaxFramePayloadAssumption == MaxFramePayload \in Nat

VARIABLES
    buffer,    \* buffer_
    consumed,  \* consumed_: the bytes of buffer that the last frame took up
    status,    \* what feed() and next() did last
    frames,    \* the frames next() has returned
    fed        \* all bytes fed so far

frame_vars == <<buffer, consumed, status, frames, fed>>

Byte == 0..255
varint_budget == 4
indicator == 0
noise_indicator == 1

From(s, n) == SubSeq(s, n, Len(s))

-----------------------------------------------------------------------------
(* The varint codec. *)

varint_size(value) == Cardinality({i \in 0..4 : i = 0 \/ value >= 128^i})

append_varint(value) ==
    LET n == varint_size(value)
    IN  [i \in 1..n |-> ((value \div 128^(i - 1)) % 128) + (IF i < n THEN 128 ELSE 0)]

(* The value of the first n bytes, at most varint_budget: seven bits each. *)
varint_value(data, n) ==
    LET bits(i) == IF i <= n THEN data[i] % 128 ELSE 0
    IN  bits(1) + 128 * bits(2) + 16384 * bits(3) + 2097152 * bits(4)

(* Bug variant of decode_varint: running out of input is reported before the *)
(* budget is looked at.                                                      *)
decode_varint_patient(data) ==
    LET last == {i \in 1..Len(data) : i <= varint_budget /\ data[i] < 128}
    IN  IF last = {}
        THEN [status |-> IF Len(data) > varint_budget THEN "Overflow" ELSE "Incomplete",
              value |-> 0, consumed |-> 0]
        ELSE [status |-> "Ok", value |-> varint_value(data, Min(last)),
              consumed |-> Min(last)]

(* A value of varint_budget bytes has 28 bits, so the test against 2^32 - 1  *)
(* never fails here.                                                         *)
decode_varint(data) ==
    LET last == {i \in 1..Len(data) : i <= varint_budget /\ data[i] < 128}
    IN  IF last = {}
        THEN [status |-> IF Len(data) >= varint_budget THEN "Overflow" ELSE "Incomplete",
              value |-> 0, consumed |-> 0]
        ELSE [status |-> "Ok", value |-> varint_value(data, Min(last)),
              consumed |-> Min(last)]

-----------------------------------------------------------------------------
(* The frame codec. *)

(* Bug variant of encode: the message type is cast to a byte. *)
encode_byte_type(msg_type, payload) ==
    <<indicator>> \o append_varint(Len(payload)) \o append_varint(msg_type % 256) \o payload

encode(msg_type, payload) ==
    <<indicator>> \o append_varint(Len(payload)) \o append_varint(msg_type) \o payload

Result(st) == [status |-> st, type |-> 0, payload |-> <<>>, consumed |-> 0]

(* Bug variant of take_payload: waits for a byte behind the frame. *)
take_payload_late(b, cursor, payload_len, msg_type) ==
    CASE payload_len > MaxFramePayload -> Result("ProtocolError")
      [] payload_len <= MaxFramePayload /\ Len(b) - cursor <= payload_len -> Result("NeedMore")
      [] OTHER -> [status |-> "Ok", type |-> msg_type,
                   payload |-> SubSeq(b, cursor + 1, cursor + payload_len),
                   consumed |-> cursor + payload_len]

(* The body of a frame whose header takes up the first cursor bytes of b. *)
take_payload(b, cursor, payload_len, msg_type) ==
    CASE payload_len > MaxFramePayload -> Result("ProtocolError")
      [] payload_len <= MaxFramePayload /\ Len(b) - cursor < payload_len -> Result("NeedMore")
      [] OTHER -> [status |-> "Ok", type |-> msg_type,
                   payload |-> SubSeq(b, cursor + 1, cursor + payload_len),
                   consumed |-> cursor + payload_len]

parse(b) ==
    LET len == decode_varint(From(b, 2))
        typ == decode_varint(From(b, 2 + len.consumed))
        Stop(st) == Result(IF st = "Incomplete" THEN "NeedMore" ELSE "ProtocolError")
    IN  CASE b = <<>> -> Result("NeedMore")
          [] b # <<>> /\ b[1] = noise_indicator -> Result("EncryptionMismatchError")
          [] b # <<>> /\ b[1] \notin {indicator, noise_indicator} -> Result("ProtocolError")
          [] b # <<>> /\ b[1] = indicator ->
                CASE len.status # "Ok" -> Stop(len.status)
                  [] len.status = "Ok" /\ typ.status # "Ok" -> Stop(typ.status)
                  [] OTHER -> take_payload(b, 1 + len.consumed + typ.consumed,
                                           len.value, typ.value)

compact == From(buffer, consumed + 1)

-----------------------------------------------------------------------------
FrameInit ==
    /\ buffer = <<>> /\ consumed = 0
    /\ status = "NeedMore"
    /\ frames = <<>> /\ fed = <<>>

(* Bug variant of feed: the chunk goes in front of what is buffered. *)
feed_prepends(data) ==
    /\ status # "draining"
    /\ buffer' = data \o buffer
    /\ fed' = fed \o data
    /\ status' = "draining"
    /\ UNCHANGED <<consumed, frames>>

(* Bug variant of feed: the consumed frame is forgotten before it is dropped. *)
feed_resets(data) ==
    /\ status # "draining"
    /\ buffer' = buffer \o data
    /\ consumed' = 0
    /\ fed' = fed \o data
    /\ status' = "draining"
    /\ UNCHANGED frames

feed(data) ==
    /\ status # "draining"
    /\ buffer' = buffer \o data
    /\ fed' = fed \o data
    /\ status' = "draining"
    /\ UNCHANGED <<consumed, frames>>

next ==
    /\ status = "draining"
    /\ buffer' = compact
    /\ \E r \in {parse(buffer')} :
          /\ consumed' = r.consumed
          /\ status' = IF r.status = "Ok" THEN "draining" ELSE r.status
          /\ frames' = IF r.status = "Ok"
                       THEN Append(frames, [type |-> r.type, payload |-> r.payload])
                       ELSE frames
    /\ UNCHANGED fed

(* The frame just returned ended the session: drain_frames() returns. *)
drain_stop ==
    /\ status = "draining" /\ consumed > 0
    /\ status' = "stopped"
    /\ UNCHANGED <<buffer, consumed, frames, fed>>

FrameNext == next \/ drain_stop \/ \E data \in Seq(Byte) : feed(data)

FrameSpec == FrameInit /\ [][FrameNext]_frame_vars

-----------------------------------------------------------------------------
FrameTypeOK ==
    /\ buffer \in Seq(Byte) /\ fed \in Seq(Byte)
    /\ consumed \in 0..Len(buffer)
    /\ status \in {"NeedMore", "draining", "stopped", "ProtocolError",
                   "EncryptionMismatchError"}
    /\ frames \in Seq([type : Nat, payload : Seq(Byte)])

(* The buffer is the end of what was fed, in order and without a gap: feed() *)
(* and compact(), which run apart, never tear the stream.                    *)
BufferIsTail ==
    /\ Len(buffer) <= Len(fed)
    /\ \A i \in 1..Len(buffer) : buffer[i] = fed[Len(fed) - Len(buffer) + i]

-----------------------------------------------------------------------------
(* A reference: what a byte sequence means, whatever the chunks it came in. *)

IsVarint(v) ==
    /\ Len(v) \in 1..varint_budget
    /\ \A i \in 1..Len(v) : v[i] < 128 <=> i = Len(v)

IsVarintStart(v) == Len(v) < varint_budget /\ \A i \in 1..Len(v) : v[i] >= 128

Value(v) == MapThenSumSet(LAMBDA i : (v[i] % 128) * 128^(i - 1), 1..Len(v))

(* The two header fields, as the positions of their last bytes. *)
Headers(s) ==
    {h \in (2..Len(s)) \X (2..Len(s)) :
        /\ s[1] = indicator /\ h[1] < h[2]
        /\ IsVarint(SubSeq(s, 2, h[1])) /\ IsVarint(SubSeq(s, h[1] + 1, h[2]))
        /\ Value(SubSeq(s, 2, h[1])) <= MaxFramePayload}

(* s begins with a complete frame: h is its header. *)
Complete(s, h) == h \in Headers(s) /\ Len(s) - h[2] >= Value(SubSeq(s, 2, h[1]))

IsFrameStart(s) ==
    \/ s = <<>>
    \/ s[1] = indicator /\ IsVarintStart(Tail(s))
    \/ s[1] = indicator /\ \E i \in 2..Len(s) : /\ IsVarint(SubSeq(s, 2, i))
                                                /\ IsVarintStart(From(s, i + 1))
    \/ \E h \in Headers(s) : ~Complete(s, h)

(* The frames s consists of, and what is left behind the last of them. *)
Split[s \in Seq(Byte)] ==
    IF \E h \in Headers(s) : Complete(s, h)
    THEN LET h == CHOOSE h \in Headers(s) : Complete(s, h)
             n == h[2] + Value(SubSeq(s, 2, h[1]))
             rest == Split[From(s, n + 1)]
         IN  [rest EXCEPT !.frames =
                 <<[type |-> Value(SubSeq(s, h[1] + 1, h[2])),
                    payload |-> SubSeq(s, h[2] + 1, n)]>> \o @]
    ELSE [frames |-> <<>>, rest |-> s]

(* The frames next() returns are those of the input as a whole: they do not  *)
(* depend on where it was cut into chunks.  It waits for more input exactly  *)
(* when more can complete a frame, and reports an error exactly when none    *)
(* can, telling a peer that speaks Noise from one that speaks nonsense.      *)
SplitIsReference ==
    LET ref == Split[fed]
    IN  /\ IsPrefix(frames, ref.frames)
        /\ status \notin {"draining", "stopped"} => frames = ref.frames
        /\ status = "NeedMore" => IsFrameStart(ref.rest)
        /\ status = "ProtocolError" => ~IsFrameStart(ref.rest)
        /\ status = "EncryptionMismatchError" => ref.rest[1] = noise_indicator
=============================================================================
