---------------------------- MODULE FrameProofs -----------------------------
(***************************************************************************)
(* Proofs about PlaintextFrame and FrameStream, for every input in every    *)
(* chunking.  The buffer of PlaintextFrameHelper is the end of the input,   *)
(* and consumed_ never reaches beyond it, so that compact() erases what it  *)
(* should.  What encode() writes, next() takes apart again: the helpers     *)
(* implement the channel of messages of MessageChannel.tla, for any types   *)
(* and payloads that fit the header and the payload limit.  And of any      *)
(* bytes at all next() returns the frames of the reference Split.           *)
(***************************************************************************)
EXTENDS FrameStream, FiniteSetTheorems, WellFoundedInduction, TLAPS

(* A set of positions within the varint budget has a least element. *)
LEMMA LeastPosition ==
    ASSUME NEW n \in Nat, NEW S \in SUBSET (1..n), S # {}, \A i \in S : i <= varint_budget
    PROVE  Min(S) \in S
<1>1. \E x \in S : \A y \in S : x <= y
  <2>1. CASE 1 \in S
    BY <2>1
  <2>2. CASE 1 \notin S /\ 2 \in S
    BY <2>2
  <2>3. CASE 1 \notin S /\ 2 \notin S /\ 3 \in S
    BY <2>3
  <2>4. CASE 1 \notin S /\ 2 \notin S /\ 3 \notin S /\ 4 \in S
    BY <2>4 DEF varint_budget
  <2>5. \E i \in S : i \in {1, 2, 3, 4}
    <3>1. PICK i \in S : TRUE
      OBVIOUS
    <3>2. i \in 1..n /\ i <= 4
      BY DEF varint_budget
    <3>3. i \in {1, 2, 3, 4}
      BY <3>2
    <3>4. QED
      BY <3>3
  <2>6. QED
    BY <2>1, <2>2, <2>3, <2>4, <2>5
<1>2. QED
  BY <1>1 DEF Min

(* Seven bits of a byte. *)
LEMMA LowBits == \A x \in Byte : x % 128 \in Nat
<1>1. SUFFICES ASSUME NEW x \in Int, x >= 0 PROVE x % 128 \in Nat
  BY DEF Byte
<1>2. QED
  OBVIOUS

(* The value of a varint is a natural number. *)
LEMMA ValueIsNat ==
    ASSUME NEW data \in Seq(Byte), NEW n \in Nat, n <= Len(data)
    PROVE  varint_value(data, n) \in Nat
<1> DEFINE bits(i) == IF i <= n THEN data[i] % 128 ELSE 0
<1>1. \A i \in {1, 2, 3, 4} : bits(i) \in Nat
  <2>1. ASSUME NEW i \in {1, 2, 3, 4} PROVE bits(i) \in Nat
    <3>1. CASE i <= n
      <4>1. i \in 1..Len(data)
        BY <3>1
      <4>2. data[i] \in Byte
        BY <4>1
      <4>3. data[i] % 128 \in Nat
        BY <4>2, LowBits
      <4>4. QED
        BY <3>1, <4>3
    <3>2. CASE ~(i <= n)
      BY <3>2
    <3>3. QED
      BY <3>1, <3>2
  <2>2. QED
    BY <2>1
<1>2. bits(1) \in Nat /\ bits(2) \in Nat /\ bits(3) \in Nat /\ bits(4) \in Nat
  BY <1>1
<1>3. varint_value(data, n) = bits(1) + 128 * bits(2) + 16384 * bits(3) + 2097152 * bits(4)
  BY DEF varint_value
<1> HIDE DEF bits
<1>4. PICK a, b, c, d \in Nat : a = bits(1) /\ b = bits(2) /\ c = bits(3) /\ d = bits(4)
  BY <1>2, Zenon
<1>5. varint_value(data, n) = a + 128 * b + 16384 * c + 2097152 * d
  BY <1>3, <1>4
<1>6. a + 128 * b + 16384 * c + 2097152 * d \in Nat
  OBVIOUS
<1> QED
  BY <1>5, <1>6

(* decode_varint consumes at most what it was given. *)
LEMMA DecodeBounds ==
    ASSUME NEW data \in Seq(Byte)
    PROVE  /\ decode_varint(data).consumed \in 0..Len(data)
           /\ decode_varint(data).value \in Nat
<1> DEFINE last == {i \in 1..Len(data) : i <= varint_budget /\ data[i] < 128}
<1>1. CASE last = {}
  BY <1>1 DEF decode_varint
<1>2. CASE last # {}
  <2>1. Min(last) \in last
    <3>1. /\ last \in SUBSET (1..Len(data)) /\ Len(data) \in Nat
          /\ \A i \in last : i <= varint_budget
      OBVIOUS
    <3> HIDE DEF last
    <3>2. QED
      BY <1>2, <3>1, LeastPosition, Zenon
  <2>2. Min(last) \in 1..Len(data)
    BY <2>1
  <2>3. varint_value(data, Min(last)) \in Nat
    BY <2>2, ValueIsNat
  <2>4. decode_varint(data) = [status |-> "Ok", value |-> varint_value(data, Min(last)),
                               consumed |-> Min(last)]
    BY <1>2 DEF decode_varint
  <2>5. QED
    BY <2>2, <2>3, <2>4
<1>3. QED
  BY <1>1, <1>2

(* The end of a sequence of bytes, element by element. *)
LEMMA FromBytes ==
    ASSUME NEW s \in Seq(Byte), NEW n \in 1..(Len(s) + 1)
    PROVE  /\ From(s, n) \in Seq(Byte)
           /\ Len(From(s, n)) = Len(s) - n + 1
           /\ \A i \in 1..Len(From(s, n)) : From(s, n)[i] = s[n + i - 1]
  BY DEF From

ParseResults == [status : {"Ok", "NeedMore", "ProtocolError", "EncryptionMismatchError"},
                 type : Nat, payload : Seq(Byte), consumed : Nat]

(* next() takes no more than the buffer holds: header and payload end in it. *)
LEMMA ParseBounds ==
    ASSUME NEW b \in Seq(Byte)
    PROVE  parse(b) \in ParseResults /\ parse(b).consumed <= Len(b)
<1>1. \A st \in {"NeedMore", "ProtocolError", "EncryptionMismatchError"} :
         Result(st) \in ParseResults /\ Result(st).consumed <= Len(b)
  BY DEF Result, ParseResults
<1>2. CASE b = <<>> \/ b[1] # indicator
  BY <1>1, <1>2 DEF parse, indicator, noise_indicator
<1>3. CASE b # <<>> /\ b[1] = indicator
  <2> DEFINE len == decode_varint(From(b, 2))
             typ == decode_varint(From(b, 2 + len.consumed))
             cursor == 1 + len.consumed + typ.consumed
  <2>1. Len(b) >= 1
    BY <1>3
  <2>2. len.consumed \in 0..(Len(b) - 1) /\ len.value \in Nat
    <3>1. 2 \in 1..(Len(b) + 1)
      BY <2>1
    <3>2. From(b, 2) \in Seq(Byte) /\ Len(From(b, 2)) = Len(b) - 1
      BY <3>1, FromBytes
    <3>3. QED
      BY <3>2, DecodeBounds
  <2>3. /\ typ.consumed \in 0..(Len(b) - 1 - len.consumed) /\ typ.value \in Nat
    <3>1. 2 + len.consumed \in 1..(Len(b) + 1)
      BY <2>1, <2>2
    <3>2. /\ From(b, 2 + len.consumed) \in Seq(Byte)
          /\ Len(From(b, 2 + len.consumed)) = Len(b) - 1 - len.consumed
      BY <3>1, <2>2, FromBytes
    <3>3. QED
      BY <3>2, DecodeBounds
  <2>4. cursor \in 1..Len(b)
    BY <2>1, <2>2, <2>3
  <2>5. \/ parse(b) \in {Result("NeedMore"), Result("ProtocolError")}
        \/ parse(b) = take_payload(b, cursor, len.value, typ.value)
    BY <1>3 DEF parse, indicator, noise_indicator
  <2> HIDE DEF len, typ, cursor
  <2>6. /\ take_payload(b, cursor, len.value, typ.value) \in ParseResults
        /\ take_payload(b, cursor, len.value, typ.value).consumed <= Len(b)
    <3>1. CASE len.value > MaxFramePayload \/ Len(b) - cursor < len.value
      BY <1>1, <3>1, <2>2, <2>4, MaxFramePayloadAssumption DEF take_payload
    <3>2. CASE len.value <= MaxFramePayload /\ Len(b) - cursor >= len.value
      <4>1. SubSeq(b, cursor + 1, cursor + len.value) \in Seq(Byte)
        BY <3>2, <2>2, <2>4
      <4>2. take_payload(b, cursor, len.value, typ.value)
              = [status |-> "Ok", type |-> typ.value,
                 payload |-> SubSeq(b, cursor + 1, cursor + len.value),
                 consumed |-> cursor + len.value]
        BY <3>2, <2>2, <2>4, MaxFramePayloadAssumption DEF take_payload
      <4>3. cursor + len.value \in Nat /\ cursor + len.value <= Len(b)
        BY <3>2, <2>2, <2>4
      <4>4. typ.value \in Nat
        BY <2>3
      <4>5. QED
        BY <4>1, <4>2, <4>3, <4>4 DEF ParseResults
    <3>3. QED
      BY <3>1, <3>2, <2>2, <2>4, MaxFramePayloadAssumption
  <2>7. QED
    BY <2>5, <2>6, <1>1
<1>4. QED
  BY <1>2, <1>3

-----------------------------------------------------------------------------
FrameInv == FrameTypeOK /\ BufferIsTail

(* A chunk is appended to the input and to the buffer alike. *)
LEMMA FeedInv ==
    ASSUME FrameInv, NEW data \in Seq(Byte), feed(data)
    PROVE  FrameInv'
<1> USE DEF FrameInv, FrameTypeOK
<1>1. buffer' \in Seq(Byte) /\ fed' \in Seq(Byte)
  BY DEF feed
<1>2. Len(buffer') = Len(buffer) + Len(data) /\ Len(fed') = Len(fed) + Len(data)
  BY DEF feed
<1>3. FrameTypeOK'
  BY <1>1, <1>2 DEF feed
<1>4. BufferIsTail'
  <2>1. Len(buffer') <= Len(fed')
    BY <1>2 DEF BufferIsTail
  <2>2. ASSUME NEW i \in 1..Len(buffer')
        PROVE  buffer'[i] = fed'[Len(fed') - Len(buffer') + i]
    <3>1. CASE i <= Len(buffer)
      <4>1. buffer'[i] = buffer[i]
        BY <3>1 DEF feed
      <4>2. Len(fed') - Len(buffer') + i = Len(fed) - Len(buffer) + i
        BY <1>2
      <4>3. Len(fed) - Len(buffer) + i \in 1..Len(fed)
        BY <3>1 DEF BufferIsTail
      <4>4. fed'[Len(fed) - Len(buffer) + i] = fed[Len(fed) - Len(buffer) + i]
        BY <4>3 DEF feed
      <4>5. buffer[i] = fed[Len(fed) - Len(buffer) + i]
        BY <3>1 DEF BufferIsTail
      <4>6. QED
        BY <4>1, <4>2, <4>4, <4>5
    <3>2. CASE i > Len(buffer)
      <4>1. buffer'[i] = data[i - Len(buffer)]
        BY <3>2, <1>2 DEF feed
      <4>2. Len(fed') - Len(buffer') + i = Len(fed) + (i - Len(buffer))
        BY <1>2
      <4>3. fed'[Len(fed) + (i - Len(buffer))] = data[i - Len(buffer)]
        BY <3>2, <1>2 DEF feed
      <4>4. QED
        BY <4>1, <4>2, <4>3
    <3>3. QED
      BY <3>1, <3>2
  <2>3. QED
    BY <2>1, <2>2 DEF BufferIsTail
<1>5. QED
  BY <1>3, <1>4

(* next() drops a prefix of the buffer: what is left is still the end of the *)
(* input, and the frame it returns lies within it.                           *)
LEMMA NextInv ==
    ASSUME FrameInv, next
    PROVE  FrameInv'
<1> USE DEF FrameInv, FrameTypeOK
<1>1. /\ compact \in Seq(Byte)
      /\ Len(compact) = Len(buffer) - consumed
      /\ \A i \in 1..Len(compact) : compact[i] = buffer[consumed + i]
  BY FromBytes DEF compact
<1>2. PICK r \in {parse(buffer')} :
          /\ consumed' = r.consumed
          /\ status' = IF r.status = "Ok" THEN "draining" ELSE r.status
          /\ frames' = IF r.status = "Ok"
                       THEN Append(frames, [type |-> r.type, payload |-> r.payload])
                       ELSE frames
  BY DEF next
<1>3. buffer' = compact /\ fed' = fed
  BY DEF next
<1>4. r \in ParseResults /\ r.consumed <= Len(compact)
  BY <1>1, <1>2, <1>3, ParseBounds
<1>5. FrameTypeOK'
  <2>1. frames' \in Seq([type : Nat, payload : Seq(Byte)])
    <3>1. [type |-> r.type, payload |-> r.payload] \in [type : Nat, payload : Seq(Byte)]
      BY <1>4 DEF ParseResults
    <3>2. frames \in Seq([type : Nat, payload : Seq(Byte)])
      OBVIOUS
    <3>3. \A F : \A f \in F : \A s \in Seq(F) : Append(s, f) \in Seq(F)
      OBVIOUS
    <3>4. Append(frames, [type |-> r.type, payload |-> r.payload])
              \in Seq([type : Nat, payload : Seq(Byte)])
      BY <3>1, <3>2, <3>3, Zenon
    <3>5. QED
      BY <1>2, <3>2, <3>4
  <2>2. status' \in {"NeedMore", "draining", "stopped", "ProtocolError",
                     "EncryptionMismatchError"}
    BY <1>2, <1>4 DEF ParseResults
  <2>3. consumed' \in 0..Len(buffer')
    BY <1>1, <1>2, <1>4, <1>3 DEF ParseResults
  <2>4. QED
    BY <2>1, <2>2, <2>3, <1>1, <1>3
<1>6. BufferIsTail'
  <2>1. Len(buffer') <= Len(fed')
    BY <1>1, <1>3 DEF BufferIsTail
  <2>2. ASSUME NEW i \in 1..Len(buffer')
        PROVE  buffer'[i] = fed'[Len(fed') - Len(buffer') + i]
    <3>1. buffer'[i] = buffer[consumed + i]
      BY <1>1, <1>3
    <3>2. consumed + i \in 1..Len(buffer)
      BY <1>1, <1>3
    <3>3. buffer[consumed + i] = fed[Len(fed) - Len(buffer) + (consumed + i)]
      BY <3>2 DEF BufferIsTail
    <3>4. Len(fed) - Len(buffer) + (consumed + i) = Len(fed') - Len(buffer') + i
      <4>1. /\ Len(fed) \in Nat /\ Len(buffer) \in Nat /\ consumed \in Nat
            /\ Len(buffer') = Len(buffer) - consumed /\ Len(fed') = Len(fed)
        BY <1>1, <1>3
      <4>2. QED
        BY <4>1, <3>2
    <3>5. QED
      BY <3>1, <3>3, <3>4, <1>3
  <2>3. QED
    BY <2>1, <2>2 DEF BufferIsTail
<1>7. QED
  BY <1>5, <1>6

(* The buffer of the frame helper is the end of all input, in order and      *)
(* without a gap, and the frame returned last lies inside it (feed, next,    *)
(* compact): for every byte sequence, every chunking and every payload limit.*)
THEOREM FrameCorrect == FrameSpec => [](FrameTypeOK /\ BufferIsTail)
<1>1. FrameInit => FrameInv
  BY DEF FrameInit, FrameInv, FrameTypeOK, BufferIsTail
<1>2. FrameInv /\ [FrameNext]_frame_vars => FrameInv'
  <2> SUFFICES ASSUME FrameInv, [FrameNext]_frame_vars PROVE FrameInv'
    OBVIOUS
  <2>1. CASE next
    BY <2>1, NextInv
  <2>2. CASE drain_stop
    BY <2>2 DEF drain_stop, FrameInv, FrameTypeOK, BufferIsTail
  <2>3. CASE \E data \in Seq(Byte) : feed(data)
    BY <2>3, FeedInv
  <2>4. CASE UNCHANGED frame_vars
    BY <2>4 DEF frame_vars, FrameInv, FrameTypeOK, BufferIsTail
  <2>5. QED
    BY <2>1, <2>2, <2>3, <2>4 DEF FrameNext
<1>3. FrameInv => FrameTypeOK /\ BufferIsTail
  BY DEF FrameInv
<1>4. QED
  BY <1>1, <1>2, <1>3, PTL DEF FrameSpec


-----------------------------------------------------------------------------
(* The varint codec: a value of at most 28 bits comes back.                  *)

(* The values that varint_budget bytes hold. *)
Fits(v) == v \in Nat /\ v < 268435456

(* The number of bytes append_varint() writes. *)
LEMMA VarintSize ==
  ASSUME NEW v, Fits(v)
  PROVE  varint_size(v) = IF v < 128 THEN 1 ELSE IF v < 16384 THEN 2
                          ELSE IF v < 2097152 THEN 3 ELSE 4
  <1>v. v \in Nat /\ v < 268435456
    BY DEF Fits
  <1> DEFINE P(i) == i = 0 \/ v >= 128^i
             S == {i \in 0..4 : P(i)}
  <1>s. varint_size(v) = Cardinality(S)
    BY DEF varint_size
  <1>2. ASSUME NEW i \in 0..4
        PROVE  P(i) <=>
                  \/ i = 0 \/ (i = 1 /\ v >= 128) \/ (i = 2 /\ v >= 16384)
                  \/ (i = 3 /\ v >= 2097152)
    <2>1. CASE i = 0
      BY <2>1
    <2>2. CASE i = 1
      BY <1>v, <2>2
    <2>3. CASE i = 2
      BY <1>v, <2>3
    <2>4. CASE i = 3
      BY <1>v, <2>4
    <2>5. CASE i = 4
      BY <1>v, <2>5
    <2> QED
      BY <2>1, <2>2, <2>3, <2>4, <2>5
  <1> HIDE DEF P
  <1>3. \A n \in 0..4 : Cardinality(0..n) = n + 1
    BY FS_Interval
  <1>4. CASE v < 128
    <2>1. S = 0..0
      BY <1>v, <1>2, <1>4
    <2> HIDE DEF S
    <2> QED
      BY <1>v, <2>1, <1>s, <1>3, <1>4
  <1>5. CASE v >= 128 /\ v < 16384
    <2>1. S = 0..1
      BY <1>v, <1>2, <1>5
    <2> HIDE DEF S
    <2> QED
      BY <1>v, <2>1, <1>s, <1>3, <1>5
  <1>6. CASE v >= 16384 /\ v < 2097152
    <2>1. S = 0..2
      BY <1>v, <1>2, <1>6
    <2> HIDE DEF S
    <2> QED
      BY <1>v, <2>1, <1>s, <1>3, <1>6
  <1>7. CASE v >= 2097152
    <2>1. S = 0..3
      BY <1>v, <1>2, <1>7
    <2> HIDE DEF S
    <2> QED
      BY <1>v, <2>1, <1>s, <1>3, <1>7
  <1> QED
    BY <1>v, <1>4, <1>5, <1>6, <1>7

(* The seven bits at a position. *)
Seven(v, i) == (v \div 128^(i - 1)) % 128

(* They make up the value, and there are none beyond its size. *)
LEMMA Sevens ==
  ASSUME NEW v, Fits(v)
  PROVE  /\ \A i \in 1..4 : /\ Seven(v, i) \in 0..127
                            /\ i > varint_size(v) => Seven(v, i) = 0
         /\ v = Seven(v, 1) + 128 * Seven(v, 2) + 16384 * Seven(v, 3)
                + 2097152 * Seven(v, 4)
  <1>1. /\ Seven(v, 1) = v % 128 /\ Seven(v, 2) = (v \div 128) % 128
        /\ Seven(v, 3) = (v \div 16384) % 128 /\ Seven(v, 4) = (v \div 2097152) % 128
    <2>1. v \in Nat
      BY DEF Fits
    <2>2. ASSUME NEW i \in Nat, i = 1 PROVE Seven(v, i) = v % 128
      BY <2>1, <2>2 DEF Seven
    <2>3. ASSUME NEW i \in Nat, i = 2 PROVE Seven(v, i) = (v \div 128) % 128
      BY <2>1, <2>3 DEF Seven
    <2>4. ASSUME NEW i \in Nat, i = 3 PROVE Seven(v, i) = (v \div 16384) % 128
      BY <2>1, <2>4 DEF Seven
    <2>5. ASSUME NEW i \in Nat, i = 4 PROVE Seven(v, i) = (v \div 2097152) % 128
      BY <2>1, <2>5 DEF Seven
    <2> QED
      BY <2>2, <2>3, <2>4, <2>5
  <1>2. /\ v % 128 \in 0..127 /\ (v \div 128) % 128 \in 0..127
        /\ (v \div 16384) % 128 \in 0..127 /\ (v \div 2097152) % 128 \in 0..127
    BY DEF Fits
  <1>3. v = (v % 128) + 128 * ((v \div 128) % 128) + 16384 * ((v \div 16384) % 128)
            + 2097152 * ((v \div 2097152) % 128)
    BY DEF Fits
  <1>4. /\ v < 128 => (v \div 128) % 128 = 0
        /\ v < 16384 => (v \div 16384) % 128 = 0
        /\ v < 2097152 => (v \div 2097152) % 128 = 0
    BY DEF Fits
  <1>5. /\ 2 > varint_size(v) => v < 128
        /\ 3 > varint_size(v) => v < 16384
        /\ 4 > varint_size(v) => v < 2097152
        /\ ~(1 > varint_size(v))
    BY VarintSize DEF Fits
  <1>6. ASSUME NEW i \in 1..4
        PROVE  Seven(v, i) \in 0..127 /\ (i > varint_size(v) => Seven(v, i) = 0)
    <2>1. i = 1 \/ i = 2 \/ i = 3 \/ i = 4
      OBVIOUS
    <2> QED
      BY <2>1, <1>1, <1>2, <1>4, <1>5
  <1>7. v = Seven(v, 1) + 128 * Seven(v, 2) + 16384 * Seven(v, 3) + 2097152 * Seven(v, 4)
    BY <1>1, <1>3
  <1> QED
    BY <1>6, <1>7

(* a is value v, seven bits a byte, with the top bit on all bytes but the last. *)
IsVarintOf(a, v) ==
    /\ a \in Seq(Byte) /\ Len(a) \in 1..4 /\ Len(a) = varint_size(v)
    /\ \A i \in 1..Len(a) : (a[i] < 128 <=> i = Len(a)) /\ a[i] % 128 = Seven(v, i)

(* What append_varint() writes. *)
LEMMA VarintBytes ==
  ASSUME NEW v, Fits(v)
  PROVE  IsVarintOf(append_varint(v), v)
  <1> DEFINE n == varint_size(v)
             a == append_varint(v)
  <1>1. n \in 1..4
    BY VarintSize DEF Fits
  <1>3. \A i \in 1..4 : Seven(v, i) \in 0..127
    BY Sevens
  <1>4. a = [i \in 1..n |-> Seven(v, i) + (IF i < n THEN 128 ELSE 0)]
    BY DEF append_varint, Seven
  <1> HIDE DEF n, a
  <1>5. \A i \in 1..n : /\ i \in 1..4 /\ a[i] = Seven(v, i) + (IF i < n THEN 128 ELSE 0)
    BY <1>1, <1>4
  <1>6. ASSUME NEW i \in 1..n
        PROVE  /\ a[i] \in Byte /\ a[i] % 128 = Seven(v, i) /\ (a[i] < 128 <=> i = n)
    <2>1. \A x \in 0..127 : x % 128 = x /\ (x + 128) % 128 = x
      OBVIOUS
    <2>2. i \in Int /\ n \in Int /\ Seven(v, i) \in 0..127 /\ i <= n
      BY <1>1, <1>3, <1>5
    <2>3. CASE i < n
      BY <1>5, <2>1, <2>2, <2>3 DEF Byte
    <2>4. CASE i = n
      BY <1>5, <2>1, <2>2, <2>4 DEF Byte
    <2> QED
      BY <2>2, <2>3, <2>4
  <1>7. a \in Seq(Byte) /\ Len(a) = n
    BY <1>1, <1>4, <1>6
  <1> QED
    BY <1>1, <1>6, <1>7 DEF n, a, IsVarintOf

(* b begins like e, or is the beginning of e. *)
Agree(b, e) == \A i \in 1..Len(b) : i <= Len(e) => b[i] = e[i]

(* decode_varint() undoes append_varint(), whatever follows it, and waits for *)
(* the rest when it is cut off.                                               *)
LEMMA DecodeVarint ==
  ASSUME NEW v, Fits(v), NEW d \in Seq(Byte), Agree(d, append_varint(v))
  PROVE  LET n == Len(append_varint(v))
         IN  /\ n \in 1..4
             /\ Len(d) >= n => decode_varint(d) = [status |-> "Ok", value |-> v, consumed |-> n]
             /\ Len(d) < n => decode_varint(d) =
                                 [status |-> "Incomplete", value |-> 0, consumed |-> 0]
  <1> DEFINE a == append_varint(v)
             n == Len(a)
             last == {i \in 1..Len(d) : i <= varint_budget /\ d[i] < 128}
  <1>0. IsVarintOf(a, v)
    BY VarintBytes
  <1> HIDE DEF a
  <1>1. /\ n \in 1..4 /\ a \in Seq(Byte) /\ n = varint_size(v)
        /\ \A i \in 1..n : (a[i] < 128 <=> i = n) /\ a[i] % 128 = Seven(v, i)
    BY <1>0 DEF IsVarintOf
  <1>3. /\ Len(d) \in Nat /\ \A i \in 1..Len(d) : i <= n => d[i] = a[i]
    BY DEF Agree, a
  <1>4. ASSUME Len(d) >= n
        PROVE  decode_varint(d) = [status |-> "Ok", value |-> v, consumed |-> n]
    <2>1. /\ n \in last /\ \A i \in last : n <= i
      BY <1>1, <1>3, <1>4 DEF varint_budget
    <2>2. Min(last) = n
      <3>1. \A i \in last : i \in Nat
        OBVIOUS
      <3> HIDE DEF last, n
      <3>2. \A x, y \in last : x <= y /\ y <= x => x = y
        BY <3>1
      <3> QED
        BY <2>1, <3>2 DEF Min
    <2>3. decode_varint(d) = [status |-> "Ok", value |-> varint_value(d, Min(last)),
                              consumed |-> Min(last)]
      BY <2>1 DEF decode_varint
    <2>4. varint_value(d, n) = v
      <3> DEFINE bits(i) == IF i <= n THEN d[i] % 128 ELSE 0
      <3>1. varint_value(d, n) =
                bits(1) + 128 * bits(2) + 16384 * bits(3) + 2097152 * bits(4)
        BY DEF varint_value
      <3>2. \A i \in 1..4 : bits(i) = Seven(v, i)
        BY <1>1, <1>3, <1>4, Sevens
      <3> HIDE DEF bits
      <3> QED
        BY <3>1, <3>2, Sevens
    <2> QED
      BY <2>2, <2>3, <2>4
  <1>5. ASSUME Len(d) < n
        PROVE  decode_varint(d) = [status |-> "Incomplete", value |-> 0, consumed |-> 0]
    <2>1. last = {} /\ ~(Len(d) >= varint_budget)
      BY <1>1, <1>3, <1>5 DEF varint_budget
    <2> QED
      BY <2>1 DEF decode_varint
  <1> QED
    BY <1>1, <1>4, <1>5 DEF a

-----------------------------------------------------------------------------
(* The frame codec. *)

(* c is s and then t. *)
IsJoin(c, s, t) ==
    /\ c \in Seq(Byte) /\ Len(c) = Len(s) + Len(t)
    /\ \A i \in 1..Len(s) : c[i] = s[i]
    /\ \A i \in 1..Len(t) : c[Len(s) + i] = t[i]

(* The elements of two sequences put together. *)
LEMMA Joined ==
  ASSUME NEW s \in Seq(Byte), NEW t \in Seq(Byte)
  PROVE  IsJoin(s \o t, s, t)
  BY DEF IsJoin

(* The positions of the parts of a frame. *)
LEMMA EncodedParts ==
  ASSUME NEW t, Fits(t), NEW p \in Seq(Byte), Fits(Len(p))
  PROVE  LET e == encode(t, p)
             L == append_varint(Len(p))
             T == append_varint(t)
         IN  /\ e \in Seq(Byte) /\ L \in Seq(Byte) /\ T \in Seq(Byte)
             /\ Len(L) \in 1..4 /\ Len(T) \in 1..4
             /\ Len(e) = 1 + Len(L) + Len(T) + Len(p)
             /\ e[1] = indicator
             /\ \A i \in 1..Len(L) : e[1 + i] = L[i]
             /\ \A i \in 1..Len(T) : e[1 + Len(L) + i] = T[i]
             /\ \A i \in 1..Len(p) : e[1 + Len(L) + Len(T) + i] = p[i]
  <1> DEFINE L == append_varint(Len(p))
             T == append_varint(t)
  <1>1. L \in Seq(Byte) /\ T \in Seq(Byte) /\ Len(L) \in 1..4 /\ Len(T) \in 1..4
    BY VarintBytes DEF IsVarintOf
  <1>2. encode(t, p) = <<indicator>> \o L \o T \o p
    BY DEF encode
  <1> HIDE DEF L, T
  <1>3. <<indicator>> \in Seq(Byte) /\ Len(<<indicator>>) = 1
    BY DEF indicator, Byte
  <1>4. ASSUME NEW h \in Seq(Byte), Len(h) = 1, h[1] = indicator
        PROVE  LET e == h \o L \o T \o p
               IN  /\ e \in Seq(Byte)
                   /\ Len(e) = 1 + Len(L) + Len(T) + Len(p)
                   /\ e[1] = indicator
                   /\ \A i \in 1..Len(L) : e[1 + i] = L[i]
                   /\ \A i \in 1..Len(T) : e[1 + Len(L) + i] = T[i]
                   /\ \A i \in 1..Len(p) : e[1 + Len(L) + Len(T) + i] = p[i]
    <2> DEFINE A == h \o L
               B == A \o T
               C == B \o p
    <2>1. IsJoin(A, h, L)
      BY <1>1, <1>4, Joined
    <2>2. /\ A \in Seq(Byte) /\ Len(A) = 1 + Len(L)
          /\ A[1] = indicator
          /\ \A i \in 1..Len(L) : A[1 + i] = L[i]
      <3> HIDE DEF A
      <3> QED
        BY <1>1, <1>4, <2>1 DEF IsJoin
    <2>b. IsJoin(B, A, T) /\ B \in Seq(Byte)
      BY <1>1, <2>2, Joined, Zenon DEF IsJoin
    <2>c. IsJoin(C, B, p)
      BY <2>b, Joined, Zenon
    <2> HIDE DEF A, B, C
    <2>3. /\ Len(B) = 1 + Len(L) + Len(T)
          /\ \A i \in 1..Len(A) : B[i] = A[i]
          /\ \A i \in 1..Len(T) : B[1 + Len(L) + i] = T[i]
      BY <1>1, <2>2, <2>b DEF IsJoin
    <2>d. /\ C \in Seq(Byte) /\ Len(C) = 1 + Len(L) + Len(T) + Len(p)
          /\ \A i \in 1..Len(B) : C[i] = B[i]
          /\ \A i \in 1..Len(p) : C[1 + Len(L) + Len(T) + i] = p[i]
      BY <1>1, <2>3, <2>c DEF IsJoin
    <2>4. C[1] = indicator
      <3>1. 1 \in 1..Len(A) /\ 1 \in 1..Len(B)
        BY <1>1, <2>2, <2>3
      <3> QED
        BY <2>2, <2>3, <2>d, <3>1
    <2>5. ASSUME NEW i \in 1..Len(L) PROVE C[1 + i] = L[i]
      <3>1. 1 + i \in 1..Len(A) /\ 1 + i \in 1..Len(B)
        BY <1>1, <2>2, <2>3
      <3>2. C[1 + i] = B[1 + i] /\ B[1 + i] = A[1 + i] /\ A[1 + i] = L[i]
        BY <2>2, <2>3, <2>d, <3>1
      <3> QED
        BY <3>2
    <2>6. ASSUME NEW i \in 1..Len(T) PROVE C[1 + Len(L) + i] = T[i]
      BY <1>1, <2>2, <2>3, <2>d
    <2> QED
      BY <2>d, <2>4, <2>5, <2>6 DEF A, B, C
  <1> QED
    BY <1>1, <1>2, <1>3, <1>4 DEF L, T

(* Sequences with the same elements are equal. *)
LEMMA SameElements ==
  ASSUME NEW S, NEW s \in Seq(S), NEW t \in Seq(S), Len(s) = Len(t),
         \A i \in 1..Len(s) : s[i] = t[i]
  PROVE  s = t
  <1>1. s = [i \in 1..Len(s) |-> s[i]] /\ t = [i \in 1..Len(s) |-> t[i]]
    OBVIOUS
  <1> QED
    BY <1>1, Zenon

(* A part of a sequence. *)
LEMMA PartIs ==
  ASSUME NEW S, NEW b \in Seq(S), NEW p \in Seq(S), NEW c \in Nat, c + Len(p) <= Len(b),
         \A i \in 1..Len(p) : b[c + i] = p[i]
  PROVE  SubSeq(b, c + 1, c + Len(p)) = p
  <1> DEFINE q == SubSeq(b, c + 1, c + Len(p))
  <1>1. q \in Seq(S) /\ Len(q) = Len(p) /\ \A i \in 1..Len(p) : q[i] = b[c + i]
    OBVIOUS
  <1> HIDE DEF q
  <1>2. q = p
    BY <1>1, SameElements
  <1> QED
    BY <1>2 DEF q

(* next() takes apart what encode() put together, whatever follows it, and    *)
(* waits for the rest when it is cut off.                                     *)
LEMMA ParseEncoded ==
  ASSUME NEW t, Fits(t), NEW p \in Seq(Byte), Fits(Len(p)), Len(p) <= MaxFramePayload,
         NEW b \in Seq(Byte), Agree(b, encode(t, p))
  PROVE  LET n == Len(encode(t, p))
         IN  /\ n \in Nat /\ n > 0
             /\ Len(b) >= n => parse(b) = [status |-> "Ok", type |-> t, payload |-> p,
                                           consumed |-> n]
             /\ Len(b) < n => parse(b) = Result("NeedMore")
  <1> DEFINE e == encode(t, p)
             L == append_varint(Len(p))
             T == append_varint(t)
             len == decode_varint(From(b, 2))
             typ == decode_varint(From(b, 2 + len.consumed))
  <1>1. /\ e \in Seq(Byte) /\ L \in Seq(Byte) /\ T \in Seq(Byte)
        /\ Len(L) \in 1..4 /\ Len(T) \in 1..4
        /\ Len(e) = 1 + Len(L) + Len(T) + Len(p)
        /\ e[1] = indicator
        /\ \A i \in 1..Len(L) : e[1 + i] = L[i]
        /\ \A i \in 1..Len(T) : e[1 + Len(L) + i] = T[i]
        /\ \A i \in 1..Len(p) : e[1 + Len(L) + Len(T) + i] = p[i]
    BY EncodedParts
  <1>2. \A i \in 1..Len(b) : i <= Len(e) => b[i] = e[i]
    BY DEF Agree
  <1>3. CASE b = <<>>
    <2>1. parse(b) = Result("NeedMore") /\ Len(b) = 0
      BY <1>3 DEF parse
    <2> QED
      BY <1>1, <2>1
  <1>4. CASE b # <<>>
    <2>1. Len(b) \in Nat /\ Len(b) >= 1 /\ b[1] = indicator
      BY <1>1, <1>2, <1>4
    <2>2. parse(b) = CASE len.status # "Ok" ->
                            Result(IF len.status = "Incomplete" THEN "NeedMore"
                                                                ELSE "ProtocolError")
                       [] len.status = "Ok" /\ typ.status # "Ok" ->
                            Result(IF typ.status = "Incomplete" THEN "NeedMore"
                                                                ELSE "ProtocolError")
                       [] OTHER -> take_payload(b, 1 + len.consumed + typ.consumed,
                                                len.value, typ.value)
      BY <1>4, <2>1 DEF parse, indicator, noise_indicator
    <2>3. /\ From(b, 2) \in Seq(Byte) /\ Len(From(b, 2)) = Len(b) - 1
          /\ \A i \in 1..(Len(b) - 1) : From(b, 2)[i] = b[1 + i]
      BY <2>1, FromBytes
    <2>4. Agree(From(b, 2), L)
      <3>1. ASSUME NEW i \in 1..(Len(b) - 1), i <= Len(L) PROVE From(b, 2)[i] = L[i]
        <4>1. 1 + i \in 1..Len(b) /\ 1 + i <= Len(e) /\ i \in 1..Len(L)
          BY <1>1, <2>1, <3>1
        <4>2. b[1 + i] = e[1 + i] /\ e[1 + i] = L[i] /\ From(b, 2)[i] = b[1 + i]
          BY <1>1, <1>2, <2>3, <4>1
        <4> QED
          BY <4>2
      <3> QED
        BY <2>3, <3>1 DEF Agree
    <2>5. /\ Len(b) - 1 >= Len(L) =>
                len = [status |-> "Ok", value |-> Len(p), consumed |-> Len(L)]
          /\ Len(b) - 1 < Len(L) =>
                len = [status |-> "Incomplete", value |-> 0, consumed |-> 0]
      BY <2>3, <2>4, DecodeVarint
    <2> HIDE DEF len, L, T, e
    <2>6. CASE Len(b) - 1 < Len(L)
      <3>1. parse(b) = Result("NeedMore") /\ Len(b) < Len(e)
        BY <1>1, <2>1, <2>2, <2>5, <2>6
      <3> QED
        BY <1>1, <2>1, <3>1 DEF e
    <2>7. CASE Len(b) - 1 >= Len(L)
      <3>1. len.status = "Ok" /\ len.value = Len(p) /\ len.consumed = Len(L)
        BY <2>5, <2>7
      <3> DEFINE d == From(b, 2 + Len(L))
      <3>2. /\ d \in Seq(Byte) /\ Len(d) = Len(b) - 1 - Len(L)
            /\ \A i \in 1..Len(d) : d[i] = b[1 + Len(L) + i]
        <4>1. 2 + Len(L) \in 1..(Len(b) + 1)
          BY <1>1, <2>1, <2>7
        <4> QED
          BY <1>1, <2>1, <4>1, FromBytes
      <3>3. Agree(d, T)
        <4> HIDE DEF d
        <4>1. ASSUME NEW i \in 1..Len(d), i <= Len(T) PROVE d[i] = T[i]
          <5>1. 1 + Len(L) + i \in 1..Len(b) /\ 1 + Len(L) + i <= Len(e)
            BY <1>1, <2>1, <2>7, <3>2, <4>1
          <5>2. b[1 + Len(L) + i] = e[1 + Len(L) + i] /\ e[1 + Len(L) + i] = T[i]
            BY <1>1, <1>2, <2>1, <4>1, <5>1
          <5> QED
            BY <3>2, <4>1, <5>2, Zenon
        <4> QED
          BY <4>1, Zenon DEF Agree
      <3>4. typ = decode_varint(d)
        BY <3>1
      <3> HIDE DEF d, typ
      <3>5. /\ Len(d) >= Len(T) => typ = [status |-> "Ok", value |-> t, consumed |-> Len(T)]
            /\ Len(d) < Len(T) =>
                  typ = [status |-> "Incomplete", value |-> 0, consumed |-> 0]
        BY <3>2, <3>3, <3>4, DecodeVarint DEF T
      <3>6. CASE Len(d) < Len(T)
        <4>1. parse(b) = Result("NeedMore") /\ Len(b) < Len(e)
          BY <1>1, <2>1, <2>2, <3>1, <3>2, <3>5, <3>6
        <4> QED
          BY <1>1, <2>1, <4>1 DEF e
      <3>7. CASE Len(d) >= Len(T)
        <4> DEFINE cursor == 1 + Len(L) + Len(T)
        <4>0. typ.status = "Ok" /\ typ.value = t /\ typ.consumed = Len(T)
          BY <3>5, <3>7
        <4>1. parse(b) = take_payload(b, cursor, Len(p), t)
          BY <2>2, <3>1, <4>0
        <4>c. cursor \in Nat
          BY <1>1
        <4>2. CASE Len(b) - cursor < Len(p)
          <5>1. parse(b) = Result("NeedMore") /\ Len(b) < Len(e)
            BY <1>1, <2>1, <4>1, <4>2 DEF take_payload
          <5> QED
            BY <1>1, <2>1, <5>1 DEF e
        <4>3. CASE ~(Len(b) - cursor < Len(p))
          <5>1. Len(b) >= Len(e)
            BY <1>1, <2>1, <4>3
          <5>2. SubSeq(b, cursor + 1, cursor + Len(p)) = p
            <6>1. ASSUME NEW i \in 1..Len(p) PROVE b[cursor + i] = p[i]
              <7>1. cursor + i \in 1..Len(b) /\ cursor + i <= Len(e)
                BY <1>1, <2>1, <5>1
              <7>2. b[cursor + i] = e[cursor + i] /\ e[cursor + i] = p[i]
                BY <1>1, <1>2, <7>1
              <7> QED
                BY <7>2
            <6>2. cursor \in Nat /\ cursor + Len(p) <= Len(b)
              BY <1>1, <2>1, <4>3
            <6> HIDE DEF cursor
            <6> QED
              BY <6>1, <6>2, PartIs, Zenon
          <5>3. parse(b) = [status |-> "Ok", type |-> t, payload |-> p,
                            consumed |-> cursor + Len(p)]
            <6>1. ~(Len(p) > MaxFramePayload)
              BY MaxFramePayloadAssumption
            <6> HIDE DEF cursor
            <6> QED
              BY <4>1, <4>3, <5>2, <6>1, Zenon DEF take_payload
          <5> QED
            BY <1>1, <2>1, <5>1, <5>3 DEF e
        <4> QED
          BY <4>2, <4>3
      <3> QED
        BY <1>1, <3>2, <3>6, <3>7, <2>1
    <2> QED
      BY <1>1, <2>1, <2>6, <2>7
  <1> QED
    BY <1>3, <1>4

-----------------------------------------------------------------------------
(* The stream.  All bytes that were written are fed \o wire; pos[i] is the    *)
(* position behind the i-th frame in them.                                    *)

Encoded(f) == encode(f.type, f.payload)

Cuts(pos, all, bytes) ==
    /\ pos \in [0..Len(all) -> Nat] /\ pos[0] = 0 /\ pos[Len(all)] = Len(bytes)
    /\ \A i \in 1..Len(all) :
          /\ pos[i] = pos[i - 1] + Len(Encoded(all[i])) /\ pos[i] <= Len(bytes)
          /\ \A j \in 1..Len(Encoded(all[i])) :
                bytes[pos[i - 1] + j] = Encoded(all[i])[j]

(* The bytes up to the end of the frame returned last are those of as many    *)
(* frames as were returned.                                                   *)
StreamInv ==
    /\ FrameInv /\ sent \in Seq(Frames) /\ wire \in Seq(Byte)
    /\ Len(frames) <= Len(sent) /\ \A i \in 1..Len(frames) : frames[i] = sent[i]
    /\ \E pos : /\ Cuts(pos, sent, fed \o wire)
                /\ pos[Len(frames)] = Len(fed) - Len(buffer) + consumed

(* A frame fits: its header and its payload. *)
LEMMA FrameFits ==
  ASSUME NEW f \in Frames
  PROVE  /\ Fits(f.type) /\ f.payload \in Seq(Byte) /\ Fits(Len(f.payload))
         /\ Len(f.payload) <= MaxFramePayload
         /\ Encoded(f) \in Seq(Byte) /\ Len(Encoded(f)) \in Nat /\ Len(Encoded(f)) > 0
         /\ f = [type |-> f.type, payload |-> f.payload]
  <1>1. /\ Fits(f.type) /\ f.payload \in Seq(Byte) /\ Fits(Len(f.payload))
        /\ Len(f.payload) <= MaxFramePayload
        /\ f = [type |-> f.type, payload |-> f.payload]
    BY FramesAssumption DEF Frames, Fits
  <1>2. Encoded(f) \in Seq(Byte) /\ Len(Encoded(f)) \in Nat /\ Len(Encoded(f)) > 0
    BY <1>1, EncodedParts DEF Encoded
  <1> QED
    BY <1>1, <1>2

(* Nothing is written yet. *)
LEMMA StreamInitInd == StreamInit => StreamInv
  <1> SUFFICES ASSUME StreamInit PROVE StreamInv
    OBVIOUS
  <1>1. /\ buffer = <<>> /\ consumed = 0 /\ status = "NeedMore"
        /\ frames = <<>> /\ fed = <<>> /\ sent = <<>> /\ wire = <<>>
    BY DEF StreamInit, FrameInit
  <1>2. FrameInv
    BY <1>1 DEF FrameInv, FrameTypeOK, BufferIsTail
  <1> DEFINE pos == [i \in 0..0 |-> 0]
  <1>3. Len(fed \o wire) = 0 /\ Len(sent) = 0 /\ Len(frames) = 0
    BY <1>1
  <1>4. Cuts(pos, sent, fed \o wire)
    BY <1>3 DEF Cuts
  <1>5. pos[Len(frames)] = Len(fed) - Len(buffer) + consumed
    BY <1>1, <1>3
  <1> HIDE DEF pos
  <1> QED
    BY <1>1, <1>2, <1>3, <1>4, <1>5 DEF StreamInv

(* A frame is written behind the others. *)
LEMMA CutsExtend ==
  ASSUME NEW all \in Seq(Frames), NEW bytes \in Seq(Byte), NEW f \in Frames,
         NEW pos, Cuts(pos, all, bytes)
  PROVE  \E new : /\ Cuts(new, Append(all, f), bytes \o Encoded(f))
                  /\ \A i \in 0..Len(all) : new[i] = pos[i]
  <1> DEFINE e == Encoded(f)
             n == Len(all)
             more == Append(all, f)
             B == bytes \o e
             new == [i \in 0..(n + 1) |-> IF i <= n THEN pos[i] ELSE Len(bytes) + Len(e)]
  <1>1. e \in Seq(Byte) /\ Len(e) \in Nat
    BY FrameFits
  <1> HIDE DEF e
  <1>2. n \in Nat /\ Len(bytes) \in Nat
    OBVIOUS
  <1>3. /\ more \in Seq(Frames) /\ Len(more) = n + 1
        /\ more[n + 1] = f /\ \A i \in 1..n : more[i] = all[i]
    OBVIOUS
  <1>4. IsJoin(B, bytes, e)
    BY <1>1, Joined
  <1> HIDE DEF B, more
  <1>5. /\ Len(B) = Len(bytes) + Len(e)
        /\ \A i \in 1..Len(bytes) : B[i] = bytes[i]
        /\ \A i \in 1..Len(e) : B[Len(bytes) + i] = e[i]
    BY <1>4 DEF IsJoin
  <1>6. /\ pos \in [0..n -> Nat] /\ pos[0] = 0 /\ pos[n] = Len(bytes)
        /\ \A i \in 1..n :
              /\ pos[i] = pos[i - 1] + Len(Encoded(all[i])) /\ pos[i] <= Len(bytes)
              /\ \A j \in 1..Len(Encoded(all[i])) :
                    bytes[pos[i - 1] + j] = Encoded(all[i])[j]
    BY DEF Cuts
  <1>7. \A i \in 1..n : all[i] \in Frames
    OBVIOUS
  <1> HIDE DEF n
  <1>8. new \in [0..(n + 1) -> Nat]
    BY <1>1, <1>2, <1>6
  <1>9. new[n + 1] = Len(bytes) + Len(e) /\ \A i \in 0..n : new[i] = pos[i]
    BY <1>2
  <1> HIDE DEF new
  <1>10. new[0] = 0 /\ new[n] = Len(bytes) /\ new[n + 1] = Len(B)
    BY <1>2, <1>5, <1>6, <1>9
  <1>11. ASSUME NEW i \in 1..(n + 1)
         PROVE  /\ new[i] = new[i - 1] + Len(Encoded(more[i])) /\ new[i] <= Len(B)
                /\ \A j \in 1..Len(Encoded(more[i])) :
                      B[new[i - 1] + j] = Encoded(more[i])[j]
    <2>1. CASE i = n + 1
      <3>1. more[i] = f /\ new[i] = Len(B) /\ i - 1 = n /\ new[i - 1] = Len(bytes)
        BY <2>1, <1>2, <1>3, <1>10
      <3>2. Encoded(more[i]) = e
        BY <3>1 DEF e
      <3> QED
        BY <3>1, <3>2, <1>1, <1>2, <1>5
    <2>2. CASE i # n + 1
      <3>1. i \in 1..n /\ i - 1 \in 0..n /\ i \in 0..n
        BY <2>2, <1>2
      <3>2. more[i] = all[i] /\ new[i] = pos[i] /\ new[i - 1] = pos[i - 1]
        BY <3>1, <1>3, <1>9
      <3>3. pos[i] \in Nat /\ pos[i - 1] \in Nat
        BY <3>1, <1>6
      <3>4. Len(Encoded(all[i])) \in Nat
        BY <3>1, <1>7, FrameFits
      <3>5. /\ pos[i] = pos[i - 1] + Len(Encoded(all[i])) /\ pos[i] <= Len(bytes)
            /\ \A j \in 1..Len(Encoded(all[i])) :
                  bytes[pos[i - 1] + j] = Encoded(all[i])[j]
        BY <3>1, <1>6
      <3>6. ASSUME NEW j \in 1..Len(Encoded(all[i]))
            PROVE  B[pos[i - 1] + j] = Encoded(all[i])[j]
        <4>1. pos[i - 1] + j \in 1..Len(bytes)
          BY <3>3, <3>4, <3>5, <1>2
        <4>2. B[pos[i - 1] + j] = bytes[pos[i - 1] + j]
          BY <4>1, <1>5
        <4> QED
          BY <4>2, <3>5
      <3>7. pos[i] <= Len(B)
        BY <3>3, <3>5, <1>1, <1>2, <1>5
      <3> QED
        BY <3>2, <3>5, <3>6, <3>7
    <2> QED
      BY <2>1, <2>2
  <1>12. Cuts(new, more, B)
    BY <1>3, <1>8, <1>10, <1>11, Zenon DEF Cuts
  <1> QED
    BY <1>12, <1>9 DEF more, B, e, n

(* Three sequences are joined in either order. *)
LEMMA JoinAssociates ==
  ASSUME NEW S, NEW r \in Seq(S), NEW s \in Seq(S), NEW t \in Seq(S)
  PROVE  r \o (s \o t) = (r \o s) \o t
  OBVIOUS

(* Send() writes a frame and leaves the reader alone. *)
LEMMA SendInd == ASSUME StreamInv, NEW f \in Frames, Send(f) PROVE StreamInv'
  <1> DEFINE e == Encoded(f)
  <1>1. /\ sent' = Append(sent, f) /\ wire' = wire \o e
        /\ buffer' = buffer /\ consumed' = consumed /\ status' = status
        /\ frames' = frames /\ fed' = fed
    BY DEF Send, frame_vars, Encoded
  <1>2. e \in Seq(Byte) /\ Len(e) \in Nat
    BY FrameFits
  <1>3. /\ FrameInv /\ sent \in Seq(Frames) /\ wire \in Seq(Byte) /\ fed \in Seq(Byte)
        /\ frames \in Seq([type : Nat, payload : Seq(Byte)])
        /\ Len(frames) <= Len(sent) /\ \A i \in 1..Len(frames) : frames[i] = sent[i]
        /\ Len(frames) \in Nat
    BY DEF StreamInv, FrameInv, FrameTypeOK
  <1>4. FrameInv'
    BY <1>1, <1>3 DEF FrameInv, FrameTypeOK, BufferIsTail
  <1>5. PICK pos : /\ Cuts(pos, sent, fed \o wire)
                   /\ pos[Len(frames)] = Len(fed) - Len(buffer) + consumed
    BY DEF StreamInv
  <1>6. fed \o wire \in Seq(Byte)
    BY <1>3
  <1>7. PICK new : /\ Cuts(new, Append(sent, f), (fed \o wire) \o e)
                   /\ \A i \in 0..Len(sent) : new[i] = pos[i]
    <2>1. PICK bytes : bytes = fed \o wire
      BY Zenon
    <2>2. bytes \in Seq(Byte) /\ Cuts(pos, sent, bytes) /\ sent \in Seq(Frames)
      BY <1>3, <1>5, <1>6, <2>1
    <2>3. PICK new : /\ Cuts(new, Append(sent, f), bytes \o Encoded(f))
                     /\ \A i \in 0..Len(sent) : new[i] = pos[i]
      BY <2>2, CutsExtend
    <2> QED
      BY <2>1, <2>3
  <1> HIDE DEF e
  <1>8. fed' \o wire' = (fed \o wire) \o e
    <2>1. fed \in Seq(Byte) /\ wire \in Seq(Byte) /\ e \in Seq(Byte)
      BY <1>2, <1>3, Zenon
    <2>2. fed \o (wire \o e) = (fed \o wire) \o e
      BY <2>1, JoinAssociates
    <2>3. fed' = fed /\ wire' = wire \o e
      BY <1>1, Zenon
    <2> QED
      BY <2>2, <2>3
  <1>9. Cuts(new, sent', fed' \o wire')
    BY <1>1, <1>7, <1>8, Zenon
  <1>10. new[Len(frames')] = Len(fed') - Len(buffer') + consumed'
    <2>1. Len(frames) \in 0..Len(sent)
      BY <1>3
    <2> QED
      BY <1>1, <1>5, <1>7, <2>1, Zenon
  <1>11. /\ sent' \in Seq(Frames) /\ wire' \in Seq(Byte)
         /\ Len(frames') <= Len(sent') /\ \A i \in 1..Len(frames') : frames'[i] = sent'[i]
    BY <1>1, <1>2, <1>3
  <1> QED
    BY <1>4, <1>9, <1>10, <1>11, Zenon DEF StreamInv

(* The reader is fed the first bytes of the wire: all bytes stay in place. *)
LEMMA FeedKeeps ==
  ASSUME NEW s \in Seq(Byte), NEW w \in Seq(Byte), NEW k \in 0..Len(w)
  PROVE  /\ SubSeq(w, 1, k) \in Seq(Byte) /\ Len(SubSeq(w, 1, k)) = k
         /\ From(w, k + 1) \in Seq(Byte)
         /\ (s \o SubSeq(w, 1, k)) \o From(w, k + 1) = s \o w
  <1> DEFINE x == SubSeq(w, 1, k)
             y == From(w, k + 1)
             l == s \o x
             a == l \o y
             b == s \o w
  <1>1. /\ x \in Seq(Byte) /\ Len(x) = k /\ \A i \in 1..k : x[i] = w[i]
    OBVIOUS
  <1>2. /\ y \in Seq(Byte) /\ Len(y) = Len(w) - k
        /\ \A i \in 1..(Len(w) - k) : y[i] = w[k + i]
    BY FromBytes
  <1>3. IsJoin(l, s, x) /\ IsJoin(b, s, w) /\ l \in Seq(Byte)
    <2>1. IsJoin(l, s, x) /\ IsJoin(b, s, w)
      BY <1>1, Joined, Zenon
    <2> QED
      BY <2>1, Zenon DEF IsJoin
  <1>4. IsJoin(a, l, y)
    BY <1>2, <1>3, Joined, Zenon
  <1>5. Len(s) \in Nat /\ Len(w) \in Nat /\ k \in Nat /\ k <= Len(w)
    OBVIOUS
  <1> HIDE DEF x, y, l, a, b
  <1>6. a = b
    <2>1. /\ a \in Seq(Byte) /\ b \in Seq(Byte) /\ Len(l) = Len(s) + k
          /\ Len(a) = Len(s) + Len(w) /\ Len(b) = Len(s) + Len(w)
      BY <1>1, <1>2, <1>3, <1>4, <1>5 DEF IsJoin
    <2>2. ASSUME NEW i \in 1..(Len(s) + Len(w)) PROVE a[i] = b[i]
      <3>1. CASE i <= Len(s)
        <4>1. i \in 1..Len(s) /\ i \in 1..Len(l)
          BY <3>1, <1>5, <2>1
        <4>2. a[i] = l[i] /\ l[i] = s[i] /\ b[i] = s[i]
          BY <4>1, <1>3, <1>4 DEF IsJoin
        <4> QED
          BY <4>2
      <3>2. CASE i > Len(s) /\ i <= Len(s) + k
        <4>1. PICK j : j = i - Len(s)
          OBVIOUS
        <4>2. j \in 1..Len(x) /\ j \in 1..Len(w) /\ i = Len(s) + j /\ i \in 1..Len(l)
          BY <4>1, <3>2, <1>1, <1>5, <2>1
        <4>3. a[i] = l[i]
          BY <4>2, <1>4 DEF IsJoin
        <4>4. l[Len(s) + j] = x[j] /\ b[Len(s) + j] = w[j] /\ x[j] = w[j]
          BY <4>2, <1>1, <1>3 DEF IsJoin
        <4> QED
          BY <4>2, <4>3, <4>4
      <3>3. CASE i > Len(s) + k
        <4>1. PICK j : j = i - Len(s) - k
          OBVIOUS
        <4>2. /\ j \in 1..Len(y) /\ k + j \in 1..Len(w) /\ i = Len(l) + j
              /\ i = Len(s) + (k + j) /\ j \in 1..(Len(w) - k)
          BY <4>1, <3>3, <1>2, <1>5, <2>1
        <4>3. a[Len(l) + j] = y[j]
          BY <4>2, <1>4 DEF IsJoin
        <4>4. b[Len(s) + (k + j)] = w[k + j] /\ y[j] = w[k + j]
          BY <4>2, <1>2, <1>3 DEF IsJoin
        <4> QED
          BY <4>2, <4>3, <4>4
      <3> QED
        BY <3>1, <3>2, <3>3, <1>5
    <2> QED
      BY <2>1, <2>2, SameElements
  <1> QED
    BY <1>1, <1>2, <1>6, Zenon DEF x, y, l, a, b

(* Receive() moves bytes from the wire to the reader. *)
LEMMA ReceiveInd == ASSUME StreamInv, NEW k \in 1..MaxChunk, Receive(k) PROVE StreamInv'
  <1> DEFINE data == SubSeq(wire, 1, k)
  <1>1. /\ k <= Len(wire) /\ feed(data) /\ wire' = From(wire, k + 1) /\ sent' = sent
    BY DEF Receive
  <1>2. /\ FrameInv /\ sent \in Seq(Frames) /\ wire \in Seq(Byte) /\ fed \in Seq(Byte)
        /\ buffer \in Seq(Byte) /\ consumed \in Nat
        /\ Len(frames) <= Len(sent) /\ \A i \in 1..Len(frames) : frames[i] = sent[i]
    <2>1. /\ FrameInv /\ sent \in Seq(Frames) /\ wire \in Seq(Byte)
          /\ Len(frames) <= Len(sent) /\ \A i \in 1..Len(frames) : frames[i] = sent[i]
      BY Zenon DEF StreamInv
    <2>2. fed \in Seq(Byte) /\ buffer \in Seq(Byte) /\ consumed \in 0..Len(buffer)
      BY <2>1, Zenon DEF FrameInv, FrameTypeOK
    <2>3. consumed \in Nat
      BY <2>2
    <2> QED
      BY <2>1, <2>2, <2>3, Zenon
  <1>3. k \in 0..Len(wire)
    BY <1>1, <1>2, FramesAssumption
  <1>4. /\ data \in Seq(Byte) /\ Len(data) = k /\ wire' \in Seq(Byte)
        /\ (fed \o data) \o wire' = fed \o wire
    BY <1>1, <1>2, <1>3, FeedKeeps, Zenon
  <1> HIDE DEF data
  <1>5. FrameInv'
    BY <1>1, <1>2, <1>4, FeedInv
  <1>6. /\ fed' = fed \o data /\ buffer' = buffer \o data
        /\ consumed' = consumed /\ frames' = frames
    BY <1>1 DEF feed
  <1>7. Len(fed') - Len(buffer') = Len(fed) - Len(buffer)
    BY <1>2, <1>4, <1>6
  <1>8. PICK pos : /\ Cuts(pos, sent, fed \o wire)
                   /\ pos[Len(frames)] = Len(fed) - Len(buffer) + consumed
    BY DEF StreamInv
  <1>9. Cuts(pos, sent', fed' \o wire')
    BY <1>1, <1>4, <1>6, <1>8, Zenon
  <1>10. pos[Len(frames')] = Len(fed') - Len(buffer') + consumed'
    BY <1>6, <1>7, <1>8, Zenon
  <1>11. /\ sent' \in Seq(Frames)
         /\ Len(frames') <= Len(sent') /\ \A i \in 1..Len(frames') : frames'[i] = sent'[i]
    BY <1>1, <1>2, <1>6, Zenon
  <1> QED
    BY <1>4, <1>5, <1>9, <1>10, <1>11, Zenon DEF StreamInv

(* What next() finds: it waits, or it returns the next frame that was sent. *)
Waits == frames' = frames /\ consumed' = 0

Returns(f) == frames' = Append(frames, f) /\ consumed' = Len(Encoded(f))

(* The buffer begins with the frame that is due, as far as it has arrived. *)
LEMMA NextFinds ==
  ASSUME StreamInv, next,
         NEW pos, Cuts(pos, sent, fed \o wire),
         pos[Len(frames)] = Len(fed) - Len(buffer) + consumed
  PROVE  /\ fed' = fed /\ Len(buffer') = Len(buffer) - consumed
         /\ \/ Waits
            \/ Len(frames) < Len(sent) /\ Returns(sent[Len(frames) + 1])
  <1> DEFINE bytes == fed \o wire
             n == Len(frames)
             cur == pos[n]
             b == compact
  <1>1. /\ FrameInv /\ sent \in Seq(Frames) /\ wire \in Seq(Byte) /\ fed \in Seq(Byte)
        /\ buffer \in Seq(Byte) /\ consumed \in 0..Len(buffer)
        /\ n \in Nat /\ Len(sent) \in Nat /\ n <= Len(sent)
        /\ Len(buffer) <= Len(fed)
        /\ \A i \in 1..Len(buffer) : buffer[i] = fed[Len(fed) - Len(buffer) + i]
    BY DEF StreamInv, FrameInv, FrameTypeOK, BufferIsTail
  <1>2. /\ b \in Seq(Byte) /\ Len(b) = Len(buffer) - consumed
        /\ \A i \in 1..Len(b) : b[i] = buffer[consumed + i]
    <2>1. consumed + 1 \in 1..(Len(buffer) + 1)
      BY <1>1
    <2>2. /\ compact \in Seq(Byte) /\ Len(compact) = Len(buffer) - (consumed + 1) + 1
          /\ \A i \in 1..Len(compact) : compact[i] = buffer[(consumed + 1) + i - 1]
      BY <1>1, <2>1, FromBytes, Zenon DEF compact
    <2>3. /\ Len(buffer) - (consumed + 1) + 1 = Len(buffer) - consumed
          /\ \A i \in Nat : (consumed + 1) + i - 1 = consumed + i
      BY <1>1
    <2>4. Len(compact) \in Nat
      BY <2>2
    <2> QED
      BY <2>2, <2>3, <2>4
  <1>3. /\ buffer' = b /\ fed' = fed
        /\ consumed' = parse(b).consumed
        /\ frames' = IF parse(b).status = "Ok"
                     THEN Append(frames, [type |-> parse(b).type, payload |-> parse(b).payload])
                     ELSE frames
    BY DEF next
  <1>4. IsJoin(bytes, fed, wire)
    BY <1>1, Joined
  <1> HIDE DEF b, bytes
  <1>5. /\ pos \in [0..Len(sent) -> Nat] /\ pos[Len(sent)] = Len(bytes)
        /\ \A i \in 1..Len(sent) :
              /\ pos[i] = pos[i - 1] + Len(Encoded(sent[i])) /\ pos[i] <= Len(bytes)
              /\ \A j \in 1..Len(Encoded(sent[i])) :
                    bytes[pos[i - 1] + j] = Encoded(sent[i])[j]
    BY Zenon DEF Cuts, bytes
  <1>6. cur \in Nat /\ cur + Len(b) = Len(fed) /\ Len(b) \in Nat
    BY <1>1, <1>2, <1>5
  <1>7. \A i \in 1..Len(b) : b[i] = bytes[cur + i]
    <2>1. ASSUME NEW i \in 1..Len(b) PROVE b[i] = bytes[cur + i]
      <3>1. consumed + i \in 1..Len(buffer) /\ cur + i \in 1..Len(fed)
        BY <1>1, <1>2, <1>6
      <3>2. Len(fed) - Len(buffer) + (consumed + i) = cur + i
        BY <1>1, <1>2, <1>6
      <3>3. b[i] = fed[cur + i]
        BY <1>1, <1>2, <3>1, <3>2
      <3> QED
        BY <3>1, <3>3, <1>4 DEF IsJoin
    <2> QED
      BY <2>1
  <1> HIDE DEF n, cur
  <1>8. CASE n = Len(sent)
    <2>1. Len(b) = 0
      <3>1. Len(bytes) = Len(fed) + Len(wire) /\ Len(wire) \in Nat /\ cur = Len(bytes)
        BY <1>1, <1>4, <1>5, <1>8 DEF IsJoin, cur
      <3> QED
        BY <3>1, <1>6, <1>1
    <2>2. parse(b) = Result("NeedMore")
      <3>1. b = <<>>
        BY <2>1, <1>2
      <3> QED
        BY <3>1 DEF parse
    <2>3. Waits
      BY <1>3, <2>2 DEF Result, Waits
    <2> QED
      BY <1>2, <1>3, <2>3
  <1>9. CASE n < Len(sent)
    <2> DEFINE f == sent[n + 1]
               e == Encoded(f)
    <2>1. n + 1 \in 1..Len(sent) /\ (n + 1) - 1 = n
      BY <1>1, <1>9
    <2>2. /\ f \in Frames
      BY <1>1, <2>1
    <2>3. \A j \in 1..Len(e) : bytes[cur + j] = e[j]
      BY <1>5, <2>1, Zenon DEF cur
    <2> HIDE DEF f
    <2>4. /\ Fits(f.type) /\ f.payload \in Seq(Byte) /\ Fits(Len(f.payload))
          /\ Len(f.payload) <= MaxFramePayload
          /\ e \in Seq(Byte) /\ Len(e) \in Nat /\ Len(e) > 0
          /\ f = [type |-> f.type, payload |-> f.payload]
      BY <2>2, FrameFits
    <2>5. Agree(b, e)
      <3> HIDE DEF e
      <3> QED
        BY <1>6, <1>7, <2>3, <2>4 DEF Agree
    <2>6. /\ Len(b) >= Len(e) =>
                parse(b) = [status |-> "Ok", type |-> f.type, payload |-> f.payload,
                            consumed |-> Len(e)]
          /\ Len(b) < Len(e) => parse(b) = Result("NeedMore")
      BY <1>2, <2>4, <2>5, ParseEncoded DEF Encoded
    <2> HIDE DEF e
    <2>7. CASE Len(b) >= Len(e)
      <3>1. Returns(f)
        <4>1. /\ parse(b).status = "Ok" /\ parse(b).consumed = Len(e)
              /\ [type |-> parse(b).type, payload |-> parse(b).payload] = f
          BY <2>4, <2>6, <2>7
        <4> QED
          BY <1>3, <4>1 DEF Returns, e
      <3> QED
        BY <1>2, <1>3, <1>9, <3>1 DEF f, n
    <2>8. CASE Len(b) < Len(e)
      <3>1. Waits
        BY <1>3, <2>6, <2>8 DEF Result, Waits
      <3> QED
        BY <1>2, <1>3, <3>1
    <2> QED
      BY <1>6, <2>4, <2>7, <2>8
  <1> QED
    BY <1>1, <1>8, <1>9

(* next() goes on to the end of the frame it returns. *)
LEMMA DrainInd ==
  ASSUME StreamInv, Drain
  PROVE  /\ StreamInv'
         /\ \/ Waits
            \/ Len(frames) < Len(sent) /\ Returns(sent[Len(frames) + 1])
  <1>1. next /\ sent' = sent /\ wire' = wire
    BY DEF Drain
  <1>2. /\ FrameInv /\ sent \in Seq(Frames) /\ wire \in Seq(Byte) /\ fed \in Seq(Byte)
        /\ buffer \in Seq(Byte) /\ consumed \in 0..Len(buffer)
        /\ frames \in Seq([type : Nat, payload : Seq(Byte)])
        /\ Len(frames) <= Len(sent) /\ \A i \in 1..Len(frames) : frames[i] = sent[i]
        /\ Len(frames) \in Nat /\ Len(sent) \in Nat
    BY DEF StreamInv, FrameInv, FrameTypeOK
  <1>3. FrameInv'
    BY <1>1, <1>2, NextInv
  <1>4. PICK pos : /\ Cuts(pos, sent, fed \o wire)
                   /\ pos[Len(frames)] = Len(fed) - Len(buffer) + consumed
    BY DEF StreamInv
  <1>5. /\ fed' = fed /\ Len(buffer') = Len(buffer) - consumed
        /\ \/ Waits
           \/ Len(frames) < Len(sent) /\ Returns(sent[Len(frames) + 1])
    BY <1>1, <1>4, NextFinds, Zenon
  <1>6. Cuts(pos, sent', fed' \o wire')
    BY <1>1, <1>4, <1>5, Zenon
  <1>7. CASE Waits
    <2>1. frames' = frames /\ consumed' = 0
      BY <1>7 DEF Waits
    <2>2. pos[Len(frames')] = Len(fed') - Len(buffer') + consumed'
      BY <1>2, <1>4, <1>5, <2>1
    <2>3. /\ Len(frames') <= Len(sent') /\ \A i \in 1..Len(frames') : frames'[i] = sent'[i]
          /\ sent' \in Seq(Frames) /\ wire' \in Seq(Byte)
      BY <1>1, <1>2, <2>1, Zenon
    <2>4. StreamInv'
      BY <1>3, <1>6, <2>2, <2>3, Zenon DEF StreamInv
    <2> QED
      BY <1>7, <2>4
  <1>8. CASE Len(frames) < Len(sent) /\ Returns(sent[Len(frames) + 1])
    <2> DEFINE f == sent[Len(frames) + 1]
    <2>1. frames' = Append(frames, f) /\ consumed' = Len(Encoded(f))
      BY <1>8 DEF Returns
    <2>2. Len(frames) + 1 \in 1..Len(sent) /\ (Len(frames) + 1) - 1 = Len(frames)
      BY <1>2, <1>8
    <2>3. pos[Len(frames) + 1] = pos[Len(frames)] + Len(Encoded(f))
      BY <1>4, <2>2 DEF Cuts
    <2>4. f \in Frames /\ Len(Encoded(f)) \in Nat
      BY <1>2, <2>2, FrameFits
    <2> HIDE DEF f
    <2>5. /\ Len(frames') = Len(frames) + 1 /\ frames'[Len(frames) + 1] = f
          /\ \A i \in 1..Len(frames) : frames'[i] = frames[i]
      BY <1>2, <2>1
    <2>6. pos[Len(frames')] = Len(fed') - Len(buffer') + consumed'
      <3>1. Len(fed) \in Nat /\ Len(buffer) \in Nat /\ consumed \in Nat
        BY <1>2
      <3> QED
        BY <1>4, <1>5, <2>1, <2>3, <2>4, <2>5, <3>1
    <2>7. \A i \in 1..Len(frames') : frames'[i] = sent'[i]
      <3>1. ASSUME NEW i \in 1..(Len(frames) + 1) PROVE frames'[i] = sent[i]
        <4>1. CASE i = Len(frames) + 1
          BY <4>1, <2>5 DEF f
        <4>2. CASE i # Len(frames) + 1
          <5>1. i \in 1..Len(frames)
            BY <4>2, <1>2
          <5> QED
            BY <5>1, <1>2, <2>5
        <4> QED
          BY <4>1, <4>2
      <3> QED
        BY <3>1, <1>1, <2>5
    <2>8. Len(frames') <= Len(sent') /\ sent' \in Seq(Frames) /\ wire' \in Seq(Byte)
      BY <1>1, <1>2, <1>8, <2>5
    <2>9. StreamInv'
      BY <1>3, <1>6, <2>6, <2>7, <2>8, Zenon DEF StreamInv
    <2> QED
      BY <1>8, <2>9
  <1> QED
    BY <1>5, <1>7, <1>8

-----------------------------------------------------------------------------
(* The refinement: what was sent and not returned is in transit. *)

(* Dropping elements from the front of a sequence. *)
LEMMA FromFacts ==
  ASSUME NEW S, NEW s \in Seq(S), NEW n \in Nat, n <= Len(s)
  PROVE  /\ \A x \in S : From(Append(s, x), n + 1) = Append(From(s, n + 1), x)
         /\ n < Len(s) => /\ From(s, n + 1) # <<>>
                          /\ Head(From(s, n + 1)) = s[n + 1]
                          /\ Tail(From(s, n + 1)) = From(s, n + 2)
  <1>1. ASSUME NEW x \in S PROVE From(Append(s, x), n + 1) = Append(From(s, n + 1), x)
    <2> DEFINE a == From(Append(s, x), n + 1)
               b == Append(From(s, n + 1), x)
    <2>1. /\ a \in Seq(S) /\ Len(a) = Len(s) - n + 1
          /\ \A i \in 1..(Len(s) - n + 1) : a[i] = Append(s, x)[n + i]
      BY DEF From
    <2>2. /\ b \in Seq(S) /\ Len(b) = Len(s) - n + 1
          /\ \A i \in 1..(Len(s) - n) : b[i] = s[n + i]
          /\ b[Len(s) - n + 1] = x
      BY DEF From
    <2> HIDE DEF a, b
    <2>3. ASSUME NEW i \in 1..(Len(s) - n + 1) PROVE a[i] = b[i]
      <3>1. CASE i = Len(s) - n + 1
        BY <3>1, <2>1, <2>2
      <3>2. CASE i # Len(s) - n + 1
        <4>1. i \in 1..(Len(s) - n) /\ n + i \in 1..Len(s)
          BY <3>2
        <4> QED
          BY <4>1, <2>1, <2>2
      <3> QED
        BY <3>1, <3>2
    <2>4. a = b
      BY <2>1, <2>2, <2>3, SameElements
    <2> QED
      BY <2>4 DEF a, b
  <1>2. ASSUME n < Len(s)
        PROVE  /\ From(s, n + 1) # <<>>
               /\ Head(From(s, n + 1)) = s[n + 1]
               /\ Tail(From(s, n + 1)) = From(s, n + 2)
    <2> DEFINE q == From(s, n + 1)
               r == From(s, n + 2)
    <2>1. /\ q \in Seq(S) /\ Len(q) = Len(s) - n
          /\ \A i \in 1..(Len(s) - n) : q[i] = s[n + i]
      BY <1>2 DEF From
    <2>2. /\ r \in Seq(S) /\ Len(r) = Len(s) - n - 1
          /\ \A i \in 1..(Len(s) - n - 1) : r[i] = s[n + 1 + i]
      BY <1>2 DEF From
    <2> HIDE DEF q, r
    <2>3. q # <<>> /\ Head(q) = s[n + 1]
      BY <1>2, <2>1
    <2>4. /\ Tail(q) \in Seq(S) /\ Len(Tail(q)) = Len(s) - n - 1
          /\ \A i \in 1..(Len(s) - n - 1) : Tail(q)[i] = q[i + 1]
      BY <1>2, <2>1, <2>3
    <2>5. ASSUME NEW i \in 1..(Len(s) - n - 1) PROVE Tail(q)[i] = r[i]
      <3>1. i + 1 \in 1..(Len(s) - n) /\ n + (i + 1) = n + 1 + i
        BY <1>2
      <3> QED
        BY <2>1, <2>2, <2>4, <3>1
    <2>6. Tail(q) = r
      BY <2>2, <2>4, <2>5, SameElements
    <2> QED
      BY <2>3, <2>6 DEF q, r
  <1> QED
    BY <1>1, <1>2

(* Every step of the two frame helpers keeps the invariant and is a step of   *)
(* the channel, or leaves the channel as it is.                               *)
LEMMA StreamStep ==
  ASSUME StreamInv, [StreamNext]_stream_vars
  PROVE  /\ StreamInv'
         /\ [Channel!ChannelNext]_<<From(sent, Len(frames) + 1), frames>>
  <1>0. /\ sent \in Seq(Frames) /\ Len(sent) \in Nat /\ Len(frames) \in Nat
        /\ Len(frames) <= Len(sent)
        /\ frames \in Seq([type : Nat, payload : Seq(Byte)])
    BY DEF StreamInv, FrameInv, FrameTypeOK
  <1>1. CASE \E f \in Frames : Send(f)
    <2>1. PICK f \in Frames : Send(f)
      BY <1>1
    <2>2. sent' = Append(sent, f) /\ frames' = frames
      BY <2>1 DEF Send, frame_vars
    <2>3. From(sent, Len(frames) + 1)' = Append(From(sent, Len(frames) + 1), f)
      BY <1>0, <2>2, FromFacts
    <2>4. Channel!ChannelSend(f)
      BY <2>2, <2>3 DEF Channel!ChannelSend
    <2> QED
      BY <2>1, <2>4, SendInd DEF Channel!ChannelNext
  <1>2. CASE \E k \in 1..MaxChunk : Receive(k)
    <2>1. sent' = sent /\ frames' = frames
      BY <1>2 DEF Receive, feed
    <2> QED
      BY <1>2, <2>1, ReceiveInd
  <1>3. CASE Drain
    <2>1. sent' = sent
      BY <1>3 DEF Drain
    <2>2. /\ StreamInv'
          /\ \/ Waits
             \/ Len(frames) < Len(sent) /\ Returns(sent[Len(frames) + 1])
      BY <1>3, DrainInd, Zenon
    <2>3. CASE Waits
      BY <2>1, <2>2, <2>3 DEF Waits
    <2>4. CASE Len(frames) < Len(sent) /\ Returns(sent[Len(frames) + 1])
      <3>1. frames' = Append(frames, sent[Len(frames) + 1]) /\ Len(frames') = Len(frames) + 1
        BY <1>0, <2>4 DEF Returns
      <3>2. /\ From(sent, Len(frames) + 1) # <<>>
            /\ Head(From(sent, Len(frames) + 1)) = sent[Len(frames) + 1]
            /\ Tail(From(sent, Len(frames) + 1)) = From(sent, Len(frames) + 2)
        BY <1>0, <2>4, FromFacts
      <3>3. From(sent, Len(frames) + 1)' = From(sent, Len(frames) + 2)
        BY <1>0, <2>1, <3>1
      <3>4. Channel!ChannelDeliver
        BY <3>1, <3>2, <3>3 DEF Channel!ChannelDeliver
      <3> QED
        BY <2>2, <3>4 DEF Channel!ChannelNext
    <2> QED
      BY <2>2, <2>3, <2>4
  <1>4. CASE UNCHANGED stream_vars
    <2>1. /\ sent' = sent /\ wire' = wire /\ frames' = frames /\ fed' = fed
          /\ buffer' = buffer /\ consumed' = consumed /\ status' = status
      BY <1>4 DEF stream_vars, frame_vars
    <2>2. FrameInv'
      BY <2>1 DEF StreamInv, FrameInv, FrameTypeOK, BufferIsTail
    <2>3. StreamInv'
      BY <2>1, <2>2, Zenon DEF StreamInv
    <2> QED
      BY <2>1, <2>3
  <1> QED
    BY <1>1, <1>2, <1>3, <1>4 DEF StreamNext

(* The plaintext frame helpers implement a reliable channel: whatever types   *)
(* and payloads are sent, and however TCP cuts the bytes up, next() returns   *)
(* the frames that encode() was given, once each, unchanged and in order.     *)
THEOREM StreamImplementsChannel == StreamSpec => ImplementsChannel
  <1>1. StreamInit => Channel!ChannelInit
    BY DEF StreamInit, FrameInit, Channel!ChannelInit, From
  <1>2. StreamInv /\ [StreamNext]_stream_vars
            => StreamInv' /\ [Channel!ChannelNext]_<<From(sent, Len(frames) + 1), frames>>
    BY StreamStep
  <1>3. StreamInit => StreamInv
    BY StreamInitInd
  <1> QED
    BY <1>1, <1>2, <1>3, PTL DEF StreamSpec, ImplementsChannel, Channel!ChannelSpec

-----------------------------------------------------------------------------
(* Any bytes.  Split is recursive, so the proof needs an induction over data: *)
(* it takes the least counterexample of a set of numbers.                     *)

(* A set of natural numbers that is not empty has a least element. *)
LEMMA LeastNatural ==
  ASSUME NEW T, T \subseteq Nat, T # {}
  PROVE  \E x \in T : \A y \in T : x <= y
  <1> DEFINE R == OpToRel(<, Nat)
  <1>1. IsWellFoundedOn(R, Nat)
    BY NatLessThanWellFounded
  <1>2. \A x, y \in Nat : y < x => <<y, x>> \in R
    BY DEF OpToRel
  <1> HIDE DEF R
  <1>3. PICK x \in T : \A y \in T : ~ (<<y, x>> \in R)
    BY <1>1, WFMin, Zenon
  <1>4. \A y \in T : x <= y
    <2> SUFFICES ASSUME NEW y \in T PROVE x <= y
      OBVIOUS
    <2>1. x \in Nat /\ y \in Nat
      OBVIOUS
    <2>2. ~(y < x)
      BY <1>2, <1>3, <2>1, Zenon
    <2> QED
      BY <2>1, <2>2
  <1> QED
    BY <1>4

(* Induction over the natural numbers, for a set instead of a predicate. *)
LEMMA SetInduction ==
  ASSUME NEW T, 0 \in T, \A n \in Nat : n \in T => n + 1 \in T
  PROVE  Nat \subseteq T
  <1> SUFFICES ASSUME Nat \ T # {} PROVE FALSE
    OBVIOUS
  <1>1. PICK x \in Nat \ T : \A y \in Nat \ T : x <= y
    BY LeastNatural
  <1>2. x # 0 /\ x - 1 \in Nat /\ ~(x - 1 \in Nat \ T)
    BY <1>1
  <1> QED
    BY <1>1, <1>2

-----------------------------------------------------------------------------
(* The value of a varint, which the reference sums up in no particular order. *)

Place(v, i) == (v[i] % 128) * 128^(i - 1)

SumsUp(h, v) ==
    h = [s \in SUBSET (1..Len(v)) |->
            IF s = {} THEN 0
            ELSE LET x == CHOOSE x \in s : TRUE
                 IN  (v[x] % 128) * 128^(x - 1) + h[s \ {x}]]

(* The fold is a function that sums up, if there is one. *)
LEMMA ValueSums ==
  ASSUME NEW v, NEW g, SumsUp(g, v)
  PROVE  \E h : SumsUp(h, v) /\ Value(v) = h[1..Len(v)]
  <1> DEFINE h == CHOOSE h : SumsUp(h, v)
  <1>1. SumsUp(h, v)
    BY Zenon
  <1>2. Value(v) = h[1..Len(v)]
    BY DEF Value, MapThenSumSet, MapThenFoldSet, SumsUp
  <1> HIDE DEF h
  <1> QED
    BY <1>1, <1>2, Zenon

(* The four places of a varint. *)
LEMMA Places ==
  ASSUME NEW v \in Seq(Byte), Len(v) <= 4
  PROVE  /\ \A i \in 1..Len(v) : Place(v, i) \in Nat
         /\ 1 <= Len(v) => Place(v, 1) = v[1] % 128
         /\ 2 <= Len(v) => Place(v, 2) = 128 * (v[2] % 128)
         /\ 3 <= Len(v) => Place(v, 3) = 16384 * (v[3] % 128)
         /\ 4 <= Len(v) => Place(v, 4) = 2097152 * (v[4] % 128)
  <1>1. ASSUME NEW i \in 1..Len(v) PROVE v[i] % 128 \in Nat
    BY LowBits
  <1>2. ASSUME NEW x \in Nat, NEW i \in Nat
        PROVE  /\ i = 1 => x * 128^(i - 1) = x
               /\ i = 2 => x * 128^(i - 1) = 128 * x
               /\ i = 3 => x * 128^(i - 1) = 16384 * x
               /\ i = 4 => x * 128^(i - 1) = 2097152 * x
    <2>1. CASE i = 1
      BY <2>1
    <2>2. CASE i = 2
      BY <2>2
    <2>3. CASE i = 3
      BY <2>3
    <2>4. CASE i = 4
      BY <2>4
    <2> QED
      BY <2>1, <2>2, <2>3, <2>4
  <1>3. ASSUME NEW i \in 1..Len(v)
        PROVE  /\ i = 1 => Place(v, i) = v[i] % 128
               /\ i = 2 => Place(v, i) = 128 * (v[i] % 128)
               /\ i = 3 => Place(v, i) = 16384 * (v[i] % 128)
               /\ i = 4 => Place(v, i) = 2097152 * (v[i] % 128)
    <2> DEFINE y == v[i] % 128
    <2>1. i \in Nat /\ y \in Nat
      BY <1>1
    <2>2. Place(v, i) = y * 128^(i - 1)
      BY Zenon DEF Place
    <2> HIDE DEF y
    <2>3. /\ i = 1 => Place(v, i) = y
          /\ i = 2 => Place(v, i) = 128 * y
          /\ i = 3 => Place(v, i) = 16384 * y
          /\ i = 4 => Place(v, i) = 2097152 * y
      BY <1>2, <2>1, <2>2
    <2> QED
      BY <2>3 DEF y
  <1>4. ASSUME NEW i \in 1..Len(v) PROVE Place(v, i) \in Nat
    <2>1. i = 1 \/ i = 2 \/ i = 3 \/ i = 4
      OBVIOUS
    <2> QED
      BY <1>1, <1>3, <2>1
  <1>5. /\ 1 <= Len(v) => Place(v, 1) = v[1] % 128
        /\ 2 <= Len(v) => Place(v, 2) = 128 * (v[2] % 128)
        /\ 3 <= Len(v) => Place(v, 3) = 16384 * (v[3] % 128)
        /\ 4 <= Len(v) => Place(v, 4) = 2097152 * (v[4] % 128)
    BY <1>3
  <1> QED
    BY <1>4, <1>5

(* The sum of the places in s. *)
PlacesIn(w, s) ==
    (IF 1 \in s THEN w[1] ELSE 0) + (IF 2 \in s THEN w[2] ELSE 0)
    + (IF 3 \in s THEN w[3] ELSE 0) + (IF 4 \in s THEN w[4] ELSE 0)

(* Taking a place away. *)
LEMMA PlaceLess ==
  ASSUME NEW w \in [1..4 -> Nat], NEW s \in SUBSET (1..4)
  PROVE  /\ PlacesIn(w, s) \in Nat /\ PlacesIn(w, {}) = 0
         /\ \A x \in s : PlacesIn(w, s) = w[x] + PlacesIn(w, s \ {x})
  <1>0. /\ w[1] \in Nat /\ w[2] \in Nat /\ w[3] \in Nat /\ w[4] \in Nat
    OBVIOUS
  <1>1. PlacesIn(w, s) \in Nat /\ PlacesIn(w, {}) = 0
    BY <1>0 DEF PlacesIn
  <1>2. ASSUME NEW x \in s PROVE PlacesIn(w, s) = w[x] + PlacesIn(w, s \ {x})
    <2>0. x = 1 \/ x = 2 \/ x = 3 \/ x = 4
      OBVIOUS
    <2>1. CASE x = 1
      BY <1>0, <2>1 DEF PlacesIn
    <2>2. CASE x = 2
      BY <1>0, <2>2 DEF PlacesIn
    <2>3. CASE x = 3
      BY <1>0, <2>3 DEF PlacesIn
    <2>4. CASE x = 4
      BY <1>0, <2>4 DEF PlacesIn
    <2> QED
      BY <2>0, <2>1, <2>2, <2>3, <2>4
  <1> QED
    BY <1>1, <1>2

(* Whatever the order, the sum is that of varint_value(). *)
LEMMA ValueIs ==
  ASSUME NEW v \in Seq(Byte), Len(v) <= 4
  PROVE  Value(v) = varint_value(v, Len(v))
  <1> DEFINE L == Len(v)
             w == [i \in 1..4 |-> IF i <= L THEN Place(v, i) ELSE 0]
             one == [i \in 1..4 |-> 1]
             g == [s \in SUBSET (1..L) |-> PlacesIn(w, s)]
  <1>0. L \in Nat /\ \A s \in SUBSET (1..L) : s \in SUBSET (1..4)
    OBVIOUS
  <1>1. w \in [1..4 -> Nat] /\ \A i \in 1..L : i \in 1..4 /\ w[i] = Place(v, i)
    BY Places
  <1>2. one \in [1..4 -> Nat] /\ \A i \in 1..4 : one[i] = 1
    OBVIOUS
  <1> HIDE DEF w, one
  <1>3. SumsUp(g, v)
    <2>1. ASSUME NEW s \in SUBSET (1..L), s # {}, NEW x \in s
          PROVE  g[s] = (v[x] % 128) * 128^(x - 1) + g[s \ {x}]
      <3>1. PlacesIn(w, s) = w[x] + PlacesIn(w, s \ {x})
        BY <1>0, <1>1, PlaceLess
      <3>2. w[x] = (v[x] % 128) * 128^(x - 1)
        BY <1>1 DEF Place
      <3>3. g[s] = PlacesIn(w, s) /\ g[s \ {x}] = PlacesIn(w, s \ {x})
        OBVIOUS
      <3> QED
        BY <3>1, <3>2, <3>3, Zenon
    <2>2. g[{}] = 0
      BY <1>1, PlaceLess
    <2>3. \A s \in SUBSET (1..L) : s # {} => (CHOOSE x \in s : TRUE) \in s
      OBVIOUS
    <2> DEFINE c(s) == CHOOSE x \in s : TRUE
    <2>4. \A s \in SUBSET (1..L) : g[s] =
             IF s = {} THEN 0 ELSE (v[c(s)] % 128) * 128^(c(s) - 1) + g[s \ {c(s)}]
      <3> SUFFICES ASSUME NEW s \in SUBSET (1..L)
                   PROVE  g[s] = IF s = {} THEN 0
                                 ELSE (v[c(s)] % 128) * 128^(c(s) - 1) + g[s \ {c(s)}]
        OBVIOUS
      <3>1. CASE s = {}
        BY <2>2, <3>1, Zenon
      <3>2. CASE s # {}
        <4>1. c(s) \in s
          BY <2>3, <3>2
        <4> HIDE DEF c, g
        <4> QED
          BY <2>1, <3>2, <4>1, Zenon
      <3> QED
        BY <3>1, <3>2, Zenon
    <2>5. g = [s \in SUBSET (1..L) |-> g[s]]
      OBVIOUS
    <2> HIDE DEF g
    <2>6. g = [s \in SUBSET (1..L) |->
                IF s = {} THEN 0 ELSE (v[c(s)] % 128) * 128^(c(s) - 1) + g[s \ {c(s)}]]
      BY <2>4, <2>5, Zenon
    <2> QED
      BY <2>6 DEF SumsUp
  <1>4. PICK h : SumsUp(h, v) /\ Value(v) = h[1..L]
    BY <1>3, ValueSums
  <1>5. h[{}] = 0
    BY <1>4 DEF SumsUp
  <1>6. ASSUME NEW s \in SUBSET (1..L), s # {}
        PROVE  \E x \in s : h[s] = Place(v, x) + h[s \ {x}]
    <2> DEFINE x == CHOOSE x \in s : TRUE
    <2>1. x \in s
      BY <1>6
    <2>2. h[s] = (v[x] % 128) * 128^(x - 1) + h[s \ {x}]
      BY <1>4, <1>6 DEF SumsUp
    <2> HIDE DEF x
    <2> QED
      BY <2>1, <2>2, Zenon DEF Place
  <1>7. \A s \in SUBSET (1..L) : h[s] = PlacesIn(w, s)
    <2> DEFINE Bad == {s \in SUBSET (1..L) : h[s] # PlacesIn(w, s)}
               T == {PlacesIn(one, s) : s \in Bad}
    <2> SUFFICES ASSUME Bad # {} PROVE FALSE
      OBVIOUS
    <2>1. T # {} /\ T \subseteq Nat
      BY <1>0, <1>2, PlaceLess
    <2>2. PICK k \in T : \A y \in T : k <= y
      BY <2>1, LeastNatural
    <2>3. PICK s \in Bad : k = PlacesIn(one, s)
      OBVIOUS
    <2>4. s # {}
      BY <1>0, <1>1, <1>5, PlaceLess
    <2>5. PICK x \in s : h[s] = Place(v, x) + h[s \ {x}]
      BY <1>6, <2>4
    <2>6. x \in 1..4 /\ PlacesIn(one, s) = 1 + PlacesIn(one, s \ {x})
          /\ PlacesIn(one, s \ {x}) \in Nat /\ PlacesIn(one, s) \in Nat
      <3>1. s \in SUBSET (1..4) /\ s \ {x} \in SUBSET (1..4) /\ x \in 1..4 /\ one[x] = 1
        BY <1>0, <1>2
      <3>2. PlacesIn(one, s \ {x}) \in Nat /\ PlacesIn(one, s) \in Nat
        BY <1>2, <3>1, PlaceLess, Zenon
      <3>3. PlacesIn(one, s) = one[x] + PlacesIn(one, s \ {x})
        BY <1>2, <3>1, PlaceLess, Zenon
      <3> QED
        BY <3>1, <3>2, <3>3, Zenon
    <2>7. s \ {x} \notin Bad
      <3> SUFFICES ASSUME s \ {x} \in Bad PROVE FALSE
        OBVIOUS
      <3>1. PlacesIn(one, s \ {x}) \in T
        BY Zenon
      <3>2. k <= PlacesIn(one, s \ {x})
        BY <2>2, <3>1, Zenon
      <3> DEFINE A == PlacesIn(one, s)
                 B == PlacesIn(one, s \ {x})
      <3>3. A \in Nat /\ B \in Nat /\ A = 1 + B /\ A <= B
        BY <2>3, <2>6, <3>2, Zenon
      <3> HIDE DEF A, B, T, Bad
      <3> QED
        BY <3>3
    <2>8. h[s \ {x}] = PlacesIn(w, s \ {x})
      BY <2>7
    <2>9. PlacesIn(w, s) = w[x] + PlacesIn(w, s \ {x}) /\ w[x] = Place(v, x)
      BY <1>0, <1>1, PlaceLess
    <2> QED
      BY <2>5, <2>8, <2>9
  <1>8. Value(v) = PlacesIn(w, 1..L)
    BY <1>4, <1>7
  <1>9. PlacesIn(w, 1..L) = varint_value(v, L)
    <2> DEFINE bits(i) == IF i <= L THEN v[i] % 128 ELSE 0
    <2>1. /\ (IF 1 \in 1..L THEN w[1] ELSE 0) = bits(1)
          /\ (IF 2 \in 1..L THEN w[2] ELSE 0) = 128 * bits(2)
          /\ (IF 3 \in 1..L THEN w[3] ELSE 0) = 16384 * bits(3)
          /\ (IF 4 \in 1..L THEN w[4] ELSE 0) = 2097152 * bits(4)
      BY <1>0, <1>1, Places
    <2>2. varint_value(v, L) = bits(1) + 128 * bits(2) + 16384 * bits(3) + 2097152 * bits(4)
      BY DEF varint_value
    <2> HIDE DEF bits, L
    <2> QED
      BY <2>1, <2>2 DEF PlacesIn
  <1> QED
    BY <1>8, <1>9

-----------------------------------------------------------------------------
(* Headers, by the positions of their bytes. *)

(* Behind position c of s stands a varint of n bytes. *)
VarintIn(s, c, n) ==
    /\ n \in 1..4 /\ c + n <= Len(s)
    /\ \A i \in 1..n : (s[c + i] < 128 <=> i = n)

(* A varint ends at its first byte below 128. *)
LEMMA VarintUnique ==
  ASSUME NEW s \in Seq(Byte), NEW c \in Nat, NEW m, NEW n,
         VarintIn(s, c, m), VarintIn(s, c, n)
  PROVE  m = n
  <1>1. m \in 1..4 /\ n \in 1..4
    BY DEF VarintIn
  <1>2. m < n => FALSE
    BY <1>1 DEF VarintIn
  <1>3. n < m => FALSE
    BY <1>1 DEF VarintIn
  <1> QED
    BY <1>1, <1>2, <1>3

(* The value depends on the bytes of the varint only. *)
LEMMA SameValue ==
  ASSUME NEW d \in Seq(Byte), NEW e \in Seq(Byte), NEW n \in Nat,
         \A i \in 1..n : d[i] = e[i]
  PROVE  varint_value(d, n) = varint_value(e, n)
  <1> DEFINE b(i) == IF i <= n THEN d[i] % 128 ELSE 0
             c(i) == IF i <= n THEN e[i] % 128 ELSE 0
  <1>1. b(1) = c(1) /\ b(2) = c(2) /\ b(3) = c(3) /\ b(4) = c(4)
    OBVIOUS
  <1>2. varint_value(d, n) = b(1) + 128 * b(2) + 16384 * b(3) + 2097152 * b(4)
    BY DEF varint_value
  <1>3. varint_value(e, n) = c(1) + 128 * c(2) + 16384 * c(3) + 2097152 * c(4)
    BY DEF varint_value
  <1> HIDE DEF b, c
  <1> QED
    BY <1>1, <1>2, <1>3

(* The reference looks at parts of the input, the parser at its rest. *)
LEMMA VarintPart ==
  ASSUME NEW s \in Seq(Byte), NEW c \in Nat, NEW n \in Nat, c + n <= Len(s)
  PROVE  LET v == SubSeq(s, c + 1, c + n)
         IN  /\ IsVarint(v) <=> VarintIn(s, c, n)
             /\ VarintIn(s, c, n) => Value(v) = varint_value(From(s, c + 1), n)
  <1> DEFINE v == SubSeq(s, c + 1, c + n)
             r == From(s, c + 1)
  <1>1. v \in Seq(Byte) /\ Len(v) = n /\ \A i \in 1..n : v[i] = s[c + i]
    OBVIOUS
  <1>2. c + 1 \in 1..(Len(s) + 1)
    OBVIOUS
  <1>3. /\ r \in Seq(Byte) /\ Len(r) = Len(s) - (c + 1) + 1
        /\ \A i \in 1..Len(r) : r[i] = s[(c + 1) + i - 1]
    BY <1>2, FromBytes
  <1>4. \A i \in 1..n : r[i] = s[c + i]
    BY <1>3
  <1> HIDE DEF v, r
  <1>5. IsVarint(v) <=> VarintIn(s, c, n)
    BY <1>1 DEF IsVarint, VarintIn, varint_budget
  <1>6. ASSUME VarintIn(s, c, n) PROVE Value(v) = varint_value(r, n)
    <2>1. n <= 4
      BY <1>6 DEF VarintIn
    <2>2. Value(v) = varint_value(v, n)
      BY <1>1, <2>1, ValueIs
    <2>3. \A i \in 1..n : v[i] = r[i]
      BY <1>1, <1>4, Zenon
    <2>4. varint_value(v, n) = varint_value(r, n)
      BY <1>1, <1>3, <2>3, SameValue, Zenon
    <2> QED
      BY <2>2, <2>4, Zenon
  <1> QED
    BY <1>5, <1>6 DEF v, r

(* decode_varint() on any bytes: a varint, the start of one, or too long. *)
LEMMA DecodeIs ==
  ASSUME NEW d \in Seq(Byte)
  PROVE  /\ \A n : VarintIn(d, 0, n) =>
               /\ ~IsVarintStart(d)
               /\ decode_varint(d) =
                     [status |-> "Ok", value |-> varint_value(d, n), consumed |-> n]
         /\ IsVarintStart(d) => decode_varint(d).status = "Incomplete"
         /\ ~IsVarintStart(d) /\ (\A n : ~VarintIn(d, 0, n)) =>
               decode_varint(d).status = "Overflow"
  <1> DEFINE last == {i \in 1..Len(d) : i <= varint_budget /\ d[i] < 128}
  <1>0. \A i \in 1..Len(d) : d[i] \in Int /\ 0 + i = i
    <2>1. \A i \in 1..Len(d) : d[i] \in Byte
      OBVIOUS
    <2>2. \A i \in 1..Len(d) : 0 + i = i
      OBVIOUS
    <2>3. \A x \in Byte : x \in Int
      BY DEF Byte
    <2> QED
      BY <2>1, <2>2, <2>3, Zenon
  <1>1. ASSUME NEW n, VarintIn(d, 0, n)
        PROVE  /\ ~IsVarintStart(d)
               /\ decode_varint(d) =
                     [status |-> "Ok", value |-> varint_value(d, n), consumed |-> n]
    <2>1. /\ n \in 1..4 /\ n <= Len(d) /\ n \in 1..Len(d) /\ d[n] < 128
          /\ \A i \in 1..n : d[i] < 128 => i = n
      BY <1>0, <1>1 DEF VarintIn
    <2>2. ~IsVarintStart(d)
      BY <1>0, <2>1 DEF IsVarintStart
    <2>3. n \in last /\ \A i \in last : n <= i
      BY <2>1 DEF varint_budget
    <2>4. Min(last) = n
      <3>1. \A x \in last : x \in Int
        OBVIOUS
      <3> HIDE DEF last
      <3> QED
        BY <2>3, <3>1 DEF Min
    <2>5. decode_varint(d) = [status |-> "Ok", value |-> varint_value(d, Min(last)),
                              consumed |-> Min(last)]
      BY <2>3 DEF decode_varint
    <2> QED
      BY <2>2, <2>4, <2>5
  <1>2. ASSUME last = {}
        PROVE  decode_varint(d).status =
                  IF Len(d) >= varint_budget THEN "Overflow" ELSE "Incomplete"
    BY <1>2 DEF decode_varint
  <1>3. ASSUME IsVarintStart(d) PROVE decode_varint(d).status = "Incomplete"
    <2>1. last = {} /\ Len(d) < varint_budget
      BY <1>0, <1>3 DEF IsVarintStart, varint_budget
    <2> QED
      BY <1>2, <2>1 DEF varint_budget
  <1>4. ASSUME ~IsVarintStart(d), \A n : ~VarintIn(d, 0, n)
        PROVE  decode_varint(d).status = "Overflow"
    <2>1. last = {}
      <3> SUFFICES ASSUME last # {} PROVE FALSE
        OBVIOUS
      <3>1. PICK m \in last : \A i \in last : m <= i
        <4>1. last \subseteq Nat
          OBVIOUS
        <4> HIDE DEF last
        <4> QED
          BY <4>1, LeastNatural
      <3>2. m \in 1..4 /\ m <= Len(d) /\ \A i \in 1..m : (d[i] < 128 <=> i = m)
        BY <3>1 DEF varint_budget
      <3>3. VarintIn(d, 0, m)
        BY <1>0, <3>2 DEF VarintIn
      <3> QED
        BY <1>4, <3>3
    <2>2. Len(d) >= varint_budget
      BY <1>0, <1>4, <2>1 DEF IsVarintStart, varint_budget
    <2> QED
      BY <1>2, <2>1, <2>2
  <1> QED
    BY <1>1, <1>3, <1>4

(* s begins with the two varints of a header, of l and t bytes. *)
HeaderIn(s, l, t) ==
    /\ s # <<>> /\ s[1] = indicator
    /\ VarintIn(s, 1, l) /\ VarintIn(s, 1 + l, t)

PayloadLen(s, l) == varint_value(From(s, 2), l)
TypeValue(s, l, t) == varint_value(From(s, 2 + l), t)

(* There is one header at most. *)
LEMMA HeaderUnique ==
  ASSUME NEW s \in Seq(Byte), NEW l, NEW t, NEW k, NEW u,
         HeaderIn(s, l, t), HeaderIn(s, k, u)
  PROVE  l = k /\ t = u
  <1>1. l = k
    BY VarintUnique DEF HeaderIn
  <1>2. 1 + l \in Nat
    BY DEF HeaderIn, VarintIn
  <1> QED
    BY <1>1, <1>2, VarintUnique DEF HeaderIn

(* The headers of the reference. *)
LEMMA HeadersAre ==
  ASSUME NEW s \in Seq(Byte)
  PROVE  /\ \A l, t : HeaderIn(s, l, t) =>
               LET h == <<1 + l, 1 + l + t>>
               IN  /\ l \in 1..4 /\ t \in 1..4 /\ 1 + l + t <= Len(s)
                   /\ h \in Headers(s) <=> PayloadLen(s, l) <= MaxFramePayload
                   /\ Value(SubSeq(s, 2, h[1])) = PayloadLen(s, l)
                   /\ Value(SubSeq(s, h[1] + 1, h[2])) = TypeValue(s, l, t)
         /\ \A h \in Headers(s) : \E l, t :
               /\ HeaderIn(s, l, t) /\ PayloadLen(s, l) <= MaxFramePayload
               /\ h = <<1 + l, 1 + l + t>>
  <1>1. ASSUME NEW l, NEW t, HeaderIn(s, l, t)
        PROVE  LET h == <<1 + l, 1 + l + t>>
               IN  /\ l \in 1..4 /\ t \in 1..4 /\ 1 + l + t <= Len(s)
                   /\ h \in Headers(s) <=> PayloadLen(s, l) <= MaxFramePayload
                   /\ Value(SubSeq(s, 2, h[1])) = PayloadLen(s, l)
                   /\ Value(SubSeq(s, h[1] + 1, h[2])) = TypeValue(s, l, t)
    <2> DEFINE h == <<1 + l, 1 + l + t>>
    <2>1. l \in 1..4 /\ t \in 1..4 /\ 1 + l + t <= Len(s) /\ 1 + l <= Len(s)
          /\ VarintIn(s, 1, l) /\ VarintIn(s, 1 + l, t)
      BY <1>1 DEF HeaderIn, VarintIn
    <2>2. IsVarint(SubSeq(s, 1 + 1, 1 + l))
          /\ Value(SubSeq(s, 1 + 1, 1 + l)) = varint_value(From(s, 1 + 1), l)
      BY <2>1, VarintPart
    <2>3. IsVarint(SubSeq(s, (1 + l) + 1, (1 + l) + t))
          /\ Value(SubSeq(s, (1 + l) + 1, (1 + l) + t)) =
                varint_value(From(s, (1 + l) + 1), t)
      <3>1. 1 + l \in Nat /\ t \in Nat /\ (1 + l) + t <= Len(s)
        BY <2>1
      <3> QED
        BY <2>1, <3>1, VarintPart
    <2>4. h[1] = 1 + l /\ h[2] = (1 + l) + t /\ 1 + 1 = 2 /\ (1 + l) + 1 = 2 + l
      BY <2>1
    <2>5. /\ Value(SubSeq(s, 2, h[1])) = PayloadLen(s, l)
          /\ Value(SubSeq(s, h[1] + 1, h[2])) = TypeValue(s, l, t)
          /\ IsVarint(SubSeq(s, 2, h[1])) /\ IsVarint(SubSeq(s, h[1] + 1, h[2]))
      BY <2>2, <2>3, <2>4 DEF PayloadLen, TypeValue
    <2>6. h \in (2..Len(s)) \X (2..Len(s)) /\ h[1] < h[2]
      BY <2>1
    <2>7. s[1] = indicator
      BY <1>1 DEF HeaderIn
    <2> HIDE DEF h
    <2>8. h \in Headers(s) <=> PayloadLen(s, l) <= MaxFramePayload
      BY <2>5, <2>6, <2>7 DEF Headers
    <2> QED
      BY <2>1, <2>5, <2>8 DEF h
  <1>2. ASSUME NEW h \in Headers(s)
        PROVE  \E l, t : /\ HeaderIn(s, l, t) /\ PayloadLen(s, l) <= MaxFramePayload
                         /\ h = <<1 + l, 1 + l + t>>
    <2> DEFINE l == h[1] - 1
               t == h[2] - h[1]
    <2>1. /\ h \in (2..Len(s)) \X (2..Len(s)) /\ s[1] = indicator /\ h[1] < h[2]
          /\ IsVarint(SubSeq(s, 2, h[1])) /\ IsVarint(SubSeq(s, h[1] + 1, h[2]))
          /\ Value(SubSeq(s, 2, h[1])) <= MaxFramePayload
      BY DEF Headers
    <2>2. /\ h[1] \in 2..Len(s) /\ h[2] \in 2..Len(s) /\ h = <<h[1], h[2]>>
          /\ l \in Nat /\ t \in Nat /\ 1 + 1 = 2
          /\ h[1] = 1 + l /\ h[2] = (1 + l) + t /\ h[1] + 1 = (1 + l) + 1
          /\ 1 + l <= Len(s) /\ (1 + l) + t <= Len(s) /\ 1 + l \in Nat
      BY <2>1
    <2> HIDE DEF l, t
    <2>3. VarintIn(s, 1, l) /\ Value(SubSeq(s, 2, h[1])) = varint_value(From(s, 2), l)
      <3>1. LET v == SubSeq(s, 1 + 1, 1 + l)
            IN  /\ IsVarint(v) <=> VarintIn(s, 1, l)
                /\ VarintIn(s, 1, l) => Value(v) = varint_value(From(s, 1 + 1), l)
        BY <2>2, VarintPart
      <3> QED
        BY <2>1, <2>2, <3>1
    <2>4. VarintIn(s, 1 + l, t)
      <3>1. IsVarint(SubSeq(s, (1 + l) + 1, (1 + l) + t)) <=> VarintIn(s, 1 + l, t)
        BY <2>2, VarintPart
      <3> QED
        BY <2>1, <2>2, <3>1
    <2>5. s # <<>>
      BY <2>2
    <2>6. HeaderIn(s, l, t) /\ PayloadLen(s, l) <= MaxFramePayload
      BY <2>1, <2>3, <2>4, <2>5 DEF HeaderIn, PayloadLen
    <2>7. h = <<1 + l, 1 + l + t>>
      BY <2>2
    <2> QED
      BY <2>6, <2>7
  <1> QED
    BY <1>1, <1>2

(* The rest of the input is decoded, the reference counts from its beginning. *)
LEMMA Shifted ==
  ASSUME NEW s \in Seq(Byte), NEW c \in Nat, c <= Len(s), NEW n
  PROVE  VarintIn(s, c, n) <=> VarintIn(From(s, c + 1), 0, n)
  <1> DEFINE r == From(s, c + 1)
  <1>1. c + 1 \in 1..(Len(s) + 1)
    OBVIOUS
  <1>2. /\ r \in Seq(Byte) /\ Len(r) = Len(s) - (c + 1) + 1
        /\ \A i \in 1..Len(r) : r[i] = s[(c + 1) + i - 1]
    BY <1>1, FromBytes
  <1> HIDE DEF r
  <1>3. n \in 1..4 => (c + n <= Len(s) <=> 0 + n <= Len(r))
    BY <1>2
  <1>4. ASSUME n \in 1..4, 0 + n <= Len(r), NEW i \in 1..n
        PROVE  r[0 + i] = s[c + i]
    <2>1. i \in 1..Len(r) /\ 0 + i = i /\ (c + 1) + i - 1 = c + i
      BY <1>2, <1>4
    <2> QED
      BY <1>2, <2>1
  <1>5. VarintIn(s, c, n) <=> VarintIn(r, 0, n)
    <2>1. CASE n \in 1..4 /\ 0 + n <= Len(r)
      <3>1. \A i \in 1..n : r[0 + i] = s[c + i]
        BY <1>4, <2>1, Zenon
      <3> QED
        BY <1>3, <2>1, <3>1, Zenon DEF VarintIn
    <2>2. CASE ~(n \in 1..4 /\ 0 + n <= Len(r))
      BY <1>3, <2>2, Zenon DEF VarintIn
    <2> QED
      BY <2>1, <2>2, Zenon
  <1> QED
    BY <1>5 DEF r

(* A frame at the beginning of s, of n bytes. *)
FrameIn(s, f, n) ==
    \E l, t \in 1..4 :
        /\ HeaderIn(s, l, t) /\ PayloadLen(s, l) <= MaxFramePayload
        /\ n = 1 + l + t + PayloadLen(s, l) /\ n <= Len(s)
        /\ f = [type |-> TypeValue(s, l, t), payload |-> SubSeq(s, 1 + l + t + 1, n)]

(* What can be completed, by the positions of the header. *)
FrameStart(s) ==
    \/ s = <<>>
    \/ /\ s # <<>> /\ s[1] = indicator
       /\ \/ IsVarintStart(From(s, 2))
          \/ \E l \in 1..4 : VarintIn(s, 1, l) /\ IsVarintStart(From(s, 2 + l))
          \/ \E l, t \in 1..4 :
                /\ HeaderIn(s, l, t) /\ PayloadLen(s, l) <= MaxFramePayload
                /\ Len(s) < 1 + l + t + PayloadLen(s, l)

(* The values of a header are numbers. *)
LEMMA HeaderValues ==
  ASSUME NEW s \in Seq(Byte), NEW l, NEW t, HeaderIn(s, l, t)
  PROVE  /\ l \in 1..4 /\ t \in 1..4 /\ 1 + l + t <= Len(s)
         /\ PayloadLen(s, l) \in Nat /\ TypeValue(s, l, t) \in Nat
  <1>1. l \in 1..4 /\ t \in 1..4 /\ 1 + l + t <= Len(s) /\ 1 + l <= Len(s)
    BY DEF HeaderIn, VarintIn
  <1>2. 2 \in 1..(Len(s) + 1) /\ 2 + l \in 1..(Len(s) + 1)
    BY <1>1
  <1>3. From(s, 2) \in Seq(Byte) /\ Len(From(s, 2)) = Len(s) - 2 + 1
    BY <1>2, FromBytes
  <1>4. From(s, 2 + l) \in Seq(Byte) /\ Len(From(s, 2 + l)) = Len(s) - (2 + l) + 1
    BY <1>2, FromBytes
  <1>5. l \in Nat /\ t \in Nat /\ l <= Len(From(s, 2)) /\ t <= Len(From(s, 2 + l))
    BY <1>1, <1>3, <1>4
  <1> QED
    BY <1>1, <1>3, <1>4, <1>5, ValueIsNat DEF PayloadLen, TypeValue

(* A complete frame of the reference is a frame at the beginning. *)
LEMMA CompleteIs ==
  ASSUME NEW s \in Seq(Byte)
  PROVE  /\ \A h \in Headers(s) : Complete(s, h) =>
               LET n == h[2] + Value(SubSeq(s, 2, h[1]))
               IN  FrameIn(s, [type |-> Value(SubSeq(s, h[1] + 1, h[2])),
                               payload |-> SubSeq(s, h[2] + 1, n)], n)
         /\ \A f, n : FrameIn(s, f, n) => \E h \in Headers(s) : Complete(s, h)
  <1>1. ASSUME NEW h \in Headers(s), Complete(s, h)
        PROVE  LET n == h[2] + Value(SubSeq(s, 2, h[1]))
               IN  FrameIn(s, [type |-> Value(SubSeq(s, h[1] + 1, h[2])),
                               payload |-> SubSeq(s, h[2] + 1, n)], n)
    <2>1. PICK l, t : /\ HeaderIn(s, l, t) /\ PayloadLen(s, l) <= MaxFramePayload
                      /\ h = <<1 + l, 1 + l + t>>
      BY HeadersAre
    <2>2. h[1] = 1 + l /\ h[2] = 1 + l + t
      BY <2>1
    <2>3. /\ Value(SubSeq(s, 2, h[1])) = PayloadLen(s, l)
          /\ Value(SubSeq(s, h[1] + 1, h[2])) = TypeValue(s, l, t)
      BY <2>1, HeadersAre
    <2>4. /\ l \in 1..4 /\ t \in 1..4 /\ 1 + l + t <= Len(s)
          /\ PayloadLen(s, l) \in Nat /\ TypeValue(s, l, t) \in Nat
      BY <2>1, HeaderValues
    <2> DEFINE n == h[2] + Value(SubSeq(s, 2, h[1]))
               p == SubSeq(s, h[2] + 1, n)
    <2>5. n = 1 + l + t + PayloadLen(s, l)
      BY <2>2, <2>3, <2>4
    <2>6. n <= Len(s)
      BY <1>1, <2>2, <2>3, <2>4 DEF Complete
    <2>7. p = SubSeq(s, 1 + l + t + 1, n)
      BY <2>2
    <2> HIDE DEF n, p
    <2>8. FrameIn(s, [type |-> TypeValue(s, l, t), payload |-> p], n)
      BY <2>1, <2>4, <2>5, <2>6, <2>7 DEF FrameIn
    <2> QED
      BY <2>3, <2>8 DEF n, p
  <1>2. ASSUME NEW f, NEW n, FrameIn(s, f, n)
        PROVE  \E h \in Headers(s) : Complete(s, h)
    <2>1. PICK l, t \in 1..4 :
             /\ HeaderIn(s, l, t) /\ PayloadLen(s, l) <= MaxFramePayload
             /\ n = 1 + l + t + PayloadLen(s, l) /\ n <= Len(s)
      BY <1>2 DEF FrameIn
    <2> DEFINE h == <<1 + l, 1 + l + t>>
    <2>2. h \in Headers(s) /\ Value(SubSeq(s, 2, h[1])) = PayloadLen(s, l)
      BY <2>1, HeadersAre
    <2>3. PayloadLen(s, l) \in Nat
      BY <2>1, HeaderValues
    <2>4. h[2] = 1 + l + t
      OBVIOUS
    <2> HIDE DEF h
    <2>5. Complete(s, h)
      BY <2>1, <2>2, <2>3, <2>4 DEF Complete
    <2> QED
      BY <2>2, <2>5
  <1> QED
    BY <1>1, <1>2

(* There is one frame at the beginning at most. *)
LEMMA FrameUnique ==
  ASSUME NEW s \in Seq(Byte), NEW f, NEW n, NEW g, NEW m, FrameIn(s, f, n), FrameIn(s, g, m)
  PROVE  f = g /\ n = m
  <1>1. PICK l, t \in 1..4 :
           /\ HeaderIn(s, l, t) /\ n = 1 + l + t + PayloadLen(s, l)
           /\ f = [type |-> TypeValue(s, l, t), payload |-> SubSeq(s, 1 + l + t + 1, n)]
    BY DEF FrameIn
  <1>2. PICK k, u \in 1..4 :
           /\ HeaderIn(s, k, u) /\ m = 1 + k + u + PayloadLen(s, k)
           /\ g = [type |-> TypeValue(s, k, u), payload |-> SubSeq(s, 1 + k + u + 1, m)]
    BY DEF FrameIn
  <1>3. l = k /\ t = u
    BY <1>1, <1>2, HeaderUnique
  <1> QED
    BY <1>1, <1>2, <1>3

(* A frame of n bytes: its size, and that it is of the type of a frame. *)
LEMMA FrameFacts ==
  ASSUME NEW s \in Seq(Byte), NEW f, NEW n, FrameIn(s, f, n)
  PROVE  /\ n \in 1..Len(s) /\ f \in [type : Nat, payload : Seq(Byte)]
         /\ From(s, n + 1) \in Seq(Byte) /\ Len(From(s, n + 1)) = Len(s) - n
  <1>1. PICK l, t \in 1..4 :
           /\ HeaderIn(s, l, t) /\ n = 1 + l + t + PayloadLen(s, l) /\ n <= Len(s)
           /\ f = [type |-> TypeValue(s, l, t), payload |-> SubSeq(s, 1 + l + t + 1, n)]
    BY DEF FrameIn
  <1>2. PayloadLen(s, l) \in Nat /\ TypeValue(s, l, t) \in Nat
    BY <1>1, HeaderValues
  <1>3. n \in 1..Len(s) /\ n + 1 \in 1..(Len(s) + 1)
    <2>1. l \in 1..4 /\ t \in 1..4 /\ n = 1 + l + t + PayloadLen(s, l) /\ n <= Len(s)
      BY <1>1, Zenon
    <2> DEFINE p == PayloadLen(s, l)
    <2>2. p \in Nat /\ n = 1 + l + t + p
      BY <1>2, <2>1, Zenon
    <2> HIDE DEF p
    <2>3. n \in Nat /\ n >= 1
      BY <2>1, <2>2
    <2> QED
      BY <2>1, <2>3
  <1>4. SubSeq(s, 1 + l + t + 1, n) \in Seq(Byte)
    <2> DEFINE k == 1 + l + t + 1
    <2>1. k \in Nat /\ k >= 1
      BY <1>1
    <2> HIDE DEF k
    <2> QED
      BY <1>3, <2>1
  <1>5. f \in [type : Nat, payload : Seq(Byte)]
    BY <1>1, <1>2, <1>4
  <1>6. From(s, n + 1) \in Seq(Byte) /\ Len(From(s, n + 1)) = Len(s) - (n + 1) + 1
    BY <1>3, FromBytes
  <1> QED
    BY <1>3, <1>5, <1>6

(* IsFrameStart by positions. *)
LEMMA StartIs ==
  ASSUME NEW s \in Seq(Byte)
  PROVE  IsFrameStart(s) <=> FrameStart(s)
  <1>1. CASE s = <<>>
    BY <1>1 DEF IsFrameStart, FrameStart
  <1>2. CASE s # <<>> /\ s[1] # indicator
    <2>1. Headers(s) = {}
      BY <1>2 DEF Headers
    <2> QED
      BY <1>2, <2>1 DEF IsFrameStart, FrameStart
  <1>3. CASE s # <<>> /\ s[1] = indicator
    <2>1. Tail(s) = From(s, 2) /\ Len(s) >= 1
      BY <1>3 DEF From
    <2>2. ASSUME NEW i \in 2..Len(s), IsVarint(SubSeq(s, 2, i)), IsVarintStart(From(s, i + 1))
          PROVE  \E l \in 1..4 : VarintIn(s, 1, l) /\ IsVarintStart(From(s, 2 + l))
      <3> DEFINE l == i - 1
      <3>1. l \in Nat /\ 1 + l = i /\ 1 + 1 = 2 /\ 1 + l <= Len(s) /\ i + 1 = 2 + l
        OBVIOUS
      <3> HIDE DEF l
      <3>2. IsVarint(SubSeq(s, 1 + 1, 1 + l)) <=> VarintIn(s, 1, l)
        BY <3>1, VarintPart
      <3>3. VarintIn(s, 1, l)
        BY <2>2, <3>1, <3>2
      <3>4. l \in 1..4
        BY <3>3 DEF VarintIn
      <3>5. IsVarintStart(From(s, 2 + l))
        BY <2>2, <3>1
      <3> QED
        BY <3>3, <3>4, <3>5
    <2>3. ASSUME NEW l \in 1..4, VarintIn(s, 1, l), IsVarintStart(From(s, 2 + l))
          PROVE  \E i \in 2..Len(s) : IsVarint(SubSeq(s, 2, i)) /\ IsVarintStart(From(s, i + 1))
      <3> DEFINE i == 1 + l
      <3>1. 1 + 1 = 2 /\ 1 + l <= Len(s) /\ i + 1 = 2 + l /\ i \in 2..Len(s) /\ l \in Nat
        BY <2>3 DEF VarintIn
      <3>2. IsVarint(SubSeq(s, 1 + 1, 1 + l)) <=> VarintIn(s, 1, l)
        BY <3>1, VarintPart
      <3>3. IsVarint(SubSeq(s, 2, i))
        BY <2>3, <3>1, <3>2
      <3>4. IsVarintStart(From(s, i + 1))
        BY <2>3, <3>1
      <3> HIDE DEF i
      <3> QED
        BY <3>1, <3>3, <3>4
    <2>4. ASSUME NEW h \in Headers(s), ~Complete(s, h)
          PROVE  \E l, t \in 1..4 : /\ HeaderIn(s, l, t) /\ PayloadLen(s, l) <= MaxFramePayload
                                    /\ Len(s) < 1 + l + t + PayloadLen(s, l)
      <3>1. PICK l, t : /\ HeaderIn(s, l, t) /\ PayloadLen(s, l) <= MaxFramePayload
                        /\ h = <<1 + l, 1 + l + t>>
        BY HeadersAre
      <3>2. Value(SubSeq(s, 2, h[1])) = PayloadLen(s, l) /\ h[2] = 1 + l + t
        BY <3>1, HeadersAre
      <3>3. l \in 1..4 /\ t \in 1..4 /\ PayloadLen(s, l) \in Nat
        BY <3>1, HeaderValues
      <3>4. Len(s) < 1 + l + t + PayloadLen(s, l)
        BY <2>4, <3>2, <3>3 DEF Complete
      <3> QED
        BY <3>1, <3>3, <3>4
    <2>5. ASSUME NEW l \in 1..4, NEW t \in 1..4, HeaderIn(s, l, t),
                 PayloadLen(s, l) <= MaxFramePayload,
                 Len(s) < 1 + l + t + PayloadLen(s, l)
          PROVE  \E h \in Headers(s) : ~Complete(s, h)
      <3> DEFINE h == <<1 + l, 1 + l + t>>
      <3>1. h \in Headers(s) /\ Value(SubSeq(s, 2, h[1])) = PayloadLen(s, l)
        BY <2>5, HeadersAre
      <3>2. PayloadLen(s, l) \in Nat
        BY <2>5, HeaderValues
      <3>3. h[2] = 1 + l + t
        OBVIOUS
      <3> HIDE DEF h
      <3>4. ~Complete(s, h)
        BY <2>5, <3>1, <3>2, <3>3 DEF Complete
      <3> QED
        BY <3>1, <3>4
    <2> DEFINE A == IsVarintStart(From(s, 2))
               B == \E l \in 1..4 : VarintIn(s, 1, l) /\ IsVarintStart(From(s, 2 + l))
               C == \E l, t \in 1..4 :
                       /\ HeaderIn(s, l, t) /\ PayloadLen(s, l) <= MaxFramePayload
                       /\ Len(s) < 1 + l + t + PayloadLen(s, l)
               D == \E i \in 2..Len(s) : IsVarint(SubSeq(s, 2, i)) /\ IsVarintStart(From(s, i + 1))
               E == \E h \in Headers(s) : ~Complete(s, h)
    <2>6. B <=> D
      BY <2>2, <2>3, Zenon
    <2>7. C <=> E
      BY <2>4, <2>5, Zenon
    <2>8. FrameStart(s) <=> A \/ B \/ C
      BY <1>3, Zenon DEF FrameStart
    <2>9. IsFrameStart(s) <=> A \/ D \/ E
      BY <1>3, <2>1, Zenon DEF IsFrameStart
    <2> QED
      BY <2>6, <2>7, <2>8, <2>9, Zenon
  <1> QED
    BY <1>1, <1>2, <1>3

-----------------------------------------------------------------------------
(* parse() against the reference. *)

ParseOutcome(b, r) ==
    /\ r.status = "Ok" =>
          FrameIn(b, [type |-> r.type, payload |-> r.payload], r.consumed)
    /\ r.status # "Ok" => (\A f, n : ~FrameIn(b, f, n)) /\ r.consumed = 0
    /\ r.status = "NeedMore" => FrameStart(b)
    /\ r.status = "ProtocolError" => ~FrameStart(b)
    /\ r.status = "EncryptionMismatchError" => b # <<>> /\ b[1] = noise_indicator

(* No frame, and more input is needed or of no use. *)
LEMMA NoFrame ==
  ASSUME NEW b, \A f, n : ~FrameIn(b, f, n)
  PROVE  /\ FrameStart(b) => ParseOutcome(b, Result("NeedMore"))
         /\ ~FrameStart(b) => ParseOutcome(b, Result("ProtocolError"))
  <1>1. Result("NeedMore").status = "NeedMore" /\ Result("NeedMore").consumed = 0
    BY DEF Result
  <1>2. Result("ProtocolError").status = "ProtocolError" /\ Result("ProtocolError").consumed = 0
    BY DEF Result
  <1>3. "NeedMore" # "Ok" /\ "NeedMore" # "ProtocolError"
        /\ "NeedMore" # "EncryptionMismatchError" /\ "ProtocolError" # "Ok"
        /\ "ProtocolError" # "EncryptionMismatchError"
    OBVIOUS
  <1>4. FrameStart(b) => ParseOutcome(b, Result("NeedMore"))
    BY <1>1, <1>3, Zenon DEF ParseOutcome
  <1>5. ~FrameStart(b) => ParseOutcome(b, Result("ProtocolError"))
    BY <1>2, <1>3, Zenon DEF ParseOutcome
  <1> QED
    BY <1>4, <1>5

(* Without a header there is no frame. *)
LEMMA NoHeader ==
  ASSUME NEW b, \A l, t : ~HeaderIn(b, l, t)
  PROVE  \A f, n : ~FrameIn(b, f, n)
  BY Zenon DEF FrameIn

(* The indicator byte is missing or wrong. *)
LEMMA ParseIndicator ==
  ASSUME NEW b \in Seq(Byte), b = <<>> \/ b[1] # indicator
  PROVE  ParseOutcome(b, parse(b))
  <1>1. \A f, n : ~FrameIn(b, f, n)
    BY NoHeader DEF HeaderIn
  <1>2. CASE b = <<>>
    <2>1. parse(b) = Result("NeedMore")
      BY <1>2 DEF parse
    <2>2. FrameStart(b)
      BY <1>2 DEF FrameStart
    <2> QED
      BY <1>1, <2>1, <2>2, NoFrame, Zenon
  <1>3. CASE b # <<>> /\ b[1] = noise_indicator
    <2>1. parse(b) = Result("EncryptionMismatchError")
      BY <1>3 DEF parse, noise_indicator, indicator
    <2> QED
      BY <1>1, <1>3, <2>1 DEF ParseOutcome, Result
  <1>4. CASE b # <<>> /\ b[1] \notin {indicator, noise_indicator}
    <2>1. parse(b) = Result("ProtocolError")
      BY <1>4 DEF parse, noise_indicator, indicator
    <2>2. ~FrameStart(b)
      BY <1>4, Zenon DEF FrameStart
    <2> QED
      BY <1>1, <2>1, <2>2, NoFrame, Zenon
  <1> QED
    BY <1>2, <1>3, <1>4

(* The length does not end in the buffer. *)
LEMMA ParseLength ==
  ASSUME NEW b \in Seq(Byte), b # <<>>, b[1] = indicator, \A l : ~VarintIn(b, 1, l)
  PROVE  ParseOutcome(b, parse(b))
  <1> DEFINE d == From(b, 2)
             len == decode_varint(d)
  <1>1. 1 \in Nat /\ 1 <= Len(b) /\ 2 \in 1..(Len(b) + 1) /\ 1 + 1 = 2
    OBVIOUS
  <1>2. d \in Seq(Byte)
    BY <1>1, FromBytes
  <1>3. \A n : ~VarintIn(d, 0, n)
    <2> SUFFICES ASSUME NEW n PROVE ~VarintIn(d, 0, n)
      OBVIOUS
    <2>1. VarintIn(b, 1, n) <=> VarintIn(From(b, 1 + 1), 0, n)
      BY <1>1, Shifted
    <2> QED
      BY <1>1, <2>1
  <1>4. \A f, n : ~FrameIn(b, f, n)
    BY NoHeader, Zenon DEF HeaderIn
  <1>5. FrameStart(b) <=> IsVarintStart(d)
    BY Zenon DEF FrameStart, HeaderIn
  <1>6. len.status = IF IsVarintStart(d) THEN "Incomplete" ELSE "Overflow"
    BY <1>2, <1>3, DecodeIs
  <1>7. len.status # "Ok" => parse(b) =
           Result(IF len.status = "Incomplete" THEN "NeedMore" ELSE "ProtocolError")
    BY DEF parse, indicator, noise_indicator
  <1> HIDE DEF d, len
  <1>8. parse(b) = Result(IF IsVarintStart(d) THEN "NeedMore" ELSE "ProtocolError")
    BY <1>6, <1>7
  <1>9. CASE IsVarintStart(d)
    BY <1>4, <1>5, <1>8, <1>9, NoFrame, Zenon
  <1>10. CASE ~IsVarintStart(d)
    BY <1>4, <1>5, <1>8, <1>10, NoFrame, Zenon
  <1> QED
    BY <1>9, <1>10

(* The length ends, the type does not. *)
LEMMA ParseType ==
  ASSUME NEW b \in Seq(Byte), b # <<>>, b[1] = indicator, NEW l, VarintIn(b, 1, l),
         \A t : ~VarintIn(b, 1 + l, t)
  PROVE  ParseOutcome(b, parse(b))
  <1> DEFINE d == From(b, 2)
             len == decode_varint(d)
             e == From(b, 2 + l)
             typ == decode_varint(e)
  <1>1. /\ 1 \in Nat /\ 1 <= Len(b) /\ 2 \in 1..(Len(b) + 1) /\ 1 + 1 = 2
        /\ l \in 1..4 /\ 1 + l \in Nat /\ 1 + l <= Len(b) /\ (1 + l) + 1 = 2 + l
        /\ 2 + l \in 1..(Len(b) + 1)
    BY DEF VarintIn
  <1>2. d \in Seq(Byte) /\ e \in Seq(Byte)
    BY <1>1, FromBytes
  <1>3. VarintIn(d, 0, l)
    <2>1. VarintIn(b, 1, l) <=> VarintIn(From(b, 1 + 1), 0, l)
      BY <1>1, Shifted
    <2> QED
      BY <1>1, <2>1
  <1>4. \A n : ~VarintIn(e, 0, n)
    <2> SUFFICES ASSUME NEW n PROVE ~VarintIn(e, 0, n)
      OBVIOUS
    <2>1. VarintIn(b, 1 + l, n) <=> VarintIn(From(b, (1 + l) + 1), 0, n)
      BY <1>1, Shifted
    <2> QED
      BY <1>1, <2>1
  <1>5. \A k : VarintIn(b, 1, k) => k = l
    BY <1>1, VarintUnique
  <1>6. \A k, t : ~HeaderIn(b, k, t)
    BY <1>5, Zenon DEF HeaderIn
  <1>7. \A f, n : ~FrameIn(b, f, n)
    BY <1>6, NoHeader, Zenon
  <1>8. ~IsVarintStart(d) /\ len.status = "Ok" /\ len.consumed = l
    BY <1>2, <1>3, DecodeIs
  <1>9. typ.status = IF IsVarintStart(e) THEN "Incomplete" ELSE "Overflow"
    BY <1>2, <1>4, DecodeIs
  <1>10. FrameStart(b) <=> IsVarintStart(e)
    <2>1. FrameStart(b) => IsVarintStart(e)
      BY <1>5, <1>6, <1>8, Zenon DEF FrameStart
    <2>2. IsVarintStart(e) => FrameStart(b)
      BY <1>1, Zenon DEF FrameStart
    <2> QED
      BY <2>1, <2>2
  <1>11. typ.status # "Ok" => parse(b) =
            Result(IF typ.status = "Incomplete" THEN "NeedMore" ELSE "ProtocolError")
    BY <1>8 DEF parse, indicator, noise_indicator
  <1> HIDE DEF d, e, len, typ
  <1>12. parse(b) = Result(IF IsVarintStart(e) THEN "NeedMore" ELSE "ProtocolError")
    BY <1>9, <1>11
  <1>13. CASE IsVarintStart(e)
    BY <1>7, <1>10, <1>12, <1>13, NoFrame, Zenon
  <1>14. CASE ~IsVarintStart(e)
    BY <1>7, <1>10, <1>12, <1>14, NoFrame, Zenon
  <1> QED
    BY <1>13, <1>14

(* The header is there. *)
LEMMA ParseHeader ==
  ASSUME NEW b \in Seq(Byte), NEW l, NEW t, HeaderIn(b, l, t)
  PROVE  ParseOutcome(b, parse(b))
  <1> DEFINE d == From(b, 2)
             len == decode_varint(d)
             e == From(b, 2 + l)
             typ == decode_varint(e)
             p == PayloadLen(b, l)
             m == TypeValue(b, l, t)
             c == 1 + l + t
  <1>0. b # <<>> /\ b[1] = indicator /\ VarintIn(b, 1, l) /\ VarintIn(b, 1 + l, t)
    BY DEF HeaderIn
  <1>1. /\ 1 \in Nat /\ 1 <= Len(b) /\ 2 \in 1..(Len(b) + 1) /\ 1 + 1 = 2
        /\ l \in 1..4 /\ 1 + l \in Nat /\ 1 + l <= Len(b) /\ (1 + l) + 1 = 2 + l
        /\ 2 + l \in 1..(Len(b) + 1)
    BY <1>0 DEF VarintIn
  <1>2. d \in Seq(Byte) /\ e \in Seq(Byte)
    BY <1>1, FromBytes
  <1>3. VarintIn(d, 0, l)
    <2>1. VarintIn(b, 1, l) <=> VarintIn(From(b, 1 + 1), 0, l)
      BY <1>1, Shifted
    <2> QED
      BY <1>0, <1>1, <2>1
  <1>4. VarintIn(e, 0, t)
    <2>1. VarintIn(b, 1 + l, t) <=> VarintIn(From(b, (1 + l) + 1), 0, t)
      BY <1>1, Shifted
    <2> QED
      BY <1>0, <1>1, <2>1
  <1>5. /\ ~IsVarintStart(d)
        /\ len = [status |-> "Ok", value |-> varint_value(d, l), consumed |-> l]
    BY <1>2, <1>3, DecodeIs
  <1>6. /\ ~IsVarintStart(e)
        /\ typ = [status |-> "Ok", value |-> varint_value(e, t), consumed |-> t]
    BY <1>2, <1>4, DecodeIs
  <1>7. \A k, u : HeaderIn(b, k, u) => k = l /\ u = t
    BY HeaderUnique, Zenon
  <1>8. \A k : VarintIn(b, 1, k) => k = l
    BY <1>0, <1>1, VarintUnique
  <1>9. /\ l \in 1..4 /\ t \in 1..4 /\ c <= Len(b) /\ p \in Nat /\ m \in Nat
    BY HeaderValues
  <1>10. parse(b) = take_payload(b, 1 + len.consumed + typ.consumed, len.value, typ.value)
    <2>1. len.status = "Ok" /\ typ.status = "Ok" /\ len.consumed = l
      BY <1>5, <1>6
    <2> HIDE DEF len
    <2>2. parse(b) = take_payload(b, 1 + len.consumed
                                       + decode_varint(From(b, 2 + len.consumed)).consumed,
                                  len.value, decode_varint(From(b, 2 + len.consumed)).value)
      BY <1>0, <2>1 DEF parse, indicator, noise_indicator, len
    <2> QED
      BY <2>1, <2>2
  <1>11. parse(b) = take_payload(b, c, p, m)
    BY <1>5, <1>6, <1>10 DEF PayloadLen, TypeValue
  <1>12. FrameStart(b) <=> p <= MaxFramePayload /\ Len(b) < c + p
    <2>1. FrameStart(b) => p <= MaxFramePayload /\ Len(b) < c + p
      BY <1>0, <1>5, <1>6, <1>7, <1>8, Zenon DEF FrameStart
    <2>2. p <= MaxFramePayload /\ Len(b) < c + p => FrameStart(b)
      BY <1>0, <1>9, Zenon DEF FrameStart
    <2> QED
      BY <2>1, <2>2
  <1>13. ASSUME NEW f, NEW n, FrameIn(b, f, n)
         PROVE  p <= MaxFramePayload /\ c + p <= Len(b)
    BY <1>7, <1>13, Zenon DEF FrameIn
  <1>14. p <= MaxFramePayload /\ c + p <= Len(b) =>
            FrameIn(b, [type |-> m, payload |-> SubSeq(b, c + 1, c + p)], c + p)
    BY <1>9, Zenon DEF FrameIn
  <1>15. c \in Nat
    BY <1>9
  <1> HIDE DEF p, m, c
  <1>16. CASE p > MaxFramePayload
    <2>1. parse(b) = Result("ProtocolError")
      BY <1>9, <1>11, <1>15, <1>16, MaxFramePayloadAssumption DEF take_payload
    <2>2. ~(p <= MaxFramePayload)
      BY <1>9, <1>16, MaxFramePayloadAssumption
    <2> QED
      BY <1>12, <1>13, <2>1, <2>2, NoFrame, Zenon
  <1>17. CASE p <= MaxFramePayload /\ Len(b) < c + p
    <2>1. parse(b) = Result("NeedMore")
      BY <1>9, <1>11, <1>15, <1>17, MaxFramePayloadAssumption DEF take_payload
    <2>2. ~(c + p <= Len(b))
      BY <1>9, <1>15, <1>17
    <2> QED
      BY <1>12, <1>13, <1>17, <2>1, <2>2, NoFrame, Zenon
  <1>18. CASE p <= MaxFramePayload /\ c + p <= Len(b)
    <2>1. parse(b) = [status |-> "Ok", type |-> m, payload |-> SubSeq(b, c + 1, c + p),
                      consumed |-> c + p]
      BY <1>9, <1>11, <1>15, <1>18, MaxFramePayloadAssumption DEF take_payload
    <2> DEFINE q == SubSeq(b, c + 1, c + p)
               n == c + p
    <2>2. FrameIn(b, [type |-> m, payload |-> q], n)
      BY <1>14, <1>18, Zenon
    <2> HIDE DEF q, n
    <2> QED
      BY <2>1, <2>2 DEF ParseOutcome, q, n
  <1> QED
    BY <1>9, <1>15, <1>16, <1>17, <1>18, MaxFramePayloadAssumption

(* parse() finds the frame the reference finds, and fails when it has to. *)
LEMMA ParseIs ==
  ASSUME NEW b \in Seq(Byte)
  PROVE  ParseOutcome(b, parse(b))
  <1>1. CASE b = <<>> \/ b[1] # indicator
    BY <1>1, ParseIndicator
  <1>2. CASE b # <<>> /\ b[1] = indicator
    <2>1. CASE \A l : ~VarintIn(b, 1, l)
      BY <1>2, <2>1, ParseLength
    <2>2. ASSUME NEW l, VarintIn(b, 1, l) PROVE ParseOutcome(b, parse(b))
      <3>1. CASE \A t : ~VarintIn(b, 1 + l, t)
        BY <1>2, <2>2, <3>1, ParseType, Zenon
      <3>2. ASSUME NEW t, VarintIn(b, 1 + l, t) PROVE ParseOutcome(b, parse(b))
        <4>1. HeaderIn(b, l, t)
          BY <1>2, <2>2, <3>2, Zenon DEF HeaderIn
        <4> QED
          BY <4>1, ParseHeader, Zenon
      <3> QED
        BY <3>1, <3>2, Zenon
    <2> QED
      BY <2>1, <2>2, Zenon
  <1> QED
    BY <1>1, <1>2, Zenon

-----------------------------------------------------------------------------
(* Split is the function its definition describes: each of its values depends *)
(* on that of a shorter sequence.                                             *)

HasFrame(s) == \E h \in Headers(s) : Complete(s, h)
HeaderOf(s) == CHOOSE h \in Headers(s) : Complete(s, h)
SizeOf(s) == HeaderOf(s)[2] + Value(SubSeq(s, 2, HeaderOf(s)[1]))
FrameOf(s) == [type |-> Value(SubSeq(s, HeaderOf(s)[1] + 1, HeaderOf(s)[2])),
               payload |-> SubSeq(s, HeaderOf(s)[2] + 1, SizeOf(s))]

Body(g, s) ==
    IF HasFrame(s)
    THEN [g[From(s, SizeOf(s) + 1)] EXCEPT !.frames = <<FrameOf(s)>> \o @]
    ELSE [frames |-> <<>>, rest |-> s]

Unfolds(g) == g = [s \in Seq(Byte) |-> Body(g, s)]

(* g is right for sequences of fewer than N bytes. *)
Upto(g, N) == \A s \in Seq(Byte) : Len(s) < N => g[s] = Body(g, s)

(* The frame the reference chooses is the frame at the beginning. *)
LEMMA FirstFrame ==
  ASSUME NEW s \in Seq(Byte)
  PROVE  /\ HasFrame(s) => FrameIn(s, FrameOf(s), SizeOf(s))
         /\ \A f, n : FrameIn(s, f, n) => HasFrame(s) /\ f = FrameOf(s) /\ n = SizeOf(s)
  <1>1. HasFrame(s) => HeaderOf(s) \in Headers(s) /\ Complete(s, HeaderOf(s))
    BY DEF HasFrame, HeaderOf
  <1>2. HasFrame(s) => FrameIn(s, FrameOf(s), SizeOf(s))
    BY <1>1, CompleteIs, Zenon DEF FrameOf, SizeOf
  <1>3. ASSUME NEW f, NEW n, FrameIn(s, f, n)
        PROVE  HasFrame(s) /\ f = FrameOf(s) /\ n = SizeOf(s)
    <2>1. HasFrame(s)
      BY <1>3, CompleteIs, Zenon DEF HasFrame
    <2> QED
      BY <1>2, <1>3, <2>1, FrameUnique, Zenon
  <1> QED
    BY <1>2, <1>3

(* What follows the frame is shorter. *)
LEMMA RestShorter ==
  ASSUME NEW s \in Seq(Byte), HasFrame(s)
  PROVE  LET r == From(s, SizeOf(s) + 1) IN r \in Seq(Byte) /\ Len(r) < Len(s)
  <1>1. FrameIn(s, FrameOf(s), SizeOf(s))
    BY FirstFrame
  <1> DEFINE n == SizeOf(s)
             r == From(s, n + 1)
  <1>2. n \in 1..Len(s) /\ r \in Seq(Byte) /\ Len(r) = Len(s) - n
    BY <1>1, FrameFacts
  <1> HIDE DEF n, r
  <1>3. r \in Seq(Byte) /\ Len(r) < Len(s)
    BY <1>2
  <1> QED
    BY <1>3 DEF n, r

(* Body looks at shorter sequences only. *)
LEMMA BodyLocal ==
  ASSUME NEW s \in Seq(Byte), NEW g, NEW k,
         \A r \in Seq(Byte) : Len(r) < Len(s) => g[r] = k[r]
  PROVE  Body(g, s) = Body(k, s)
  <1>1. CASE HasFrame(s)
    <2> DEFINE r == From(s, SizeOf(s) + 1)
    <2>1. r \in Seq(Byte) /\ Len(r) < Len(s)
      BY <1>1, RestShorter
    <2>2. g[r] = k[r]
      BY <2>1, Zenon
    <2> QED
      BY <1>1, <2>2, Zenon DEF Body
  <1>2. CASE ~HasFrame(s)
    BY <1>2, Zenon DEF Body
  <1> QED
    BY <1>1, <1>2

(* Two functions that are right for short sequences agree on them. *)
LEMMA UptoUnique ==
  ASSUME NEW g, NEW k, NEW N \in Nat, Upto(g, N), Upto(k, N)
  PROVE  \A s \in Seq(Byte) : Len(s) < N => g[s] = k[s]
  <1> DEFINE Bad == {s \in Seq(Byte) : Len(s) < N /\ g[s] # k[s]}
             T == {Len(s) : s \in Bad}
  <1> SUFFICES ASSUME Bad # {} PROVE FALSE
    OBVIOUS
  <1>0. \A s \in Seq(Byte) : Len(s) \in Nat
    OBVIOUS
  <1>1. T # {} /\ T \subseteq Nat
    BY <1>0, Zenon
  <1>2. PICK x \in T : \A y \in T : x <= y
    BY <1>1, LeastNatural
  <1>3. PICK s \in Bad : x = Len(s)
    OBVIOUS
  <1>4. s \in Seq(Byte) /\ Len(s) < N /\ g[s] # k[s] /\ Len(s) \in Nat
    OBVIOUS
  <1>5. ASSUME NEW r \in Seq(Byte), Len(r) < Len(s) PROVE g[r] = k[r]
    <2> SUFFICES ASSUME g[r] # k[r] PROVE FALSE
      OBVIOUS
    <2>1. Len(r) \in Nat /\ Len(r) < N
      BY <1>4, <1>5
    <2>2. r \in Bad
      BY <2>1
    <2>3. Len(r) \in T
      BY <2>2, Zenon
    <2>4. Len(s) <= Len(r)
      BY <1>2, <1>3, <2>3, Zenon
    <2> QED
      BY <1>4, <1>5, <2>1, <2>4
  <1>6. Body(g, s) = Body(k, s)
    BY <1>4, <1>5, BodyLocal, Zenon
  <1>7. g[s] = Body(g, s) /\ k[s] = Body(k, s)
    BY <1>4, Zenon DEF Upto
  <1> QED
    BY <1>4, <1>6, <1>7, Zenon

(* There is a function that is right up to any length. *)
LEMMA UptoExists == \A N \in Nat : \E g : Upto(g, N)
  <1> DEFINE T == {N \in Nat : \E g : Upto(g, N)}
  <1>1. 0 \in T
    <2>1. Upto(0, 0)
      <3> SUFFICES ASSUME NEW s \in Seq(Byte), Len(s) < 0 PROVE FALSE
        BY Zenon DEF Upto
      <3>1. Len(s) \in Nat
        OBVIOUS
      <3> QED
        BY <3>1
    <2> QED
      BY <2>1, Zenon
  <1>2. ASSUME NEW n \in Nat, n \in T PROVE n + 1 \in T
    <2>1. PICK g : Upto(g, n)
      BY <1>2
    <2> DEFINE k == [s \in Seq(Byte) |-> Body(g, s)]
    <2>2. \A s \in Seq(Byte) : k[s] = Body(g, s)
      OBVIOUS
    <2> HIDE DEF k
    <2>3. ASSUME NEW s \in Seq(Byte), Len(s) < n + 1 PROVE k[s] = Body(k, s)
      <3>1. ASSUME NEW r \in Seq(Byte), Len(r) < Len(s) PROVE g[r] = k[r]
        <4>1. Len(r) < n
          <5>1. Len(r) \in Nat /\ Len(s) \in Nat
            OBVIOUS
          <5> QED
            BY <2>3, <3>1, <5>1
        <4>2. g[r] = Body(g, r)
          BY <2>1, <4>1, Zenon DEF Upto
        <4> QED
          BY <2>2, <4>2, Zenon
      <3>2. Body(g, s) = Body(k, s)
        BY <3>1, BodyLocal, Zenon
      <3> QED
        BY <2>2, <3>2, Zenon
    <2>4. Upto(k, n + 1)
      BY <2>3, Zenon DEF Upto
    <2>5. n + 1 \in Nat
      OBVIOUS
    <2> QED
      BY <2>4, <2>5, Zenon
  <1>3. Nat \subseteq T
    <2> HIDE DEF T
    <2> QED
      BY <1>1, <1>2, SetInduction
  <1> QED
    BY <1>3

(* Put together, they are right for every sequence. *)
LEMMA UnfoldsExists == \E g : Unfolds(g)
  <1> DEFINE G(N) == CHOOSE g : Upto(g, N)
             k == [s \in Seq(Byte) |-> G(Len(s) + 1)[s]]
  <1>1. \A N \in Nat : Upto(G(N), N)
    BY UptoExists, Zenon
  <1>2. \A s \in Seq(Byte) : k[s] = G(Len(s) + 1)[s]
    OBVIOUS
  <1>3. k = [s \in Seq(Byte) |-> k[s]]
    OBVIOUS
  <1> HIDE DEF G, k
  <1>4. ASSUME NEW s \in Seq(Byte) PROVE k[s] = Body(k, s)
    <2> DEFINE N == Len(s) + 1
    <2>1. N \in Nat /\ Len(s) < N /\ Len(s) \in Nat
      OBVIOUS
    <2>2. Upto(G(N), N)
      BY <1>1, <2>1, Zenon
    <2>3. k[s] = G(N)[s]
      BY <1>2, Zenon
    <2> HIDE DEF N
    <2>4. G(N)[s] = Body(G(N), s)
      BY <2>1, <2>2, Zenon DEF Upto
    <2>5. ASSUME NEW r \in Seq(Byte), Len(r) < Len(s) PROVE G(N)[r] = k[r]
      <3> DEFINE M == Len(r) + 1
      <3>1. M \in Nat /\ Len(r) < M /\ Len(r) \in Nat
        OBVIOUS
      <3>2. k[r] = G(M)[r]
        BY <1>2, Zenon
      <3> HIDE DEF M
      <3>3. Upto(G(M), M)
        BY <1>1, <3>1, Zenon
      <3>4. Upto(G(N), M)
        <4>1. \A x \in Seq(Byte) : Len(x) < M => Len(x) < N
          <5> SUFFICES ASSUME NEW x \in Seq(Byte), Len(x) < M PROVE Len(x) < N
            OBVIOUS
          <5>1. Len(x) \in Nat
            OBVIOUS
          <5> QED
            BY <2>1, <2>5, <3>1, <5>1 DEF M, N
        <4> QED
          BY <2>2, <4>1, Zenon DEF Upto
      <3> QED
        BY <3>1, <3>2, <3>3, <3>4, UptoUnique, Zenon
    <2>6. Body(G(N), s) = Body(k, s)
      BY <2>5, BodyLocal, Zenon
    <2> QED
      BY <2>3, <2>4, <2>6, Zenon
  <1>5. Unfolds(k)
    BY <1>3, <1>4, Zenon DEF Unfolds
  <1> QED
    BY <1>5, Zenon

(* The value of Split on any bytes. *)
LEMMA SplitIs == \A s \in Seq(Byte) : Split[s] = Body(Split, s)
  <1> DEFINE g == CHOOSE g : Unfolds(g)
  <1>1. Unfolds(g)
    BY UnfoldsExists, Zenon
  <1>2. Split = g
    BY Zenon DEF Split, Unfolds, Body, HasFrame, FrameOf, SizeOf, HeaderOf
  <1> HIDE DEF g
  <1>3. Split = [s \in Seq(Byte) |-> Body(Split, s)]
    BY <1>1, <1>2, Zenon DEF Unfolds
  <1> QED
    BY <1>3, Zenon

SplitResults == [frames : Seq([type : Nat, payload : Seq(Byte)]), rest : Seq(Byte)]

(* What Split returns: frames, and bytes. *)
LEMMA SplitType == \A s \in Seq(Byte) : Split[s] \in SplitResults
  <1> DEFINE Bad == {s \in Seq(Byte) : Split[s] \notin SplitResults}
             T == {Len(s) : s \in Bad}
  <1> SUFFICES ASSUME Bad # {} PROVE FALSE
    OBVIOUS
  <1>0. \A s \in Seq(Byte) : Len(s) \in Nat
    OBVIOUS
  <1>1. T # {} /\ T \subseteq Nat
    BY <1>0, Zenon
  <1>2. PICK x \in T : \A y \in T : x <= y
    BY <1>1, LeastNatural
  <1>3. PICK s \in Bad : x = Len(s)
    OBVIOUS
  <1>4. s \in Seq(Byte) /\ Split[s] \notin SplitResults /\ Split[s] = Body(Split, s)
    BY SplitIs
  <1>5. CASE HasFrame(s)
    <2> DEFINE r == From(s, SizeOf(s) + 1)
               f == FrameOf(s)
    <2>1. r \in Seq(Byte) /\ Len(r) < Len(s)
      BY <1>4, <1>5, RestShorter
    <2>2. f \in [type : Nat, payload : Seq(Byte)]
      BY <1>4, <1>5, FirstFrame, FrameFacts, Zenon
    <2>3. Split[s] = [Split[r] EXCEPT !.frames = <<f>> \o @]
      BY <1>4, <1>5, Zenon DEF Body
    <2> HIDE DEF r, f
    <2>4. Split[r] \in SplitResults
      <3> SUFFICES ASSUME Split[r] \notin SplitResults PROVE FALSE
        OBVIOUS
      <3>1. Len(r) \in T
        BY <2>1, Zenon
      <3>2. Len(s) <= Len(r)
        BY <1>2, <1>3, <3>1, Zenon
      <3>3. Len(s) \in Nat /\ Len(r) \in Nat
        BY <1>0, <1>4, <2>1, Zenon
      <3> QED
        BY <2>1, <3>2, <3>3
    <2>5. [Split[r] EXCEPT !.frames = <<f>> \o @] \in SplitResults
      <3> DEFINE q == Split[r]
                 F == [type : Nat, payload : Seq(Byte)]
      <3>1. q \in SplitResults /\ f \in F
        BY <2>2, <2>4
      <3> HIDE DEF q, F
      <3>2. q \in [frames : Seq(F), rest : Seq(Byte)]
        BY <3>1 DEF SplitResults, F
      <3>3. q.frames \in Seq(F)
        BY <3>2
      <3>4. <<f>> \o q.frames \in Seq(F)
        BY <3>1, <3>3
      <3>5. [q EXCEPT !.frames = <<f>> \o @] \in [frames : Seq(F), rest : Seq(Byte)]
        BY <3>2, <3>4
      <3> QED
        BY <3>5 DEF q, F, SplitResults
    <2> QED
      BY <1>4, <2>3, <2>5, Zenon
  <1>6. CASE ~HasFrame(s)
    <2>1. Split[s] = [frames |-> <<>>, rest |-> s]
      BY <1>4, <1>6, Zenon DEF Body
    <2>2. [frames |-> <<>>, rest |-> s] \in SplitResults
      BY <1>4 DEF SplitResults
    <2> QED
      BY <1>4, <2>1, <2>2, Zenon
  <1> QED
    BY <1>5, <1>6

(* One frame is split off. *)
LEMMA SplitFrame ==
  ASSUME NEW s \in Seq(Byte), NEW f, NEW n, FrameIn(s, f, n)
  PROVE  LET q == Split[From(s, n + 1)]
         IN  Split[s].frames = <<f>> \o q.frames /\ Split[s].rest = q.rest
  <1> DEFINE q == Split[From(s, n + 1)]
  <1>1. HasFrame(s) /\ f = FrameOf(s) /\ n = SizeOf(s)
    BY FirstFrame
  <1>2. Split[s] = [q EXCEPT !.frames = <<f>> \o @]
    BY <1>1, SplitIs, Zenon DEF Body
  <1>3. q \in SplitResults
    BY FrameFacts, SplitType, Zenon
  <1> HIDE DEF q
  <1>4. Split[s].frames = <<f>> \o q.frames /\ Split[s].rest = q.rest
    BY <1>2, <1>3 DEF SplitResults
  <1> QED
    BY <1>4 DEF q

(* Nothing can be split off. *)
LEMMA SplitNone ==
  ASSUME NEW s \in Seq(Byte), \A f, n : ~FrameIn(s, f, n)
  PROVE  Split[s].frames = <<>> /\ Split[s].rest = s
  <1>1. ~HasFrame(s)
    BY FirstFrame, Zenon
  <1>2. Split[s] = [frames |-> <<>>, rest |-> s]
    BY <1>1, SplitIs, Zenon DEF Body
  <1> QED
    BY <1>2

(* A varint stays where it is when bytes are added behind it. *)
LEMMA VarintStays ==
  ASSUME NEW s \in Seq(Byte), NEW u \in Seq(Byte), NEW c \in Nat, NEW n,
         Len(s) <= Len(u), \A i \in 1..Len(s) : u[i] = s[i], VarintIn(s, c, n)
  PROVE  /\ VarintIn(u, c, n)
         /\ varint_value(From(u, c + 1), n) = varint_value(From(s, c + 1), n)
  <1>1. n \in 1..4 /\ n \in Nat /\ c + n <= Len(s) /\ c + n <= Len(u)
    BY DEF VarintIn
  <1>2. \A i \in 1..n : u[c + i] = s[c + i]
    BY <1>1
  <1>3. VarintIn(u, c, n)
    BY <1>1, <1>2, Zenon DEF VarintIn
  <1> DEFINE p == From(s, c + 1)
             q == From(u, c + 1)
  <1>4. c + 1 \in 1..(Len(s) + 1) /\ c + 1 \in 1..(Len(u) + 1)
    BY <1>1
  <1>5. /\ p \in Seq(Byte) /\ Len(p) = Len(s) - (c + 1) + 1
        /\ \A i \in 1..Len(p) : p[i] = s[(c + 1) + i - 1]
    BY <1>4, FromBytes
  <1>6. /\ q \in Seq(Byte) /\ Len(q) = Len(u) - (c + 1) + 1
        /\ \A i \in 1..Len(q) : q[i] = u[(c + 1) + i - 1]
    BY <1>4, FromBytes
  <1> HIDE DEF p, q
  <1>7. \A i \in 1..n : p[i] = s[c + i]
    BY <1>1, <1>5
  <1>8. \A i \in 1..n : q[i] = u[c + i]
    BY <1>1, <1>6
  <1>9. \A i \in 1..n : q[i] = p[i]
    BY <1>2, <1>7, <1>8, Zenon
  <1>10. varint_value(q, n) = varint_value(p, n)
    BY <1>1, <1>5, <1>6, <1>9, SameValue, Zenon
  <1> QED
    BY <1>3, <1>10 DEF p, q

(* So does a frame: no byte that arrives later changes it. *)
LEMMA FrameStays ==
  ASSUME NEW s \in Seq(Byte), NEW u \in Seq(Byte), NEW f, NEW n,
         Len(s) <= Len(u), \A i \in 1..Len(s) : u[i] = s[i], FrameIn(s, f, n)
  PROVE  FrameIn(u, f, n)
  <1>1. PICK l, t \in 1..4 :
           /\ HeaderIn(s, l, t) /\ PayloadLen(s, l) <= MaxFramePayload
           /\ n = 1 + l + t + PayloadLen(s, l) /\ n <= Len(s)
           /\ f = [type |-> TypeValue(s, l, t), payload |-> SubSeq(s, 1 + l + t + 1, n)]
    BY DEF FrameIn
  <1>2. s # <<>> /\ s[1] = indicator /\ VarintIn(s, 1, l) /\ VarintIn(s, 1 + l, t)
    BY <1>1, Zenon DEF HeaderIn
  <1>3. 1 \in Nat /\ 1 + l \in Nat /\ 1 + 1 = 2 /\ (1 + l) + 1 = 2 + l
        /\ 1 + l + t + 1 \in Nat /\ 1 + l + t + 1 >= 1
    OBVIOUS
  <1>4. VarintIn(u, 1, l) /\ varint_value(From(u, 1 + 1), l) = varint_value(From(s, 1 + 1), l)
    BY <1>2, <1>3, VarintStays
  <1>5. /\ VarintIn(u, 1 + l, t)
        /\ varint_value(From(u, (1 + l) + 1), t) = varint_value(From(s, (1 + l) + 1), t)
    BY <1>2, <1>3, VarintStays
  <1>6. u # <<>> /\ u[1] = indicator
    <2>1. Len(s) >= 1
      BY <1>2
    <2>2. Len(u) >= 1 /\ u[1] = s[1]
      BY <2>1
    <2> QED
      BY <1>2, <2>2
  <1>7. HeaderIn(u, l, t) /\ PayloadLen(u, l) = PayloadLen(s, l)
        /\ TypeValue(u, l, t) = TypeValue(s, l, t)
    BY <1>3, <1>4, <1>5, <1>6, Zenon DEF HeaderIn, PayloadLen, TypeValue
  <1>8. n \in 1..Len(s)
    BY FrameFacts
  <1>9. n <= Len(u)
    BY <1>8
  <1>10. SubSeq(u, 1 + l + t + 1, n) = SubSeq(s, 1 + l + t + 1, n)
    <2> DEFINE a == 1 + l + t + 1
               x == SubSeq(s, a, n)
               y == SubSeq(u, a, n)
    <2>1. a \in Nat /\ a >= 1
      OBVIOUS
    <2> HIDE DEF a
    <2>2. /\ x \in Seq(Byte) /\ Len(x) = IF a <= n THEN n - a + 1 ELSE 0
          /\ \A i \in 1..Len(x) : x[i] = s[a + i - 1]
      BY <1>8, <2>1
    <2>3. /\ y \in Seq(Byte) /\ Len(y) = IF a <= n THEN n - a + 1 ELSE 0
          /\ \A i \in 1..Len(y) : y[i] = u[a + i - 1]
      BY <1>8, <1>9, <2>1
    <2> HIDE DEF x, y
    <2>4. ASSUME NEW i \in 1..Len(x) PROVE x[i] = y[i]
      <3>0. /\ Len(s) \in Nat /\ n \in Nat /\ n <= Len(s) /\ Len(y) = Len(x)
            /\ Len(x) = IF a <= n THEN n - a + 1 ELSE 0
        BY <1>8, <2>2, <2>3
      <3>1. a + i - 1 \in 1..Len(s) /\ i \in 1..Len(y)
        BY <2>1, <3>0
      <3> QED
        BY <2>2, <2>3, <3>1
    <2>5. y = x
      BY <2>2, <2>3, <2>4, SameElements
    <2> QED
      BY <2>5 DEF x, y, a
  <1> QED
    BY <1>1, <1>7, <1>9, <1>10, Zenon DEF FrameIn

-----------------------------------------------------------------------------
(* Where the frames that were returned end in the input. *)

AnyFrame == [type : Nat, payload : Seq(Byte)]

EndsOf(pos, fr, all) ==
    /\ pos[0] = 0 /\ \A i \in 0..Len(fr) : pos[i] \in 0..Len(all)
    /\ \A i \in 1..Len(fr) :
          FrameIn(From(all, pos[i - 1] + 1), fr[i], pos[i] - pos[i - 1])

(* Each of them lies at its place, the buffer begins behind the last one (or  *)
(* with it, while it counts as consumed), and what next() said holds.         *)
SplitInv ==
    /\ \E pos : EndsOf(pos, frames, fed)
                /\ pos[Len(frames)] = (Len(fed) - Len(buffer)) + consumed
    /\ status \notin {"draining", "stopped"} =>
          consumed = 0 /\ parse(buffer).status = status

(* More input leaves the frames where they are. *)
LEMMA EndsStay ==
  ASSUME NEW all \in Seq(Byte), NEW data \in Seq(Byte), NEW fr \in Seq(AnyFrame), NEW pos,
         EndsOf(pos, fr, all)
  PROVE  EndsOf(pos, fr, all \o data)
  <1> DEFINE u == all \o data
  <1>1. /\ u \in Seq(Byte) /\ Len(u) = Len(all) + Len(data)
        /\ \A i \in 1..Len(all) : u[i] = all[i]
    OBVIOUS
  <1> HIDE DEF u
  <1>2. Len(all) \in Nat /\ Len(data) \in Nat /\ Len(fr) \in Nat
    OBVIOUS
  <1>3. pos[0] = 0 /\ \A i \in 0..Len(fr) : pos[i] \in 0..Len(u)
    BY <1>1, <1>2 DEF EndsOf
  <1>4. ASSUME NEW i \in 1..Len(fr)
        PROVE  FrameIn(From(u, pos[i - 1] + 1), fr[i], pos[i] - pos[i - 1])
    <2> DEFINE c == pos[i - 1] + 1
               p == From(all, c)
               q == From(u, c)
    <2>1. c \in 1..(Len(all) + 1) /\ c \in 1..(Len(u) + 1)
      <3>1. i - 1 \in 0..Len(fr)
        BY <1>2
      <3>2. pos[i - 1] \in 0..Len(all)
        BY <3>1 DEF EndsOf
      <3> QED
        BY <1>1, <1>2, <3>2
    <2>2. FrameIn(p, fr[i], pos[i] - pos[i - 1])
      BY DEF EndsOf
    <2> HIDE DEF c
    <2>3. /\ p \in Seq(Byte) /\ Len(p) = Len(all) - c + 1
          /\ \A j \in 1..Len(p) : p[j] = all[c + j - 1]
      BY <2>1, FromBytes
    <2>4. /\ q \in Seq(Byte) /\ Len(q) = Len(u) - c + 1
          /\ \A j \in 1..Len(q) : q[j] = u[c + j - 1]
      BY <1>1, <2>1, FromBytes
    <2> HIDE DEF p, q
    <2>5. Len(p) <= Len(q) /\ \A j \in 1..Len(p) : q[j] = p[j]
      <3>1. /\ Len(p) <= Len(q) /\ c \in Nat /\ c >= 1 /\ c <= Len(all) + 1
            /\ Len(p) \in Nat /\ Len(q) \in Nat /\ Len(p) + c = Len(all) + 1
        BY <1>1, <1>2, <2>1, <2>3, <2>4
      <3>2. ASSUME NEW j \in 1..Len(p) PROVE q[j] = p[j]
        <4>1. c + j - 1 \in 1..Len(all) /\ j \in 1..Len(q)
          BY <1>2, <3>1
        <4> QED
          BY <1>1, <2>3, <2>4, <4>1, Zenon
      <3> QED
        BY <3>1, <3>2
    <2>6. FrameIn(q, fr[i], pos[i] - pos[i - 1])
      BY <2>2, <2>3, <2>4, <2>5, FrameStays, Zenon
    <2> QED
      BY <2>6 DEF q, c
  <1>5. EndsOf(pos, fr, u)
    BY <1>3, <1>4, Zenon DEF EndsOf
  <1> QED
    BY <1>5 DEF u

(* One more frame is returned. *)
LEMMA EndsNext ==
  ASSUME NEW all \in Seq(Byte), NEW fr \in Seq(AnyFrame), NEW pos, NEW f, NEW n,
         EndsOf(pos, fr, all), FrameIn(From(all, pos[Len(fr)] + 1), f, n)
  PROVE  \E q : /\ EndsOf(q, Append(fr, f), all)
                /\ q[Len(Append(fr, f))] = pos[Len(fr)] + n
  <1> DEFINE m == Len(fr)
             c == pos[m]
             r == From(all, c + 1)
             q == [i \in 0..(m + 1) |-> IF i = m + 1 THEN c + n ELSE pos[i]]
             g == Append(fr, f)
  <1>0. m \in Nat /\ Len(all) \in Nat
    OBVIOUS
  <1>1. c \in 0..Len(all)
    BY <1>0 DEF EndsOf
  <1>2. r \in Seq(Byte) /\ Len(r) = Len(all) - c
    <2> HIDE DEF c
    <2>1. c + 1 \in 1..(Len(all) + 1)
      BY <1>0, <1>1
    <2>2. r \in Seq(Byte) /\ Len(r) = Len(all) - (c + 1) + 1
      BY <2>1, FromBytes
    <2> QED
      BY <1>0, <1>1, <2>2
  <1>3. n \in 1..Len(r) /\ f \in AnyFrame
    BY <1>2, FrameFacts, Zenon DEF AnyFrame
  <1>4. Len(g) = m + 1 /\ g[m + 1] = f /\ \A i \in 1..m : g[i] = fr[i]
    BY <1>3
  <1>5. q[m + 1] = c + n /\ \A i \in 0..m : q[i] = pos[i]
    BY <1>0
  <1>6. FrameIn(r, f, n)
    OBVIOUS
  <1> HIDE DEF q, g, r
  <1>7. \A i \in 0..(m + 1) : q[i] \in 0..Len(all)
    <2>1. c + n \in 0..Len(all)
      BY <1>0, <1>1, <1>2, <1>3
    <2>2. \A i \in 0..m : pos[i] \in 0..Len(all)
      BY DEF EndsOf
    <2>3. ASSUME NEW i \in 0..(m + 1) PROVE q[i] \in 0..Len(all)
      <3>1. i = m + 1 \/ i \in 0..m
        BY <1>0
      <3> QED
        BY <1>5, <2>1, <2>2, <3>1, Zenon
    <2> QED
      BY <2>3
  <1>8. q[0] = 0
    BY <1>0, <1>5 DEF EndsOf
  <1>9. ASSUME NEW i \in 1..(m + 1)
        PROVE  FrameIn(From(all, q[i - 1] + 1), g[i], q[i] - q[i - 1])
    <2>1. CASE i = m + 1
      <3>1. i - 1 = m /\ m \in 0..m
        BY <1>0, <2>1
      <3>2. q[i - 1] = c /\ q[i] = c + n /\ g[i] = f
        BY <1>4, <1>5, <2>1, <3>1, Zenon
      <3>3. (c + n) - c = n
        BY <1>0, <1>1, <1>3
      <3> HIDE DEF c, m
      <3> QED
        BY <1>6, <3>2, <3>3, Zenon DEF r
    <2>2. CASE i # m + 1
      <3>1. i \in 1..m /\ i \in 0..m /\ i - 1 \in 0..m
        BY <1>0, <2>2
      <3>2. q[i - 1] = pos[i - 1] /\ q[i] = pos[i] /\ g[i] = fr[i]
        BY <1>4, <1>5, <3>1, Zenon
      <3>3. FrameIn(From(all, pos[i - 1] + 1), fr[i], pos[i] - pos[i - 1])
        BY <3>1, Zenon DEF EndsOf
      <3> QED
        BY <3>2, <3>3, Zenon
    <2> QED
      BY <2>1, <2>2
  <1>10. EndsOf(q, g, all)
    BY <1>4, <1>7, <1>8, <1>9, Zenon DEF EndsOf
  <1> QED
    BY <1>4, <1>5, <1>10, Zenon DEF g

(* The buffer, as a part of the input. *)
LEMMA TailIs ==
  ASSUME NEW all \in Seq(Byte), NEW b \in Seq(Byte), Len(b) <= Len(all),
         \A i \in 1..Len(b) : b[i] = all[Len(all) - Len(b) + i]
  PROVE  b = From(all, (Len(all) - Len(b)) + 1)
  <1> DEFINE c == (Len(all) - Len(b)) + 1
             r == From(all, c)
  <1>0. Len(all) \in Nat /\ Len(b) \in Nat
    OBVIOUS
  <1>1. c \in 1..(Len(all) + 1)
    BY <1>0
  <1>2. /\ r \in Seq(Byte) /\ Len(r) = Len(all) - c + 1
        /\ \A i \in 1..Len(r) : r[i] = all[c + i - 1]
    <2> HIDE DEF c
    <2> QED
      BY <1>1, FromBytes
  <1> HIDE DEF r
  <1>3. Len(r) = Len(b)
    BY <1>0, <1>2
  <1>4. ASSUME NEW i \in 1..Len(b) PROVE b[i] = r[i]
    <2>1. c + i - 1 = Len(all) - Len(b) + i
      BY <1>0
    <2> QED
      BY <1>2, <1>3, <2>1
  <1>5. b = r
    BY <1>2, <1>3, <1>4, SameElements
  <1> QED
    BY <1>5 DEF r

(* The end of the end. *)
LEMMA FromFrom ==
  ASSUME NEW s \in Seq(Byte), NEW p \in 0..Len(s), NEW q \in p..Len(s)
  PROVE  From(From(s, p + 1), (q - p) + 1) = From(s, q + 1)
  <1> DEFINE a == From(s, p + 1)
             n == (q - p) + 1
             b == From(a, n)
             c == From(s, q + 1)
  <1>0. Len(s) \in Nat /\ p \in Nat /\ q \in Nat /\ p <= q /\ q <= Len(s)
    OBVIOUS
  <1>1. p + 1 \in 1..(Len(s) + 1) /\ q + 1 \in 1..(Len(s) + 1)
    BY <1>0
  <1>2. /\ a \in Seq(Byte) /\ Len(a) = Len(s) - (p + 1) + 1
        /\ \A i \in 1..Len(a) : a[i] = s[(p + 1) + i - 1]
    BY <1>1, FromBytes
  <1>3. /\ c \in Seq(Byte) /\ Len(c) = Len(s) - (q + 1) + 1
        /\ \A i \in 1..Len(c) : c[i] = s[(q + 1) + i - 1]
    BY <1>1, FromBytes
  <1> HIDE DEF a, c
  <1>4. n \in 1..(Len(a) + 1)
    BY <1>0, <1>2
  <1>5. /\ b \in Seq(Byte) /\ Len(b) = Len(a) - n + 1
        /\ \A i \in 1..Len(b) : b[i] = a[n + i - 1]
    <2> HIDE DEF n
    <2> QED
      BY <1>2, <1>4, FromBytes
  <1> HIDE DEF b
  <1>6. Len(b) = Len(c)
    BY <1>0, <1>2, <1>3, <1>5
  <1>7. ASSUME NEW i \in 1..Len(b) PROVE b[i] = c[i]
    <2>1. n + i - 1 \in 1..Len(a) /\ (p + 1) + (n + i - 1) - 1 = (q + 1) + i - 1
      BY <1>0, <1>2, <1>5
    <2> QED
      BY <1>2, <1>3, <1>5, <1>6, <2>1
  <1>8. b = c
    BY <1>3, <1>5, <1>6, <1>7, SameElements
  <1> QED
    BY <1>8 DEF a, b, c

(* Split takes apart the frames that were returned, then what follows them:   *)
(* by induction over their number.                                            *)
LEMMA SplitChain ==
  ASSUME NEW all \in Seq(Byte), NEW fr \in Seq(AnyFrame), NEW pos, EndsOf(pos, fr, all)
  PROVE  LET S == Split[all]
             q == Split[From(all, pos[Len(fr)] + 1)]
         IN  /\ Len(S.frames) = Len(fr) + Len(q.frames)
             /\ \A i \in 1..Len(fr) : S.frames[i] = fr[i]
             /\ S.rest = q.rest
  <1> DEFINE m == Len(fr)
             s == Split[all].frames
             e == Split[all].rest
             Q(k) == Split[From(all, pos[k] + 1)].frames
             R(k) == Split[From(all, pos[k] + 1)].rest
             P(k) == /\ Len(s) = k + Len(Q(k))
                     /\ \A i \in 1..k : s[i] = fr[i]
                     /\ \A i \in 1..Len(Q(k)) : s[k + i] = Q(k)[i]
                     /\ e = R(k)
             T == {k \in Nat : k <= m => P(k)}
  <1>0. m \in Nat /\ Len(all) \in Nat
    OBVIOUS
  <1>1. \A i \in 0..m : pos[i] \in 0..Len(all)
    BY DEF EndsOf
  <1>2. ASSUME NEW k \in 0..m
        PROVE  From(all, pos[k] + 1) \in Seq(Byte) /\ Q(k) \in Seq(AnyFrame)
    <2> DEFINE c == pos[k] + 1
    <2>1. c \in 1..(Len(all) + 1)
      BY <1>0, <1>1
    <2> HIDE DEF c
    <2>2. From(all, c) \in Seq(Byte)
      BY <2>1, FromBytes
    <2>3. Split[From(all, c)] \in SplitResults
      BY <2>2, SplitType, Zenon
    <2>4. \A x \in SplitResults : x.frames \in Seq(AnyFrame)
      BY DEF SplitResults, AnyFrame
    <2> QED
      BY <2>2, <2>3, <2>4, Zenon DEF c
  <1>3. 0 \in T
    <2>1. From(all, pos[0] + 1) = all
      <3>1. pos[0] + 1 = 1
        BY DEF EndsOf
      <3>2. From(all, 1) = all
        <4> DEFINE a == From(all, 1)
        <4>1. 1 \in 1..(Len(all) + 1)
          BY <1>0
        <4>2. /\ a \in Seq(Byte) /\ Len(a) = Len(all) - 1 + 1
              /\ \A i \in 1..Len(a) : a[i] = all[1 + i - 1]
          BY <4>1, FromBytes
        <4> HIDE DEF a
        <4>3. Len(a) = Len(all) /\ \A i \in 1..Len(a) : a[i] = all[i]
          BY <1>0, <4>2
        <4>4. a = all
          BY <4>2, <4>3, SameElements
        <4> QED
          BY <4>4 DEF a
      <3> QED
        BY <3>1, <3>2
    <2>2. Q(0) = s /\ R(0) = e
      BY <2>1, Zenon
    <2>3. s \in Seq(AnyFrame)
      <3>1. 0 \in 0..m
        BY <1>0
      <3> QED
        BY <1>2, <2>2, <3>1, Zenon
    <2> HIDE DEF Q, R, s, e
    <2>4. P(0)
      BY <2>2, <2>3
    <2> QED
      BY <2>4
  <1>4. ASSUME NEW k \in Nat, k \in T PROVE k + 1 \in T
    <2> HIDE DEF P
    <2> SUFFICES ASSUME k + 1 <= m PROVE P(k + 1)
      OBVIOUS
    <2> USE DEF P
    <2>1. P(k) /\ k \in 0..m /\ k + 1 \in 0..m /\ k + 1 \in 1..m /\ (k + 1) - 1 = k
      BY <1>0, <1>4
    <2> DEFINE f == fr[k + 1]
               d == From(all, pos[k] + 1)
               n == pos[k + 1] - pos[k]
    <2>2. FrameIn(d, f, n)
      <3>1. FrameIn(From(all, pos[(k + 1) - 1] + 1), fr[k + 1], pos[k + 1] - pos[(k + 1) - 1])
        BY <2>1 DEF EndsOf
      <3> QED
        BY <2>1, <3>1, Zenon
    <2>3. d \in Seq(Byte) /\ pos[k] \in 0..Len(all) /\ pos[k + 1] \in 0..Len(all)
      BY <1>1, <1>2, <2>1
    <2>4. n \in 1..Len(d)
      <3> HIDE DEF n, d, f
      <3> QED
        BY <2>2, <2>3, FrameFacts
    <2>5. From(d, n + 1) = From(all, pos[k + 1] + 1)
      <3>1. pos[k + 1] \in pos[k]..Len(all)
        BY <2>3, <2>4
      <3> QED
        BY <2>3, <3>1, FromFrom
    <2>6. Split[d].frames = <<f>> \o Split[From(d, n + 1)].frames
          /\ Split[d].rest = Split[From(d, n + 1)].rest
      <3> HIDE DEF n, d, f
      <3> QED
        BY <2>2, <2>3, SplitFrame
    <2>7. Q(k) = <<f>> \o Q(k + 1) /\ R(k) = R(k + 1)
      BY <2>5, <2>6, Zenon
    <2>8. Q(k) \in Seq(AnyFrame) /\ Q(k + 1) \in Seq(AnyFrame)
      BY <1>2, <2>1, Zenon
    <2> DEFINE x == Q(k)
               y == Q(k + 1)
    <2>9. /\ Len(s) = k + Len(x) /\ \A i \in 1..k : s[i] = fr[i]
          /\ \A i \in 1..Len(x) : s[k + i] = x[i]
          /\ e = R(k)
      BY <2>1, Zenon
    <2>10. f \in AnyFrame
      BY <2>1
    <2> HIDE DEF Q, R, s, e, f, m
    <2>11. Len(x) = 1 + Len(y) /\ x[1] = f /\ \A i \in 1..Len(y) : x[1 + i] = y[i]
           /\ Len(y) \in Nat
      BY <2>7, <2>8, <2>10
    <2> HIDE DEF x, y
    <2>12. Len(s) = (k + 1) + Len(y)
      BY <2>9, <2>11
    <2>13. ASSUME NEW i \in 1..(k + 1) PROVE s[i] = fr[i]
      <3>1. CASE i = k + 1
        <4>1. 1 \in 1..Len(x)
          BY <2>11
        <4> QED
          BY <2>9, <2>11, <3>1, <4>1 DEF f
      <3>2. CASE i # k + 1
        BY <2>9, <3>2
      <3> QED
        BY <3>1, <3>2
    <2>14. ASSUME NEW i \in 1..Len(y) PROVE s[(k + 1) + i] = y[i]
      <3>1. 1 + i \in 1..Len(x) /\ k + (1 + i) = (k + 1) + i
        BY <2>11
      <3> QED
        BY <2>9, <2>11, <3>1
    <2>15. e = R(k + 1)
      BY <2>7, <2>9, Zenon
    <2> QED
      BY <2>12, <2>13, <2>14, <2>15, Zenon DEF y
  <1>5. Nat \subseteq T
    <2> HIDE DEF T
    <2> QED
      BY <1>3, <1>4, SetInduction
  <1>6. P(m)
    BY <1>0, <1>5
  <1> QED
    BY <1>6, Zenon

(* The invariant says what the reference says. *)
LEMMA SplitInvImplies ==
  ASSUME FrameInv, SplitInv
  PROVE  SplitIsReference
  <1> DEFINE S == Split[fed]
             c == (Len(fed) - Len(buffer)) + consumed
             d == From(fed, c + 1)
             q == Split[d]
             m == Len(frames)
  <1>1. /\ fed \in Seq(Byte) /\ buffer \in Seq(Byte) /\ consumed \in 0..Len(buffer)
        /\ frames \in Seq(AnyFrame) /\ Len(buffer) <= Len(fed)
        /\ \A i \in 1..Len(buffer) : buffer[i] = fed[Len(fed) - Len(buffer) + i]
    BY DEF FrameInv, FrameTypeOK, BufferIsTail, AnyFrame
  <1>2. PICK pos : EndsOf(pos, frames, fed) /\ pos[m] = c
    BY Zenon DEF SplitInv
  <1>3. /\ Len(S.frames) = m + Len(q.frames)
        /\ \A i \in 1..m : S.frames[i] = frames[i]
        /\ S.rest = q.rest
    <2> DEFINE p == Split[From(fed, pos[m] + 1)]
    <2>1. /\ Len(S.frames) = m + Len(p.frames)
          /\ \A i \in 1..m : S.frames[i] = frames[i]
          /\ S.rest = p.rest
      BY <1>1, <1>2, SplitChain, Zenon
    <2>2. p = q
      BY <1>2, Zenon
    <2> QED
      BY <2>1, <2>2, Zenon
  <1>4. d \in Seq(Byte) /\ m \in Nat
    <2>1. c + 1 \in 1..(Len(fed) + 1)
      BY <1>1
    <2> HIDE DEF c
    <2> QED
      BY <1>1, <2>1, FromBytes
  <1>5. S.frames \in Seq(AnyFrame) /\ q.frames \in Seq(AnyFrame)
    <2>1. S \in SplitResults /\ q \in SplitResults
      BY <1>1, <1>4, SplitType, Zenon
    <2>2. \A x \in SplitResults : x.frames \in Seq(AnyFrame)
      BY DEF SplitResults, AnyFrame
    <2> QED
      BY <2>1, <2>2, Zenon
  <1>6. status \notin {"draining", "stopped"} => d = buffer /\ parse(buffer).status = status
    <2> SUFFICES ASSUME status \notin {"draining", "stopped"}
                 PROVE  d = buffer /\ parse(buffer).status = status
      OBVIOUS
    <2>1. consumed = 0 /\ parse(buffer).status = status
      BY DEF SplitInv
    <2>2. c = Len(fed) - Len(buffer)
      BY <1>1, <2>1
    <2>3. buffer = From(fed, (Len(fed) - Len(buffer)) + 1)
      BY <1>1, TailIs
    <2> QED
      BY <2>1, <2>2, <2>3
  <1> DEFINE F == S.frames
  <1> HIDE DEF S, d, c, q
  <1>7. IsPrefix(frames, F)
    <2>1. Len(F) \in Nat /\ Len(q.frames) \in Nat
      BY <1>5
    <2> DEFINE a == SubSeq(frames, 1, m)
               b == SubSeq(F, 1, m)
    <2>2. a \in Seq(AnyFrame) /\ Len(a) = m /\ \A i \in 1..m : a[i] = frames[i]
      BY <1>1, <1>4
    <2>3. m <= Len(F)
      BY <1>3, <1>4, <2>1
    <2> HIDE DEF F
    <2>4. b \in Seq(AnyFrame) /\ Len(b) = m /\ \A i \in 1..m : b[i] = F[i]
      BY <1>4, <1>5, <2>1, <2>3 DEF F
    <2> HIDE DEF a, b, m
    <2>5. \A i \in 1..Len(a) : a[i] = b[i]
      BY <1>3, <2>2, <2>4 DEF F
    <2>6. a = b
      BY <2>2, <2>4, <2>5, SameElements
    <2> QED
      BY <2>3, <2>6, Zenon DEF IsPrefix, a, b, m
  <1>8. ASSUME status \notin {"draining", "stopped"}
        PROVE  /\ frames = F
               /\ status = "NeedMore" => IsFrameStart(S.rest)
               /\ status = "ProtocolError" => ~IsFrameStart(S.rest)
               /\ status = "EncryptionMismatchError" => S.rest[1] = noise_indicator
    <2>1. d = buffer /\ parse(buffer).status = status
      BY <1>6, <1>8
    <2>2. ParseOutcome(buffer, parse(buffer))
      BY <1>1, ParseIs
    <2>3. status # "Ok"
      BY DEF FrameInv, FrameTypeOK
    <2>4. \A f, n : ~FrameIn(buffer, f, n)
      BY <2>1, <2>2, <2>3, Zenon DEF ParseOutcome
    <2>5. q.frames = <<>> /\ q.rest = buffer
      BY <1>1, <2>1, <2>4, SplitNone, Zenon DEF q
    <2>6. S.rest = buffer
      BY <1>3, <2>5
    <2>7. /\ status = "NeedMore" => FrameStart(buffer)
          /\ status = "ProtocolError" => ~FrameStart(buffer)
          /\ status = "EncryptionMismatchError" => buffer[1] = noise_indicator
      BY <2>1, <2>2, Zenon DEF ParseOutcome
    <2>8. IsFrameStart(buffer) <=> FrameStart(buffer)
      BY <1>1, StartIs
    <2>9. Len(F) = m
      <3>1. Len(q.frames) = 0
        BY <2>5
      <3> QED
        BY <1>3, <1>4, <3>1
    <2> HIDE DEF F
    <2>10. \A i \in 1..Len(frames) : frames[i] = F[i]
      BY <1>3 DEF F
    <2>11. frames = F
      BY <1>1, <1>5, <2>9, <2>10, SameElements DEF F
    <2> QED
      BY <2>6, <2>7, <2>8, <2>11, Zenon
  <1>9. /\ status = "NeedMore" => status \notin {"draining", "stopped"}
        /\ status = "ProtocolError" => status \notin {"draining", "stopped"}
        /\ status = "EncryptionMismatchError" => status \notin {"draining", "stopped"}
    OBVIOUS
  <1> QED
    BY <1>7, <1>8, <1>9, Zenon DEF SplitIsReference, S

(* A chunk arrives. *)
LEMMA SplitFeed ==
  ASSUME FrameInv, SplitInv, NEW data \in Seq(Byte), feed(data)
  PROVE  SplitInv'
  <1>1. PICK pos : EndsOf(pos, frames, fed)
                   /\ pos[Len(frames)] = (Len(fed) - Len(buffer)) + consumed
    BY Zenon DEF SplitInv
  <1>2. /\ buffer' = buffer \o data /\ fed' = fed \o data /\ status' = "draining"
        /\ consumed' = consumed /\ frames' = frames
    BY DEF feed
  <1>3. fed \in Seq(Byte) /\ buffer \in Seq(Byte) /\ frames \in Seq(AnyFrame)
        /\ consumed \in 0..Len(buffer)
    BY DEF FrameInv, FrameTypeOK, AnyFrame
  <1>4. EndsOf(pos, frames', fed')
    BY <1>1, <1>2, <1>3, EndsStay
  <1>5. Len(buffer') = Len(buffer) + Len(data) /\ Len(fed') = Len(fed) + Len(data)
    BY <1>2, <1>3
  <1>6. (Len(fed') - Len(buffer')) + consumed' = (Len(fed) - Len(buffer)) + consumed
    <2>1. Len(fed) \in Nat /\ Len(buffer) \in Nat /\ Len(data) \in Nat /\ consumed \in Nat
      BY <1>3
    <2> QED
      BY <1>2, <1>5, <2>1
  <1>7. pos[Len(frames')] = (Len(fed') - Len(buffer')) + consumed'
    BY <1>1, <1>2, <1>6, Zenon
  <1>8. ~(status' \notin {"draining", "stopped"})
    BY <1>2
  <1> QED
    BY <1>4, <1>7, <1>8, Zenon DEF SplitInv

(* next() drops the frame of the call before and parses what is left. *)
LEMMA SplitNext ==
  ASSUME FrameInv, FrameInv', SplitInv, next
  PROVE  SplitInv'
  <1>1. PICK pos : EndsOf(pos, frames, fed)
                   /\ pos[Len(frames)] = (Len(fed) - Len(buffer)) + consumed
    BY Zenon DEF SplitInv
  <1> DEFINE r == parse(buffer')
             f == [type |-> r.type, payload |-> r.payload]
             c == (Len(fed) - Len(buffer)) + consumed
  <1>2. /\ buffer' = compact /\ fed' = fed /\ consumed' = r.consumed
        /\ status' = IF r.status = "Ok" THEN "draining" ELSE r.status
        /\ frames' = IF r.status = "Ok" THEN Append(frames, f) ELSE frames
    BY DEF next
  <1>3. /\ fed \in Seq(Byte) /\ buffer \in Seq(Byte) /\ frames \in Seq(AnyFrame)
        /\ consumed \in 0..Len(buffer) /\ Len(buffer) <= Len(fed)
    BY DEF FrameInv, FrameTypeOK, BufferIsTail, AnyFrame
  <1>4. /\ buffer' \in Seq(Byte) /\ Len(buffer') <= Len(fed)
        /\ \A i \in 1..Len(buffer') : buffer'[i] = fed[Len(fed) - Len(buffer') + i]
    BY <1>2 DEF FrameInv, FrameTypeOK, BufferIsTail
  <1>5. Len(buffer') = Len(buffer) - consumed
    <2>1. consumed + 1 \in 1..(Len(buffer) + 1)
      BY <1>3
    <2>2. Len(compact) = Len(buffer) - (consumed + 1) + 1
      BY <1>3, <2>1, FromBytes DEF compact
    <2> QED
      BY <1>2, <1>3, <2>2
  <1>6. Len(fed) - Len(buffer') = c
    <2>1. Len(fed) \in Nat /\ Len(buffer) \in Nat /\ consumed \in Nat
      BY <1>3
    <2> QED
      BY <1>5, <2>1
  <1>7. buffer' = From(fed, c + 1)
    BY <1>3, <1>4, <1>6, TailIs
  <1>8. ParseOutcome(buffer', r)
    BY <1>4, ParseIs
  <1> HIDE DEF r
  <1>9. CASE r.status = "Ok"
    <2>1. FrameIn(buffer', f, r.consumed)
      BY <1>8, <1>9, Zenon DEF ParseOutcome
    <2>2. FrameIn(From(fed, pos[Len(frames)] + 1), f, r.consumed)
      BY <1>1, <1>7, <2>1, Zenon
    <2>3. PICK q : /\ EndsOf(q, Append(frames, f), fed)
                   /\ q[Len(Append(frames, f))] = pos[Len(frames)] + r.consumed
      <3>1. EndsOf(pos, frames, fed) /\ fed \in Seq(Byte) /\ frames \in Seq(AnyFrame)
        BY <1>1, <1>3, Zenon
      <3> DEFINE n == r.consumed
      <3>2. FrameIn(From(fed, pos[Len(frames)] + 1), f, n)
        BY <2>2, Zenon
      <3> HIDE DEF f, n
      <3>3. \E q : /\ EndsOf(q, Append(frames, f), fed)
                   /\ q[Len(Append(frames, f))] = pos[Len(frames)] + n
        BY <3>1, <3>2, EndsNext
      <3> QED
        BY <3>3, Zenon DEF n
    <2>4. /\ EndsOf(q, frames', fed')
          /\ q[Len(frames')] = (Len(fed') - Len(buffer')) + consumed'
      BY <1>1, <1>2, <1>6, <1>9, <2>3, Zenon
    <2>5. ~(status' \notin {"draining", "stopped"})
      BY <1>2, <1>9
    <2> QED
      BY <2>4, <2>5, Zenon DEF SplitInv
  <1>10. CASE r.status # "Ok"
    <2>1. r.consumed = 0
      BY <1>8, <1>10, Zenon DEF ParseOutcome
    <2>2. frames' = frames /\ status' = r.status /\ consumed' = 0
      BY <1>2, <1>10, <2>1
    <2>3. c \in Int /\ c + 0 = c
      BY <1>3
    <2>4. pos[Len(frames')] = (Len(fed') - Len(buffer')) + consumed'
      BY <1>1, <1>2, <1>6, <2>2, <2>3, Zenon
    <2>5. EndsOf(pos, frames', fed')
      BY <1>1, <1>2, <2>2, Zenon
    <2>6. parse(buffer').status = status'
      BY <2>2 DEF r
    <2> QED
      BY <2>2, <2>4, <2>5, <2>6, Zenon DEF SplitInv
  <1> QED
    BY <1>9, <1>10

(* The frames next() returns are those of the input as a whole, whatever the  *)
(* chunks it came in; it waits exactly when more bytes can complete a frame,  *)
(* and fails exactly when none can, telling a peer that speaks Noise from     *)
(* nonsense (feed, next, drain_stop): for every input and payload limit.      *)
THEOREM SplitIsReferenceHolds == FrameSpec => []SplitIsReference
  <1>1. FrameInit => SplitInv
    <2> SUFFICES ASSUME FrameInit PROVE SplitInv
      OBVIOUS
    <2>1. /\ buffer = <<>> /\ consumed = 0 /\ status = "NeedMore"
          /\ frames = <<>> /\ fed = <<>>
      BY DEF FrameInit
    <2>2. parse(<<>>).status = "NeedMore"
      BY DEF parse, Result
    <2> DEFINE pos == [i \in {0} |-> 0]
    <2>3. EndsOf(pos, <<>>, <<>>) /\ pos[Len(<<>>)] = (Len(<<>>) - Len(<<>>)) + 0
      <3>1. Len(<<>>) = 0 /\ 1..0 = {} /\ 0..0 = {0} /\ pos[0] = 0 /\ (0 - 0) + 0 = 0
        OBVIOUS
      <3> QED
        BY <3>1 DEF EndsOf
    <2> HIDE DEF pos
    <2> QED
      BY <2>1, <2>2, <2>3, Zenon DEF SplitInv
  <1>2. FrameInv /\ FrameInv' /\ SplitInv /\ [FrameNext]_frame_vars => SplitInv'
    <2> SUFFICES ASSUME FrameInv, FrameInv', SplitInv, [FrameNext]_frame_vars PROVE SplitInv'
      OBVIOUS
    <2>1. CASE next
      BY <2>1, SplitNext
    <2>2. CASE drain_stop
      <3>1. /\ buffer' = buffer /\ consumed' = consumed /\ frames' = frames /\ fed' = fed
            /\ ~(status' \notin {"draining", "stopped"})
        BY <2>2 DEF drain_stop
      <3> QED
        BY <3>1, Zenon DEF SplitInv
    <2>3. CASE \E data \in Seq(Byte) : feed(data)
      BY <2>3, SplitFeed
    <2>4. CASE UNCHANGED frame_vars
      <3>1. /\ buffer' = buffer /\ consumed' = consumed /\ frames' = frames /\ fed' = fed
            /\ status' = status
        BY <2>4 DEF frame_vars
      <3> QED
        BY <3>1, Zenon DEF SplitInv
    <2> QED
      BY <2>1, <2>2, <2>3, <2>4 DEF FrameNext
  <1>3. FrameInv /\ SplitInv => SplitIsReference
    BY SplitInvImplies
  <1>4. FrameSpec => []FrameInv
    BY FrameCorrect, PTL DEF FrameInv
  <1> QED
    BY <1>1, <1>2, <1>3, <1>4, PTL DEF FrameSpec
=============================================================================
