------------------------------ MODULE ProtoWire -----------------------------
(***************************************************************************)
(* The protobuf codec: the reader and the writer of proto/wire.hpp, and the *)
(* encode, calculate_size and decode that tools/protogen/emit_messages.cpp  *)
(* generates for a message.  The generator emits the same few statements    *)
(* for every field of a kind, so a message type is here the set of its      *)
(* fields, as parsed from api.proto, and the generated functions take it    *)
(* as an argument.                                                          *)
(*                                                                          *)
(* A C++ integer is a word, a function from bit positions to bits, so that  *)
(* casts, shifts and sign extension have the width they have in the code.   *)
(***************************************************************************)
EXTENDS Integers, Sequences, SequencesExt, FiniteSets, FiniteSetsExt

Word(w) == [0..(w - 1) -> 0..1]

(* A shift brings in zeros. *)
bit(v, i) == IF i \in DOMAIN v THEN v[i] ELSE 0

cast(v, w) == [i \in 0..(w - 1) |-> bit(v, i)]

sign_bit(v) == v[Max(DOMAIN v)]

sign_extend(v, w) == [i \in 0..(w - 1) |-> IF i \in DOMAIN v THEN v[i] ELSE sign_bit(v)]

(* The number in n < 32 bits of v, and the word of a number below 2^31. *)
bits_value(v, from, n) ==
    MapThenSumSet(LAMBDA k : bit(v, from + k) * 2^k, 0..(n - 1))

word_of(x, w) == [i \in 0..(w - 1) |-> IF i < 31 THEN (x \div 2^i) % 2 ELSE 0]

zigzag_encode(v) == [i \in DOMAIN v |-> (bit(v, i - 1) + sign_bit(v)) % 2]

zigzag_decode(v) == [i \in DOMAIN v |-> (bit(v, i + 1) + v[0]) % 2]

-----------------------------------------------------------------------------
(* ProtoWriter: each method appends the bytes that the operator stands for. *)

varint_size(v) == Min({n \in 1..10 : \A i \in DOMAIN v : i >= 7 * n => v[i] = 0})

write_varint(v) ==
    LET n == varint_size(v)
    IN  [k \in 1..n |-> bits_value(v, 7 * (k - 1), 7) + (IF k < n THEN 128 ELSE 0)]

Varint == 0
Fixed64 == 1
LengthDelimited == 2
Fixed32 == 5

tag_word(number, wt) == word_of(8 * number + wt, 64)

tag_size(number) == varint_size(tag_word(number, 0))

write_tag(number, wt) == write_varint(tag_word(number, wt))

write_fixed(v, size) == [k \in 1..size |-> bits_value(v, 8 * (k - 1), 8)]

write_length_delimited(s) == write_varint(word_of(Len(s), 64)) \o s

-----------------------------------------------------------------------------
(* ProtoReader: a method takes the bytes from position p on, and returns     *)
(* what it read with the position after it, or fails.                        *)

Failed == [ok |-> FALSE]
Read(v, p) == [ok |-> TRUE, value |-> v, next |-> p]

bits_of(b, p, n, size) ==
    [i \in 0..63 |-> IF i \div size < n THEN (b[p + i \div size] \div 2^(i % size)) % 2 ELSE 0]

varint(b, p) ==
    LET last == {n \in 1..10 : p + n - 1 <= Len(b) /\ b[p + n - 1] < 128}
    IN  IF last = {} THEN Failed ELSE Read(bits_of(b, p, Min(last), 7), p + Min(last))

fixed(b, p, size) ==
    IF Len(b) - p + 1 < size THEN Failed ELSE Read(bits_of(b, p, size, 8), p + size)

(* Compares the length as the code does, in 64 bits. *)
longer_than(len, n) == (\E i \in 31..63 : len[i] = 1) \/ bits_value(len, 0, 31) > n

length_delimited(b, p) ==
    LET len == varint(b, p)
    IN  IF ~len.ok \/ longer_than(len.value, Len(b) - len.next + 1)
        THEN Failed
        ELSE LET after == len.next + bits_value(len.value, 0, 31)
             IN  Read(SubSeq(b, len.next, after - 1), after)

read_tag(b, p) ==
    LET key == varint(b, p)
    IN  IF key.ok
        THEN Read([field_number |-> [i \in 0..31 |-> bit(key.value, i + 3)],
                   wt |-> bits_value(key.value, 0, 3)], key.next)
        ELSE Failed

skip_field(b, p, wt) ==
    CASE wt = Varint -> varint(b, p)
      [] wt = Fixed64 -> fixed(b, p, 8)
      [] wt = Fixed32 -> fixed(b, p, 4)
      [] wt = LengthDelimited -> length_delimited(b, p)
      [] OTHER -> Failed

-----------------------------------------------------------------------------
(* The description of a field.  "packed" is the option of api.proto, if any; *)
(* "fields" are the fields of an embedded message.                           *)

ProtoField(number, type, repeated, packed, fields) ==
    [number |-> number, type |-> type, repeated |-> repeated, packed |-> packed,
     fields |-> fields]

category_of(f) ==
    CASE f.type \in {"Double", "Fixed64", "Sfixed64"} -> "Fixed64"
      [] f.type \in {"Float", "Fixed32", "Sfixed32"} -> "Fixed32"
      [] f.type \in {"String", "Bytes", "Message"} -> f.type
      [] OTHER -> "Varint"

Blob(f) == category_of(f) \in {"String", "Bytes"}
Numeric(f) == category_of(f) \in {"Varint", "Fixed32", "Fixed64"}

wire_type(f) ==
    CASE category_of(f) = "Varint" -> Varint
      [] category_of(f) = "Fixed32" -> Fixed32
      [] category_of(f) = "Fixed64" -> Fixed64
      [] OTHER -> LengthDelimited

is_packed(f) == f.repeated /\ Numeric(f) /\ f.packed # "false"

(* The width of the C++ type of an element. *)
element_width(f) ==
    CASE f.type = "Bool" -> 1
      [] f.type \in {"Int64", "Uint64", "Sint64", "Fixed64", "Sfixed64", "Double"} -> 64
      [] OTHER -> 32

(* A member: a word or a sequence of bytes; a sequence of elements when the  *)
(* field is repeated; and at most one element for an embedded message, none  *)
(* while its presence flag is false.                                         *)
default_member(f) ==
    IF f.repeated \/ ~Numeric(f) THEN <<>> ELSE [i \in 0..(element_width(f) - 1) |-> 0]

numbers(fields) == {f.number : f \in fields}

default_message(fields) ==
    [n \in numbers(fields) |-> default_member(CHOOSE f \in fields : f.number = n)]

sorted_fields(fields) ==
    [k \in 1..Cardinality(fields) |->
        CHOOSE f \in fields : Cardinality({g \in fields : g.number <= f.number}) = k]

(* Floating point members compare equal to 0 with either sign. *)
nondefault(f, v) ==
    IF Blob(f) THEN v # <<>>
    ELSE \E i \in DOMAIN v : v[i] = 1 /\ (f.type \in {"Float", "Double"} => i # Max(DOMAIN v))

varint_encode(f, v) ==
    CASE f.type \in {"Sint32", "Sint64"} -> cast(zigzag_encode(v), 64)
      [] f.type \in {"Int32", "Enum", "Int64"} -> sign_extend(v, 64)
      [] OTHER -> cast(v, 64)

write_value(f, v) ==
    CASE category_of(f) = "Varint" -> write_varint(varint_encode(f, v))
      [] category_of(f) = "Fixed32" -> write_fixed(v, 4)
      [] category_of(f) = "Fixed64" -> write_fixed(v, 8)
      [] OTHER -> write_length_delimited(v)

blob_size(n) == varint_size(word_of(n, 64)) + n

(* Bug variant of value_size: a negative int32 is counted in 32 bits. *)
value_size_unextended(f, v) ==
    CASE category_of(f) = "Varint" ->
             varint_size(IF f.type = "Int32" THEN v ELSE varint_encode(f, v))
      [] category_of(f) = "Fixed32" -> 4
      [] category_of(f) = "Fixed64" -> 8
      [] OTHER -> blob_size(Len(v))

value_size(f, v) ==
    CASE category_of(f) = "Varint" -> varint_size(varint_encode(f, v))
      [] category_of(f) = "Fixed32" -> 4
      [] category_of(f) = "Fixed64" -> 8
      [] OTHER -> blob_size(Len(v))

(* The values that are written, each under a tag of its own. *)
elements(f, v) ==
    IF f.repeated \/ f.type = "Message" THEN v ELSE IF nondefault(f, v) THEN <<v>> ELSE <<>>

total(s) == FoldLeft(LAMBDA a, x : a + x, 0, s)

packed_size(f, v) == total([i \in DOMAIN v |-> value_size(f, v[i])])

RECURSIVE calculate_size(_, _)
size_field(f, v) ==
    IF is_packed(f)
    THEN IF v = <<>> THEN 0 ELSE tag_size(f.number) + blob_size(packed_size(f, v))
    ELSE total([i \in DOMAIN elements(f, v) |-> tag_size(f.number) +
                   IF f.type = "Message" THEN blob_size(calculate_size(f.fields, v[i]))
                                         ELSE value_size(f, elements(f, v)[i])])

calculate_size(fields, m) ==
    LET s == sorted_fields(fields)
    IN  total([k \in DOMAIN s |-> size_field(s[k], m[s[k].number])])

RECURSIVE encode(_, _)
encode_field(f, v) ==
    IF is_packed(f)
    THEN IF v = <<>> THEN <<>>
         ELSE write_tag(f.number, LengthDelimited) \o write_varint(word_of(packed_size(f, v), 64))
                  \o FlattenSeq([i \in DOMAIN v |-> write_value(f, v[i])])
    ELSE FlattenSeq([i \in DOMAIN elements(f, v) |-> write_tag(f.number, wire_type(f)) \o
             IF f.type = "Message"
             THEN write_varint(word_of(calculate_size(f.fields, v[i]), 64)) \o encode(f.fields, v[i])
             ELSE write_value(f, elements(f, v)[i])])

encode(fields, m) ==
    LET s == sorted_fields(fields)
    IN  FlattenSeq([k \in DOMAIN s |-> encode_field(s[k], m[s[k].number])])

-----------------------------------------------------------------------------
(* decode() *)

read_info(f, b, p) ==
    CASE category_of(f) = "Varint" -> varint(b, p)
      [] category_of(f) = "Fixed32" -> fixed(b, p, 4)
      [] OTHER -> fixed(b, p, 8)

decode_convert(f, v) ==
    CASE f.type = "Bool" -> [i \in {0} |-> IF \E k \in DOMAIN v : v[k] = 1 THEN 1 ELSE 0]
      [] f.type \in {"Sint32", "Sint64"} -> zigzag_decode(cast(v, element_width(f)))
      [] OTHER -> cast(v, element_width(f))

(* Appends the elements of a packed region until it is used up. *)
RECURSIVE read_packed(_, _, _, _)
read_packed(f, b, p, v) ==
    IF p > Len(b) THEN Read(v, p)
    ELSE LET r == read_info(f, b, p)
         IN  IF r.ok THEN read_packed(f, b, r.next, Append(v, decode_convert(f, r.value)))
                     ELSE Failed

(* The member after one value was read: appended, or in place of the old one. *)
store(f, v, x) == IF f.repeated THEN Append(v, x) ELSE x

RECURSIVE decode(_, _, _, _)

(* The wire type matters for a repeated number only. *)
decode_field(f, b, p, wt, v) ==
    LET sub == length_delimited(b, p)
        old == IF f.repeated \/ v = <<>> THEN default_message(f.fields) ELSE v[1]
        msg == decode(f.fields, sub.value, 1, old)
        all == read_packed(f, sub.value, 1, v)
        one == read_info(f, b, p)
    IN  CASE f.type = "Message" ->
                 IF sub.ok /\ msg.ok
                 THEN Read(IF f.repeated THEN Append(v, msg.value) ELSE <<msg.value>>, sub.next)
                 ELSE Failed
          [] Blob(f) -> IF sub.ok THEN Read(store(f, v, sub.value), sub.next) ELSE Failed
          [] Numeric(f) /\ f.repeated /\ wt = LengthDelimited ->
                 IF sub.ok /\ all.ok THEN Read(all.value, sub.next) ELSE Failed
          [] OTHER ->
                 IF one.ok THEN Read(store(f, v, decode_convert(f, one.value)), one.next)
                           ELSE Failed

(* The loop over the tags of b from p on, m being what was decoded so far. *)
decode(fields, b, p, m) ==
    IF p > Len(b) THEN Read(m, p)
    ELSE LET t == read_tag(b, p)
             known == {f \in fields : word_of(f.number, 32) = t.value.field_number}
             f == CHOOSE x \in known : TRUE
             r == IF known = {} THEN skip_field(b, t.next, t.value.wt)
                  ELSE decode_field(f, b, t.next, t.value.wt, m[f.number])
         IN  IF ~t.ok THEN Failed
             ELSE IF ~r.ok THEN Failed
             ELSE decode(fields, b, r.next,
                         IF known = {} THEN m ELSE [m EXCEPT ![f.number] = r.value])

ParseFromArray(fields, b) == decode(fields, b, 1, default_message(fields))
=============================================================================
