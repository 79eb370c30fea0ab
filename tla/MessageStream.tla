--------------------------- MODULE MessageStream ----------------------------
(***************************************************************************)
(* Messages over a frame stream.  The sender encodes with the api.proto it  *)
(* was built from, whose messages may have more fields than those of the    *)
(* reader and other packing options; handle_frame() of the reader parses    *)
(* what next() returns with its own.                                        *)
(***************************************************************************)
EXTENDS FrameStream

Proto == INSTANCE ProtoWire

CONSTANTS SenderFields, ReaderFields, Messages

ASSUME MessagesAssumption ==
    /\ Payloads = {Proto!encode(SenderFields, m) : m \in Messages}
    /\ Proto!numbers(ReaderFields) \subseteq Proto!numbers(SenderFields)

(* A number and its bits: the sign of a floating point zero is not sent. *)
SameNumber(f, v) ==
    IF f.type \in {"Float", "Double"} /\ ~Proto!nondefault(f, v) THEN Proto!default_member(f)
    ELSE v

(* What of message m the reader has members for. *)
RECURSIVE Understood(_, _)
Understood(fields, m) ==
    [n \in Proto!numbers(fields) |->
        LET f == CHOOSE x \in fields : x.number = n
        IN  CASE f.type = "Message" -> [i \in DOMAIN m[n] |-> Understood(f.fields, m[n][i])]
              [] f.repeated \/ ~Proto!Numeric(f) -> m[n]
              [] OTHER -> SameNumber(f, m[n])]

(* For every payload what the reader makes of it, and what it should. *)
Parsed == [p \in Payloads |-> Proto!ParseFromArray(ReaderFields, p)]

Meaning == [p \in Payloads |->
    {Understood(ReaderFields, m) : m \in {x \in Messages : Proto!encode(SenderFields, x) = p}}]

(* A delivered message is the one that was encoded, in every field that the  *)
(* reader knows: fields of a newer sender are skipped, at any depth, packed   *)
(* and unpacked lists are both read, lengths of embedded messages are the     *)
(* sizes of their encodings, and negative and wide numbers keep their value   *)
(* (handle_frame(), decode() and calculate_size() of the generated messages). *)
MessagesDecoded ==
    \A i \in DOMAIN frames :
        /\ Parsed[frames[i].payload].ok
        /\ Meaning[sent[i].payload] = {Parsed[frames[i].payload].value}
=============================================================================
