--------------------------- MODULE MCFrameStream ----------------------------
EXTENDS MessageStream

Singular(number, type) == Proto!ProtoField(number, type, FALSE, "default", {})
List(number, type, packed) == Proto!ProtoField(number, type, TRUE, packed, {})

(* The kinds of fields of api.proto: the key, arguments and options of         *)
(* ExecuteServiceRequest, the area of DeviceInfo and the uuid of the GATT       *)
(* messages.                                                                    *)
Argument == {Singular(2, "Int32"), Singular(3, "Float"), Singular(5, "Sint32"),
             List(7, "Sint32", "false")}
Area == {Singular(1, "Uint32"), Singular(2, "String")}

MCReaderFields ==
    {Singular(1, "Fixed32"), Proto!ProtoField(2, "Message", TRUE, "default", Argument),
     Singular(3, "Uint32"), Singular(4, "Bool"),
     Proto!ProtoField(22, "Message", FALSE, "default", Area), List(25, "Uint64", "default")}

(* The sender has more fields, and packs the lists the other way round. *)
NewArgument == {Singular(2, "Int32"), Singular(3, "Float"), Singular(5, "Sint32"),
                List(7, "Sint32", "default"), List(9, "String", "default")}
NewArea == Area \union {Singular(30, "Fixed32")}

MCSenderFields ==
    {Singular(1, "Fixed32"), Proto!ProtoField(2, "Message", TRUE, "default", NewArgument),
     Singular(3, "Uint32"), Singular(4, "Bool"),
     Proto!ProtoField(22, "Message", FALSE, "default", NewArea), List(25, "Uint64", "false"),
     Singular(26, "Double"), Proto!ProtoField(27, "Message", TRUE, "default", Area)}

Default == Proto!default_message(MCSenderFields)
Num(x, w) == Proto!word_of(x, w)
Minus(x, w) == [i \in 0..(w - 1) |-> 1 - Num(x - 1, w)[i]]
Top(w) == [i \in 0..(w - 1) |-> IF i = w - 1 THEN 1 ELSE 0]

NegativeArgument == [Proto!default_message(NewArgument) EXCEPT
                         ![2] = Minus(1, 32), ![5] = Top(32), ![9] = <<<<8>>>>]
FloatArgument == [Proto!default_message(NewArgument) EXCEPT
                      ![3] = Top(32), ![7] = <<Num(64, 32), Minus(1, 32)>>]

(* The default message, whose payload is empty; numbers of either sign at the   *)
(* ends of their range; an empty embedded message; fields the reader lacks.     *)
MCMessages ==
    {Default,
     [Default EXCEPT ![1] = Top(32), ![2] = <<NegativeArgument, FloatArgument>>],
     [Default EXCEPT ![22] = <<Proto!default_message(NewArea)>>, ![25] = <<Top(64), Num(0, 64)>>],
     [Default EXCEPT ![3] = Num(128, 32), ![4] = Num(1, 1), ![26] = Num(1, 64),
                     ![22] = <<[Proto!default_message(NewArea) EXCEPT
                                    ![2] = <<10, 255>>, ![30] = Num(3, 32)]>>,
                     ![27] = <<Proto!default_message(Area)>>]}

MCPayloads == {Proto!encode(MCSenderFields, m) : m \in MCMessages}
=============================================================================
