------------------------------ MODULE MCClient ------------------------------
(* A lamp and a fan with one key, and a relay with a key of its own and the    *)
(* object id of the lamp.                                                      *)
EXTENDS Client

Lamp == Entity("Light", 1, <<"A", " ", "b">>)
Vent == Entity("Fan", 1, <<"B">>)
Relay == Entity("Switch", 2, <<"A", "!", " ", "B">>)

LampRelayVent == {{Lamp, Relay, Vent}, {Lamp, Vent}}
=============================================================================
