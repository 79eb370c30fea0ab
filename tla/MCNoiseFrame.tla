---------------------------- MODULE MCNoiseFrame ----------------------------
(* A device as expected, and one for each way in which it can differ. *)
EXTENDS NoiseFrame

Right == [psk |-> "k", name |-> "dev", proto |-> 1, hello |-> 2, encrypted |-> TRUE]

AllDevices == {Right, [Right EXCEPT !.psk = "other"], [Right EXCEPT !.name = "other"],
               [Right EXCEPT !.proto = 2], [Right EXCEPT !.hello = 0],
               [Right EXCEPT !.encrypted = FALSE]}
=============================================================================
