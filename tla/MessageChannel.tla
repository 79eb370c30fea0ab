--------------------------- MODULE MessageChannel ---------------------------
(***************************************************************************)
(* What a frame helper promises to the connection: the messages of the peer *)
(* arrive once each, unchanged and in the order they were sent in, however  *)
(* the bytes that carry them are cut up (frame_helper.hpp).                 *)
(***************************************************************************)
EXTENDS Sequences

CONSTANT Frames

VARIABLES in_transit, delivered

ChannelInit == in_transit = <<>> /\ delivered = <<>>

ChannelSend(f) == in_transit' = Append(in_transit, f) /\ UNCHANGED delivered

ChannelDeliver ==
    /\ in_transit # <<>>
    /\ delivered' = Append(delivered, Head(in_transit))
    /\ in_transit' = Tail(in_transit)

ChannelNext == ChannelDeliver \/ \E f \in Frames : ChannelSend(f)

ChannelSpec == ChannelInit /\ [][ChannelNext]_<<in_transit, delivered>>
=============================================================================
