-------------------------- MODULE MCPlaintextFrame --------------------------
(* Any bytes from a small alphabet, in chunks of any size up to a bound. *)
EXTENDS PlaintextFrame

CONSTANTS Alphabet,   \* the bytes that arrive
          MaxChunk,   \* bound: bytes in a chunk
          MaxInput    \* bound: bytes in all

Chunks == UNION {[1..n -> Alphabet] : n \in 1..MaxChunk}

Feed == \E data \in Chunks : Len(fed) + Len(data) <= MaxInput /\ feed(data)

Next == Feed \/ next \/ drain_stop

Spec == FrameInit /\ [][Next]_frame_vars
=============================================================================
