---------------------------- MODULE FrameStream -----------------------------
(***************************************************************************)
(* Two frame helpers over a TCP connection: one encodes, the bytes travel   *)
(* in order, and the read handler of the other is given them in chunks of   *)
(* any size.                                                                *)
(***************************************************************************)
EXTENDS PlaintextFrame

CONSTANTS Types, Payloads,
          MaxFrames,  \* bound: frames sent
          MaxChunk    \* size of read_buffer_, the most one read returns

Frames == [type : Types, payload : Payloads]

ASSUME FramesAssumption ==
    /\ \A t \in Types : t \in Nat /\ t < 268435456   \* what varint_budget bytes hold
    /\ Payloads \subseteq Seq(Byte)
    /\ \A p \in Payloads : Len(p) <= MaxFramePayload /\ Len(p) < 268435456
    /\ MaxChunk \in Nat \ {0}

VARIABLES sent,   \* the frames encoded, in order
          wire    \* the bytes that were written and not read

stream_vars == <<frame_vars, sent, wire>>

StreamInit == FrameInit /\ sent = <<>> /\ wire = <<>>

Send(f) ==
    /\ Len(sent) < MaxFrames
    /\ sent' = Append(sent, f)
    /\ wire' = wire \o encode(f.type, f.payload)
    /\ UNCHANGED frame_vars

Receive(n) ==
    /\ n <= Len(wire)
    /\ feed(SubSeq(wire, 1, n))
    /\ wire' = From(wire, n + 1)
    /\ UNCHANGED sent

Drain == next /\ UNCHANGED <<sent, wire>>

StreamNext ==
    \/ \E f \in Frames : Send(f)
    \/ \E n \in 1..MaxChunk : Receive(n)
    \/ Drain

(* The loop of the reader goes on, and what was written arrives. *)
StreamFairness ==
    /\ WF_stream_vars(\E n \in 1..MaxChunk : Receive(n))
    /\ WF_stream_vars(Drain)

StreamSpec == StreamInit /\ [][StreamNext]_stream_vars /\ StreamFairness

-----------------------------------------------------------------------------
Channel == INSTANCE MessageChannel WITH
               in_transit <- From(sent, Len(frames) + 1), delivered <- frames

(* The codec implements a reliable channel of messages: encode() and next()  *)
(* deliver every frame once, in order and unchanged, for every chunking.     *)
ImplementsChannel == Channel!ChannelSpec

(* Every frame that was sent is delivered in the end: the two varints and    *)
(* the payload may arrive byte by byte, next() never waits in vain.          *)
EveryFrameDelivered ==
    \A n \in 1..MaxFrames : Len(sent) >= n ~> Len(frames) >= n
=============================================================================
