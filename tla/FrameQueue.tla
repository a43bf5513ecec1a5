---------------------------- MODULE FrameQueue ----------------------------
(***************************************************************************)
(* What the buffer pool of the recorder promises: a queue of frames.  The  *)
(* encoder gets every frame once, oldest first, however the pool grows.    *)
(***************************************************************************)
EXTENDS Naturals, Sequences

CONSTANT Frames

VARIABLES
    queue,    \* captured frames that the encoder has not seen, oldest first
    encoded   \* frames that went to the encoder, oldest first

vars == << queue, encoded >>

Init == queue = << >> /\ encoded = << >>

Put == \E f \in Frames : queue' = Append(queue, f) /\ UNCHANGED encoded

Encode ==
    /\ queue # << >>
    /\ encoded' = Append(encoded, Head(queue))
    /\ queue' = Tail(queue)

(* A frame from before the sound started, or that the encoder rejected.    *)
Discard == queue # << >> /\ queue' = Tail(queue) /\ UNCHANGED encoded

Next == Put \/ Encode \/ Discard
Spec == Init /\ [][Next]_vars
=============================================================================
