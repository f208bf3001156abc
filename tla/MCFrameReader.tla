--------------------------- MODULE MCFrameReader ---------------------------
(* FrameReader for TLC: two sessions; one message has an unknown id. *)
EXTENDS FrameReader, TLC

CONSTANTS io1, io2   \* model values for the io threads

MCProducers == {io1, io2}

MCUnknown == {<<io1, 2>>}

(* One client sends bodies of the largest length, of a length that is refused, or
   headers with a length of -1 or -2; the other empty bodies, with a negative id. *)
MCFrames ==
  io1 :> {[id |-> 1, len |-> n] : n \in {2, 3, -1, -2}} @@ io2 :> {[id |-> -1, len |-> 0]}
=============================================================================
