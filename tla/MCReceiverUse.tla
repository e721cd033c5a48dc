--------------------------- MODULE MCReceiverUse ----------------------------
(***************************************************************************)
(* Instances of ReceiverUse for TLC: three frames of three, one and two    *)
(* fragments, groups of two, a reassembly ring of two slots.               *)
(***************************************************************************)
EXTENDS ReceiverUse

MCFragments == [id \in 0 .. MaxFrames - 1 |-> IF id = 0 THEN 3 ELSE id]
=============================================================================
