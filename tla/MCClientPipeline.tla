-------------------------- MODULE MCClientPipeline --------------------------
(***************************************************************************)
(* Instances of ClientPipeline for TLC: five frames, the second of two     *)
(* fragments, over rings of three slots, so that slots are taken over, the *)
(* pool runs dry and the jitter buffer overflows.                          *)
(***************************************************************************)
EXTENDS ClientPipeline

MCFragments == [id \in 0 .. MaxFrames - 1 |-> IF id = 1 THEN 2 ELSE 1]
=============================================================================
