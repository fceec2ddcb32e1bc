-------------------------- MODULE MC_ShareStreams --------------------------
(* A clip of four blocks, two readers and two runways.                       *)
EXTENDS ShareStreams

MCOrder == <<2, 0, 1>>
=============================================================================
