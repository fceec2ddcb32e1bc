--------------------------- MODULE MC_ShareClips ---------------------------
(* A clip of two chunks, shared, answered, edited, kept and cancelled.       *)
EXTENDS ShareClips
=============================================================================
