----------------------------- MODULE MC_Window -----------------------------
(* Windows one after another, one clip, a slot for each kind of command.      *)
EXTENDS Playback
=============================================================================
