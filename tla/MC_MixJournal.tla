--------------------------- MODULE MC_MixJournal ---------------------------
(* A clip of two packets each of video and audio.                            *)
EXTENDS MixJournal
=============================================================================
