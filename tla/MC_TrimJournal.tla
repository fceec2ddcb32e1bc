--------------------------- MODULE MC_TrimJournal ---------------------------
(* Two trims of one clip; a block is two cells, so that runs of kept samples *)
(* take several blocks and blocks overlap themselves or not.                 *)
EXTENDS TrimJournal
=============================================================================
