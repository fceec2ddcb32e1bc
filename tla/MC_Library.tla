----------------------------- MODULE MC_Library -----------------------------
(***************************************************************************)
(* A small library: two clips, two names, one import folder, and two threads *)
(* or requests of each kind.                                                *)
(***************************************************************************)
EXTENDS Library
=============================================================================
