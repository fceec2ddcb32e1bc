---------------------------- MODULE MC_Recorder ----------------------------
(* A save, a settings change, an installation and the exit, against engines  *)
(* that crash or hang twice.                                                 *)
EXTENDS Recorder
=============================================================================
