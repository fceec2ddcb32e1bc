------------------------------- MODULE Library -------------------------------
(***************************************************************************)
(* The library whole: saved clips (ClipLibrary), their thumbnails, imported   *)
(* videos and settings, in one process that may end and start again          *)
(* (src/src-tauri/src/state.rs composes them).                              *)
(***************************************************************************)
EXTENDS Thumbnails, SettingsStore

vars == <<library, thumbnails, settings, uses, trouble>>

Init == ClipInit /\ ThumbnailInit /\ SettingsInit /\ uses = 0 /\ trouble = 0

Restart == Crash /\ ThumbnailsRestart /\ SettingsRestart

Next ==
    \/ (ClipStep \/ \E n \in Names : FileRemoved(n)) /\ UNCHANGED <<thumbnails, settings>>
    \/ ThumbnailStep /\ UNCHANGED settings
    \/ SettingsStep /\ UNCHANGED <<library, thumbnails>>
    \/ Restart

(* Each request is served by a thread of its own; users, FFmpeg's failures   *)
(* and the end of the process come as they may.                              *)
Spec == Init /\ [][Next]_vars
FairSpec == Spec /\ \A r \in Requests : WF_vars(Serve(r) /\ UNCHANGED settings)
=============================================================================
