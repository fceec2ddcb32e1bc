---------------------------- MODULE AtomicUpdate ----------------------------
(***************************************************************************)
(* What an in-place update promises its user                               *)
(* (docs/adr/0020-in-place-updates.md): one version is installed at any    *)
(* time, a launch starts exactly that version, and the new one replaces    *)
(* the old for good once it has proven healthy, never before and never     *)
(* back.                                                                   *)
(***************************************************************************)
VARIABLES
    kept,     \* the version launches are to start
    runs,     \* what runs: a version, a mixture of files, or nothing
    mended,   \* whether the last launch had the installation in order first
    healthy   \* whether the new version has reported health

vars == <<kept, runs, mended, healthy>>

Init == kept = "old" /\ runs = "none" /\ mended = TRUE /\ healthy = FALSE

Start ==
    /\ runs = "none" /\ runs' = kept
    /\ mended' = TRUE
    /\ UNCHANGED <<kept, healthy>>

(* Recovery could not do its work, or was left out: whatever is there runs.  *)
StartAnyway ==
    /\ runs = "none" /\ runs' \in {"old", "new", "mixed"}
    /\ mended' = FALSE
    /\ UNCHANGED <<kept, healthy>>

Try ==
    /\ runs = "none" /\ runs' = "new"
    /\ UNCHANGED <<kept, mended, healthy>>

Prove ==
    /\ runs = "new" /\ healthy' = TRUE
    /\ UNCHANGED <<kept, runs, mended>>

Keep ==
    /\ healthy /\ kept' = "new"
    /\ UNCHANGED <<runs, mended, healthy>>

Stop ==
    /\ runs # "none" /\ runs' = "none"
    /\ UNCHANGED <<kept, mended, healthy>>

Next == Start \/ StartAnyway \/ Try \/ Prove \/ Keep \/ Stop

Spec == Init /\ [][Next]_vars
=============================================================================
