--------------------------- MODULE InplaceUpdate ---------------------------
(***************************************************************************)
(* One in-place update of an installation (src/src-tauri/src/updates/      *)
(* inplace): staging by the running version, the supervisor that swaps the *)
(* files and tries the new version, and the recovery every launch begins   *)
(* with.  Each rename and each journal write is a step; the machine may     *)
(* stop between any two of them, and any of them may fail because a file   *)
(* stays locked.                                                           *)
(*                                                                         *)
(* Abstractions: a file is absent, old or new; there is one new version,   *)
(* its bytes verify if they are there; downloads, signatures, the capture  *)
(* gate and the migration from a runtime store are left out.               *)
(***************************************************************************)
EXTENDS Naturals

CONSTANTS
    NFiles,        \* files the update changes, swapped in this order
    Added,         \* those the installed version lacks
    Executable,    \* the controller, which every launch starts
    MaxAttempts,   \* transaction.rs MAX_ATTEMPTS
    MaxTroubles    \* stops of the machine and failed operations (bound)

Files == 1 .. NFiles

ASSUME UpdateAssumption ==
    /\ NFiles \in Nat /\ MaxAttempts \in Nat \ {0} /\ MaxTroubles \in Nat
    /\ Added \subseteq Files /\ Executable \in Files \ Added

VARIABLES
    installed, backup, staged,  \* the bytes of each file in each place
    phase,      \* journal.json: its phase, "none" without a journal
    attempts,   \* journal.json: launches of the new version without a verdict
    failed,     \* the quarantine marker failed.json names the new version
    boot,       \* what a launching process or the supervisor is doing
    todo,       \* the files it has yet to do that to
    lock,       \* that process is the supervisor and holds handoff.lock
    guilty,     \* it is going to quarantine the new version
    quiet,      \* the next launch is the supervisor's --runtime-recovery
    runs,       \* the version of the running controller
    mended,     \* that controller started after a completed recovery
    healthy,    \* history: the new version has reported health
    app,        \* what the running controller does about the update
    left,       \* the files it has yet to stage
    troubles

journal == <<phase, attempts>>
places == <<installed, backup, staged>>
process == <<lock, guilty, quiet>>
running == <<runs, mended, healthy>>
staging == <<app, left>>
vars == <<places, journal, failed, boot, todo, process, running, staging, troubles>>

Old == [f \in Files |-> IF f \in Added THEN "none" ELSE "old"]
New == [f \in Files |-> "new"]
Nowhere == [f \in Files |-> "none"]

BackedUp == {f \in Files \ Added : backup[f] # "none"}   \* backed_up
WorkIsEmpty == staged = Nowhere /\ backup = Nowhere /\ phase = "none"
StageComplete == staged = New                             \* lock_staged
OnDisk == IF installed = Old THEN "old" ELSE IF installed = New THEN "new" ELSE "mixed"

First(S) == CHOOSE f \in S : \A g \in S : f <= g
Last(S) == CHOOSE f \in S : \A g \in S : f >= g

Init ==
    /\ installed = Old /\ backup = Nowhere /\ staged = Nowhere
    /\ phase = "none" /\ attempts = 0 /\ failed = FALSE
    /\ boot = "none" /\ todo = {} /\ lock = FALSE /\ guilty = FALSE /\ quiet = FALSE
    /\ runs = "none" /\ mended = TRUE /\ healthy = FALSE
    /\ app = "idle" /\ left = {}
    /\ troubles = 0

(* Disk::rename moves a file whose new place is free.                        *)
MoveInto(from, to, f) == [to EXCEPT ![f] = from[f]]
Without(from, f) == [from EXCEPT ![f] = "none"]

Trouble == troubles < MaxTroubles /\ troubles' = troubles + 1

(* The process that boots turns to something else.                           *)
Now(step, files) == boot' = step /\ todo' = files
Gone == Now("none", {}) /\ lock' = FALSE /\ guilty' = FALSE

-----------------------------------------------------------------------------
(* The running controller: staging (stage.rs) and cleaning up after a        *)
(* handoff (launch.rs, finish_after_handoff).                                *)

(* stage, up to the first download: a complete stage is kept, backups or a   *)
(* later phase refuse, anything else is emptied first.                       *)
StageBegin ==
    /\ runs = "old" /\ app = "idle" /\ ~failed
    /\ phase \in {"none", "staged"} /\ ~(phase = "staged" /\ StageComplete)
    /\ BackedUp = {}
    /\ staged' = Nowhere
    /\ app' = "emptied" /\ left' = Files
    /\ UNCHANGED <<installed, backup, journal, failed, boot, todo, process, running, troubles>>

StageDropJournal ==
    /\ app = "emptied"
    /\ phase' = "none" /\ attempts' = 0
    /\ app' = "staging"
    /\ UNCHANGED <<places, failed, boot, todo, process, running, left, troubles>>

StageFile ==
    /\ app = "staging" /\ left # {}
    /\ LET f == First(left)
       IN  /\ staged[f] = "none"
           /\ staged' = [staged EXCEPT ![f] = "new"]
           /\ left' = left \ {f}
    /\ UNCHANGED <<installed, backup, journal, failed, boot, todo, process, running, app, troubles>>

StageDone ==
    /\ app = "staging" /\ left = {}
    /\ phase' = "staged" /\ attempts' = 0
    /\ app' = "idle"
    /\ UNCHANGED <<places, failed, boot, todo, process, running, left, troubles>>

(* Removing one entry of the work directory, whoever does it.                *)
Remove ==
    \E f \in Files :
        \/ staged[f] # "none" /\ staged' = Without(staged, f) /\ UNCHANGED backup
        \/ /\ backup[f] # "none" /\ ~(lock /\ f = Executable)
           /\ backup' = Without(backup, f) /\ UNCHANGED staged
Emptied == staged = Nowhere /\ backup = Nowhere

FinishRemove ==
    /\ app = "handed" /\ ~lock
    /\ phase = "committed" \/ (phase = "none" /\ BackedUp = {})
    /\ Remove
    /\ UNCHANGED <<installed, journal, failed, boot, todo, process, running, staging, troubles>>

(* The journal goes last; an uncommitted phase is left to the next launch.   *)
Finish ==
    /\ app = "handed" /\ ~lock
    /\ \/ phase \in {"committed", "none"} /\ Emptied /\ phase' = "none" /\ attempts' = 0
       \/ phase \notin {"committed", "none"} /\ UNCHANGED journal
       \/ phase = "none" /\ BackedUp # {} /\ UNCHANGED journal
    /\ app' = "idle"
    /\ UNCHANGED <<places, failed, boot, todo, process, running, left, troubles>>

-----------------------------------------------------------------------------
(* Launches (launch.rs, recover and activate_staged; transaction.rs,         *)
(* recover, discard, cleanup).                                               *)

(* discard: nothing is dropped while a backup is there.                      *)
Discard(blame) ==
    IF BackedUp = {}
    THEN Now("clearing", {}) /\ guilty' = blame
    ELSE Now(IF blame THEN "condemning" ELSE "starting", {}) /\ guilty' = blame

(* Mutants: an applied update is kept without a verdict; a committed one is  *)
(* left to its supervisor to clean up.                                       *)
RecoverForward ==
    CASE WorkIsEmpty -> Now("starting", {}) /\ UNCHANGED guilty
      [] ~WorkIsEmpty /\ phase = "none" -> Now("mending", BackedUp) /\ UNCHANGED guilty
      [] phase = "staged" -> IF failed THEN Discard(FALSE) ELSE Now("starting", {}) /\ UNCHANGED guilty
      [] phase \in {"committed", "applied"} -> Now("clearing", {}) /\ UNCHANGED guilty
      [] phase = "applying" -> Now("mending", Files) /\ UNCHANGED guilty
RecoverLess ==
    CASE WorkIsEmpty \/ phase = "committed" -> Now("starting", {}) /\ UNCHANGED guilty
      [] ~WorkIsEmpty /\ phase = "none" -> Now("mending", BackedUp) /\ UNCHANGED guilty
      [] phase = "staged" -> IF failed THEN Discard(FALSE) ELSE Now("starting", {}) /\ UNCHANGED guilty
      [] phase \in {"applying", "applied"} -> Now("mending", Files) /\ UNCHANGED guilty
Recover ==
    CASE WorkIsEmpty -> Now("starting", {}) /\ UNCHANGED guilty
      [] ~WorkIsEmpty /\ phase = "none" -> Now("mending", BackedUp) /\ UNCHANGED guilty
      [] phase = "staged" -> IF failed THEN Discard(FALSE) ELSE Now("starting", {}) /\ UNCHANGED guilty
      [] phase = "committed" -> Now("clearing", {}) /\ UNCHANGED guilty
      [] phase \in {"applying", "applied"} -> Now("mending", Files) /\ UNCHANGED guilty

(* A launch without a live supervisor recovers first, whether or not another *)
(* controller is running already: that is found out only later.              *)
Launch ==
    /\ boot = "none" /\ installed[Executable] # "none"
    /\ Recover
    /\ quiet' \in {quiet, FALSE}     \* the user may be ahead of the relaunch
    /\ UNCHANGED <<places, journal, failed, lock, running, staging, troubles>>

(* transaction::restore, one rename at a time, the last file first.          *)
(* Mutant: the new bytes are moved aside only for files that had old ones.   *)
RestoreFileOnly(f) ==
    \/ /\ backup[f] # "none" /\ installed[f] # "none" /\ staged[f] = "none"
       /\ staged' = MoveInto(installed, staged, f) /\ installed' = Without(installed, f)
       /\ UNCHANGED <<backup, todo>>
    \/ /\ backup[f] # "none" /\ installed[f] # "none" /\ staged[f] # "none"
       /\ installed' = Without(installed, f)
       /\ UNCHANGED <<backup, staged, todo>>
    \/ /\ backup[f] # "none" /\ installed[f] = "none"
       /\ installed' = MoveInto(backup, installed, f) /\ backup' = Without(backup, f)
       /\ todo' = todo \ {f} /\ UNCHANGED staged
    \/ /\ backup[f] = "none" /\ todo' = todo \ {f} /\ UNCHANGED places
RestoreFile(f) ==
    \/ /\ backup[f] # "none" /\ installed[f] # "none" /\ staged[f] = "none"
       /\ staged' = MoveInto(installed, staged, f) /\ installed' = Without(installed, f)
       /\ UNCHANGED <<backup, todo>>
    \/ /\ backup[f] # "none" /\ installed[f] # "none" /\ staged[f] # "none"
       /\ installed' = Without(installed, f)
       /\ UNCHANGED <<backup, staged, todo>>
    \/ /\ backup[f] # "none" /\ installed[f] = "none"
       /\ installed' = MoveInto(backup, installed, f) /\ backup' = Without(backup, f)
       /\ todo' = todo \ {f} /\ UNCHANGED staged
    \/ /\ backup[f] = "none" /\ f \in Added /\ installed[f] # "none" /\ staged[f] = "none"
       /\ staged' = MoveInto(installed, staged, f) /\ installed' = Without(installed, f)
       /\ todo' = todo \ {f} /\ UNCHANGED backup
    \/ /\ backup[f] = "none" /\ ~(f \in Added /\ installed[f] # "none" /\ staged[f] = "none")
       /\ todo' = todo \ {f} /\ UNCHANGED places

Restore ==
    /\ boot \in {"mending", "undoing", "restoring"} /\ todo # {}
    /\ RestoreFile(Last(todo))
    /\ UNCHANGED <<journal, failed, boot, process, running, staging, troubles>>

(* Mutant: the journal still says that the update is being applied.          *)
MendedUnwritten ==
    /\ boot = "mending" /\ todo = {}
    /\ IF phase = "none" \/ attempts >= MaxAttempts THEN Discard(phase # "none")
       ELSE Now("starting", {}) /\ UNCHANGED guilty
    /\ UNCHANGED <<places, journal, failed, lock, quiet, running, staging, troubles>>

(* The undone update is staged again, or discarded after too many attempts.  *)
Mended ==
    /\ boot = "mending" /\ todo = {}
    /\ IF phase = "none" THEN Discard(FALSE) /\ UNCHANGED phase
       ELSE /\ phase' = "staged"
            /\ IF attempts >= MaxAttempts THEN Discard(TRUE)
               ELSE Now("starting", {}) /\ UNCHANGED guilty
    /\ UNCHANGED <<places, attempts, failed, lock, quiet, running, staging, troubles>>

(* cleanup: everything but the journal first, the journal only if all of     *)
(* that could be removed.                                                    *)
ClearRemove ==
    /\ boot = "clearing" /\ Remove
    /\ UNCHANGED <<installed, journal, failed, boot, todo, process, running, staging, troubles>>

AfterClearing ==
    CASE guilty -> Now("condemning", {}) /\ UNCHANGED <<lock, guilty>>
      [] ~guilty /\ lock -> Gone
      [] ~guilty /\ ~lock -> Now("starting", {}) /\ UNCHANGED <<lock, guilty>>

ClearDone ==
    /\ boot = "clearing" /\ Emptied
    /\ phase' = "none" /\ attempts' = 0
    /\ AfterClearing
    /\ UNCHANGED <<places, failed, quiet, running, staging, troubles>>

(* The supervisor runs from the backup of the executable.                    *)
ClearStuck ==
    /\ boot = "clearing" /\ ~Emptied
    /\ \/ lock /\ backup[Executable] # "none" /\ UNCHANGED troubles
       \/ Trouble
    /\ AfterClearing
    /\ UNCHANGED <<places, journal, failed, quiet, running, staging>>

(* A rename or the write of the journal fails: the launch goes on with what  *)
(* is on disk.                                                               *)
MendFails ==
    /\ boot = "mending" /\ Trouble
    /\ Now("astray", {})
    /\ UNCHANGED <<places, journal, failed, process, running, staging>>

(* The quarantine of the version (failed.json), which may fail.              *)
Condemn ==
    /\ boot = "condemning"
    /\ \/ failed' = TRUE /\ UNCHANGED troubles
       \/ Trouble /\ UNCHANGED failed
    /\ IF lock THEN Gone /\ quiet' = TRUE
       ELSE Now("starting", {}) /\ guilty' = FALSE /\ UNCHANGED <<lock, quiet>>
    /\ UNCHANGED <<places, journal, running, staging>>

(* A second controller ends itself; the rest of a launch is activate_staged  *)
(* and the controller.                                                       *)
Duplicate ==
    /\ boot \in {"starting", "astray"} /\ runs # "none"
    /\ Now("none", {}) /\ quiet' = FALSE
    /\ UNCHANGED <<places, journal, failed, lock, guilty, running, staging, troubles>>

Upgradable == phase = "staged" /\ ~failed                \* staged_upgrade

StartSupervisor ==
    /\ boot = "starting" /\ runs = "none" /\ Upgradable /\ ~quiet /\ StageComplete
    /\ Now("preparing", {}) /\ lock' = TRUE
    /\ UNCHANGED <<places, journal, failed, guilty, quiet, running, staging, troubles>>

(* The supervisor cannot verify the stage, and setup ends with its error.    *)
StartFails ==
    /\ boot = "starting" /\ runs = "none" /\ Upgradable /\ ~quiet /\ ~StageComplete
    /\ Now("none", {})
    /\ UNCHANGED <<places, journal, failed, process, running, staging, troubles>>

StartApp ==
    /\ \/ boot = "starting" /\ (Upgradable => quiet) /\ mended' = TRUE
       \/ boot = "astray" /\ mended' = FALSE
    /\ runs = "none" /\ runs' = OnDisk
    /\ Now("none", {}) /\ quiet' = FALSE
    /\ UNCHANGED <<places, journal, failed, lock, guilty, healthy, staging, troubles>>

(* native_service.rs, install_in_place: the user applies the update now.     *)
ApplyNow ==
    /\ runs = "old" /\ app = "idle" /\ boot = "none"
    /\ Upgradable /\ StageComplete
    /\ Now("preparing", {}) /\ lock' = TRUE /\ runs' = "none"
    /\ UNCHANGED <<places, journal, failed, guilty, quiet, mended, healthy, staging, troubles>>

-----------------------------------------------------------------------------
(* The supervisor (supervisor.rs, run_if_requested; transaction.rs, apply).  *)

BeginSwap ==
    /\ boot = "preparing" /\ \A f \in Files : staged[f] # "none"
    /\ phase' = "applying"
    /\ Now("swapping", Files)
    /\ UNCHANGED <<places, attempts, failed, process, running, staging, troubles>>

BeginSwapFails ==
    /\ boot = "preparing"
    /\ \/ Trouble
       \/ (\E f \in Files : staged[f] = "none") /\ UNCHANGED troubles
    /\ Gone /\ quiet' = TRUE
    /\ UNCHANGED <<places, journal, failed, running, staging>>

Swap ==
    /\ boot = "swapping" /\ todo # {}
    /\ LET f == First(todo)
       IN  \/ /\ f \notin Added /\ installed[f] # "none" /\ backup[f] = "none"
              /\ backup' = MoveInto(installed, backup, f) /\ installed' = Without(installed, f)
              /\ UNCHANGED <<staged, todo>>
           \/ /\ f \in Added \/ backup[f] # "none"
              /\ installed[f] = "none" /\ staged[f] # "none"
              /\ installed' = MoveInto(staged, installed, f) /\ staged' = Without(staged, f)
              /\ todo' = todo \ {f} /\ UNCHANGED backup
    /\ UNCHANGED <<journal, failed, boot, process, running, staging, troubles>>

Swapped ==
    /\ boot = "swapping" /\ todo = {}
    /\ phase' = "applied" /\ attempts' = attempts + 1
    /\ Now("trial", {})
    /\ UNCHANGED <<places, failed, process, running, staging, troubles>>

SwapFails ==
    /\ boot = "swapping" /\ Trouble
    /\ Now("undoing", Files)
    /\ UNCHANGED <<places, journal, failed, process, running, staging>>

Undone ==
    /\ boot = "undoing" /\ todo = {}
    /\ phase' = "staged"
    /\ Gone /\ quiet' = TRUE
    /\ UNCHANGED <<places, attempts, failed, running, staging, troubles>>

(* A restore that fails is left to the relaunched controller's recovery.     *)
UndoFails ==
    /\ boot \in {"undoing", "restoring"} /\ Trouble
    /\ Gone /\ quiet' = TRUE
    /\ UNCHANGED <<places, journal, failed, running, staging>>

StartChild ==
    /\ boot = "trial" /\ runs = "none"
    /\ runs' = "new" /\ Now("proving", {})
    /\ UNCHANGED <<places, journal, failed, process, mended, healthy, staging, troubles>>

Healthy ==
    /\ boot = "proving"
    /\ healthy' = TRUE /\ app' = "handed" /\ Now("committing", {})
    /\ UNCHANGED <<places, journal, failed, process, runs, mended, left, troubles>>

(* The child fails, or finds a controller running and ends itself.           *)
Unhealthy ==
    /\ boot \in {"trial", "proving"}
    /\ runs' = IF boot = "proving" THEN "none" ELSE runs
    /\ Now("restoring", Files)
    /\ UNCHANGED <<places, journal, failed, process, mended, healthy, staging, troubles>>

Reject ==
    /\ boot = "restoring" /\ todo = {}
    /\ \/ phase' = "staged" /\ Discard(TRUE) /\ UNCHANGED troubles
       \/ Trouble /\ Now("condemning", {}) /\ guilty' = TRUE /\ UNCHANGED phase
    /\ UNCHANGED <<places, attempts, failed, lock, quiet, running, staging>>

Commit ==
    /\ boot = "committing"
    /\ \/ phase' = "committed" /\ Now("clearing", {}) /\ UNCHANGED <<lock, guilty, troubles>>
       \/ Trouble /\ Gone /\ UNCHANGED phase
    /\ UNCHANGED <<places, attempts, failed, quiet, running, staging>>

(* A launch that meets a live supervisor recovers nothing.                   *)
LaunchBeside ==
    /\ lock /\ runs = "none" /\ installed[Executable] # "none" /\ boot # "proving"
    /\ ~Upgradable
    /\ runs' = OnDisk /\ mended' = FALSE
    /\ UNCHANGED <<places, journal, failed, boot, todo, process, healthy, staging, troubles>>

-----------------------------------------------------------------------------
Quit ==
    /\ runs # "none" /\ boot # "proving"
    /\ runs' = "none" /\ app' = "idle" /\ left' = {}
    /\ UNCHANGED <<places, journal, failed, boot, todo, process, mended, healthy, troubles>>

(* The machine stops, or the process that boots is ended (and with it the    *)
(* child it has not released).                                               *)
Crash ==
    /\ Trouble
    /\ Gone /\ quiet' = FALSE
    /\ \/ runs' = "none" /\ app' = "idle" /\ left' = {}
       \/ boot \notin {"none", "proving"} /\ UNCHANGED <<runs, app, left>>
    /\ UNCHANGED <<places, journal, failed, mended, healthy>>

App == StageBegin \/ StageDropJournal \/ StageFile \/ StageDone \/ FinishRemove \/ Finish
Recovery == Restore \/ Mended \/ ClearRemove \/ ClearDone \/ ClearStuck \/ Condemn
Starting == Duplicate \/ StartSupervisor \/ StartFails \/ StartApp
Activation == \/ BeginSwap \/ BeginSwapFails \/ Swap \/ Swapped \/ Undone
              \/ StartChild \/ Healthy \/ Unhealthy \/ Reject \/ Commit
Environment == \/ MendFails \/ SwapFails \/ UndoFails \/ Crash
               \/ Quit \/ LaunchBeside \/ ApplyNow

Next == App \/ Launch \/ Recovery \/ Starting \/ Activation \/ Environment

Spec == Init /\ [][Next]_vars

(* A process that has begun goes on, and Clipture is launched again and      *)
(* again (autostart, the user); failures and quitting are nobody's duty.     *)
Fairness == WF_vars(Launch) /\ WF_vars(Recovery \/ Starting \/ Activation)
FairSpec == Spec /\ Fairness

-----------------------------------------------------------------------------

(* Until the update is committed, the old bytes of every replaced file are   *)
(* in the installation or in its backup, so the swap can always be undone.   *)
Committed == phase = "committed" \/ (phase = "none" /\ installed = New)
OldBytesSurvive ==
    Committed \/ \A f \in Files \ Added : "old" \in {installed[f], backup[f]}

(* The installation a controller starts from after a completed recovery is   *)
(* one version, the one the update promises, and it is replaced for good     *)
(* only after the new version reported health.                               *)
Promise == INSTANCE AtomicUpdate WITH
    kept <- IF Committed THEN "new" ELSE "old"
KeepsItsPromise == Promise!Spec

(* transaction.rs:7-8, "an interrupted or unproven update is always undone   *)
(* to the previous version": an activation under way ends, committed or      *)
(* undone, or no controller is left to launch.                               *)
ActivationEnds ==
    phase \in {"applying", "applied"}
        ~> (phase \notin {"applying", "applied"} \/ installed[Executable] = "none")

(* A committed update is cleaned up: neither backups nor a journal stay.     *)
CommittedIsCleaned == phase = "committed" ~> WorkIsEmpty
=============================================================================
