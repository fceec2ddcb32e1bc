------------------------------ MODULE Recorder ------------------------------
(***************************************************************************)
(* Who uses the engine: a save (src/src-tauri/src/save), a settings change *)
(* (commands/core.rs) and an installation (updates).  Saves and           *)
(* installations share one gate.  A plugin update that could not be         *)
(* launched resumes recording; a native one does not come back.             *)
(***************************************************************************)
EXTENDS EngineClient

CONSTANT MaxUses     \* bound: saves and settings changes; there is one installation

ASSUME RecorderAssumption == MaxUses \in Nat

VARIABLES
    stored,     \* the settings: which configuration they ask for
    busy,       \* CaptureOperationGate: who has the lease
    inst,       \* the installation
    uses

shared == <<stored, busy, inst>>
vars == <<processes, engines, ending, settings, watchdogs, exiting, guard, holder, tasks, requests, faults, shared, uses>>

Init ==
    /\ ClientInit
    /\ stored = "A" /\ busy = "free" /\ inst = "off"
    /\ uses = 0

-----------------------------------------------------------------------------
(* configure_settings: what to ask for is settled before the engine is.      *)
Configures(t, cfg) ==
    /\ Begins(t, "settle") /\ want' = [want EXCEPT ![t] = Effective(cfg)]

Unchanged(t) == lastCfg = want[t] /\ configured = seen[t]
Settle(t) ==
    /\ pc[t] = "settle" /\ call[t] = "ok" /\ ~Unchanged(t)
    /\ Begins(t, "configure")
    /\ UNCHANGED <<processes, engines, ending, settings, recovery, watch, exiting, guard, holder, want, to, faults, shared, uses>>

(* The engine answered: it counts as the generation settled on before.       *)
IsConfigured(t) ==
    /\ call[t] = "ok"
    /\ \/ pc[t] = "settle" /\ Unchanged(t) /\ UNCHANGED settings
       \/ /\ pc[t] = "configure"
          /\ lastCfg' = want[t] /\ configured' = seen[t]
Fails(t) == pc[t] # "off" /\ call[t] = "failed" /\ UNCHANGED settings

Uses == uses < MaxUses /\ uses' = uses + 1

(* save_settings, then configure_engine_in_background.                       *)
ChangeSettings(cfg) ==
    /\ Uses
    /\ pc[Apply] = "off" /\ stored' = cfg /\ Configures(Apply, cfg)
    /\ UNCHANGED <<processes, engines, ending, settings, recovery, watch, exiting, guard, holder, to, faults, busy, inst>>

SettingsApplied ==
    /\ (IsConfigured(Apply) \/ Fails(Apply))
    /\ Ends(Apply)
    /\ UNCHANGED <<processes, engines, ending, watchdogs, exiting, guard, holder, faults, shared, uses>>

-----------------------------------------------------------------------------
(* SaveCoordinator: a second save, or one during an installation, is turned  *)
(* away.                                                                     *)
StartSave ==
    /\ Uses
    /\ busy = "free" /\ busy' = "save"
    /\ Configures(Save, stored)
    /\ UNCHANGED <<processes, engines, ending, settings, recovery, watch, exiting, guard, holder, to, faults, stored, inst>>

SaveClip ==
    /\ IsConfigured(Save) /\ Begins(Save, "saving")
    /\ to' = [to EXCEPT ![Save] = None] /\ want' = [want EXCEPT ![Save] = NoCfg]
    /\ UNCHANGED <<processes, engines, ending, recovery, watch, exiting, guard, holder, faults, shared, uses>>

(* The clip is processed and listed with the lease held.                     *)
(* Mutant: the lease ends with the engine's answer.                          *)
FileClipUnleased ==
    /\ pc[Save] = "saving" /\ call[Save] = "ok" /\ busy' = "free"
    /\ pc' = [pc EXCEPT ![Save] = "filing"] /\ call' = [call EXCEPT ![Save] = "none"]
    /\ UNCHANGED <<processes, engines, ending, settings, watchdogs, exiting, guard, holder, want, seen, to, faults, stored, inst, uses>>

FileClip ==
    /\ pc[Save] = "saving" /\ call[Save] = "ok"
    /\ pc' = [pc EXCEPT ![Save] = "filing"] /\ call' = [call EXCEPT ![Save] = "none"]
    /\ UNCHANGED <<processes, engines, ending, settings, watchdogs, exiting, guard, holder, want, seen, to, faults, shared, uses>>

SaveEnds ==
    /\ (pc[Save] = "filing" /\ UNCHANGED settings) \/ Fails(Save)
    /\ Ends(Save) /\ busy' = "free"
    /\ UNCHANGED <<processes, engines, ending, watchdogs, exiting, guard, holder, faults, stored, inst, uses>>

-----------------------------------------------------------------------------
(* An installation (native_service.rs, service.rs).  An exit the user asks   *)
(* for is the same shutdown without the gate, and is left out.               *)

(* reserve_installation; the supervisor may refuse to commit, which gives    *)
(* the lease back, or it is forgotten.                                       *)
Reserve ==
    /\ inst = "off" /\ busy = "free" /\ busy' = "install" /\ inst' = "reserved"
    /\ UNCHANGED <<processes, engines, ending, settings, watchdogs, exiting, guard, holder, tasks, requests, faults, stored, uses>>

CommitFails ==
    /\ inst = "reserved" /\ trouble < MaxTrouble /\ trouble' = trouble + 1
    /\ inst' = "failed" /\ busy' = "free"
    /\ UNCHANGED <<processes, engines, ending, settings, watchdogs, exiting, guard, holder, tasks, requests, unstarted, stored, uses>>

BeforeExit ==
    /\ inst = "reserved" /\ inst' = "stopping" /\ KillLive
    /\ UNCHANGED <<tasks, stored, busy, uses>>

(* The application goes away unless the installer could not be launched.     *)
Stopped ==
    /\ inst = "stopping" /\ inst' = "stopped" /\ TakeProcess
    /\ UNCHANGED <<tasks, stored, busy, uses>>

(* installation_failed.                                                      *)
InstallationFailed ==
    /\ inst = "stopped" /\ inst' = "failed" /\ busy' = "free"
    /\ pc[Restore(0)] = "off" /\ Resume
    /\ UNCHANGED <<processes, engines, ending, settings, watchdogs, guard, holder, requests, want, seen, faults, stored, uses>>

-----------------------------------------------------------------------------
ClientStep(t) == Start(t) \/ Write(t) \/ Timeout(t)
RestoreStep(t) == Restart(t) \/ RestoreConfiguration(t) \/ Restored(t)
EndStep(g) == Terminated(g) \/ ReadEnd(g) \/ MarkStopped(g)
WatchStep(g) == WatchdogEnds(g) \/ Probe(g) \/ Healthy(g) \/ Hung(g) \/ GiveUpWaiting(g)
ChanceStep(g) == Crash(g) \/ Hang(g) \/ GoesOn(g)

Client ==
    /\ \/ \E t \in Tasks : ClientStep(t)
       \/ \E t \in Restorers : RestoreStep(t)
       \/ \E g \in Gens : Serve(g) \/ EndStep(g) \/ WatchStep(g) \/ ChanceStep(g)
       \/ Unblock
    /\ UNCHANGED <<shared, uses>>

CallerStep ==
    \/ Settle(Apply) \/ Settle(Save) \/ SettingsApplied
    \/ SaveClip \/ FileClip \/ SaveEnds
    \/ BeforeExit \/ Stopped

Next ==
    \/ Client \/ CallerStep
    \/ \E cfg \in {"A", "B"} : ChangeSettings(cfg)
    \/ StartSave \/ Reserve \/ CommitFails \/ InstallationFailed

Spec == Init /\ [][Next]_vars

(* Callers, restorers, watchdogs and the engine's loop go on; a process told *)
(* to terminate ends; crashes, hangs and the user's wishes come as they may. *)
Of(A) == A /\ UNCHANGED <<shared, uses>>
Fairness ==
    /\ \A t \in Tasks : WF_vars(Of(ClientStep(t)))
    /\ \A t \in Restorers : WF_vars(Of(RestoreStep(t)))
    /\ \A g \in Gens : /\ WF_vars(Of(Serve(g))) /\ WF_vars(Of(EndStep(g)))
                      /\ WF_vars(Of(WatchStep(g)))
    /\ WF_vars(Of(Unblock))
    /\ WF_vars(CallerStep)
FairSpec == Spec /\ Fairness

-----------------------------------------------------------------------------

(* One controller owns one engine child: of the engine processes that run    *)
(* and were not told to end there is only the one requests are written to,   *)
(* whoever starts, restarts and watches it at the same time.                 *)
OneEngine == running \ killed \subseteq {process}

(* A shutdown that is over has left no engine running, although requests,    *)
(* restarts and watchdogs were under way, until recording is resumed.        *)
ShutdownIsComplete == exiting /\ ~guard => process = None /\ running \subseteq killed

(* A caller that waits can still be answered: its engine is the current one, *)
(* or its end has yet to be handled and then fails the request; none is left *)
(* to its timeout of up to half an hour.                                     *)
NoOrphanedRequest ==
    \A t \in Tasks : call[t] = "waiting" => to[t] = process \/ to[t] \in ending

(* An installation never stops the recorder in the middle of a save, which   *)
(* lasts until its clip is listed, and no save starts until it has failed.   *)
InstallSparesSaves == inst \in {"stopping", "stopped"} => pc[Save] = "off"

(* An engine that is gone, or was not configured, is replaced and configured *)
(* as before: not once Clipture exits or has given up on the encoder, and    *)
(* not after an engine that could not be started or still hangs.             *)
Needed == lastCfg # NoCfg /\ (live = None \/ (live \in Gens /\ has[live] = NoCfg))
Excused == exiting \/ recovery = "halted" \/ unstarted \/ live \in hung \/ (live = None /\ gen = MaxGen)
RecordingResumes == Needed ~> ~Needed \/ Excused

(* A shutdown ends, although the write of a request may be blocked on a hung *)
(* engine and hold the lock it needs.                                        *)
ShutdownEnds == guard ~> ~guard
=============================================================================
