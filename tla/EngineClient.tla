---------------------------- MODULE EngineClient ----------------------------
(***************************************************************************)
(* The host's side of the recording engine (src/src-tauri/src/engine):     *)
(* engine processes in generations, requests that wait for an answer on     *)
(* the engine's output, the restart after an exit, the watchdog of a hung  *)
(* encoder, and the shutdown of the updater and of the exit.               *)
(*                                                                         *)
(* A task is a caller with one request at a time.  What it asks for, and   *)
(* in which order, is the composition's (Recorder.tla): pc is the caller's *)
(* place, want what it would have the engine be configured as.  The list   *)
(* of displays and the diagnostics are requests like the others that leave  *)
(* no state; hotkeys are left out.                                         *)
(***************************************************************************)
EXTENDS Naturals, FiniteSets, Sequences

CONSTANTS MaxGen, MaxTrouble     \* bounds: engines started; crashes, hangs, failed starts

ASSUME ClientAssumption == MaxGen \in Nat \ {0} /\ MaxTrouble \in Nat

Gens == 1 .. MaxGen
None == 0
Save == <<"save", 0>>
Apply == <<"apply", 0>>
Restore(g) == <<"restore", g>>          \* 0: the one of resume_after_failed_update
Restorers == {Restore(g) : g \in 0 .. MaxGen}
Tasks == {Save, Apply} \cup Restorers
Nobody == <<"nobody", 0>>

VARIABLES
    gen,        \* generations handed out
    process,    \* the engine requests are written to
    live,       \* the engine the client takes to be running
    running,    \* engine processes the system runs
    killed,     \* those told to terminate that have not
    hung,       \* those that make no progress and answer nothing
    inbox,      \* each engine's requests in its standard input
    has,        \* what each engine is configured as
    ending,     \* engines mark_stopped has taken, its other effects due
    configured, \* configured_generation
    lastCfg,    \* last_configure
    recovery,   \* encoder_watchdog.rs RecoveryState
    watch,      \* each engine's watchdog
    quiet,      \* no long request has started since its probe did
    exiting,    \* shutting_down
    guard,      \* shutdown is under way and holds start_guard
    holder,     \* the task whose blocked write holds the process lock
    pc, want, seen,     \* each task's place, configuration, generation it started or found
    call, to,   \* each task's request, the engine it was written to
    unstarted,  \* history: an engine could not be started
    trouble

processes == <<gen, process, live, running, killed, hung>>
engines == <<inbox, has>>
settings == <<configured, lastCfg>>
watchdogs == <<recovery, watch, quiet>>
requests == <<call, to>>
tasks == <<pc, want, seen>>
faults == <<unstarted, trouble>>

NoCfg == [cfg |-> "none", boost |-> FALSE]

ClientInit ==
    /\ gen = 0 /\ process = None /\ live = None
    /\ running = {} /\ killed = {} /\ hung = {}
    /\ inbox = [g \in Gens |-> <<>>] /\ has = [g \in Gens |-> NoCfg]
    /\ ending = {}
    /\ configured = None /\ lastCfg = NoCfg
    /\ recovery = "healthy"
    /\ watch = [g \in Gens |-> "off"] /\ quiet = [g \in Gens |-> FALSE]
    /\ exiting = FALSE /\ guard = FALSE /\ holder = Nobody
    /\ pc = [t \in Tasks |-> "off"]
    /\ want = [t \in Tasks |-> NoCfg] /\ seen = [t \in Tasks |-> None]
    /\ call = [t \in Tasks |-> "none"] /\ to = [t \in Tasks |-> None]
    /\ unstarted = FALSE /\ trouble = 0

-----------------------------------------------------------------------------
(* Requests (pending.rs): a task in `registered` or `waiting` has its sender *)
(* in the map; one that lost it before its write is `doomed`.                *)

Pending == {t \in Tasks : call[t] \in {"registered", "waiting"}}

(* LongRequests: probes of the watchdog are no task's.                       *)
LongActive == \E t \in Tasks : call[t] \in {"registered", "doomed", "waiting"}

Disown(box, T) ==
    [g \in Gens |-> [i \in 1 .. Len(box[g]) |->
        IF box[g][i].task \in T THEN [box[g][i] EXCEPT !.task = Nobody] ELSE box[g][i]]]

FailAll ==
    /\ call' = [t \in Tasks |->
           CASE call[t] = "registered" -> "doomed"
             [] call[t] = "waiting" -> "failed"
             [] OTHER -> call[t]]
    /\ inbox' = Disown(inbox, Pending)

(* effective_configure.                                                      *)
Effective(cfg) == [cfg |-> cfg, boost |-> recovery = "healthy"]

(* ensure_started alone and, in front of a request, with a request to send;  *)
(* what it finds: a shutdown, an engine, a halted recorder, or nothing yet.  *)
Sends(place) == place \in {"configure", "saving"}
Found(t, place, g) ==
    /\ seen' = [seen EXCEPT ![t] = IF place = "settle" THEN g ELSE @]
    /\ call' = [call EXCEPT ![t] = IF Sends(place) THEN "registered" ELSE "ok"]
    /\ quiet' = IF Sends(place) THEN [w \in Gens |-> FALSE] ELSE quiet

Begins(t, place) ==
    /\ pc' = [pc EXCEPT ![t] = place]
    /\ \/ /\ exiting \/ (live = None /\ recovery = "halted")
          /\ call' = [call EXCEPT ![t] = "failed"]
          /\ UNCHANGED <<seen, quiet>>
       \/ /\ ~exiting /\ live # None
          /\ Found(t, place, live)
       \/ /\ ~exiting /\ live = None /\ recovery # "halted"
          /\ call' = [call EXCEPT ![t] = "guard"]
          /\ UNCHANGED <<seen, quiet>>

Ends(t) ==
    /\ pc' = [pc EXCEPT ![t] = "off"] /\ call' = [call EXCEPT ![t] = "none"]
    /\ want' = [want EXCEPT ![t] = NoCfg]
    /\ seen' = [seen EXCEPT ![t] = None] /\ to' = [to EXCEPT ![t] = None]

Spawn(g) ==
    /\ gen' = g /\ process' = g /\ live' = g
    /\ running' = running \cup {g}
    /\ watch' = [watch EXCEPT ![g] = "watch"]

(* Under start_guard: look again, then start.                                *)
(* Mutants: an engine started meanwhile is not looked for; a shutdown is not. *)
StartBlindly(t) ==
    /\ call[t] = "guard" /\ ~guard /\ holder = Nobody
    /\ ~exiting /\ gen < MaxGen /\ Spawn(gen + 1) /\ Found(t, pc[t], gen + 1)
    /\ UNCHANGED <<killed, hung, engines, ending, settings, recovery, exiting, guard, holder, pc, want, to, faults>>
StartWhileExiting(t) ==
    /\ call[t] = "guard" /\ ~guard /\ holder = Nobody
    /\ live = None /\ gen < MaxGen /\ Spawn(gen + 1) /\ Found(t, pc[t], gen + 1)
    /\ UNCHANGED <<killed, hung, engines, ending, settings, recovery, exiting, guard, holder, pc, want, to, faults>>
Start(t) ==
    /\ call[t] = "guard" /\ ~guard /\ holder = Nobody
    /\ \/ /\ live # None /\ Found(t, pc[t], live)
          /\ UNCHANGED <<gen, process, live, running, watch, faults>>
       \/ /\ live = None /\ exiting
          /\ call' = [call EXCEPT ![t] = "failed"]
          /\ UNCHANGED <<gen, process, live, running, watch, seen, quiet, faults>>
       \/ /\ live = None /\ ~exiting /\ gen < MaxGen
          /\ Spawn(gen + 1) /\ Found(t, pc[t], gen + 1)
          /\ UNCHANGED faults
       \/ /\ live = None /\ ~exiting /\ trouble < MaxTrouble
          /\ call' = [call EXCEPT ![t] = "failed"]
          /\ unstarted' = TRUE /\ trouble' = trouble + 1
          /\ UNCHANGED <<gen, process, live, running, watch, seen, quiet>>
    /\ UNCHANGED <<killed, hung, engines, ending, settings, recovery, exiting, guard, holder, pc, want, to>>

Message(t, owner) == [task |-> owner, saves |-> pc[t] = "saving", cfg |-> want[t]]
Written(t) ==
    /\ to' = [to EXCEPT ![t] = process]
    /\ IF call[t] = "registered"
       THEN /\ inbox' = [inbox EXCEPT ![process] = Append(@, Message(t, t))]
            /\ call' = [call EXCEPT ![t] = "waiting"]
       ELSE /\ inbox' = [inbox EXCEPT ![process] = Append(@, Message(t, Nobody))]
            /\ call' = [call EXCEPT ![t] = "failed"]
NotWritten(t) == call' = [call EXCEPT ![t] = "failed"] /\ UNCHANGED <<to, inbox>>

(* The write of call(), to whichever engine `process` is by now; that of a   *)
(* hung one may find its pipe full.                                          *)
Write(t) ==
    /\ call[t] \in {"registered", "doomed"} /\ holder = Nobody
    /\ \/ process = None /\ NotWritten(t) /\ UNCHANGED holder
       \/ process # None /\ process \notin running /\ NotWritten(t) /\ UNCHANGED holder
       \/ process \in running /\ Written(t) /\ UNCHANGED holder
       \/ process \in hung /\ holder' = t /\ UNCHANGED <<call, to, inbox>>
    /\ UNCHANGED <<processes, has, ending, settings, watchdogs, exiting, guard, tasks, faults>>

Unblock ==
    /\ holder # Nobody /\ holder' = Nobody
    /\ \/ process \notin running /\ NotWritten(holder)
       \/ process \in running \ hung /\ Written(holder)
    /\ UNCHANGED <<processes, has, ending, settings, watchdogs, exiting, guard, tasks, faults>>

(* The engine's loop takes one request at a time; a save needs a configured  *)
(* engine.                                                                   *)
Serve(g) ==
    /\ g \in running \ (killed \cup hung) /\ inbox[g] # <<>>
    /\ LET m == Head(inbox[g])
       IN  /\ has' = IF m.saves THEN has ELSE [has EXCEPT ![g] = m.cfg]
           /\ call' = IF m.task = Nobody THEN call
                      ELSE [call EXCEPT ![m.task] =
                               IF m.saves /\ has[g] = NoCfg THEN "failed" ELSE "ok"]
    /\ inbox' = [inbox EXCEPT ![g] = Tail(@)]
    /\ UNCHANGED <<processes, ending, settings, watchdogs, exiting, guard, holder, tasks, to, faults>>

Timeout(t) ==
    /\ call[t] = "waiting" /\ to[t] \in hung
    /\ call' = [call EXCEPT ![t] = "failed"]
    /\ inbox' = Disown(inbox, {t})
    /\ UNCHANGED <<processes, has, ending, settings, watchdogs, exiting, guard, holder, tasks, to, faults>>

-----------------------------------------------------------------------------
(* The engine process.                                                       *)

Dies(g) ==
    /\ g \in running /\ running' = running \ {g} /\ killed' = killed \ {g} /\ hung' = hung \ {g}
    /\ inbox' = [inbox EXCEPT ![g] = <<>>] /\ has' = [has EXCEPT ![g] = NoCfg]
    /\ UNCHANGED <<gen, process, live, ending, settings, watchdogs, exiting, guard, holder, tasks, requests, unstarted>>
Crash(g) == g \notin killed /\ trouble < MaxTrouble /\ trouble' = trouble + 1 /\ Dies(g)
Terminated(g) == g \in killed /\ UNCHANGED trouble /\ Dies(g)

Hang(g) ==
    /\ g \in running \ hung /\ trouble < MaxTrouble /\ trouble' = trouble + 1
    /\ hung' = hung \cup {g}
    /\ UNCHANGED <<gen, process, live, running, killed, engines, ending, settings, watchdogs, exiting, guard, holder, tasks, requests, unstarted>>

GoesOn(g) ==
    /\ g \in hung \ killed /\ hung' = hung \ {g}
    /\ UNCHANGED <<gen, process, live, running, killed, engines, ending, settings, watchdogs, exiting, guard, holder, tasks, requests, faults>>

-----------------------------------------------------------------------------
(* An engine has ended (supervision.rs).                                     *)

(* mark_stopped, first half: only the current engine, under the process lock. *)
TakeStopped(g) ==
    /\ holder = Nobody
    /\ IF process = g
       THEN /\ process' = None /\ live' = IF live = g THEN None ELSE live
            /\ ending' = ending \cup {g}
       ELSE UNCHANGED <<process, live, ending>>

(* The reader of an engine that is not current any more changes nothing.     *)
ReadEnd(g) ==
    /\ process = g /\ g \notin running /\ TakeStopped(g)
    /\ UNCHANGED <<gen, running, killed, hung, engines, settings, watchdogs, exiting, guard, holder, tasks, requests, faults>>

(* Second half, without the lock: whatever runs by now is affected too.      *)
Schedules(g) == ~exiting /\ recovery # "halted"
(* Mutants: the requests are left to time out; no restart is scheduled.      *)
MarkStoppedKeepsRequests(g) ==
    /\ g \in ending /\ ending' = ending \ {g}
    /\ configured' = None
    /\ pc' = IF Schedules(g) THEN [pc EXCEPT ![Restore(g)] = "delay"] ELSE pc
    /\ UNCHANGED <<processes, has, inbox, call, lastCfg, watchdogs, exiting, guard, holder, want, seen, to, faults>>
MarkStoppedAndRests(g) ==
    /\ g \in ending /\ ending' = ending \ {g}
    /\ configured' = None /\ FailAll
    /\ UNCHANGED <<processes, has, lastCfg, watchdogs, exiting, guard, holder, tasks, to, faults>>
MarkStopped(g) ==
    /\ g \in ending /\ ending' = ending \ {g}
    /\ configured' = None /\ FailAll
    /\ pc' = IF Schedules(g) THEN [pc EXCEPT ![Restore(g)] = "delay"] ELSE pc
    /\ UNCHANGED <<processes, has, lastCfg, watchdogs, exiting, guard, holder, want, seen, to, faults>>

(* The restart after its delay, then restore_configuration: the generation   *)
(* it stores is read after the answer.  RESTART_DELAY, and a failed launch of *)
(* an installer, are longer than a caller that was answered takes to store   *)
(* what the engine is configured as.                                         *)
Storing == \E t \in Tasks : pc[t] = "configure" /\ call[t] = "ok"
Restart(t) ==
    /\ pc[t] = "delay" /\ ~Storing
    /\ Begins(t, "restart")
    /\ UNCHANGED <<processes, engines, ending, settings, recovery, watch, exiting, guard, holder, want, to, faults>>

RestoreConfiguration(t) ==
    /\ pc[t] = "restart" /\ call[t] = "ok" /\ lastCfg # NoCfg
    /\ Begins(t, "configure")
    /\ want' = [want EXCEPT ![t] = [lastCfg EXCEPT !.boost = @ /\ recovery = "healthy"]]
    /\ UNCHANGED <<processes, engines, ending, settings, recovery, watch, exiting, guard, holder, to, faults>>

Restored(t) ==
    /\ \/ pc[t] = "restart" /\ (call[t] = "failed" \/ (call[t] = "ok" /\ lastCfg = NoCfg))
       \/ pc[t] = "configure" /\ call[t] \in {"ok", "failed"}
    /\ configured' = IF pc[t] = "configure" /\ call[t] = "ok" THEN live ELSE configured
    /\ Ends(t)
    /\ UNCHANGED <<processes, engines, ending, lastCfg, watchdogs, exiting, guard, holder, faults>>

-----------------------------------------------------------------------------
(* The watchdog (watchdog.rs, encoder_watchdog.rs).                          *)

WatchdogEnds(g) ==
    /\ (watch[g] = "watch" /\ exiting) \/ (watch[g] \in {"watch", "probing"} /\ live # g)
    /\ watch' = [watch EXCEPT ![g] = "off"] /\ quiet' = [quiet EXCEPT ![g] = FALSE]
    /\ UNCHANGED <<processes, engines, ending, settings, recovery, exiting, guard, holder, tasks, requests, faults>>

Probe(g) ==
    /\ watch[g] = "watch" /\ ~exiting /\ live = g
    /\ configured = g /\ ~LongActive
    /\ watch' = [watch EXCEPT ![g] = "probing"] /\ quiet' = [quiet EXCEPT ![g] = TRUE]
    /\ UNCHANGED <<processes, engines, ending, settings, recovery, exiting, guard, holder, tasks, requests, faults>>

Healthy(g) ==
    /\ watch[g] = "probing" /\ live = g /\ (LongActive \/ ~quiet[g] \/ g \notin hung)
    /\ watch' = [watch EXCEPT ![g] = "watch"] /\ quiet' = [quiet EXCEPT ![g] = FALSE]
    /\ UNCHANGED <<processes, engines, ending, settings, recovery, exiting, guard, holder, tasks, requests, faults>>

(* recover_from_encoder_hang: record, terminate, then after a grace period   *)
(* go on as if it had ended.                                                 *)
Hung(g) ==
    /\ watch[g] = "probing" /\ live = g /\ ~LongActive /\ quiet[g] /\ g \in hung
    /\ recovery' = IF recovery = "healthy" THEN "recovered" ELSE "halted"
    /\ killed' = killed \cup {g}
    /\ watch' = [watch EXCEPT ![g] = "grace"] /\ quiet' = [quiet EXCEPT ![g] = FALSE]
    /\ UNCHANGED <<gen, process, live, running, hung, engines, ending, settings, exiting, guard, holder, tasks, requests, faults>>

GiveUpWaiting(g) ==
    /\ watch[g] = "grace" /\ TakeStopped(g)
    /\ watch' = [watch EXCEPT ![g] = "off"]
    /\ UNCHANGED <<gen, running, killed, hung, engines, settings, recovery, quiet, exiting, guard, holder, tasks, requests, faults>>

-----------------------------------------------------------------------------
(* shutdown: first by the process id, then through the process lock.         *)

(* Mutant: the process is only killed through its lock.                      *)
WaitForProcess ==
    /\ ~guard /\ guard' = TRUE /\ exiting' = TRUE
    /\ UNCHANGED <<processes, engines, ending, settings, watchdogs, holder, requests, faults>>

KillLive ==
    /\ ~guard /\ guard' = TRUE /\ exiting' = TRUE
    /\ killed' = killed \cup ({live} \cap running) /\ live' = None
    /\ UNCHANGED <<gen, process, running, hung, engines, ending, settings, watchdogs, holder, requests, faults>>

TakeProcess ==
    /\ guard /\ guard' = FALSE /\ holder = Nobody
    /\ killed' = killed \cup ({process} \cap running) /\ process' = None
    /\ FailAll
    /\ UNCHANGED <<gen, live, running, hung, has, ending, settings, watchdogs, exiting, holder, to, faults>>

(* resume_after_failed_update.                                               *)
Resume ==
    /\ ~guard /\ exiting /\ exiting' = FALSE
    /\ pc' = [pc EXCEPT ![Restore(0)] = "delay"]
=============================================================================
