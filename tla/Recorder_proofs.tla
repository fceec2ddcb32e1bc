-------------------------- MODULE Recorder_proofs --------------------------
(* What Recorder promises about engines, shutdowns, requests and saves, for  *)
(* any number of engines started, of faults and of uses.                     *)
EXTENDS Recorder, TLAPS

Watches == {"off", "watch", "probing", "grace"}
Calls == {"none", "guard", "registered", "doomed", "waiting", "ok", "failed"}
Places == {"off", "settle", "configure", "saving", "filing", "delay", "restart"}

(* Outside a shutdown the client's two views of the engine agree, and the    *)
(* watchdog only gives up on an engine it has had killed.                    *)
Controller ==
    /\ gen \in 0 .. MaxGen /\ process \in 0 .. MaxGen /\ live \in 0 .. MaxGen
    /\ running \subseteq Gens
    /\ watch \in [Gens -> Watches]
    /\ live # None => live = process
    /\ guard => live = None
    /\ ~guard /\ live = None => process = None
    /\ \A g \in Gens : watch[g] = "grace" => g \notin running \ killed
    /\ OneEngine /\ ShutdownIsComplete

(* A request that waits was written to some engine.                          *)
Answerable ==
    /\ call \in [Tasks -> Calls] /\ to \in [Tasks -> 0 .. MaxGen]
    /\ holder \in Tasks \cup {Nobody}
    /\ \A t \in Tasks : call[t] = "waiting" => to[t] # None
    /\ NoOrphanedRequest

(* The gate is held by whoever its lease was given to.                       *)
Gated ==
    /\ pc \in [Tasks -> Places]
    /\ pc[Save] # "off" => busy = "save"
    /\ inst \in {"reserved", "stopping", "stopped"} => busy = "install"

IInv == Controller /\ Answerable /\ Gated

controllerVars == <<gen, process, live, running, killed, watch, exiting, guard>>
gateVars == <<pc, busy, inst>>

-----------------------------------------------------------------------------
(* The tasks are told apart, and no engine is None.                          *)

LEMMA TaskFacts ==
    /\ Save \in Tasks /\ Apply \in Tasks /\ Apply # Save
    /\ \A t \in Restorers : t \in Tasks /\ t # Save
    /\ \A g \in Gens : Restore(g) \in Tasks /\ Restore(g) # Save
    /\ Restore(0) \in Tasks /\ Restore(0) # Save
    <1>1. /\ \A g \in 0 .. MaxGen : Restore(g) \in Restorers /\ Restore(g) # Save
          /\ Apply # Save /\ Save \in Tasks /\ Apply \in Tasks /\ Restorers \subseteq Tasks
      BY DEF Restorers, Restore, Save, Apply, Tasks
    <1>2. 0 \in 0 .. MaxGen /\ \A g \in Gens : g \in 0 .. MaxGen
      BY ClientAssumption DEF Gens
    <1>3. \A t \in Restorers : \E g \in 0 .. MaxGen : t = Restore(g)
      BY DEF Restorers
    <1> QED BY <1>1, <1>2, <1>3

LEMMA GenFacts == /\ Gens = 1 .. MaxGen /\ None = 0 /\ None \in 0 .. MaxGen
                  /\ \A g \in 0 .. MaxGen : g # None <=> g \in Gens
    BY ClientAssumption DEF Gens, None

(* Nothing an action leaves alone goes wrong.                                *)
LEMMA ControllerFrame == Controller /\ UNCHANGED controllerVars => Controller'
    BY DEF Controller, controllerVars, OneEngine, ShutdownIsComplete

LEMMA GateFrame == Gated /\ UNCHANGED gateVars => Gated'
    BY DEF Gated, gateVars

(* Requests stay answerable when none starts to wait and the engine they     *)
(* wait for is handed to those whose end is to be handled.                   *)
LEMMA AnswerableKept ==
    ASSUME Answerable,
           call' \in [Tasks -> Calls], to' \in [Tasks -> 0 .. MaxGen],
           holder' \in Tasks \cup {Nobody},
           \A t \in Tasks : call'[t] = "waiting" => call[t] = "waiting" /\ to'[t] = to[t],
           ending \subseteq ending',
           process' = process \/ process = None \/ process \in ending'
    PROVE  Answerable'
    BY DEF Answerable, NoOrphanedRequest

(* What begins a request, or ends one, leaves nobody waiting anew.           *)
LEMMA BeginsRequest ==
    ASSUME Answerable, Gated, NEW t \in Tasks, NEW place \in Places, Begins(t, place)
    PROVE  /\ call' \in [Tasks -> Calls]
           /\ \A u \in Tasks : call'[u] = "waiting" => call[u] = "waiting" /\ u # t
           /\ pc' \in [Tasks -> Places]
           /\ \A u \in Tasks : u # t => pc'[u] = pc[u]
    <1>1. call \in [Tasks -> Calls] /\ pc \in [Tasks -> Places]
      BY DEF Answerable, Gated
    <1>2. pc' = [pc EXCEPT ![t] = place]
      BY DEF Begins
    <1>3. \E x \in {"failed", "guard", "registered", "ok"} : call' = [call EXCEPT ![t] = x]
      BY DEF Begins, Found, Calls
    <1> QED BY <1>1, <1>2, <1>3 DEF Calls, Places

LEMMA EndsRequest ==
    ASSUME Answerable, Gated, NEW t \in Tasks, Ends(t)
    PROVE  /\ call' \in [Tasks -> Calls] /\ to' \in [Tasks -> 0 .. MaxGen]
           /\ \A u \in Tasks : call'[u] = "waiting" => call[u] = "waiting" /\ to'[u] = to[u]
           /\ pc' \in [Tasks -> Places] /\ pc'[t] = "off"
           /\ \A u \in Tasks : u # t => pc'[u] = pc[u]
    <1>1. None \in 0 .. MaxGen
      BY ClientAssumption DEF None
    <1> QED BY <1>1 DEF Ends, Answerable, Gated, Calls, Places

LEMMA FailAllRequests ==
    ASSUME Answerable, FailAll, to' = to
    PROVE  /\ call' \in [Tasks -> Calls]
           /\ \A t \in Tasks : call'[t] # "waiting"
    BY DEF FailAll, Answerable, Calls

(* A request is written to the engine that is current.                       *)
LEMMA WrittenRequest ==
    ASSUME Controller, Answerable, NEW t \in Tasks, process \in running, Written(t),
           UNCHANGED <<process, ending>>, holder' \in Tasks \cup {Nobody}
    PROVE  Answerable'
    <1>1. process \in 0 .. MaxGen /\ process # None
      BY GenFacts DEF Controller
    <1>2. to' = [to EXCEPT ![t] = process]
      BY DEF Written
    <1>3. \E x \in {"waiting", "failed"} : call' = [call EXCEPT ![t] = x]
      BY DEF Written
    <1> QED BY <1>1, <1>2, <1>3 DEF Answerable, NoOrphanedRequest, Calls

LEMMA NotWrittenRequest ==
    ASSUME Answerable, NEW t \in Tasks, NotWritten(t),
           UNCHANGED <<process, ending>>, holder' \in Tasks \cup {Nobody}
    PROVE  Answerable'
    BY DEF NotWritten, Answerable, NoOrphanedRequest, Calls

-----------------------------------------------------------------------------
(* The engine's processes.                                                   *)

(* A new engine is the only one: there was none, and it is the current one.  *)
LEMMA SpawnStep ==
    ASSUME Controller, ~guard, ~exiting, live = None, gen < MaxGen, Spawn(gen + 1),
           UNCHANGED <<killed, exiting, guard>>
    PROVE  Controller'
    <1>1. gen + 1 \in Gens /\ gen + 1 \in 0 .. MaxGen /\ gen + 1 # None
      BY ClientAssumption DEF Controller, Gens, None
    <1>2. process = None /\ running \ killed \subseteq {}
      BY GenFacts DEF Controller, OneEngine
    <1>3. /\ gen' = gen + 1 /\ process' = gen + 1 /\ live' = gen + 1
          /\ running' = running \cup {gen + 1}
          /\ watch' = [watch EXCEPT ![gen + 1] = "watch"]
      BY DEF Spawn
    <1>4. OneEngine' /\ ShutdownIsComplete'
      BY <1>2, <1>3 DEF OneEngine, ShutdownIsComplete
    <1>5. \A g \in Gens : watch'[g] = "grace" => g \notin running' \ killed'
      BY <1>1, <1>3 DEF Controller, Watches
    <1> QED BY <1>1, <1>3, <1>4, <1>5 DEF Controller, Watches

LEMMA StartStep == ASSUME IInv, NEW t \in Tasks, Start(t) PROVE Controller' /\ Answerable'
    <1>1. Controller'
      <2>1. CASE UNCHANGED <<gen, process, live, running, watch>>
        BY <2>1, ControllerFrame DEF IInv, Start, controllerVars
      <2>2. CASE live = None /\ ~exiting /\ gen < MaxGen /\ Spawn(gen + 1)
        BY <2>2, SpawnStep DEF IInv, Start
      <2> QED BY <2>1, <2>2 DEF Start
    <1>2. \E x \in {"failed", "registered", "ok"} : call' = [call EXCEPT ![t] = x]
      BY DEF Start, Found
    <1>3. process' = process \/ process = None
      <2>1. process' = process \/ live = None
        BY DEF Start
      <2> QED BY <2>1 DEF Start, IInv, Controller
    <1>4. Answerable'
      <2>1. /\ call' \in [Tasks -> Calls]
            /\ \A u \in Tasks : call'[u] = "waiting" => call[u] = "waiting"
        BY <1>2 DEF IInv, Answerable, Calls
      <2>2. UNCHANGED <<to, holder, ending>>
        BY DEF Start
      <2> QED BY <1>3, <2>1, <2>2, AnswerableKept DEF IInv, Answerable
    <1> QED BY <1>1, <1>4

LEMMA DiesStep ==
    ASSUME IInv, NEW g \in Gens, Dies(g)
    PROVE  Controller' /\ Answerable'
    <1>1. Controller'
      BY DEF IInv, Controller, OneEngine, ShutdownIsComplete, Dies, watchdogs
    <1>2. Answerable'
      BY DEF IInv, Answerable, NoOrphanedRequest, Dies, requests
    <1> QED BY <1>1, <1>2

(* The current engine is taken once it has ended or been told to, whichever  *)
(* of the reader and the watchdog comes first.                               *)
LEMMA TakeStoppedStep ==
    ASSUME IInv, NEW g \in Gens, TakeStopped(g), g \notin running \ killed,
           UNCHANGED <<gen, running, killed, exiting, guard, call, to, holder>>,
           \/ watch' = watch
           \/ watch' = [watch EXCEPT ![g] = "off"]
    PROVE  Controller' /\ Answerable'
    <1>1. /\ process' \in {process, None} /\ live' \in {live, None}
          /\ process' = process => live' = live
          /\ process = g => process' = None
          /\ process # g => process' = process
      BY GenFacts DEF TakeStopped, IInv, Controller
    <1>2. OneEngine'
      BY <1>1 DEF IInv, Controller, OneEngine
    <1>3. ShutdownIsComplete'
      BY <1>1 DEF IInv, Controller, ShutdownIsComplete
    <1>4. live' # None => live' = process'
      BY <1>1 DEF TakeStopped, IInv, Controller
    <1>5. ~guard' /\ live' = None => process' = None
      BY <1>1 DEF TakeStopped, IInv, Controller
    <1>6. /\ watch' \in [Gens -> Watches]
          /\ \A h \in Gens : watch'[h] = "grace" => h \notin running' \ killed'
      BY DEF IInv, Controller, Watches
    <1>7. Controller'
      BY <1>1, <1>2, <1>3, <1>4, <1>5, <1>6, GenFacts DEF IInv, Controller
    <1>8. ending \subseteq ending' /\ (process' = process \/ process \in ending')
      BY <1>1 DEF TakeStopped
    <1>9. Answerable'
      BY <1>8, AnswerableKept DEF IInv, Answerable
    <1> QED BY <1>7, <1>9

(* A shutdown first has the engine killed by its process id ...              *)
LEMMA KillLiveStep ==
    ASSUME IInv, KillLive
    PROVE  Controller' /\ Answerable'
    <1>1. Controller'
      BY GenFacts DEF KillLive, IInv, Controller, OneEngine, ShutdownIsComplete, watchdogs
    <1>2. UNCHANGED <<call, to, holder, process, ending>>
      BY DEF KillLive, requests
    <1>3. Answerable'
      BY <1>2 DEF IInv, Answerable, NoOrphanedRequest
    <1> QED BY <1>1, <1>3

(* ... and then the one that is current, which is the only one there is.     *)
LEMMA TakeProcessStep ==
    ASSUME IInv, TakeProcess
    PROVE  Controller' /\ Answerable'
    <1>1. Controller'
      BY GenFacts DEF TakeProcess, IInv, Controller, OneEngine, ShutdownIsComplete, watchdogs
    <1>2. UNCHANGED <<to, holder>>
      BY DEF TakeProcess
    <1>3. Answerable'
      BY <1>2, FailAllRequests DEF IInv, TakeProcess, Answerable, NoOrphanedRequest
    <1> QED BY <1>1, <1>3

-----------------------------------------------------------------------------
(* The client's steps, one by one.                                           *)

LEMMA WriteStep ==
    ASSUME IInv, NEW t \in Tasks, Write(t)
    PROVE  Answerable'
    <1>1. UNCHANGED <<process, ending>>
      BY DEF Write, processes
    <1>2. CASE NotWritten(t) /\ holder' = holder
      BY <1>1, <1>2, NotWrittenRequest DEF IInv, Answerable
    <1>3. CASE process \in running /\ Written(t) /\ holder' = holder
      BY <1>1, <1>3, WrittenRequest DEF IInv, Answerable
    <1>4. CASE holder' = t /\ UNCHANGED <<call, to>>
      BY <1>1, <1>4 DEF IInv, Answerable, NoOrphanedRequest
    <1> QED BY <1>2, <1>3, <1>4 DEF Write

LEMMA UnblockStep ==
    ASSUME IInv, Unblock
    PROVE  Answerable'
    <1>1. /\ UNCHANGED <<process, ending>> /\ holder \in Tasks
          /\ holder' \in Tasks \cup {Nobody}
      BY DEF Unblock, processes, IInv, Answerable
    <1>2. CASE NotWritten(holder)
      BY <1>1, <1>2, NotWrittenRequest DEF IInv
    <1>3. CASE process \in running /\ Written(holder)
      BY <1>1, <1>3, WrittenRequest DEF IInv
    <1> QED BY <1>2, <1>3 DEF Unblock

LEMMA ClientSteps ==
    ASSUME IInv, NEW t \in Tasks, ClientStep(t)
    PROVE  Controller' /\ Answerable'
    <1>1. CASE Start(t)
      BY <1>1, StartStep
    <1>2. CASE Write(t)
      <2>1. UNCHANGED controllerVars
        BY <1>2 DEF Write, processes, watchdogs, controllerVars
      <2> QED BY <1>2, <2>1, WriteStep, ControllerFrame DEF IInv
    <1>3. CASE Timeout(t)
      <2>1. UNCHANGED controllerVars
        BY <1>3 DEF Timeout, processes, watchdogs, controllerVars
      <2>2. /\ UNCHANGED <<process, ending, to, holder>>
            /\ call' = [call EXCEPT ![t] = "failed"]
        BY <1>3 DEF Timeout, processes
      <2>3. Answerable'
        BY <2>2 DEF IInv, Answerable, NoOrphanedRequest, Calls
      <2> QED BY <2>1, <2>3, ControllerFrame DEF IInv
    <1> QED BY <1>1, <1>2, <1>3 DEF ClientStep

LEMMA RestoreSteps ==
    ASSUME IInv, NEW t \in Restorers, RestoreStep(t)
    PROVE  Controller' /\ Answerable'
    <1>1. t \in Tasks /\ "restart" \in Places /\ "configure" \in Places
      BY TaskFacts DEF Places
    <1>2. UNCHANGED controllerVars
      BY DEF RestoreStep, Restart, RestoreConfiguration, Restored,
             processes, watchdogs, controllerVars
    <1>3. UNCHANGED <<process, ending, holder>>
      BY DEF RestoreStep, Restart, RestoreConfiguration, Restored, processes
    <1>4. CASE Restart(t) \/ RestoreConfiguration(t)
      <2>1. /\ UNCHANGED to
            /\ \E place \in Places : Begins(t, place)
        BY <1>1, <1>4 DEF Restart, RestoreConfiguration
      <2>2. /\ call' \in [Tasks -> Calls]
            /\ \A u \in Tasks : call'[u] = "waiting" => call[u] = "waiting"
        BY <1>1, <2>1, BeginsRequest DEF IInv
      <2>3. Answerable'
        BY <1>3, <2>1, <2>2, AnswerableKept DEF IInv, Answerable
      <2> QED BY <1>2, <2>3, ControllerFrame DEF IInv
    <1>5. CASE Restored(t)
      <2>1. Ends(t)
        BY <1>5 DEF Restored
      <2>2. Answerable'
        BY <1>1, <1>3, <2>1, EndsRequest, AnswerableKept DEF IInv, Answerable
      <2> QED BY <1>2, <2>2, ControllerFrame DEF IInv
    <1> QED BY <1>4, <1>5 DEF RestoreStep

(* What is left of an engine's end fails every request there is.             *)
LEMMA EndSteps ==
    ASSUME IInv, NEW g \in Gens, EndStep(g)
    PROVE  Controller' /\ Answerable'
    <1>1. CASE Terminated(g)
      BY <1>1, DiesStep DEF Terminated
    <1>2. CASE ReadEnd(g)
      BY <1>2, TakeStoppedStep DEF ReadEnd, watchdogs, requests
    <1>3. CASE MarkStopped(g)
      <2>1. UNCHANGED controllerVars
        BY <1>3 DEF MarkStopped, processes, watchdogs, controllerVars
      <2>2. FailAll /\ UNCHANGED <<to, holder>>
        BY <1>3 DEF MarkStopped
      <2>3. Answerable'
        BY <2>2, FailAllRequests DEF IInv, Answerable, NoOrphanedRequest
      <2> QED BY <2>1, <2>3, ControllerFrame DEF IInv
    <1> QED BY <1>1, <1>2, <1>3 DEF EndStep

LEMMA WatchSteps ==
    ASSUME IInv, NEW g \in Gens, WatchStep(g)
    PROVE  Controller' /\ Answerable'
    <1>1. CASE WatchdogEnds(g) \/ Probe(g) \/ Healthy(g)
      <2>1. UNCHANGED <<processes, exiting, guard, call, to, ending, holder>>
        BY <1>1 DEF WatchdogEnds, Probe, Healthy, requests
      <2>2. \E x \in {"off", "probing", "watch"} : watch' = [watch EXCEPT ![g] = x]
        BY <1>1 DEF WatchdogEnds, Probe, Healthy
      <2>3. Controller'
        BY <2>1, <2>2 DEF IInv, Controller, processes, OneEngine, ShutdownIsComplete, Watches
      <2> QED BY <2>1, <2>3 DEF IInv, Answerable, NoOrphanedRequest, processes
    <1>2. CASE Hung(g)
      <2>1. /\ UNCHANGED <<gen, process, live, running, exiting, guard, call, to, ending, holder>>
            /\ killed' = killed \cup {g} /\ watch' = [watch EXCEPT ![g] = "grace"]
        BY <1>2 DEF Hung, requests
      <2>2. Controller'
        BY <2>1 DEF IInv, Controller, OneEngine, ShutdownIsComplete, Watches
      <2> QED BY <2>1, <2>2 DEF IInv, Answerable, NoOrphanedRequest
    <1>3. CASE GiveUpWaiting(g)
      <2>1. g \notin running \ killed
        BY <1>3 DEF GiveUpWaiting, IInv, Controller
      <2> QED BY <1>3, <2>1, TakeStoppedStep DEF GiveUpWaiting, requests
    <1> QED BY <1>1, <1>2, <1>3 DEF WatchStep

LEMMA ChanceSteps ==
    ASSUME IInv, NEW g \in Gens, ChanceStep(g)
    PROVE  Controller' /\ Answerable'
    <1>1. CASE Crash(g)
      BY <1>1, DiesStep DEF Crash
    <1>2. CASE Hang(g) \/ GoesOn(g)
      <2>1. UNCHANGED controllerVars /\ UNCHANGED <<call, to, ending, holder>>
        BY <1>2 DEF Hang, GoesOn, watchdogs, requests, controllerVars
      <2>2. Answerable'
        BY <2>1 DEF IInv, Answerable, NoOrphanedRequest, controllerVars
      <2> QED BY <2>1, <2>2, ControllerFrame DEF IInv
    <1> QED BY <1>1, <1>2 DEF ChanceStep

LEMMA ServeStep ==
    ASSUME IInv, NEW g \in Gens, Serve(g)
    PROVE  Controller' /\ Answerable'
    <1>1. UNCHANGED controllerVars /\ UNCHANGED <<process, to, ending, holder>>
      BY DEF Serve, processes, watchdogs, controllerVars
    <1> DEFINE m == Head(inbox[g])
    <1>2. \/ call' = call
          \/ \E x \in {"failed", "ok"} : call' = [call EXCEPT ![m.task] = x]
      BY DEF Serve
    <1> HIDE DEF m
    <1>3. /\ call' \in [Tasks -> Calls]
          /\ \A t \in Tasks : call'[t] = "waiting" => call[t] = "waiting"
      BY <1>2 DEF IInv, Answerable, Calls
    <1>4. Answerable'
      BY <1>1, <1>3, AnswerableKept DEF IInv, Answerable
    <1> QED BY <1>1, <1>4, ControllerFrame DEF IInv

(* No step of the client is one of the gate's, and none begins or ends a save. *)
LEMMA ClientGate ==
    ASSUME IInv, Client
    PROVE  Gated'
    <1>1. pc' \in [Tasks -> Places] /\ pc'[Save] = pc[Save]
      <2>1. ASSUME NEW t \in Restorers, RestoreStep(t)
            PROVE  pc' \in [Tasks -> Places] /\ pc'[Save] = pc[Save]
        <3>1. t \in Tasks /\ Save \in Tasks /\ t # Save
          BY TaskFacts
        <3>2. "restart" \in Places /\ "configure" \in Places
          BY DEF Places
        <3>3. CASE Restart(t) \/ RestoreConfiguration(t)
          <4>1. \E place \in Places : Begins(t, place)
            BY <3>2, <3>3 DEF Restart, RestoreConfiguration
          <4> QED BY <3>1, <4>1, BeginsRequest DEF IInv
        <3>4. CASE Restored(t)
          BY <3>1, <3>4, EndsRequest DEF IInv, Restored
        <3> QED BY <2>1, <3>3, <3>4 DEF RestoreStep
      <2>2. ASSUME NEW g \in Gens, MarkStopped(g)
            PROVE  pc' \in [Tasks -> Places] /\ pc'[Save] = pc[Save]
        <3>1. pc' = pc \/ pc' = [pc EXCEPT ![Restore(g)] = "delay"]
          BY <2>2 DEF MarkStopped
        <3>2. Restore(g) \in Tasks /\ Save \in Tasks /\ Restore(g) # Save
          BY TaskFacts
        <3> QED BY <3>1, <3>2 DEF IInv, Gated, Places
      <2>3. ASSUME UNCHANGED pc
            PROVE  pc' \in [Tasks -> Places] /\ pc'[Save] = pc[Save]
        BY <2>3 DEF IInv, Gated
      <2>4. ASSUME NEW t \in Tasks, ClientStep(t) PROVE UNCHANGED pc
        BY <2>4 DEF ClientStep, Start, Write, Timeout, tasks
      <2>5. ASSUME NEW g \in Gens, Serve(g) \/ WatchStep(g) \/ ChanceStep(g)
            PROVE  UNCHANGED pc
        BY <2>5 DEF Serve, WatchStep, WatchdogEnds, Probe, Healthy, Hung, GiveUpWaiting,
                    ChanceStep, Crash, Hang, GoesOn, Dies, tasks
      <2>6. ASSUME NEW g \in Gens, Terminated(g) \/ ReadEnd(g) PROVE UNCHANGED pc
        BY <2>6 DEF Terminated, ReadEnd, Dies, tasks
      <2>7. Unblock => UNCHANGED pc
        BY DEF Unblock, tasks
      <2> QED BY <2>1, <2>2, <2>3, <2>4, <2>5, <2>6, <2>7 DEF Client, EndStep
    <1>2. UNCHANGED <<busy, inst>>
      BY DEF Client, shared
    <1> QED BY <1>1, <1>2 DEF IInv, Gated

LEMMA ClientInvariant ==
    ASSUME IInv, Client
    PROVE  IInv'
    <1>1. Controller' /\ Answerable'
      <2>1. CASE Unblock
        <3>1. UNCHANGED controllerVars
          BY <2>1 DEF Unblock, processes, watchdogs, controllerVars
        <3> QED BY <2>1, <3>1, UnblockStep, ControllerFrame DEF IInv
      <2> QED BY <2>1, ClientSteps, RestoreSteps, EndSteps, WatchSteps, ChanceSteps, ServeStep
              DEF Client
    <1> QED BY <1>1, ClientGate DEF IInv

-----------------------------------------------------------------------------
(* The callers' steps.                                                       *)

(* A step that begins or ends a request of a caller and touches no engine.   *)
LEMMA CallerFrame ==
    ASSUME IInv, UNCHANGED controllerVars, UNCHANGED <<ending, holder>>,
           NEW t \in Tasks,
           \/ \E place \in Places : Begins(t, place) /\ to' \in {to, [to EXCEPT ![t] = None]}
           \/ Ends(t)
    PROVE  Controller' /\ Answerable'
    <1>1. process' = process
      BY DEF controllerVars
    <1>2. CASE \E place \in Places : Begins(t, place) /\ to' \in {to, [to EXCEPT ![t] = None]}
      <2>1. /\ call' \in [Tasks -> Calls]
            /\ \A u \in Tasks : call'[u] = "waiting" => call[u] = "waiting" /\ u # t
        BY <1>2, BeginsRequest DEF IInv
      <2>2. /\ to' \in [Tasks -> 0 .. MaxGen]
            /\ \A u \in Tasks : u # t => to'[u] = to[u]
        BY <1>2, GenFacts DEF IInv, Answerable
      <2>3. Answerable'
        BY <1>1, <2>1, <2>2, AnswerableKept DEF IInv, Answerable
      <2> QED BY <2>3, ControllerFrame DEF IInv
    <1>3. CASE Ends(t)
      <2>1. Answerable'
        BY <1>1, <1>3, EndsRequest, AnswerableKept DEF IInv, Answerable
      <2> QED BY <2>1, ControllerFrame DEF IInv
    <1> QED BY <1>2, <1>3

LEMMA ChangeSettingsStep ==
    ASSUME IInv, NEW cfg \in {"A", "B"}, ChangeSettings(cfg)
    PROVE  IInv'
    <1>1. Apply \in Tasks /\ Save \in Tasks /\ Apply # Save /\ "settle" \in Places
      BY TaskFacts DEF Places
    <1>2. Begins(Apply, "settle")
      BY DEF ChangeSettings, Configures
    <1>3. UNCHANGED controllerVars /\ UNCHANGED <<ending, holder, to, busy, inst>>
      BY DEF ChangeSettings, processes, controllerVars
    <1>4. Controller' /\ Answerable'
      BY <1>1, <1>2, <1>3, CallerFrame
    <1>5. Gated'
      BY <1>1, <1>2, <1>3, BeginsRequest DEF IInv, Gated
    <1> QED BY <1>4, <1>5 DEF IInv

(* A save begins only with the gate's lease.                                 *)
LEMMA StartSaveStep ==
    ASSUME IInv, StartSave
    PROVE  IInv'
    <1>1. Save \in Tasks /\ "settle" \in Places
      BY TaskFacts DEF Places
    <1>2. Begins(Save, "settle")
      BY DEF StartSave, Configures
    <1>3. UNCHANGED controllerVars /\ UNCHANGED <<ending, holder, to, inst>>
      BY DEF StartSave, processes, controllerVars
    <1>4. Controller' /\ Answerable'
      BY <1>1, <1>2, <1>3, CallerFrame
    <1>5. Gated'
      BY <1>1, <1>2, <1>3, BeginsRequest DEF IInv, Gated, StartSave
    <1> QED BY <1>4, <1>5 DEF IInv

LEMMA SettleStep ==
    ASSUME IInv, NEW t \in {Apply, Save}, Settle(t)
    PROVE  IInv'
    <1>1. t \in Tasks /\ Save \in Tasks /\ "configure" \in Places /\ "off" # "settle"
      BY TaskFacts DEF Places
    <1>2. Begins(t, "configure") /\ pc[t] = "settle"
      BY DEF Settle
    <1>3. UNCHANGED controllerVars /\ UNCHANGED <<ending, holder, to, busy, inst>>
      BY DEF Settle, processes, controllerVars, shared
    <1>4. Controller' /\ Answerable'
      BY <1>1, <1>2, <1>3, CallerFrame
    <1>5. /\ pc' \in [Tasks -> Places]
          /\ pc'[Save] # "off" => pc[Save] # "off"
      BY <1>1, <1>2, BeginsRequest DEF IInv
    <1>6. Gated'
      BY <1>3, <1>5 DEF IInv, Gated
    <1> QED BY <1>4, <1>6 DEF IInv

LEMMA SettingsAppliedStep ==
    ASSUME IInv, SettingsApplied
    PROVE  IInv'
    <1>1. Apply \in Tasks /\ Save \in Tasks /\ Apply # Save
      BY TaskFacts
    <1>2. Ends(Apply)
      BY DEF SettingsApplied
    <1>3. UNCHANGED controllerVars /\ UNCHANGED <<ending, holder, busy, inst>>
      BY DEF SettingsApplied, processes, watchdogs, controllerVars, shared
    <1>4. Controller' /\ Answerable'
      BY <1>1, <1>2, <1>3, CallerFrame
    <1>5. Gated'
      BY <1>1, <1>2, <1>3, EndsRequest DEF IInv, Gated
    <1> QED BY <1>4, <1>5 DEF IInv

LEMMA SaveClipStep ==
    ASSUME IInv, SaveClip
    PROVE  IInv'
    <1>1. Save \in Tasks /\ "saving" \in Places
      BY TaskFacts DEF Places
    <1>2. Begins(Save, "saving") /\ pc[Save] \in {"settle", "configure"}
      BY DEF SaveClip, IsConfigured
    <1>3. /\ UNCHANGED controllerVars /\ UNCHANGED <<ending, holder, busy, inst>>
          /\ to' = [to EXCEPT ![Save] = None]
      BY DEF SaveClip, processes, controllerVars, shared
    <1>4. Controller' /\ Answerable'
      BY <1>1, <1>2, <1>3, CallerFrame
    <1>5. Gated'
      BY <1>1, <1>2, <1>3, BeginsRequest DEF IInv, Gated
    <1> QED BY <1>4, <1>5 DEF IInv

LEMMA FileClipStep ==
    ASSUME IInv, FileClip
    PROVE  IInv'
    <1>1. Save \in Tasks
      BY TaskFacts
    <1>2. /\ UNCHANGED controllerVars /\ UNCHANGED <<process, ending, holder, to, busy, inst>>
          /\ call' = [call EXCEPT ![Save] = "none"]
          /\ pc[Save] = "saving" /\ pc' = [pc EXCEPT ![Save] = "filing"]
      BY DEF FileClip, processes, watchdogs, controllerVars, shared
    <1>3. Answerable'
      BY <1>1, <1>2 DEF IInv, Answerable, NoOrphanedRequest, Calls
    <1>4. Gated'
      BY <1>1, <1>2 DEF IInv, Gated, Places
    <1> QED BY <1>2, <1>3, <1>4, ControllerFrame DEF IInv

(* The lease is given back with the save's end, and was a save's.            *)
LEMMA SaveEndsStep ==
    ASSUME IInv, SaveEnds
    PROVE  IInv'
    <1>1. Save \in Tasks
      BY TaskFacts
    <1>2. Ends(Save) /\ pc[Save] # "off"
      BY DEF SaveEnds, Fails
    <1>3. UNCHANGED controllerVars /\ UNCHANGED <<ending, holder, inst>> /\ busy' = "free"
      BY DEF SaveEnds, processes, watchdogs, controllerVars
    <1>4. Controller' /\ Answerable'
      BY <1>1, <1>2, <1>3, CallerFrame
    <1>5. Gated'
      BY <1>1, <1>2, <1>3, EndsRequest DEF IInv, Gated
    <1> QED BY <1>4, <1>5 DEF IInv

(* The installation's own steps: the gate, and what it asks of the client.   *)
LEMMA InstallationStep ==
    ASSUME IInv, Reserve \/ CommitFails \/ BeforeExit \/ Stopped \/ InstallationFailed
    PROVE  IInv'
    <1>1. CASE Reserve \/ CommitFails
      <2>1. /\ UNCHANGED controllerVars /\ UNCHANGED <<process, ending, holder, call, to, pc>>
        BY <1>1 DEF Reserve, CommitFails, processes, watchdogs, tasks, requests, controllerVars
      <2>2. Answerable'
        BY <2>1 DEF IInv, Answerable, NoOrphanedRequest
      <2>3. Gated'
        BY <1>1, <2>1 DEF IInv, Gated, Reserve, CommitFails
      <2> QED BY <2>1, <2>2, <2>3, ControllerFrame DEF IInv
    <1>2. CASE BeforeExit
      <2>1. Gated'
        BY <1>2 DEF BeforeExit, IInv, Gated, tasks
      <2> QED BY <1>2, <2>1, KillLiveStep DEF BeforeExit, IInv
    <1>3. CASE Stopped
      <2>1. Gated'
        BY <1>3 DEF Stopped, IInv, Gated, tasks
      <2> QED BY <1>3, <2>1, TakeProcessStep DEF Stopped, IInv
    <1>4. CASE InstallationFailed
      <2>1. /\ UNCHANGED <<processes, watch, guard, call, to, ending, holder>>
            /\ exiting' = FALSE /\ pc' = [pc EXCEPT ![Restore(0)] = "delay"]
            /\ busy' = "free" /\ inst = "stopped" /\ inst' = "failed"
        BY <1>4 DEF InstallationFailed, Resume, watchdogs, requests
      <2>2. Controller'
        BY <2>1 DEF IInv, Controller, OneEngine, ShutdownIsComplete, processes
      <2>3. Answerable'
        BY <2>1 DEF IInv, Answerable, NoOrphanedRequest, processes
      <2>4. Gated'
        BY <2>1, TaskFacts DEF IInv, Gated, Places
      <2> QED BY <2>2, <2>3, <2>4 DEF IInv
    <1> QED BY <1>1, <1>2, <1>3, <1>4

-----------------------------------------------------------------------------

LEMMA InitInvariant ==
    ASSUME Init
    PROVE  IInv
    <1>1. Controller
      BY GenFacts DEF Init, ClientInit, Controller, OneEngine, ShutdownIsComplete, Watches
    <1>2. Answerable
      BY GenFacts DEF Init, ClientInit, Answerable, NoOrphanedRequest, Calls
    <1>3. Gated
      BY TaskFacts DEF Init, ClientInit, Gated, Places
    <1> QED BY <1>1, <1>2, <1>3 DEF IInv

LEMMA NextInvariant ==
    ASSUME IInv, Next
    PROVE  IInv'
    BY ClientInvariant, ChangeSettingsStep, StartSaveStep, SettleStep, SettingsAppliedStep,
       SaveClipStep, FileClipStep, SaveEndsStep, InstallationStep
       DEF Next, CallerStep

LEMMA StutterInvariant ==
    ASSUME IInv, UNCHANGED vars
    PROVE  IInv'
    <1>1. /\ UNCHANGED controllerVars /\ UNCHANGED gateVars
          /\ UNCHANGED <<process, call, to, holder, ending>>
      BY DEF vars, processes, watchdogs, tasks, requests, shared, controllerVars, gateVars
    <1>2. Answerable'
      BY <1>1 DEF IInv, Answerable, NoOrphanedRequest
    <1> QED BY <1>1, <1>2, ControllerFrame, GateFrame DEF IInv

(* Outside a shutdown there is one engine and the client knows it, whoever   *)
(* waits was written to one that is or was current, and the gate is a save's *)
(* or an installation's.                                                     *)
THEOREM Invariance == Spec => []IInv
    <1>1. Init => IInv
      BY InitInvariant
    <1>2. IInv /\ [Next]_vars => IInv'
      BY NextInvariant, StutterInvariant
    <1> QED BY <1>1, <1>2, PTL DEF Spec

(* Of the engines that run and were not told to end there is only the one    *)
(* requests are written to (EngineClient::start, mark_stopped, shutdown).    *)
THEOREM OneEngineAlways == Spec => []OneEngine
    <1>1. IInv => OneEngine
      BY DEF IInv, Controller
    <1> QED BY <1>1, Invariance, PTL

(* Once a shutdown is over no engine is left, until recording is resumed     *)
(* (EngineClient::shutdown against ensure_started, restarts and watchdogs).  *)
THEOREM ShutdownAlwaysComplete == Spec => []ShutdownIsComplete
    <1>1. IInv => ShutdownIsComplete
      BY DEF IInv, Controller
    <1> QED BY <1>1, Invariance, PTL

(* Whoever waits for an answer waits for the current engine, or for one      *)
(* whose end is still to fail the request (mark_stopped, pending.rs).        *)
THEOREM NobodyIsOrphaned == Spec => []NoOrphanedRequest
    <1>1. IInv => NoOrphanedRequest
      BY DEF IInv, Answerable
    <1> QED BY <1>1, Invariance, PTL

(* An installation stops the recorder only when no save is under way, and    *)
(* none starts until it has failed (CaptureOperationGate).                   *)
THEOREM SavesAreSpared == Spec => []InstallSparesSaves
    <1>1. IInv => InstallSparesSaves
      BY DEF IInv, Gated, InstallSparesSaves
    <1> QED BY <1>1, Invariance, PTL
=============================================================================
