----------------------------- MODULE UiProcess -----------------------------
(***************************************************************************)
(* The disposable window (src/src-tauri/src/app/ui_process): the resident     *)
(* controller and the process it starts for each window, over private pipes.  *)
(*                                                                         *)
(* Windows and calls are numbered in the order they are made.  A pipe delivers *)
(* what was written before its end; what a process had only queued is lost    *)
(* with it.  Event hints are left out, and so is the focus a visible window   *)
(* takes.                                                                   *)
(***************************************************************************)
EXTENDS Naturals, FiniteSets

CONSTANTS
    None,
    Slots, Background,  \* admission.rs: 6 commands at once, 4 of them background
    MaxWaiting,         \* MAXIMUM_WAITING (128)
    MaxQueued,          \* output.rs: frames queued for the pipe (2)
    MaxWindows,         \* bound: windows started
    MaxCalls,           \* bound: calls the pages make
    MaxUses,            \* bound: clicks of the user
    MaxTrouble          \* bound: processes that crash, are slow or do not start, calls given up

ASSUME WindowAssumption ==
    /\ {Slots, Background, MaxWaiting, MaxQueued} \subseteq Nat \ {0} /\ Background < Slots
    /\ {MaxWindows, MaxCalls, MaxUses, MaxTrouble} \subseteq Nat
    /\ None \notin Nat

VARIABLES
    slot,       \* UiController::current
    opened,     \* UiController::next
    reopening,  \* the main thread is to open a window again
    exit,       \* AppState::exiting, and how far request_exit is
    session,    \* Session, and how far its reader is
    process,    \* each window process
    control,    \* Output::hints.control, towards the window
    pipe,       \* lifecycle messages written towards the controller
    calls,      \* each call, from the page to its reply; left: the page waits no more
    uses, trouble

host == <<slot, opened, reopening, exit>>
window == <<host, session, process, control, pipe, calls>>

Windows == 1 .. MaxWindows
Calls == 1 .. MaxCalls
NoSession == [alive |-> FALSE, ready |-> FALSE, closing |-> FALSE, reader |-> "none"]
NoCall == [at |-> "idle", by |-> None, do |-> None, left |-> FALSE]

WindowInit ==
    /\ slot = [session |-> None, reopen |-> FALSE] /\ opened = 0
    /\ reopening = FALSE /\ exit = "no"
    /\ session = [g \in Windows |-> NoSession] /\ process = [g \in Windows |-> "none"]
    /\ control = [g \in Windows |-> None] /\ pipe = [g \in Windows |-> {}]
    /\ calls = [c \in Calls |-> NoCall]

Use == uses < MaxUses /\ uses' = uses + 1
Trouble == trouble < MaxTrouble /\ trouble' = trouble + 1
Quiet == UNCHANGED <<uses, trouble>>

-----------------------------------------------------------------------------
(* Session and UiController.                                                *)

(* Session::stop: the child is killed and waited for under its lock.         *)
Stops(g) ==
    /\ session' = [session EXCEPT ![g].closing = TRUE, ![g].alive = FALSE]
    /\ process' = [process EXCEPT ![g] = "dead"]

(* Output::signal: a Close is never displaced.                               *)
Signals(g, message) ==
    control' = [control EXCEPT ![g] = IF @ = "close" THEN @ ELSE message]

(* Session::close; CloseTimeout stops what has not ended by then.            *)
Closes(g) ==
    IF session[g].closing THEN UNCHANGED <<session, control>>
    ELSE session' = [session EXCEPT ![g].closing = TRUE] /\ Signals(g, "close")

Spawn ==
    LET g == opened + 1 IN
    /\ opened < MaxWindows /\ UNCHANGED control
    /\ \/ /\ opened' = g /\ slot' = [session |-> g, reopen |-> FALSE] /\ UNCHANGED trouble
          /\ session' = [session EXCEPT ![g] =
                [NoSession EXCEPT !.alive = TRUE, !.reader = "reading"]]
          /\ process' = [process EXCEPT ![g] = "starting"]
       \/ Trouble /\ UNCHANGED <<slot, opened, session, process>>

(* UiController::open: a session that is ending is waited for.               *)
(* Mutant: it is not.                                                       *)
Ending(g) == session[g].closing \/ ~session[g].alive
OpensAtOnce ==
    IF slot.session = None \/ Ending(slot.session) THEN Spawn
    ELSE Signals(slot.session, "focus") /\ UNCHANGED <<slot, opened, session, process, trouble>>

Opens ==
    IF slot.session = None THEN Spawn
    ELSE /\ IF Ending(slot.session)
            THEN slot' = [slot EXCEPT !.reopen = TRUE] /\ UNCHANGED control
            ELSE Signals(slot.session, "focus") /\ UNCHANGED slot
         /\ UNCHANGED <<opened, session, process, trouble>>

(* From the tray, a second instance, an update; and on the main thread when   *)
(* one was asked for while the last one ended.                               *)
UserOpens ==
    /\ exit = "no" /\ Use /\ Opens
    /\ UNCHANGED <<reopening, exit, pipe, calls>>

Reopens ==
    /\ reopening /\ reopening' = FALSE /\ UNCHANGED uses
    /\ IF exit = "no" THEN Opens
       ELSE UNCHANGED <<slot, opened, session, process, control, trouble>>
    /\ UNCHANGED <<exit, pipe, calls>>

(* UiController::close, by an update that refreshes the window.              *)
HostCloses ==
    /\ Use /\ slot.session # None /\ Closes(slot.session)
    /\ UNCHANGED <<host, process, pipe, calls, trouble>>

CloseTimeout(g) ==
    /\ session[g].closing /\ session[g].alive /\ Stops(g) /\ Quiet
    /\ UNCHANGED <<host, control, pipe, calls>>

(* startup_watchdog, 20 seconds.                                             *)
StartupTimeout(g) ==
    /\ session[g].alive /\ ~session[g].ready /\ Stops(g) /\ Trouble
    /\ UNCHANGED <<host, control, pipe, calls, uses>>

(* request_exit: begin_exit, then UiController::shutdown.                    *)
UserExits ==
    /\ exit = "no" /\ exit' = "begun" /\ Use
    /\ UNCHANGED <<slot, opened, reopening, session, process, control, pipe, calls, trouble>>

Shutdown ==
    /\ exit = "begun" /\ exit' = "done" /\ Quiet
    /\ slot' = [session |-> None, reopen |-> FALSE]
    /\ IF slot.session # None THEN Stops(slot.session) ELSE UNCHANGED <<session, process>>
    /\ UNCHANGED <<opened, reopening, control, pipe, calls>>

-----------------------------------------------------------------------------
(* The window process (worker.rs, client.rs).                                *)

Starts(g) ==
    /\ process[g] = "starting" /\ process' = [process EXCEPT ![g] = "open"]
    /\ pipe' = [pipe EXCEPT ![g] = @ \cup {"ready"}] /\ Quiet
    /\ UNCHANGED <<host, session, control, calls>>

(* CloseRequested queues Closing, which is written if there is time.         *)
UserCloses(g) ==
    /\ process[g] = "open" /\ process' = [process EXCEPT ![g] = "closing"] /\ Use
    /\ UNCHANGED <<host, session, control, pipe, calls, trouble>>

WritesClosing(g) ==
    /\ process[g] = "closing" /\ process' = [process EXCEPT ![g] = "leaving"] /\ Quiet
    /\ pipe' = [pipe EXCEPT ![g] = @ \cup {"closing"}]
    /\ UNCHANGED <<host, session, control, calls>>

ReadsControl(g) ==
    /\ process[g] = "open" /\ control[g] # None /\ Quiet
    /\ process' = IF control[g] = "close" THEN [process EXCEPT ![g] = "leaving"] ELSE process
    /\ control' = [control EXCEPT ![g] = None]
    /\ UNCHANGED <<host, session, pipe, calls>>

Exits(g) ==
    /\ process[g] \in {"closing", "leaving"} /\ process' = [process EXCEPT ![g] = "dead"] /\ Quiet
    /\ UNCHANGED <<host, session, control, pipe, calls>>

Crashes(g) ==
    /\ process[g] \in {"starting", "open"} /\ process' = [process EXCEPT ![g] = "dead"] /\ Trouble
    /\ UNCHANGED <<host, session, control, pipe, calls, uses>>

WindowStep(g) ==
    \/ Starts(g) \/ WritesClosing(g) \/ ReadsControl(g) \/ Exits(g)

(* Client::invoke, of a page.                                                *)
Idle == {c \in Calls : calls[c].at = "idle"}
Asks(g, c, do) ==
    /\ process[g] = "open" /\ c \in Idle /\ \A d \in Idle : c <= d
    /\ calls' = [calls EXCEPT ![c] = [NoCall EXCEPT !.at = "sent", !.by = g, !.do = do]]
    /\ UNCHANGED <<host, session, process, control, pipe>> /\ Quiet

(* The page's wait for the reply ends with it, or after 600 seconds, while    *)
(* "an accepted background operation may still finish" (Ticket::wait).       *)
Settled(c) == calls[c].at = "done" \/ calls[c].left
PageGivesUp(c) ==
    /\ calls[c].at # "idle" /\ ~Settled(c) /\ Trouble
    /\ calls' = [calls EXCEPT ![c].left = TRUE]
    /\ UNCHANGED <<host, session, process, control, pipe, uses>>

-----------------------------------------------------------------------------
(* The controller's reader of one window (server.rs).                        *)
Reading(g) == session[g].reader = "reading" /\ Quiet
ReaderAt(g, at) == session' = [session EXCEPT ![g].reader = at]

ReadsReady(g) ==
    /\ Reading(g) /\ "ready" \in pipe[g]
    /\ session' = [session EXCEPT ![g].ready = TRUE]
    /\ pipe' = [pipe EXCEPT ![g] = @ \ {"ready"}]
    /\ UNCHANGED <<host, process, control, calls>>

ReadsClosing(g) ==
    /\ Reading(g) /\ pipe[g] = {"closing"} /\ Closes(g)
    /\ pipe' = [pipe EXCEPT ![g] = {}]
    /\ UNCHANGED <<host, process, calls>>

Goes(c, at) == calls' = [calls EXCEPT ![c].at = at]
AtOf(c) == calls[c].at
Waiting(g) == {c \in Calls : calls[c].by = g /\ AtOf(c) \in {"waiting", "background"}}

ReadsInvoke(c) ==
    /\ AtOf(c) = "sent" /\ Reading(calls[c].by) /\ session[calls[c].by].ready
    /\ Goes(c, IF Cardinality(Waiting(calls[c].by)) < MaxWaiting THEN "waiting" ELSE "busy")
    /\ UNCHANGED <<host, session, process, control, pipe>>

(* The end of the pipe; or a Ready of another version, and what follows it is *)
(* not read.                                                                 *)
ReaderEnds(g) ==
    /\ session[g].reader = "reading"
    /\ session' = [session EXCEPT ![g].alive = FALSE, ![g].reader = "ended"]
    /\ \/ /\ process[g] = "dead" /\ pipe[g] = {} /\ Quiet
          /\ \A c \in Calls : calls[c].by = g => AtOf(c) # "sent"
          /\ UNCHANGED pipe
       \/ /\ "ready" \in pipe[g] /\ Trouble /\ UNCHANGED uses
          /\ pipe' = [pipe EXCEPT ![g] = {}]
    /\ UNCHANGED <<host, process, control, calls>>

ReaderStops(g) ==
    /\ session[g].reader = "ended" /\ Quiet
    /\ session' = [session EXCEPT ![g].closing = TRUE, ![g].reader = "stopped"]
    /\ process' = [process EXCEPT ![g] = "dead"]
    /\ UNCHANGED <<host, control, pipe, calls>>

(* release_ui (Playback).                                                    *)
ReaderReleases(g) ==
    /\ session[g].reader = "stopped" /\ ReaderAt(g, "released") /\ Quiet
    /\ UNCHANGED <<host, process, control, pipe, calls>>

(* UiController::disconnected.                                               *)
(* Mutant: the slot is reset first, and reopen with it.                      *)
DisconnectedReset(g) ==
    /\ session[g].reader = "released" /\ ReaderAt(g, "gone") /\ Quiet
    /\ IF slot.session = g
       THEN slot' = [session |-> None, reopen |-> FALSE] /\ reopening' = slot'.reopen
       ELSE UNCHANGED <<slot, reopening>>
    /\ UNCHANGED <<opened, exit, process, control, pipe, calls>>

Disconnected(g) ==
    /\ session[g].reader = "released" /\ ReaderAt(g, "gone") /\ Quiet
    /\ IF slot.session = g
       THEN /\ slot' = [session |-> None, reopen |-> FALSE]
            /\ reopening' = (slot.reopen \/ reopening)
       ELSE UNCHANGED <<slot, reopening>>
    /\ UNCHANGED <<opened, exit, process, control, pipe, calls>>

ReaderStep(g) ==
    \/ ReadsReady(g) \/ ReadsClosing(g) \/ ReaderStops(g) \/ Disconnected(g)
    \/ \E c \in Calls : calls[c].by = g /\ ReadsInvoke(c)

-----------------------------------------------------------------------------
(* One call's task: Admission::acquire, dispatch (Playback), the reply.      *)
Interactive(c) == calls[c].do \in {"play", "release"}
Running(g) == {c \in Calls : calls[c].by = g /\ AtOf(c) \in {"running", "ran", "reply"}}
TakesBackground(g) ==
    {c \in Waiting(g) \cup Running(g) : ~Interactive(c) /\ AtOf(c) # "waiting"}

AdmitBackground(c) ==
    /\ AtOf(c) = "waiting" /\ ~Interactive(c) /\ Cardinality(TakesBackground(calls[c].by)) < Background
    /\ Goes(c, "background") /\ Quiet
    /\ UNCHANGED <<host, session, process, control, pipe>>

Admit(c) ==
    /\ AtOf(c) = IF Interactive(c) THEN "waiting" ELSE "background"
    /\ Cardinality(Running(calls[c].by)) < Slots
    /\ Goes(c, "running") /\ Quiet
    /\ UNCHANGED <<host, session, process, control, pipe>>

(* The timeout, of a call for which there is no slot.                        *)
Blocked(c) ==
    IF AtOf(c) = "waiting" /\ ~Interactive(c)
    THEN Cardinality(TakesBackground(calls[c].by)) = Background ELSE Cardinality(Running(calls[c].by)) = Slots
AdmissionTimeout(c) ==
    /\ c \in Waiting(calls[c].by) /\ Blocked(c) /\ Goes(c, "busy") /\ Trouble
    /\ UNCHANGED <<host, session, process, control, pipe, uses>>

(* close_main_window: the current window, whoever asked.                     *)
RunClose(c) ==
    /\ AtOf(c) = "running" /\ calls[c].do = "close" /\ Goes(c, "ran") /\ Quiet
    /\ IF slot.session # None THEN Closes(slot.session) ELSE UNCHANGED <<session, control>>
    /\ UNCHANGED <<host, process, pipe>>

(* After dispatch: is the window still there?                                *)
Ran(c) ==
    /\ AtOf(c) = "ran" /\ Quiet
    /\ Goes(c, IF session[calls[c].by].alive THEN "reply" ELSE "done")
    /\ UNCHANGED <<host, session, process, control, pipe>>

(* Output::send blocks while the queue is full, with the slot still taken.   *)
Replies(c) ==
    /\ AtOf(c) \in {"reply", "busy"} /\ Quiet
    /\ \/ process[calls[c].by] = "dead" /\ Goes(c, "done")
       \/ /\ process[calls[c].by] # "dead"
          /\ Cardinality({d \in Calls : AtOf(d) = "queued" /\ calls[d].by = calls[c].by}) < MaxQueued
          /\ Goes(c, "queued")
    /\ UNCHANGED <<host, session, process, control, pipe>>

(* Pending::complete; a page that is going away has closed its requests.     *)
Delivered(c) ==
    /\ AtOf(c) = "queued" /\ Goes(c, "done") /\ Quiet
    /\ UNCHANGED <<host, session, process, control, pipe>>

CallStep(c) ==
    \/ AdmitBackground(c) \/ Admit(c) \/ RunClose(c) \/ Replies(c) \/ Delivered(c)

-----------------------------------------------------------------------------
(* controller.rs, open: "Wait for reader cleanup before reusing the WebView   *)
(* profile."  One window process runs at a time, and none after the exit.    *)
OneWindowProcess ==
    /\ Cardinality({g \in Windows : process[g] \notin {"none", "dead"}}) <= 1
    /\ exit = "done" => \A g \in Windows : process[g] \in {"none", "dead"}

(* A window asked for while the last one was ending is shown once that is     *)
(* over, unless it cannot be started or Clipture exits.                      *)
Wanted == slot.reopen \/ reopening
Shown == slot.session # None /\ ~Ending(slot.session)
ReopenHonoured ==
    \A t \in 0 .. MaxTrouble :
        (Wanted /\ trouble = t) ~> (Shown \/ trouble > t \/ exit # "no" \/ opened = MaxWindows)
=============================================================================
