------------------------------ MODULE Playback ------------------------------
(***************************************************************************)
(* Playing a clip in a window (src/src-tauri/src/media/{playback,sessions,     *)
(* linear_view,protocol}.rs, commands/media.rs, and ClipPlayer.tsx of the      *)
(* page): one clip, with edit-list patches, played while it may be rewritten.  *)
(*                                                                         *)
(* `version` counts the clip's changes; what is read of it is the version it   *)
(* was read in, and its stamp (length and time) the version that last set it.  *)
(* A trim or mix holds the clip alone while it writes (trim/disk.rs), so that  *)
(* nothing opens it then, and cannot begin while a view is read from it.  A    *)
(* session has the name of the call that opened it.  Of media requests only    *)
(* video reads are followed.                                                *)
(***************************************************************************)
EXTENDS UiProcess

CONSTANTS
    Reads,          \* media requests
    SessionLimit,   \* sessions.rs: sessions kept (32)
    MaxVersion      \* bound: the clip's changes

ASSUME PlaybackAssumption ==
    SessionLimit \in Nat \ {0} /\ MaxVersion \in Nat

VARIABLES
    version,    \* of the clip's file
    stamp,      \* its length and time
    disguised,  \* ghost: the version that a repair left with the stamp of the one before
    scattered,  \* the clip is stored out of playing order
    sessions,   \* MediaSessionRegistry; age: how many were used since
    work,       \* how far each call's command is
    reads,      \* each media request
    player      \* the ClipPlayer of each page

file == <<version, stamp, disguised, scattered>>
playback == <<file, sessions, work, reads, player>>
vars == <<window, playback, uses, trouble>>

NoWork == [at |-> "start", patches |-> None, stamp |-> None, index |-> None]
NoRead == [at |-> "idle"]
NoPlayer == [mounted |-> FALSE, waits |-> {}, pending |-> None]

Init ==
    /\ WindowInit /\ uses = 0 /\ trouble = 0
    /\ version = 0 /\ stamp = 0 /\ disguised = None /\ scattered \in BOOLEAN /\ sessions = {}
    /\ work = [c \in Calls |-> NoWork] /\ reads = [r \in Reads |-> NoRead]
    /\ player = [g \in Windows |-> NoPlayer]

-----------------------------------------------------------------------------
(* MediaSessionRegistry.                                                     *)
ReleasedBy(g) == {s \in sessions : s.owner # g}

(* All but the n most recently used have expired.                            *)
Unexpired(n) == {s \in sessions : s.age < n}

Aged(S) == {[s EXCEPT !.age = @ + 1] : s \in S}
Oldest(S) == {s \in S : \A x \in S : x.age <= s.age}

Opened(new, n) ==
    LET kept == Unexpired(n)
    IN  Aged(IF Cardinality(kept) < SessionLimit THEN kept ELSE kept \ Oldest(kept)) \cup {new}

Touched(s, n) ==
    LET fresher == {x \in sessions : x.age < s.age}
    IN  Aged(fresher) \cup (Unexpired(n) \ (fresher \cup {s})) \cup {[s EXCEPT !.age = 0]}

-----------------------------------------------------------------------------
(* The commands of calls.                                                    *)
Doing(c, do) == AtOf(c) = "running" /\ calls[c].do = do
WorkAt(c, at) == work' = [work EXCEPT ![c].at = at]

(* A trim or mix that has the clip to itself.                                *)
Writing == \E c \in Calls : work[c].at = "writing"

(* audio_edit_list_patches, by an open of its own; nothing is read of a clip  *)
(* that cannot be opened.                                                    *)
ReadPatches(c) ==
    /\ Doing(c, "play") /\ work[c].at = "start" /\ Quiet
    /\ work' = [work EXCEPT ![c].at = "patched", ![c].patches = IF Writing THEN None ELSE version]
    /\ UNCHANGED <<window, file, sessions, reads, player>>

(* LinearView::open: the stamp and the index are read from one open file,     *)
(* which a repair may replace but no trim or mix may write until it is closed. *)
(* A clip that plays as it is stored, or that is not understood, gets no view. *)
Indexes == {None} \cup IF scattered THEN {version} ELSE {}

(* Mutant: the stamp is taken from the path once the file was closed.        *)
MakeViewLate(c) ==
    /\ Doing(c, "play") /\ Quiet
    /\ \/ /\ work[c].at = "patched"
          /\ IF Writing THEN WorkAt(c, "read")
             ELSE \E index \in Indexes : work' = [work EXCEPT ![c].at = "opened", ![c].index = index]
       \/ /\ work[c].at = "opened"
          /\ work' = [work EXCEPT ![c].at = "read", ![c].stamp = stamp]
    /\ UNCHANGED <<window, file, sessions, reads, player>>

MakeView(c) ==
    /\ Doing(c, "play") /\ Quiet
    /\ \/ /\ work[c].at = "patched"
          /\ IF Writing THEN WorkAt(c, "read")
             ELSE \E index \in Indexes :
                    work' = [work EXCEPT ![c].at = "opened", ![c].stamp = stamp, ![c].index = index]
       \/ work[c].at = "opened" /\ WorkAt(c, "read")
    /\ UNCHANGED <<window, file, sessions, reads, player>>

OpenSession(c) ==
    /\ Doing(c, "play") /\ work[c].at = "read" /\ Goes(c, "ran") /\ Quiet
    /\ \E n \in 0 .. MaxCalls :
          sessions' = Opened([call |-> c, owner |-> calls[c].by, age |-> 0, patches |-> work[c].patches,
                              stamp |-> work[c].stamp, index |-> work[c].index], n)
    /\ work' = [work EXCEPT ![c] = NoWork]
    /\ UNCHANGED <<host, session, process, control, pipe, file, reads, player>>

(* release_playback_cache.                                                   *)
ReleaseCache(c) ==
    /\ Doing(c, "release") /\ Goes(c, "ran") /\ Quiet
    /\ sessions' = ReleasedBy(calls[c].by)
    /\ UNCHANGED <<host, session, process, control, pipe, file, work, reads, player>>

(* trim and mix: release_path, and the file's changes (TrimJournal).         *)
ReleasePath(c) ==
    /\ Doing(c, "trim") /\ work[c].at = "start" /\ WorkAt(c, "released") /\ Quiet
    /\ sessions' = {}
    /\ UNCHANGED <<window, file, reads, player>>

(* open_waiting: once nobody else has the clip open.  What it leaves, whether  *)
(* it gets to its end or not, has a length and a time of its own.             *)
Changes == version < MaxVersion /\ version' = version + 1

BeginWrite(c) ==
    /\ Doing(c, "trim") /\ work[c].at = "released" /\ Quiet
    /\ \A d \in Calls : work[d].at \notin {"opened", "writing"}
    /\ version < MaxVersion /\ WorkAt(c, "writing")
    /\ UNCHANGED <<window, file, sessions, reads, player>>

EndWrite(c) ==
    /\ Doing(c, "trim") /\ Goes(c, "ran") /\ WorkAt(c, "start") /\ Quiet
    /\ \/ work[c].at = "released" /\ UNCHANGED <<version, stamp>>
       \/ work[c].at = "writing" /\ Changes /\ stamp' = version'
    /\ UNCHANGED <<host, session, process, control, pipe, disguised, scattered, sessions, reads, player>>

(* ClipLayoutRepair replaces the file with one in playing order and gives it  *)
(* the time of the old one: unless its length differs it looks unchanged.    *)
Repaired ==
    /\ Use /\ scattered /\ ~Writing /\ Changes
    /\ \/ stamp' = version' /\ UNCHANGED disguised
       \/ UNCHANGED stamp /\ disguised' = version'
    /\ scattered' = FALSE
    /\ UNCHANGED <<window, sessions, work, reads, player, trouble>>

(* An async request "may finish after EOF and have just created a session".  *)
(* Mutant: the check comes before the command only.                          *)
FinishesBlindly(c) == Ran(c) /\ UNCHANGED playback

Finishes(c) ==
    /\ Ran(c)
    /\ sessions' = IF session[calls[c].by].alive THEN sessions ELSE ReleasedBy(calls[c].by)
    /\ UNCHANGED <<file, work, reads, player>>

Releases(g) ==
    /\ ReaderReleases(g) /\ sessions' = ReleasedBy(g)
    /\ UNCHANGED <<file, work, reads, player>>

-----------------------------------------------------------------------------
(* A video request: video_stream_plan, and the bytes.                        *)
ReadAt(r, state) == reads' = [reads EXCEPT ![r] = state]

Request(r, g, c) ==
    /\ reads[r] = NoRead /\ process[g] = "open" /\ Quiet
    /\ calls[c].by = g /\ calls[c].do = "play" /\ AtOf(c) = "done"
    /\ ReadAt(r, [at |-> "admitted", by |-> g, call |-> c])
    /\ UNCHANGED <<window, file, sessions, work, player>>

Plan(r) ==
    /\ reads[r].at = "admitted" /\ Quiet
    /\ \E n \in 0 .. MaxCalls :
          LET known == {s \in Unexpired(n) : s.call = reads[r].call /\ s.owner = reads[r].by} IN
          \/ /\ known = {} /\ sessions' = Unexpired(n) /\ ReadAt(r, NoRead)
          \/ \E s \in known :
                /\ sessions' = Touched(s, n)
                /\ ReadAt(r, IF s.index # None /\ (Writing \/ s.stamp # stamp) THEN NoRead
                             ELSE [at |-> "planned", patches |-> s.patches, index |-> s.index,
                                   was |-> version])
    /\ UNCHANGED <<window, file, work, player>>

ReadBytes(r) ==
    /\ reads[r].at = "planned" /\ ReadAt(r, NoRead) /\ Quiet
    /\ UNCHANGED <<window, file, sessions, work, player>>

-----------------------------------------------------------------------------
(* ClipPlayer: opening the next clip waits for the release of the last one;   *)
(* a preparation that was cancelled still opens, and nobody looks.           *)
Mount(g) ==
    /\ process[g] = "open" /\ ~player[g].mounted /\ Quiet
    /\ player' = [player EXCEPT ![g].mounted = TRUE, ![g].waits = @ \cup {player[g].pending}]
    /\ UNCHANGED <<window, file, sessions, work, reads>>

Send(g, c, after) ==
    /\ after \in player[g].waits
    /\ after # None => Settled(after)
    /\ Asks(g, c, "play")
    /\ player' = [player EXCEPT ![g].waits = @ \ {after}]
    /\ UNCHANGED <<file, sessions, work, reads>>

Unmount(g, c) ==
    /\ player[g].mounted /\ Asks(g, c, "release")
    /\ player' = [player EXCEPT ![g].mounted = FALSE, ![g].pending = c]
    /\ UNCHANGED <<file, sessions, work, reads>>

PageAsks(g, c) ==
    /\ \E do \in {"trim", "close"} : Asks(g, c, do)
    /\ UNCHANGED playback

-----------------------------------------------------------------------------
Process(g) == WindowStep(g) \/ CloseTimeout(g)
TaskStep(c) ==
    \/ (CallStep(c) /\ UNCHANGED playback)
    \/ ReadPatches(c) \/ MakeView(c) \/ OpenSession(c) \/ ReleaseCache(c)
    \/ ReleasePath(c) \/ BeginWrite(c) \/ EndWrite(c) \/ Finishes(c)
ServerStep(g) ==
    \/ ((ReaderStep(g) \/ ReaderEnds(g)) /\ UNCHANGED playback)
    \/ Releases(g)

Next ==
    \/ ((UserOpens \/ Reopens \/ HostCloses \/ UserExits \/ Shutdown) /\ UNCHANGED playback)
    \/ \E g \in Windows :
        \/ ((Process(g) \/ StartupTimeout(g) \/ UserCloses(g) \/ Crashes(g)) /\ UNCHANGED playback)
        \/ ServerStep(g) \/ Mount(g)
        \/ \E c \in Calls :
            \/ Unmount(g, c) \/ PageAsks(g, c)
            \/ \E after \in Calls \cup {None} : Send(g, c, after)
            \/ \E r \in Reads : Request(r, g, c)
    \/ \E c \in Calls : TaskStep(c) \/ ((AdmissionTimeout(c) \/ PageGivesUp(c)) /\ UNCHANGED playback)
    \/ \E r \in Reads : Plan(r) \/ ReadBytes(r)
    \/ Repaired

(* The threads, tasks and timers of the controller go on, and so does a window *)
(* process that starts or was told to close; users do as they please.        *)
Spec == Init /\ [][Next]_vars
Fairness ==
    /\ WF_vars(Reopens /\ UNCHANGED playback)
    /\ \A g \in Windows :
        WF_vars(Process(g) /\ UNCHANGED playback) /\ WF_vars(ServerStep(g))
FairSpec == Spec /\ Fairness

-----------------------------------------------------------------------------
(* server.rs: a session "must not outlive its UI owner": once a window is gone *)
(* and its calls are over, none of its sessions is left.                     *)
SessionsEndWithTheirWindow ==
    \A s \in sessions :
        session[s.owner].reader \in {"released", "gone"} =>
            \E c \in Calls : calls[c].by = s.owner /\ AtOf(c) \in {"running", "ran"}

(* Requests are served by the index of the very file they find, however the   *)
(* clip is changed while its view is made and while it is played; but for a   *)
(* repair that left the clip as long as it was, with the old time.  (Not so   *)
(* the patches, which open_playback reads before the stamp: is_current cannot  *)
(* tell that they are of an earlier version.)                               *)
ViewsAreCurrent ==
    \A r \in Reads : reads[r].at = "planned" /\ reads[r].index # None =>
        reads[r].index = reads[r].was \/ reads[r].was = disguised
=============================================================================
