--------------------------- MODULE Playback_proofs ---------------------------
(* Windows one at a time, sessions that end with theirs, views of the file    *)
(* they are served from: for any number of windows, calls and media requests. *)
(* Then a mix of a clip's audio in place, for a clip of any length and any    *)
(* number of mixes, trims, faults and crashes.                               *)
EXTENDS Playback, MixJournal, FiniteSetTheorems, WellFoundedInduction, TLAPS

Stages == {"start", "patched", "opened", "read", "released", "writing"}
Places == {"idle", "sent", "waiting", "background", "running", "ran", "reply", "busy",
           "queued", "done"}
Behind == {"released", "gone"}
Ended == {"none", "dead"}

(* Only the controller's current window has a process, and a reader gets past *)
(* its stop only once that has ended.                                        *)
SlotType == [session : Windows \cup {None}, reopen : BOOLEAN]
SessionState == [alive : BOOLEAN, ready : BOOLEAN, closing : BOOLEAN,
                 reader : {"none", "reading", "ended", "stopped"} \cup Behind]
WindowOK ==
    /\ opened \in Nat
    /\ slot \in SlotType
    /\ session \in [Windows -> SessionState]
    /\ process \in [Windows -> {"starting", "open", "closing", "leaving"} \cup Ended]
    /\ \A g \in Windows : process[g] \notin Ended => slot.session = g
    /\ \A g \in Windows : session[g].reader \in {"stopped"} \cup Behind => process[g] \in Ended
    /\ \A g \in Windows : session[g].alive => session[g].reader = "reading"
    /\ exit = "done" => slot.session = None

CallsOK ==
    /\ calls \in [Calls -> [at : Places, by : Windows \cup {None},
                            do : {"play", "release", "trim", "close", None}, left : BOOLEAN]]
    /\ \A c \in Calls : AtOf(c) # "idle" => calls[c].by \in Windows

(* An index was read in the version that has the stamp noted with it, or in    *)
(* one before a repair that kept that stamp: and only one can, after which    *)
(* the clip is in playing order.  Every other change sets a stamp of its own, *)
(* later than any that was noted.                                            *)
Kept(noted, index) ==
    index # None =>
        /\ noted \in Nat /\ index \in Nat /\ noted <= version
        /\ noted = stamp => index = version \/ version = disguised
Numbers == Nat \cup {None}
WorkType == [at : Stages, patches : Numbers, stamp : Numbers, index : Numbers]
FileOK ==
    /\ version \in Nat /\ stamp \in Nat /\ stamp <= version
    /\ disguised \in Numbers /\ scattered \in BOOLEAN
    /\ disguised # None => ~scattered
ViewsOK ==
    /\ FileOK
    /\ work \in [Calls -> WorkType]
    /\ \A c \in Calls : Kept(work[c].stamp, work[c].index)
    /\ \A s \in sessions : Kept(s.stamp, s.index)
    /\ reads = [r \in Reads |-> reads[r]]
    /\ \A r \in Reads : reads[r].at = "planned" => reads[r].was \in Nat
    /\ ViewsAreCurrent

SessionType == [call : Calls, owner : Windows, age : Nat, patches : Numbers, stamp : Numbers,
                index : Numbers]
SessionsOK ==
    /\ sessions \subseteq SessionType
    /\ SessionsEndWithTheirWindow

IInv == WindowOK /\ CallsOK /\ ViewsOK /\ SessionsOK

(* No window is None, and no call.                                           *)
LEMMA NumberFacts ==
    /\ None \notin Windows /\ None \notin Calls /\ None \notin Nat
    /\ Windows \subseteq Nat /\ Calls \subseteq Nat
    /\ \A n \in Nat : n < MaxWindows => n + 1 \in Windows
    BY WindowAssumption DEF Windows, Calls

-----------------------------------------------------------------------------
(* The window's steps leave calls and playback alone, and a reader goes from  *)
(* its stop to the end of the window only in the steps that say so.          *)

StillReads == \A g \in Windows : session'[g].reader \in Behind => session[g].reader \in Behind

LEMMA NoSlot == [session |-> None, reopen |-> FALSE] \in SlotType
    BY DEF SlotType

LEMMA StopsStep ==
    ASSUME WindowOK, NEW g \in Windows, Stops(g), opened' = opened,
           slot' = slot \/ (slot.session = g /\ slot' = [session |-> None, reopen |-> FALSE]),
           exit' = exit \/ slot'.session = None
    PROVE  WindowOK' /\ StillReads
    <1>1. /\ session' = [session EXCEPT ![g].closing = TRUE, ![g].alive = FALSE]
          /\ process' = [process EXCEPT ![g] = "dead"]
      BY DEF Stops
    <1>2. /\ session' \in [Windows -> SessionState]
          /\ \A h \in Windows : /\ session'[h].reader = session[h].reader
                                /\ session'[h].alive => session[h].alive
      BY <1>1 DEF WindowOK, SessionState
    <1>3. /\ process' \in [Windows -> {"starting", "open", "closing", "leaving"} \cup Ended]
          /\ \A h \in Windows : process'[h] \notin Ended => h # g /\ process[h] \notin Ended
      BY <1>1 DEF WindowOK, Ended
    <1>4. slot' \in SlotType
      BY NoSlot, Zenon DEF WindowOK
    <1>5. \A h \in Windows : process'[h] \notin Ended => slot'.session = h
      BY <1>3 DEF WindowOK
    <1>6. \A h \in Windows : session'[h].reader \in {"stopped"} \cup Behind => process'[h] \in Ended
      BY <1>2, <1>3 DEF WindowOK
    <1>7. exit' = "done" => slot'.session = None
      BY DEF WindowOK
    <1>8. opened' \in Nat /\ \A h \in Windows : session'[h].alive => session'[h].reader = "reading"
      BY <1>2 DEF WindowOK
    <1> QED BY <1>2, <1>3, <1>4, <1>5, <1>6, <1>7, <1>8 DEF WindowOK, StillReads

LEMMA ClosesStep ==
    ASSUME WindowOK, NEW g \in Windows, Closes(g), UNCHANGED <<slot, opened, exit, process>>
    PROVE  WindowOK' /\ StillReads
    <1>1. session' = session \/ session' = [session EXCEPT ![g].closing = TRUE]
      BY DEF Closes
    <1>2. /\ session' \in [Windows -> SessionState]
          /\ \A h \in Windows : /\ session'[h].reader = session[h].reader
                                /\ session'[h].alive = session[h].alive
      <2>1. CASE session' = session
        BY <2>1 DEF WindowOK
      <2>2. CASE session' = [session EXCEPT ![g].closing = TRUE]
        BY <2>2 DEF WindowOK, SessionState
      <2> QED BY <1>1, <2>1, <2>2
    <1> QED BY <1>2 DEF WindowOK, StillReads

(* A window process starts when the controller has none.                     *)
LEMMA SpawnStep ==
    ASSUME WindowOK, Spawn, slot.session = None, exit = "no", exit' = exit
    PROVE  WindowOK' /\ StillReads
    <1>1. CASE UNCHANGED <<slot, opened, session, process>>
      BY <1>1 DEF WindowOK, StillReads
    <1>2. CASE ~UNCHANGED <<slot, opened, session, process>>
      <2> DEFINE g == opened + 1
      <2>1. g \in Windows /\ g \in Nat
        BY NumberFacts DEF Spawn, WindowOK
      <2>2. /\ opened' = g /\ slot' = [session |-> g, reopen |-> FALSE]
            /\ session' = [session EXCEPT ![g] =
                  [NoSession EXCEPT !.alive = TRUE, !.reader = "reading"]]
            /\ process' = [process EXCEPT ![g] = "starting"]
        BY <1>2 DEF Spawn
      <2> HIDE DEF g
      <2>3. \A h \in Windows : process[h] \in Ended
        BY NumberFacts DEF WindowOK
      <2> QED BY <2>1, <2>2, <2>3 DEF WindowOK, SlotType, SessionState, StillReads, NoSession, Ended, Behind
    <1> QED BY <1>1, <1>2

LEMMA OpensStep ==
    ASSUME WindowOK, Opens, exit = "no", exit' = exit
    PROVE  WindowOK' /\ StillReads
    <1>1. CASE slot.session = None
      BY <1>1, SpawnStep DEF Opens
    <1>2. CASE slot.session # None
      <2>1. /\ UNCHANGED <<opened, session, process>>
            /\ slot' = slot \/ slot' = [slot EXCEPT !.reopen = TRUE]
        BY <1>2 DEF Opens
      <2> QED BY <2>1 DEF WindowOK, SlotType, StillReads
    <1> QED BY <1>1, <1>2

(* The controller.                                                           *)
LEMMA HostStep ==
    ASSUME WindowOK, UserOpens \/ Reopens \/ HostCloses \/ UserExits \/ Shutdown
    PROVE  WindowOK' /\ StillReads
    <1>1. CASE UserOpens
      BY <1>1, OpensStep DEF UserOpens
    <1>2. CASE Reopens
      <2>1. CASE exit = "no"
        BY <1>2, <2>1, OpensStep DEF Reopens
      <2>2. CASE exit # "no"
        BY <1>2, <2>2 DEF Reopens, WindowOK, StillReads
      <2> QED BY <2>1, <2>2
    <1>3. CASE HostCloses
      BY <1>3, ClosesStep DEF HostCloses, host, WindowOK, SlotType
    <1>4. CASE UserExits
      BY <1>4 DEF UserExits, WindowOK, StillReads
    <1>5. CASE Shutdown
      <2>1. /\ slot' = [session |-> None, reopen |-> FALSE] /\ opened' = opened
            /\ exit' = "done"
        BY <1>5 DEF Shutdown
      <2>2. CASE slot.session # None
        BY <1>5, <2>1, <2>2, StopsStep DEF Shutdown, WindowOK, SlotType
      <2>3. CASE slot.session = None
        BY <1>5, <2>1, <2>3, NumberFacts DEF Shutdown, WindowOK, SlotType, StillReads
      <2> QED BY <2>2, <2>3
    <1> QED BY <1>1, <1>2, <1>3, <1>4, <1>5

(* A process ends where it got to; it does not start again.                  *)
LEMMA ProcessStep ==
    ASSUME WindowOK, NEW g \in Windows,
           WindowStep(g) \/ UserCloses(g) \/ Crashes(g)
    PROVE  WindowOK' /\ StillReads
    <1>1. UNCHANGED <<slot, opened, exit, session>>
      BY DEF WindowStep, Starts, WritesClosing, ReadsControl, Exits, UserCloses, Crashes, host
    <1>2. \/ process' = process
          \/ /\ process[g] \notin Ended
             /\ \E x \in {"open", "closing", "leaving", "dead"} : process' = [process EXCEPT ![g] = x]
      BY DEF WindowStep, Starts, WritesClosing, ReadsControl, Exits, UserCloses, Crashes, Ended
    <1> QED BY <1>1, <1>2 DEF WindowOK, SlotType, SessionState, StillReads, Ended, Behind

LEMMA TimeoutStep ==
    ASSUME WindowOK, NEW g \in Windows, CloseTimeout(g) \/ StartupTimeout(g)
    PROVE  WindowOK' /\ StillReads
    BY StopsStep DEF CloseTimeout, StartupTimeout, host

(* The reader of a window, up to its release.                                *)
LEMMA ReaderStepOK ==
    ASSUME WindowOK, NEW g \in Windows,
           ReadsReady(g) \/ ReadsClosing(g) \/ ReaderStops(g) \/ Disconnected(g) \/ ReaderEnds(g)
    PROVE  WindowOK' /\ StillReads
    <1>1. CASE ReadsReady(g)
      <2>1. /\ UNCHANGED <<slot, opened, exit, process>>
            /\ session' = [session EXCEPT ![g].ready = TRUE]
        BY <1>1 DEF ReadsReady, host
      <2>2. /\ session' \in [Windows -> SessionState]
            /\ \A h \in Windows : /\ session'[h].alive = session[h].alive
                                 /\ session'[h].reader = session[h].reader
        BY <2>1 DEF WindowOK, SessionState
      <2> QED BY <2>1, <2>2 DEF WindowOK, StillReads
    <1>2. CASE ReadsClosing(g)
      BY <1>2, ClosesStep DEF ReadsClosing, host
    <1>3. CASE ReaderStops(g)
      <2>1. /\ UNCHANGED <<slot, opened, exit>> /\ session[g].reader = "ended"
            /\ session' = [session EXCEPT ![g].closing = TRUE, ![g].reader = "stopped"]
            /\ process' = [process EXCEPT ![g] = "dead"]
        BY <1>3 DEF ReaderStops, host
      <2>2. /\ session' \in [Windows -> SessionState]
            /\ \A h \in Windows : /\ session'[h].alive = session[h].alive
                                  /\ session'[h].reader =
                                       IF h = g THEN "stopped" ELSE session[h].reader
        BY <2>1 DEF WindowOK, SessionState
      <2> QED BY <2>1, <2>2 DEF WindowOK, SlotType, SessionState, StillReads, Ended, Behind
    <1>4. CASE Disconnected(g)
      <2>1. /\ UNCHANGED <<opened, exit, process>> /\ session[g].reader = "released"
            /\ session' = [session EXCEPT ![g].reader = "gone"]
            /\ \/ slot' = slot
               \/ slot.session = g /\ slot' = [session |-> None, reopen |-> FALSE]
        BY <1>4 DEF Disconnected, ReaderAt
      <2>2. /\ session' \in [Windows -> SessionState]
            /\ \A h \in Windows : /\ session'[h].alive = session[h].alive
                                  /\ session'[h].reader =
                                       IF h = g THEN "gone" ELSE session[h].reader
        BY <2>1 DEF WindowOK, SessionState, Behind
      <2>3. process[g] \in Ended /\ ~session[g].alive
        BY <2>1 DEF WindowOK, Behind
      <2>4. slot' \in SlotType
        BY <2>1, NoSlot, Zenon DEF WindowOK
      <2>5. \A h \in Windows : process[h] \notin Ended => slot'.session = h
        BY <2>1, <2>3, <2>4 DEF WindowOK
      <2> QED BY <2>1, <2>2, <2>3, <2>4, <2>5 DEF WindowOK, StillReads, Behind
    <1>5. CASE ReaderEnds(g)
      <2>1. /\ UNCHANGED <<slot, opened, exit, process>>
            /\ session' = [session EXCEPT ![g].alive = FALSE, ![g].reader = "ended"]
        BY <1>5 DEF ReaderEnds, host
      <2> QED BY <2>1 DEF WindowOK, SlotType, SessionState, StillReads, Ended, Behind
    <1> QED BY <1>1, <1>2, <1>3, <1>4, <1>5

-----------------------------------------------------------------------------
(* The calls.                                                                *)

(* What the window does is no matter of the calls, and a call that goes on    *)
(* without having run yet, or from its run to its end, is none of playback's. *)
LEMMA WindowFrame ==
    ASSUME IInv, WindowOK', StillReads, UNCHANGED <<calls, playback>>
    PROVE  IInv'
    <1>1. CallsOK' /\ ViewsOK'
      BY DEF IInv, CallsOK, ViewsOK, FileOK, AtOf, Kept, ViewsAreCurrent, playback, file
    <1>2. SessionsOK'
      BY DEF IInv, SessionsOK, SessionType, SessionsEndWithTheirWindow, StillReads, AtOf, playback, Behind
    <1> QED BY <1>1, <1>2 DEF IInv

LEMMA GoesType ==
    ASSUME CallsOK, NEW c \in Calls, NEW at \in Places, Goes(c, at), AtOf(c) # "idle"
    PROVE  /\ CallsOK'
           /\ \A d \in Calls : /\ AtOf(d)' = IF d = c THEN at ELSE AtOf(d)
                               /\ calls'[d].by = calls[d].by /\ calls'[d].do = calls[d].do
    <1>1. calls' = [calls EXCEPT ![c].at = at]
      BY DEF Goes
    <1> QED BY <1>1 DEF CallsOK, AtOf

LEMMA CallFrame ==
    ASSUME IInv, NEW c \in Calls, NEW at \in Places, Goes(c, at),
           AtOf(c) \notin {"idle", "done"}, AtOf(c) \in {"running", "ran"} => at = "ran",
           WindowOK', StillReads, UNCHANGED playback
    PROVE  IInv'
    <1>1. /\ CallsOK'
          /\ \A d \in Calls : /\ AtOf(d)' = IF d = c THEN at ELSE AtOf(d)
                              /\ calls'[d].by = calls[d].by /\ calls'[d].do = calls[d].do
      BY GoesType DEF IInv
    <1>2. ViewsOK'
      BY DEF IInv, ViewsOK, FileOK, Kept, ViewsAreCurrent, playback, file
    <1>3. SessionsOK'
      BY <1>1 DEF IInv, SessionsOK, SessionType, SessionsEndWithTheirWindow, StillReads, playback, Behind
    <1> QED BY <1>1, <1>2, <1>3 DEF IInv

LEMMA HostUnchanged ==
    ASSUME WindowOK, UNCHANGED <<host, session, process>>
    PROVE  WindowOK' /\ StillReads
    BY DEF WindowOK, StillReads, host

LEMMA CallSteps ==
    ASSUME IInv, NEW c \in Calls, CallStep(c) \/ AdmissionTimeout(c) \/ ReadsInvoke(c),
           UNCHANGED playback
    PROVE  IInv'
    <1>1. CASE RunClose(c)
      <2>1. WindowOK' /\ StillReads
        <3>1. UNCHANGED <<slot, opened, exit, process>>
          BY <1>1 DEF RunClose, host
        <3>2. CASE slot.session # None
          BY <1>1, <3>1, <3>2, ClosesStep DEF RunClose, IInv, WindowOK, SlotType
        <3>3. CASE slot.session = None
          BY <1>1, <3>1, <3>3 DEF RunClose, IInv, WindowOK, StillReads
        <3> QED BY <3>2, <3>3
      <2>2. Goes(c, "ran") /\ AtOf(c) = "running"
        BY <1>1 DEF RunClose
      <2> QED BY <2>1, <2>2, CallFrame DEF Places
    <1>2. CASE ~RunClose(c)
      <2>1. WindowOK' /\ StillReads
        BY <1>2, HostUnchanged DEF IInv, CallStep, AdmitBackground, Admit, Replies, Delivered,
                                   AdmissionTimeout, ReadsInvoke
      <2>2. /\ AtOf(c) \notin {"idle", "done", "running", "ran"}
            /\ \E at \in Places : Goes(c, at)
        <3>1. CASE AdmissionTimeout(c)
          BY <3>1 DEF AdmissionTimeout, Waiting, Places
        <3>2. CASE ReadsInvoke(c)
          BY <3>2 DEF ReadsInvoke, Places
        <3>3. CASE AdmitBackground(c) \/ Admit(c) \/ Delivered(c)
          BY <3>3 DEF AdmitBackground, Admit, Delivered, Places
        <3>4. CASE Replies(c)
          BY <3>4 DEF Replies, Places
        <3> QED BY <1>2, <3>1, <3>2, <3>3, <3>4 DEF CallStep
      <2> QED BY <2>1, <2>2, CallFrame
    <1> QED BY <1>1, <1>2

(* A page that waits no more leaves the call where it is.                    *)
LEMMA GivesUpStep ==
    ASSUME IInv, NEW c \in Calls, PageGivesUp(c), UNCHANGED playback
    PROVE  IInv'
    <1>1. /\ UNCHANGED <<host, session, process>>
          /\ calls' = [calls EXCEPT ![c].left = TRUE]
      BY DEF PageGivesUp
    <1>2. WindowOK' /\ StillReads
      BY <1>1, HostUnchanged DEF IInv
    <1>3. /\ CallsOK'
          /\ \A d \in Calls : AtOf(d)' = AtOf(d) /\ calls'[d].by = calls[d].by
      BY <1>1 DEF IInv, CallsOK, AtOf
    <1>4. ViewsOK'
      BY DEF IInv, ViewsOK, FileOK, Kept, ViewsAreCurrent, playback, file
    <1>5. SessionsOK'
      BY <1>2, <1>3 DEF IInv, SessionsOK, SessionType, SessionsEndWithTheirWindow, StillReads, playback, Behind
    <1> QED BY <1>2, <1>3, <1>4, <1>5 DEF IInv

-----------------------------------------------------------------------------
(* Playback.                                                                 *)

(* What the registry keeps of its sessions is the same but for their age.    *)
Same(s, x) ==
    /\ s.call = x.call /\ s.owner = x.owner
    /\ s.patches = x.patches /\ s.stamp = x.stamp /\ s.index = x.index

LEMMA AgedFacts ==
    ASSUME NEW S, S \subseteq SessionType
    PROVE  /\ Aged(S) \subseteq SessionType
           /\ \A s \in Aged(S) : \E x \in S : Same(s, x)
    BY DEF Aged, SessionType, Same

LEMMA OpenedFacts ==
    ASSUME sessions \subseteq SessionType, NEW new \in SessionType, NEW n \in Nat
    PROVE  /\ Opened(new, n) \subseteq SessionType
           /\ \A s \in Opened(new, n) : s = new \/ \E x \in sessions : Same(s, x)
    <1> DEFINE kept == Unexpired(n)
               left == IF Cardinality(kept) < SessionLimit THEN kept ELSE kept \ Oldest(kept)
    <1>1. left \subseteq sessions /\ left \subseteq SessionType
      BY DEF Unexpired
    <1>2. Opened(new, n) = Aged(left) \cup {new}
      BY DEF Opened
    <1> HIDE DEF left
    <1> QED BY <1>1, <1>2, AgedFacts

LEMMA TouchedFacts ==
    ASSUME sessions \subseteq SessionType, NEW s \in sessions, NEW n \in Nat
    PROVE  /\ Touched(s, n) \subseteq SessionType
           /\ \A t \in Touched(s, n) : \E x \in sessions : Same(t, x)
    <1> DEFINE fresher == {x \in sessions : x.age < s.age}
               kept == Unexpired(n) \ (fresher \cup {s})
               used == [s EXCEPT !.age = 0]
    <1>1. fresher \subseteq sessions /\ kept \subseteq sessions
      BY DEF Unexpired
    <1>2. used \in SessionType /\ Same(used, s)
      BY DEF SessionType, Same
    <1>3. Touched(s, n) = Aged(fresher) \cup kept \cup {used}
      BY DEF Touched
    <1>4. \A x \in sessions : Same(x, x)
      BY DEF Same
    <1> HIDE DEF fresher, kept, used
    <1> QED BY <1>1, <1>2, <1>3, <1>4, AgedFacts

(* What a step must leave as it is for each part of the invariant.           *)
LEMMA ViewFrame ==
    ASSUME ViewsOK, UNCHANGED <<file, work, reads>>,
           \A s \in sessions' : \E x \in sessions : Same(s, x)
    PROVE  ViewsOK'
    BY DEF ViewsOK, FileOK, Kept, Same, ViewsAreCurrent, file

LEMMA SessionFrame ==
    ASSUME SessionsOK, CallsOK, StillReads, sessions' \subseteq SessionType,
           \A s \in sessions' : \E x \in sessions : Same(s, x),
           \A c \in Calls : /\ calls'[c].by = calls[c].by
                            /\ AtOf(c) \in {"running", "ran"} => AtOf(c)' \in {"running", "ran"}
    PROVE  SessionsOK'
    <1>1. ASSUME NEW s \in sessions', session'[s.owner].reader \in Behind
          PROVE  \E c \in Calls : calls'[c].by = s.owner /\ AtOf(c)' \in {"running", "ran"}
      <2>1. PICK x \in sessions : Same(s, x)
        OBVIOUS
      <2>2. x.owner = s.owner /\ s.owner \in Windows
        BY <2>1 DEF Same, SessionType, SessionsOK
      <2>3. session[x.owner].reader \in Behind
        BY <1>1, <2>2 DEF StillReads
      <2>4. PICK c \in Calls : calls[c].by = x.owner /\ AtOf(c) \in {"running", "ran"}
        BY <2>3 DEF SessionsOK, SessionsEndWithTheirWindow, Behind
      <2> QED BY <2>2, <2>4
    <1> QED BY <1>1 DEF SessionsOK, SessionsEndWithTheirWindow, Behind, AtOf

(* The patches go with nothing the invariant knows.                          *)
LEMMA WorkFrame ==
    ASSUME IInv, UNCHANGED <<window, file, sessions, reads>>, work' \in [Calls -> WorkType],
           \A d \in Calls : \/ work'[d].stamp = work[d].stamp /\ work'[d].index = work[d].index
                            \/ Kept(work'[d].stamp, work'[d].index)
    PROVE  IInv'
    <1>1. WindowOK' /\ StillReads /\ CallsOK' /\ UNCHANGED calls
      BY HostUnchanged DEF IInv, CallsOK, AtOf, window
    <1>2. ViewsOK'
      BY DEF IInv, ViewsOK, FileOK, Kept, ViewsAreCurrent, file
    <1>3. SessionsOK'
      BY <1>1, SessionFrame DEF IInv, AtOf, Same, SessionsOK
    <1> QED BY <1>1, <1>2, <1>3 DEF IInv

LEMMA ReadPatchesStep ==
    ASSUME IInv, NEW c \in Calls, ReadPatches(c)
    PROVE  IInv'
    <1>1. PICK n \in Numbers : work' = [work EXCEPT ![c].at = "patched", ![c].patches = n]
      BY DEF ReadPatches, IInv, ViewsOK, FileOK, Numbers
    <1>2. /\ work' \in [Calls -> WorkType]
          /\ \A d \in Calls : work'[d].stamp = work[d].stamp /\ work'[d].index = work[d].index
      BY <1>1 DEF IInv, ViewsOK, WorkType, Stages
    <1> QED BY <1>2, WorkFrame DEF ReadPatches

(* The stamp and the index are of one open file.                             *)
LEMMA MakeViewStep ==
    ASSUME IInv, NEW c \in Calls, MakeView(c)
    PROVE  IInv'
    <1>1. UNCHANGED <<window, file, sessions, reads>> /\ work \in [Calls -> WorkType]
      BY DEF MakeView, IInv, ViewsOK
    <1>2. CASE work' = [work EXCEPT ![c].at = "read"]
      <2>1. /\ work' \in [Calls -> WorkType]
            /\ \A d \in Calls : work'[d].stamp = work[d].stamp /\ work'[d].index = work[d].index
        BY <1>1, <1>2 DEF WorkType, Stages
      <2> QED BY <1>1, <2>1, WorkFrame
    <1>3. ASSUME NEW index \in Indexes,
                 work' = [work EXCEPT ![c].at = "opened", ![c].stamp = stamp, ![c].index = index]
          PROVE  IInv'
      <2>1. index \in Numbers /\ stamp \in Numbers /\ Kept(stamp, index)
        BY <1>3 DEF Indexes, IInv, ViewsOK, FileOK, Numbers, Kept
      <2>2. /\ work' \in [Calls -> WorkType]
            /\ \A d \in Calls : \/ work'[d].stamp = work[d].stamp /\ work'[d].index = work[d].index
                                \/ work'[d].stamp = stamp /\ work'[d].index = index
        BY <1>1, <1>3, <2>1 DEF WorkType, Stages
      <2> QED BY <1>1, <2>1, <2>2, WorkFrame
    <1> QED BY <1>2, <1>3 DEF MakeView, WorkAt

LEMMA OpenSessionStep ==
    ASSUME IInv, NEW c \in Calls, OpenSession(c)
    PROVE  IInv'
    <1>1. WindowOK' /\ StillReads
      BY HostUnchanged DEF IInv, OpenSession
    <1>2. AtOf(c) = "running" /\ work[c].at = "read" /\ Goes(c, "ran")
      BY DEF OpenSession, Doing
    <1>3. /\ CallsOK'
          /\ \A d \in Calls : /\ AtOf(d)' = IF d = c THEN "ran" ELSE AtOf(d)
                              /\ calls'[d].by = calls[d].by
      BY <1>2, GoesType DEF IInv, Places
    <1>4. PICK n \in 0 .. MaxCalls :
             sessions' = Opened([call |-> c, owner |-> calls[c].by, age |-> 0, patches |-> work[c].patches,
                                 stamp |-> work[c].stamp, index |-> work[c].index], n)
      BY DEF OpenSession
    <1> DEFINE new == [call |-> c, owner |-> calls[c].by, age |-> 0, patches |-> work[c].patches,
                       stamp |-> work[c].stamp, index |-> work[c].index]
    <1>5. new \in SessionType /\ Kept(new.stamp, new.index)
      <2>1. calls[c].by \in Windows
        BY <1>2 DEF IInv, CallsOK
      <2>2. Kept(work[c].stamp, work[c].index) /\ work[c] \in WorkType
        BY DEF IInv, ViewsOK
      <2> QED BY <2>1, <2>2 DEF SessionType, WorkType
    <1>6. new.owner = calls[c].by
      OBVIOUS
    <1>7. sessions' = Opened(new, n) /\ n \in Nat
      BY <1>4, WindowAssumption
    <1> HIDE DEF new
    <1>8. sessions' \subseteq SessionType /\ \A s \in sessions' : s = new \/ \E x \in sessions : Same(s, x)
      BY <1>5, <1>7, OpenedFacts DEF IInv, SessionsOK
    <1>9. /\ work' = [work EXCEPT ![c] = NoWork]
          /\ UNCHANGED <<file, reads>>
      BY DEF OpenSession
    <1>10. ViewsOK'
      <2>1. \A s \in sessions' : Kept(s.stamp, s.index)
        BY <1>5, <1>8 DEF IInv, ViewsOK, Same
      <2>2. work \in [Calls -> WorkType] /\ NoWork \in WorkType
        BY DEF IInv, ViewsOK, WorkType, NoWork, Stages, Numbers
      <2>3. /\ work' \in [Calls -> WorkType]
            /\ \A d \in Calls : \/ work'[d].stamp = work[d].stamp /\ work'[d].index = work[d].index
                                \/ work'[d].index = None
        BY <1>9, <2>2 DEF NoWork
      <2>4. \A d \in Calls : Kept(work'[d].stamp, work'[d].index)
        BY <2>3 DEF IInv, ViewsOK, Kept
      <2> QED BY <1>9, <2>1, <2>3, <2>4 DEF IInv, ViewsOK, FileOK, Kept, ViewsAreCurrent, file
    <1>11. SessionsOK'
      <2>1. ASSUME NEW s \in sessions', session'[s.owner].reader \in Behind
            PROVE  \E d \in Calls : calls'[d].by = s.owner /\ AtOf(d)' \in {"running", "ran"}
        <3>1. CASE s = new
          BY <1>3, <1>6, <3>1
        <3>2. CASE \E x \in sessions : Same(s, x)
          <4>1. PICK x \in sessions : Same(s, x)
            BY <3>2
          <4>2. x.owner = s.owner /\ s.owner \in Windows
            BY <4>1 DEF Same, SessionType, SessionsOK, IInv
          <4>3. session[x.owner].reader \in Behind
            BY <1>1, <2>1, <4>2 DEF StillReads
          <4>4. PICK d \in Calls : calls[d].by = x.owner /\ AtOf(d) \in {"running", "ran"}
            BY <4>3 DEF IInv, SessionsOK, SessionsEndWithTheirWindow, Behind
          <4> QED BY <1>3, <4>2, <4>4
        <3> QED BY <1>8, <3>1, <3>2
      <2> QED BY <1>8, <2>1 DEF SessionsOK, SessionsEndWithTheirWindow, Behind, AtOf
    <1> QED BY <1>1, <1>3, <1>10, <1>11 DEF IInv

(* What a step may do to the clip: nothing; write it anew, with a stamp of its *)
(* own; or repair it, when nobody did before.                                *)
Rewritten ==
    /\ version' = version + 1 /\ stamp' = version' /\ UNCHANGED disguised
    /\ scattered' \in BOOLEAN /\ (disguised # None => ~scattered')
Disguised ==
    /\ scattered /\ version' = version + 1 /\ UNCHANGED stamp
    /\ disguised' = version' /\ scattered' = FALSE

LEMMA FileFrame ==
    ASSUME ViewsOK, UNCHANGED reads, UNCHANGED file \/ Rewritten \/ Disguised, sessions' \subseteq sessions,
           work' \in [Calls -> WorkType],
           \A d \in Calls : work'[d].stamp = work[d].stamp /\ work'[d].index = work[d].index
    PROVE  ViewsOK'
    <1>1. None \notin Nat
      BY NumberFacts
    <1>2. version \in Nat /\ stamp \in Nat /\ stamp <= version /\ disguised \in Numbers
      BY DEF ViewsOK, FileOK
    <1>3. FileOK'
      <2>1. CASE UNCHANGED file
        BY <2>1 DEF ViewsOK, FileOK, file
      <2>2. CASE Rewritten
        <3>1. version' \in Nat /\ stamp' = version' /\ stamp' <= version'
          BY <1>2, <2>2 DEF Rewritten
        <3>2. disguised' = disguised /\ scattered' \in BOOLEAN /\ (disguised # None => ~scattered')
          BY <2>2 DEF Rewritten
        <3> QED BY <1>2, <3>1, <3>2 DEF FileOK
      <2>3. CASE Disguised
        <3>1. version' \in Nat /\ stamp' = stamp /\ stamp <= version' /\ disguised' = version'
          BY <1>2, <2>3 DEF Disguised
        <3>2. scattered' = FALSE
          BY <2>3 DEF Disguised
        <3>3. disguised' \in Numbers
          BY <3>1 DEF Numbers
        <3> QED BY <1>2, <3>1, <3>2, <3>3 DEF FileOK
      <2> QED BY <2>1, <2>2, <2>3
    <1>4. ASSUME NEW noted, NEW index, Kept(noted, index), index # None
          PROVE  noted \in Nat /\ index \in Nat /\ noted <= version'
                 /\ (noted = stamp' => index = version' \/ version' = disguised')
      <2>1. noted \in Nat /\ index \in Nat /\ noted <= version
        BY <1>4 DEF Kept
      <2>2. CASE UNCHANGED file
        BY <1>4, <2>1, <2>2 DEF Kept, file
      <2>3. CASE Rewritten
        BY <1>2, <2>1, <2>3 DEF Rewritten
      <2>4. CASE Disguised
        BY <1>2, <2>1, <2>4 DEF Disguised
      <2> QED BY <2>2, <2>3, <2>4
    <1>5. /\ \A d \in Calls : Kept(work[d].stamp, work[d].index)
          /\ \A s \in sessions' : Kept(s.stamp, s.index)
      BY DEF ViewsOK
    <1>6. /\ \A d \in Calls : Kept(work[d].stamp, work[d].index)'
          /\ \A s \in sessions' : Kept(s.stamp, s.index)'
      BY <1>4, <1>5 DEF Kept
    <1>7. ViewsAreCurrent'
      <2>1. ASSUME NEW r \in Reads, reads[r].at = "planned", reads[r].index # None
            PROVE  reads[r].index = reads[r].was \/ reads[r].was = disguised'
        <3>1. /\ reads[r].index = reads[r].was \/ reads[r].was = disguised
              /\ reads[r].was # None
          BY <1>1, <2>1 DEF ViewsOK, ViewsAreCurrent
        <3>2. CASE Disguised
          BY <3>1, <3>2 DEF Disguised, ViewsOK, FileOK
        <3>3. CASE ~Disguised
          BY <3>1, <3>3 DEF Rewritten, file
        <3> QED BY <3>2, <3>3
      <2> QED BY <2>1 DEF ViewsAreCurrent
    <1> QED BY <1>3, <1>6, <1>7 DEF ViewsOK

(* The commands that end sessions, and end a trim.                           *)
LEMMA CommandFrame ==
    ASSUME IInv, NEW c \in Calls, AtOf(c) = "running", Goes(c, "ran"),
           UNCHANGED <<host, session, process, reads>>, sessions' \subseteq sessions,
           UNCHANGED file \/ Rewritten, work' = work \/ WorkAt(c, "start")
    PROVE  IInv'
    <1>1. WindowOK' /\ StillReads
      BY HostUnchanged DEF IInv
    <1>2. /\ CallsOK'
          /\ \A d \in Calls : /\ AtOf(d)' = IF d = c THEN "ran" ELSE AtOf(d)
                              /\ calls'[d].by = calls[d].by
      BY GoesType DEF IInv, Places
    <1>3. ViewsOK'
      <2>1. /\ work' \in [Calls -> WorkType]
            /\ \A d \in Calls : work'[d].stamp = work[d].stamp /\ work'[d].index = work[d].index
        BY DEF WorkAt, IInv, ViewsOK, WorkType, Stages
      <2> QED BY <2>1, FileFrame DEF IInv
    <1>4. \A s \in sessions' : \E x \in sessions : Same(s, x)
      BY DEF Same
    <1>5. SessionsOK'
      <2>1. sessions' \subseteq SessionType
        BY DEF IInv, SessionsOK
      <2> QED BY <1>1, <1>2, <1>4, <2>1, SessionFrame DEF IInv
    <1> QED BY <1>1, <1>2, <1>3, <1>5 DEF IInv

LEMMA EndStep ==
    ASSUME IInv, NEW c \in Calls, ReleaseCache(c) \/ EndWrite(c)
    PROVE  IInv'
    <1>1. AtOf(c) = "running" /\ FileOK
      BY DEF ReleaseCache, EndWrite, Doing, IInv, ViewsOK
    <1>2. CASE ReleaseCache(c)
      BY <1>1, <1>2, CommandFrame DEF ReleaseCache, ReleasedBy
    <1>3. CASE EndWrite(c)
      <2>1. UNCHANGED file \/ Rewritten
        BY <1>1, <1>3 DEF EndWrite, Changes, file, Rewritten, FileOK
      <2> QED BY <1>1, <1>3, <2>1, CommandFrame DEF EndWrite
    <1> QED BY <1>2, <1>3

(* A trim that goes on, and a repair.                                        *)
LEMMA FileSteps ==
    ASSUME IInv,
           \/ /\ UNCHANGED file
              /\ \E c \in Calls, at \in {"released", "writing"} : WorkAt(c, at)
           \/ UNCHANGED work /\ (Rewritten \/ Disguised),
           UNCHANGED <<window, reads>>, sessions' \subseteq sessions
    PROVE  IInv'
    <1>1. WindowOK' /\ StillReads /\ CallsOK' /\ UNCHANGED calls
      BY HostUnchanged DEF IInv, CallsOK, AtOf, window
    <1>2. ViewsOK'
      <2>1. /\ work' \in [Calls -> WorkType]
            /\ \A d \in Calls : work'[d].stamp = work[d].stamp /\ work'[d].index = work[d].index
        BY DEF WorkAt, IInv, ViewsOK, WorkType, Stages
      <2> QED BY <2>1, FileFrame DEF IInv
    <1>3. SessionsOK'
      <2>1. sessions' \subseteq SessionType /\ \A s \in sessions' : \E x \in sessions : Same(s, x)
        BY DEF IInv, SessionsOK, Same
      <2> QED BY <1>1, <2>1, SessionFrame DEF IInv, AtOf
    <1> QED BY <1>1, <1>2, <1>3 DEF IInv

LEMMA TrimSteps ==
    ASSUME IInv, NEW c \in Calls, ReleasePath(c) \/ BeginWrite(c)
    PROVE  IInv'
    <1>1. /\ UNCHANGED <<window, reads, file>> /\ sessions' \subseteq sessions
          /\ WorkAt(c, "released") \/ WorkAt(c, "writing")
      BY DEF ReleasePath, BeginWrite
    <1> QED BY <1>1, FileSteps

LEMMA RepairedStep ==
    ASSUME IInv, Repaired
    PROVE  IInv'
    <1>1. UNCHANGED <<window, reads, sessions, work>> /\ (Rewritten \/ Disguised)
      BY DEF Repaired, Changes, Rewritten, Disguised
    <1> QED BY <1>1, FileSteps

(* A call whose window is gone ends the window's sessions, those that still   *)
(* run notwithstanding, and so does the window's reader.                     *)
LEMMA OwnerGone ==
    ASSUME SessionsOK, NEW g \in Windows, sessions' = ReleasedBy(g),
           \A h \in Windows \ {g} : session'[h].reader \in Behind => session[h].reader \in Behind,
           \A c \in Calls : /\ calls'[c].by = calls[c].by
                            /\ calls[c].by # g => AtOf(c)' = AtOf(c)
    PROVE  SessionsOK'
    <1>1. sessions' \subseteq sessions /\ \A s \in sessions' : s.owner \in Windows \ {g}
      BY DEF SessionsOK, SessionType, ReleasedBy
    <1> QED BY <1>1 DEF SessionsOK, SessionsEndWithTheirWindow, AtOf, Behind

LEMMA FinishesStep ==
    ASSUME IInv, NEW c \in Calls, Finishes(c)
    PROVE  IInv'
    <1>1. WindowOK' /\ StillReads /\ UNCHANGED <<session, file, work, reads>>
      BY HostUnchanged DEF IInv, Finishes, Ran
    <1>2. AtOf(c) = "ran" /\ \E at \in {"reply", "done"} : Goes(c, at)
      BY DEF Finishes, Ran
    <1>3. /\ CallsOK'
          /\ \A d \in Calls : /\ d # c => AtOf(d)' = AtOf(d)
                              /\ calls'[d].by = calls[d].by
      BY <1>2, GoesType DEF IInv, Places
    <1>4. sessions' \subseteq sessions
      BY DEF Finishes, ReleasedBy
    <1>5. ViewsOK'
      <2>1. \A s \in sessions' : \E x \in sessions : Same(s, x)
        BY <1>4 DEF Same
      <2> QED BY <1>1, <2>1, ViewFrame DEF IInv
    <1>6. calls[c].by \in Windows
      BY <1>2 DEF IInv, CallsOK
    <1>7. SessionsOK'
      <2>1. CASE session[calls[c].by].alive
        <3>1. sessions' = sessions /\ session[calls[c].by].reader \notin Behind
          BY <1>6, <2>1 DEF Finishes, IInv, WindowOK, Behind
        <3> QED BY <1>1, <1>3, <3>1 DEF IInv, SessionsOK, SessionType, SessionsEndWithTheirWindow, AtOf, Behind
      <2>2. CASE ~session[calls[c].by].alive
        <3>1. sessions' = ReleasedBy(calls[c].by)
          BY <2>2 DEF Finishes
        <3> QED BY <1>1, <1>3, <1>6, <3>1, OwnerGone DEF IInv
      <2> QED BY <2>1, <2>2
    <1> QED BY <1>1, <1>3, <1>5, <1>7 DEF IInv

LEMMA ReleasesStep ==
    ASSUME IInv, NEW g \in Windows, Releases(g)
    PROVE  IInv'
    <1>1. /\ session[g].reader = "stopped" /\ session' = [session EXCEPT ![g].reader = "released"]
          /\ UNCHANGED <<slot, opened, exit, process, calls, file, work, reads>>
          /\ sessions' = ReleasedBy(g)
      BY DEF Releases, ReaderReleases, ReaderAt, host
    <1>2. /\ session' \in [Windows -> SessionState]
          /\ \A h \in Windows : /\ session'[h].alive = session[h].alive
                                /\ session'[h].reader = IF h = g THEN "released" ELSE session[h].reader
      BY <1>1 DEF IInv, WindowOK, SessionState, Behind
    <1>3. WindowOK'
      BY <1>1, <1>2 DEF IInv, WindowOK, Behind
    <1>4. CallsOK'
      BY <1>1 DEF IInv, CallsOK, AtOf
    <1>5. ViewsOK'
      BY <1>1, ViewFrame DEF IInv, ReleasedBy, Same
    <1>6. SessionsOK'
      BY <1>1, <1>2, OwnerGone DEF IInv, AtOf
    <1> QED BY <1>3, <1>4, <1>5, <1>6 DEF IInv

-----------------------------------------------------------------------------
(* Media requests, and the pages.                                            *)

LEMMA ReadFrame ==
    ASSUME ViewsOK, NEW r \in Reads, NEW e, ReadAt(r, e), UNCHANGED <<file, work>>,
           \A s \in sessions' : \E x \in sessions : Same(s, x),
           e.at = "planned" => e.was \in Nat,
           e.at = "planned" /\ e.index # None => e.index = e.was \/ e.was = disguised
    PROVE  ViewsOK'
    <1>1. reads' = [reads EXCEPT ![r] = e]
      BY DEF ReadAt
    <1>2. /\ reads' = [x \in Reads |-> reads'[x]]
          /\ \A x \in Reads : reads'[x] = IF x = r THEN e ELSE reads[x]
      BY <1>1 DEF ViewsOK
    <1>3. ViewsAreCurrent'
      BY <1>2 DEF ViewsOK, ViewsAreCurrent, file
    <1>4. \A s \in sessions' : Kept(s.stamp, s.index)
      BY DEF ViewsOK, Same
    <1> QED BY <1>2, <1>3, <1>4 DEF ViewsOK, FileOK, Kept, file

LEMMA ReadSteps ==
    ASSUME IInv, NEW r \in Reads,
           \/ Plan(r) \/ ReadBytes(r)
           \/ \E g \in Windows, c \in Calls : Request(r, g, c)
    PROVE  IInv'
    <1>1. UNCHANGED <<window, file, work, player>>
      BY DEF Plan, ReadBytes, Request
    <1>2. WindowOK' /\ StillReads /\ CallsOK'
      BY <1>1, HostUnchanged DEF IInv, CallsOK, AtOf, window
    <1>3. SUFFICES ViewsOK' /\ SessionsOK'
      BY <1>2 DEF IInv
    <1>4. \A s \in sessions : Same(s, s)
      BY DEF Same
    <1>5. ASSUME sessions' \subseteq SessionType, \A s \in sessions' : \E x \in sessions : Same(s, x)
          PROVE  SessionsOK'
      BY <1>1, <1>2, <1>5, SessionFrame DEF IInv, AtOf, window
    <1>6. CASE Plan(r)
      <2>1. PICK n \in 0 .. MaxCalls :
               \/ sessions' = Unexpired(n) /\ ReadAt(r, NoRead)
               \/ \E s \in Unexpired(n) :
                     /\ sessions' = Touched(s, n)
                     /\ ReadAt(r, IF s.index # None /\ (Writing \/ s.stamp # stamp) THEN NoRead
                                  ELSE [at |-> "planned", patches |-> s.patches, index |-> s.index,
                                        was |-> version])
        BY <1>6 DEF Plan
      <2>2. n \in Nat /\ Unexpired(n) \subseteq sessions /\ sessions \subseteq SessionType
        BY WindowAssumption DEF Unexpired, IInv, SessionsOK
      <2>3. CASE sessions' = Unexpired(n) /\ ReadAt(r, NoRead)
        <3>1. ViewsOK'
          BY <1>1, <1>4, <2>2, <2>3, ReadFrame DEF NoRead, IInv
        <3> QED BY <1>4, <1>5, <2>2, <2>3, <3>1
      <2>4. ASSUME NEW s \in Unexpired(n), sessions' = Touched(s, n),
                   ReadAt(r, IF s.index # None /\ (Writing \/ s.stamp # stamp) THEN NoRead
                             ELSE [at |-> "planned", patches |-> s.patches, index |-> s.index,
                                   was |-> version])
            PROVE  ViewsOK' /\ SessionsOK'
        <3>1. sessions' \subseteq SessionType /\ \A t \in sessions' : \E x \in sessions : Same(t, x)
          BY <2>2, <2>4, TouchedFacts
        <3>2. /\ s.index # None /\ s.stamp = stamp => s.index = version \/ version = disguised
              /\ version \in Nat
          BY <2>2 DEF IInv, ViewsOK, FileOK, Kept
        <3> DEFINE e == IF s.index # None /\ (Writing \/ s.stamp # stamp) THEN NoRead
                        ELSE [at |-> "planned", patches |-> s.patches, index |-> s.index,
                              was |-> version]
        <3>3. /\ e.at = "planned" => e.was \in Nat
              /\ e.at = "planned" /\ e.index # None => e.index = e.was \/ e.was = disguised
          BY <3>2 DEF NoRead
        <3>4. ReadAt(r, e)
          BY <2>4
        <3> HIDE DEF e
        <3>5. ViewsOK'
          BY <1>1, <3>1, <3>3, <3>4, ReadFrame DEF IInv
        <3> QED BY <1>5, <3>1, <3>5
      <2> QED BY <2>1, <2>3, <2>4
    <1>7. CASE ~Plan(r)
      <2>1. UNCHANGED sessions
        BY <1>7 DEF ReadBytes, Request
      <2>2. \E e : ReadAt(r, e) /\ e.at # "planned"
        <3>1. CASE ReadBytes(r)
          BY <3>1 DEF ReadBytes, NoRead
        <3>2. ASSUME NEW g \in Windows, NEW c \in Calls, Request(r, g, c)
              PROVE  \E e : ReadAt(r, e) /\ e.at # "planned"
          <4>1. ReadAt(r, [at |-> "admitted", by |-> g, call |-> c])
            BY <3>2 DEF Request
          <4> QED BY <4>1
        <3> QED BY <1>7, <3>1, <3>2
      <2>3. ViewsOK'
        BY <1>1, <1>4, <2>1, <2>2, ReadFrame DEF IInv
      <2>4. SessionsOK'
        BY <1>4, <1>5, <2>1 DEF IInv, SessionsOK
      <2> QED BY <2>3, <2>4
    <1> QED BY <1>6, <1>7

(* A call of a page is a new one, which no session and no player knows.      *)
LEMMA AsksStep ==
    ASSUME IInv, NEW g \in Windows, NEW c \in Calls,
           NEW do \in {"play", "release", "trim", "close"}, Asks(g, c, do)
    PROVE  /\ WindowOK' /\ StillReads /\ CallsOK' /\ UNCHANGED session
           /\ \A d \in Calls : d # c => calls'[d] = calls[d]
           /\ AtOf(c) = "idle"
    <1>1. /\ AtOf(c) = "idle" /\ UNCHANGED <<host, session, process>>
          /\ calls' = [calls EXCEPT ![c] = [NoCall EXCEPT !.at = "sent", !.by = g, !.do = do]]
      BY DEF Asks, Idle, AtOf
    <1>2. WindowOK' /\ StillReads
      BY <1>1, HostUnchanged DEF IInv
    <1>3. CallsOK'
      BY <1>1 DEF IInv, CallsOK, AtOf, Places, NoCall
    <1> QED BY <1>1, <1>2, <1>3 DEF IInv, CallsOK

LEMMA PageSteps ==
    ASSUME IInv, NEW g \in Windows, NEW c \in Calls,
           Unmount(g, c) \/ PageAsks(g, c) \/ \E after \in Calls \cup {None} : Send(g, c, after)
    PROVE  IInv'
    <1>1. /\ \E do \in {"play", "release", "trim", "close"} : Asks(g, c, do)
          /\ UNCHANGED <<file, sessions, reads>>
      BY DEF Unmount, PageAsks, Send, playback
    <1>2. /\ WindowOK' /\ StillReads /\ CallsOK' /\ UNCHANGED session
          /\ \A d \in Calls : d # c => calls'[d] = calls[d]
          /\ AtOf(c) = "idle"
      BY <1>1, AsksStep
    <1>3. SessionsOK'
      BY <1>1, <1>2 DEF IInv, SessionsOK, SessionsEndWithTheirWindow, AtOf
    <1>4. \A s \in sessions : Same(s, s)
      BY DEF Same
    <1>5. work' = work
      BY DEF Unmount, PageAsks, Send, playback
    <1>6. ViewsOK'
      BY <1>1, <1>4, <1>5, ViewFrame DEF IInv
    <1> QED BY <1>2, <1>3, <1>6 DEF IInv

LEMMA MountStep ==
    ASSUME IInv, NEW g \in Windows, Mount(g)
    PROVE  IInv'
    <1>1. UNCHANGED <<window, file, sessions, work, reads>>
      BY DEF Mount
    <1> QED BY <1>1 DEF IInv, WindowOK, CallsOK, ViewsOK, FileOK, Kept, ViewsAreCurrent, SessionsOK,
                        SessionsEndWithTheirWindow, AtOf, window, host, file

-----------------------------------------------------------------------------
LEMMA Beginning == Init => IInv
    <1> SUFFICES ASSUME Init PROVE IInv
      OBVIOUS
    <1>1. WindowOK
      BY NumberFacts DEF Init, WindowInit, WindowOK, SlotType, SessionState, NoSession, Ended, Behind
    <1>2. CallsOK
      BY DEF Init, WindowInit, CallsOK, NoCall, AtOf, Places
    <1>3. ViewsOK
      <2>1. NoWork \in WorkType /\ NoWork.index = None
        BY DEF WorkType, Numbers, NoWork, Stages
      <2>2. work \in [Calls -> WorkType] /\ \A c \in Calls : work[c].index = None
        BY <2>1 DEF Init
      <2> QED BY <2>2 DEF Init, ViewsOK, FileOK, Numbers, NoRead, Kept, ViewsAreCurrent
    <1>4. SessionsOK
      BY DEF Init, SessionsOK, SessionsEndWithTheirWindow
    <1> QED BY <1>1, <1>2, <1>3, <1>4 DEF IInv

LEMMA Step == IInv /\ [Next]_vars => IInv'
    <1> SUFFICES ASSUME IInv, [Next]_vars PROVE IInv'
      OBVIOUS
    <1>1. CASE (UserOpens \/ Reopens \/ HostCloses \/ UserExits \/ Shutdown) /\ UNCHANGED playback
      <2>1. WindowOK' /\ StillReads /\ UNCHANGED calls
        BY <1>1, HostStep DEF IInv, UserOpens, Reopens, HostCloses, UserExits, Shutdown
      <2> QED BY <1>1, <2>1, WindowFrame
    <1>2. ASSUME NEW g \in Windows, Process(g) \/ StartupTimeout(g) \/ UserCloses(g) \/ Crashes(g),
                 UNCHANGED playback
          PROVE  IInv'
      <2>1. WindowOK' /\ StillReads
        BY <1>2, ProcessStep, TimeoutStep DEF IInv, Process
      <2>2. UNCHANGED calls
        BY <1>2 DEF Process, WindowStep, Starts, WritesClosing, ReadsControl, Exits, CloseTimeout,
                    StartupTimeout, UserCloses, Crashes
      <2> QED BY <1>2, <2>1, <2>2, WindowFrame
    <1>3. ASSUME NEW g \in Windows, ServerStep(g)
          PROVE  IInv'
      <2>1. CASE Releases(g)
        BY <2>1, ReleasesStep
      <2>2. ASSUME NEW c \in Calls, ReadsInvoke(c), UNCHANGED playback
            PROVE  IInv'
        BY <2>2, CallSteps
      <2>3. CASE /\ ReadsReady(g) \/ ReadsClosing(g) \/ ReaderStops(g) \/ Disconnected(g) \/ ReaderEnds(g)
                 /\ UNCHANGED playback
        <3>1. WindowOK' /\ StillReads
          BY <2>3, ReaderStepOK DEF IInv
        <3>2. UNCHANGED calls
          BY <2>3 DEF ReadsReady, ReadsClosing, ReaderStops, Disconnected, ReaderEnds
        <3> QED BY <2>3, <3>1, <3>2, WindowFrame
      <2> QED BY <1>3, <2>1, <2>2, <2>3 DEF ServerStep, ReaderStep
    <1>4. ASSUME NEW g \in Windows, Mount(g)
          PROVE  IInv'
      BY <1>4, MountStep
    <1>5. ASSUME NEW g \in Windows, NEW c \in Calls,
                 \/ Unmount(g, c) \/ PageAsks(g, c)
                 \/ \E after \in Calls \cup {None} : Send(g, c, after)
          PROVE  IInv'
      BY <1>5, PageSteps
    <1>6. ASSUME NEW g \in Windows, NEW c \in Calls, NEW r \in Reads, Request(r, g, c)
          PROVE  IInv'
      BY <1>6, ReadSteps
    <1>7. ASSUME NEW c \in Calls,
                 TaskStep(c) \/ ((AdmissionTimeout(c) \/ PageGivesUp(c)) /\ UNCHANGED playback)
          PROVE  IInv'
      BY <1>7, CallSteps, GivesUpStep, ReadPatchesStep, MakeViewStep, OpenSessionStep, EndStep,
         TrimSteps, FinishesStep DEF TaskStep
    <1>8. ASSUME NEW r \in Reads, Plan(r) \/ ReadBytes(r)
          PROVE  IInv'
      BY <1>8, ReadSteps
    <1>9. CASE Repaired
      BY <1>9, RepairedStep
    <1>10. CASE UNCHANGED vars
      BY <1>10 DEF vars, window, host, playback, file, IInv, WindowOK, CallsOK, ViewsOK, FileOK, Kept,
                   ViewsAreCurrent, SessionsOK, SessionsEndWithTheirWindow, AtOf
    <1> QED BY <1>1, <1>2, <1>3, <1>4, <1>5, <1>6, <1>7, <1>8, <1>9, <1>10 DEF Next

(* What the window and the player may rely on, in every state.               *)
THEOREM Invariance == Spec => []IInv
    <1> QED BY Beginning, Step, PTL DEF Spec

(* controller.rs: the profile of a window is used by one process at a time,   *)
(* and by none once Clipture has exited.                                     *)
THEOREM OneWindowAtATime == Spec => []OneWindowProcess
    <1>1. IInv => OneWindowProcess
      <2> SUFFICES ASSUME IInv PROVE OneWindowProcess
        OBVIOUS
      <2> DEFINE live == {g \in Windows : process[g] \notin {"none", "dead"}}
      <2>1. live \subseteq {slot.session}
        BY DEF IInv, WindowOK, Ended
      <2>2. IsFiniteSet({slot.session}) /\ Cardinality({slot.session}) = 1
        BY FS_Singleton
      <2>3. Cardinality(live) <= 1
        BY <2>1, <2>2, FS_Subset
      <2>4. exit = "done" => \A g \in Windows : process[g] \in {"none", "dead"}
        BY NumberFacts DEF IInv, WindowOK, Ended
      <2> QED BY <2>3, <2>4 DEF OneWindowProcess
    <1> QED BY Invariance, <1>1, PTL

(* server.rs: no session outlives the window that opened it.                 *)
THEOREM NoSessionOutlivesItsWindow == Spec => []SessionsEndWithTheirWindow
    <1>1. IInv => SessionsEndWithTheirWindow
      BY DEF IInv, SessionsOK
    <1> QED BY Invariance, <1>1, PTL

(* linear_view.rs: a view is served only from the file its index was read in, *)
(* or from its repair, when that has the length and the time of the original. *)
THEOREM NoStaleView == Spec => []ViewsAreCurrent
    <1>1. IInv => ViewsAreCurrent
      BY DEF IInv, ViewsOK
    <1> QED BY Invariance, <1>1, PTL

-----------------------------------------------------------------------------
(* A clip whose audio is mixed in place (MixJournal), whose state has nothing  *)
(* to do with windows and sessions.                                          *)

(* A clip of at most h cells of media that plays, with no audio but what its  *)
(* index lists.                                                              *)
Shape(c) ==
    /\ c = [head |-> c.head, len |-> c.len, cells |-> c.cells, index |-> c.index]
    /\ c.cells = [x \in Cells |-> c.cells[x]] /\ c.index = [x \in Cells |-> c.index[x]]
Sound(c, h) ==
    /\ Shape(c) /\ c.head \in 0 .. h /\ Plays(c)
    /\ DOMAIN Listed(c) \subseteq 1 .. c.head
    /\ \A x \in Cells \ DOMAIN Listed(c) : c.cells[x][1] # "audio"

(* A plan holds all that its mix writes, and a clip fits it when what the mix *)
(* does not write is as its index has it: whatever of it was written already. *)
Complete(p, h) ==
    /\ p.head \in 0 .. h /\ p.head + 1 \in p.at
    /\ p.index # NoIndex /\ DOMAIN p.index \subseteq 1 .. p.head
    /\ \A x \in p.at \cap DOMAIN p.index : p.cells[x] = p.index[x]
    /\ \A x \in p.at \ DOMAIN p.index : p.cells[x][1] # "audio"
Fits(c, p) ==
    /\ c.len \in Nat
    /\ ~p.moves => c.head = p.head
    /\ \A x \in Cells \ p.at :
         IF x \in DOMAIN p.index THEN c.cells[x] = p.index[x] ELSE c.cells[x][1] # "audio"

MixTypes ==
    /\ journal \in [Mixes -> {"none", "open", "header", "committed"}]
    /\ plan = [m \in Mixes |-> plan[m]]
    /\ pc \in {"idle", "finishing", "reading", "encoding", "journal", "header", "apply", "sync"}
    /\ job \in 0 .. MaxMixes /\ todo \subseteq Mixes /\ mixes \in 0 .. MaxMixes
    /\ alone \in BOOLEAN /\ flushed \in BOOLEAN
MixWorks ==
    /\ ~up => pc = "idle"
    /\ want \/ pc = "encoding" => mixes < MaxMixes
    /\ pc = "encoding" => ~want
    /\ pc \in {"reading", "journal", "header", "apply", "sync"} => job \in Mixes
    /\ pc = "journal" => job = mixes /\ journal[job] = "open"
    /\ pc = "header" => job = mixes /\ journal[job] = "header"

(* Only the last mix can be unfinished; the clip is sound unless that is so,  *)
(* and fits its plan if it is.                                               *)
Begun(m) == journal[m] \in {"header", "committed"} \/ (pc = "journal" /\ job = m)
Size == NPackets + mixes
MixAlone ==
    /\ Unfinished \subseteq {mixes}
    /\ \A m \in Mixes : journal[m] = "header" => pc = "header" /\ job = m
    /\ pc \in {"apply", "sync"} => journal[job] = "committed"
MixKept ==
    /\ (\A m \in Mixes : journal[m] # "committed") => clip = disk /\ Sound(clip, Size)
    /\ \A m \in Mixes : Begun(m) => Complete(plan[m], Size) /\ Fits(clip, plan[m]) /\ Fits(disk, plan[m])
    /\ pc = "sync" => Sound(clip, Size)
MixInv == MixTypes /\ MixWorks /\ (Orderly => MixAlone /\ MixKept)

-----------------------------------------------------------------------------
LEMMA MixSizes ==
    /\ NPackets \in Nat \ {0} /\ MaxMixes \in Nat
           /\ Mixes = 1 .. MaxMixes /\ Cells = 1 .. NPackets + MaxMixes + 1
           /\ \A m : m \in Mixes <=> m \in Nat /\ 1 <= m /\ m <= MaxMixes
           /\ \A x : x \in Cells <=> x \in Nat /\ 1 <= x /\ x <= NPackets + MaxMixes + 1
<1>1. NPackets \in Nat \ {0} /\ MaxMixes \in Nat
  BY MixAssumption
<1>. QED BY <1>1 DEF Mixes, Cells

LEMMA Silence ==
    /\ Zero[1] # "audio"
    /\ \A f : f = NoIndex => DOMAIN f = {}
BY DEF Zero, NoIndex

(* A set of numbers that is not empty has a least one.                       *)
LEMMA LeastMember ==
    ASSUME NEW S \in SUBSET Nat, S # {}
    PROVE  \E x \in S : \A y \in S : x <= y
<1>. DEFINE UpTo == {0 .. x : x \in S}
<1>1. UpTo \subseteq FiniteSubsetsOf(Nat) /\ UpTo # {}
  <2>1. \A x \in S : IsFiniteSet(0 .. x) /\ 0 .. x \subseteq Nat
    BY FS_Interval
  <2>. QED BY <2>1 DEF FiniteSubsetsOf
<1>2. PICK B \in UpTo : \A C \in UpTo : <<C, B>> \notin StrictSubsetOrdering(Nat)
  BY <1>1, FS_StrictSubsetOrderingWellFounded, WFMin
<1>3. PICK x \in S : B = 0 .. x
  BY <1>2
<1>4. ASSUME NEW y \in S, y < x PROVE FALSE
  <2>1. 0 .. y \subseteq 0 .. x /\ x \in 0 .. x /\ x \notin 0 .. y /\ 0 .. x \subseteq Nat
    BY <1>4
  <2>2. <<0 .. y, 0 .. x>> \in StrictSubsetOrdering(Nat)
    BY <2>1 DEF StrictSubsetOrdering
  <2>. QED BY <2>2, <1>2, <1>3, <1>4
<1>. QED BY <1>4

(* One that is bounded has a greatest one.                                   *)
LEMMA GreatestMember ==
    ASSUME NEW S \in SUBSET Nat, S # {}, NEW n \in Nat, \A x \in S : x <= n
    PROVE  \E x \in S : \A y \in S : y <= x
<1>. DEFINE Gap(x) == n - x
            T == {Gap(x) : x \in S}
<1>1. \A x \in S : Gap(x) \in Nat
  OBVIOUS
<1>2. PICK m \in T : \A y \in T : m <= y
  <2>1. T \in SUBSET Nat /\ T # {}
    BY <1>1
  <2>. HIDE DEF T
  <2>. QED BY <2>1, LeastMember
<1>3. PICK x \in S : m = Gap(x)
  BY <1>2
<1>4. \A y \in S : Gap(x) <= Gap(y)
  BY <1>2, <1>3
<1>. QED BY <1>4

LEMMA GreatestChosen ==
    ASSUME NEW S \in SUBSET Nat, S # {}, NEW n \in Nat, \A x \in S : x <= n
    PROVE  Max(S) \in S /\ \A x \in S : x <= Max(S)
<1>1. PICK x \in S : \A y \in S : y <= x
  BY GreatestMember
<1>2. \A y \in S : x >= y
  BY <1>1
<1>. QED BY <1>2 DEF Max

-----------------------------------------------------------------------------
(* The places in a set of cells, counted.                                    *)
UpTo(S, x) == {y \in S : y <= x}

LEMMA Counts ==
    ASSUME NEW n \in Nat, NEW S \in SUBSET (1 .. n)
    PROVE  IsFiniteSet(S) /\ Cardinality(S) \in Nat /\ Cardinality(S) <= n
<1>1. n \in Int /\ 1 \in Int /\ IsFiniteSet(1 .. n) /\ Cardinality(1 .. n) = n
  <2>1. IsFiniteSet(1 .. n) /\ Cardinality(1 .. n) = IF 1 > n THEN 0 ELSE n - 1 + 1
    BY FS_Interval
  <2>. QED BY <2>1
<1>. QED BY <1>1, FS_Subset, FS_CardinalityType

LEMMA PlacesGrow ==
    ASSUME NEW n \in Nat, NEW S \in SUBSET (1 .. n), NEW x \in S, NEW z \in S, x < z
    PROVE  Cardinality(UpTo(S, x)) < Cardinality(UpTo(S, z))
<1>1. x \in Nat /\ z \in Nat
  OBVIOUS
<1>2. UpTo(S, x) \in SUBSET UpTo(S, z) /\ UpTo(S, x) # UpTo(S, z)
  <2>1. \A y \in S : y <= x => y <= z
    BY <1>1
  <2>2. z \in UpTo(S, z) /\ z \notin UpTo(S, x)
    BY <1>1 DEF UpTo
  <2>3. UpTo(S, x) \subseteq UpTo(S, z)
    BY <2>1 DEF UpTo
  <2>. QED BY <2>2, <2>3
<1>3. UpTo(S, x) \in SUBSET (1 .. n) /\ UpTo(S, z) \in SUBSET (1 .. n)
  BY DEF UpTo
<1>4. /\ IsFiniteSet(UpTo(S, z))
      /\ Cardinality(UpTo(S, x)) \in Nat /\ Cardinality(UpTo(S, z)) \in Nat
  BY <1>3, Counts
<1>5. /\ Cardinality(UpTo(S, x)) <= Cardinality(UpTo(S, z))
      /\ Cardinality(UpTo(S, x)) # Cardinality(UpTo(S, z))
  BY <1>2, <1>4, FS_Subset
<1>. QED BY <1>4, <1>5

LEMMA PlacesOnto ==
    ASSUME NEW n \in Nat, NEW S \in SUBSET (1 .. n), NEW k \in 1 .. Cardinality(S)
    PROVE  \E x \in S : Cardinality(UpTo(S, x)) = k
<1>. DEFINE f == [x \in S |-> Cardinality(UpTo(S, x))]
            U == 1 .. Cardinality(S)
<1>1. IsFiniteSet(S) /\ Cardinality(S) \in Nat
  BY Counts
<1>2. IsFiniteSet(U) /\ Cardinality(U) = Cardinality(S)
  <2>1. IsFiniteSet(U) /\ Cardinality(U) = IF 1 > Cardinality(S) THEN 0 ELSE Cardinality(S) - 1 + 1
    BY <1>1, FS_Interval
  <2>. QED BY <1>1, <2>1
<1>3. ASSUME NEW x \in S PROVE Cardinality(UpTo(S, x)) \in U
  <2>1. UpTo(S, x) \in SUBSET S /\ x \in UpTo(S, x) /\ UpTo(S, x) \in SUBSET (1 .. n)
    <3>1. x <= x
      OBVIOUS
    <3>. QED BY <3>1 DEF UpTo
  <2>2. Cardinality(UpTo(S, x)) <= Cardinality(S)
    BY <1>1, <2>1, FS_Subset
  <2>3. IsFiniteSet(UpTo(S, x)) /\ Cardinality(UpTo(S, x)) \in Nat
    BY <2>1, Counts
  <2>4. Cardinality(UpTo(S, x)) # 0
    BY <2>1, <2>3, FS_EmptySet
  <2>. QED BY <1>1, <2>2, <2>3, <2>4
<1>4. \A x, z \in S : Cardinality(UpTo(S, x)) = Cardinality(UpTo(S, z)) => x = z
  <2>. SUFFICES ASSUME NEW x \in S, NEW z \in S, x # z
                PROVE  Cardinality(UpTo(S, x)) # Cardinality(UpTo(S, z))
    OBVIOUS
  <2>1. x < z \/ z < x
    OBVIOUS
  <2>2. Cardinality(UpTo(S, x)) \in Nat /\ Cardinality(UpTo(S, z)) \in Nat
    BY <1>1, <1>3
  <2>. QED BY <2>1, <2>2, PlacesGrow
<1>5. f \in Injection(S, U)
  BY <1>3, <1>4 DEF Injection, IsInjective
<1>6. f \in Surjection(S, U)
  BY <1>2, <1>5, FS_Injection
<1>. QED BY <1>6 DEF Surjection

LEMMA MixPlaces ==
    ASSUME NEW n \in Nat, NEW S \in SUBSET (1 .. n)
    PROVE  /\ Cardinality(S) \in Nat /\ Cardinality(S) <= n
           /\ S = {} <=> Cardinality(S) = 0
           /\ \A k \in 1 .. Cardinality(S) : \E x \in S : Cardinality(UpTo(S, x)) = k
<1>1. IsFiniteSet(S) /\ Cardinality(S) \in Nat /\ Cardinality(S) <= n
  BY Counts
<1>2. S = {} <=> Cardinality(S) = 0
  BY <1>1, FS_EmptySet
<1>3. \A k \in 1 .. Cardinality(S) : \E x \in S : Cardinality(UpTo(S, x)) = k
  BY PlacesOnto
<1>. QED BY <1>1, <1>2, <1>3

-----------------------------------------------------------------------------
(* What a mix writes.                                                        *)
LEMMA TakenFacts ==
    ASSUME NEW h \in Nat, NEW c, Sound(c, h),
           NEW n \in 1 .. Cardinality(AudioCells(c)) + 1
    PROVE  /\ AudioCells(c) \subseteq DOMAIN Listed(c)
           /\ AudioCells(c) \subseteq 1 .. c.head
           /\ SlotsTaken(c, n) \subseteq AudioCells(c) \cup {c.head + 1}
           /\ SlotsTaken(c, n) # {}
<1>. DEFINE A == AudioCells(c)
<1>1. c.head \in Nat /\ A \subseteq DOMAIN Listed(c) /\ A \in SUBSET (1 .. c.head)
  BY DEF Sound, AudioCells
<1>2. Cardinality(A) \in Nat
  BY <1>1, MixPlaces
<1>3. n \in Nat /\ 1 <= n /\ n <= Cardinality(A) + 1
  BY <1>2
<1>4. ASSUME NEW x \in SlotsTaken(c, n), x \notin A PROVE x = c.head + 1
  <2>1. x \in c.head + 1 .. c.head + n /\ Packet(c, x) <= n
    BY <1>4 DEF SlotsTaken
  <2>2. Packet(c, x) = Cardinality(A) + (x - c.head)
    BY <1>4 DEF Packet
  <2>. HIDE DEF A
  <2>. QED BY <1>1, <1>2, <1>3, <2>1, <2>2
<1>5. CASE A = {}
  <2>1. Cardinality(A) = 0
    BY <1>1, <1>5, MixPlaces
  <2>2. PICK x \in Nat : x = c.head + 1
    BY <1>1
  <2>3. x \in c.head + 1 .. c.head + n /\ x \notin A
    BY <1>1, <1>3, <2>2
  <2>4. Packet(c, x) = Cardinality(A) + (x - c.head)
    BY <2>3 DEF Packet
  <2>5. Packet(c, x) <= n
    <3>. HIDE DEF A
    <3>. QED BY <1>1, <1>3, <2>1, <2>2, <2>4
  <2>6. x \in SlotsTaken(c, n)
    BY <2>3, <2>5 DEF SlotsTaken
  <2>. QED BY <1>1, <1>4, <2>6
<1>6. CASE A # {}
  <2>1. Cardinality(A) # 0
    BY <1>1, <1>6, MixPlaces
  <2>2. 1 \in 1 .. Cardinality(A)
    BY <1>2, <2>1
  <2>3. PICK x \in A : Cardinality(UpTo(A, x)) = 1
    <3>. HIDE DEF A
    <3>. QED BY <1>1, <2>2, MixPlaces
  <2>4. Packet(c, x) = 1
    BY <2>3 DEF Packet, UpTo
  <2>5. x \in SlotsTaken(c, n)
    BY <1>3, <2>3, <2>4 DEF SlotsTaken
  <2>. QED BY <1>1, <1>4, <2>5
<1>. QED BY <1>5, <1>6

LEMMA PlanFits ==
    ASSUME NEW h \in Nat, NEW c, Sound(c, h), NEW m,
           NEW n \in 1 .. Cardinality(AudioCells(c)) + 1
    PROVE  Complete(PlanOf(c, m, n), h + 1) /\ Fits(c, PlanOf(c, m, n))
<1>. DEFINE A == AudioCells(c)
            T == SlotsTaken(c, n)
            L == Listed(c)
            p == PlanOf(c, m, n)
<1>1. /\ A \subseteq DOMAIN L /\ A \subseteq 1 .. c.head
      /\ T \subseteq A \cup {c.head + 1} /\ T # {}
  BY TakenFacts
<1>2. /\ c.head \in Nat /\ c.head <= h /\ c.len = c.head + 2
      /\ DOMAIN L \subseteq 1 .. c.head
      /\ \A x \in DOMAIN L : c.cells[x] = L[x]
      /\ \A x \in Cells \ DOMAIN L : c.cells[x][1] # "audio"
  BY DEF Sound, Plays
<1>3. PICK head \in Nat : /\ head = Max({c.head} \cup T) /\ c.head <= head /\ head <= c.head + 1
                          /\ \A x \in T : x <= head
  <2>1. {c.head} \cup T \in SUBSET Nat /\ \A x \in {c.head} \cup T : x <= c.head + 1
    BY <1>1, <1>2
  <2>2. /\ Max({c.head} \cup T) \in {c.head} \cup T
        /\ \A x \in {c.head} \cup T : x <= Max({c.head} \cup T)
    <3>1. c.head + 1 \in Nat /\ {c.head} \cup T # {}
      BY <1>2
    <3>. HIDE DEF T
    <3>. QED BY <2>1, <3>1, GreatestChosen
  <2>. HIDE DEF T
  <2>. QED BY <2>1, <2>2
<1>4. /\ p.at = (A \cup T) \cup {head + 1}
      /\ p.cells = [x \in (A \cup T) \cup {head + 1} |->
                      IF x \in T THEN Audio(m, Packet(c, x)) ELSE Zero]
      /\ p.index = [x \in T \cup (DOMAIN L \ A) |->
                      IF x \in T THEN Audio(m, Packet(c, x)) ELSE L[x]]
      /\ p.head = head /\ p.moves = (head # c.head)
  BY <1>3 DEF PlanOf, SlotsWritten
<1>5. /\ T \cup (DOMAIN L \ A) \subseteq 1 .. head /\ A \subseteq 1 .. head /\ head + 1 \notin 1 .. head
      /\ DOMAIN L \subseteq 1 .. head
  <2>. HIDE DEF A, T, L
  <2>1. \A x \in 1 .. c.head : x \in 1 .. head
    <3>1. c.head \in Nat /\ head \in Nat /\ c.head <= head
      BY <1>2, <1>3
    <3>. QED BY <3>1
  <2>2. c.head + 1 \in T => c.head + 1 \in 1 .. head
    <3>1. c.head \in Nat /\ head \in Nat /\ (c.head + 1 \in T => c.head + 1 <= head)
      BY <1>2, <1>3
    <3>. QED BY <3>1
  <2>3. head + 1 \notin 1 .. head
    OBVIOUS
  <2>. QED BY <1>1, <1>2, <2>1, <2>2, <2>3
<1>. HIDE DEF A, T, L, p
<1>6. DOMAIN p.index = T \cup (DOMAIN L \ A)
  BY <1>4
<1>7. p.index # NoIndex
  BY <1>1, <1>6, Silence
<1>8. \A x \in p.at \cap DOMAIN p.index : p.cells[x] = p.index[x]
  <2>. SUFFICES ASSUME NEW x \in p.at, x \in DOMAIN p.index PROVE p.cells[x] = p.index[x]
    OBVIOUS
  <2>1. x \in T
    BY <1>4, <1>5, <1>6
  <2>. QED BY <1>4, <2>1
<1>9. \A x \in p.at \ DOMAIN p.index : p.cells[x][1] # "audio"
  <2>. SUFFICES ASSUME NEW x \in p.at, x \notin DOMAIN p.index PROVE p.cells[x][1] # "audio"
    OBVIOUS
  <2>1. p.cells[x] = Zero
    BY <1>4, <1>6
  <2>. QED BY <2>1, Silence
<1>10. ASSUME NEW x \in Cells, x \notin p.at
       PROVE  IF x \in DOMAIN p.index THEN c.cells[x] = p.index[x] ELSE c.cells[x][1] # "audio"
  <2>1. x \notin T /\ x \notin A
    BY <1>4, <1>10
  <2>2. CASE x \in DOMAIN p.index
    BY <1>2, <1>4, <1>6, <2>1, <2>2
  <2>3. CASE x \notin DOMAIN p.index
    BY <1>2, <1>6, <2>1, <2>3
  <2>. QED BY <2>2, <2>3
<1>11. Complete(p, h + 1)
  <2>1. p.head \in 0 .. h + 1 /\ p.head + 1 \in p.at
    BY <1>2, <1>3, <1>4
  <2>. QED BY <1>4, <1>5, <1>6, <1>7, <1>8, <1>9, <2>1 DEF Complete
<1>12. Fits(c, p)
  <2>1. c.len \in Nat
    BY <1>2
  <2>2. ~p.moves => c.head = p.head
    BY <1>4
  <2>. QED BY <1>10, <2>1, <2>2 DEF Fits
<1>. QED BY <1>11, <1>12 DEF p
(* Carried out, the plan makes the clip sound, and whatever part of it is     *)
(* written leaves the clip one that fits.                                    *)
LEMMA WholeSound ==
    ASSUME NEW h \in Nat, h <= NPackets + MaxMixes,
           NEW c, NEW p, Complete(p, h), Fits(c, p)
    PROVE  Sound(Whole(c, p), h)
<1>. DEFINE v == Whole(c, p)
<1>1. p.head \in Nat /\ p.head <= h /\ p.head + 1 \in p.at
  BY DEF Complete
<1>2. NewHead(c, p) = p.head
  BY DEF NewHead, Fits
<1>3. /\ v = [head |-> p.head, len |-> p.head + 2, cells |-> v.cells, index |-> v.index]
      /\ v.cells = [x \in Cells |-> IF x \in p.at THEN p.cells[x]
                                           ELSE IF x < p.head + 2 THEN c.cells[x] ELSE Zero]
      /\ v.index = [x \in Cells |-> IF x < p.head + 2
                                THEN (IF x \notin p.at THEN c.index[x]
                                      ELSE IF x = p.head + 1 THEN p.index ELSE NoIndex)
                                ELSE NoIndex]
      /\ v.head = p.head /\ v.len = p.head + 2
  BY <1>2 DEF Whole, Over
<1>4. p.head + 1 \in Cells /\ p.head + 1 < p.head + 2
  BY <1>1, MixSizes
<1>5. Listed(v) = p.index
  BY <1>1, <1>3, <1>4 DEF Listed
<1>. HIDE DEF v
<1>6. Shape(v)
  BY <1>3 DEF Shape
<1>7. ASSUME NEW x \in DOMAIN p.index PROVE x \in Cells /\ x <= p.head /\ x < p.head + 2
  <2>1. x \in 1 .. p.head
    BY DEF Complete
  <2>. QED BY <1>1, <2>1, MixSizes
<1>8. ASSUME NEW x \in DOMAIN p.index PROVE v.cells[x] = p.index[x]
  <2>1. CASE x \in p.at
    BY <1>3, <1>7, <2>1 DEF Complete
  <2>2. CASE x \notin p.at
    BY <1>3, <1>7, <2>2 DEF Fits
  <2>. QED BY <2>1, <2>2
<1>9. ASSUME NEW x \in Cells, x \notin DOMAIN p.index PROVE v.cells[x][1] # "audio"
  <2>1. CASE x \in p.at
    BY <1>3, <1>9, <2>1 DEF Complete
  <2>2. CASE x \notin p.at
    BY <1>3, <1>9, <2>2, Silence DEF Fits
  <2>. QED BY <2>1, <2>2
<1>10. Plays(v)
  BY <1>3, <1>5, <1>7, <1>8 DEF Plays, Complete
<1>. QED BY <1>3, <1>5, <1>6, <1>9, <1>10 DEF Sound, Complete, v

LEMMA OverFits ==
    ASSUME NEW h \in Nat, NEW c, NEW p, Complete(p, h), Fits(c, p),
           NEW W \in SUBSET p.at, NEW head \in {c.head, NewHead(c, p)},
           NEW len \in Nat, p.head + 2 <= len
    PROVE  Fits(Over(c, p, W, head, len), p)
<1>. DEFINE v == Over(c, p, W, head, len)
<1>1. p.head \in Nat
  BY DEF Complete
<1>2. v.len = len /\ v.head = head
      /\ v.cells = [x \in Cells |-> IF x \in W THEN p.cells[x]
                                           ELSE IF x < len THEN c.cells[x] ELSE Zero]
  BY DEF Over
<1>. HIDE DEF v
<1>3. ~p.moves => v.head = p.head
  BY <1>2 DEF NewHead, Fits
<1>4. ASSUME NEW x \in Cells, x \notin p.at
      PROVE  IF x \in DOMAIN p.index THEN v.cells[x] = p.index[x] ELSE v.cells[x][1] # "audio"
  <2>1. v.cells[x] = IF x < len THEN c.cells[x] ELSE Zero
    BY <1>2, <1>4
  <2>2. x \in DOMAIN p.index => x < len
    <3>1. x \in DOMAIN p.index => x \in 1 .. p.head
      BY DEF Complete
    <3>. QED BY <1>1, <3>1
  <2>3. CASE x \in DOMAIN p.index
    BY <1>4, <2>1, <2>2, <2>3 DEF Fits
  <2>4. CASE x \notin DOMAIN p.index
    BY <1>4, <2>1, <2>4, Silence DEF Fits
  <2>. QED BY <2>3, <2>4
<1>. QED BY <1>2, <1>3, <1>4 DEF Fits, v

LEMMA PartsFit ==
    ASSUME NEW h \in Nat, NEW c, NEW p, Complete(p, h), Fits(c, p)
    PROVE  Fits(Whole(c, p), p) /\ \A v \in Parts(c, p) : Fits(v, p)
<1>1. p.head \in Nat /\ c.len \in Nat /\ p.head + 2 \in Nat
  BY DEF Complete, Fits
<1>2. Fits(Whole(c, p), p)
  BY <1>1, OverFits DEF Whole
<1>3. ASSUME NEW v \in Parts(c, p) PROVE Fits(v, p)
  <2>1. PICK len : len = Max({c.len, p.head + 2})
    OBVIOUS
  <2>2. len \in {c.len, p.head + 2} /\ \A x \in {c.len, p.head + 2} : x <= len
    <3>1. c.len + (p.head + 2) \in Nat /\ {c.len, p.head + 2} \in SUBSET Nat
          /\ {c.len, p.head + 2} # {} /\ \A x \in {c.len, p.head + 2} : x <= c.len + (p.head + 2)
      BY <1>1
    <3>. QED BY <2>1, <3>1, GreatestChosen
  <2>3. len \in Nat /\ p.head + 2 <= len
    BY <1>1, <2>2
  <2>4. PICK H : H = {c.head, NewHead(c, p)}
    OBVIOUS
  <2>5. v \in {Over(c, p, W, head, len) : W \in SUBSET p.at, head \in H}
    BY <1>3, <2>1, <2>4 DEF Parts
  <2>6. PICK W \in SUBSET p.at, head \in H : v = Over(c, p, W, head, len)
    BY <2>5
  <2>7. head \in {c.head, NewHead(c, p)}
    BY <2>4
  <2>8. Fits(Over(c, p, W, head, len), p)
    BY <2>3, <2>7, OverFits
  <2>. QED BY <2>6, <2>8
<1>. QED BY <1>2, <1>3

(* Of two clips that fit, cell by cell.                                      *)
LEMMA MixtureFits ==
    ASSUME NEW c, NEW d, NEW p, Fits(c, p), Fits(d, p), NEW v,
           v.head \in {c.head, d.head}, v.len \in {c.len, d.len},
           \A x \in Cells : v.cells[x] \in {c.cells[x], d.cells[x]}
    PROVE  Fits(v, p)
<1>1. v.len \in Nat /\ (~p.moves => v.head = p.head)
  BY DEF Fits
<1>2. ASSUME NEW x \in Cells, x \notin p.at
      PROVE  IF x \in DOMAIN p.index THEN v.cells[x] = p.index[x] ELSE v.cells[x][1] # "audio"
  <2>1. CASE x \in DOMAIN p.index
    <3>1. c.cells[x] = p.index[x] /\ d.cells[x] = p.index[x]
      BY <1>2, <2>1 DEF Fits
    <3>. QED BY <2>1, <3>1
  <2>2. CASE x \notin DOMAIN p.index
    <3>1. c.cells[x][1] # "audio" /\ d.cells[x][1] # "audio"
      BY <1>2, <2>2 DEF Fits
    <3>2. CASE v.cells[x] = c.cells[x]
      BY <2>2, <3>1, <3>2
    <3>3. CASE v.cells[x] = d.cells[x]
      BY <2>2, <3>1, <3>3
    <3>. QED BY <3>2, <3>3
  <2>. QED BY <2>1, <2>2
<1>. QED BY <1>1, <1>2 DEF Fits

(* A clip with the same in every cell.                                       *)
LEMMA CopySound ==
    ASSUME NEW h \in Nat, h <= NPackets + MaxMixes, NEW c, Sound(c, h), NEW v, Shape(v),
           v.head = c.head, v.len = c.len,
           \A x \in Cells : v.cells[x] = c.cells[x] /\ v.index[x] = c.index[x]
    PROVE  Sound(v, h)
<1>1. c.head \in Nat /\ c.head <= h
  BY DEF Sound
<1>2. c.head + 1 \in Cells
  BY <1>1, MixSizes
<1>3. Listed(v) = Listed(c)
  BY <1>2 DEF Listed
<1>4. \A x \in DOMAIN Listed(c) : x \in Cells
  <2>1. \A x \in DOMAIN Listed(c) : x \in 1 .. c.head
    BY DEF Sound
  <2>. QED BY <1>1, <2>1, MixSizes
<1>5. Plays(v)
  BY <1>3, <1>4 DEF Sound, Plays
<1>6. \A x \in Cells \ DOMAIN Listed(v) : v.cells[x][1] # "audio"
  BY <1>3 DEF Sound
<1>. QED BY <1>3, <1>5, <1>6 DEF Sound

(* A trim makes a sound clip of a sound clip.                                *)
LEMMA SlidSound ==
    ASSUME NEW h \in Nat, h <= NPackets + MaxMixes, NEW c, Sound(c, h),
           NEW first \in DOMAIN Listed(c), NEW last \in DOMAIN Listed(c), first <= last
    PROVE  Sound(Slid(c, first, last), h)
<1>. DEFINE kept == {x \in DOMAIN Listed(c) : first <= x /\ x <= last}
            from(y) == CHOOSE x \in kept : Cardinality(UpTo(kept, x)) = y
            head == Cardinality(kept)
            listed == [y \in 1 .. head |-> Listed(c)[from(y)]]
            v == Slid(c, first, last)
<1>1. /\ c.head \in Nat /\ c.head <= h /\ kept \in SUBSET (1 .. c.head)
      /\ \A x \in DOMAIN Listed(c) : c.cells[x] = Listed(c)[x]
  BY DEF Sound, Plays
<1>2. head \in Nat /\ head <= c.head
  <2>. HIDE DEF kept
  <2>. QED BY <1>1, MixPlaces
<1>3. head # 0
  <2>1. first \in kept
    <3>1. first \in 1 .. c.head
      BY DEF Sound
    <3>2. first <= first
      BY <3>1
    <3>. QED BY <3>2
  <2>. HIDE DEF kept
  <2>. QED BY <1>1, <2>1, MixPlaces
<1>4. ASSUME NEW y \in 1 .. head PROVE from(y) \in kept
  <2>. HIDE DEF kept
  <2>1. \E x \in kept : Cardinality(UpTo(kept, x)) = y
    BY <1>1, MixPlaces
  <2>. QED BY <2>1
<1>5. /\ v.head = head /\ v.len = head + 2
      /\ v.cells = [y \in Cells |-> IF y <= head THEN c.cells[from(y)] ELSE Zero]
      /\ v.index = [y \in Cells |-> IF y = head + 1 THEN listed ELSE NoIndex]
      /\ v = [head |-> head, len |-> head + 2, cells |-> v.cells, index |-> v.index]
  BY DEF Slid, UpTo
<1>6. head + 1 \in Cells
  BY <1>1, <1>2, MixSizes
<1>. HIDE DEF v, kept, from
<1>7. Listed(v) = listed
  BY <1>5, <1>6 DEF Listed
<1>8. DOMAIN Listed(v) = 1 .. head /\ Listed(v) # NoIndex
  <2>1. 1 \in 1 .. head
    BY <1>2, <1>3
  <2>. QED BY <1>7, <2>1, Silence
<1>9. ASSUME NEW y \in 1 .. head PROVE y <= head /\ v.cells[y] = Listed(v)[y]
  <2>1. y \in Cells /\ y <= head
    BY <1>1, <1>2, MixSizes
  <2>2. from(y) \in DOMAIN Listed(c)
    BY <1>4 DEF kept
  <2>. QED BY <1>1, <1>5, <1>7, <2>1, <2>2
<1>10. ASSUME NEW y \in Cells, y \notin 1 .. head PROVE v.cells[y][1] # "audio"
  <2>1. ~(y <= head)
    BY <1>2, <1>10, MixSizes
  <2>2. v.cells[y] = Zero
    BY <1>5, <2>1
  <2>. QED BY <2>2, Silence
<1>11. Shape(v)
  BY <1>5 DEF Shape
<1>12. Plays(v)
  BY <1>5, <1>8, <1>9 DEF Plays
<1>13. v.head \in 0 .. h
  BY <1>1, <1>2, <1>5
<1>. QED BY <1>5, <1>8, <1>10, <1>11, <1>12, <1>13 DEF Sound, v
(* The plan is made from the index that was read, which is the clip's.       *)
LEMMA PlanOfRead ==
    ASSUME NEW h \in Nat, h <= NPackets + MaxMixes, NEW c, Sound(c, h), NEW d,
           d = [c EXCEPT !.index[c.head + 1] = Listed(c)]
    PROVE  /\ AudioCells(d) = AudioCells(c)
           /\ \A m, n : PlanOf(d, m, n) = PlanOf(c, m, n)
<1>1. c.head \in Nat /\ c.head <= h /\ Shape(c)
  BY DEF Sound
<1>2. c.head + 1 \in Cells
  BY <1>1, MixSizes
<1>3. PICK I : I = [c.index EXCEPT ![c.head + 1] = Listed(c)]
  OBVIOUS
<1>4. I[c.head + 1] = Listed(c)
  BY <1>1, <1>2, <1>3 DEF Shape
<1>5. d.head = c.head /\ d.index = I
  BY <1>1, <1>3 DEF Shape
<1>6. Listed(d) = Listed(c)
  BY <1>4, <1>5 DEF Listed
<1>7. AudioCells(d) = AudioCells(c)
  BY <1>6 DEF AudioCells
<1>8. ASSUME NEW x PROVE Packet(d, x) = Packet(c, x)
  <2>1. PICK A : A = AudioCells(c) /\ A = AudioCells(d)
    BY <1>7
  <2>2. Packet(c, x) = IF x \in A THEN Cardinality({y \in A : y <= x}) ELSE Cardinality(A) + (x - c.head)
    BY <2>1 DEF Packet
  <2>3. Packet(d, x) = IF x \in A THEN Cardinality({y \in A : y <= x}) ELSE Cardinality(A) + (x - d.head)
    BY <2>1 DEF Packet
  <2>. QED BY <1>5, <2>2, <2>3
<1>9. \A n : /\ SlotsTaken(d, n) = SlotsTaken(c, n)
             /\ SlotsWritten(d, n) = SlotsWritten(c, n)
  BY <1>5, <1>7, <1>8 DEF SlotsTaken, SlotsWritten
<1>10. \A m, n : PlanOf(d, m, n) = PlanOf(c, m, n)
  BY <1>5, <1>6, <1>7, <1>8, <1>9 DEF PlanOf
<1>. QED BY <1>7, <1>10

-----------------------------------------------------------------------------
(* The steps.                                                                *)
LEMMA MixStart ==
    ASSUME MixInit PROVE MixInv
<1>1. NPackets \in Nat \ {0} /\ Size = NPackets /\ Size <= NPackets + MaxMixes /\ mixes = 0
  BY MixSizes DEF MixInit, Size
<1>2. MixTypes /\ MixWorks
  BY MixSizes DEF MixInit, MixTypes, MixWorks
<1>3. MixAlone
  BY DEF MixInit, MixAlone, Unfinished, Committed
<1>4. Sound(Original, NPackets)
  <2>. DEFINE v == Original
  <2>1. /\ v.head = NPackets /\ v.len = NPackets + 2
        /\ v.cells = [c \in Cells |-> IF c <= NPackets THEN Recorded(c) ELSE Zero]
        /\ v.index = [c \in Cells |->
               IF c = NPackets + 1 THEN [x \in 1 .. NPackets |-> Recorded(x)] ELSE NoIndex]
        /\ v = [head |-> NPackets, len |-> NPackets + 2, cells |-> v.cells, index |-> v.index]
    BY DEF Original
  <2>2. NPackets + 1 \in Cells
    BY MixSizes
  <2>. HIDE DEF v
  <2>3. Listed(v) = [x \in 1 .. NPackets |-> Recorded(x)]
    BY <2>1, <2>2 DEF Listed
  <2>4. DOMAIN Listed(v) = 1 .. NPackets /\ Listed(v) # NoIndex
    <3>1. 1 \in 1 .. NPackets
      BY <1>1
    <3>. QED BY <2>3, <3>1, Silence
  <2>5. ASSUME NEW x \in 1 .. NPackets PROVE x <= NPackets /\ v.cells[x] = Listed(v)[x]
    <3>1. x \in Cells /\ x <= NPackets
      BY MixSizes
    <3>. QED BY <2>1, <2>3, <3>1
  <2>6. ASSUME NEW x \in Cells, x \notin 1 .. NPackets PROVE v.cells[x][1] # "audio"
    <3>1. ~(x <= NPackets)
      BY <2>6, MixSizes
    <3>. QED BY <2>1, <3>1, Silence
  <2>7. Shape(v) /\ Plays(v)
    BY <2>1, <2>4, <2>5 DEF Shape, Plays
  <2>. QED BY <1>1, <2>1, <2>4, <2>6, <2>7 DEF Sound, v
<1>5. MixKept
  BY <1>1, <1>4 DEF MixInit, MixKept, Begun
<1>. QED BY <1>2, <1>3, <1>5 DEF MixInv

(* Steps that leave the clip and the committed journals.                     *)
LEMMA MixFrame ==
    ASSUME MixInv, MixTypes', MixWorks', Orderly' => Orderly,
           clip' = clip, disk' = disk, plan' = plan, mixes' = mixes,
           pc # "header", pc' \notin {"journal", "header", "sync"},
           \A m \in Mixes : journal'[m] = journal[m] \/ (journal[m] = "open" /\ journal'[m] = "none"),
           Orderly /\ pc' = "apply" => journal[job'] = "committed" /\ job' \in Mixes
    PROVE  MixInv'
<1>. SUFFICES ASSUME Orderly' PROVE MixAlone' /\ MixKept'
  BY DEF MixInv
<1>1. MixAlone /\ MixKept
  BY DEF MixInv
<1>2. \A m \in Mixes : /\ journal'[m] = "committed" <=> journal[m] = "committed"
                       /\ journal'[m] = "header" <=> journal[m] = "header"
  OBVIOUS
<1>3. \A m \in Mixes : journal[m] # "header"
  BY <1>1 DEF MixAlone
<1>4. MixAlone'
  BY <1>1, <1>2, <1>3 DEF MixAlone, Unfinished, Committed
<1>5. \A m \in Mixes : Begun(m)' => Begun(m)
  BY <1>2 DEF Begun
<1>6. Size' = Size
  BY DEF Size
<1>7. MixKept'
  BY <1>1, <1>2, <1>5, <1>6 DEF MixKept
<1>. QED BY <1>4, <1>7

LEMMA QuietSteps ==
    ASSUME MixInv,
           \/ FlushFails \/ Start \/ Mix \/ FinishNext
           \/ Read \/ ReadFails \/ Rest
           \/ ReadIndex \/ GivesUp \/ Quit
    PROVE  MixInv'
<1>. USE DEF Counted, mixer, history
<1>1. MixTypes /\ MixWorks
  BY DEF MixInv
<1>2. CASE FlushFails
  <2>1. MixTypes' /\ MixWorks'
    BY <1>1, <1>2 DEF FlushFails, MixTypes, MixWorks
  <2>. QED BY <1>2, <2>1, MixFrame DEF FlushFails, Orderly
<1>3. CASE Start
  <2>1. MixTypes' /\ MixWorks'
    BY <1>1, <1>3 DEF Start, Left, MixTypes, MixWorks
  <2>. QED BY <1>1, <1>3, <2>1, MixFrame DEF Start, MixWorks, Orderly
<1>4. CASE Mix
  <2>1. MixTypes' /\ MixWorks'
    BY <1>1, <1>4 DEF Mix, Left, MixTypes, MixWorks
  <2>. QED BY <1>4, <2>1, MixFrame DEF Mix, Orderly
<1>5. CASE FinishNext
  <2>1. MixTypes' /\ MixWorks'
    BY <1>1, <1>5, MixSizes DEF FinishNext, MixTypes, MixWorks
  <2>. QED BY <1>5, <2>1, MixFrame DEF FinishNext, Orderly
<1>6. CASE Read
  <2>1. job \in Mixes /\ pc = "reading"
    BY <1>1, <1>6 DEF Read, MixWorks
  <2>2. MixTypes' /\ MixWorks'
    BY <1>1, <1>6, <2>1 DEF Read, Written, MixTypes, MixWorks
  <2>3. \A m \in Mixes : journal'[m] = journal[m] \/ (journal[m] = "open" /\ journal'[m] = "none")
    BY <1>1, <1>6, <2>1 DEF Read, Written, Committed, MixTypes
  <2>4. Orderly /\ pc' = "apply" => journal[job] = "committed"
    BY <1>6, <2>1 DEF Read, Committed, MixInv, MixAlone
  <2>. QED BY <1>6, <2>1, <2>2, <2>3, <2>4, MixFrame DEF Read, Orderly
<1>7. CASE ReadFails
  <2>1. MixTypes' /\ MixWorks'
    BY <1>1, <1>7 DEF ReadFails, MixTypes, MixWorks
  <2>. QED BY <1>7, <2>1, MixFrame DEF ReadFails, Orderly
<1>8. CASE Rest
  <2>1. MixTypes' /\ MixWorks'
    BY <1>1, <1>8 DEF Rest, MixTypes, MixWorks
  <2>. QED BY <1>8, <2>1, MixFrame DEF Rest, Orderly
<1>9. CASE ReadIndex
  <2>1. MixTypes' /\ MixWorks'
    BY <1>1, <1>9 DEF ReadIndex, MixTypes, MixWorks
  <2>. QED BY <1>9, <2>1, MixFrame DEF ReadIndex, Orderly
<1>10. CASE GivesUp
  <2>1. MixTypes' /\ MixWorks'
    BY <1>1, <1>10 DEF GivesUp, MixTypes, MixWorks
  <2>. QED BY <1>10, <2>1, MixFrame DEF GivesUp, Orderly
<1>11. CASE Quit
  <2>1. MixTypes' /\ MixWorks'
    BY <1>1, <1>11, MixSizes DEF Quit, Stop, MixTypes, MixWorks
  <2>. QED BY <1>11, <2>1, MixFrame DEF Quit, Stop, Orderly
<1>. QED BY <1>2, <1>3, <1>4, <1>5, <1>6, <1>7, <1>8, <1>9, <1>10, <1>11

(* The journal of the last mix is begun, and nothing else is unfinished.     *)
LEMMA JournalSteps ==
    ASSUME MixInv, WriteHeader \/ Commit \/ CommitFails
    PROVE  MixInv'
<1>. USE DEF Counted, mixer, history
<1>1. MixTypes /\ MixWorks
  BY DEF MixInv
<1>2. job \in Mixes /\ job = mixes
  BY <1>1 DEF WriteHeader, Commit, CommitFails, MixWorks
<1>3. CASE WriteHeader
  <2>1. MixTypes' /\ MixWorks'
    BY <1>1, <1>2, <1>3 DEF WriteHeader, Written, MixTypes, MixWorks
  <2>2. \A m \in Mixes : journal'[m] = IF m = job THEN "header" ELSE journal[m]
    BY <1>1, <1>3 DEF WriteHeader, Written, MixTypes
  <2>. SUFFICES ASSUME Orderly' PROVE MixAlone' /\ MixKept'
    BY <2>1 DEF MixInv
  <2>3. MixAlone /\ MixKept /\ pc = "journal" /\ journal[job] = "open"
    BY <1>1, <1>3 DEF WriteHeader, MixInv, MixWorks, Orderly
  <2>4. MixAlone'
    BY <1>2, <1>3, <2>2, <2>3 DEF WriteHeader, MixAlone, Unfinished, Committed
  <2>5. /\ \A m \in Mixes : Begun(m)' => Begun(m)
        /\ (\A m \in Mixes : journal'[m] # "committed")
              => \A m \in Mixes : journal[m] # "committed"
    BY <1>2, <1>3, <2>2, <2>3 DEF WriteHeader, Begun
  <2>6. Size' = Size
    BY <1>3 DEF WriteHeader, Size
  <2>. QED BY <1>3, <2>3, <2>4, <2>5, <2>6 DEF WriteHeader, MixKept
<1>4. CASE Commit
  <2>1. MixTypes' /\ MixWorks'
    BY <1>1, <1>2, <1>4 DEF Commit, Written, MixTypes, MixWorks
  <2>2. \A m \in Mixes : journal'[m] = IF m = job THEN "committed" ELSE journal[m]
    BY <1>1, <1>4 DEF Commit, Written, MixTypes
  <2>. SUFFICES ASSUME Orderly' PROVE MixAlone' /\ MixKept'
    BY <2>1 DEF MixInv
  <2>3. MixAlone /\ MixKept /\ pc = "header" /\ journal[job] = "header"
    BY <1>1, <1>4 DEF Commit, MixInv, MixWorks, Orderly
  <2>4. MixAlone'
    BY <1>2, <1>4, <2>2, <2>3 DEF Commit, MixAlone, Unfinished, Committed
  <2>5. /\ \A m \in Mixes : Begun(m)' => Begun(m)
        /\ journal'[job] = "committed"
    BY <1>2, <1>4, <2>2, <2>3 DEF Commit, Begun
  <2>6. Size' = Size
    BY <1>4 DEF Commit, Size
  <2>. QED BY <1>2, <1>4, <2>3, <2>4, <2>5, <2>6 DEF Commit, MixKept
<1>5. CASE CommitFails /\ pc = "journal"
  <2>1. journal[job] = "open"
    BY <1>1, <1>5 DEF MixWorks
  <2>2. MixTypes' /\ MixWorks'
    BY <1>1, <1>5 DEF CommitFails, Written, MixTypes, MixWorks
  <2>3. \A m \in Mixes : journal'[m] = journal[m] \/ (journal[m] = "open" /\ journal'[m] = "none")
    BY <1>1, <1>2, <1>5, <2>1 DEF CommitFails, Written, MixTypes
  <2>. QED BY <1>5, <2>2, <2>3, MixFrame DEF CommitFails, Orderly
<1>6. CASE CommitFails /\ pc = "header"
  <2>1. MixTypes' /\ MixWorks'
    BY <1>1, <1>6 DEF CommitFails, Written, MixTypes, MixWorks
  <2>. QED BY <1>6, <2>1 DEF CommitFails, Orderly, MixInv
<1>. QED BY <1>3, <1>4, <1>5, <1>6 DEF CommitFails
(* A committed journal is carried out.                                       *)
LEMMA SizeBound ==
    ASSUME MixTypes
    PROVE  Size \in Nat /\ Size <= NPackets + MaxMixes
BY MixSizes DEF MixTypes, Size

LEMMA ApplySteps ==
    ASSUME MixInv, Apply \/ ApplyFails
    PROVE  MixInv'
<1>. USE DEF Counted, mixer, history
<1>1. MixTypes /\ MixWorks /\ job \in Mixes /\ pc = "apply"
  BY DEF MixInv, MixWorks, Apply, ApplyFails
<1>2. MixTypes' /\ MixWorks'
  BY <1>1 DEF Apply, ApplyFails, MixTypes, MixWorks
<1>3. /\ disk' = disk /\ journal' = journal /\ plan' = plan /\ mixes' = mixes
      /\ job' = job /\ alone' = alone /\ flushed' = flushed
      /\ pc' \in {"sync", "reading", "finishing"}
  BY DEF Apply, ApplyFails
<1>. SUFFICES ASSUME Orderly' PROVE MixAlone' /\ MixKept'
  BY <1>2 DEF MixInv
<1>4. MixAlone /\ MixKept /\ journal[job] = "committed"
  BY <1>1, <1>3 DEF MixInv, Orderly, MixAlone
<1>5. MixAlone'
  BY <1>1, <1>3, <1>4 DEF MixAlone, Unfinished, Committed
<1>6. Size \in Nat /\ Size <= NPackets + MaxMixes /\ Size' = Size
  BY <1>1, <1>3, SizeBound DEF Size
<1>7. PICK p : p = plan[job]
  OBVIOUS
<1>8. Complete(p, Size) /\ Fits(clip, p) /\ Fits(disk, p)
  BY <1>1, <1>4, <1>7 DEF MixKept, Begun
<1>9. \A m \in Mixes : Begun(m)' => m = job
  <2>1. \A m \in Mixes : journal[m] \in {"header", "committed"} => m = mixes
    BY <1>4 DEF MixAlone, Unfinished, Committed
  <2>. QED BY <1>1, <1>3, <1>4, <2>1 DEF Begun
<1>10. PICK v : v = clip'
  OBVIOUS
<1>11. Fits(v, p)
  <2>1. v = Whole(clip, p) \/ v \in Parts(clip, p)
    BY <1>7, <1>10 DEF Apply, ApplyFails
  <2>2. Fits(Whole(clip, p), p) /\ \A u \in Parts(clip, p) : Fits(u, p)
    BY <1>6, <1>8, PartsFit
  <2>. QED BY <2>1, <2>2
<1>12. pc' = "sync" => Sound(v, Size)
  <2>1. pc' = "sync" => v = Whole(clip, p)
    BY <1>7, <1>10 DEF Apply, ApplyFails
  <2>2. Sound(Whole(clip, p), Size)
    BY <1>6, <1>8, WholeSound
  <2>. QED BY <2>1, <2>2
<1>13. ~\A m \in Mixes : journal'[m] # "committed"
  BY <1>1, <1>3, <1>4
<1>. QED BY <1>3, <1>5, <1>6, <1>7, <1>8, <1>9, <1>10, <1>11, <1>12, <1>13 DEF MixKept

LEMMA FinishedStep ==
    ASSUME MixInv, Finished
    PROVE  MixInv'
<1>. USE DEF Counted, mixer, history
<1>1. MixTypes /\ MixWorks /\ job \in Mixes /\ pc = "sync"
  BY DEF MixInv, MixWorks, Finished
<1>2. MixTypes' /\ MixWorks'
  BY <1>1 DEF Finished, Written, MixTypes, MixWorks
<1>3. /\ clip' = clip /\ disk' = clip /\ plan' = plan /\ mixes' = mixes
      /\ alone' = alone /\ flushed' = flushed /\ pc' = "finishing"
      /\ \A m \in Mixes \ {job} : journal'[m] = journal[m]
      /\ journal'[job] \in {"none", journal[job]}
  BY <1>1 DEF Finished, Written, MixTypes
<1>. SUFFICES ASSUME Orderly' PROVE MixAlone' /\ MixKept'
  BY <1>2 DEF MixInv
<1>4. MixAlone /\ MixKept /\ journal[job] = "committed"
  BY <1>1, <1>3 DEF MixInv, Orderly, MixAlone
<1>5. \A m \in Mixes : journal'[m] \in {"header", "committed"} => m = job /\ journal'[m] = "committed"
  <2>1. \A m \in Mixes : journal[m] \in {"header", "committed"} => m = mixes
    BY <1>4 DEF MixAlone, Unfinished, Committed
  <2>. QED BY <1>1, <1>3, <1>4, <2>1
<1>6. job = mixes
  BY <1>1, <1>4 DEF MixAlone, Unfinished, Committed
<1>7. MixAlone'
  BY <1>3, <1>5, <1>6 DEF MixAlone, Unfinished, Committed
<1>8. Size' = Size
  BY <1>3 DEF Size
<1>9. Sound(clip, Size)
  BY <1>1, <1>4 DEF MixKept
<1>10. Complete(plan[job], Size) /\ Fits(clip, plan[job])
  BY <1>1, <1>4 DEF MixKept, Begun
<1>11. \A m \in Mixes : Begun(m)' => m = job
  BY <1>3, <1>5 DEF Begun
<1>. QED BY <1>3, <1>7, <1>8, <1>9, <1>10, <1>11 DEF MixKept

(* A new mix.                                                                *)
LEMMA NoneUnfinished ==
    ASSUME MixInv, Orderly, Unfinished = {}
    PROVE  /\ \A m \in Mixes : journal[m] \notin {"header", "committed"}
           /\ clip = disk /\ Sound(clip, Size)
<1>1. \A m \in Mixes : journal[m] \notin {"header", "committed"}
  BY DEF Unfinished, Committed
<1>. QED BY <1>1 DEF MixInv, MixKept

LEMMA PlannedStep ==
    ASSUME MixInv, Planned
    PROVE  MixInv'
<1>. DEFINE m == mixes + 1
            read == [clip EXCEPT !.index[clip.head + 1] = seen[1]]
<1>1. MixTypes /\ MixWorks /\ pc = "encoding" /\ m \in Mixes
  BY MixSizes DEF MixInv, MixTypes, MixWorks, Planned
<1>2. PICK n \in 1 .. Cardinality(AudioCells(read)) + 1 :
        plan' = [plan EXCEPT ![m] = PlanOf(read, m, n)]
  BY DEF Planned
<1>3. /\ mixes' = m /\ job' = m /\ pc' = "journal" /\ want' = want /\ up' = up /\ todo' = todo
      /\ clip' = clip /\ disk' = disk /\ flushed' = flushed
      /\ alone' = (alone /\ Unfinished = {})
      /\ journal' = [journal EXCEPT ![m] = "open"]
  BY DEF Planned, Written
<1>4. MixTypes' /\ MixWorks'
  <2>1. mixes' \in 0 .. MaxMixes /\ job' \in 0 .. MaxMixes
    BY <1>1, <1>3, MixSizes
  <2>2. MixTypes'
    BY <1>1, <1>2, <1>3, <2>1 DEF MixTypes
  <2>. QED BY <1>1, <1>3, <2>2 DEF MixTypes, MixWorks
<1>. SUFFICES ASSUME Orderly' PROVE MixAlone' /\ MixKept'
  BY <1>4 DEF MixInv
<1>5. Orderly /\ Unfinished = {}
  BY <1>3 DEF Orderly
<1>6. /\ \A l \in Mixes : journal[l] \notin {"header", "committed"}
      /\ clip = disk /\ Sound(clip, Size)
  BY <1>5, NoneUnfinished
<1>7. \A l \in Mixes : journal'[l] \notin {"header", "committed"}
  BY <1>1, <1>3, <1>6 DEF MixTypes
<1>8. MixAlone'
  BY <1>3, <1>7 DEF MixAlone, Unfinished, Committed
<1>9. /\ Size \in Nat /\ Size <= NPackets + MaxMixes /\ Size' = Size + 1
      /\ Size' <= NPackets + MaxMixes /\ Size' \in Nat
  BY <1>1, <1>3, MixSizes DEF MixTypes, Size
<1>10. seen[1] = Listed(clip)
  BY DEF Planned, Ready
<1>11. /\ Complete(PlanOf(clip, m, n), Size + 1) /\ Fits(clip, PlanOf(clip, m, n))
       /\ plan'[m] = PlanOf(clip, m, n)
  <2>1. PICK d : d = read
    OBVIOUS
  <2>2. d = [clip EXCEPT !.index[clip.head + 1] = Listed(clip)]
    BY <1>10, <2>1
  <2>3. AudioCells(d) = AudioCells(clip) /\ PlanOf(d, m, n) = PlanOf(clip, m, n)
    BY <1>6, <1>9, <2>2, PlanOfRead
  <2>4. n \in 1 .. Cardinality(AudioCells(clip)) + 1
    BY <1>2, <2>1, <2>3
  <2>5. Complete(PlanOf(clip, m, n), Size + 1) /\ Fits(clip, PlanOf(clip, m, n))
    BY <1>6, <1>9, <2>4, PlanFits
  <2>6. plan'[m] = PlanOf(d, m, n)
    BY <1>1, <1>2, <2>1 DEF MixTypes
  <2>. QED BY <2>3, <2>5, <2>6
<1>12. Sound(clip, Size + 1)
  <2>1. clip.head \in 0 .. Size + 1
    BY <1>6, <1>9 DEF Sound
  <2>. QED BY <1>6, <2>1 DEF Sound
<1>13. \A l \in Mixes : Begun(l)' => l = m
  BY <1>3, <1>7 DEF Begun
<1>. HIDE DEF m
<1>14. MixKept'
  BY <1>3, <1>6, <1>9, <1>11, <1>12, <1>13 DEF MixKept
<1>. QED BY <1>8, <1>14

LEMMA TrimStep ==
    ASSUME MixInv, Trim
    PROVE  MixInv'
<1>. USE DEF mixer
<1>1. MixTypes /\ MixWorks
  BY DEF MixInv
<1>2. MixTypes' /\ MixWorks'
  BY <1>1 DEF Trim, MixTypes, MixWorks
<1>3. /\ journal' = journal /\ mixes' = mixes /\ pc' = pc /\ disk' = clip'
      /\ pc \notin {"apply", "sync", "journal", "header"}
      /\ flushed' = flushed /\ alone' = (alone /\ Unfinished = {})
  BY DEF Trim
<1>. SUFFICES ASSUME Orderly' PROVE MixAlone' /\ MixKept'
  BY <1>2 DEF MixInv
<1>4. Orderly /\ Unfinished = {}
  BY <1>3 DEF Orderly
<1>5. /\ \A m \in Mixes : journal[m] \notin {"header", "committed"}
      /\ Sound(clip, Size)
  BY <1>4, NoneUnfinished
<1>6. MixAlone'
  BY <1>3, <1>5 DEF MixAlone, Unfinished, Committed
<1>7. Size \in Nat /\ Size <= NPackets + MaxMixes /\ Size' = Size
  BY <1>1, <1>3, SizeBound DEF Size
<1>8. PICK first \in DOMAIN Listed(clip), last \in DOMAIN Listed(clip) :
        first <= last /\ clip' = Slid(clip, first, last)
  BY DEF Trim
<1>9. PICK v : v = clip'
  OBVIOUS
<1>10. Sound(v, Size)
  BY <1>5, <1>7, <1>8, <1>9, SlidSound
<1>11. \A m \in Mixes : ~Begun(m)'
  BY <1>3, <1>5 DEF Begun
<1>12. MixKept'
  BY <1>3, <1>7, <1>9, <1>10, <1>11 DEF MixKept
<1>. QED BY <1>6, <1>12

(* The machine stops: of what was written, any part is on disk.              *)
LEMMA CrashStep ==
    ASSUME MixInv, Crash
    PROVE  MixInv'
<1>. USE DEF history
<1>1. MixTypes /\ MixWorks
  BY DEF MixInv
<1>2. /\ disk' = clip' /\ plan' = plan /\ mixes' = mixes /\ alone' = alone /\ flushed' = flushed
      /\ pc' = "idle" /\ up' = FALSE /\ job' = 0 /\ todo' = {} /\ want' = FALSE
  BY DEF Crash, Stop
<1>3. /\ journal' \in [Mixes -> {"none", "open", "header", "committed"}]
      /\ \A m \in Mixes :
           /\ journal'[m] = "committed" => journal[m] \in {"header", "committed"}
           /\ journal[m] = "committed" => journal'[m] = "committed"
           /\ journal'[m] # "header"
  <2>1. PICK lost \in SUBSET {m \in Mixes : journal[m] = "header"} :
          journal' = [m \in Mixes |-> IF m \in lost THEN "open"
                        ELSE IF journal[m] = "header" THEN "committed" ELSE journal[m]]
    BY DEF Crash
  <2>. QED BY <1>1, <2>1 DEF MixTypes
<1>4. \A m \in Mixes :
         /\ journal'[m] \in {"header", "committed"} => journal[m] \in {"header", "committed"}
         /\ Begun(m)' => journal[m] \in {"header", "committed"}
  BY <1>2, <1>3 DEF Begun
<1>6. PICK v : v = clip'
  OBVIOUS
<1>7. /\ Shape(v) /\ v.head \in {clip.head, disk.head} /\ v.len \in {clip.len, disk.len}
      /\ \A x \in Cells : v.cells[x] \in {clip.cells[x], disk.cells[x]}
      /\ \A x \in Cells : v.index[x] \in {clip.index[x], disk.index[x]}
  <2>1. PICK W \in SUBSET {c \in Cells : clip.cells[c] # disk.cells[c] \/ clip.index[c] # disk.index[c]},
             head \in {clip.head, disk.head}, len \in {clip.len, disk.len} :
           clip' = [head |-> head, len |-> len,
                    cells |-> [c \in Cells |-> IF c \in W THEN clip.cells[c] ELSE disk.cells[c]],
                    index |-> [c \in Cells |-> IF c \in W THEN clip.index[c] ELSE disk.index[c]]]
    BY DEF Crash
  <2>. QED BY <1>6, <2>1 DEF Shape
<1>8. MixTypes' /\ MixWorks'
  <2>1. job' \in 0 .. MaxMixes
    BY <1>2, MixSizes
  <2>. QED BY <1>1, <1>2, <1>3, <2>1 DEF MixTypes, MixWorks
<1>. SUFFICES ASSUME Orderly' PROVE MixAlone' /\ MixKept'
  BY <1>8 DEF MixInv
<1>9. MixAlone /\ MixKept
  BY <1>2 DEF MixInv, Orderly
<1>10. MixAlone'
  <2>1. \A m \in Mixes :
           journal'[m] \in {"header", "committed"} => journal[m] \in {"header", "committed"}
    BY <1>4
  <2>2. Unfinished' \subseteq Unfinished
    BY <2>1 DEF Unfinished, Committed
  <2>3. \A m \in Mixes : journal'[m] # "header"
    BY <1>3
  <2>. QED BY <1>2, <1>9, <2>2, <2>3 DEF MixAlone
<1>11. Size \in Nat /\ Size <= NPackets + MaxMixes /\ Size' = Size
  BY <1>1, <1>2, SizeBound DEF Size
<1>12. (\A m \in Mixes : journal'[m] # "committed") => Sound(v, Size)
  <2>. SUFFICES ASSUME \A m \in Mixes : journal'[m] # "committed" PROVE Sound(v, Size)
    OBVIOUS
  <2>1. \A m \in Mixes : journal[m] # "committed"
    BY <1>3
  <2>2. clip = disk /\ Sound(clip, Size)
    BY <1>9, <2>1 DEF MixKept
  <2>3. /\ v.head = clip.head /\ v.len = clip.len
        /\ \A x \in Cells : v.cells[x] = clip.cells[x] /\ v.index[x] = clip.index[x]
    BY <1>7, <2>2
  <2>. QED BY <1>7, <1>11, <2>2, <2>3, CopySound
<1>13. ASSUME NEW m \in Mixes, Begun(m)'
       PROVE  Complete(plan[m], Size) /\ Fits(v, plan[m])
  <2>1. journal[m] \in {"header", "committed"}
    BY <1>4, <1>13
  <2>2. Complete(plan[m], Size) /\ Fits(clip, plan[m]) /\ Fits(disk, plan[m])
    BY <1>9, <2>1 DEF MixKept, Begun
  <2>. QED BY <1>7, <2>2, MixtureFits
<1>14. MixKept'
  BY <1>2, <1>6, <1>11, <1>12, <1>13 DEF MixKept
<1>. QED BY <1>10, <1>14

LEMMA MixStep ==
    ASSUME MixInv, [MixNext]_mixVars PROVE MixInv'
<1>1. CASE UNCHANGED mixVars
  <2>1. /\ clip' = clip /\ disk' = disk /\ journal' = journal /\ plan' = plan /\ up' = up /\ pc' = pc
        /\ job' = job /\ todo' = todo /\ want' = want /\ alone' = alone /\ flushed' = flushed /\ mixes' = mixes
    BY <1>1 DEF mixVars, mixer, history
  <2>2. MixTypes' /\ MixWorks'
    BY <2>1 DEF MixInv, MixTypes, MixWorks
  <2>3. Orderly' => MixAlone' /\ MixKept'
    BY <2>1 DEF MixInv, Orderly, MixAlone, Unfinished, Committed, MixKept, Begun, Size
  <2>. QED BY <2>2, <2>3 DEF MixInv
<1>2. CASE MixNext
  BY <1>2, QuietSteps, JournalSteps, ApplySteps, FinishedStep, PlannedStep, TrimStep, CrashStep
     DEF MixNext, Work
<1>. QED BY <1>1, <1>2

-----------------------------------------------------------------------------
LEMMA MixInvariance == MixSpec => []MixInv
<1>1. MixInit => MixInv
  BY MixStart
<1>2. MixInv /\ [MixNext]_mixVars => MixInv'
  BY MixStep
<1>. QED BY <1>1, <1>2, PTL DEF MixSpec

(* mod.rs, journal.rs: no mix leaves the clip broken, wherever it failed or   *)
(* the machine stopped: unless another mix or a trim was begun while its      *)
(* journal waited, or a journal's flush failed, a clip with no committed      *)
(* journal left plays as its index has it, and is on disk like that.          *)
THEOREM MixedClipPlays == MixSpec => []ClipPlays
<1>1. MixInv => ClipPlays
  BY NoneUnfinished DEF ClipPlays, Sound
<1>. QED BY MixInvariance, <1>1, PTL

(* plan.rs writes every slot of the old audio anew: under the same conditions *)
(* the file has no audio left that its index does not list.                   *)
THEOREM NoOldAudio == MixSpec => []OldAudioIsGone
<1>1. MixInv => OldAudioIsGone
  BY NoneUnfinished DEF OldAudioIsGone, Sound
<1>. QED BY MixInvariance, <1>1, PTL

(* journal.rs: applying a durable plan again yields the finished mix, as long  *)
(* as nothing was begun on the clip in between and no journal's flush failed. *)
THEOREM RedoYieldsTheMixInOrder ==
    MixSpec => [][Orderly /\ pc = "sync" /\ journal'[job] = "none" => Plays(clip')]_mixVars
<1>1. MixInv /\ [MixNext]_mixVars =>
        [Orderly /\ pc = "sync" /\ journal'[job] = "none" => Plays(clip')]_mixVars
  <2>. SUFFICES ASSUME MixInv, MixNext, Orderly, pc = "sync", journal'[job] = "none"
                PROVE  Plays(clip')
    BY DEF mixVars
  <2>1. MixTypes /\ MixWorks /\ Sound(clip, Size) /\ journal[job] = "committed" /\ job \in Mixes
    BY DEF MixInv, MixWorks, MixKept, MixAlone
  <2>2. CASE Finished
    BY <2>1, <2>2 DEF Finished, Sound, Plays, Listed
  <2>3. CASE FlushFails
    BY <2>1, <2>3 DEF FlushFails
  <2>4. CASE Crash
    <3>1. PICK lost \in SUBSET {m \in Mixes : journal[m] = "header"} :
            journal' = [m \in Mixes |-> IF m \in lost THEN "open"
                                        ELSE IF journal[m] = "header" THEN "committed" ELSE journal[m]]
      BY <2>4 DEF Crash
    <3>. QED BY <2>1, <3>1
  <2>5. CASE Start
    BY <2>1, <2>5 DEF Start, MixWorks
  <2>. QED
    BY <2>2, <2>3, <2>4, <2>5
    DEF MixNext, Work, WriteHeader, Commit, Apply, FinishNext,
        Read, Rest, ReadIndex, Planned, GivesUp, ApplyFails,
        CommitFails, ReadFails, Mix, Trim, Quit
<1>. QED BY MixInvariance, <1>1, PTL DEF MixSpec
=============================================================================
