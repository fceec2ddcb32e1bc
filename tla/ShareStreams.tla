---------------------------- MODULE ShareStreams ----------------------------
(***************************************************************************)
(* Watching a friend's clip (src/src-tauri/src/sharing/streams*.rs): a      *)
(* session's cache of blocks, the reads of the player, and the runways that *)
(* fetch ahead of them and share the link by priority.                     *)
(*                                                                         *)
(* One session and its readers (video, audio, a seek).  A block's bytes are *)
(* its number.  The sender side is ShareClips'.  Which of several sessions  *)
(* ends, the time-to-live, and progress for the display are left out.       *)
(***************************************************************************)
EXTENDS Naturals, FiniteSets, Sequences, FiniteSetsExt, SequencesExt

CONSTANTS
    Total,          \* the clip's blocks
    Slack,          \* RUNWAY_SLACK_BLOCKS
    Ahead,          \* LANE_AHEAD_BLOCKS
    RequestBlocks,  \* REQUEST_BLOCKS
    MaxRunways,     \* MAX_RUNWAYS
    Index,          \* the block of the clip's index
    Order,          \* playback_order: the blocks as playback needs them, or <<>>
    Readers,
    MaxReads,       \* bound: reads of the player
    MaxHitches      \* bound: failed requests, changes of the local copy, reads given up, the end

ASSUME StreamsAssumption ==
    /\ {Total, Slack, Ahead, RequestBlocks, MaxRunways} \subseteq Nat \ {0}
    /\ {MaxReads, MaxHitches} \subseteq Nat
    /\ Index \in 0 .. Total - 1
    /\ Order \in Seq(0 .. Total - 1) /\ IsInjective(Order)

Blocks == 0 .. Total - 1
Runways == 1 .. MaxRunways
NoRunway == [at |-> "none"]

VARIABLES
    store,      \* BlockStore: the blocks present
    local,      \* how many leading blocks a copy in the library or a download holds
    wanted,     \* the playhead
    order,      \* whether the index was read: "unknown", "known" or "absent"
    cursor,     \* where in the order the player is
    runways,    \* the cache's runways and what the task of each does
    playing,    \* the session is registered
    reading,    \* the block each reader waits for, or Total
    reads, hitches

cache == <<store, wanted, order, cursor, runways>>
streamsVars == <<cache, local, playing, reading, reads, hitches>>

StreamsInit ==
    /\ store = {} /\ local = 0 /\ playing = TRUE
    /\ wanted = 0 /\ order = "unknown" /\ cursor = 1
    /\ runways = [r \in Runways |-> NoRunway]
    /\ reading = [i \in Readers |-> Total]
    /\ reads = 0 /\ hitches = 0

Hitch == hitches < MaxHitches /\ hitches' = hitches + 1 /\ UNCHANGED reads
NoHitch == UNCHANGED <<reads, hitches>>

-----------------------------------------------------------------------------
Live == {r \in Runways : runways[r] # NoRunway}
Waiting == {i \in Readers : reading[i] # Total}

(* Runway::urgent.                                                           *)
Urgent(w) == w # NoRunway /\ ~w.filling /\ w.next < w.read + Ahead /\ w.active

(* A runway without an urgent reader waits while another has one.            *)
(* Mutant: urgent runways wait for each other.                               *)
YieldsToAny(r) == \E v \in Runways \ {r} : Urgent(runways[v])
Yields(r) == ~Urgent(runways[r]) /\ \E v \in Runways : Urgent(runways[v])

FirstMissing(from) ==
    LET missing == {b \in Blocks : b >= from /\ b >= local /\ b \notin store}
    IN  IF missing = {} THEN Total ELSE Min(missing)

(* lane_for and claimed, of the runways but for r.                           *)
Lanes(b) == {w \in Live : runways[w].next <= b /\ b < runways[w].next + Slack}
Claimants(b) == {w \in Live : runways[w].next <= b /\ b < runways[w].until}

(* note_read.                                                                *)
Rank(b) == CHOOSE i \in 1 .. Len(Order) : Order[i] = b
Serves(w, b) == w # NoRunway /\ w.from <= b /\ b < w.next + Slack
Noted(b) ==
    [r \in Runways |->
        IF Serves(runways[r], b)
        THEN [runways[r] EXCEPT !.read = IF b > @ THEN b ELSE @, !.active = TRUE, !.filling = FALSE]
        ELSE runways[r]]
NoteRead(b) ==
    /\ wanted' = b
    /\ cursor' = IF order = "known" /\ b \in Range(Order) THEN Rank(b) ELSE cursor

NewRunway(start) ==
    [at |-> "plan", from |-> start, next |-> start, until |-> start, read |-> start,
     active |-> TRUE, filling |-> FALSE]

(* start_runway: in a free place, or in that of the least recently used one; *)
(* one whose reader is active was used later than one whose reader is not.   *)
Replaceable(ws) ==
    LET free == {r \in Runways : ws[r] = NoRunway}
        idle == {r \in Runways : ws[r] # NoRunway /\ ~ws[r].active}
    IN  IF free # {} THEN {Min(free)} ELSE IF idle # {} THEN idle ELSE Runways

-----------------------------------------------------------------------------
(* StreamRegistry::read: from the local copy, or it waits.                   *)
ReadAt(i, b) ==
    /\ reading[i] = Total /\ reads < MaxReads /\ reads' = reads + 1
    /\ playing /\ b >= local
    /\ reading' = [reading EXCEPT ![i] = b]
    /\ UNCHANGED <<cache, local, playing, hitches>>

(* wait_for: a round of its loop, the first, after an arrival or after        *)
(* WAIT_RENEW: whenever, as far as the runways know.  What it was told to wait *)
(* for is missing and no local copy had it, so a new runway starts there.     *)
Wait(i) ==
    LET b == reading[i]
    IN  /\ i \in Waiting /\ b \notin store
        /\ NoteRead(b)
        /\ IF Lanes(b) # {}
           THEN runways' = Noted(b)
           ELSE \E r \in Replaceable(Noted(b)) :
                   runways' = [Noted(b) EXCEPT ![r] = NewRunway(b)]
        /\ NoHitch /\ UNCHANGED <<store, order, local, playing, reading>>

Arrive(i) ==
    LET b == reading[i]
    IN  /\ i \in Waiting /\ b \in store
        /\ NoteRead(b) /\ runways' = Noted(b)
        /\ reading' = [reading EXCEPT ![i] = Total]
        /\ NoHitch /\ UNCHANGED <<store, order, local, playing>>

GiveUpRead(i) ==
    /\ i \in Waiting /\ Hitch
    /\ reading' = [reading EXCEPT ![i] = Total]
    /\ UNCHANGED <<cache, local, playing>>

(* A reader that waits renews its claim on the runways that serve it.        *)
Expire(r) ==
    /\ runways[r] # NoRunway /\ runways[r].active
    /\ ~\E i \in Waiting : Serves(runways[r], reading[i])
    /\ runways' = [runways EXCEPT ![r].active = FALSE]
    /\ NoHitch /\ UNCHANGED <<store, wanted, order, cursor, local, playing, reading>>

-----------------------------------------------------------------------------
(* run_runway.                                                               *)

(* learn_order.                                                              *)
Learned == IF order # "unknown" \/ Index \notin store THEN order
           ELSE IF Order = <<>> THEN "absent" ELSE "known"
Cursor == IF Learned # order /\ Learned = "known"
          THEN IF wanted \in Range(Order) THEN Rank(wanted) ELSE 1
          ELSE cursor

(* Mutant: what another runway is fetching is fetched too.                   *)
WantedByAll(b, r) == b >= local /\ b \notin store
WantedHere(b, r) == b >= local /\ b \notin store /\ Claimants(b) \subseteq {r}

Ordered(r) ==
    LET places == {n \in Cursor .. Len(Order) : Learned = "known" /\ WantedHere(Order[n], r)}
    IN  IF places = {} THEN Total ELSE Order[Min(places)]

Onward(r) ==
    LET ahead == FirstMissing(runways[r].next)
        start == IF ahead = Total THEN FirstMissing(0) ELSE ahead
    IN  IF Lanes(start) \cup Claimants(start) \subseteq {r} THEN start ELSE Total

(* fetch: as far as nobody has or fetches the blocks.                        *)
Fetches(r, w, start) ==
    LET ends == {n \in start + 1 .. Total : n <= start + RequestBlocks
                    /\ \A b \in start + 1 .. n - 1 : WantedHere(b, r)}
    IN  [w EXCEPT !.at = "fetch", !.next = start, !.until = Max(ends)]

Plan(r) ==
    LET w == runways[r]
        onward == Onward(r)
        ordered == Ordered(r)
        stops == onward = Total /\ ordered = Total
        waits == ~stops /\ Yields(r)
        fills == ~stops /\ ~waits /\ ~Urgent(w) /\ ordered # Total
    IN  /\ w # NoRunway /\ w.at = "plan"
        /\ order' = Learned /\ cursor' = Cursor
        /\ \/ stops /\ runways' = [runways EXCEPT ![r].at = "stop"]
           \/ waits /\ UNCHANGED runways
           \/ fills /\ runways' = [runways EXCEPT ![r] =
                 Fetches(r, [w EXCEPT !.filling = TRUE, !.from = ordered, !.read = ordered], ordered)]
           \/ ~stops /\ ~waits /\ ~fills
              /\ runways' = [runways EXCEPT ![r] =
                    IF onward = Total THEN [w EXCEPT !.at = "stop"] ELSE Fetches(r, w, onward)]
        /\ NoHitch /\ UNCHANGED <<store, wanted, local, playing, reading>>

Deliver(r) ==
    LET w == runways[r]
    IN  /\ w # NoRunway /\ w.at = "fetch"
        /\ store' = store \cup {w.next}
        /\ runways' = [runways EXCEPT ![r] =
              [w EXCEPT !.next = @ + 1, !.at = IF w.next + 1 = w.until THEN "plan" ELSE @]]
        /\ NoHitch /\ UNCHANGED <<wanted, order, cursor, local, playing, reading>>

(* A request that failed is planned again; one that was refused ends it.     *)
Interrupted(r) ==
    /\ runways[r] # NoRunway /\ runways[r].at = "fetch" /\ Hitch
    /\ \/ runways' = [runways EXCEPT ![r].at = "plan"]
       \/ runways' = [runways EXCEPT ![r] = NoRunway]
    /\ UNCHANGED <<store, wanted, order, cursor, local, playing, reading>>

Stop(r) ==
    /\ runways[r] # NoRunway /\ runways[r].at = "stop"
    /\ runways' = [runways EXCEPT ![r] = NoRunway]
    /\ NoHitch /\ UNCHANGED <<store, wanted, order, cursor, local, playing, reading>>

(* The session ends: with its window, its share or the node, or for another.  *)
(* Its runways are aborted; a read under way goes on, with runways of its own. *)
CloseSession ==
    /\ playing /\ playing' = FALSE /\ Hitch
    /\ runways' = [r \in Runways |-> NoRunway]
    /\ UNCHANGED <<store, wanted, order, cursor, local, reading>>

(* A download to the library goes on, or is cancelled.                       *)
LocalChanges ==
    /\ Hitch
    /\ local' \in {local + 1, 0} \cap 0 .. Total
    /\ UNCHANGED <<cache, playing, reading>>

-----------------------------------------------------------------------------
Round(i) == Wait(i) \/ Arrive(i)
Run(r) == Plan(r) \/ Deliver(r) \/ Stop(r)
StreamsNext ==
    \/ \E i \in Readers : Round(i) \/ GiveUpRead(i) \/ \E b \in Blocks : ReadAt(i, b)
    \/ \E r \in Runways : Run(r) \/ Interrupted(r) \/ Expire(r)
    \/ LocalChanges \/ CloseSession

StreamsSpec == StreamsInit /\ [][StreamsNext]_streamsVars
StreamsFairness ==
    /\ \A i \in Readers : WF_streamsVars(Wait(i)) /\ WF_streamsVars(Arrive(i))
    /\ \A r \in Runways : WF_streamsVars(Run(r)) /\ WF_streamsVars(Expire(r))
StreamsFairSpec == StreamsSpec /\ StreamsFairness

-----------------------------------------------------------------------------
(* The requests under way never ask for the same block twice, whatever       *)
(* runways start, jump ahead, merge and fail: the upload of the friend is    *)
(* the bottleneck.                                                           *)
NothingFetchedTwice == \A b \in Blocks : Cardinality(Claimants(b)) <= 1

(* The player gets the block it waits for, or its read is given up, although *)
(* runways wait for each other and stop where they meet; unless a download   *)
(* to the library has overtaken a read.                                      *)
ReadersServed ==
    \A i \in Readers : i \in Waiting ~> i \notin Waiting \/ \E k \in Waiting : reading[k] < local
=============================================================================
