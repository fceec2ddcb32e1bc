----------------------------- MODULE MixJournal -----------------------------
(***************************************************************************)
(* Changing the levels of a clip's audio in place (src/src-tauri/src/media/    *)
(* mix): the new packets of a track go into the old ones' slots and, if they   *)
(* do not fit, after the media; then comes the new index.  All that is to be   *)
(* written is journaled first, so that an interrupted mix is finished by       *)
(* writing it again.                                                        *)
(*                                                                         *)
(* One clip with one track of video and one of audio.  A cell is a packet; cell*)
(* 0 is the media box's header, and the index takes one cell after the media.  *)
(* An index says what it finds in which cell.  Mixes are numbered, and so is   *)
(* the audio they make.  What was written but not flushed when the machine     *)
(* stops is on disk cell by cell or not at all.  Trims (TrimJournal) are one   *)
(* step here.                                                               *)
(***************************************************************************)
EXTENDS Naturals, FiniteSets, FiniteSetsExt

CONSTANTS
    NPackets,    \* packets of the clip as it was recorded
    MaxMixes, MaxTrims, MaxFaults, MaxCrashes     \* bounds

ASSUME MixAssumption ==
    NPackets \in Nat \ {0} /\ {MaxMixes, MaxTrims, MaxFaults, MaxCrashes} \subseteq Nat

VARIABLES
    clip,       \* the clip as it is read
    disk,       \* the clip as it was last flushed
    journal,    \* how far each mix's journal is
    plan,       \* what each mix's journal holds
    up,         \* Clipture runs
    pc,         \* what the mixer is doing
    job,        \* the mix it is working on
    seen,       \* the clip's index and length before the audio is encoded
    todo,       \* journals finish_locked has yet to look at
    want,       \* it does so for a mix that is to follow
    fresh,      \* that mix has a retry left
    alone,      \* history: nothing was begun on the clip while a mix was unfinished
    flushed,    \* history: no flush of a journal failed
    mixes, trims, faults, crashes

mixer == <<job, seen, todo, want, fresh>>
history == <<alone, flushed>>
mixVars == <<clip, disk, journal, plan, up, pc, mixer, history, mixes, trims, faults, crashes>>

Mixes == 1 .. MaxMixes
Cells == 1 .. NPackets + MaxMixes + 1
Zero == <<"zero", 0, 0>>
Video(k) == <<"video", 0, k>>
Audio(m, k) == <<"audio", m, k>>
NoIndex == <<>>

(* The clip as it was recorded: video and audio by turns.                    *)
Recorded(c) == IF c % 2 = 1 THEN Video(c) ELSE Audio(0, c)
Original ==
    [head |-> NPackets, len |-> NPackets + 2,
     cells |-> [c \in Cells |-> IF c <= NPackets THEN Recorded(c) ELSE Zero],
     index |-> [c \in Cells |->
         IF c = NPackets + 1 THEN [x \in 1 .. NPackets |-> Recorded(x)] ELSE NoIndex]]

Listed(c) == c.index[c.head + 1]

MixInit ==
    /\ clip = Original /\ disk = Original
    /\ journal = [m \in Mixes |-> "none"] /\ plan = [m \in Mixes |-> [at |-> {}]]
    /\ up = FALSE /\ pc = "idle" /\ job = 0 /\ seen = <<>>
    /\ todo = {} /\ want = FALSE /\ fresh = FALSE /\ alone = TRUE /\ flushed = TRUE
    /\ mixes = 0 /\ trims = 0 /\ faults = 0 /\ crashes = 0

Fault == faults < MaxFaults /\ faults' = faults + 1
Counted == UNCHANGED <<mixes, trims, crashes>>
Left == {m \in Mixes : journal[m] # "none"}
Committed(m) == journal[m] \in {"header", "committed"}
Unfinished == {m \in Mixes : Committed(m)}
Written(m, state) == journal' = [journal EXCEPT ![m] = state]

-----------------------------------------------------------------------------
(* The plan (plan.rs), of mix m with n new packets for the clip c.           *)
AudioCells(c) == {x \in DOMAIN Listed(c) : Listed(c)[x][1] = "audio"}

(* The new packet a cell takes: they fill the slots in order, and the rest   *)
(* follows the media.                                                       *)
Packet(c, x) ==
    LET slots == AudioCells(c)
    IN  IF x \in slots THEN Cardinality({y \in slots : y <= x}) ELSE Cardinality(slots) + (x - c.head)

(* Every slot is written anew, what the packets leave of it as zeros.        *)
(* Mutant: what they leave is left.                                         *)
SlotsTaken(c, n) == {x \in AudioCells(c) \cup c.head + 1 .. c.head + n : Packet(c, x) <= n}
SlotsWritten(c, n) == AudioCells(c) \cup SlotsTaken(c, n)

PlanOf(c, m, n) ==
    LET heard == SlotsTaken(c, n)
        shown == DOMAIN Listed(c) \ AudioCells(c)
        head == Max({c.head} \cup heard)
    IN  [at |-> SlotsWritten(c, n) \cup {head + 1},
         cells |-> [x \in SlotsWritten(c, n) \cup {head + 1} |->
             IF x \in heard THEN Audio(m, Packet(c, x)) ELSE Zero],
         index |-> [x \in heard \cup shown |->
             IF x \in heard THEN Audio(m, Packet(c, x)) ELSE Listed(c)[x]],
         head |-> head, moves |-> head # c.head]

-----------------------------------------------------------------------------
(* Carrying a plan out (mod.rs, apply): plain data, over what is there.      *)

(* The cells W of it written, of a file of that length and media header.     *)
Over(c, p, W, head, len) ==
    [head |-> head, len |-> len,
     cells |-> [x \in Cells |-> IF x \in W THEN p.cells[x] ELSE IF x < len THEN c.cells[x] ELSE Zero],
     index |-> [x \in Cells |-> IF x < len
                                THEN (IF x \notin W THEN c.index[x]
                                      ELSE IF x = p.head + 1 THEN p.index ELSE NoIndex)
                                ELSE NoIndex]]

NewHead(c, p) == IF p.moves THEN p.head ELSE c.head
Whole(c, p) == Over(c, p, p.at, NewHead(c, p), p.head + 2)
Parts(c, p) ==
    {Over(c, p, W, head, Max({c.len, p.head + 2})) : W \in SUBSET p.at, head \in {c.head, NewHead(c, p)}}

Apply ==
    /\ pc = "apply" /\ pc' = "sync"
    /\ clip' = Whole(clip, plan[job])
    /\ UNCHANGED <<disk, journal, plan, up, mixer, history, faults>> /\ Counted

(* A write fails: the disk is full.  A mix is tried once more from its        *)
(* journal; what was interrupted before is left for later.                   *)
ApplyFails ==
    /\ pc = "apply" /\ Fault
    /\ clip' \in Parts(clip, plan[job])
    /\ pc' = (IF fresh THEN "reading" ELSE "finishing") /\ fresh' = FALSE
    /\ UNCHANGED <<disk, journal, plan, up, job, seen, todo, want, history>> /\ Counted

(* The flush, and the journal is removed (which may fail).                   *)
Finished ==
    /\ pc = "sync" /\ pc' = "finishing" /\ fresh' = FALSE
    /\ disk' = clip
    /\ \/ Written(job, "none") /\ UNCHANGED faults
       \/ Fault /\ UNCHANGED journal
    /\ UNCHANGED <<clip, plan, up, job, seen, todo, want, history>> /\ Counted

FlushFails ==
    /\ pc = "sync" /\ Fault
    /\ pc' = (IF fresh THEN "reading" ELSE "finishing") /\ fresh' = FALSE
    /\ UNCHANGED <<clip, disk, journal, plan, up, job, seen, todo, want, history>> /\ Counted

-----------------------------------------------------------------------------
(* The journal (journal.rs, commit): the body, flushed, and then its header.  *)
(* One whose body or header is not whole was never committed.                *)
WriteHeader ==
    /\ pc = "journal" /\ pc' = "header"
    /\ Written(job, "header")
    /\ UNCHANGED <<clip, disk, plan, up, mixer, history, faults>> /\ Counted

Commit ==
    /\ pc = "header" /\ pc' = "apply"
    /\ Written(job, "committed")
    /\ UNCHANGED <<clip, disk, plan, up, mixer, history, faults>> /\ Counted

CommitFails ==
    /\ pc \in {"journal", "header"} /\ pc' = "finishing" /\ Fault
    /\ Written(job, "none") \/ UNCHANGED journal
    /\ flushed' = (flushed /\ pc = "journal") /\ fresh' = FALSE
    /\ UNCHANGED <<clip, disk, plan, up, job, seen, todo, want, alone>> /\ Counted

-----------------------------------------------------------------------------
(* The mixer (mod.rs).  One mix or recovery at a time.                       *)

(* finish_interrupted, at launch.  Mutant: it is left to the next mix.       *)
StartAtOnce ==
    /\ ~up /\ up' = TRUE
    /\ UNCHANGED <<clip, disk, journal, plan, pc, mixer, history, faults>> /\ Counted

Start ==
    /\ ~up /\ up' = TRUE
    /\ pc' = "finishing" /\ todo' = Left /\ want' = FALSE
    /\ UNCHANGED <<clip, disk, journal, plan, job, seen, fresh, history, faults>> /\ Counted

(* mix begins with finish_locked.                                            *)
Mix ==
    /\ up /\ pc = "idle" /\ mixes < MaxMixes
    /\ pc' = "finishing" /\ todo' = Left /\ want' = TRUE
    /\ UNCHANGED <<clip, disk, journal, plan, up, job, seen, fresh, history, faults>> /\ Counted

FinishNext ==
    /\ pc = "finishing" /\ pc' = "reading"
    /\ \E m \in todo : job' = m /\ todo' = todo \ {m}
    /\ UNCHANGED <<clip, disk, journal, plan, up, seen, want, fresh, history, faults>> /\ Counted

(* finish_journal: one that was never committed is removed.                  *)
Read ==
    /\ pc = "reading" /\ UNCHANGED faults
    /\ IF Committed(job) THEN pc' = "apply" /\ UNCHANGED journal
       ELSE pc' = "finishing" /\ Written(job, "none")
    /\ UNCHANGED <<clip, disk, plan, up, mixer, history>> /\ Counted

(* The journal, or the clip, cannot be opened.                               *)
ReadFails ==
    /\ pc = "reading" /\ pc' = "finishing" /\ Fault
    /\ UNCHANGED <<clip, disk, journal, plan, up, mixer, history>> /\ Counted

Rest ==
    /\ pc = "finishing" /\ todo = {} /\ ~want /\ pc' = "idle"
    /\ UNCHANGED <<clip, disk, journal, plan, up, mixer, history, faults>> /\ Counted

(* read_index, while the clip is shared; then FFmpeg makes the audio.        *)
ReadIndex ==
    /\ pc = "finishing" /\ todo = {} /\ want /\ want' = FALSE
    /\ seen' = <<Listed(clip), clip.len>>
    /\ pc' = IF Listed(clip) = NoIndex THEN "idle" ELSE "encoding"
    /\ UNCHANGED <<clip, disk, journal, plan, up, job, todo, fresh, history, faults>> /\ Counted

(* The clip is opened for itself, and it is still the one that was read: the  *)
(* plan is made from the index read before.  Mutant: nobody looks.           *)
ReadyOrNot == Listed(clip) # NoIndex
Ready == seen = <<Listed(clip), clip.len>>

Planned ==
    /\ pc = "encoding" /\ Ready /\ UNCHANGED faults
    /\ LET m == mixes + 1 IN
       /\ mixes' = m /\ job' = m /\ fresh' = TRUE /\ pc' = "journal"
       /\ LET read == [clip EXCEPT !.index[clip.head + 1] = seen[1]] IN
          \E n \in 1 .. Cardinality(AudioCells(read)) + 1 :
              plan' = [plan EXCEPT ![m] = PlanOf(read, m, n)]
       /\ Written(m, "open")
       /\ alone' = (alone /\ Unfinished = {})
    /\ UNCHANGED <<clip, disk, up, seen, todo, want, flushed, trims, crashes>>

(* It changed; or the audio could not be encoded, or the clip stays in use.  *)
GivesUp ==
    /\ pc = "encoding" /\ pc' = "idle"
    /\ IF Ready THEN Fault ELSE UNCHANGED faults
    /\ UNCHANGED <<clip, disk, journal, plan, up, mixer, history>> /\ Counted

-----------------------------------------------------------------------------
(* ClipTrimmer, which has its own lock and its own journals, whenever the     *)
(* mixer does not hold the clip: a span of the clip is kept and slides down.  *)
Slid(c, first, last) ==
    LET kept == {x \in DOMAIN Listed(c) : first <= x /\ x <= last}
        to(x) == Cardinality({y \in kept : y <= x})
        head == Cardinality(kept)
        listed == [y \in 1 .. head |-> Listed(c)[CHOOSE x \in kept : to(x) = y]]
    IN  [head |-> head, len |-> head + 2,
         cells |-> [y \in Cells |->
             IF y <= head THEN c.cells[CHOOSE x \in kept : to(x) = y] ELSE Zero],
         index |-> [y \in Cells |-> IF y = head + 1 THEN listed ELSE NoIndex]]

Trim ==
    /\ up /\ pc \in {"idle", "finishing", "reading", "encoding"} /\ trims < MaxTrims
    /\ trims' = trims + 1
    /\ \E first, last \in DOMAIN Listed(clip) :
        first <= last /\ clip' = Slid(clip, first, last) /\ disk' = clip'
    /\ alone' = (alone /\ Unfinished = {})
    /\ UNCHANGED <<journal, plan, up, pc, mixer, flushed, mixes, faults, crashes>>

-----------------------------------------------------------------------------
(* The machine stops, or Clipture is ended (all that was written is then on  *)
(* disk).                                                                   *)
Stop ==
    /\ up /\ up' = FALSE /\ pc' = "idle" /\ job' = 0 /\ seen' = <<>>
    /\ todo' = {} /\ want' = FALSE /\ fresh' = FALSE

Crash ==
    /\ crashes < MaxCrashes /\ crashes' = crashes + 1 /\ Stop
    /\ \E W \in SUBSET {c \in Cells : clip.cells[c] # disk.cells[c] \/ clip.index[c] # disk.index[c]},
          head \in {clip.head, disk.head}, len \in {clip.len, disk.len} :
          clip' = [head |-> head, len |-> len,
                   cells |-> [c \in Cells |-> IF c \in W THEN clip.cells[c] ELSE disk.cells[c]],
                   index |-> [c \in Cells |-> IF c \in W THEN clip.index[c] ELSE disk.index[c]]]
    /\ disk' = clip'
    /\ \E lost \in SUBSET {m \in Mixes : journal[m] = "header"} :
          journal' = [m \in Mixes |-> IF m \in lost THEN "open"
                                      ELSE IF journal[m] = "header" THEN "committed" ELSE journal[m]]
    /\ UNCHANGED <<plan, history, mixes, trims, faults>>

Quit ==
    /\ pc = "idle" /\ Stop
    /\ UNCHANGED <<clip, disk, journal, plan, history, faults>> /\ Counted

Work ==
    \/ WriteHeader \/ Commit \/ Apply \/ Finished \/ Start \/ FinishNext \/ Read \/ Rest
    \/ ReadIndex \/ Planned \/ GivesUp
MixNext ==
    \/ Work \/ ApplyFails \/ FlushFails \/ CommitFails \/ ReadFails
    \/ Mix \/ Trim \/ Crash \/ Quit

MixSpec == MixInit /\ [][MixNext]_mixVars

(* What was begun goes on, and Clipture is started again and again.          *)
MixFairSpec == MixSpec /\ WF_mixVars(Work) /\ WF_mixVars(Quit)

-----------------------------------------------------------------------------
(* A clip that plays: the index the media header leads to ends the file, and  *)
(* finds in every cell what it lists there.                                  *)
Plays(c) ==
    /\ Listed(c) # NoIndex /\ c.len = c.head + 2
    /\ \A x \in DOMAIN Listed(c) : x <= c.head /\ c.cells[x] = Listed(c)[x]

Orderly == alone /\ flushed

(* No clip is left broken: unless a committed journal waits, it plays, and no *)
(* audio is in it but what its index lists (mod.rs: "the old audio is gone").  *)
ClipPlays == Orderly /\ Unfinished = {} => Plays(clip) /\ Plays(disk)

OldAudioIsGone ==
    Orderly /\ Unfinished = {} =>
        \A c \in {clip, disk} : \A x \in Cells :
            c.cells[x][1] = "audio" => x \in DOMAIN Listed(c)

(* mod.rs: "an interrupted mix is finished by applying the journal again the  *)
(* next time Clipture starts".                                               *)
InterruptedMixFinishes == Orderly /\ Unfinished # {} ~> Unfinished = {} \/ ~Orderly

(* journal.rs: once its header is durable, "applying the plan again always    *)
(* yields the finished mix".                                                 *)
RedoYieldsTheMix ==
    [][pc = "sync" /\ journal'[job] = "none" => Plays(clip')]_mixVars
=============================================================================
