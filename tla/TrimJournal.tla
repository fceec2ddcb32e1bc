---------------------------- MODULE TrimJournal ----------------------------
(***************************************************************************)
(* Trimming a clip in place (src/src-tauri/src/media/trim): the kept       *)
(* samples slide down over the removed ones, block by block, then the      *)
(* index and the media header are rewritten and the file is cut.  A journal *)
(* that is flushed before the clip changes lets an interrupted trim be     *)
(* finished later.                                                         *)
(*                                                                         *)
(* A cell is a sample; cell 0 is the media box's header, and the index     *)
(* takes one cell after the media.  What was written but not flushed when   *)
(* the machine stops is on disk cell by cell or not at all; a progress slot *)
(* may be torn.  A step flushes what the step before wrote: a stop between  *)
(* the flush and the next write is one right after that write.  A journal   *)
(* that was deleted stays so.                                              *)
(***************************************************************************)
EXTENDS Naturals, FiniteSets

CONSTANTS
    NSamples,    \* samples of the clip as it was recorded
    BlockLen,    \* layout.rs BLOCK_BYTES, in cells
    MaxTrims, MaxFaults, MaxCrashes     \* bounds

ASSUME TrimAssumption ==
    /\ NSamples \in Nat \ {0} /\ BlockLen \in Nat \ {0}
    /\ MaxTrims \in Nat /\ MaxFaults \in Nat /\ MaxCrashes \in Nat

Samples == 1 .. NSamples
Cells == 1 .. NSamples + 1
Trims == 1 .. MaxTrims
Done == NSamples + 1       \* Progress.next_block past the last block

VARIABLES
    clip,       \* the clip as it is read
    disk,       \* the clip as it was last flushed
    journal,    \* each trim's journal as it is read
    synced,     \* each trim's journal as it was last flushed
    keep,       \* each trim's plan: where the samples it keeps were
    lists,      \* each trim's plan: the samples its index lists
    up,         \* Clipture runs, its launch's finish_interrupted is over
    pc,         \* what the trimmer is doing
    job,        \* the trim it is working on
    at,         \* the cells of the current block that are written
    todo,       \* journals finish_locked has yet to look at
    want,       \* it does so for a trim that is to follow
    fresh,      \* that trim has a retry left
    alone,      \* history: no trim was planned while another was unfinished
    flushed,    \* history: no flush of a journal failed
    trims, faults, crashes

trimmer == <<job, todo, want, fresh>>
plans == <<keep, lists>>
history == <<alone, flushed>>
counters == <<trims, faults, crashes>>
vars == <<clip, disk, journal, synced, plans, up, pc, at, trimmer, history, counters>>

(* Progress: the block at hand is named by its first cell.                   *)
Torn == [seq |-> 0, next |-> 0, staged |-> FALSE]
NoJournal == [there |-> FALSE, header |-> FALSE, plan |-> FALSE,
              slots |-> [s \in 0 .. 1 |-> Torn], staging |-> [i \in 1 .. BlockLen |-> 0]]

Original == [head |-> NSamples, len |-> NSamples + 2,
             cells |-> [c \in Cells |-> IF c \in Samples THEN c ELSE 0],
             index |-> [c \in Cells |-> IF c = NSamples + 1 THEN Samples ELSE {}]]

Init ==
    /\ clip = Original /\ disk = Original
    /\ journal = [t \in Trims |-> NoJournal] /\ synced = journal
    /\ keep = [t \in Trims |-> {}] /\ lists = [t \in Trims |-> {}]
    /\ up = FALSE /\ pc = "idle" /\ job = 0 /\ at = 0
    /\ todo = {} /\ want = FALSE /\ fresh = FALSE /\ alone = TRUE /\ flushed = TRUE
    /\ trims = 0 /\ faults = 0 /\ crashes = 0

-----------------------------------------------------------------------------
(* The plan (layout.rs).                                                     *)

(* slide_down: a kept sample goes to the first cell after those kept before. *)
Dst(K, c) == Cardinality({k \in K : k <= c})

(* The cells of a run are next to each other before and after; a run that    *)
(* stays where it is has no blocks.                                          *)
RunStart(K, c) == CHOOSE s \in 1 .. c : s .. c \subseteq K /\ s - 1 \notin K
BlockStarts(K) == {c \in K : Dst(K, c) # c /\ (c - RunStart(K, c)) % BlockLen = 0}
NextBlock(K, c) ==
    IF \A b \in BlockStarts(K) : b <= c THEN Done
    ELSE CHOOSE b \in BlockStarts(K) : b > c /\ \A d \in BlockStarts(K) : d > c => b <= d
Block(K, b) == {c \in K : /\ b <= c /\ c < b + BlockLen /\ b .. c \subseteq K}
Size(K, b) == Cardinality(Block(K, b))

(* Whether the block lands on cells of its own source.                       *)
Overlaps(K, b) == b < Dst(K, b) + Size(K, b)

-----------------------------------------------------------------------------
(* The journal (journal.rs).                                                 *)

Committed(j) == j.there /\ j.header /\ j.plan
Valid(j) == {s \in 0 .. 1 : j.slots[s] # Torn}
Latest(j) ==
    j.slots[CHOOSE s \in Valid(j) : \A r \in Valid(j) : j.slots[r].seq <= j.slots[s].seq]

J == journal[job]
K == keep[job]
Progress == Latest(J)

(* write_slot, in the slot the previous record did not use.                  *)
Slot(j, next, staged) ==
    LET seq == Latest(j).seq + 1
    IN  [j EXCEPT !.slots[seq % 2] = [seq |-> seq, next |-> next, staged |-> staged]]
Write(j) == journal' = [journal EXCEPT ![job] = j]
Flush == synced' = [synced EXCEPT ![job] = J]

(* commit: plan and first slot, flushed, then the header, flushed.           *)
WritePlan ==
    /\ pc = "plan" /\ pc' = "planned"
    /\ Write([J EXCEPT !.plan = TRUE, !.slots[1] = [seq |-> 1, next |-> NextBlock(K, 0), staged |-> FALSE]])
    /\ UNCHANGED <<clip, disk, synced, plans, up, at, trimmer, history, counters>>

WriteHeader ==
    /\ pc = "planned" /\ pc' = "committing"
    /\ Flush /\ Write([J EXCEPT !.header = TRUE])
    /\ UNCHANGED <<clip, disk, plans, up, at, trimmer, history, counters>>

Commit ==
    /\ pc = "committing" /\ pc' = "block"
    /\ Flush
    /\ UNCHANGED <<clip, disk, journal, plans, up, at, trimmer, history, counters>>

-----------------------------------------------------------------------------
(* Carrying the plan out (apply.rs, run).                                    *)

(* A block that lands on its own source is copied to the journal first.      *)
Stage ==
    /\ pc = "block" /\ Progress.next # Done /\ ~Progress.staged
    /\ Overlaps(K, Progress.next)
    /\ Write([J EXCEPT !.staging = [i \in 1 .. BlockLen |->
                  IF i <= Size(K, Progress.next) THEN clip.cells[Progress.next + i - 1] ELSE @[i]]])
    /\ pc' = "staging"
    /\ UNCHANGED <<clip, disk, synced, plans, up, at, trimmer, history, counters>>

RecordStaged ==
    /\ pc = "staging" /\ pc' = "staged"
    /\ Flush /\ Write(Slot(J, Progress.next, TRUE))
    /\ UNCHANGED <<clip, disk, plans, up, at, trimmer, history, counters>>

Staged ==
    /\ pc = "staged" /\ pc' = "moving" /\ at' = 0
    /\ Flush
    /\ UNCHANGED <<clip, disk, journal, plans, up, trimmer, history, counters>>

(* Any other block, or one that was staged before the trim was interrupted.  *)
(* Mutant: every block is moved from where it is.                            *)
BeginUnstaged ==
    /\ pc = "block" /\ Progress.next # Done
    /\ pc' = "moving" /\ at' = 0
    /\ UNCHANGED <<clip, disk, journal, synced, plans, up, trimmer, history, counters>>
BeginMove ==
    /\ pc = "block" /\ Progress.next # Done
    /\ Progress.staged \/ ~Overlaps(K, Progress.next)
    /\ pc' = "moving" /\ at' = 0
    /\ UNCHANGED <<clip, disk, journal, synced, plans, up, trimmer, history, counters>>

MoveCell ==
    /\ pc = "moving" /\ at < Size(K, Progress.next)
    /\ LET b == Progress.next
           cell == Dst(K, b) + at
           sample == IF Progress.staged THEN J.staging[at + 1] ELSE clip.cells[b + at]
       IN  clip' = [clip EXCEPT !.cells[cell] = sample, !.index[cell] = {}]
    /\ at' = at + 1
    /\ UNCHANGED <<disk, journal, synced, plans, up, pc, trimmer, history, counters>>

RecordMoved ==
    /\ pc = "moving" /\ at = Size(K, Progress.next) /\ pc' = "recording"
    /\ disk' = clip
    /\ Write(Slot(J, NextBlock(K, Progress.next), FALSE))
    /\ UNCHANGED <<clip, synced, plans, up, at, trimmer, history, counters>>

Recorded ==
    /\ pc = "recording" /\ pc' = "block"
    /\ Flush
    /\ UNCHANGED <<clip, disk, journal, plans, up, at, trimmer, history, counters>>

WriteIndex ==
    /\ pc = "block" /\ Progress.next = Done /\ pc' = "indexed"
    /\ clip' = [clip EXCEPT !.cells[Cardinality(K) + 1] = 0, !.index[Cardinality(K) + 1] = lists[job]]
    /\ UNCHANGED <<disk, journal, synced, plans, up, at, trimmer, history, counters>>

WriteMediaHeader ==
    /\ pc = "indexed" /\ pc' = "headed"
    /\ clip' = [clip EXCEPT !.head = Cardinality(K)]
    /\ UNCHANGED <<disk, journal, synced, plans, up, at, trimmer, history, counters>>

SetLen ==
    /\ pc = "headed" /\ pc' = "cut"
    /\ clip' = [clip EXCEPT !.len = Cardinality(K) + 2,
                    !.cells = [c \in Cells |-> IF c > Cardinality(K) + 1 THEN 0 ELSE @[c]],
                    !.index = [c \in Cells |-> IF c > Cardinality(K) + 1 THEN {} ELSE @[c]]]
    /\ UNCHANGED <<disk, journal, synced, plans, up, at, trimmer, history, counters>>

(* The flush, and the journal is removed (which may fail).                   *)
Drop(t) ==
    /\ journal' = [journal EXCEPT ![t] = NoJournal]
    /\ synced' = [synced EXCEPT ![t] = NoJournal]
(* Mutant: the clip is not flushed before its journal goes.                  *)
FinishedUnflushed ==
    /\ pc = "cut" /\ pc' = "finishing"
    /\ Drop(job) /\ fresh' = FALSE
    /\ UNCHANGED <<clip, disk, plans, up, at, job, todo, want, history, counters>>
Finished ==
    /\ pc = "cut" /\ pc' = "finishing"
    /\ disk' = clip
    /\ \/ Drop(job) /\ UNCHANGED faults
       \/ faults < MaxFaults /\ faults' = faults + 1 /\ UNCHANGED <<journal, synced>>
    /\ fresh' = FALSE
    /\ UNCHANGED <<clip, plans, up, at, job, todo, want, history, trims, crashes>>

(* Before its next step the trimmer flushes the journal.                     *)
ToFlush == {"planned", "committing", "staging", "staged", "recording"}

(* A read, a write or a flush fails, or the clip stays in use.  Before the   *)
(* commit the journal is removed (which may fail); a trim is then tried once *)
(* more from its journal; anything else is left for later.                   *)
Fail ==
    /\ pc \notin {"idle", "finishing"}
    /\ faults < MaxFaults /\ faults' = faults + 1
    /\ \/ pc \in {"plan", "planned", "committing"} /\ Drop(job) /\ UNCHANGED flushed
       \/ pc \notin ToFlush /\ UNCHANGED <<journal, synced, flushed>>
       \/ pc \in ToFlush \ {"committing"} /\ Flush /\ UNCHANGED <<journal, flushed>>
       \/ pc \in ToFlush /\ flushed' = FALSE /\ UNCHANGED <<journal, synced>>
    /\ pc' = IF fresh /\ pc \notin {"plan", "planned", "committing"} THEN "reading" ELSE "finishing"
    /\ fresh' = FALSE
    /\ UNCHANGED <<clip, disk, plans, up, at, job, todo, want, alone, trims, crashes>>

-----------------------------------------------------------------------------
(* The trimmer (mod.rs).  One trim or recovery at a time.                    *)
Left == {t \in Trims : journal[t].there}

(* finish_interrupted, at launch.  Mutant: it is left to the next trim.      *)
StartAtOnce ==
    /\ ~up /\ pc = "idle"
    /\ up' = TRUE
    /\ UNCHANGED <<clip, disk, journal, synced, plans, pc, at, trimmer, history, counters>>
Start ==
    /\ ~up /\ pc = "idle"
    /\ up' = TRUE /\ pc' = "finishing" /\ todo' = Left /\ want' = FALSE
    /\ UNCHANGED <<clip, disk, journal, synced, plans, at, job, fresh, history, counters>>

(* trim begins with finish_locked.                                           *)
Trim ==
    /\ up /\ pc = "idle" /\ trims < MaxTrims
    /\ pc' = "finishing" /\ todo' = Left /\ want' = TRUE
    /\ UNCHANGED <<clip, disk, journal, synced, plans, up, at, job, fresh, history, counters>>

FinishNext ==
    /\ pc = "finishing"
    /\ \E t \in todo : job' = t /\ todo' = todo \ {t}
    /\ pc' = "reading"
    /\ UNCHANGED <<clip, disk, journal, synced, plans, up, at, want, fresh, history, counters>>

(* finish_journal: a journal that was never committed is discarded.          *)
Read ==
    /\ pc = "reading"
    /\ IF Committed(J) THEN pc' = IF Valid(J) = {} THEN "finishing" ELSE "block"
                       ELSE pc' = "finishing"
    /\ IF Committed(J) THEN UNCHANGED <<journal, synced>> ELSE Drop(job)
    /\ UNCHANGED <<clip, disk, plans, up, at, trimmer, history, counters>>

Rest ==
    /\ pc = "finishing" /\ todo = {} /\ ~want
    /\ pc' = "idle"
    /\ UNCHANGED <<clip, disk, journal, synced, plans, up, at, trimmer, history, counters>>

(* plan_for, from the index the media header leads to.  (An index cell holds *)
(* which samples the clip has, in order from cell 1.)                        *)
Listed == clip.index[clip.head + 1]
Plan ==
    /\ pc = "finishing" /\ todo = {} /\ want
    /\ want' = FALSE
    /\ IF Listed # {}
       THEN \E P \in (SUBSET (1 .. clip.head)) \ {{}} :
               LET t == trims + 1
               IN  /\ trims' = t /\ job' = t /\ fresh' = TRUE
                   /\ keep' = [keep EXCEPT ![t] = P]
                   /\ lists' = [lists EXCEPT ![t] = {x \in Listed : Dst(Listed, x) \in P}]
                   /\ journal' = [journal EXCEPT ![t] = [NoJournal EXCEPT !.there = TRUE]]
                   /\ alone' = (alone /\ Left = {})
                   /\ pc' = "plan"
       ELSE pc' = "idle" /\ UNCHANGED <<trims, job, fresh, plans, journal, alone>>
    /\ UNCHANGED <<clip, disk, synced, up, at, todo, flushed, faults, crashes>>

-----------------------------------------------------------------------------
(* The machine stops, or Clipture is ended (all that was written is then on  *)
(* disk).  Each cell and each record is as written or as last flushed.       *)
Stop ==
    /\ up' = FALSE /\ pc' = "idle" /\ todo' = {} /\ want' = FALSE /\ fresh' = FALSE
    /\ at' = 0 /\ job' = 0
Crash ==
    /\ up /\ crashes < MaxCrashes /\ crashes' = crashes + 1
    /\ Stop
    /\ \E W \in SUBSET {c \in Cells : clip.cells[c] # disk.cells[c] \/ clip.index[c] # disk.index[c]},
          head \in {clip.head, disk.head}, len \in {clip.len, disk.len} :
          clip' = [head |-> head, len |-> len,
                   cells |-> [c \in Cells |-> IF c \in W THEN clip.cells[c] ELSE disk.cells[c]],
                   index |-> [c \in Cells |-> IF c \in W THEN clip.index[c] ELSE disk.index[c]]]
    /\ disk' = clip'
    /\ IF job = 0 THEN UNCHANGED journal
       ELSE \E kept \in {J, synced[job]} :
              \/ Write(kept)
              \/ /\ J.slots # synced[job].slots
                 /\ Write([J EXCEPT !.slots = [s \in 0 .. 1 |->
                        IF J.slots[s] # synced[job].slots[s] THEN Torn ELSE J.slots[s]]])
              \/ /\ J.plan # synced[job].plan      \* and the slot, but no plan
                 /\ Write([synced[job] EXCEPT !.there = TRUE, !.slots = J.slots])
    /\ synced' = journal'
    /\ UNCHANGED <<plans, history, trims, faults>>

Quit ==
    /\ up /\ pc = "idle"
    /\ Stop
    /\ UNCHANGED <<clip, disk, journal, synced, plans, history, counters>>

Begin == WritePlan \/ WriteHeader \/ Commit
Run == \/ Stage \/ RecordStaged \/ Staged \/ BeginMove \/ MoveCell \/ RecordMoved \/ Recorded
       \/ WriteIndex \/ WriteMediaHeader \/ SetLen \/ Finished
Trimmer == Start \/ FinishNext \/ Read \/ Rest \/ Plan

Next == Begin \/ Run \/ Trimmer \/ Trim \/ Fail \/ Crash \/ Quit

Spec == Init /\ [][Next]_vars

(* What was begun goes on, and Clipture is started again and again.          *)
Fairness == WF_vars(Begin \/ Run \/ Trimmer) /\ WF_vars(Quit)
FairSpec == Spec /\ Fairness

-----------------------------------------------------------------------------

(* A clip that plays: the index the media header leads to ends the file and  *)
(* lists what the media holds, in order.                                     *)
Plays(c) ==
    LET S == c.index[c.head + 1]
    IN  /\ S # {} /\ Cardinality(S) = c.head
        /\ c.len = c.head + 2
        /\ \A x \in S : c.cells[Dst(S, x)] = x

(* Trims that end one before the next, and whose flushes work.               *)
Orderly == alone /\ flushed

(* No clip is left broken: without a committed journal it plays, whatever    *)
(* was on the way to the disk when the trim was interrupted.                 *)
Pending == {t \in Trims : Committed(journal[t]) \/ Committed(synced[t])}
BrokenIsJournaled == Orderly /\ Pending = {} => Plays(clip) /\ Plays(disk)

(* While a trim is under way, every kept sample can still be had, as written *)
(* and as flushed: the blocks before the recorded progress are in place, the *)
(* later ones are where they were, and the one at hand is one or the other   *)
(* or, if it was staged, in the journal.                                     *)
SampleAt(t, c) == CHOOSE x \in lists[t] : Dst(lists[t], x) = Dst(keep[t], c)
Holds(t, k, c, cell) == k.cells[cell] = SampleAt(t, c)
InPlace(t, k, c) == Holds(t, k, c, Dst(keep[t], c))
Recoverable(t, j, k) ==
    LET P == keep[t]
        next == Latest(j).next
    IN  \A c \in P :
            IF Dst(P, c) = c \/ c < next THEN InPlace(t, k, c)
            ELSE IF Latest(j).staged /\ c \in Block(P, next)
                 THEN j.staging[c - next + 1] = SampleAt(t, c)
                 ELSE Holds(t, k, c, c)
KeptSamplesSurvive ==
    Orderly => \A t \in Pending : \A j \in {journal[t], synced[t]} : \A k \in {clip, disk} :
                 Committed(j) => Valid(j) # {} /\ Recoverable(t, j, k)

(* mod.rs:7-9: "an interrupted trim (crash, power loss) is completed from    *)
(* the journal the next time Clipture starts".                               *)
InterruptedFinish == Orderly /\ Pending # {} ~> (Pending = {} /\ Plays(clip)) \/ ~Orderly
=============================================================================
