---------------------------- MODULE PacketArena ----------------------------
(***************************************************************************)
(* The in-place media archive of the capture engine                        *)
(* (src/engine/src/replay/InPlacePacketArchive.cpp), the files it owns     *)
(* (platform/windows/InPlaceFile.cpp) and the save that turns one of them  *)
(* into a clip (replay/InPlaceMediaBuffer.cpp, the in-place branch of      *)
(* Mp4Muxer.cpp and of Engine::saveClip).                                  *)
(*                                                                         *)
(* A packet of Size[p] cells is written into the active arena and guarded   *)
(* by a lease (a `Range`).  Dropping the last reference to a lease gives   *)
(* its cells back.  A save detaches the active arena, zeroes what is free  *)
(* in it, seals it, places the selected samples and publishes the same     *)
(* file, while the spill and backfill workers go on writing to a new arena *)
(* and retention goes on dropping leases.                                  *)
(*                                                                         *)
(* Abstractions: a cell stands for a run of bytes; cell 0 is mediaStart;   *)
(* the coalesced free map is the set of free cells (its entries are the    *)
(* maximal runs of that set); sample packing and file metadata are left    *)
(* out.                                                                    *)
(***************************************************************************)
EXTENDS Integers

CONSTANTS
    NPackets,   \* packets are numbered in the order they are captured
    Size,        \* cells each packet takes
    Track,      \* the replay store (video, AAC) it belongs to
    NArenas,    \* files that exist at once, clips included (bound)
    Cap,        \* `maximum`: the arena never grows beyond it
    WrapHole,   \* wrapHoleBytes: the least room worth wrapping onto
    MaxCell,    \* cells of a file, appended samples included (bound)
    MaxSaves,   \* saves (bound)
    MaxFaults   \* failed writes and reconfigurations (bound)

Packets == 1 .. NPackets
Arenas == 1 .. NArenas
Tracks == {Track[p] : p \in Packets}
Cells == 0 .. MaxCell - 1

ASSUME PacketsAssumption == NPackets \in Nat \ {0} /\ Size \in [Packets -> Nat \ {0}]
ASSUME SpaceAssumption ==
    /\ NArenas \in Nat \ {0}
    /\ Cap \in Nat \ {0} /\ MaxCell \in Nat /\ WrapHole \in Nat
    /\ Cap <= MaxCell
    /\ MaxSaves \in Nat /\ MaxFaults \in Nat

None == 0       \* no arena
Zero == 0       \* a cell that reads as zeros

VARIABLES
    enabled,    \* Impl::enabled: Save in place is on
    active,     \* Impl::active: the arena packets are written to, or None
    free,       \* Arena::free, as a set of cells
    end,        \* Arena::end
    cursor,     \* Arena::cursor: just past the last write
    fend,       \* InPlaceFile::end_
    fstate,     \* InPlaceFile::state_ ("unborn": no such file)
    data,       \* what each cell of each file reads as
    captured,   \* packets captured so far are 1 .. captured
    loose,      \* packets the stores hold in memory or in legacy segments
    held,       \* leases the replay stores' entries hold
    due,        \* ReplaySegmentStore::rehomeQueue: packets to copy forward
    picked,     \* leases the chunk of each backfill worker is about to copy
    moving,     \* copied, not installed yet: set of <<old lease, new lease>>
    save,       \* the save in progress
    clip,       \* sample table of each finalized file
    saves, faults   \* how often a bounded action was taken

vars == <<enabled, active, free, end, cursor, fend, fstate, data, captured,
          loose, held, due, picked, moving, save, clip, saves, faults>>
spaceVars == <<free, end, cursor>>
fileVars == <<fend, fstate, data>>
counters == <<saves, faults>>
backfillVars == <<due, picked, moving>>

Lease == [pkt : Packets, arena : Arenas, at : Nat]
Slot == [at : Nat, len : Nat]
Sample == [pkt : Packets, at : Nat]     \* an entry of a sample table

FileStates == {"unborn", "appending", "sealed", "finalized", "published", "failed"}
SavePhases == {"idle", "selected", "taken", "trim", "zero", "place", "copy", "saved"}

CellsOf(l) == l.at .. l.at + Size[l.pkt] - 1
Run(at, n) == at .. at + n - 1
Cut(n) == 0 .. n - 1

Blank == [c \in Cells |-> Zero]

IdleSave == [phase |-> "idle", arena |-> None, pins |-> {}, snap |-> {},
             padding |-> {}, todo |-> {}, index |-> {}]

(* Packets the replay stores hold. *)
Retained == loose \cup {l.pkt : l \in held}

(* Leases some object still refers to; any other `Range` is destroyed. *)
Live == held \cup save.pins \cup picked \cup {m[1] : m \in moving} \cup {m[2] : m \in moving}

Init ==
    /\ enabled = TRUE
    /\ active = None
    /\ free = [a \in Arenas |-> {}]
    /\ end = [a \in Arenas |-> 0]
    /\ cursor = [a \in Arenas |-> 0]
    /\ fend = [a \in Arenas |-> 0]
    /\ fstate = [a \in Arenas |-> "unborn"]
    /\ data = [a \in Arenas |-> Blank]
    /\ captured = 0
    /\ loose = {} /\ held = {} /\ due = {} /\ picked = {} /\ moving = {}
    /\ save = IdleSave
    /\ clip = [a \in Arenas |-> {}]
    /\ saves = 0 /\ faults = 0

-----------------------------------------------------------------------------
(* Placement. *)

(* The entries of the free map: maximal runs of free cells. *)
Slots(F) ==
    {s \in [at : F, len : 1 .. Cap] :
        /\ Run(s.at, s.len) \subseteq F
        /\ s.at - 1 \notin F
        /\ s.at + s.len \notin F}

Lowest(S) == {s \in S : \A t \in S : s.at <= t.at}

(* Mutants: the size cap is forgotten; a hole one cell too small is taken. *)
PlaceUncapped(F, e, c, n) ==
    LET Ahead == {s \in Slots(F) : s.len >= n /\ s.at >= c}
    IN  IF Ahead # {} THEN {s.at : s \in Lowest(Ahead)} ELSE {e}
PlaceTight(F, e, c, n) ==
    LET Fits == {s \in Slots(F) : s.len + 1 >= n}
    IN  IF Fits # {} THEN {s.at : s \in Lowest(Fits)} ELSE IF e + n <= Cap THEN {e} ELSE {}

(* Offsets Arena::place can yield for a write of n cells: the first slot at *)
(* or after the cursor that fits, else the first one with room to wrap      *)
(* onto, else the end while the cap allows it, else any slot that fits.     *)
PlaceIn(F, e, c, n) ==
    LET Fits(need) == {s \in Slots(F) : s.len >= need}
        Ahead == {s \in Fits(n) : s.at >= c}
        Wrap == Fits(IF n > WrapHole THEN n ELSE WrapHole)
        Offsets(S) == {s.at : s \in Lowest(S)}
    IN  IF Ahead # {} THEN Offsets(Ahead)
        ELSE IF Wrap # {} THEN Offsets(Wrap)
        ELSE IF e + n <= Cap THEN {e}
        ELSE Offsets(Fits(n))

Place(a, n) == PlaceIn(free[a], end[a], cursor[a], n)

(* Cells the leases of L guard in an arena. *)
Leased(a, L) == UNION {CellsOf(l) : l \in {m \in L : m.arena = a}}

Referenced(a) == active = a \/ save.arena = a \/ \E l \in Live : l.arena = a

(* What an action that lets go of references ends with.  Arena::release      *)
(* returns the cells of each lease that is gone; an arena nothing refers to  *)
(* is gone itself, and so is its file unless it was published.  (A file the  *)
(* failed save it was taken for left behind stays on disk, but nothing reads *)
(* it again.)                                                               *)
DropReferences(state) ==
    LET Kept(a) == Referenced(a)' \/ state[a] = "published"
    IN  /\ free' = [a \in Arenas |->
                       IF Referenced(a)' THEN free[a] \cup Leased(a, Live \ Live') ELSE {}]
        /\ end' = [a \in Arenas |-> IF Referenced(a)' THEN end[a] ELSE 0]
        /\ cursor' = [a \in Arenas |-> IF Referenced(a)' THEN cursor[a] ELSE 0]
        /\ fstate' = [a \in Arenas |-> IF Kept(a) THEN state[a] ELSE "unborn"]
        /\ fend' = [a \in Arenas |-> IF Kept(a) THEN fend[a] ELSE 0]
        /\ data' = [a \in Arenas |-> IF Kept(a) THEN data[a] ELSE Blank]

-----------------------------------------------------------------------------
(* Files the archive owns. *)

Unborn == {a \in Arenas : fstate[a] = "unborn"}

(* Impl::ensureActive: a new file joins the archive when none is active. *)
EnsureActive(a) ==
    /\ enabled
    /\ IF active # None THEN a = active /\ fstate' = fstate
       ELSE /\ a \in Unborn /\ \A b \in Unborn : a <= b
            /\ fstate' = [fstate EXCEPT ![a] = "appending"]

(* InPlaceFile::writeSlot and the bookkeeping of Arena::writeRun after it. *)
WriteRun(a, at, n, bytes) ==
    /\ data' = [data EXCEPT ![a] = [c \in Cells |-> IF c \in Run(at, n) THEN bytes[c] ELSE @[c]]]
    /\ fend' = [fend EXCEPT ![a] = IF at + n > @ THEN at + n ELSE @]
    /\ end' = [end EXCEPT ![a] = IF at + n > @ THEN at + n ELSE @]
    /\ cursor' = [cursor EXCEPT ![a] = at + n]

(* Capture hands the stores one more packet. *)
Capture ==
    /\ captured < NPackets
    /\ captured' = captured + 1
    /\ loose' = loose \cup {captured + 1}
    /\ UNCHANGED <<enabled, active, spaceVars, fileVars, held, backfillVars, save, clip, counters>>

(* A store hands its packets to its spill worker in order. *)
NextToPersist(p) ==
    p \in loose /\ \A l \in held : Track[l.pkt] = Track[p] => l.pkt < p

(* InPlacePacketArchive::persist from a spill worker: the packet leaves     *)
(* memory for the arena.  Without an arena, or without room in it, it stays  *)
(* where it is.                                                             *)
Persist(p) ==
    /\ NextToPersist(p)
    /\ \E a \in Arenas :
        /\ EnsureActive(a)
        /\ active' = a
        /\ IF fstate'[a] = "appending" /\ Place(a, Size[p]) # {}
           THEN \E at \in Place(a, Size[p]) :
                 /\ WriteRun(a, at, Size[p], [c \in Cells |-> p])
                 /\ free' = [free EXCEPT ![a] = @ \ Run(at, Size[p])]
                 /\ held' = held \cup {[pkt |-> p, arena |-> a, at |-> at]}
                 /\ loose' = loose \ {p}
           ELSE UNCHANGED <<spaceVars, data, fend, held, loose>>
    /\ UNCHANGED <<enabled, captured, backfillVars, save, clip, counters>>

(* A write error: some of the bytes reached unleased cells, the file takes  *)
(* no more writes, and the packet stays in memory.                          *)
PersistFails(p) ==
    /\ faults < MaxFaults /\ faults' = faults + 1
    /\ NextToPersist(p)
    /\ active # None /\ enabled
    /\ fstate[active] = "appending"
    /\ \E at \in Place(active, Size[p]) :
         data' = [data EXCEPT ![active] =
                    [c \in Cells |-> IF c \in Run(at, Size[p]) THEN p ELSE @[c]]]
    /\ fstate' = [fstate EXCEPT ![active] = "failed"]
    /\ UNCHANGED <<enabled, active, spaceVars, fend, captured, loose, held,
                   backfillVars, save, clip, saves>>

(* Retention or the consumption of a saved window drops the oldest packet   *)
(* of a store; its place in the backfill queue goes with it.                *)
Expire(p) ==
    /\ p \in Retained
    /\ \A q \in Retained : Track[q] = Track[p] => p <= q
    /\ loose' = loose \ {p}
    /\ held' = {l \in held : l.pkt # p}
    /\ due' = due \ {p}
    /\ UNCHANGED <<enabled, active, captured, picked, moving, save, clip, counters>>
    /\ DropReferences(fstate)

(* InPlacePacketArchive::configure with another folder, cap or switch: the  *)
(* active arena is let go without a save.                                   *)
Reconfigure ==
    /\ faults < MaxFaults /\ faults' = faults + 1
    /\ save.phase = "idle"
    /\ enabled' \in BOOLEAN
    /\ active # None \/ enabled' # enabled
    /\ active' = None
    /\ UNCHANGED <<captured, loose, held, backfillVars, save, clip, saves>>
    /\ DropReferences(fstate)

-----------------------------------------------------------------------------
(* Backfill: copying leases back from a detached file. *)

(* InPlacePacketArchive::isDetached. *)
IsDetached(l) == enabled /\ l.arena # active

(* How a chunk of leases is laid out in one run of n cells: back to back in *)
(* presentation order.                                                      *)
Layouts(S, at, n) ==
    {off \in [S -> Run(at, n)] :
        /\ UNION {Run(off[l], Size[l.pkt]) : l \in S} = Run(at, n)
        /\ \A l, m \in S :
            l # m => IF l.pkt < m.pkt THEN off[l] + Size[l.pkt] <= off[m]
                                      ELSE off[m] + Size[m.pkt] <= off[l]}

(* What the joined buffer holds at each cell of that run. *)
Copied(S, off) ==
    [c \in Cells |->
        LET L == {l \in S : c \in Run(off[l], Size[l.pkt])}
            l == CHOOSE m \in L : TRUE
        IN  IF L = {} THEN Zero ELSE data[l.arena][l.at + (c - off[l])]]

(* ReplaySegmentStore::run takes a chunk off the front of a store's queue    *)
(* (newest packets first, one run of queued packets at a time) and           *)
(* rehomeChunk copies its entries; those retired by now, or no longer in a   *)
(* detached file, drop out.  Each store has a worker of its own, with one    *)
(* chunk at a time.                                                         *)
Picked(t) == {l \in picked : Track[l.pkt] = t}
Moving(t) == {m \in moving : Track[m[1].pkt] = t}

RehomePick(t, lo, hi) ==
    LET chunk == {p \in due : Track[p] = t /\ p \in lo .. hi}
    IN  /\ Picked(t) = {} /\ Moving(t) = {}
        /\ {lo, hi} \subseteq chunk
        /\ picked' = picked \cup {l \in held : l.pkt \in chunk /\ IsDetached(l)}
        /\ due' = due \ chunk
        /\ UNCHANGED <<enabled, active, spaceVars, fileVars, captured, loose, held, moving, save, clip, counters>>

(* InPlacePacketArchive::rehome: reads the leased bytes, then writes them   *)
(* as one run of the active arena.  The stores' entries still hold the old  *)
(* leases; both ends stay pinned until InstallMoved.                        *)
RehomeWrite(t) ==
    /\ Picked(t) # {}
    /\ \E a \in Arenas, n \in 1 .. Cap :
        /\ EnsureActive(a)
        /\ active' = a
        /\ fstate'[a] = "appending"
        /\ \E at \in Place(a, n) : \E off \in Layouts(Picked(t), at, n) :
            /\ WriteRun(a, at, n, Copied(Picked(t), off))
            /\ free' = [free EXCEPT ![a] = @ \ Run(at, n)]
            /\ moving' = moving \cup
                  {<<l, [pkt |-> l.pkt, arena |-> a, at |-> off[l]]>> : l \in Picked(t)}
    /\ picked' = picked \ Picked(t)
    /\ UNCHANGED <<enabled, captured, loose, held, due, save, clip, counters>>

(* ... or there is no active arena or no room in it: nothing is installed.  *)
RehomeGivesUp(t) ==
    /\ Picked(t) # {}
    /\ picked' = picked \ Picked(t)
    /\ UNCHANGED <<enabled, active, captured, loose, held, due, moving, save, clip, counters>>
    /\ DropReferences(fstate)

(* What the entries hold after the end of ReplaySegmentStore::rehomeChunk:   *)
(* an entry takes its new lease only if it still holds the one that was      *)
(* copied.  Mutant: the check is dropped.                                    *)
InstalledUnchecked(t) == (held \ {m[1] : m \in Moving(t)}) \cup {m[2] : m \in Moving(t)}
Installed(t) ==
    LET kept == {m \in Moving(t) : m[1] \in held}
    IN  (held \ {m[1] : m \in kept}) \cup {m[2] : m \in kept}

(* Mutant: the copy that is not installed, and the room it left, are lost.   *)
InstallLeaks(t) ==
    /\ Moving(t) # {}
    /\ held' = Installed(t)
    /\ moving' = moving \ Moving(t)
    /\ UNCHANGED <<enabled, active, spaceVars, fileVars, captured, loose, due, picked, save, clip, counters>>
InstallMoved(t) ==
    /\ Moving(t) # {}
    /\ held' = Installed(t)
    /\ moving' = moving \ Moving(t)
    /\ UNCHANGED <<enabled, active, captured, loose, due, picked, save, clip, counters>>
    /\ DropReferences(fstate)

-----------------------------------------------------------------------------
(* A save.  One runs at a time, on the engine's request thread, which also  *)
(* runs configure.                                                          *)

(* Engine::saveClip snapshots the stores and selects a window; the copies   *)
(* pin what they refer to.                                                  *)
SelectWindow ==
    /\ saves < MaxSaves /\ saves' = saves + 1
    /\ save.phase = "idle"
    /\ \E k \in Packets :
        LET pins == {l \in held : l.pkt >= k}
            mem == {p \in loose : p >= k}
        IN  /\ pins # {} \/ mem # {}
            /\ save' = [IdleSave EXCEPT !.phase = "selected", !.pins = pins,
                                        !.todo = mem \cup {l.pkt : l \in pins}]
    /\ UNCHANGED <<enabled, active, spaceVars, fileVars, captured, loose, held, backfillVars, clip, faults>>

(* takeForSave: detaches the active arena, creating one if there is none.   *)
TakeForSave ==
    /\ save.phase = "selected"
    /\ \E a \in Arenas :
        /\ EnsureActive(a)
        /\ active' = None
        /\ save' = [save EXCEPT !.phase = "taken", !.arena = a]
    /\ UNCHANGED <<enabled, spaceVars, fend, data, captured, loose, held, backfillVars, clip, counters>>

(* Save in place is off: the clip will be a copy in a file of its own,       *)
(* which the archive has no part in.                                        *)
NothingToTake ==
    /\ save.phase = "selected"
    /\ ~enabled
    /\ save' = [save EXCEPT !.phase = "copy"]
    /\ UNCHANGED <<enabled, active, spaceVars, fileVars, captured, loose, held, backfillVars, clip, counters>>

(* Arena::seal, under the arena's lock: what is free now is padding.        *)
(* Mutants: all but what the stores hold is; the last slot is just left.     *)
Snapshot(F, padding) ==
    /\ save.phase = "taken"
    /\ save' = [save EXCEPT !.phase = "trim", !.snap = F, !.padding = padding]
    /\ UNCHANGED <<enabled, active, spaceVars, fileVars, captured, loose, held, backfillVars, clip, counters>>
SnapshotOfUnheld ==
    LET F == Cut(end[save.arena]) \ Leased(save.arena, held) IN Snapshot(F, Slots(F))
SnapshotWithoutTail ==
    LET F == free[save.arena]
    IN  Snapshot(F, {s \in Slots(F) : s.at + s.len # end[save.arena]})
SealSnapshot == Snapshot(free[save.arena], Slots(free[save.arena]))

(* ... outside it: the free slot that reaches the end, if any, is cut off   *)
(* the file; a cut that fails leaves it as padding.                         *)
TrimEnd ==
    /\ save.phase = "trim"
    /\ LET a == save.arena
           Tail == {s \in save.padding : s.at + s.len = end[a]}
       IN  \/ /\ fstate[a] = "appending"
              /\ \E s \in Tail : fend' = [fend EXCEPT ![a] = s.at]
              /\ data' = [data EXCEPT ![a] =
                            [c \in Cells |-> IF c >= fend'[a] THEN Zero ELSE @[c]]]
              /\ save' = [save EXCEPT !.phase = "zero", !.padding = @ \ Tail]
           \/ /\ save' = [save EXCEPT !.phase = "zero"]
              /\ UNCHANGED <<fend, data>>
    /\ UNCHANGED <<enabled, active, spaceVars, fstate, captured, loose, held, backfillVars, clip, counters>>

(* InPlaceFile::zeroSlot on the next padding slot.                          *)
ZeroSlot ==
    /\ save.phase = "zero" /\ save.padding # {}
    /\ LET a == save.arena
       IN  /\ fstate[a] = "appending"
           /\ \E s \in Lowest(save.padding) :
                /\ data' = [data EXCEPT ![a] =
                              [c \in Cells |-> IF c \in Run(s.at, s.len) THEN Zero ELSE @[c]]]
                /\ save' = [save EXCEPT !.padding = @ \ {s}]
    /\ UNCHANGED <<enabled, active, spaceVars, fend, fstate, captured, loose, held, backfillVars, clip, counters>>

(* InPlaceFile::seal once every padding slot is zero.                       *)
Seal ==
    /\ save.phase = "zero" /\ save.padding = {}
    /\ fstate[save.arena] = "appending"
    /\ fstate' = [fstate EXCEPT ![save.arena] = "sealed"]
    /\ save' = [save EXCEPT !.phase = "place"]
    /\ UNCHANGED <<enabled, active, spaceVars, fend, data, captured, loose, held, backfillVars, clip, counters>>

(* The selected leases of a packet, and those of them the sealed file itself *)
(* holds.  Mutant: any file's lease passes for one of this file.             *)
Sources(p) == {l \in save.pins : l.pkt = p}
InAnyFile(p) == {l \in Sources(p) : l.at + Size[p] <= fend[save.arena]}
InThisFile(p) ==
    {l \in Sources(p) : l.arena = save.arena /\ l.at + Size[p] <= fend[save.arena]}

(* InPlaceMediaBuffer::placeSample: a sample already in this file keeps its *)
(* offset, any other is read and appended.                                  *)
PlaceSample ==
    /\ save.phase = "place"
    /\ \E p \in save.todo :
        /\ \A q \in save.todo : p <= q
        /\ LET a == save.arena
               PlacedAt(at) ==
                   save' = [save EXCEPT !.todo = @ \ {p}, !.index = @ \cup {[pkt |-> p, at |-> at]}]
               Append(bytes) ==
                   /\ fend' = [fend EXCEPT ![a] = @ + Size[p]]
                   /\ data' = [data EXCEPT ![a] = [c \in Cells |->
                                 IF c \in Run(fend[a], Size[p]) THEN bytes[c] ELSE @[c]]]
           IN  /\ fstate[a] = "sealed"
               /\ \/ /\ \E l \in InThisFile(p) : PlacedAt(l.at)
                     /\ UNCHANGED <<fend, data>>
                  \/ /\ InThisFile(p) = {}
                     /\ fend[a] + Size[p] <= MaxCell        \* bound of the model
                     /\ PlacedAt(fend[a])
                     /\ \/ Sources(p) = {} /\ Append([c \in Cells |-> p])
                        \/ \E l \in Sources(p) :
                              Append([c \in Cells |-> data[l.arena][l.at + (c - fend[a])]])
    /\ UNCHANGED <<enabled, active, spaceVars, fstate, captured, loose, held, backfillVars, clip, counters>>

(* InPlaceFile::finalize writes the index after the media; the media range  *)
(* is not touched.                                                          *)
Finalize ==
    /\ save.phase = "place" /\ save.todo = {}
    /\ fstate[save.arena] = "sealed"
    /\ fstate' = [fstate EXCEPT ![save.arena] = "finalized"]
    /\ clip' = [clip EXCEPT ![save.arena] = save.index]
    /\ UNCHANGED <<enabled, active, spaceVars, fend, data, captured, loose, held, backfillVars, save, counters>>

(* InPlaceFile::publish: the file is renamed to the clip. *)
Publish ==
    /\ save.phase = "place"
    /\ fstate[save.arena] = "finalized"
    /\ fstate' = [fstate EXCEPT ![save.arena] = "published"]
    /\ save' = [save EXCEPT !.phase = "saved"]
    /\ UNCHANGED <<enabled, active, spaceVars, fend, data, captured, loose, held, backfillVars, clip, counters>>

(* Cutting, zeroing or sealing the detached recording fails: it is never     *)
(* written to again ("failed" stands for every such state) and the clip is   *)
(* copied into a file of its own instead.                                   *)
SealFails ==
    /\ faults < MaxFaults /\ faults' = faults + 1
    /\ save.phase \in {"trim", "zero"}
    /\ save' = [save EXCEPT !.phase = "copy", !.arena = None, !.snap = {}, !.padding = {}]
    /\ UNCHANGED <<enabled, active, captured, loose, held, backfillVars, clip, saves>>
    /\ DropReferences([fstate EXCEPT ![save.arena] = "failed"])

(* A sample cannot be read or appended, the index or the rename fails: the   *)
(* save fails, and the private recording is left behind.                    *)
PlaceFails ==
    /\ faults < MaxFaults /\ faults' = faults + 1
    /\ save.phase = "place"
    /\ clip' = [clip EXCEPT ![save.arena] = {}]
    /\ save' = IdleSave
    /\ UNCHANGED <<enabled, active, captured, loose, held, backfillVars, saves>>
    /\ DropReferences([fstate EXCEPT ![save.arena] = "failed"])

(* The rest of a save that wrote its clip: what the stores still hold in     *)
(* detached files is queued to be copied forward.                           *)
FinishSave ==
    /\ save.phase \in {"copy", "saved"}
    /\ due' = due \cup {l.pkt : l \in {m \in held : IsDetached(m)}}
    /\ save' = IdleSave
    /\ UNCHANGED <<enabled, active, captured, loose, held, picked, moving, clip, counters>>
    /\ DropReferences(fstate)

CopyFails ==
    /\ save.phase = "copy"
    /\ save' = IdleSave
    /\ UNCHANGED <<enabled, active, captured, loose, held, backfillVars, clip, counters>>
    /\ DropReferences(fstate)

Next ==
    \/ Capture
    \/ \E p \in Packets : Persist(p) \/ PersistFails(p) \/ Expire(p)
    \/ Reconfigure
    \/ \E t \in Tracks :
        \/ \E lo, hi \in Packets : RehomePick(t, lo, hi)
        \/ RehomeWrite(t) \/ RehomeGivesUp(t) \/ InstallMoved(t)
    \/ SelectWindow \/ TakeForSave \/ NothingToTake
    \/ SealSnapshot \/ TrimEnd \/ ZeroSlot \/ Seal
    \/ PlaceSample \/ Finalize \/ Publish
    \/ SealFails \/ PlaceFails \/ CopyFails \/ FinishSave

Spec == Init /\ [][Next]_vars

-----------------------------------------------------------------------------
(* Properties. *)

LeaseOK(l) == l \in Lease /\ CellsOf(l) \subseteq Cut(end[l.arena])

Save == [phase : SavePhases, arena : Arenas \cup {None}, pins : SUBSET Lease,
         snap : SUBSET Cells, padding : SUBSET Slot, todo : SUBSET Packets,
         index : SUBSET Sample]

(* Types.  They include the size limit of the archive: no recording grows   *)
(* beyond `maximum`, and every lease lies inside the space its arena has     *)
(* handed out.                                                              *)
TypeOK ==
    /\ enabled \in BOOLEAN
    /\ active \in Arenas \cup {None}
    /\ free \in [Arenas -> SUBSET Cells]
    /\ end \in [Arenas -> 0 .. Cap]
    /\ cursor \in [Arenas -> 0 .. Cap]
    /\ \A a \in Arenas : free[a] \subseteq Cut(end[a])
    /\ fend \in [Arenas -> 0 .. MaxCell]
    /\ fstate \in [Arenas -> FileStates]
    /\ data \in [Arenas -> [Cells -> Packets \cup {Zero}]]
    /\ captured \in 0 .. NPackets
    /\ loose \in SUBSET Packets /\ due \in SUBSET Packets
    /\ save \in Save
    /\ clip \in [Arenas -> SUBSET Sample]
    /\ saves \in 0 .. MaxSaves /\ faults \in 0 .. MaxFaults
    /\ \A l \in Live : LeaseOK(l)

(* Two live leases of one arena never share a cell, and no live lease       *)
(* overlaps free room: neither capture, backfill nor a save ever writes over *)
(* footage something still refers to.                                       *)
NoOverlap ==
    \A l \in Live :
        /\ CellsOf(l) \cap free[l.arena] = {}
        /\ \A m \in Live \ {l} : m.arena = l.arena => CellsOf(l) \cap CellsOf(m) = {}

(* Room is never lost: every cell the arena has handed out and that no lease *)
(* guards is back in the free map, whatever the order in which leases die.   *)
NothingLeaks ==
    \A a \in Arenas : Cut(end[a]) = free[a] \cup Leased(a, Live)

(* A lease reads back its own packet for as long as anything refers to it:   *)
(* through the detach, the trim, the zeroing and the publication of its file *)
(* and through the writes that reuse the room around it.                     *)
LeaseReadable ==
    \A l \in Live :
        /\ CellsOf(l) \subseteq Cut(fend[l.arena])
        /\ \A c \in CellsOf(l) : data[l.arena][c] = l.pkt

(* Every sample the index of a finished clip names reads as that sample,     *)
(* long after its leases are gone, whether it was already in the recording   *)
(* or was appended by the save.                                              *)
Reads(a, s) == \A c \in Run(s.at, Size[s.pkt]) : c < fend[a] /\ data[a][c] = s.pkt
ClipIntact ==
    \A a \in Arenas :
        fstate[a] \in {"finalized", "published"} => \A s \in clip[a] : Reads(a, s)

(* What was free when the save froze the recording reads as zeros once it is *)
(* sealed, unless the save put a sample of the clip there: footage that had  *)
(* expired by then does not leave with the clip.                             *)
PaddingZeroed ==
    save.phase = "place" =>
        \A c \in save.snap :
            \/ data[save.arena][c] = Zero
            \/ \E s \in save.index : c \in Run(s.at, Size[s.pkt])

(* Footage retention or a save has dropped never comes back, although        *)
(* backfill and the save still hold copies of it.                            *)
DroppedStaysDropped ==
    [][\A p \in Packets : p <= captured /\ p \notin Retained => p \notin Retained']_vars
=============================================================================
