------------------------ MODULE PacketArena_proofs ------------------------
(***************************************************************************)
(* Proofs about PacketArena, for every number, length and order of packets *)
(* and every size of the archive: nothing is written over footage that is  *)
(* still referred to, every lease reads back its own packet, a published    *)
(* clip keeps every sample its index names and nothing that had expired,   *)
(* no room is lost, and nothing that was dropped comes back.               *)
(***************************************************************************)
EXTENDS PacketArena, FiniteSetTheorems, WellFoundedInduction, TLAPS

USE DEF None, Zero

(* What the proofs need of a single lease and of two of them. *)
Sound(l) ==
    /\ LeaseOK(l)
    /\ CellsOf(l) \cap free[l.arena] = {}
    /\ Reads(l.arena, l)
Apart(l, m) == l # m /\ l.arena = m.arena => CellsOf(l) \cap CellsOf(m) = {}
LeasesOK ==
    /\ \A l \in Live : Sound(l)
    /\ \A l, m \in Live : Apart(l, m)

(* The types of everything but the leases. *)
StateOK ==
    /\ enabled \in BOOLEAN
    /\ active \in Arenas \cup {None}
    /\ captured \in 0 .. NPackets
    /\ loose \in SUBSET Packets /\ due \in SUBSET Packets
    /\ save \in Save
    /\ clip \in [Arenas -> SUBSET Sample]
    /\ saves \in 0 .. MaxSaves /\ faults \in 0 .. MaxFaults
SpaceOK ==
    /\ free \in [Arenas -> SUBSET Cells]
    /\ end \in [Arenas -> 0 .. Cap]
    /\ cursor \in [Arenas -> 0 .. Cap]
    /\ \A a \in Arenas : free[a] \subseteq Cut(end[a])
FilesOK ==
    /\ fend \in [Arenas -> 0 .. MaxCell]
    /\ fstate \in [Arenas -> FileStates]
    /\ data \in [Arenas -> [Cells -> Packets \cup {Zero}]]

(* The recording a save works on has left the archive: no packet is written  *)
(* to it, its free room only grows, and the samples placed so far read back. *)
SaveOwns ==
    /\ active # None => fstate[active] # "unborn"
    /\ save.phase \in {"taken", "trim", "zero", "place"} =>
         /\ save.arena \in Arenas /\ save.arena # active
         /\ fstate[save.arena] # "unborn"
    /\ save.phase \in {"trim", "zero"} =>
         \A s \in save.padding : Run(s.at, s.len) \subseteq free[save.arena]
    /\ save.phase \in {"selected", "taken", "trim", "zero"} => save.index = {}
    /\ save.phase = "place" => \A s \in save.index : Reads(save.arena, s)

IInv == StateOK /\ SpaceOK /\ FilesOK /\ LeasesOK /\ SaveOwns /\ ClipIntact

-----------------------------------------------------------------------------
(* Lemmas. *)

(* Lengths and positions are numbers. *)
LEMMA Numbers ==
    /\ \A p \in Packets : Size[p] \in Nat /\ Size[p] > 0
    /\ Cap \in Nat /\ MaxCell \in Nat /\ Cap <= MaxCell
    /\ Cells = 0 .. MaxCell - 1
BY PacketsAssumption, SpaceAssumption DEF Cells

(* Arena::place yields a run of free cells, or the end of the arena when the *)
(* write still fits under the cap.                                          *)
LEMMA PlaceFits ==
    ASSUME NEW F \in SUBSET Nat, NEW e \in Nat, NEW c \in Nat, NEW n \in Nat, n > 0,
           NEW at \in PlaceIn(F, e, c, n)
    PROVE  /\ at \in Nat
           /\ Run(at, n) \subseteq F \/ (at = e /\ e + n <= Cap)
<1>1. ASSUME NEW s \in Slots(F), NEW k \in Nat, s.len >= k, k >= n, at = s.at
      PROVE  at \in Nat /\ Run(at, n) \subseteq F
  <2>1. s.at \in F /\ s.len \in 1 .. Cap /\ Run(s.at, s.len) \subseteq F
    BY <1>1 DEF Slots
  <2>2. s.at \in Nat
    BY <2>1
  <2>4. s.len \in Int
    BY <2>1, Numbers
  <2>3. Run(at, n) \subseteq Run(s.at, s.len)
    BY <2>2, <2>4, <1>1 DEF Run
  <2>. QED BY <2>1, <2>2, <2>3, <1>1
<1>2. WrapHole \in Nat
  BY SpaceAssumption
<1>. QED BY <1>1, <1>2 DEF PlaceIn, Lowest

(* Leases survive a step that creates none, moves no room and changes no     *)
(* cell one of them guards.                                                 *)
LEMMA SameReadings ==
    ASSUME LeasesOK, Live' \subseteq Live, free' = free, end' = end,
           \A l \in Live : \A c \in CellsOf(l) :
               c < fend'[l.arena] /\ data'[l.arena][c] = data[l.arena][c]
    PROVE  LeasesOK'
<1>1. ASSUME NEW l \in Live' PROVE Sound(l)'
  <2>1. Sound(l)
    BY DEF LeasesOK
  <2>2. CellsOf(l) = Run(l.at, Size[l.pkt])
    BY DEF CellsOf, Run
  <2>3. Reads(l.arena, l)'
    BY <2>1, <2>2 DEF Sound, Reads
  <2>. QED BY <2>1, <2>3 DEF Sound, LeaseOK
<1>2. ASSUME NEW l \in Live', NEW m \in Live' PROVE Apart(l, m)'
  BY DEF LeasesOK, Apart
<1>. QED BY <1>1, <1>2 DEF LeasesOK

(* A write of n cells into a run Place yields, and the leases New it creates: *)
(* they lie on that run, apart from each other, over bytes that are theirs.  *)
GoodWrite(a, n, at, bytes, New) ==
    /\ a \in Arenas /\ n \in Nat /\ n > 0 /\ at \in Place(a, n)
    /\ bytes \in [Cells -> Packets \cup {Zero}]
    /\ WriteRun(a, at, n, bytes)
    /\ free' = [free EXCEPT ![a] = @ \ Run(at, n)]
    /\ New \in SUBSET Lease /\ Live' \subseteq Live \cup New
    /\ \A l \in New : /\ l.arena = a /\ CellsOf(l) \subseteq Run(at, n)
                     /\ \A c \in CellsOf(l) : bytes[c] = l.pkt
    /\ \A l, m \in New : Apart(l, m)
OnlyTouches(a) ==
    \A b \in Arenas \ {a} : free'[b] = free[b] /\ fend'[b] = fend[b] /\ data'[b] = data[b]

(* Such a write disturbs no lease, and its own are sound.                    *)
LEMMA WriteSound ==
    ASSUME SpaceOK, FilesOK, LeasesOK,
           NEW a, NEW n, NEW at, NEW bytes, NEW New, GoodWrite(a, n, at, bytes, New)
    PROVE  /\ SpaceOK' /\ LeasesOK' /\ OnlyTouches(a)
           /\ fend' \in [Arenas -> 0 .. MaxCell]
           /\ data' \in [Arenas -> [Cells -> Packets \cup {Zero}]]
<1>. USE Numbers
<1>0. /\ a \in Arenas /\ n \in Nat /\ n > 0 /\ at \in Place(a, n)
      /\ bytes \in [Cells -> Packets \cup {Zero}]
      /\ WriteRun(a, at, n, bytes)
      /\ free' = [free EXCEPT ![a] = @ \ Run(at, n)]
      /\ New \in SUBSET Lease /\ Live' \subseteq Live \cup New
      /\ \A l \in New : /\ l.arena = a /\ CellsOf(l) \subseteq Run(at, n)
                       /\ \A c \in CellsOf(l) : bytes[c] = l.pkt
      /\ \A l, m \in New : Apart(l, m)
  BY DEF GoodWrite
<1>. USE <1>0
<1>1. /\ free[a] \in SUBSET Nat /\ end[a] \in Nat /\ cursor[a] \in Nat
      /\ end[a] <= Cap /\ free[a] \subseteq Cut(end[a])
  BY DEF SpaceOK, Cut
<1>2. at \in Nat /\ (Run(at, n) \subseteq free[a] \/ (at = end[a] /\ end[a] + n <= Cap))
  BY <1>1, PlaceFits DEF Place
<1>3. at + n <= Cap
  <2>1. CASE Run(at, n) \subseteq free[a]
    <3>1. at + n - 1 \in Run(at, n)
      BY <1>2 DEF Run
    <3>2. at + n - 1 \in Cut(end[a])
      BY <3>1, <2>1, <1>1
    <3>. QED BY <3>2, <1>1, <1>2 DEF Cut
  <2>. QED BY <2>1, <1>2
<1>4. /\ end' \in [Arenas -> 0 .. Cap]
      /\ end'[a] >= end[a] /\ end'[a] >= at + n
      /\ \A b \in Arenas \ {a} : end'[b] = end[b]
  BY <1>1, <1>2, <1>3 DEF WriteRun, SpaceOK
<1>5. cursor' \in [Arenas -> 0 .. Cap]
  BY <1>2, <1>3 DEF WriteRun, SpaceOK
<1>6. /\ free' \in [Arenas -> SUBSET Cells]
      /\ \A b \in Arenas : free'[b] \subseteq free[b]
      /\ \A b \in Arenas \ {a} : free'[b] = free[b]
      /\ free'[a] = free[a] \ Run(at, n)
  BY DEF SpaceOK
<1>7. SpaceOK'
  <2>1. ASSUME NEW b \in Arenas PROVE free'[b] \subseteq Cut(end'[b])
    <3>1. free'[b] \subseteq Cut(end[b]) /\ end[b] \in Nat /\ end'[b] \in Nat /\ end[b] <= end'[b]
      BY <1>4, <1>6, <1>1 DEF SpaceOK
    <3>. QED BY <3>1 DEF Cut
  <2>. QED BY <2>1, <1>4, <1>5, <1>6 DEF SpaceOK
<1>8. /\ fend' \in [Arenas -> 0 .. MaxCell]
      /\ fend'[a] >= fend[a] /\ fend'[a] >= at + n
      /\ \A b \in Arenas \ {a} : fend'[b] = fend[b]
  BY <1>2, <1>3 DEF WriteRun, FilesOK
<1>9. /\ data' \in [Arenas -> [Cells -> Packets \cup {Zero}]]
      /\ \A b \in Arenas \ {a} : data'[b] = data[b]
      /\ \A c \in Cells : data'[a][c] = IF c \in Run(at, n) THEN bytes[c] ELSE data[a][c]
  BY DEF WriteRun, FilesOK
<1>10. Run(at, n) \subseteq Cells
  BY <1>2, <1>3 DEF Run
<1>11. ASSUME NEW l \in Live PROVE Sound(l)' /\ (l.arena = a => CellsOf(l) \cap Run(at, n) = {})
  <2>1. Sound(l) /\ l \in Lease
    BY DEF LeasesOK, Sound, LeaseOK
  <2>2. l.arena \in Arenas /\ CellsOf(l) = Run(l.at, Size[l.pkt]) /\ l.at \in Nat /\ l.pkt \in Packets
    BY <2>1 DEF Lease, CellsOf, Run
  <2>3. CellsOf(l) \subseteq Cut(end[l.arena]) /\ CellsOf(l) \cap free[l.arena] = {}
    BY <2>1 DEF Sound, LeaseOK
  <2>4. l.arena = a => CellsOf(l) \cap Run(at, n) = {}
    <3>1. CASE l.arena = a /\ Run(at, n) \subseteq free[a]
      BY <3>1, <2>3
    <3>2. CASE l.arena = a /\ at = end[a]
      BY <3>2, <2>3, <1>1 DEF Run, Cut
    <3>. QED BY <3>1, <3>2, <1>2
  <2>5. CellsOf(l) \subseteq Cut(end'[l.arena])
    <3>1. ASSUME NEW b \in Arenas PROVE end[b] \in Nat /\ end'[b] \in Nat /\ end[b] <= end'[b]
      <4>1. end[b] \in 0 .. Cap /\ end'[b] \in 0 .. Cap
        BY <1>4 DEF SpaceOK
      <4>2. end[b] <= end'[b]
        BY <1>4, <4>1
      <4>. QED BY <4>1, <4>2
    <3>. QED BY <3>1, <2>2, <2>3 DEF Cut
  <2>6. CellsOf(l) \cap free'[l.arena] = {}
    BY <2>3, <1>6, <2>2
  <2>7. CellsOf(l) \subseteq Cells
    <3>1. end[l.arena] \in 0 .. Cap
      BY <2>2 DEF SpaceOK
    <3>. QED BY <3>1, <2>3 DEF Cut
  <2>8. Reads(l.arena, l)'
    <3>1. ASSUME NEW c \in CellsOf(l) PROVE c < fend'[l.arena] /\ data'[l.arena][c] = l.pkt
      <4>1. c < fend[l.arena] /\ data[l.arena][c] = l.pkt /\ c \in Cells
        BY <2>1, <2>2, <2>7 DEF Sound, Reads
      <4>2. ASSUME NEW b \in Arenas PROVE fend[b] \in Nat /\ fend'[b] \in Nat /\ fend[b] <= fend'[b]
        <5>1. fend[b] \in 0 .. MaxCell /\ fend'[b] \in 0 .. MaxCell
          BY <1>8 DEF FilesOK
        <5>2. fend[b] <= fend'[b]
          BY <1>8, <5>1
        <5>. QED BY <5>1, <5>2
      <4>3. data'[l.arena][c] = data[l.arena][c]
        BY <4>1, <1>9, <2>2, <2>4
      <4>4. c \in Int
        BY <4>1
      <4>. QED BY <4>1, <4>2, <4>3, <4>4, <2>2
    <3>. QED BY <3>1, <2>2 DEF Reads
  <2>. QED BY <2>1, <2>4, <2>5, <2>6, <2>8 DEF Sound, LeaseOK
<1>12. ASSUME NEW l \in New PROVE Sound(l)'
  <2>1. l.arena = a /\ CellsOf(l) \subseteq Run(at, n) /\ \A c \in CellsOf(l) : bytes[c] = l.pkt
    OBVIOUS
  <2>2. CellsOf(l) = Run(l.at, Size[l.pkt])
    BY DEF CellsOf, Run
  <2>3. CellsOf(l) \subseteq Cut(end'[a])
    BY <2>1, <1>2, <1>4 DEF Run, Cut
  <2>4. CellsOf(l) \cap free'[a] = {}
    BY <2>1, <1>6
  <2>5. Reads(l.arena, l)'
    <3>1. ASSUME NEW c \in CellsOf(l) PROVE c < fend'[a] /\ data'[a][c] = l.pkt
      <4>1. c \in Run(at, n) /\ c \in Cells
        BY <2>1, <1>10
      <4>2. c < at + n
        BY <4>1, <1>2 DEF Run
      <4>. QED BY <4>1, <4>2, <2>1, <1>2, <1>8, <1>9
    <3>. QED BY <3>1, <2>1, <2>2 DEF Reads
  <2>. QED BY <2>1, <2>3, <2>4, <2>5 DEF Sound, LeaseOK
<1>13. ASSUME NEW l \in Live \cup New, NEW m \in Live \cup New PROVE Apart(l, m)
  <2>1. CASE l \in Live /\ m \in Live
    BY <2>1 DEF LeasesOK
  <2>2. CASE l \in New /\ m \in New
    BY <2>2
  <2>3. CASE l \in Live /\ m \in New
    BY <2>3, <1>11 DEF Apart
  <2>4. CASE l \in New /\ m \in Live
    BY <2>4, <1>11 DEF Apart
  <2>. QED BY <2>1, <2>2, <2>3, <2>4
<1>14. LeasesOK'
  <2>1. ASSUME NEW l \in Live' PROVE Sound(l)'
    BY <1>11, <1>12
  <2>2. ASSUME NEW l \in Live', NEW m \in Live' PROVE Apart(l, m)'
    BY <1>13 DEF Apart
  <2>. QED BY <2>1, <2>2 DEF LeasesOK
<1>. QED BY <1>7, <1>8, <1>9, <1>6, <1>14 DEF OnlyTouches
(* Letting go of references returns the room of the leases that are gone and *)
(* nothing else: what is still referred to stays as it was.                  *)
LEMMA DropSound ==
    ASSUME SpaceOK, FilesOK, LeasesOK, ClipIntact,
           NEW state \in [Arenas -> FileStates], Live' \subseteq Live, DropReferences(state),
           \A a \in Arenas : state[a] \in {"finalized", "published"} =>
               fstate[a] \in {"finalized", "published"} /\ clip'[a] = clip[a]
    PROVE  /\ SpaceOK' /\ FilesOK' /\ LeasesOK' /\ ClipIntact'
           /\ \A a \in Arenas : Referenced(a)' =>
                /\ free[a] \subseteq free'[a]
                /\ fend'[a] = fend[a] /\ data'[a] = data[a] /\ fstate'[a] = state[a]
<1>. USE Numbers
<1>. DEFINE Kept(a) == Referenced(a)' \/ state[a] = "published"
            Back(a) == Leased(a, Live \ Live')
<1>1. /\ free' = [a \in Arenas |-> IF Referenced(a)' THEN free[a] \cup Back(a) ELSE {}]
      /\ end' = [a \in Arenas |-> IF Referenced(a)' THEN end[a] ELSE 0]
      /\ cursor' = [a \in Arenas |-> IF Referenced(a)' THEN cursor[a] ELSE 0]
      /\ fstate' = [a \in Arenas |-> IF Kept(a) THEN state[a] ELSE "unborn"]
      /\ fend' = [a \in Arenas |-> IF Kept(a) THEN fend[a] ELSE 0]
      /\ data' = [a \in Arenas |-> IF Kept(a) THEN data[a] ELSE Blank]
  BY DEF DropReferences
<1>. HIDE DEF Kept
<1>2. ASSUME NEW a \in Arenas PROVE Back(a) \subseteq Cut(end[a])
  <2>1. ASSUME NEW l \in Live, l.arena = a PROVE CellsOf(l) \subseteq Cut(end[a])
    BY <2>1 DEF LeasesOK, Sound, LeaseOK
  <2>. QED BY <2>1 DEF Leased
<1>3. SpaceOK'
  <2>1. ASSUME NEW a \in Arenas
        PROVE  end'[a] \in 0 .. Cap /\ cursor'[a] \in 0 .. Cap /\ free'[a] \subseteq Cut(end'[a])
    <3>1. end[a] \in 0 .. Cap /\ cursor[a] \in 0 .. Cap /\ 0 \in 0 .. Cap
      BY DEF SpaceOK
    <3>2. end'[a] \in 0 .. Cap
      BY <1>1, <3>1
    <3>3. cursor'[a] \in 0 .. Cap
      BY <1>1, <3>1
    <3>4. free'[a] \subseteq Cut(end'[a])
      BY <1>1, <1>2 DEF SpaceOK
    <3>. QED BY <3>2, <3>3, <3>4
  <2>2. ASSUME NEW a \in Arenas PROVE free'[a] \subseteq Cells
    BY <2>1 DEF Cut
  <2>3. free' \in [Arenas -> SUBSET Cells]
    BY <1>1, <2>2
  <2>4. end' \in [Arenas -> 0 .. Cap] /\ cursor' \in [Arenas -> 0 .. Cap]
    BY <1>1, <2>1
  <2>. QED BY <2>1, <2>3, <2>4 DEF SpaceOK
<1>4. FilesOK'
  <2>1. Blank \in [Cells -> Packets \cup {Zero}]
    BY DEF Blank
  <2>2. fend' \in [Arenas -> 0 .. MaxCell]
    BY <1>1 DEF FilesOK
  <2>3. fstate' \in [Arenas -> FileStates]
    BY <1>1 DEF FileStates
  <2>4. data' \in [Arenas -> [Cells -> Packets \cup {Zero}]]
    BY <1>1, <2>1 DEF FilesOK
  <2>. QED BY <2>2, <2>3, <2>4 DEF FilesOK
<1>5. ASSUME NEW l \in Live' PROVE Sound(l)'
  <2>1. Sound(l) /\ l \in Lease
    BY DEF LeasesOK, Sound, LeaseOK
  <2>2. l.arena \in Arenas /\ CellsOf(l) = Run(l.at, Size[l.pkt])
    BY <2>1 DEF Lease, CellsOf, Run
  <2>3. Referenced(l.arena)'
    BY DEF Referenced
  <2>4. Back(l.arena) \cap CellsOf(l) = {}
    <3>1. ASSUME NEW m \in Live \ Live', m.arena = l.arena PROVE CellsOf(m) \cap CellsOf(l) = {}
      BY <3>1 DEF LeasesOK, Apart
    <3>. QED BY <3>1 DEF Leased
  <2>5. CellsOf(l) \cap free'[l.arena] = {}
    BY <2>1, <2>2, <2>3, <2>4, <1>1 DEF Sound
  <2>6. end'[l.arena] = end[l.arena] /\ fend'[l.arena] = fend[l.arena] /\ data'[l.arena] = data[l.arena]
    BY <2>2, <2>3, <1>1 DEF Kept
  <2>7. Reads(l.arena, l)'
    BY <2>1, <2>6 DEF Sound, Reads
  <2>. QED BY <2>1, <2>5, <2>6, <2>7 DEF Sound, LeaseOK
<1>6. LeasesOK'
  <2>1. ASSUME NEW l \in Live', NEW m \in Live' PROVE Apart(l, m)'
    BY DEF LeasesOK, Apart
  <2>. QED BY <1>5, <2>1 DEF LeasesOK
<1>7. ClipIntact'
  <2>1. ASSUME NEW a \in Arenas, fstate'[a] \in {"finalized", "published"}, NEW s \in clip'[a]
        PROVE  Reads(a, s)'
    <3>1. Kept(a) /\ state[a] \in {"finalized", "published"}
      BY <2>1, <1>1
    <3>2. fend'[a] = fend[a] /\ data'[a] = data[a]
      BY <3>1, <1>1
    <3>3. Reads(a, s)
      BY <2>1, <3>1 DEF ClipIntact
    <3>. QED BY <3>2, <3>3 DEF Reads
  <2>. QED BY <2>1 DEF ClipIntact
<1>8. ASSUME NEW a \in Arenas, Referenced(a)'
      PROVE  /\ free[a] \subseteq free'[a]
             /\ fend'[a] = fend[a] /\ data'[a] = data[a] /\ fstate'[a] = state[a]
  BY <1>1, <1>8 DEF Kept
<1>. QED BY <1>3, <1>4, <1>6, <1>7, <1>8

(* What a save in progress owns is kept by a step of somebody else that      *)
(* leaves its recording alone.                                              *)
LEMMA OwnsKept ==
    ASSUME SaveOwns, save' = save, active' # None => fstate'[active'] # "unborn",
           save.phase \in {"taken", "trim", "zero", "place"} =>
             /\ save.arena # active' /\ fstate'[save.arena] = fstate[save.arena]
             /\ free[save.arena] \subseteq free'[save.arena]
             /\ fend'[save.arena] = fend[save.arena] /\ data'[save.arena] = data[save.arena]
    PROVE  SaveOwns'
<1>1. ASSUME save.phase = "place", NEW s \in save.index PROVE Reads(save.arena, s)'
  BY <1>1 DEF SaveOwns, Reads
<1>2. ASSUME save.phase \in {"trim", "zero"}, NEW s \in save.padding
      PROVE  Run(s.at, s.len) \subseteq free'[save.arena]
  BY <1>2 DEF SaveOwns
<1>. QED BY <1>1, <1>2 DEF SaveOwns, Run

(* A clip is intact as long as its file and its index stay.                  *)
LEMMA ClipKept ==
    ASSUME ClipIntact,
           \A a \in Arenas : fstate'[a] \in {"finalized", "published"} =>
             /\ fstate[a] \in {"finalized", "published"}
             /\ fend'[a] = fend[a] /\ data'[a] = data[a] /\ clip'[a] = clip[a]
    PROVE  ClipIntact'
<1>1. ASSUME NEW a \in Arenas, fstate'[a] \in {"finalized", "published"}, NEW s \in clip'[a]
      PROVE  Reads(a, s)'
  BY <1>1 DEF ClipIntact, Reads
<1>. QED BY <1>1 DEF ClipIntact

-----------------------------------------------------------------------------
(* The invariant is inductive. *)

(* At the start there are no recordings and no leases.                       *)
LEMMA InitIInv == Init => IInv
<1>. SUFFICES ASSUME Init PROVE IInv
  OBVIOUS
<1>. USE Numbers
<1>1. Live = {}
  BY DEF Init, Live, IdleSave
<1>2. StateOK
  BY PacketsAssumption, SpaceAssumption DEF Init, StateOK, Save, IdleSave, SavePhases
<1>3. SpaceOK
  BY DEF Init, SpaceOK, Cut
<1>4. FilesOK
  BY DEF Init, FilesOK, FileStates, Blank
<1>5. LeasesOK
  BY <1>1 DEF LeasesOK
<1>6. SaveOwns
  BY DEF Init, SaveOwns, IdleSave
<1>7. ClipIntact
  BY DEF Init, ClipIntact
<1>. QED BY <1>2, <1>3, <1>4, <1>5, <1>6, <1>7 DEF IInv

(* What a lease the invariant covers is, and that every live lease can still  *)
(* be read.                                                                 *)
LEMMA LiveSound ==
    ASSUME SpaceOK, LeasesOK, NEW l \in Live
    PROVE  /\ l \in Lease /\ l.arena \in Arenas /\ l.pkt \in Packets /\ l.at \in Nat
           /\ CellsOf(l) = Run(l.at, Size[l.pkt]) /\ CellsOf(l) \subseteq Cells
           /\ CellsOf(l) \subseteq Cut(end[l.arena])
           /\ CellsOf(l) \cap free[l.arena] = {}
           /\ \A c \in CellsOf(l) : c < fend[l.arena] /\ data[l.arena][c] = l.pkt
<1>1. l \in Lease /\ Sound(l)
  BY DEF LeasesOK, Sound, LeaseOK
<1>2. l.arena \in Arenas /\ l.pkt \in Packets /\ l.at \in Nat
  BY <1>1 DEF Lease
<1>3. CellsOf(l) = Run(l.at, Size[l.pkt])
  BY DEF CellsOf, Run
<1>4. CellsOf(l) \subseteq Cut(end[l.arena]) /\ CellsOf(l) \cap free[l.arena] = {}
  BY <1>1 DEF Sound, LeaseOK
<1>5. end[l.arena] \in 0 .. Cap
  BY <1>2 DEF SpaceOK
<1>6. CellsOf(l) \subseteq Cells
  BY <1>4, <1>5, Numbers DEF Cut
<1>7. \A c \in CellsOf(l) : c < fend[l.arena] /\ data[l.arena][c] = l.pkt
  BY <1>1, <1>3 DEF Sound, Reads
<1>. QED BY <1>1, <1>2, <1>3, <1>4, <1>6, <1>7

(* Steps that move no room and change no file.                               *)
LEMMA QuietSteps ==
    ASSUME IInv, UNCHANGED <<spaceVars, fileVars, clip>>, Live' \subseteq Live, StateOK', SaveOwns'
    PROVE  IInv'
<1>1. SpaceOK'
  BY DEF IInv, SpaceOK, spaceVars
<1>2. FilesOK'
  BY DEF IInv, FilesOK, fileVars
<1>3. LeasesOK'
  <2>1. \A l \in Live : \A c \in CellsOf(l) : c < fend[l.arena]
    BY LiveSound DEF IInv
  <2>. QED BY <2>1, SameReadings DEF IInv, spaceVars, fileVars
<1>4. ClipIntact'
  BY ClipKept DEF IInv, fileVars
<1>. QED BY <1>1, <1>2, <1>3, <1>4 DEF IInv

(* The file a write goes to is the active one or a new one, never the        *)
(* recording of the save in progress nor a clip.                             *)
LEMMA WriteTarget ==
    ASSUME IInv, NEW a \in Arenas, EnsureActive(a), fstate'[a] = "appending"
    PROVE  /\ fstate[a] \in {"appending", "unborn"}
           /\ fstate' \in [Arenas -> FileStates]
           /\ \A b \in Arenas \ {a} : fstate'[b] = fstate[b]
           /\ save.phase \in {"taken", "trim", "zero", "place"} => save.arena # a
<1>1. fstate \in [Arenas -> FileStates]
  BY DEF IInv, FilesOK
<1>2. CASE active # 0
  BY <1>1, <1>2 DEF EnsureActive, IInv, SaveOwns
<1>3. CASE active = 0
  BY <1>1, <1>3 DEF EnsureActive, Unborn, FileStates, IInv, SaveOwns
<1>. QED BY <1>2, <1>3

(* A packet the spill worker writes, or a chunk the backfill writes.          *)
LEMMA WriteSteps ==
    ASSUME IInv, NEW a \in Arenas, EnsureActive(a), fstate'[a] = "appending", active' = a,
           NEW n, NEW at, NEW bytes, NEW New, GoodWrite(a, n, at, bytes, New),
           UNCHANGED <<save, clip>>, StateOK'
    PROVE  IInv'
<1>1. /\ fstate[a] \in {"appending", "unborn"}
      /\ fstate' \in [Arenas -> FileStates]
      /\ \A b \in Arenas \ {a} : fstate'[b] = fstate[b]
      /\ save.phase \in {"taken", "trim", "zero", "place"} => save.arena # a
  BY WriteTarget
<1>2. /\ SpaceOK' /\ LeasesOK' /\ OnlyTouches(a)
      /\ fend' \in [Arenas -> 0 .. MaxCell]
      /\ data' \in [Arenas -> [Cells -> Packets \cup {Zero}]]
  BY WriteSound DEF IInv
<1>3. FilesOK'
  BY <1>1, <1>2 DEF FilesOK
<1>4. ClipIntact'
  BY <1>1, <1>2, ClipKept DEF IInv, OnlyTouches
<1>5. SaveOwns'
  <2>1. save.phase \in {"taken", "trim", "zero", "place"} => save.arena \in Arenas \ {a}
    BY <1>1 DEF IInv, SaveOwns
  <2>. QED BY <2>1, <1>1, <1>2, OwnsKept DEF IInv, OnlyTouches
<1>. QED BY <1>2, <1>3, <1>4, <1>5 DEF IInv

(* What a save owns depends on its record and the files alone.               *)
LEMMA OwnsQuiet ==
    ASSUME SaveOwns, UNCHANGED <<active, spaceVars, fileVars, save>>
    PROVE  SaveOwns'
BY OwnsKept DEF SaveOwns, spaceVars, fileVars

(* Steps that let go of references while a save may be in progress.          *)
LEMMA DropSteps ==
    ASSUME IInv, DropReferences(fstate), Live' \subseteq Live, StateOK',
           UNCHANGED <<save, clip>>, active' = active \/ (active' = 0 /\ save.phase = "idle")
    PROVE  IInv'
<1>1. fstate \in [Arenas -> FileStates]
  BY DEF IInv, FilesOK
<1>2. /\ SpaceOK' /\ FilesOK' /\ LeasesOK' /\ ClipIntact'
      /\ \A a \in Arenas : Referenced(a)' =>
           /\ free[a] \subseteq free'[a]
           /\ fend'[a] = fend[a] /\ data'[a] = data[a] /\ fstate'[a] = fstate[a]
  BY <1>1, DropSound DEF IInv
<1>3. SaveOwns'
  <2>1. save.phase \in {"taken", "trim", "zero", "place"} =>
          save.arena \in Arenas /\ save.arena # active' /\ Referenced(save.arena)'
    BY DEF IInv, SaveOwns, Referenced
  <2>2. active' # 0 => fstate'[active'] # "unborn"
    <3>1. CASE active' = active
      BY <3>1, <1>2 DEF IInv, StateOK, SaveOwns, Referenced
    <3>2. CASE active' = 0
      BY <3>2
    <3>. QED BY <3>1, <3>2
  <2>. QED BY <2>1, <2>2, <1>2, OwnsKept DEF IInv
<1>. QED BY <1>2, <1>3 DEF IInv

(* Steps with which a save gives its recording up, or ends.                  *)
LEMMA EndSteps ==
    ASSUME IInv, NEW state \in [Arenas -> FileStates], DropReferences(state), Live' \subseteq Live,
           StateOK', save'.phase \in {"idle", "copy"}, active' = active,
           \A a \in Arenas : state[a] # fstate[a] => state[a] = "failed",
           \A a \in Arenas : clip'[a] # clip[a] => state[a] = "failed"
    PROVE  IInv'
<1>1. SpaceOK' /\ FilesOK' /\ LeasesOK' /\ ClipIntact'
  BY DropSound DEF IInv
<1>2. active' # 0 => fstate'[active'] # "unborn"
  <2>1. active # 0 => Referenced(active)' /\ active \in Arenas
    BY DEF Referenced, IInv, StateOK
  <2>2. active # 0 => fstate'[active] = state[active]
    BY <2>1, DropSound DEF IInv
  <2>. QED BY <2>1, <2>2 DEF IInv, SaveOwns
<1>3. SaveOwns'
  BY <1>2 DEF SaveOwns
<1>. QED BY <1>1, <1>3 DEF IInv

(* A run Place yields lies below the cap. *)
LEMMA PlaceInside ==
    ASSUME SpaceOK, NEW a \in Arenas, NEW n \in Nat, n > 0, NEW at \in Place(a, n)
    PROVE  at \in Nat /\ at + n <= Cap
<1>1. /\ free[a] \in SUBSET Nat /\ end[a] \in Nat /\ cursor[a] \in Nat
      /\ end[a] <= Cap /\ free[a] \subseteq Cut(end[a])
  BY Numbers DEF SpaceOK, Cut
<1>2. at \in Nat /\ (Run(at, n) \subseteq free[a] \/ (at = end[a] /\ end[a] + n <= Cap))
  BY <1>1, PlaceFits DEF Place
<1>3. CASE Run(at, n) \subseteq free[a]
  <2>1. at + n - 1 \in Run(at, n)
    BY <1>2 DEF Run
  <2>2. at + n - 1 \in Cut(end[a])
    BY <2>1, <1>3, <1>1
  <2>. QED BY <2>2, <1>1, <1>2, Numbers DEF Cut
<1>. QED BY <1>2, <1>3

(* ... and nobody holds a lease on it.                                        *)
LEMMA PlaceFree ==
    ASSUME SpaceOK, NEW a \in Arenas, NEW n \in Nat, n > 0, NEW at \in Place(a, n)
    PROVE  Run(at, n) \subseteq free[a] \/ at = end[a]
<1>1. free[a] \in SUBSET Nat /\ end[a] \in Nat /\ cursor[a] \in Nat
  BY Numbers DEF SpaceOK
<1>. QED BY <1>1, PlaceFits DEF Place

(* A new, still empty recording changes nothing else.                        *)
LEMMA EnsuredSteps ==
    ASSUME IInv, NEW a \in Arenas, EnsureActive(a), active' \in {a, 0},
           UNCHANGED <<spaceVars, data, fend, save, clip>>, Live' \subseteq Live, StateOK'
    PROVE  IInv'
<1>1. fstate \in [Arenas -> FileStates]
  BY DEF IInv, FilesOK
<1>2. /\ fstate' \in [Arenas -> FileStates]
      /\ \A b \in Arenas : fstate'[b] = fstate[b] \/ (b = a /\ fstate[b] = "unborn" /\ fstate'[b] = "appending")
      /\ active = a \/ fstate[a] = "unborn"
  BY <1>1 DEF EnsureActive, Unborn, FileStates
<1>3. SpaceOK' /\ FilesOK'
  BY <1>2 DEF IInv, SpaceOK, FilesOK, spaceVars
<1>4. LeasesOK'
  <2>1. \A l \in Live : \A c \in CellsOf(l) : c < fend[l.arena]
    BY LiveSound DEF IInv
  <2>. QED BY <2>1, SameReadings DEF IInv, spaceVars
<1>5. ClipIntact'
  BY <1>2, ClipKept DEF IInv
<1>6. SaveOwns'
  <2>1. save.phase \in {"taken", "trim", "zero", "place"} =>
          save.arena \in Arenas /\ save.arena # a /\ save.arena # 0 /\ fstate'[save.arena] = fstate[save.arena]
    BY <1>2, SpaceAssumption DEF IInv, SaveOwns, Arenas
  <2>2. active' # 0 => fstate'[active'] # "unborn"
    BY <1>1 DEF EnsureActive, IInv, SaveOwns
  <2>. QED BY <2>1, <2>2, OwnsKept DEF IInv, spaceVars
<1>. QED BY <1>3, <1>4, <1>5, <1>6 DEF IInv

(* A captured packet is in memory and takes no room.                         *)
LEMMA CaptureStep == ASSUME IInv, Capture PROVE IInv'
<1>1. Live' = Live
  BY DEF Capture, Live, backfillVars
<1>2. captured + 1 \in Packets /\ captured + 1 \in 0 .. NPackets
  BY PacketsAssumption DEF Capture, IInv, StateOK, Packets
<1>3. StateOK'
  BY <1>2 DEF Capture, IInv, StateOK, backfillVars, counters
<1>. QED BY <1>1, <1>3, QuietSteps, OwnsQuiet DEF Capture, IInv

(* A packet is written to room nobody leases, of a recording no save owns.   *)
LEMMA PersistStep == ASSUME IInv, NEW p \in Packets, Persist(p) PROVE IInv'
<1>. USE Numbers
<1>1. PICK a \in Arenas :
        /\ EnsureActive(a)
        /\ active' = a
        /\ IF fstate'[a] = "appending" /\ Place(a, Size[p]) # {}
           THEN \E at \in Place(a, Size[p]) :
                 /\ WriteRun(a, at, Size[p], [c \in Cells |-> p])
                 /\ free' = [free EXCEPT ![a] = @ \ Run(at, Size[p])]
                 /\ held' = held \cup {[pkt |-> p, arena |-> a, at |-> at]}
                 /\ loose' = loose \ {p}
           ELSE UNCHANGED <<spaceVars, data, fend, held, loose>>
  BY DEF Persist
<1>2. UNCHANGED <<enabled, captured, backfillVars, save, clip, counters>>
  BY DEF Persist
<1>3. StateOK'
  BY <1>1, <1>2 DEF IInv, StateOK, backfillVars, counters
<1>4. CASE fstate'[a] = "appending" /\ Place(a, Size[p]) # {}
  <2>1. PICK at \in Place(a, Size[p]) :
          /\ WriteRun(a, at, Size[p], [c \in Cells |-> p])
          /\ free' = [free EXCEPT ![a] = @ \ Run(at, Size[p])]
          /\ held' = held \cup {[pkt |-> p, arena |-> a, at |-> at]}
    BY <1>1, <1>4
  <2>. DEFINE new == [pkt |-> p, arena |-> a, at |-> at]
              bytes == [c \in Cells |-> p]
  <2>2. at \in Nat /\ at + Size[p] <= Cap
    BY PlaceInside DEF IInv
  <2>3. new \in Lease /\ CellsOf(new) = Run(at, Size[p])
    BY <2>2 DEF Lease, CellsOf, Run
  <2>4. CellsOf(new) \subseteq Cells
    BY <2>2, <2>3 DEF Run
  <2>5. Live' \subseteq Live \cup {new}
    BY <1>2, <2>1 DEF Live, backfillVars
  <2>6. GoodWrite(a, Size[p], at, bytes, {new})
    BY <2>1, <2>3, <2>4, <2>5 DEF GoodWrite, Apart
  <2>. QED BY <2>6, <1>1, <1>2, <1>3, <1>4, WriteSteps
<1>5. CASE ~(fstate'[a] = "appending" /\ Place(a, Size[p]) # {})
  <2>1. UNCHANGED <<spaceVars, data, fend, held, loose>>
    BY <1>1, <1>5
  <2>2. Live' = Live
    BY <1>2, <2>1 DEF Live, backfillVars
  <2>. QED BY <2>1, <2>2, <1>1, <1>2, <1>3, EnsuredSteps
<1>. QED BY <1>4, <1>5

(* Steps that change cells no lease guards, in the files of F, none of them   *)
(* a clip.                                                                  *)
LEMMA RewriteSteps ==
    ASSUME IInv, NEW a \in Arenas, fstate[a] \notin {"finalized", "published"},
           fstate' \in [Arenas -> FileStates], fstate'[a] \notin {"finalized", "published"},
           \A b \in Arenas \ {a} : fstate'[b] = fstate[b] /\ data'[b] = data[b] /\ fend'[b] = fend[b],
           fend' \in [Arenas -> 0 .. MaxCell],
           data' \in [Arenas -> [Cells -> Packets \cup {Zero}]],
           \A l \in Live : l.arena = a =>
               \A c \in CellsOf(l) : c < fend'[a] /\ data'[a][c] = data[a][c],
           UNCHANGED <<spaceVars, clip>>, Live' \subseteq Live, StateOK', SaveOwns'
    PROVE  IInv'
<1>1. SpaceOK' /\ FilesOK'
  BY DEF IInv, SpaceOK, FilesOK, spaceVars
<1>2. LeasesOK'
  <2>1. ASSUME NEW l \in Live, NEW c \in CellsOf(l)
        PROVE  c < fend'[l.arena] /\ data'[l.arena][c] = data[l.arena][c]
    <3>1. l.arena \in Arenas /\ c < fend[l.arena]
      BY LiveSound DEF IInv
    <3>. QED BY <3>1
  <2>. QED BY <2>1, SameReadings DEF IInv, spaceVars
<1>3. ClipIntact'
  BY ClipKept DEF IInv
<1>. QED BY <1>1, <1>2, <1>3 DEF IInv

(* A failed write dirties room nobody leases and grants no lease.            *)
LEMMA PersistFailsStep == ASSUME IInv, NEW p \in Packets, PersistFails(p) PROVE IInv'
<1>. USE Numbers
<1>1. /\ active \in Arenas /\ fstate[active] = "appending"
      /\ UNCHANGED <<enabled, active, spaceVars, fend, captured, loose, held,
                     backfillVars, save, clip, saves>>
      /\ fstate' = [fstate EXCEPT ![active] = "failed"]
      /\ faults' \in 0 .. MaxFaults
  BY SpaceAssumption DEF PersistFails, IInv, StateOK
<1>2. PICK at \in Place(active, Size[p]) :
         data' = [data EXCEPT ![active] = [c \in Cells |-> IF c \in Run(at, Size[p]) THEN p ELSE @[c]]]
  BY DEF PersistFails
<1>3. Live' = Live
  BY <1>1 DEF Live, backfillVars
<1>4. StateOK'
  BY <1>1 DEF IInv, StateOK, backfillVars
<1>5. data \in [Arenas -> [Cells -> Packets \cup {Zero}]] /\ fstate \in [Arenas -> FileStates]
  BY DEF IInv, FilesOK
<1>6. /\ data' \in [Arenas -> [Cells -> Packets \cup {Zero}]]
      /\ \A b \in Arenas \ {active} : data'[b] = data[b]
      /\ \A c \in Cells : c \notin Run(at, Size[p]) => data'[active][c] = data[active][c]
  BY <1>1, <1>2, <1>5
<1>7. fstate' \in [Arenas -> FileStates] /\ fstate'[active] = "failed"
  BY <1>1, <1>5 DEF FileStates
<1>8. ASSUME NEW l \in Live, l.arena = active, NEW c \in CellsOf(l)
      PROVE  c < fend'[active] /\ data'[active][c] = data[active][c]
  <2>1. /\ CellsOf(l) \subseteq Cells /\ CellsOf(l) \subseteq Cut(end[active])
        /\ CellsOf(l) \cap free[active] = {} /\ c < fend[active]
    BY <1>8, LiveSound DEF IInv
  <2>2. c \notin Run(at, Size[p])
    <3>1. Run(at, Size[p]) \subseteq free[active] \/ at = end[active]
      BY <1>1, PlaceFree DEF IInv
    <3>2. end[active] \in Nat
      BY <1>1 DEF IInv, SpaceOK
    <3>. QED BY <3>1, <3>2, <2>1 DEF Run, Cut
  <2>. QED BY <2>1, <2>2, <1>1, <1>6
<1>9. SaveOwns'
  <2>1. active' # 0 => fstate'[active'] # "unborn"
    BY <1>1, <1>7
  <2>2. save.phase \in {"taken", "trim", "zero", "place"} => save.arena \in Arenas \ {active}
    BY DEF IInv, SaveOwns
  <2>. QED BY <2>1, <2>2, <1>1, <1>5, <1>6, OwnsKept DEF IInv, spaceVars
<1>10. /\ fend' \in [Arenas -> 0 .. MaxCell]
       /\ \A b \in Arenas \ {active} : fstate'[b] = fstate[b] /\ fend'[b] = fend[b]
  BY <1>1, <1>5 DEF IInv, FilesOK
<1>. QED BY <1>1, <1>3, <1>4, <1>6, <1>7, <1>8, <1>9, <1>10, RewriteSteps

(* Expiry, reconfiguration and the two ends of a backfill let go of leases.  *)
LEMMA DropActions ==
    ASSUME IInv, (\E p \in Packets : Expire(p)) \/ Reconfigure \/ (\E t \in Tracks : RehomeGivesUp(t) \/ InstallMoved(t))
    PROVE  IInv'
<1>1. ASSUME NEW p \in Packets, Expire(p) PROVE IInv'
  <2>1. Live' \subseteq Live
    BY <1>1 DEF Expire, Live
  <2>2. StateOK'
    BY <1>1 DEF Expire, IInv, StateOK, counters
  <2>. QED BY <1>1, <2>1, <2>2, DropSteps DEF Expire
<1>2. CASE Reconfigure
  <2>1. Live' \subseteq Live
    BY <1>2 DEF Reconfigure, Live, backfillVars
  <2>2. StateOK'
    BY <1>2, SpaceAssumption DEF Reconfigure, IInv, StateOK, backfillVars
  <2>. QED BY <1>2, <2>1, <2>2, DropSteps DEF Reconfigure
<1>3. ASSUME NEW t \in Tracks, RehomeGivesUp(t) PROVE IInv'
  <2>1. Live' \subseteq Live
    BY <1>3 DEF RehomeGivesUp, Live
  <2>2. StateOK'
    BY <1>3 DEF RehomeGivesUp, IInv, StateOK, counters
  <2>. QED BY <1>3, <2>1, <2>2, DropSteps DEF RehomeGivesUp
<1>4. ASSUME NEW t \in Tracks, InstallMoved(t) PROVE IInv'
  <2>1. Live' \subseteq Live
    BY <1>4 DEF InstallMoved, Installed, Moving, Live
  <2>2. StateOK'
    BY <1>4 DEF InstallMoved, IInv, StateOK, counters
  <2>. QED BY <1>4, <2>1, <2>2, DropSteps DEF InstallMoved
<1>. QED BY <1>1, <1>2, <1>3, <1>4

(* However a save ends, it only lets go of what it pinned.                   *)
LEMMA EndActions ==
    ASSUME IInv, SealFails \/ PlaceFails \/ FinishSave \/ CopyFails
    PROVE  IInv'
<1>1. fstate \in [Arenas -> FileStates] /\ clip \in [Arenas -> SUBSET Sample]
  BY DEF IInv, FilesOK, StateOK
<1>2. IdleSave \in Save /\ IdleSave.phase = "idle" /\ IdleSave.pins = {}
  BY DEF IdleSave, Save, SavePhases
<1>3. CASE SealFails
  <2>. DEFINE state == [fstate EXCEPT ![save.arena] = "failed"]
  <2>1. Live' \subseteq Live
    BY <1>3 DEF SealFails, Live, backfillVars, IInv, StateOK, Save
  <2>2. StateOK' /\ save'.phase = "copy"
    <3>1. save' \in Save /\ save'.phase = "copy"
      BY <1>3 DEF SealFails, IInv, StateOK, Save, SavePhases
    <3>2. faults' \in 0 .. MaxFaults
      BY <1>3, SpaceAssumption DEF SealFails, IInv, StateOK
    <3>. QED BY <1>3, <3>1, <3>2 DEF SealFails, IInv, StateOK, backfillVars
  <2>3. state \in [Arenas -> FileStates] /\ \A a \in Arenas : state[a] # fstate[a] => state[a] = "failed"
    BY <1>1 DEF FileStates
  <2>. QED BY <1>3, <2>1, <2>2, <2>3, EndSteps DEF SealFails
<1>4. CASE PlaceFails
  <2>. DEFINE state == [fstate EXCEPT ![save.arena] = "failed"]
  <2>1. Live' \subseteq Live
    BY <1>4, <1>2 DEF PlaceFails, Live, backfillVars
  <2>2. StateOK' /\ save'.phase = "idle"
    <3>1. clip' \in [Arenas -> SUBSET Sample]
      BY <1>4, <1>1 DEF PlaceFails
    <3>2. faults' \in 0 .. MaxFaults
      BY <1>4, SpaceAssumption DEF PlaceFails, IInv, StateOK
    <3>. QED BY <1>4, <1>2, <3>1, <3>2 DEF PlaceFails, IInv, StateOK, backfillVars
  <2>3. /\ state \in [Arenas -> FileStates]
        /\ \A a \in Arenas : state[a] # fstate[a] => state[a] = "failed"
        /\ \A a \in Arenas : clip'[a] # clip[a] => state[a] = "failed"
    BY <1>1, <1>4 DEF FileStates, PlaceFails
  <2>. QED BY <1>4, <2>1, <2>2, <2>3, EndSteps DEF PlaceFails
<1>5. CASE FinishSave
  <2>1. Live' \subseteq Live
    BY <1>5, <1>2 DEF FinishSave, Live
  <2>2. ASSUME NEW l \in held PROVE l.pkt \in Packets
    BY LiveSound DEF IInv, Live
  <2>3. StateOK' /\ save'.phase = "idle"
    BY <1>5, <1>2, <2>2 DEF FinishSave, IInv, StateOK, counters
  <2>. QED BY <1>1, <1>5, <2>1, <2>3, EndSteps DEF FinishSave
<1>6. CASE CopyFails
  <2>1. Live' \subseteq Live
    BY <1>6, <1>2 DEF CopyFails, Live, backfillVars
  <2>2. StateOK' /\ save'.phase = "idle"
    BY <1>6, <1>2 DEF CopyFails, IInv, StateOK, backfillVars, counters
  <2>. QED BY <1>1, <1>6, <2>1, <2>2, EndSteps DEF CopyFails
<1>. QED BY <1>3, <1>4, <1>5, <1>6

(* What a step that only changes the save record leaves to prove.            *)
LEMMA RecordSteps ==
    ASSUME IInv, UNCHANGED <<enabled, active, spaceVars, fileVars, captured, loose, clip>>,
           due' \in SUBSET Packets, counters' = counters \/ (faults' = faults /\ saves' \in 0 .. MaxSaves),
           save' \in Save, Live' \subseteq Live, SaveOwns'
    PROVE  IInv'
<1>1. StateOK'
  BY DEF IInv, StateOK, counters
<1>. QED BY <1>1, QuietSteps

(* Picking, selecting and taking the snapshot change no file.                *)
LEMMA RecordActions ==
    ASSUME IInv, \/ \E t \in Tracks, lo, hi \in Packets : RehomePick(t, lo, hi)
                 \/ SelectWindow \/ NothingToTake \/ SealSnapshot
    PROVE  IInv'
<1>1. save \in Save /\ SaveOwns /\ due \in SUBSET Packets
  BY DEF IInv, StateOK
<1>2. ASSUME NEW t \in Tracks, NEW lo \in Packets, NEW hi \in Packets, RehomePick(t, lo, hi) PROVE IInv'
  <2>1. Live' \subseteq Live
    BY <1>2 DEF RehomePick, Live
  <2>2. SaveOwns'
    BY <1>1, <1>2, OwnsQuiet DEF RehomePick
  <2>. QED BY <1>1, <1>2, <2>1, <2>2, RecordSteps DEF RehomePick
<1>3. CASE SelectWindow
  <2>1. PICK k \in Packets :
          LET pins == {l \in held : l.pkt >= k}
              mem == {p \in loose : p >= k}
          IN  save' = [IdleSave EXCEPT !.phase = "selected", !.pins = pins,
                                       !.todo = mem \cup {l.pkt : l \in pins}]
    BY <1>3 DEF SelectWindow
  <2>2. ASSUME NEW l \in held PROVE l \in Lease /\ l.pkt \in Packets
    BY LiveSound DEF IInv, Live
  <2>3. loose \in SUBSET Packets
    BY DEF IInv, StateOK
  <2>4. /\ save' \in Save /\ save'.pins \subseteq held
        /\ save'.phase = "selected" /\ save'.index = {}
    BY <2>1, <2>2, <2>3 DEF IdleSave, Save, SavePhases
  <2>5. Live' \subseteq Live
    BY <1>3, <2>4 DEF SelectWindow, Live, backfillVars
  <2>6. SaveOwns'
    BY <1>1, <1>3, <2>4 DEF SelectWindow, SaveOwns, fileVars
  <2>7. saves' \in 0 .. MaxSaves
    <3>1. saves \in 0 .. MaxSaves /\ saves < MaxSaves /\ saves' = saves + 1
      BY <1>3 DEF SelectWindow, IInv, StateOK
    <3>. QED BY <3>1, SpaceAssumption
  <2>. QED BY <1>1, <1>3, <2>4, <2>5, <2>6, <2>7, RecordSteps DEF SelectWindow, backfillVars
<1>4. CASE NothingToTake
  <2>1. save' \in Save /\ save'.pins = save.pins /\ save'.phase = "copy"
    BY <1>1, <1>4 DEF NothingToTake, Save, SavePhases
  <2>2. Live' \subseteq Live
    BY <1>4, <2>1 DEF NothingToTake, Live, backfillVars
  <2>3. SaveOwns'
    BY <1>1, <1>4, <2>1 DEF NothingToTake, SaveOwns, fileVars
  <2>. QED BY <1>1, <1>4, <2>1, <2>2, <2>3, RecordSteps DEF NothingToTake, backfillVars
<1>5. CASE SealSnapshot
  <2>. DEFINE F == free[save.arena]
  <2>1. /\ save.phase = "taken" /\ save.arena \in Arenas
        /\ save' = [save EXCEPT !.phase = "trim", !.snap = F, !.padding = Slots(F)]
    BY <1>1, <1>5 DEF SealSnapshot, Snapshot, SaveOwns
  <2>2. F \in SUBSET Cells /\ F \in SUBSET Nat
    BY <2>1, Numbers DEF IInv, SpaceOK
  <2>3. ASSUME NEW s \in Slots(F) PROVE s \in Slot /\ Run(s.at, s.len) \subseteq F
    BY <2>2, Numbers DEF Slots, Slot
  <2>4. /\ save' \in Save /\ save'.pins = save.pins /\ save'.phase = "trim" /\ save'.index = save.index
        /\ save'.arena = save.arena /\ save'.padding = Slots(F)
    BY <1>1, <2>1, <2>2, <2>3 DEF Save, SavePhases
  <2>5. Live' \subseteq Live
    BY <1>5, <2>4 DEF SealSnapshot, Snapshot, Live, backfillVars
  <2>6. SaveOwns'
    <3>1. UNCHANGED <<active, spaceVars, fileVars>>
      BY <1>5 DEF SealSnapshot, Snapshot
    <3>. QED BY <1>1, <2>1, <2>3, <2>4, <3>1 DEF SaveOwns, spaceVars, fileVars, Run
  <2>. QED BY <1>1, <1>5, <2>4, <2>5, <2>6, RecordSteps DEF SealSnapshot, Snapshot, backfillVars
<1>. QED BY <1>2, <1>3, <1>4, <1>5

(* The detached recording is no longer the one that packets are written to.  *)
LEMMA TakeForSaveStep == ASSUME IInv, TakeForSave PROVE IInv'
<1>1. PICK a \in Arenas :
        /\ EnsureActive(a)
        /\ active' = 0
        /\ save' = [save EXCEPT !.phase = "taken", !.arena = a]
  BY DEF TakeForSave
<1>2. UNCHANGED <<enabled, spaceVars, fend, data, captured, loose, held, backfillVars, clip, counters>>
  BY DEF TakeForSave
<1>3. save \in Save /\ save.phase = "selected" /\ save.index = {}
  BY DEF TakeForSave, IInv, StateOK, SaveOwns
<1>4. /\ save' \in Save /\ save'.pins = save.pins /\ save'.phase = "taken" /\ save'.arena = a
      /\ save'.index = {}
  BY <1>1, <1>3 DEF Save, SavePhases
<1>5. fstate \in [Arenas -> FileStates]
  BY DEF IInv, FilesOK
<1>6. /\ fstate' \in [Arenas -> FileStates] /\ fstate'[a] # "unborn"
      /\ \A b \in Arenas : fstate'[b] \in {"finalized", "published"} => fstate[b] = fstate'[b]
  BY <1>1, <1>5 DEF EnsureActive, Unborn, FileStates, IInv, SaveOwns
<1>7. Live' \subseteq Live
  BY <1>2, <1>4 DEF Live, backfillVars
<1>8. SpaceOK' /\ FilesOK'
  BY <1>2, <1>6 DEF IInv, SpaceOK, FilesOK, spaceVars
<1>9. LeasesOK'
  <2>1. \A l \in Live : \A c \in CellsOf(l) : c < fend[l.arena]
    BY LiveSound DEF IInv
  <2>. QED BY <1>2, <1>7, <2>1, SameReadings DEF IInv, spaceVars
<1>10. ClipIntact'
  BY <1>2, <1>6, ClipKept DEF IInv
<1>11. SaveOwns'
  BY <1>1, <1>4, <1>6, SpaceAssumption DEF SaveOwns, Arenas
<1>12. StateOK'
  BY <1>1, <1>2, <1>4 DEF IInv, StateOK, backfillVars, counters
<1>. QED BY <1>8, <1>9, <1>10, <1>11, <1>12 DEF IInv

(* A chunk of leases is copied into one run of fresh room, packet by packet. *)
LEMMA RehomeWriteStep == ASSUME IInv, NEW t \in Tracks, RehomeWrite(t) PROVE IInv'
<1>. USE Numbers
<1>1. PICK a \in Arenas, n \in 1 .. Cap :
        /\ EnsureActive(a)
        /\ active' = a
        /\ fstate'[a] = "appending"
        /\ \E at \in Place(a, n) : \E off \in Layouts(Picked(t), at, n) :
            /\ WriteRun(a, at, n, Copied(Picked(t), off))
            /\ free' = [free EXCEPT ![a] = @ \ Run(at, n)]
            /\ moving' = moving \cup {<<l, [pkt |-> l.pkt, arena |-> a, at |-> off[l]]>> : l \in Picked(t)}
  BY DEF RehomeWrite
<1>2. PICK at \in Place(a, n) : \E off \in Layouts(Picked(t), at, n) :
            /\ WriteRun(a, at, n, Copied(Picked(t), off))
            /\ free' = [free EXCEPT ![a] = @ \ Run(at, n)]
            /\ moving' = moving \cup {<<l, [pkt |-> l.pkt, arena |-> a, at |-> off[l]]>> : l \in Picked(t)}
  BY <1>1
<1>3. PICK off \in Layouts(Picked(t), at, n) :
            /\ WriteRun(a, at, n, Copied(Picked(t), off))
            /\ free' = [free EXCEPT ![a] = @ \ Run(at, n)]
            /\ moving' = moving \cup {<<l, [pkt |-> l.pkt, arena |-> a, at |-> off[l]]>> : l \in Picked(t)}
  BY <1>2
<1>4. picked' = picked \ Picked(t) /\ UNCHANGED <<enabled, captured, loose, held, due, save, clip, counters>>
  BY DEF RehomeWrite
<1>. DEFINE bytes == Copied(Picked(t), off)
            Moved(l) == [pkt |-> l.pkt, arena |-> a, at |-> off[l]]
            New == {Moved(l) : l \in Picked(t)}
<1>5. n \in Nat /\ n > 0
  OBVIOUS
<1>6. at \in Nat /\ at + n <= Cap
  BY <1>5, PlaceInside DEF IInv
<1>7. ASSUME NEW l \in Picked(t)
      PROVE  /\ l \in Live /\ off[l] \in Nat /\ Size[l.pkt] \in Nat /\ Size[l.pkt] > 0
             /\ l.pkt \in Packets /\ l.at \in Nat /\ l.arena \in Arenas
             /\ Run(off[l], Size[l.pkt]) \subseteq Run(at, n)
  <2>1. l \in Live
    BY DEF Live, Picked
  <2>2. l.pkt \in Packets /\ l.at \in Nat /\ l.arena \in Arenas
    BY <2>1, LiveSound DEF IInv
  <2>3. off[l] \in Run(at, n) /\ Run(off[l], Size[l.pkt]) \subseteq Run(at, n)
    BY DEF Layouts
  <2>4. off[l] \in Nat
    BY <2>3, <1>5, <1>6 DEF Run
  <2>. QED BY <2>1, <2>2, <2>3, <2>4
<1>8. ASSUME NEW l \in Picked(t), NEW m \in Picked(t), l # m
      PROVE  Run(off[l], Size[l.pkt]) \cap Run(off[m], Size[m.pkt]) = {}
  <2>1. off[l] + Size[l.pkt] <= off[m] \/ off[m] + Size[m.pkt] <= off[l]
    BY <1>8 DEF Layouts
  <2>2. off[l] \in Nat /\ off[m] \in Nat /\ Size[l.pkt] \in Nat /\ Size[m.pkt] \in Nat
    BY <1>7
  <2>3. ASSUME NEW x \in Nat, NEW y \in Nat, NEW i \in Nat, NEW j \in Nat, x + i <= y \/ y + j <= x
        PROVE  Run(x, i) \cap Run(y, j) = {}
    BY <2>3 DEF Run
  <2>. QED BY <2>1, <2>2, <2>3
<1>9. ASSUME NEW l \in Picked(t), NEW c \in Run(off[l], Size[l.pkt])
      PROVE  c \in Cells /\ bytes[c] = l.pkt
  <2>1. c \in Run(at, n)
    BY <1>7
  <2>2. c \in Cells
    BY <2>1, <1>5, <1>6 DEF Run
  <2>3. {m \in Picked(t) : c \in Run(off[m], Size[m.pkt])} = {l}
    BY <1>8
  <2>4. bytes[c] = data[l.arena][l.at + (c - off[l])]
    BY <2>2, <2>3 DEF Copied
  <2>5. CellsOf(l) = Run(l.at, Size[l.pkt]) /\ \A d \in CellsOf(l) : data[l.arena][d] = l.pkt
    BY <1>7, LiveSound DEF IInv
  <2>6. l.at + (c - off[l]) \in Run(l.at, Size[l.pkt])
    BY <1>7 DEF Run
  <2>. QED BY <2>2, <2>4, <2>5, <2>6
<1>10. bytes \in [Cells -> Packets \cup {Zero}]
  <2>1. ASSUME NEW c \in Cells PROVE bytes[c] \in Packets \cup {Zero}
    <3>1. CASE \E l \in Picked(t) : c \in Run(off[l], Size[l.pkt])
      BY <3>1, <1>7, <1>9
    <3>2. CASE ~\E l \in Picked(t) : c \in Run(off[l], Size[l.pkt])
      <4>1. {l \in Picked(t) : c \in Run(off[l], Size[l.pkt])} = {}
        BY <3>2
      <4>. QED BY <4>1 DEF Copied
    <3>. QED BY <3>1, <3>2
  <2>2. bytes = [c \in Cells |-> bytes[c]]
    BY DEF Copied
  <2>. QED BY <2>1, <2>2
<1>11. ASSUME NEW l \in Picked(t)
       PROVE  /\ Moved(l) \in Lease /\ CellsOf(Moved(l)) = Run(off[l], Size[l.pkt])
  BY <1>7 DEF Lease, CellsOf, Run
<1>12. New \in SUBSET Lease
  BY <1>11
<1>13. Live' \subseteq Live \cup New
  <2>1. {m[1] : m \in moving'} \subseteq {m[1] : m \in moving} \cup Picked(t)
    BY <1>3
  <2>2. {m[2] : m \in moving'} \subseteq {m[2] : m \in moving} \cup New
    BY <1>3
  <2>3. Picked(t) \subseteq picked /\ picked' \subseteq picked
    BY <1>4 DEF Picked
  <2>. HIDE DEF New
  <2>. QED BY <2>1, <2>2, <2>3, <1>4 DEF Live
<1>14. \A l \in New : /\ l.arena = a /\ CellsOf(l) \subseteq Run(at, n)
                      /\ \A c \in CellsOf(l) : bytes[c] = l.pkt
  BY <1>7, <1>9, <1>11
<1>15. \A l, m \in New : Apart(l, m)
  <2>1. ASSUME NEW l \in Picked(t), NEW m \in Picked(t) PROVE Apart(Moved(l), Moved(m))
    <3>1. CASE l = m
      BY <3>1 DEF Apart
    <3>2. CASE l # m
      BY <3>2, <1>8, <1>11 DEF Apart
    <3>. QED BY <3>1, <3>2
  <2>. QED BY <2>1
<1>16. GoodWrite(a, n, at, bytes, New)
  <2>. HIDE DEF bytes, New
  <2>. QED BY <1>3, <1>5, <1>10, <1>12, <1>13, <1>14, <1>15 DEF GoodWrite, bytes
<1>17. StateOK'
  BY <1>1, <1>4 DEF IInv, StateOK, counters
<1>. QED BY <1>1, <1>4, <1>16, <1>17, WriteSteps

(* Sealing, indexing and publishing leave the media as it is.                *)
LEMMA FileSteps ==
    ASSUME IInv, Seal \/ Finalize \/ Publish
    PROVE  IInv'
<1>1. /\ save \in Save /\ SaveOwns /\ fstate \in [Arenas -> FileStates]
      /\ clip \in [Arenas -> SUBSET Sample] /\ active \in Arenas \cup {0}
  BY DEF IInv, StateOK, FilesOK
<1>2. /\ save.arena \in Arenas /\ save.arena # active /\ save.phase \in {"zero", "place"}
      /\ UNCHANGED <<enabled, active, spaceVars, fend, data, captured, loose, held, backfillVars, counters>>
  BY <1>1 DEF Seal, Finalize, Publish, SaveOwns
<1>3. /\ save' \in Save /\ save'.pins = save.pins
      /\ save'.arena = save.arena /\ save'.index = save.index
      /\ save'.phase \in {"place", "saved"}
  BY <1>1 DEF Seal, Finalize, Publish, Save, SavePhases
<1>4. /\ fstate' \in [Arenas -> FileStates] /\ fstate'[save.arena] # "unborn"
      /\ \A b \in Arenas \ {save.arena} : fstate'[b] = fstate[b]
  BY <1>1, <1>2 DEF Seal, Finalize, Publish, FileStates
<1>5. Live' \subseteq Live
  BY <1>2, <1>3 DEF Live, backfillVars
<1>6. clip' \in [Arenas -> SUBSET Sample]
  BY <1>1, <1>2, <1>3 DEF Seal, Finalize, Publish, Save
<1>7. StateOK'
  BY <1>2, <1>3, <1>6 DEF IInv, StateOK, backfillVars, counters
<1>8. SpaceOK' /\ FilesOK'
  BY <1>2, <1>4 DEF IInv, SpaceOK, FilesOK, spaceVars
<1>9. LeasesOK'
  <2>1. \A l \in Live : \A c \in CellsOf(l) : c < fend[l.arena]
    BY LiveSound DEF IInv
  <2>. QED BY <1>2, <1>5, <2>1, SameReadings DEF IInv, spaceVars
<1>10. SaveOwns'
  <2>1. save'.phase = "place" => \A s \in save.index : Reads(save.arena, s)
    BY <1>1 DEF SaveOwns, Seal, Finalize, Publish
  <2>2. ASSUME NEW s \in save.index, Reads(save.arena, s) PROVE Reads(save.arena, s)'
    BY <2>2, <1>2, <1>3 DEF Reads
  <2>3. active' # 0 => fstate'[active'] # "unborn"
    BY <1>1, <1>2, <1>4 DEF SaveOwns
  <2>. QED BY <1>2, <1>3, <1>4, <2>1, <2>2, <2>3 DEF SaveOwns
<1>11. ClipIntact'
  <2>1. CASE Seal \/ Publish
    <3>1. \A b \in Arenas : fstate'[b] \in {"finalized", "published"} =>
             fstate[b] \in {"finalized", "published"} /\ clip'[b] = clip[b]
      BY <2>1, <1>1, <1>2 DEF Seal, Publish
    <3>. QED BY <3>1, <1>2, ClipKept DEF IInv
  <2>2. CASE Finalize
    <3>1. ASSUME NEW b \in Arenas, fstate'[b] \in {"finalized", "published"}, NEW s \in clip'[b]
          PROVE  Reads(b, s)'
      <4>1. CASE b = save.arena
        BY <4>1, <3>1, <2>2, <1>1, <1>2 DEF Finalize, SaveOwns, Reads
      <4>2. CASE b # save.arena
        <5>1. fstate[b] \in {"finalized", "published"} /\ s \in clip[b]
          BY <4>2, <3>1, <2>2, <1>1, <1>4 DEF Finalize
        <5>. QED BY <5>1, <1>2 DEF IInv, ClipIntact, Reads
      <4>. QED BY <4>1, <4>2
    <3>. QED BY <3>1 DEF ClipIntact
  <2>. QED BY <2>1, <2>2, <1>2
<1>. QED BY <1>7, <1>8, <1>9, <1>10, <1>11 DEF IInv

(* Cutting the free tail off leaves every lease inside the file.             *)
LEMMA TrimEndStep == ASSUME IInv, TrimEnd PROVE IInv'
<1>. USE Numbers
<1>. DEFINE a == save.arena
            Tail == {s \in save.padding : s.at + s.len = end[a]}
<1>1. /\ save \in Save /\ SaveOwns /\ fstate \in [Arenas -> FileStates]
      /\ fend \in [Arenas -> 0 .. MaxCell] /\ data \in [Arenas -> [Cells -> Packets \cup {Zero}]]
  BY DEF IInv, StateOK, FilesOK
<1>2. /\ a \in Arenas /\ a # active /\ save.phase = "trim" /\ fstate[a] # "unborn"
      /\ save.index = {}
      /\ \A s \in save.padding : Run(s.at, s.len) \subseteq free[a]
      /\ UNCHANGED <<enabled, active, spaceVars, fstate, captured, loose, held, backfillVars, clip, counters>>
  BY <1>1 DEF TrimEnd, SaveOwns
<1>3. /\ save' \in Save /\ save'.pins = save.pins
      /\ save'.arena = a /\ save'.index = save.index
      /\ save'.phase = "zero" /\ save'.padding \subseteq save.padding
  <2>1. \E P \in SUBSET save.padding : save' = [save EXCEPT !.phase = "zero", !.padding = P]
    <3>1. CASE save' = [save EXCEPT !.phase = "zero", !.padding = @ \ Tail]
      <4>1. save' = [save EXCEPT !.phase = "zero", !.padding = save.padding \ Tail]
        BY <3>1
      <4>. HIDE DEF Tail
      <4>. QED BY <4>1
    <3>2. CASE save' = [save EXCEPT !.phase = "zero"]
      <4>1. save' = [save EXCEPT !.phase = "zero", !.padding = save.padding]
        BY <3>2, <1>1 DEF Save
      <4>. QED BY <4>1
    <3>. QED BY <3>1, <3>2 DEF TrimEnd
  <2>2. PICK P \in SUBSET save.padding : save' = [save EXCEPT !.phase = "zero", !.padding = P]
    BY <2>1
  <2>. QED BY <1>1, <2>2 DEF Save, SavePhases
<1>4. Live' \subseteq Live
  BY <1>2, <1>3 DEF Live, backfillVars
<1>5. StateOK'
  BY <1>2, <1>3 DEF IInv, StateOK, backfillVars, counters
<1>6. SaveOwns'
  BY <1>1, <1>2, <1>3 DEF SaveOwns, spaceVars, Run
<1>7. CASE fend' = fend /\ data' = data
  <2>1. UNCHANGED <<spaceVars, fileVars, clip>>
    BY <1>2, <1>7 DEF fileVars
  <2>. QED BY <2>1, <1>4, <1>5, <1>6, QuietSteps
<1>8. CASE /\ fstate[a] = "appending"
           /\ \E s \in Tail : fend' = [fend EXCEPT ![a] = s.at]
           /\ data' = [data EXCEPT ![a] = [c \in Cells |-> IF c >= fend'[a] THEN Zero ELSE @[c]]]
  <2>1. PICK s \in Tail : fend' = [fend EXCEPT ![a] = s.at]
    BY <1>8
  <2>2. s \in save.padding /\ s.at \in Nat /\ s.len \in Nat /\ s.at + s.len = end[a]
    BY <1>1, <2>1 DEF Save, Slot
  <2>3. end[a] \in 0 .. Cap
    BY <1>2 DEF IInv, SpaceOK
  <2>4. s.at \in 0 .. MaxCell
    BY <2>2, <2>3
  <2>5. /\ fend' \in [Arenas -> 0 .. MaxCell] /\ fend'[a] = s.at
        /\ \A b \in Arenas \ {a} : fend'[b] = fend[b]
    BY <1>1, <1>2, <2>1, <2>4
  <2>6. /\ data' \in [Arenas -> [Cells -> Packets \cup {Zero}]]
        /\ \A b \in Arenas \ {a} : data'[b] = data[b]
        /\ \A c \in Cells : c < s.at => data'[a][c] = data[a][c]
    <3>1. [c \in Cells |-> IF c >= fend'[a] THEN Zero ELSE data[a][c]] \in [Cells -> Packets \cup {Zero}]
      BY <1>1, <1>2
    <3>2. data'[a] = [c \in Cells |-> IF c >= fend'[a] THEN Zero ELSE data[a][c]]
      BY <1>1, <1>2, <1>8
    <3>3. ASSUME NEW c \in Cells, c < s.at PROVE data'[a][c] = data[a][c]
      <4>1. ~(c >= fend'[a])
        BY <3>3, <2>2, <2>5
      <4>. QED BY <4>1, <3>2
    <3>. QED BY <1>1, <1>2, <1>8, <3>1, <3>3
  <2>7. ASSUME NEW l \in Live, l.arena = a, NEW c \in CellsOf(l)
        PROVE  c < fend'[a] /\ data'[a][c] = data[a][c]
    <3>1. c \in Cells /\ c \in Cut(end[a]) /\ c \notin free[a]
      BY <2>7, LiveSound DEF IInv
    <3>2. c \notin Run(s.at, s.len)
      BY <3>1, <2>2, <1>2
    <3>3. c < s.at
      BY <3>1, <3>2, <2>2 DEF Run, Cut
    <3>. QED BY <3>1, <3>3, <2>5, <2>6
  <2>8. fstate' \in [Arenas -> FileStates] /\ fstate'[a] = fstate[a] /\ fstate[a] = "appending"
    BY <1>1, <1>2, <1>8
  <2>. QED BY <1>2, <1>4, <1>5, <1>6, <2>5, <2>6, <2>7, <2>8, RewriteSteps
<1>. QED BY <1>7, <1>8 DEF TrimEnd

(* Padding is zeroed only where no lease lies.                               *)
LEMMA ZeroSlotStep == ASSUME IInv, ZeroSlot PROVE IInv'
<1>. USE Numbers
<1>. DEFINE a == save.arena
<1>1. /\ save \in Save /\ SaveOwns /\ fstate \in [Arenas -> FileStates]
      /\ fend \in [Arenas -> 0 .. MaxCell] /\ data \in [Arenas -> [Cells -> Packets \cup {Zero}]]
  BY DEF IInv, StateOK, FilesOK
<1>2. /\ a \in Arenas /\ a # active /\ save.phase = "zero" /\ fstate[a] = "appending"
      /\ save.index = {}
      /\ \A s \in save.padding : Run(s.at, s.len) \subseteq free[a]
      /\ UNCHANGED <<enabled, active, spaceVars, fend, fstate, captured, loose, held, backfillVars, clip, counters>>
  BY <1>1 DEF ZeroSlot, SaveOwns
<1>3. PICK s \in save.padding :
        /\ data' = [data EXCEPT ![a] = [c \in Cells |-> IF c \in Run(s.at, s.len) THEN Zero ELSE @[c]]]
        /\ save' = [save EXCEPT !.padding = @ \ {s}]
  BY DEF ZeroSlot, Lowest
<1>4. /\ save' \in Save /\ save'.pins = save.pins
      /\ save'.arena = a /\ save'.index = save.index
      /\ save'.phase = "zero" /\ save'.padding \subseteq save.padding
  BY <1>1, <1>2, <1>3 DEF Save
<1>5. Live' \subseteq Live
  BY <1>2, <1>4 DEF Live, backfillVars
<1>6. StateOK'
  BY <1>2, <1>4 DEF IInv, StateOK, backfillVars, counters
<1>7. SaveOwns'
  BY <1>1, <1>2, <1>4 DEF SaveOwns, spaceVars, Run
<1>8. data'[a] = [c \in Cells |-> IF c \in Run(s.at, s.len) THEN Zero ELSE data[a][c]]
  BY <1>1, <1>2, <1>3
<1>9. /\ data' \in [Arenas -> [Cells -> Packets \cup {Zero}]]
      /\ \A b \in Arenas \ {a} : data'[b] = data[b]
  <2>1. [c \in Cells |-> IF c \in Run(s.at, s.len) THEN Zero ELSE data[a][c]] \in [Cells -> Packets \cup {Zero}]
    BY <1>1, <1>2
  <2>. QED BY <1>1, <1>3, <2>1
<1>10. ASSUME NEW l \in Live, l.arena = a, NEW c \in CellsOf(l)
       PROVE  c < fend'[a] /\ data'[a][c] = data[a][c]
  <2>1. c \in Cells /\ c < fend[a] /\ c \notin free[a]
    BY <1>10, LiveSound DEF IInv
  <2>2. c \notin Run(s.at, s.len)
    BY <2>1, <1>2
  <2>. QED BY <2>1, <2>2, <1>2, <1>8
<1>11. fstate' \in [Arenas -> FileStates] /\ fend' \in [Arenas -> 0 .. MaxCell]
  BY <1>1, <1>2
<1>. QED BY <1>2, <1>5, <1>6, <1>7, <1>9, <1>10, <1>11, RewriteSteps

(* A sample placed by a save reads as its packet, and the samples placed     *)
(* before it and every lease stay as they were.                              *)
LEMMA PlaceSampleStep == ASSUME IInv, PlaceSample PROVE IInv'
<1>. USE Numbers
<1>. DEFINE a == save.arena
<1>1. /\ save \in Save /\ SaveOwns /\ fstate \in [Arenas -> FileStates]
      /\ fend \in [Arenas -> 0 .. MaxCell] /\ data \in [Arenas -> [Cells -> Packets \cup {Zero}]]
  BY DEF IInv, StateOK, FilesOK
<1>2. /\ a \in Arenas /\ a # active /\ save.phase = "place" /\ fstate[a] = "sealed"
      /\ \A s \in save.index : Reads(a, s)
      /\ UNCHANGED <<enabled, active, spaceVars, fstate, captured, loose, held, backfillVars, clip, counters>>
  BY <1>1 DEF PlaceSample, SaveOwns
<1>3. PICK p \in save.todo, at \in Nat :
        /\ save' = [save EXCEPT !.todo = @ \ {p}, !.index = @ \cup {[pkt |-> p, at |-> at]}]
        /\ \/ (\E l \in InThisFile(p) : at = l.at) /\ UNCHANGED <<fend, data>>
           \/ /\ at = fend[a] /\ fend[a] + Size[p] <= MaxCell
              /\ fend' = [fend EXCEPT ![a] = @ + Size[p]]
              /\ \/ data' = [data EXCEPT ![a] = [c \in Cells |->
                              IF c \in Run(fend[a], Size[p]) THEN [d \in Cells |-> p][c] ELSE @[c]]]
                 \/ \E l \in Sources(p) : data' = [data EXCEPT ![a] = [c \in Cells |->
                        IF c \in Run(fend[a], Size[p])
                        THEN [d \in Cells |-> data[l.arena][l.at + (d - fend[a])]][c] ELSE @[c]]]
  <2>1. \A p \in Packets : \A l \in InThisFile(p) : l.at \in Nat
    BY LiveSound DEF IInv, InThisFile, Sources, Live
  <2>2. save.todo \subseteq Packets /\ fend[a] \in Nat
    BY <1>1, <1>2 DEF Save
  <2>. QED BY <2>1, <2>2 DEF PlaceSample
<1>. DEFINE new == [pkt |-> p, at |-> at]
<1>4. p \in Packets /\ Size[p] \in Nat /\ new \in Sample /\ fend[a] \in Nat
  BY <1>1, <1>2 DEF Save, Sample
<1>5. /\ save' \in Save /\ save'.pins = save.pins
      /\ save'.arena = a /\ save'.index = save.index \cup {new} /\ save'.phase = "place"
  BY <1>1, <1>2, <1>3, <1>4 DEF Save
<1>6. Live' \subseteq Live
  BY <1>2, <1>5 DEF Live, backfillVars
<1>7. StateOK'
  BY <1>2, <1>5 DEF IInv, StateOK, backfillVars, counters
<1>8. ASSUME NEW l \in Live, l.pkt = p
      PROVE  /\ l.arena \in Arenas /\ l.at \in Nat
             /\ \A d \in Run(l.at, Size[p]) : d \in Cells /\ d < fend[l.arena] /\ data[l.arena][d] = p
  BY <1>8, LiveSound DEF IInv
<1>9. ASSUME \A s \in save.index \cup {new} : Reads(a, s)' PROVE SaveOwns'
  <2>1. \A s \in save'.index : Reads(save.arena, s)'
    BY <1>5, <1>9
  <2>. QED BY <2>1, <1>1, <1>2, <1>5 DEF SaveOwns, Reads
<1>10. CASE (\E l \in InThisFile(p) : at = l.at) /\ UNCHANGED <<fend, data>>
  <2>1. PICK l \in InThisFile(p) : at = l.at
    BY <1>10
  <2>2. l \in Live /\ l.pkt = p /\ l.arena = a
    BY <2>1 DEF InThisFile, Sources, Live
  <2>3. ASSUME NEW c \in Run(at, Size[p]) PROVE c < fend[a] /\ data[a][c] = p
    BY <1>8, <2>1, <2>2
  <2>4. ASSUME NEW s \in save.index \cup {new} PROVE Reads(a, s)'
    <3>1. Reads(a, s)
      BY <1>2, <2>3 DEF Reads
    <3>. QED BY <3>1, <1>5, <1>10 DEF Reads
  <2>5. SaveOwns'
    BY <1>9, <2>4
  <2>6. UNCHANGED <<spaceVars, fileVars, clip>>
    BY <1>2, <1>10 DEF fileVars
  <2>. QED BY <2>5, <2>6, <1>6, <1>7, QuietSteps
<1>11. ASSUME NEW bytes \in [Cells -> Packets \cup {Zero}],
              at = fend[a], fend[a] + Size[p] <= MaxCell,
              \A c \in Run(at, Size[p]) : bytes[c] = p,
              fend' = [fend EXCEPT ![a] = @ + Size[p]],
              data' = [data EXCEPT ![a] = [c \in Cells |-> IF c \in Run(at, Size[p]) THEN bytes[c] ELSE @[c]]]
       PROVE  IInv'
  <2>1. /\ fend' \in [Arenas -> 0 .. MaxCell] /\ fend'[a] = fend[a] + Size[p]
        /\ \A b \in Arenas \ {a} : fend'[b] = fend[b]
    BY <1>1, <1>2, <1>4, <1>11
  <2>2. data'[a] = [c \in Cells |-> IF c \in Run(at, Size[p]) THEN bytes[c] ELSE data[a][c]]
    BY <1>1, <1>2, <1>11
  <2>3. /\ data' \in [Arenas -> [Cells -> Packets \cup {Zero}]]
        /\ \A b \in Arenas \ {a} : data'[b] = data[b]
    <3>1. [c \in Cells |-> IF c \in Run(at, Size[p]) THEN bytes[c] ELSE data[a][c]] \in [Cells -> Packets \cup {Zero}]
      BY <1>1, <1>2
    <3>. QED BY <3>1, <1>1, <1>11
  <2>4. ASSUME NEW c \in Cells, c < fend[a] PROVE c < fend'[a] /\ data'[a][c] = data[a][c]
    BY <2>1, <2>2, <2>4, <1>4, <1>11 DEF Run
  <2>5. ASSUME NEW l \in Live, l.arena = a, NEW c \in CellsOf(l)
        PROVE  c < fend'[a] /\ data'[a][c] = data[a][c]
    <3>1. c \in Cells /\ c < fend[a]
      BY <2>5, LiveSound DEF IInv
    <3>. QED BY <3>1, <2>4
  <2>6. ASSUME NEW s \in save.index PROVE Reads(a, s)'
    <3>1. s.at \in Nat /\ Size[s.pkt] \in Nat /\ Reads(a, s)
      BY <1>1, <1>2 DEF Save, Sample
    <3>2. ASSUME NEW c \in Run(s.at, Size[s.pkt]) PROVE c < fend'[a] /\ data'[a][c] = s.pkt
      <4>1. c < fend[a] /\ data[a][c] = s.pkt
        BY <3>1 DEF Reads
      <4>2. c \in Nat /\ fend[a] \in 0 .. MaxCell
        BY <3>1, <1>1, <1>2 DEF Run
      <4>3. c \in Cells
        BY <4>1, <4>2
      <4>. QED BY <4>1, <4>3, <2>4
    <3>. QED BY <3>2, <1>5 DEF Reads
  <2>7. Reads(a, new)'
    <3>1. ASSUME NEW c \in Run(at, Size[p]) PROVE c < fend'[a] /\ data'[a][c] = p
      <4>1. c \in Cells /\ c < fend[a] + Size[p]
        BY <1>4, <1>11 DEF Run
      <4>. QED BY <4>1, <2>1, <2>2, <1>11
    <3>. QED BY <3>1, <1>5 DEF Reads
  <2>8. SaveOwns'
    BY <1>9, <2>6, <2>7
  <2>9. fstate' \in [Arenas -> FileStates] /\ fstate'[a] = "sealed"
    BY <1>1, <1>2
  <2>. QED BY <1>2, <1>6, <1>7, <2>1, <2>3, <2>5, <2>8, <2>9, RewriteSteps
<1>12. ASSUME at = fend[a], fend[a] + Size[p] <= MaxCell, fend' = [fend EXCEPT ![a] = @ + Size[p]],
              data' = [data EXCEPT ![a] = [c \in Cells |->
                          IF c \in Run(fend[a], Size[p]) THEN [d \in Cells |-> p][c] ELSE @[c]]]
       PROVE  IInv'
  <2>1. \A c \in Run(at, Size[p]) : [d \in Cells |-> p][c] = p
    BY <1>4, <1>12 DEF Run
  <2>2. [d \in Cells |-> p] \in [Cells -> Packets \cup {Zero}]
    BY <1>4
  <2>. QED BY <1>11, <1>12, <2>1, <2>2
<1>13. ASSUME NEW l \in Sources(p), at = fend[a], fend[a] + Size[p] <= MaxCell,
              fend' = [fend EXCEPT ![a] = @ + Size[p]],
              data' = [data EXCEPT ![a] = [c \in Cells |-> IF c \in Run(fend[a], Size[p])
                          THEN [d \in Cells |-> data[l.arena][l.at + (d - fend[a])]][c] ELSE @[c]]]
       PROVE  IInv'
  <2>. DEFINE read == [d \in Cells |-> IF d \in Run(at, Size[p]) THEN p ELSE 0]
  <2>1. l \in Live /\ l.pkt = p
    BY DEF Sources, Live
  <2>2. ASSUME NEW c \in Cells, c \in Run(fend[a], Size[p])
        PROVE  data[l.arena][l.at + (c - fend[a])] = p
    <3>1. l.at + (c - fend[a]) \in Run(l.at, Size[p])
      BY <2>1, <2>2, <1>4, <1>8 DEF Run
    <3>. QED BY <3>1, <2>1, <1>8
  <2>3. \A c \in Run(at, Size[p]) : c \in Cells /\ read[c] = p
    BY <1>4, <1>13 DEF Run
  <2>4. read \in [Cells -> Packets \cup {Zero}]
    BY <1>4
  <2>5. data' = [data EXCEPT ![a] = [c \in Cells |-> IF c \in Run(at, Size[p]) THEN read[c] ELSE @[c]]]
    BY <1>13, <2>2, <2>3
  <2>. HIDE DEF read
  <2>. QED BY <1>11, <1>13, <2>3, <2>4, <2>5
<1>. QED BY <1>3, <1>10, <1>12, <1>13

-----------------------------------------------------------------------------
(* Theorems. *)

(* The inductive invariant: leases are sound and apart, the recording of a   *)
(* save in progress is out of the archive's reach and what it has placed     *)
(* reads back.                                                              *)
THEOREM Invariance == Spec => []IInv
<1>1. IInv /\ [Next]_vars => IInv'
  <2>. SUFFICES ASSUME IInv, [Next]_vars PROVE IInv'
    OBVIOUS
  <2>1. CASE Capture
    BY <2>1, CaptureStep
  <2>2. ASSUME NEW p \in Packets, Persist(p) PROVE IInv'
    BY <2>2, PersistStep
  <2>3. ASSUME NEW p \in Packets, PersistFails(p) PROVE IInv'
    BY <2>3, PersistFailsStep
  <2>4. ASSUME NEW p \in Packets, Expire(p) PROVE IInv'
    BY <2>4, DropActions
  <2>5. CASE Reconfigure \/ (\E t \in Tracks : RehomeGivesUp(t) \/ InstallMoved(t))
    BY <2>5, DropActions
  <2>6. CASE (\E t \in Tracks, lo, hi \in Packets : RehomePick(t, lo, hi)) \/ SelectWindow \/ NothingToTake \/ SealSnapshot
    BY <2>6, RecordActions
  <2>7. ASSUME NEW t \in Tracks, RehomeWrite(t) PROVE IInv'
    BY <2>7, RehomeWriteStep
  <2>8. CASE TakeForSave
    BY <2>8, TakeForSaveStep
  <2>9. CASE TrimEnd
    BY <2>9, TrimEndStep
  <2>10. CASE ZeroSlot
    BY <2>10, ZeroSlotStep
  <2>11. CASE Seal \/ Finalize \/ Publish
    BY <2>11, FileSteps
  <2>12. CASE PlaceSample
    BY <2>12, PlaceSampleStep
  <2>13. CASE SealFails \/ PlaceFails \/ FinishSave \/ CopyFails
    BY <2>13, EndActions
  <2>14. CASE UNCHANGED vars
    <3>1. Live' = Live
      BY <2>14 DEF vars, Live
    <3>2. StateOK'
      BY <2>14 DEF vars, IInv, StateOK
    <3>3. SaveOwns'
      BY <2>14, OwnsQuiet DEF vars, IInv, spaceVars, fileVars
    <3>. QED BY <2>14, <3>1, <3>2, <3>3, QuietSteps DEF vars, spaceVars, fileVars
  <2>. QED BY <2>1, <2>2, <2>3, <2>4, <2>5, <2>6, <2>7, <2>8, <2>9, <2>10, <2>11, <2>12, <2>13, <2>14 DEF Next
<1>. QED BY <1>1, InitIInv, PTL DEF Spec

(* Types, and the size limit: no recording the archive writes grows beyond    *)
(* `maximum` (Arena::place).                                                *)
THEOREM TypeCorrect == Spec => []TypeOK
<1>1. IInv => TypeOK
  BY DEF IInv, StateOK, SpaceOK, FilesOK, LeasesOK, Sound, TypeOK
<1>. QED BY <1>1, Invariance, PTL

(* Neither the spill workers, the backfill nor a save write over footage      *)
(* that any store, save or backfill still refers to.                         *)
THEOREM NoOverlapAlways == Spec => []NoOverlap
<1>1. IInv => NoOverlap
  BY DEF IInv, LeasesOK, Sound, Apart, NoOverlap
<1>. QED BY <1>1, Invariance, PTL

(* A lease reads back its own packet, through detach, trim, zeroing and       *)
(* publication of the file it lies in.                                       *)
THEOREM LeasesReadable == Spec => []LeaseReadable
<1>1. ASSUME IInv PROVE LeaseReadable
  <2>1. ASSUME NEW l \in Live
        PROVE  /\ CellsOf(l) \subseteq Cut(fend[l.arena])
               /\ \A c \in CellsOf(l) : data[l.arena][c] = l.pkt
    <3>1. /\ CellsOf(l) \subseteq Cells /\ l.arena \in Arenas
          /\ \A c \in CellsOf(l) : c < fend[l.arena] /\ data[l.arena][c] = l.pkt
      BY <1>1, LiveSound DEF IInv
    <3>2. fend[l.arena] \in 0 .. MaxCell
      BY <1>1, <3>1 DEF IInv, FilesOK
    <3>3. CellsOf(l) \subseteq Cut(fend[l.arena])
      BY <3>1, <3>2, Numbers DEF Cut
    <3>. QED BY <3>1, <3>3
  <2>. QED BY <2>1 DEF LeaseReadable
<1>. QED BY <1>1, Invariance, PTL

(* Every sample the index of a finished clip names reads as that sample.      *)
THEOREM ClipsIntact == Spec => []ClipIntact
<1>1. IInv => ClipIntact
  BY DEF IInv
<1>. QED BY <1>1, Invariance, PTL

-----------------------------------------------------------------------------
(* No room is lost. *)

(* What the count of the room needs beyond it: the pins of a save are not     *)
(* replaced while there are any, which would lose their room.                *)
Complete ==
    /\ NothingLeaks
    /\ save.phase = "idle" => save.pins = {}

(* Steps that move no room and keep every reference.                         *)
LEMMA SameRoom ==
    ASSUME NothingLeaks, UNCHANGED spaceVars, Live' = Live
    PROVE  NothingLeaks'
BY DEF NothingLeaks, spaceVars, Leased

(* Letting go of references gives their room back.                           *)
LEMMA DroppedRoom ==
    ASSUME NothingLeaks, NEW state, DropReferences(state), Live' \subseteq Live
    PROVE  NothingLeaks'
<1>1. ASSUME NEW a \in Arenas PROVE Cut(end'[a]) = free'[a] \cup Leased(a, Live')
  <2>1. CASE Referenced(a)'
    <3>1. end'[a] = end[a] /\ free'[a] = free[a] \cup Leased(a, Live \ Live')
      BY <2>1 DEF DropReferences
    <3>2. Leased(a, Live) = Leased(a, Live \ Live') \cup Leased(a, Live')
      BY DEF Leased
    <3>. QED BY <3>1, <3>2 DEF NothingLeaks
  <2>2. CASE ~Referenced(a)'
    <3>1. end'[a] = 0 /\ free'[a] = {}
      BY <2>2 DEF DropReferences
    <3>2. Leased(a, Live') = {}
      BY <2>2 DEF Referenced, Leased
    <3>. QED BY <3>1, <3>2 DEF Cut
  <2>. QED BY <2>1, <2>2
<1>. QED BY <1>1 DEF NothingLeaks

(* A write takes from the free room, or adds at the end, just what its        *)
(* leases cover.                                                            *)
LEMMA WrittenRoom ==
    ASSUME IInv, NothingLeaks, NEW a \in Arenas, NEW n \in Nat, n > 0, NEW at \in Place(a, n),
           end' = [end EXCEPT ![a] = IF at + n > @ THEN at + n ELSE @],
           free' = [free EXCEPT ![a] = @ \ Run(at, n)],
           NEW New, Live' = Live \cup New, \A l \in New : l.arena = a,
           UNION {CellsOf(l) : l \in New} = Run(at, n)
    PROVE  NothingLeaks'
<1>1. ASSUME NEW b \in Arenas PROVE Leased(b, Live') = Leased(b, Live) \cup (IF b = a THEN Run(at, n) ELSE {})
  BY DEF Leased
<1>2. /\ free \in [Arenas -> SUBSET Cells] /\ end \in [Arenas -> 0 .. Cap]
      /\ at \in Nat /\ (Run(at, n) \subseteq free[a] \/ at = end[a])
  BY PlaceInside, PlaceFree DEF IInv, SpaceOK
<1>3. free'[a] = free[a] \ Run(at, n) /\ end'[a] = IF at + n > end[a] THEN at + n ELSE end[a]
  BY <1>2
<1>4. Cut(end[a]) = free[a] \cup Leased(a, Live) /\ end[a] \in Nat
  BY <1>2, Numbers DEF NothingLeaks
<1>5. Cut(end'[a]) = Cut(end[a]) \cup Run(at, n)
  <2>1. CASE at = end[a]
    <3>1. end'[a] = end[a] + n
      BY <2>1, <1>3, <1>4
    <3>. QED BY <3>1, <2>1, <1>4 DEF Cut, Run
  <2>2. CASE Run(at, n) \subseteq free[a]
    <3>1. at + n - 1 \in Cut(end[a])
      BY <2>2, <1>2, <1>4 DEF Run
    <3>2. end'[a] = end[a]
      BY <3>1, <1>2, <1>3, <1>4 DEF Cut
    <3>. QED BY <2>2, <3>2, <1>4
  <2>. QED BY <2>1, <2>2, <1>2
<1>6. Cut(end'[a]) = free'[a] \cup Leased(a, Live')
  BY <1>1, <1>3, <1>4, <1>5
<1>7. ASSUME NEW b \in Arenas \ {a} PROVE Cut(end'[b]) = free'[b] \cup Leased(b, Live')
  <2>1. end'[b] = end[b] /\ free'[b] = free[b] /\ Leased(b, Live') = Leased(b, Live)
    BY <1>1, <1>2
  <2>. QED BY <2>1 DEF NothingLeaks
<1>. QED BY <1>6, <1>7 DEF NothingLeaks

(* Of a packet, and of a chunk that is copied forward.                       *)
LEMMA WritesComplete ==
    ASSUME IInv, Complete, (\E p \in Packets : Persist(p)) \/ \E t \in Tracks : RehomeWrite(t)
    PROVE  Complete'
<1>. USE Numbers
<1>1. ASSUME NEW p \in Packets, Persist(p) PROVE Complete'
  <2>1. UNCHANGED <<backfillVars, save>>
    BY <1>1 DEF Persist
  <2>2. CASE UNCHANGED <<spaceVars, held>>
    <3>1. Live' = Live
      BY <2>1, <2>2 DEF Live, backfillVars
    <3>. QED BY <2>1, <2>2, <3>1, SameRoom DEF Complete, backfillVars
  <2>3. ASSUME NEW a \in Arenas, NEW at \in Place(a, Size[p]),
               WriteRun(a, at, Size[p], [c \in Cells |-> p]),
               free' = [free EXCEPT ![a] = @ \ Run(at, Size[p])],
               held' = held \cup {[pkt |-> p, arena |-> a, at |-> at]}
        PROVE  Complete'
    <3>. DEFINE new == [pkt |-> p, arena |-> a, at |-> at]
    <3>1. Live' = Live \cup {new}
      BY <2>1, <2>3 DEF Live, backfillVars
    <3>2. UNION {CellsOf(l) : l \in {new}} = Run(at, Size[p]) /\ \A l \in {new} : l.arena = a
      BY DEF CellsOf, Run
    <3>3. end' = [end EXCEPT ![a] = IF at + Size[p] > @ THEN at + Size[p] ELSE @]
      BY <2>3 DEF WriteRun
    <3>4. NothingLeaks'
      BY <2>3, <3>1, <3>2, <3>3, WrittenRoom DEF Complete
    <3>. QED BY <2>1, <3>4 DEF Complete, backfillVars
  <2>. QED BY <1>1, <2>2, <2>3 DEF Persist
<1>2. ASSUME NEW t \in Tracks, RehomeWrite(t) PROVE Complete'
  <2>1. PICK a \in Arenas, n \in 1 .. Cap : \E at \in Place(a, n) : \E off \in Layouts(Picked(t), at, n) :
            /\ WriteRun(a, at, n, Copied(Picked(t), off))
            /\ free' = [free EXCEPT ![a] = @ \ Run(at, n)]
            /\ moving' = moving \cup {<<l, [pkt |-> l.pkt, arena |-> a, at |-> off[l]]>> : l \in Picked(t)}
    BY <1>2 DEF RehomeWrite
  <2>2a. PICK at \in Place(a, n) : \E off \in Layouts(Picked(t), at, n) :
            /\ WriteRun(a, at, n, Copied(Picked(t), off))
            /\ free' = [free EXCEPT ![a] = @ \ Run(at, n)]
            /\ moving' = moving \cup {<<l, [pkt |-> l.pkt, arena |-> a, at |-> off[l]]>> : l \in Picked(t)}
    BY <2>1
  <2>2. PICK off \in Layouts(Picked(t), at, n) :
            /\ WriteRun(a, at, n, Copied(Picked(t), off))
            /\ free' = [free EXCEPT ![a] = @ \ Run(at, n)]
            /\ moving' = moving \cup {<<l, [pkt |-> l.pkt, arena |-> a, at |-> off[l]]>> : l \in Picked(t)}
    BY <2>2a
  <2>3. picked' = picked \ Picked(t) /\ Picked(t) \subseteq picked /\ UNCHANGED <<held, save>>
    BY <1>2 DEF RehomeWrite, Picked
  <2>. DEFINE Moved(l) == [pkt |-> l.pkt, arena |-> a, at |-> off[l]]
              New == {Moved(l) : l \in Picked(t)}
  <2>4. /\ {m[1] : m \in moving'} = {m[1] : m \in moving} \cup Picked(t)
        /\ {m[2] : m \in moving'} = {m[2] : m \in moving} \cup New
    <3>1. moving' = moving \cup {<<l, Moved(l)>> : l \in Picked(t)}
      BY <2>2
    <3>2. /\ {m[1] : m \in moving'} \subseteq {m[1] : m \in moving} \cup Picked(t)
          /\ {m[2] : m \in moving'} \subseteq {m[2] : m \in moving} \cup New
      BY <3>1
    <3>3. ASSUME NEW l \in Picked(t) PROVE l \in {m[1] : m \in moving'} /\ Moved(l) \in {m[2] : m \in moving'}
      <4>1. PICK m \in moving' : m = <<l, Moved(l)>>
        BY <3>1
      <4>2. m[1] = l /\ m[2] = Moved(l)
        BY <4>1
      <4>. QED BY <4>2
    <3>4. {m[1] : m \in moving} \subseteq {m[1] : m \in moving'} /\ {m[2] : m \in moving} \subseteq {m[2] : m \in moving'}
      BY <3>1
    <3>. HIDE DEF Moved
    <3>. QED BY <3>2, <3>3, <3>4
  <2>5. Live' = Live \cup New
    <3>. HIDE DEF New
    <3>. QED BY <2>3, <2>4 DEF Live
  <2>6. UNION {CellsOf(l) : l \in New} = Run(at, n)
    <3>1. \A l \in Picked(t) : CellsOf(Moved(l)) = Run(off[l], Size[l.pkt])
      BY DEF CellsOf, Run
    <3>2. UNION {Run(off[l], Size[l.pkt]) : l \in Picked(t)} = Run(at, n)
      BY DEF Layouts
    <3>. QED BY <3>1, <3>2
  <2>7. end' = [end EXCEPT ![a] = IF at + n > @ THEN at + n ELSE @]
    BY <2>2 DEF WriteRun
  <2>8. n \in Nat /\ n > 0 /\ \A l \in New : l.arena = a
    OBVIOUS
  <2>9. NothingLeaks'
    BY <2>2, <2>5, <2>6, <2>7, <2>8, WrittenRoom DEF Complete
  <2>. QED BY <2>3, <2>9 DEF Complete
<1>. QED BY <1>1, <1>2

(* Every step that lets go of references keeps the count.                    *)
LEMMA DropsComplete ==
    ASSUME IInv, Complete,
           \/ (\E p \in Packets : Expire(p)) \/ Reconfigure \/ (\E t \in Tracks : RehomeGivesUp(t) \/ InstallMoved(t))
           \/ SealFails \/ PlaceFails \/ FinishSave \/ CopyFails
    PROVE  Complete'
<1>1. save \in Save /\ IdleSave.pins = {}
  BY DEF IInv, StateOK, IdleSave
<1>2. Live' \subseteq Live
  <2>1. CASE \E p \in Packets : Expire(p)
    BY <2>1 DEF Expire, Live
  <2>2. CASE Reconfigure
    BY <2>2 DEF Reconfigure, Live, backfillVars
  <2>3. ASSUME NEW t \in Tracks, RehomeGivesUp(t) PROVE Live' \subseteq Live
    BY <2>3 DEF RehomeGivesUp, Live
  <2>4. ASSUME NEW t \in Tracks, InstallMoved(t) PROVE Live' \subseteq Live
    BY <2>4 DEF InstallMoved, Installed, Moving, Live
  <2>5. CASE SealFails
    BY <2>5, <1>1 DEF SealFails, Live, backfillVars, Save
  <2>6. CASE PlaceFails \/ CopyFails
    BY <2>6, <1>1 DEF PlaceFails, CopyFails, Live, backfillVars
  <2>7. CASE FinishSave
    BY <2>7, <1>1 DEF FinishSave, Live
  <2>. QED BY <2>1, <2>2, <2>3, <2>4, <2>5, <2>6, <2>7
<1>3. NothingLeaks'
  <2>1. \E state : DropReferences(state)
    BY DEF Expire, Reconfigure, RehomeGivesUp, InstallMoved, SealFails, PlaceFails, FinishSave, CopyFails
  <2>. QED BY <1>2, <2>1, DroppedRoom DEF Complete
<1>4. save'.phase = "idle" => save'.pins = {}
  <2>1. CASE SealFails
    BY <2>1, <1>1 DEF SealFails, Save
  <2>2. CASE ~SealFails
    BY <2>2, <1>1 DEF Complete, Expire, Reconfigure, RehomeGivesUp, InstallMoved, PlaceFails, FinishSave, CopyFails
  <2>. QED BY <2>1, <2>2
<1>. QED BY <1>3, <1>4 DEF Complete

(* What is picked or pinned was held already; everything else keeps all       *)
(* references and all room.                                                  *)
LEMMA RestComplete ==
    ASSUME IInv, Complete,
           \/ Capture \/ (\E p \in Packets : PersistFails(p))
           \/ (\E t \in Tracks, lo, hi \in Packets : RehomePick(t, lo, hi))
           \/ SelectWindow \/ TakeForSave \/ NothingToTake \/ SealSnapshot
           \/ TrimEnd \/ ZeroSlot \/ Seal \/ PlaceSample \/ Finalize \/ Publish
    PROVE  Complete'
<1>1. save \in Save
  BY DEF IInv, StateOK
<1>2. CASE Capture \/ \E p \in Packets : PersistFails(p)
  <2>1. UNCHANGED <<spaceVars, held, backfillVars, save>>
    BY <1>2 DEF Capture, PersistFails
  <2>2. Live' = Live
    BY <2>1 DEF Live, backfillVars
  <2>. QED BY <2>1, <2>2, SameRoom DEF Complete, backfillVars
<1>3. CASE \E t \in Tracks, lo, hi \in Packets : RehomePick(t, lo, hi)
  <2>1. /\ UNCHANGED <<spaceVars, held, moving, save>>
        /\ picked \subseteq picked' /\ picked' \subseteq picked \cup held
    BY <1>3 DEF RehomePick
  <2>2. Live' = Live
    BY <2>1 DEF Live
  <2>. QED BY <2>1, <2>2, SameRoom DEF Complete
<1>4. CASE SelectWindow
  <2>1. /\ UNCHANGED <<spaceVars, held, backfillVars>> /\ save.pins = {}
        /\ save'.phase = "selected" /\ save'.pins \subseteq held
    BY <1>4 DEF SelectWindow, Complete, IdleSave
  <2>2. Live' = Live
    BY <2>1 DEF Live, backfillVars
  <2>. QED BY <2>1, <2>2, SameRoom DEF Complete, backfillVars
<1>5. CASE TakeForSave \/ NothingToTake \/ SealSnapshot \/ TrimEnd \/ ZeroSlot \/ Seal \/ PlaceSample \/ Finalize \/ Publish
  <2>1. UNCHANGED <<spaceVars, held, backfillVars>>
    BY <1>5 DEF TakeForSave, NothingToTake, SealSnapshot, Snapshot, TrimEnd, ZeroSlot, Seal, PlaceSample, Finalize, Publish
  <2>2. save'.pins = save.pins /\ save'.phase # "idle"
    <3>1. CASE TakeForSave \/ NothingToTake \/ SealSnapshot
      BY <3>1, <1>1 DEF TakeForSave, NothingToTake, SealSnapshot, Snapshot, Save
    <3>2. CASE TrimEnd
      BY <3>2, <1>1 DEF TrimEnd, Save
    <3>3. CASE ZeroSlot \/ Seal \/ Publish
      BY <3>3, <1>1 DEF ZeroSlot, Seal, Publish, Save
    <3>4. CASE PlaceSample
      BY <3>4, <1>1 DEF PlaceSample, Save
    <3>5. CASE Finalize
      BY <3>5 DEF Finalize
    <3>. QED BY <1>5, <3>1, <3>2, <3>3, <3>4, <3>5
  <2>3. Live' = Live
    BY <2>1, <2>2 DEF Live, backfillVars
  <2>. QED BY <2>1, <2>2, <2>3, SameRoom DEF Complete, backfillVars
<1>. QED BY <1>2, <1>3, <1>4, <1>5

(* Every cell an arena has handed out is leased or back in its free map,      *)
(* whatever the order and the thread in which leases die.                    *)
THEOREM NoRoomIsLost == Spec => []NothingLeaks
<1>1. Init => Complete
  <2>. SUFFICES ASSUME Init PROVE Complete
    OBVIOUS
  <2>1. Live = {}
    BY DEF Init, Live, IdleSave
  <2>2. \A a \in Arenas : Cut(end[a]) = {} /\ free[a] = {} /\ Leased(a, Live) = {}
    BY <2>1 DEF Init, Cut, Leased
  <2>. QED BY <2>2 DEF Init, Complete, NothingLeaks, IdleSave
<1>2. IInv /\ Complete /\ [Next]_vars => Complete'
  <2>. SUFFICES ASSUME IInv, Complete, [Next]_vars PROVE Complete'
    OBVIOUS
  <2>1. CASE UNCHANGED vars
    <3>1. Live' = Live
      BY <2>1 DEF vars, Live
    <3>. QED BY <2>1, <3>1, SameRoom DEF vars, Complete, spaceVars
  <2>. QED BY <2>1, WritesComplete, DropsComplete, RestComplete DEF Next
<1>3. Complete => NothingLeaks
  BY DEF Complete
<1>. QED BY <1>1, <1>2, <1>3, Invariance, PTL DEF Spec

-----------------------------------------------------------------------------
(* Nothing dropped comes back. *)

(* A copy is one of the packet it was copied from.                           *)
Copies == \A m \in moving : m[2].pkt = m[1].pkt

LEMMA CopiesKept == ASSUME Copies, [Next]_vars PROVE Copies'
<1>1. ASSUME NEW t \in Tracks, RehomeWrite(t) PROVE Copies'
  <2>1. PICK a \in Arenas, n \in 1 .. Cap : \E at \in Place(a, n) : \E off \in Layouts(Picked(t), at, n) :
            moving' = moving \cup {<<l, [pkt |-> l.pkt, arena |-> a, at |-> off[l]]>> : l \in Picked(t)}
    BY <1>1 DEF RehomeWrite
  <2>2. ASSUME NEW off,
               moving' = moving \cup {<<l, [pkt |-> l.pkt, arena |-> a, at |-> off[l]]>> : l \in Picked(t)}
        PROVE  Copies'
    BY <2>2 DEF Copies
  <2>. QED BY <2>1, <2>2
<1>2. ASSUME NEW t \in Tracks, InstallMoved(t) PROVE Copies'
  BY <1>2 DEF InstallMoved, Copies
<1>3. CASE UNCHANGED moving
  BY <1>3 DEF Copies
<1>. QED
  BY <1>1, <1>2, <1>3 DEF Next, vars, backfillVars, Capture, Persist, PersistFails, Expire, Reconfigure,
     RehomePick, RehomeGivesUp, SelectWindow, TakeForSave, NothingToTake, SealSnapshot, Snapshot, TrimEnd,
     ZeroSlot, Seal, PlaceSample, Finalize, Publish, SealFails, PlaceFails, CopyFails, FinishSave

(* What a store holds after a step it held before, in memory or in an arena;  *)
(* but for the packet that was captured.                                     *)
LEMMA NothingReturns ==
    ASSUME Copies, [Next]_vars, NEW p \in Packets, p \in Retained'
    PROVE  p \in Retained \/ (p = captured + 1 /\ Capture)
<1>1. CASE Capture
  BY <1>1 DEF Capture, Retained
<1>2. ASSUME NEW q \in Packets, Persist(q) PROVE p \in Retained
  <2>1. q \in loose
    BY <1>2 DEF Persist, NextToPersist
  <2>2. \/ UNCHANGED <<held, loose>>
        \/ \E a \in Arenas : \E at \in Place(a, Size[q]) :
             held' = held \cup {[pkt |-> q, arena |-> a, at |-> at]} /\ loose' = loose \ {q}
    BY <1>2 DEF Persist
  <2>. QED BY <2>1, <2>2 DEF Retained
<1>3. ASSUME NEW q \in Packets, Expire(q) PROVE p \in Retained
  BY <1>3 DEF Expire, Retained
<1>4. ASSUME NEW t \in Tracks, InstallMoved(t) PROVE p \in Retained
  <2>1. loose' = loose /\ held' = Installed(t)
    BY <1>4 DEF InstallMoved
  <2>2. ASSUME NEW l \in Installed(t) PROVE \E k \in held : k.pkt = l.pkt
    <3>1. l \in held \/ \E m \in moving : m[1] \in held /\ l = m[2]
      BY DEF Installed, Moving
    <3>. QED BY <3>1 DEF Copies
  <2>. QED BY <2>1, <2>2 DEF Retained
<1>5. CASE UNCHANGED <<loose, held>>
  BY <1>5 DEF Retained
<1>. QED
  BY <1>1, <1>2, <1>3, <1>4, <1>5 DEF Next, vars, PersistFails, Reconfigure,
     RehomePick, RehomeWrite, RehomeGivesUp, SelectWindow, TakeForSave, NothingToTake, SealSnapshot, Snapshot,
     TrimEnd, ZeroSlot, Seal, PlaceSample, Finalize, Publish, SealFails, PlaceFails, CopyFails, FinishSave

(* Footage retention or a save has dropped never comes back, whenever a copy   *)
(* of it is installed.                                                       *)
THEOREM DroppedForGood == Spec => DroppedStaysDropped
<1>1. Init => Copies
  BY DEF Init, Copies
<1>2. Copies /\ [Next]_vars => Copies'
  BY CopiesKept
<1>3. IInv /\ Copies /\ [Next]_vars =>
        [\A p \in Packets : p <= captured /\ p \notin Retained => p \notin Retained']_vars
  <2>. SUFFICES ASSUME IInv, Copies, [Next]_vars, NEW p \in Packets, p <= captured, p \in Retained'
               PROVE  p \in Retained
    OBVIOUS
  <2>1. captured \in Int /\ p \in Int
    BY PacketsAssumption DEF IInv, StateOK, Packets
  <2>2. p # captured + 1
    BY <2>1
  <2>. QED BY <2>2, NothingReturns
<1>. QED BY <1>1, <1>2, <1>3, Invariance, PTL DEF Spec, DroppedStaysDropped

-----------------------------------------------------------------------------
(* What was free when a save froze the recording leaves as zeros. *)

(* A set of numbers has a least member.                                      *)
LEMMA LeastMember ==
    ASSUME NEW S \in SUBSET Nat, S # {}
    PROVE  \E x \in S : \A y \in S : x <= y
<1>. DEFINE Below == {0 .. x : x \in S}
<1>1. Below \subseteq FiniteSubsetsOf(Nat) /\ Below # {}
  <2>1. ASSUME NEW x \in S PROVE 0 .. x \in FiniteSubsetsOf(Nat)
    <3>1. IsFiniteSet(0 .. x)
      BY FS_Interval
    <3>. QED BY <3>1 DEF FiniteSubsetsOf
  <2>. QED BY <2>1
<1>2. PICK B \in Below : \A C \in Below : <<C, B>> \notin StrictSubsetOrdering(Nat)
  BY <1>1, FS_StrictSubsetOrderingWellFounded, WFMin
<1>3. PICK x \in S : B = 0 .. x
  BY <1>2
<1>4. ASSUME NEW y \in S, y < x PROVE FALSE
  <2>1. 0 .. y \in Below /\ 0 .. y \subseteq 0 .. x /\ x \in 0 .. x /\ x \notin 0 .. y
    BY <1>4
  <2>2. <<0 .. y, 0 .. x>> \in StrictSubsetOrdering(Nat)
    BY <2>1 DEF StrictSubsetOrdering
  <2>. QED BY <2>1, <2>2, <1>2, <1>3
<1>. QED BY <1>4

(* The entries of a free map cover all of it.                                *)
LEMMA SlotsCover ==
    ASSUME NEW F \in SUBSET (0 .. Cap - 1), NEW c \in F
    PROVE  \E s \in Slots(F) : c \in Run(s.at, s.len)
<1>. USE Numbers
<1>. DEFINE S == {x \in Nat : x <= c /\ x .. c \subseteq F}
            T == {y \in Nat : c < y /\ y \notin F}
<1>0. c \in Nat /\ c < Cap
  OBVIOUS
<1>1. PICK lo \in S : \A y \in S : lo <= y
  <2>1. c \in S
    BY <1>0
  <2>. QED BY <2>1, LeastMember
<1>2. PICK hi \in T : \A y \in T : hi <= y
  <2>1. Cap \in T
    BY <1>0
  <2>. QED BY <2>1, LeastMember
<1>3. hi <= Cap
  BY <1>0, <1>2
<1>4. lo - 1 \notin F
  <2>. SUFFICES ASSUME lo - 1 \in F PROVE FALSE
    OBVIOUS
  <2>1. lo - 1 \in Nat /\ lo - 1 <= c
    BY <1>0, <1>1
  <2>2. (lo - 1) .. c \subseteq F
    BY <1>0, <1>1
  <2>3. lo - 1 \in S
    BY <2>1, <2>2
  <2>. QED BY <2>3, <1>1
<1>5. Run(lo, hi - lo) \subseteq F
  <2>1. ASSUME NEW x \in lo .. hi - 1 PROVE x \in F
    <3>1. CASE x <= c
      BY <3>1, <1>0, <1>1
    <3>2. CASE x > c /\ x \notin F
      <4>1. x \in T
        BY <3>2, <1>0, <1>1
      <4>. QED BY <4>1, <1>2
    <3>. QED BY <3>1, <3>2, <1>0, <1>1, <1>2
  <2>2. Run(lo, hi - lo) = lo .. hi - 1
    BY <1>1, <1>2 DEF Run
  <2>. QED BY <2>1, <2>2
<1>. DEFINE s == [at |-> lo, len |-> hi - lo]
<1>6. lo \in F /\ hi - lo \in 1 .. Cap
  BY <1>0, <1>1, <1>2, <1>3
<1>7. lo + (hi - lo) = hi /\ hi \notin F
  BY <1>1, <1>2
<1>8. s \in Slots(F)
  BY <1>4, <1>5, <1>6, <1>7 DEF Slots
<1>9. c \in Run(lo, hi - lo)
  BY <1>0, <1>1, <1>2 DEF Run
<1>. QED BY <1>8, <1>9

(* Only one of them ends at a given place.                                   *)
LEMMA OneTail ==
    ASSUME NEW F \in SUBSET Nat, NEW s \in Slots(F), NEW t \in Slots(F), s.at + s.len = t.at + t.len
    PROVE  s.at = t.at
<1>1. /\ s.at \in Nat /\ s.len \in Nat /\ Run(s.at, s.len) \subseteq F /\ s.at - 1 \notin F
      /\ t.at \in Nat /\ t.len \in Nat /\ Run(t.at, t.len) \subseteq F /\ t.at - 1 \notin F
      /\ s.len > 0 /\ t.len > 0
  <2>1. ASSUME NEW u \in Slots(F)
        PROVE  u.at \in Nat /\ u.len \in Nat /\ u.len > 0 /\ Run(u.at, u.len) \subseteq F /\ u.at - 1 \notin F
    <3>1. u.at \in F /\ u.len \in 1 .. Cap /\ Run(u.at, u.len) \subseteq F /\ u.at - 1 \notin F
      BY DEF Slots
    <3>2. u.at \in Nat
      BY <3>1
    <3>3. u.len \in Nat /\ u.len > 0
      BY <3>1, Numbers
    <3>. QED BY <3>1, <3>2, <3>3
  <2>. QED BY <2>1
<1>2. CASE s.at < t.at
  <2>1. t.at - 1 \in Run(s.at, s.len)
    BY <1>1, <1>2 DEF Run
  <2>. QED BY <1>1, <2>1
<1>3. CASE t.at < s.at
  <2>1. s.at - 1 \in Run(t.at, t.len)
    BY <1>1, <1>3 DEF Run
  <2>. QED BY <1>1, <2>1
<1>. QED BY <1>1, <1>2, <1>3

(* A cell that was free at the snapshot is zero already or lies in a slot     *)
(* that is still to be zeroed.                                               *)
Blanked ==
    /\ save.phase \in {"trim", "zero"} =>
         \A c \in save.snap : \/ data[save.arena][c] = Zero
                              \/ \E s \in save.padding : c \in Run(s.at, s.len)
    /\ save.phase = "trim" => save.padding = Slots(save.snap)
    /\ PaddingZeroed

(* Steps of others leave the recording of a save as it is.                   *)
LEMMA BlankedKept ==
    ASSUME Blanked, save' = save,
           save.phase \in {"trim", "zero", "place"} => data'[save.arena] = data[save.arena]
    PROVE  Blanked'
<1>1. CASE save.phase \in {"trim", "zero", "place"}
  BY <1>1 DEF Blanked, PaddingZeroed, Slots, Run
<1>2. CASE save.phase \notin {"trim", "zero", "place"}
  BY <1>2 DEF Blanked, PaddingZeroed
<1>. QED BY <1>1, <1>2

(* Where a save in progress works, and that its recording is known.          *)
LEMMA SavePlace ==
    ASSUME IInv, save.phase \in {"trim", "zero", "place"}
    PROVE  /\ save.arena \in Arenas /\ save.arena # active
           /\ save.snap \subseteq Cells /\ save \in Save
           /\ data \in [Arenas -> [Cells -> Packets \cup {Zero}]]
BY DEF IInv, StateOK, FilesOK, SaveOwns, Save

LEMMA OthersBlanked ==
    ASSUME IInv, Blanked,
           \/ Capture \/ Reconfigure
           \/ (\E t \in Tracks : RehomeWrite(t) \/ RehomeGivesUp(t) \/ InstallMoved(t))
           \/ (\E p \in Packets : Persist(p) \/ PersistFails(p) \/ Expire(p))
           \/ (\E t \in Tracks, lo, hi \in Packets : RehomePick(t, lo, hi))
    PROVE  Blanked'
<1>1. save' = save
  BY DEF Capture, Reconfigure, RehomeWrite, RehomeGivesUp, InstallMoved, Persist, PersistFails, Expire, RehomePick
<1>. SUFFICES ASSUME save.phase \in {"trim", "zero", "place"} PROVE data'[save.arena] = data[save.arena]
  BY <1>1, BlankedKept
<1>2. save.arena \in Arenas /\ save.arena # active /\ data \in [Arenas -> [Cells -> Packets \cup {Zero}]]
  BY SavePlace
<1>3. CASE Capture \/ \E t \in Tracks, lo, hi \in Packets : RehomePick(t, lo, hi)
  BY <1>3 DEF Capture, RehomePick, fileVars
<1>4. CASE Reconfigure
  BY <1>4 DEF Reconfigure
<1>5. ASSUME DropReferences(fstate) PROVE data'[save.arena] = data[save.arena]
  <2>1. PICK a \in Arenas : a = save.arena
    BY <1>2
  <2>2. Referenced(a)'
    BY <1>1, <2>1 DEF Referenced
  <2>3. data'[a] = data[a]
    BY <1>5, <2>2 DEF DropReferences
  <2>. QED BY <2>1, <2>3
<1>6. CASE (\E t \in Tracks : RehomeGivesUp(t) \/ InstallMoved(t)) \/ \E p \in Packets : Expire(p)
  BY <1>5, <1>6 DEF RehomeGivesUp, InstallMoved, Expire
<1>7. CASE \E p \in Packets : PersistFails(p)
  BY <1>2, <1>7 DEF PersistFails
<1>8. ASSUME NEW a \in Arenas, EnsureActive(a), fstate'[a] = "appending",
             NEW at, NEW n, NEW bytes, WriteRun(a, at, n, bytes)
      PROVE  data'[save.arena] = data[save.arena]
  <2>1. save.arena # a
    BY <1>8, WriteTarget
  <2>. QED BY <1>2, <1>8, <2>1 DEF WriteRun
<1>9. CASE \E p \in Packets : Persist(p)
  BY <1>8, <1>9 DEF Persist
<1>10. CASE \E t \in Tracks : RehomeWrite(t)
  BY <1>8, <1>10 DEF RehomeWrite
<1>. QED BY <1>3, <1>4, <1>6, <1>7, <1>9, <1>10

(* The entries of the free map cover what is free, so the snapshot leaves     *)
(* nothing out.                                                              *)
LEMMA SnapshotBlanked == ASSUME IInv, SealSnapshot PROVE Blanked'
<1>. USE Numbers
<1>. DEFINE a == save.arena
            F == free[a]
<1>1. a \in Arenas /\ save \in Save /\ free \in [Arenas -> SUBSET Cells] /\ end \in [Arenas -> 0 .. Cap]
      /\ F \subseteq Cut(end[a])
  BY DEF SealSnapshot, Snapshot, IInv, StateOK, SpaceOK, SaveOwns
<1>2. /\ save'.phase = "trim" /\ save'.snap = F /\ save'.padding = Slots(F) /\ save'.arena = a
      /\ data' = data
  BY <1>1 DEF SealSnapshot, Snapshot, Save, fileVars
<1>3. F \in SUBSET (0 .. Cap - 1)
  <2>1. end[a] \in 0 .. Cap
    BY <1>1
  <2>. QED BY <1>1, <2>1 DEF Cut
<1>4. ASSUME NEW c \in F PROVE \E s \in Slots(F) : c \in Run(s.at, s.len)
  BY <1>3, SlotsCover
<1>. QED BY <1>2, <1>4 DEF Blanked, PaddingZeroed, Slots, Run

(* The slot that is cut off the file reads as zeros from then on; there is    *)
(* one at most.                                                              *)
LEMMA TrimBlanked == ASSUME IInv, Blanked, TrimEnd PROVE Blanked'
<1>. USE Numbers
<1>. DEFINE a == save.arena
            Tail == {s \in save.padding : s.at + s.len = end[a]}
<1>1. /\ a \in Arenas /\ save.snap \subseteq Cells /\ save \in Save /\ save.phase = "trim"
      /\ data \in [Arenas -> [Cells -> Packets \cup {Zero}]]
  BY SavePlace DEF TrimEnd
<1>2. save.padding = Slots(save.snap) /\ save.snap \in SUBSET Nat
  BY <1>1 DEF Blanked
<1>3. ASSUME NEW c \in save.snap
      PROVE  data[a][c] = Zero \/ \E s \in save.padding : c \in Run(s.at, s.len)
  BY <1>1 DEF Blanked
<1>4. CASE save' = [save EXCEPT !.phase = "zero"] /\ UNCHANGED <<fend, data>>
  <2>1. save'.phase = "zero" /\ save'.snap = save.snap /\ save'.padding = save.padding /\ save'.arena = a
    BY <1>1, <1>4 DEF Save
  <2>. QED BY <1>3, <1>4, <2>1 DEF Blanked, PaddingZeroed, Run
<1>5. CASE /\ \E s \in Tail : fend' = [fend EXCEPT ![a] = s.at]
           /\ data' = [data EXCEPT ![a] = [c \in Cells |-> IF c >= fend'[a] THEN Zero ELSE @[c]]]
           /\ save' = [save EXCEPT !.phase = "zero", !.padding = @ \ Tail]
  <2>1. PICK t \in Tail : fend' = [fend EXCEPT ![a] = t.at]
    BY <1>5
  <2>2. fend'[a] = t.at
    BY <1>1, <2>1 DEF IInv, FilesOK
  <2>3. data'[a] = [c \in Cells |-> IF c >= t.at THEN Zero ELSE data[a][c]]
    BY <1>1, <1>5, <2>2
  <2>4. save'.phase = "zero" /\ save'.snap = save.snap /\ save'.padding = save.padding \ Tail /\ save'.arena = a
    BY <1>1, <1>5 DEF Save
  <2>5. ASSUME NEW c \in save.snap
        PROVE  data'[a][c] = Zero \/ \E s \in save.padding \ Tail : c \in Run(s.at, s.len)
    <3>1. c \in Cells /\ c \in Nat
      BY <1>1, <1>2
    <3>2. CASE data[a][c] = Zero
      BY <3>1, <3>2, <2>3
    <3>3. ASSUME NEW s \in Tail, c \in Run(s.at, s.len) PROVE data'[a][c] = Zero
      <4>1. s.at = t.at
        BY <1>2, OneTail
      <4>2. c >= t.at
        BY <3>3, <4>1, <3>1 DEF Run
      <4>. QED BY <3>1, <4>2, <2>3
    <3>. QED BY <1>3, <3>2, <3>3
  <2>. QED BY <2>4, <2>5 DEF Blanked, PaddingZeroed, Run
<1>. QED BY <1>4, <1>5 DEF TrimEnd

(* A slot that is zeroed needs no zeroing any more; once none is left, the    *)
(* recording is sealed.                                                      *)
LEMMA ZeroBlanked == ASSUME IInv, Blanked, ZeroSlot \/ Seal PROVE Blanked'
<1>. DEFINE a == save.arena
<1>1. /\ a \in Arenas /\ save.snap \subseteq Cells /\ save \in Save /\ save.phase = "zero"
      /\ data \in [Arenas -> [Cells -> Packets \cup {Zero}]]
  BY SavePlace DEF ZeroSlot, Seal
<1>2. ASSUME NEW c \in save.snap
      PROVE  data[a][c] = Zero \/ \E s \in save.padding : c \in Run(s.at, s.len)
  BY <1>1 DEF Blanked
<1>3. CASE ZeroSlot
  <2>1. PICK s \in save.padding :
          /\ data' = [data EXCEPT ![a] = [c \in Cells |-> IF c \in Run(s.at, s.len) THEN Zero ELSE @[c]]]
          /\ save' = [save EXCEPT !.padding = @ \ {s}]
    BY <1>3 DEF ZeroSlot, Lowest
  <2>2. data'[a] = [c \in Cells |-> IF c \in Run(s.at, s.len) THEN Zero ELSE data[a][c]]
    BY <1>1, <2>1
  <2>3. save'.phase = "zero" /\ save'.snap = save.snap /\ save'.padding = save.padding \ {s} /\ save'.arena = a
    BY <1>1, <2>1 DEF Save
  <2>4. ASSUME NEW c \in save.snap
        PROVE  data'[a][c] = Zero \/ \E u \in save.padding \ {s} : c \in Run(u.at, u.len)
    BY <1>1, <1>2, <2>2
  <2>. QED BY <2>3, <2>4 DEF Blanked, PaddingZeroed, Run
<1>4. CASE Seal
  <2>1. save'.phase = "place" /\ save'.snap = save.snap /\ save'.arena = a /\ data' = data /\ save.padding = {}
    BY <1>1, <1>4 DEF Seal, Save
  <2>2. \A c \in save.snap : data'[a][c] = Zero
    BY <1>2, <2>1
  <2>. QED BY <2>1, <2>2 DEF Blanked, PaddingZeroed
<1>. QED BY <1>3, <1>4

(* What is appended there are samples of the clip.                           *)
LEMMA PlaceBlanked == ASSUME IInv, Blanked, PlaceSample \/ Finalize PROVE Blanked'
<1>. DEFINE a == save.arena
<1>1. /\ a \in Arenas /\ save.snap \subseteq Cells /\ save \in Save /\ save.phase = "place"
      /\ data \in [Arenas -> [Cells -> Packets \cup {Zero}]]
  BY SavePlace DEF PlaceSample, Finalize
<1>2. ASSUME NEW c \in save.snap
      PROVE  data[a][c] = Zero \/ \E s \in save.index : c \in Run(s.at, Size[s.pkt])
  BY <1>1 DEF Blanked, PaddingZeroed
<1>3. CASE Finalize
  BY <1>3, BlankedKept DEF Finalize
<1>4. CASE PlaceSample
  <2>. DEFINE Places(p, at) ==
                save' = [save EXCEPT !.todo = @ \ {p}, !.index = @ \cup {[pkt |-> p, at |-> at]}]
              Appends(p, bytes) ==
                data' = [data EXCEPT ![a] = [c \in Cells |->
                           IF c \in Run(fend[a], Size[p]) THEN bytes[c] ELSE @[c]]]
  <2>1. PICK p \in save.todo :
          \/ \E l \in InThisFile(p) : Places(p, l.at) /\ UNCHANGED data
          \/ /\ Places(p, fend[a])
             /\ \/ Appends(p, [c \in Cells |-> p])
                \/ \E l \in Sources(p) : Appends(p, [c \in Cells |-> data[l.arena][l.at + (c - fend[a])]])
    BY <1>4 DEF PlaceSample
  <2>2. ASSUME NEW at, Places(p, at),
               \A c \in save.snap : c \notin Run(at, Size[p]) => data'[a][c] = data[a][c]
        PROVE  Blanked'
    <3>1. /\ save'.phase = "place" /\ save'.snap = save.snap /\ save'.arena = a
          /\ save'.index = save.index \cup {[pkt |-> p, at |-> at]}
      BY <1>1, <2>2 DEF Save
    <3>2. ASSUME NEW c \in save.snap
          PROVE  data'[a][c] = Zero \/ \E s \in save'.index : c \in Run(s.at, Size[s.pkt])
      <4>1. CASE c \in Run(at, Size[p])
        <5>. DEFINE new == [pkt |-> p, at |-> at]
        <5>1. new \in save'.index /\ new.at = at /\ new.pkt = p
          BY <3>1
        <5>. QED BY <4>1, <5>1
      <4>2. CASE c \notin Run(at, Size[p])
        BY <4>2, <1>2, <2>2, <3>1
      <4>. QED BY <4>1, <4>2
    <3>. QED BY <3>1, <3>2 DEF Blanked, PaddingZeroed, Run
  <2>3. ASSUME NEW bytes, Appends(p, bytes), NEW c \in save.snap, c \notin Run(fend[a], Size[p])
        PROVE  data'[a][c] = data[a][c]
    <3>1. data'[a] = [d \in Cells |-> IF d \in Run(fend[a], Size[p]) THEN bytes[d] ELSE data[a][d]]
      BY <1>1, <2>3
    <3>. QED BY <1>1, <2>3, <3>1
  <2>. HIDE DEF Places, Appends
  <2>4. CASE \E l \in InThisFile(p) : Places(p, l.at) /\ UNCHANGED data
    BY <2>4, <2>2
  <2>5. ASSUME NEW bytes, Places(p, fend[a]), Appends(p, bytes)
        PROVE  Blanked'
    BY <2>5, <2>2, <2>3
  <2>. QED BY <2>1, <2>4, <2>5, Zenon
<1>. QED BY <1>3, <1>4

(* What was free when a save froze the recording is zero once it is sealed,   *)
(* unless the save put a sample there.                                       *)
THEOREM PaddingIsZeroed == Spec => []PaddingZeroed
<1>1. Init => Blanked
  BY DEF Init, IdleSave, Blanked, PaddingZeroed
<1>2. IInv /\ Blanked /\ [Next]_vars => Blanked'
  <2>. SUFFICES ASSUME IInv, Blanked, [Next]_vars PROVE Blanked'
    OBVIOUS
  <2>1. CASE UNCHANGED vars
    BY <2>1, BlankedKept DEF vars, fileVars
  <2>2. ASSUME save'.phase \notin {"trim", "zero", "place"} PROVE Blanked'
    BY <2>2 DEF Blanked, PaddingZeroed
  <2>3. save \in Save
    BY DEF IInv, StateOK
  <2>4. CASE SelectWindow \/ PlaceFails \/ FinishSave \/ CopyFails
    <3>1. CASE SelectWindow
      <4>1. save'.phase = "selected"
        BY <3>1 DEF SelectWindow, IdleSave
      <4>. QED BY <4>1, <2>2
    <3>2. CASE PlaceFails \/ FinishSave \/ CopyFails
      <4>1. save'.phase = "idle"
        BY <3>2 DEF PlaceFails, FinishSave, CopyFails, IdleSave
      <4>. QED BY <4>1, <2>2
    <3>. QED BY <2>4, <3>1, <3>2
  <2>5. CASE TakeForSave \/ NothingToTake \/ SealFails \/ Publish
    BY <2>2, <2>3, <2>5 DEF TakeForSave, NothingToTake, SealFails, Publish, Save
  <2>. QED BY <2>1, <2>4, <2>5, OthersBlanked, SnapshotBlanked, TrimBlanked, ZeroBlanked, PlaceBlanked DEF Next
<1>3. Blanked => PaddingZeroed
  BY DEF Blanked
<1>. QED BY <1>1, <1>2, <1>3, Invariance, PTL DEF Spec

=============================================================================
