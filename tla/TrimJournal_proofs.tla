------------------------- MODULE TrimJournal_proofs -------------------------
(* No stop and no failure costs a trimmed clip a kept sample: for clips,     *)
(* blocks and trims of any number and length.                               *)
EXTENDS TrimJournal, FiniteSetTheorems, WellFoundedInduction, TLAPS

-----------------------------------------------------------------------------
(* What is kept where.                                                       *)
Clips == [head : 0 .. NSamples, len : Nat, cells : [Cells -> 0 .. NSamples],
          index : [Cells -> SUBSET Samples]]
SlotType == [seq : Nat, next : 0 .. Done, staged : BOOLEAN]
Journals == [there : BOOLEAN, header : BOOLEAN, plan : BOOLEAN,
             slots : [0 .. 1 -> SlotType], staging : [1 .. BlockLen -> 0 .. NSamples]]

Beginning == {"plan", "planned", "committing"}
Moving == {"block", "staging", "staged", "moving", "recording"}
Ending == {"indexed", "headed", "cut"}

Types ==
    /\ clip \in Clips /\ disk \in Clips
    /\ journal \in [Trims -> Journals] /\ synced \in [Trims -> Journals]
    /\ keep \in [Trims -> SUBSET Samples] /\ lists \in [Trims -> SUBSET Samples]
    /\ pc \in {"idle", "finishing", "reading"} \cup Beginning \cup Moving \cup Ending
    /\ job \in 0 .. trims /\ at \in Nat /\ todo \subseteq 1 .. trims
    /\ want \in BOOLEAN /\ alone \in BOOLEAN /\ flushed \in BOOLEAN
    /\ pc \notin {"idle", "finishing"} => job \in Trims
    /\ trims \in 0 .. MaxTrims /\ (want => trims < MaxTrims)

(* A journal's records are where write_slot puts them and name blocks of its *)
(* plan; the trimmer has one to go by, which names the block it works on.     *)
Placed(t, j) ==
    \A s \in Valid(j) : /\ j.slots[s].seq % 2 = s
                        /\ j.slots[s].next \in BlockStarts(keep[t]) \cup {Done}
Blank == \A t \in Trims : t > trims => journal[t] = NoJournal /\ synced[t] = NoJournal
Named ==
    /\ Blank
    /\ \A t \in Trims : Placed(t, journal[t]) /\ Placed(t, synced[t])
    /\ pc \in {"planned", "committing"} \cup Moving \cup Ending => Valid(J) # {}
    /\ pc \in {"staging", "staged", "moving"} => Progress.next # Done

(* A plan's index lists as many samples as it keeps.                         *)
Plans ==
    /\ \A t \in Trims : Cardinality(lists[t]) = Cardinality(keep[t])
    /\ \A t \in 1 .. trims : keep[t] # {}

(* At most the last trim has a journal.                                      *)
WellFormed(j) == (j.header => j.plan) /\ (Committed(j) => Valid(j) # {})
Records ==
    /\ \A t \in Trims : WellFormed(journal[t]) /\ WellFormed(synced[t])
    /\ \A t \in Trims : \A j \in {journal[t], synced[t]} : ~j.there => j = NoJournal
    /\ \A t \in Trims : journal[t].there => t = trims
    /\ \A t \in Trims : synced[t].there => journal[t].there
    /\ \A t \in Trims : synced[t].plan => journal[t].plan
    /\ \A t \in Trims : Committed(synced[t]) => Committed(journal[t])

(* What the journal on disk lacks: only what was written since the flush.    *)
Recording(t) ==
    \E next \in BlockStarts(keep[t]) \cup {Done}, staged \in BOOLEAN :
        journal[t] = Slot(synced[t], next, staged)
Flushed ==
    /\ \A t \in Trims : Committed(journal[t]) /\ ~(t = job /\ pc \in ToFlush) => synced[t] = journal[t]
    /\ pc = "plan" => J = [NoJournal EXCEPT !.there = TRUE]
    /\ pc = "planned" =>
         /\ J.there /\ J.plan /\ ~J.header
         /\ J.slots = [NoJournal.slots EXCEPT ![1] = [seq |-> 1, next |-> NextBlock(K, 0), staged |-> FALSE]]
    /\ pc = "committing" => synced[job] = [J EXCEPT !.header = FALSE]
    /\ pc = "staging" => Committed(synced[job]) /\ J = [synced[job] EXCEPT !.staging = J.staging]
    /\ pc \in {"staged", "recording"} => Committed(synced[job]) /\ Recording(job)
    /\ pc \in {"committing"} \cup Moving \cup Ending => Committed(J)

(* The clip and what is flushed of it are one and play, unless a trim is     *)
(* committed; then what it keeps can be had from either.                     *)
Settled == (\A t \in Trims : ~Committed(synced[t])) => clip = disk /\ Plays(clip)
Kept ==
    \A t \in Trims : \A j \in {journal[t], synced[t]} : \A k \in {clip, disk} :
        Committed(j) => Recoverable(t, j, k)

(* How far the trimmer is.                                                   *)
Planned ==
    pc \in Beginning => /\ job = trims /\ ~Committed(synced[job])
                        /\ \A c \in K : Holds(job, clip, c, c)
Staging ==
    /\ pc = "staging" =>
         /\ ~Progress.staged
         /\ \A c \in Block(K, Progress.next) : J.staging[c - Progress.next + 1] = SampleAt(job, c)
    /\ pc = "staged" => Progress.staged
MovingOn ==
    pc = "moving" =>
        /\ at <= Size(K, Progress.next)
        /\ Progress.staged \/ ~Overlaps(K, Progress.next)
        /\ \A c \in Block(K, Progress.next) : c < Progress.next + at => InPlace(job, clip, c)
Finishing ==
    pc \in Ending =>
        /\ Progress.next = Done
        /\ clip.index[Cardinality(K) + 1] = lists[job]
        /\ pc # "indexed" => clip.head = Cardinality(K)
        /\ pc = "cut" => clip.len = Cardinality(K) + 2

Ordered == Plans /\ Records /\ Flushed /\ Settled /\ Kept /\ Planned /\ Staging /\ MovingOn /\ Finishing
IInv == Types /\ Named /\ (Orderly => Ordered)

-----------------------------------------------------------------------------
(* Where a kept sample goes.  A set of numbers that is not empty has a least *)
(* one, since the numbers up to a member cannot shrink for ever.             *)
LEMMA LeastMember ==
    ASSUME NEW S \in SUBSET Nat, S # {}
    PROVE  \E x \in S : \A y \in S : x <= y
<1>. DEFINE UpTo == {0 .. x : x \in S}
<1>1. UpTo \subseteq FiniteSubsetsOf(Nat) /\ UpTo # {}
  <2>1. \A x \in S : IsFiniteSet(0 .. x) /\ 0 .. x \subseteq Nat
    BY FS_Interval
  <2>. QED BY <2>1 DEF FiniteSubsetsOf
<1>2. PICK B \in UpTo : \A C \in UpTo : <<C, B>> \notin StrictSubsetOrdering(Nat)
  BY <1>1, FS_StrictSubsetOrderingWellFounded, WFMin
<1>3. PICK x \in S : B = 0 .. x
  BY <1>2
<1>4. ASSUME NEW y \in S, y < x PROVE FALSE
  <2>1. 0 .. y \subseteq 0 .. x /\ x \in 0 .. x /\ x \notin 0 .. y /\ 0 .. x \subseteq Nat
    BY <1>4
  <2>2. <<0 .. y, 0 .. x>> \in StrictSubsetOrdering(Nat)
    BY <2>1 DEF StrictSubsetOrdering
  <2>. QED BY <2>2, <1>2, <1>3, <1>4
<1>. QED BY <1>4

LEMMA Intervals ==
    \A a, b \in Nat : /\ IsFiniteSet(a .. b) /\ a .. b \subseteq Nat
                      /\ Cardinality(a .. b) = IF a > b THEN 0 ELSE b - a + 1
<1>. SUFFICES ASSUME NEW a \in Nat, NEW b \in Nat
              PROVE  /\ IsFiniteSet(a .. b) /\ a .. b \subseteq Nat
                     /\ Cardinality(a .. b) = IF a > b THEN 0 ELSE b - a + 1
  OBVIOUS
<1>1. a \in Int /\ b \in Int
  OBVIOUS
<1>. QED BY <1>1, FS_Interval

LEMMA GreatestMember ==
    ASSUME NEW S \in SUBSET Nat, S # {}, NEW n \in Nat, \A x \in S : x <= n
    PROVE  \E x \in S : \A y \in S : y <= x
<1>. DEFINE Gap(x) == n - x
            T == {Gap(x) : x \in S}
<1>1. \A x \in S : Gap(x) \in Nat
  OBVIOUS
<1>2. PICK m \in T : \A y \in T : m <= y
  <2>1. T \in SUBSET Nat /\ T # {}
    BY <1>1
  <2>. HIDE DEF T
  <2>. QED BY <2>1, LeastMember
<1>3. PICK x \in S : m = Gap(x)
  BY <1>2
<1>4. \A y \in S : Gap(x) <= Gap(y)
  BY <1>2, <1>3
<1>. QED BY <1>4

LEMMA FiniteSamples ==
    /\ Samples \subseteq Nat /\ Samples = 1 .. NSamples /\ NSamples \in Nat /\ Done = NSamples + 1
    /\ \A P \in SUBSET Samples : IsFiniteSet(P) /\ Cardinality(P) \in 0 .. NSamples
<1>1. NSamples \in Nat
  BY TrimAssumption
<1>2. IsFiniteSet(Samples) /\ Cardinality(Samples) = NSamples
  BY <1>1, Intervals DEF Samples
<1>3. \A P \in SUBSET Samples : IsFiniteSet(P) /\ Cardinality(P) <= NSamples /\ Cardinality(P) \in Nat
  BY <1>2, FS_Subset, FS_CardinalityType
<1>. QED BY <1>1, <1>3 DEF Samples, Done

(* Dst counts.                                                               *)
LEMMA DstStep ==
    ASSUME NEW P \in SUBSET Samples, NEW c \in Nat, NEW d \in Nat, c <= d
    PROVE  /\ Dst(P, c) \in Nat /\ Dst(P, d) \in Nat
           /\ Cardinality({k \in P : c < k /\ k <= d}) \in Nat
           /\ Dst(P, d) = Dst(P, c) + Cardinality({k \in P : c < k /\ k <= d})
<1>. DEFINE A == {k \in P : k <= c}
            B == {k \in P : c < k /\ k <= d}
<1>1. IsFiniteSet(A) /\ IsFiniteSet(B) /\ A \cap B = {} /\ {k \in P : k <= d} = A \cup B
  <2>1. P \subseteq Nat /\ IsFiniteSet(P)
    BY FiniteSamples
  <2>2. IsFiniteSet(A) /\ IsFiniteSet(B)
    BY <2>1, FS_Subset
  <2>3. A \cap B = {} /\ {k \in P : k <= d} = A \cup B
    <3>1. \A k \in P : (k <= d <=> k <= c \/ (c < k /\ k <= d)) /\ ~(k <= c /\ c < k)
      BY <2>1
    <3>. QED BY <3>1
  <2>. QED BY <2>2, <2>3
<1>2. Cardinality(A) \in Nat /\ Cardinality(B) \in Nat
  BY <1>1, FS_CardinalityType
<1>. HIDE DEF A, B
<1>3. Cardinality(A \cup B) = Cardinality(A) + Cardinality(B)
  BY <1>1, <1>2, FS_Union, FS_EmptySet
<1>. QED BY <1>1, <1>2, <1>3 DEF Dst, A, B

LEMMA DstBounds ==
    ASSUME NEW P \in SUBSET Samples, NEW c \in Nat
    PROVE  /\ Dst(P, c) \in Nat /\ Dst(P, c) <= c
           /\ Dst(P, c) <= Cardinality(P)
           /\ c \in P => Dst(P, c) >= 1
<1>. DEFINE A == {k \in P : k <= c}
<1>1. A \subseteq P /\ A \subseteq 1 .. c
  <2>1. \A k \in P : k \in Nat /\ k >= 1
    BY FiniteSamples
  <2>. QED BY <2>1
<1>2. IsFiniteSet(P) /\ IsFiniteSet(1 .. c) /\ Cardinality(1 .. c) = c
  <2>1. 1 \in Nat /\ (1 > c <=> c = 0)
    OBVIOUS
  <2>. QED BY <2>1, FiniteSamples, Intervals
<1>3. IsFiniteSet(A) /\ Cardinality(A) <= Cardinality(P) /\ Cardinality(A) <= c
  BY <1>1, <1>2, FS_Subset
<1>4. Cardinality(A) \in Nat /\ (A # {} => Cardinality(A) # 0)
  BY <1>3, FS_CardinalityType, FS_EmptySet
<1>5. c \in P => A # {}
  OBVIOUS
<1>. QED BY <1>3, <1>4, <1>5 DEF Dst

LEMMA DstGrows ==
    ASSUME NEW P \in SUBSET Samples, NEW c \in Nat, NEW d \in Nat, c <= d
    PROVE  Dst(P, c) <= Dst(P, d) /\ (c < d /\ d \in P => Dst(P, c) < Dst(P, d))
<1>. DEFINE B == {k \in P : c < k /\ k <= d}
<1>1. /\ Dst(P, c) \in Nat /\ Dst(P, d) \in Nat /\ Cardinality(B) \in Nat
      /\ Dst(P, d) = Dst(P, c) + Cardinality(B)
  BY DstStep
<1>2. c < d /\ d \in P => B # {}
  OBVIOUS
<1>3. IsFiniteSet(B)
  BY FiniteSamples, FS_Subset
<1>4. B # {} => Cardinality(B) # 0
  BY <1>3, FS_EmptySet
<1>. QED BY <1>1, <1>2, <1>4

LEMMA DstOneToOne ==
    ASSUME NEW P \in SUBSET Samples, NEW c \in P, NEW d \in P, Dst(P, c) = Dst(P, d)
    PROVE  c = d
<1>1. c \in Nat /\ d \in Nat
  BY FiniteSamples
<1>2. Dst(P, c) \in Nat /\ Dst(P, d) \in Nat
  BY <1>1, DstBounds
<1>. QED BY <1>1, <1>2, DstGrows

(* A run stays together.                                                     *)
LEMMA DstRun ==
    ASSUME NEW P \in SUBSET Samples, NEW b \in Nat, NEW c \in Nat, b <= c, b + 1 .. c \subseteq P
    PROVE  Dst(P, c) = Dst(P, b) + (c - b)
<1>1. {k \in P : b < k /\ k <= c} = b + 1 .. c
  <2>1. \A k \in P : k \in Nat
    BY FiniteSamples
  <2>2. \A k \in P : b < k /\ k <= c => k \in b + 1 .. c
    BY <2>1
  <2>3. \A k \in b + 1 .. c : k \in P /\ b < k /\ k <= c
    OBVIOUS
  <2>. QED BY <2>2, <2>3
<1>2. b + 1 \in Nat /\ (b + 1 > c <=> b = c)
  OBVIOUS
<1>3. Cardinality(b + 1 .. c) = c - b
  <2>1. Cardinality(b + 1 .. c) = IF b + 1 > c THEN 0 ELSE c - (b + 1) + 1
    BY <1>2, Intervals
  <2>. QED BY <2>1
<1>. QED BY <1>1, <1>3, DstStep

(* T, a part of L, has as many members as the places they have in L.         *)
LEMMA DstImage ==
    ASSUME NEW L \in SUBSET Samples, NEW T \in SUBSET L, NEW U,
           \A n \in U : \E x \in T : Dst(L, x) = n,
           \A x \in T : Dst(L, x) \in U
    PROVE  Cardinality(T) = Cardinality(U)
<1>. DEFINE f == [x \in T |-> Dst(L, x)]
<1>1. f \in Injection(T, U)
  BY DstOneToOne DEF Injection, IsInjective
<1>2. f \in Surjection(T, U)
  BY DEF Surjection
<1>3. ExistsBijection(T, U)
  BY <1>1, <1>2 DEF ExistsBijection, Bijection
<1>4. IsFiniteSet(T)
  BY FiniteSamples, FS_Subset
<1>. QED BY <1>3, <1>4, FS_Bijection

(* Every place up to the last is taken.                                      *)
LEMMA DstOnto ==
    ASSUME NEW P \in SUBSET Samples, NEW n \in 1 .. Cardinality(P)
    PROVE  \E c \in P : Dst(P, c) = n
<1>. DEFINE f == [c \in P |-> Dst(P, c)]
            U == 1 .. Cardinality(P)
<1>1. Cardinality(P) \in Nat /\ IsFiniteSet(P)
  BY FiniteSamples
<1>2. IsFiniteSet(U) /\ Cardinality(U) = Cardinality(P)
  BY <1>1, Intervals
<1>3. \A c \in P : Dst(P, c) \in U
  BY <1>1, FiniteSamples, DstBounds
<1>4. f \in Injection(P, U)
  BY <1>3, DstOneToOne DEF Injection, IsInjective
<1>5. f \in Surjection(P, U)
  BY <1>2, <1>4, FS_Injection
<1>. QED BY <1>5 DEF Surjection

(* The samples at the kept places of a clip are in the order of the places.  *)
LEMMA Selection ==
    ASSUME NEW L \in SUBSET Samples, NEW P \in SUBSET (1 .. Cardinality(L))
    PROVE  LET M == {x \in L : Dst(L, x) \in P}
           IN  /\ Cardinality(M) = Cardinality(P)
               /\ \A x \in M : Dst(M, x) = Dst(P, Dst(L, x))
<1>. DEFINE M == {x \in L : Dst(L, x) \in P}
<1>1. \A n \in P : \E x \in M : Dst(L, x) = n
  BY DstOnto
<1>2. Cardinality(M) = Cardinality(P)
  BY <1>1, DstImage
<1>3. ASSUME NEW x \in M
      PROVE  Dst(M, x) = Dst(P, Dst(L, x))
  <2>. DEFINE T == {y \in M : y <= x}
              U == {k \in P : k <= Dst(L, x)}
  <2>1. \A y \in L : y <= x <=> Dst(L, y) <= Dst(L, x)
    <3>1. \A y \in L : y \in Nat /\ Dst(L, y) \in Nat
      BY FiniteSamples, DstBounds
    <3>. QED BY <3>1, DstGrows
  <2>2. \A n \in U : \E y \in T : Dst(L, y) = n
    BY <1>1, <2>1
  <2>3. \A y \in T : Dst(L, y) \in U
    BY <2>1
  <2>4. Cardinality(T) = Cardinality(U)
    BY <2>2, <2>3, DstImage
  <2>. QED BY <2>4 DEF Dst
<1>. QED BY <1>2, <1>3

-----------------------------------------------------------------------------
(* The blocks of a plan.                                                     *)

(* Two multiples of BlockLen are as far apart.                               *)
LEMMA Multiples ==
    /\ BlockLen \in Nat \ {0}
    /\ \A x \in Nat : /\ x % BlockLen \in 0 .. BlockLen - 1 /\ x % BlockLen <= x
                      /\ (x - (x % BlockLen)) % BlockLen = 0
    /\ \A x, y \in Nat : x % BlockLen = 0 /\ y % BlockLen = 0 /\ x < y => x + BlockLen <= y
<1>. DEFINE L == BlockLen
<1>1. L \in Nat \ {0}
  BY TrimAssumption
<1>. HIDE DEF L
<1>2. \A x \in Nat : x = L * (x \div L) + (x % L) /\ x % L \in 0 .. L - 1 /\ x \div L \in Nat
  BY <1>1
<1>3. \A x \in Nat : x % L <= x /\ (x - (x % L)) % L = 0
  BY <1>1, <1>2
<1>4. ASSUME NEW x \in Nat, NEW y \in Nat, x % L = 0, y % L = 0, x < y
      PROVE  x + L <= y
  <2>1. x = L * (x \div L) /\ y = L * (y \div L) /\ x \div L \in Nat /\ y \div L \in Nat
    BY <1>1, <1>2, <1>4
  <2>2. ASSUME NEW p \in Nat, NEW q \in Nat, L * p < L * q
        PROVE  L * p + L <= L * q
    <3>1. \A d \in Nat : L * (p + d) = L * p + L * d /\ L * (q + d) = L * q + L * d /\ L * d \in Nat
      BY <1>1
    <3>2. p < q
      <4>1. CASE q <= p
        <5>1. p - q \in Nat /\ p = q + (p - q)
          BY <4>1
        <5>. QED BY <5>1, <3>1, <2>2, <1>1
      <4>. QED BY <4>1
    <3>3. q - (p + 1) \in Nat /\ q = p + (1 + (q - (p + 1)))
      BY <3>2
    <3>4. L * (1 + (q - (p + 1))) = L + L * (q - (p + 1)) /\ L * (q - (p + 1)) \in Nat
      BY <1>1, <3>3
    <3>. QED BY <3>1, <3>3, <3>4, <1>1
  <2>. QED BY <2>1, <2>2, <1>4
<1>. QED BY <1>1, <1>2, <1>3, <1>4 DEF L

(* A kept cell's run starts at or before it, and is that of every cell in    *)
(* between, which all move by as much.                                       *)
LEMMA RunFacts ==
    ASSUME NEW P \in SUBSET Samples, NEW c \in P
    PROVE  /\ RunStart(P, c) \in 1 .. c /\ RunStart(P, c) .. c \subseteq P
           /\ RunStart(P, c) - 1 \notin P
           /\ \A s \in 1 .. c : s .. c \subseteq P /\ s - 1 \notin P => s = RunStart(P, c)
<1>. DEFINE S == {s \in 1 .. c : s .. c \subseteq P}
<1>1. c \in Nat /\ c >= 1 /\ P \subseteq 1 .. NSamples
  BY FiniteSamples
<1>2. PICK s \in S : \A x \in S : s <= x
  <2>1. S \in SUBSET Nat
    BY <1>1
  <2>2. c \in S
    BY <1>1
  <2>. HIDE DEF S
  <2>. QED BY <2>1, <2>2, LeastMember
<1>3. s - 1 \notin P
  <2>1. ASSUME s - 1 \in P PROVE s - 1 \in S
    <3>1. s - 1 \in 1 .. c /\ s - 1 .. c = {s - 1} \cup s .. c
      BY <1>1, <1>2, <2>1
    <3>. QED BY <3>1, <1>2, <2>1
  <2>. QED BY <2>1, <1>1, <1>2
<1>4. ASSUME NEW r \in 1 .. c, NEW q \in 1 .. c, r .. c \subseteq P, q .. c \subseteq P,
             r - 1 \notin P, q - 1 \notin P
      PROVE  r = q
  <2>1. r < q => q - 1 \in r .. c
    BY <1>1
  <2>2. q < r => r - 1 \in q .. c
    BY <1>1
  <2>. QED BY <1>1, <1>4, <2>1, <2>2
<1>. QED BY <1>2, <1>3, <1>4 DEF RunStart

LEMMA SameRun ==
    ASSUME NEW P \in SUBSET Samples, NEW c \in P, NEW d \in P, d <= c, d .. c \subseteq P
    PROVE  /\ RunStart(P, c) = RunStart(P, d)
           /\ Dst(P, c) = Dst(P, d) + (c - d)
<1>1. c \in Nat /\ d \in Nat
  BY FiniteSamples
<1>2. RunStart(P, d) = RunStart(P, c)
  <2>. DEFINE r == RunStart(P, d)
  <2>1. r \in 1 .. d /\ r .. d \subseteq P /\ r - 1 \notin P
    BY RunFacts
  <2>. HIDE DEF r
  <2>2. r \in 1 .. c /\ r .. c \subseteq r .. d \cup d .. c
    BY <1>1, <2>1
  <2>3. r = RunStart(P, c)
    BY <2>1, <2>2, RunFacts
  <2>. QED BY <2>3 DEF r
<1>3. Dst(P, c) = Dst(P, d) + (c - d)
  <2>1. d + 1 .. c \subseteq P
    BY <1>1
  <2>. QED BY <1>1, <2>1, DstRun
<1>. QED BY <1>2, <1>3

(* A block is a stretch of at most BlockLen cells.                           *)
LEMMA BlockCells ==
    ASSUME NEW P \in SUBSET Samples, NEW b \in P
    PROVE  /\ Size(P, b) \in 1 .. BlockLen
           /\ Block(P, b) = b .. b + Size(P, b) - 1
           /\ b \in Nat /\ Block(P, b) \subseteq P /\ Block(P, b) \subseteq Nat
<1>1. b \in Nat /\ P \subseteq 1 .. NSamples /\ NSamples \in Nat /\ BlockLen \in Nat \ {0}
  BY FiniteSamples, TrimAssumption
<1>2. b \in Block(P, b) /\ Block(P, b) \subseteq P /\ Block(P, b) \in SUBSET Nat
  <2>1. b .. b = {b} /\ b < b + BlockLen
    BY <1>1
  <2>2. b \in Block(P, b)
    BY <1>1, <2>1 DEF Block
  <2>3. Block(P, b) \subseteq P
    BY DEF Block
  <2>4. P \subseteq Nat
    BY FiniteSamples
  <2>. QED BY <2>2, <2>3, <2>4
<1>3. PICK m \in Block(P, b) : \A x \in Block(P, b) : x <= m
  <2>1. \A x \in Block(P, b) : x <= NSamples
    BY <1>1, <1>2
  <2>. QED BY <1>1, <1>2, <2>1, GreatestMember
<1>4. m \in Nat /\ b <= m /\ m < b + BlockLen /\ b .. m \subseteq P
  BY <1>1, <1>3 DEF Block
<1>5. Block(P, b) = b .. m
  <2>1. \A x \in b .. m : x \in P /\ b <= x /\ x < b + BlockLen /\ b .. x \subseteq b .. m
    BY <1>1, <1>4
  <2>2. b .. m \subseteq Block(P, b)
    BY <1>4, <2>1 DEF Block
  <2>3. \A x \in Block(P, b) : x \in Nat /\ b <= x /\ x <= m
    BY <1>2, <1>3 DEF Block
  <2>4. \A x \in Nat : b <= x /\ x <= m => x \in b .. m
    BY <1>1, <1>4
  <2>. QED BY <2>2, <2>3, <2>4
<1>6. Size(P, b) = m - b + 1
  <2>1. Cardinality(b .. m) = IF b > m THEN 0 ELSE m - b + 1
    BY <1>1, <1>4, Intervals
  <2>. QED BY <1>1, <1>4, <1>5, <2>1 DEF Size
<1>7. m = b + Size(P, b) - 1 /\ Size(P, b) \in 1 .. BlockLen
  BY <1>1, <1>4, <1>6
<1>. QED BY <1>1, <1>2, <1>5, <1>7

(* Its cells go down together.                                               *)
LEMMA BlockGoesDown ==
    ASSUME NEW P \in SUBSET Samples, NEW b \in BlockStarts(P), NEW c \in Block(P, b)
    PROVE  /\ b \in P /\ c \in P /\ b \in Nat /\ c \in Nat /\ b <= c
           /\ Dst(P, b) \in Nat /\ Dst(P, c) = Dst(P, b) + (c - b)
           /\ 1 <= Dst(P, b) /\ Dst(P, b) < b /\ Dst(P, c) < c
<1>1. b \in P /\ Dst(P, b) # b
  BY DEF BlockStarts
<1>2. c \in P /\ b <= c /\ b .. c \subseteq P
  BY DEF Block
<1>3. b \in Nat /\ c \in Nat
  BY <1>1, <1>2, FiniteSamples
<1>4. Dst(P, c) = Dst(P, b) + (c - b)
  BY <1>1, <1>2, SameRun
<1>5. Dst(P, b) \in Nat /\ Dst(P, b) <= b /\ Dst(P, b) >= 1
  BY <1>1, <1>3, DstBounds
<1>. QED BY <1>1, <1>2, <1>3, <1>4, <1>5

(* Every cell that moves is in a block, and blocks do not overlap.           *)
LEMMA BlocksCover ==
    ASSUME NEW P \in SUBSET Samples, NEW c \in P, Dst(P, c) # c
    PROVE  \E b \in BlockStarts(P) : c \in Block(P, b)
<1>. DEFINE r == RunStart(P, c)
            b == c - ((c - r) % BlockLen)
<1>1. c \in Nat /\ r \in 1 .. c /\ r .. c \subseteq P
  BY FiniteSamples, RunFacts
<1>. HIDE DEF r
<1>2. /\ c - r \in Nat /\ (c - r) % BlockLen \in 0 .. BlockLen - 1 /\ (c - r) % BlockLen <= c - r
      /\ ((c - r) - ((c - r) % BlockLen)) % BlockLen = 0 /\ BlockLen \in Nat
  BY <1>1, Multiples
<1>3. /\ b \in Nat /\ r <= b /\ b <= c /\ c < b + BlockLen
      /\ b - r = (c - r) - ((c - r) % BlockLen)
  BY <1>1, <1>2
<1>4. (b - r) % BlockLen = 0
  BY <1>2, <1>3
<1>. HIDE DEF b
<1>5. b \in r .. c /\ b .. c \subseteq r .. c
  BY <1>1, <1>3
<1>6. b \in P /\ b .. c \subseteq P
  BY <1>1, <1>5
<1>7. r = RunStart(P, b) /\ Dst(P, c) = Dst(P, b) + (c - b)
  BY <1>3, <1>6, SameRun DEF r
<1>8. Dst(P, b) # b
  BY <1>1, <1>3, <1>7
<1>9. b \in BlockStarts(P) /\ c \in Block(P, b)
  BY <1>3, <1>4, <1>6, <1>7, <1>8 DEF BlockStarts, Block
<1>. QED BY <1>9

LEMMA BlocksApart ==
    ASSUME NEW P \in SUBSET Samples, NEW b \in BlockStarts(P), NEW d \in BlockStarts(P), b < d
    PROVE  Block(P, b) \cap Block(P, d) = {}
<1>. SUFFICES ASSUME NEW c \in Block(P, b), c \in Block(P, d)
              PROVE  FALSE
  OBVIOUS
<1>1. /\ b \in P /\ d \in P /\ c \in Nat /\ d <= c /\ c < b + BlockLen /\ b .. c \subseteq P
  BY FiniteSamples DEF BlockStarts, Block
<1>2. b \in Nat /\ d \in Nat /\ BlockLen \in Nat
  BY <1>1, FiniteSamples, TrimAssumption
<1>3. RunStart(P, d) = RunStart(P, b)
  <2>1. b .. d \subseteq P
    BY <1>1, <1>2
  <2>. QED BY <1>1, <1>2, <2>1, SameRun
<1>. DEFINE r == RunStart(P, b)
<1>4. r \in 1 .. b /\ (b - r) % BlockLen = 0 /\ (d - r) % BlockLen = 0
  BY <1>1, <1>3, RunFacts DEF BlockStarts
<1>. HIDE DEF r
<1>5. b - r \in Nat /\ d - r \in Nat /\ b - r < d - r
  BY <1>2, <1>4
<1>6. (b - r) + BlockLen <= d - r
  BY <1>4, <1>5, Multiples
<1>. QED BY <1>1, <1>2, <1>4, <1>6

LEMMA NextFacts ==
    ASSUME NEW P \in SUBSET Samples, NEW c \in 0 .. NSamples
    PROVE  /\ NextBlock(P, c) \in BlockStarts(P) \cup {Done}
           /\ NextBlock(P, c) \in 0 .. Done /\ c < NextBlock(P, c)
           /\ \A b \in BlockStarts(P) : b > c => NextBlock(P, c) <= b
<1>. DEFINE S == {b \in BlockStarts(P) : b > c}
<1>1. BlockStarts(P) \subseteq 1 .. NSamples /\ NSamples \in Nat /\ Done = NSamples + 1
  BY FiniteSamples DEF BlockStarts
<1>2. CASE \A b \in BlockStarts(P) : b <= c
  <2>1. NextBlock(P, c) = Done
    BY <1>2 DEF NextBlock
  <2>. QED BY <1>1, <1>2, <2>1
<1>3. CASE \E b \in BlockStarts(P) : ~(b <= c)
  <2>1. PICK n \in S : \A x \in S : n <= x
    <3>1. S \in SUBSET Nat /\ S # {}
      BY <1>1, <1>3
    <3>. HIDE DEF S
    <3>. QED BY <3>1, LeastMember
  <2>2. n \in BlockStarts(P) /\ n > c /\ \A d \in BlockStarts(P) : d > c => n <= d
    BY <2>1
  <2>3. NextBlock(P, c) = CHOOSE b \in BlockStarts(P) : b > c /\ \A d \in BlockStarts(P) : d > c => b <= d
    BY <1>3 DEF NextBlock
  <2>4. /\ NextBlock(P, c) \in BlockStarts(P) /\ NextBlock(P, c) > c
        /\ \A d \in BlockStarts(P) : d > c => NextBlock(P, c) <= d
    BY <2>2, <2>3
  <2>. QED BY <1>1, <2>4
<1>. QED BY <1>2, <1>3

(* Between a block and the next one nothing moves.                           *)
LEMMA UpToNext ==
    ASSUME NEW P \in SUBSET Samples, NEW b \in BlockStarts(P)
    PROVE  /\ \A c \in P : b <= c /\ c < NextBlock(P, b) /\ Dst(P, c) # c => c \in Block(P, b)
           /\ \A c \in Block(P, b) : c < NextBlock(P, b)
<1>1. b \in 0 .. NSamples /\ b \in Nat /\ b \in P /\ Done \in Nat /\ BlockLen \in Nat
  BY FiniteSamples, TrimAssumption DEF BlockStarts
<1>. DEFINE n == NextBlock(P, b)
<1>2. n \in BlockStarts(P) \cup {Done} /\ n \in Nat /\ b < n /\ \A d \in BlockStarts(P) : d > b => n <= d
  BY <1>1, NextFacts
<1>. HIDE DEF n
<1>3. ASSUME NEW c \in P, b <= c, c < n, Dst(P, c) # c
      PROVE  c \in Block(P, b)
  <2>1. PICK d \in BlockStarts(P) : c \in Block(P, d)
    BY <1>3, BlocksCover
  <2>2. d \in Nat /\ c \in Nat /\ d <= c
    BY <2>1, BlockGoesDown
  <2>3. d <= b
    BY <1>1, <1>2, <1>3, <2>2
  <2>4. d < b => c \in Block(P, b)
    <3>1. ASSUME d < b PROVE b \in Block(P, d)
      <4>1. c < d + BlockLen /\ d .. c \subseteq P
        BY <2>1 DEF Block
      <4>2. d .. b \subseteq d .. c /\ b < d + BlockLen
        BY <1>1, <1>3, <2>2, <4>1
      <4>. QED BY <1>1, <3>1, <4>1, <4>2 DEF Block
    <3>2. b \in Block(P, b)
      <4>1. b .. b = {b} /\ b < b + BlockLen
        BY <1>1, TrimAssumption
      <4>. QED BY <1>1, <4>1 DEF Block
    <3>. QED BY <3>1, <3>2, BlocksApart
  <2>. QED BY <1>1, <2>1, <2>2, <2>3, <2>4
<1>4. ASSUME NEW c \in Block(P, b), ~(c < n)
      PROVE  FALSE
  <2>1. c \in P /\ c \in 1 .. NSamples /\ b <= c /\ c < b + BlockLen /\ b .. c \subseteq P
    BY FiniteSamples DEF Block
  <2>2. n \in BlockStarts(P) /\ n <= c
    BY <1>2, <1>4, <2>1, FiniteSamples
  <2>3. n \in P /\ b .. n \subseteq b .. c /\ n < b + BlockLen
    BY <1>1, <1>2, <2>1, <2>2 DEF BlockStarts
  <2>4. n \in Block(P, b)
    BY <1>2, <2>1, <2>3 DEF Block
  <2>5. n \in Block(P, n)
    <3>1. n .. n = {n} /\ n < n + BlockLen
      BY <1>2, TrimAssumption
    <3>. QED BY <1>2, <2>3, <3>1 DEF Block
  <2>. QED BY <1>2, <2>2, <2>4, <2>5, BlocksApart
<1>. QED BY <1>3, <1>4 DEF n

LEMMA UpToFirst ==
    ASSUME NEW P \in SUBSET Samples, NEW c \in P, c < NextBlock(P, 0)
    PROVE  Dst(P, c) = c
<1>1. 0 \in 0 .. NSamples /\ c \in Nat /\ Done \in Nat
  BY FiniteSamples
<1>2. SUFFICES ASSUME Dst(P, c) # c PROVE FALSE
  OBVIOUS
<1>3. PICK b \in BlockStarts(P) : c \in Block(P, b)
  BY <1>2, BlocksCover
<1>4. b \in Nat /\ b <= c /\ b > 0
  BY <1>3, BlockGoesDown
<1>5. NextBlock(P, 0) <= b /\ NextBlock(P, 0) \in Nat
  BY <1>1, <1>3, <1>4, NextFacts
<1>. QED BY <1>1, <1>4, <1>5

-----------------------------------------------------------------------------
(* The samples of a plan, and the clip that is left of them.                 *)

LEMMA SampleIs ==
    ASSUME Types, NEW t \in Trims, NEW c \in keep[t], NEW x \in lists[t],
           Dst(lists[t], x) = Dst(keep[t], c)
    PROVE  SampleAt(t, c) = x
<1>1. lists[t] \in SUBSET Samples
  BY DEF Types
<1>2. \A y \in lists[t] : Dst(lists[t], y) = Dst(keep[t], c) => y = x
  BY <1>1, DstOneToOne
<1>. QED BY <1>2 DEF SampleAt

(* A clip whose kept samples are all in place, and whose index and header    *)
(* say so, plays.                                                            *)
LEMMA TrimmedPlays ==
    ASSUME Types, NEW t \in Trims, NEW k \in Clips,
           Cardinality(lists[t]) = Cardinality(keep[t]), keep[t] # {},
           k.head = Cardinality(keep[t]), k.len = k.head + 2,
           k.index[k.head + 1] = lists[t],
           \A c \in keep[t] : InPlace(t, k, c)
    PROVE  Plays(k)
<1>. DEFINE L == lists[t]
            P == keep[t]
<1>1. L \in SUBSET Samples /\ P \in SUBSET Samples
  BY DEF Types
<1>2. L # {}
  <2>1. IsFiniteSet(P) /\ (L = {} => Cardinality(L) = 0)
    BY <1>1, FiniteSamples, FS_EmptySet
  <2>. QED BY <2>1, FS_EmptySet
<1>3. ASSUME NEW x \in L
      PROVE  k.cells[Dst(L, x)] = x
  <2>1. Dst(L, x) \in 1 .. Cardinality(P)
    <3>1. x \in Nat /\ Cardinality(P) \in Nat
      BY <1>1, FiniteSamples
    <3>. QED BY <1>1, <3>1, DstBounds
  <2>2. PICK c \in P : Dst(P, c) = Dst(L, x)
    BY <1>1, <2>1, DstOnto
  <2>3. SampleAt(t, c) = x
    BY <2>2, SampleIs
  <2>. QED BY <2>2, <2>3 DEF InPlace, Holds
<1>. QED BY <1>2, <1>3 DEF Plays

(* What a plan keeps of a clip that plays is where it was.                   *)
LEMMA PlanFits ==
    ASSUME NEW k \in Clips, Plays(k), NEW P \in SUBSET (1 .. k.head), P # {},
           NEW L, L = k.index[k.head + 1],
           NEW M, M = {x \in L : Dst(L, x) \in P}
    PROVE  /\ M \in SUBSET Samples /\ P \in SUBSET Samples
           /\ Cardinality(M) = Cardinality(P)
           /\ \A c \in P : k.cells[c] = CHOOSE x \in M : Dst(M, x) = Dst(P, c)
<1>1. k.head \in 0 .. NSamples /\ k.head \in Nat /\ k.head + 1 \in Cells
  <2>1. k.head \in 0 .. NSamples
    BY DEF Clips
  <2>. QED BY <2>1, FiniteSamples DEF Cells
<1>2. L \in SUBSET Samples
  <2>1. k.index \in [Cells -> SUBSET Samples]
    BY DEF Clips
  <2>. QED BY <1>1, <2>1
<1>3. Cardinality(L) = k.head /\ \A x \in L : k.cells[Dst(L, x)] = x
  BY DEF Plays
<1>4. P \in SUBSET Samples
  BY <1>1, FiniteSamples
<1>5. Cardinality(M) = Cardinality(P) /\ \A x \in M : Dst(M, x) = Dst(P, Dst(L, x))
  BY <1>2, <1>3, Selection
<1>6. ASSUME NEW c \in P
      PROVE  k.cells[c] = CHOOSE x \in M : Dst(M, x) = Dst(P, c)
  <2>1. PICK x \in L : Dst(L, x) = c
    BY <1>2, <1>3, DstOnto
  <2>2. x \in M /\ Dst(M, x) = Dst(P, c)
    BY <1>5, <2>1
  <2>3. \A y \in M : Dst(M, y) = Dst(P, c) => y = x
    BY <1>2, <2>2, DstOneToOne
  <2>4. (CHOOSE y \in M : Dst(M, y) = Dst(P, c)) = x
    BY <2>2, <2>3
  <2>. QED BY <1>3, <2>1, <2>4
<1>. QED BY <1>2, <1>4, <1>5, <1>6

-----------------------------------------------------------------------------
(* The records of a journal.                                                 *)
LEMMA TornShape ==
    /\ Torn \in SlotType /\ Torn.seq = 0
    /\ NoJournal \in Journals /\ Valid(NoJournal) = {} /\ ~NoJournal.there
    /\ ~NoJournal.header /\ ~NoJournal.plan
    /\ BlockLen \in Nat /\ BlockLen > 0 /\ NSamples \in Nat
<1>1. 0 \in 0 .. Done /\ 0 \in 0 .. NSamples
  BY FiniteSamples
<1>2. Torn \in SlotType /\ Torn.seq = 0
  BY <1>1 DEF Torn, SlotType
<1>3. NoJournal \in Journals
  BY <1>1, <1>2 DEF NoJournal, Journals
<1>. QED BY <1>2, <1>3, TrimAssumption DEF NoJournal, Valid

LEMMA LatestIs ==
    ASSUME NEW j \in Journals, NEW s \in 0 .. 1, j.slots[s] # Torn,
           \A r \in 0 .. 1 : r # s => j.slots[r] = Torn \/ j.slots[r].seq < j.slots[s].seq
    PROVE  Latest(j) = j.slots[s] /\ s \in Valid(j)
<1>1. s \in Valid(j)
  BY DEF Valid
<1>2. \A r \in 0 .. 1 : j.slots[r].seq \in Nat
  BY DEF Journals, SlotType
<1>3. \A r \in Valid(j) : j.slots[r].seq <= j.slots[s].seq /\ (r # s => j.slots[r].seq < j.slots[s].seq)
  BY <1>2 DEF Valid
<1>4. \A q \in Valid(j) : (\A r \in Valid(j) : j.slots[r].seq <= j.slots[q].seq) => q = s
  BY <1>1, <1>2, <1>3 DEF Valid
<1>5. (CHOOSE q \in Valid(j) : \A r \in Valid(j) : j.slots[r].seq <= j.slots[q].seq) = s
  BY <1>1, <1>3, <1>4
<1>. QED BY <1>1, <1>5 DEF Latest

LEMMA LatestFacts ==
    ASSUME NEW t \in Trims, NEW j \in Journals, Placed(t, j), Valid(j) # {}
    PROVE  /\ Latest(j) \in SlotType /\ Latest(j).seq \in Nat /\ Latest(j).staged \in BOOLEAN
           /\ Latest(j).next \in BlockStarts(keep[t]) \cup {Done}
           /\ \E s \in 0 .. 1 :
                /\ Latest(j) = j.slots[s] /\ j.slots[s] # Torn /\ Latest(j).seq % 2 = s
                /\ \A r \in 0 .. 1 : r # s => j.slots[r] = Torn \/ j.slots[r].seq < Latest(j).seq
<1>1. \A r \in 0 .. 1 : j.slots[r] \in SlotType /\ j.slots[r].seq \in Nat
  BY DEF Journals, SlotType
<1>2. Valid(j) \subseteq {0, 1} /\ \A s \in Valid(j) : j.slots[s].seq % 2 = s
  BY DEF Valid, Placed
<1>3. \E s \in Valid(j) : \A r \in Valid(j) : r # s => j.slots[r].seq < j.slots[s].seq
  <2>1. CASE 0 \notin Valid(j) \/ 1 \notin Valid(j)
    BY <1>2, <2>1
  <2>2. CASE 0 \in Valid(j) /\ 1 \in Valid(j)
    <3>1. j.slots[0].seq # j.slots[1].seq
      BY <1>2, <2>2
    <3>. QED BY <1>1, <1>2, <2>2, <3>1
  <2>. QED BY <2>1, <2>2
<1>4. PICK s \in Valid(j) : \A r \in Valid(j) : r # s => j.slots[r].seq < j.slots[s].seq
  BY <1>3
<1>5. s \in 0 .. 1 /\ j.slots[s] # Torn
      /\ \A r \in 0 .. 1 : r # s => j.slots[r] = Torn \/ j.slots[r].seq < j.slots[s].seq
  BY <1>4 DEF Valid
<1>6. Latest(j) = j.slots[s]
  BY <1>5, LatestIs
<1>7. j.slots[s].staged \in BOOLEAN /\ j.slots[s].next \in BlockStarts(keep[t]) \cup {Done}
  BY <1>1, <1>4, <1>5 DEF SlotType, Placed
<1>. QED BY <1>1, <1>2, <1>4, <1>5, <1>6, <1>7

(* A record that is written is the latest, and if it is torn, the one before *)
(* it still is.                                                              *)
LEMMA TornFacts ==
    ASSUME NEW t \in Trims, NEW j \in Journals, Placed(t, j), Valid(j) # {},
           NEW n \in BlockStarts(keep[t]) \cup {Done}, n \in 0 .. Done, NEW b \in BOOLEAN,
           NEW i, i = Slot(j, n, b),
           NEW torn, torn = [i EXCEPT !.slots = [s \in 0 .. 1 |->
                                IF i.slots[s] # j.slots[s] THEN Torn ELSE i.slots[s]]]
    PROVE  /\ i \in Journals /\ Placed(t, i) /\ Valid(i) # {}
           /\ Latest(i).next = n /\ Latest(i).staged = b
           /\ i.there = j.there /\ i.header = j.header /\ i.plan = j.plan /\ i.staging = j.staging
           /\ torn \in Journals /\ Placed(t, torn) /\ Valid(torn) # {}
           /\ Latest(torn) = Latest(j)
<1>1. PICK s \in 0 .. 1 :
        /\ Latest(j) = j.slots[s] /\ j.slots[s] # Torn /\ Latest(j).seq % 2 = s
        /\ \A r \in 0 .. 1 : r # s => j.slots[r] = Torn \/ j.slots[r].seq < Latest(j).seq
  BY LatestFacts
<1>. DEFINE q == Latest(j).seq
            rec == [seq |-> q + 1, next |-> n, staged |-> b]
            o == (q + 1) % 2
<1>2. q \in Nat
  BY LatestFacts
<1>3. o \in 0 .. 1 /\ o # s /\ \A r \in 0 .. 1 : r = s \/ r = o
  BY <1>1, <1>2
<1>4. rec \in SlotType /\ rec # Torn /\ rec.seq = q + 1 /\ rec.next = n /\ rec.staged = b
  BY <1>2 DEF SlotType, Torn
<1>. HIDE DEF rec
<1>5. i = [j EXCEPT !.slots = [j.slots EXCEPT ![o] = rec]]
  BY DEF Slot, rec
<1>. HIDE DEF o
<1>6. /\ i \in Journals /\ i.slots = [j.slots EXCEPT ![o] = rec]
      /\ i.there = j.there /\ i.header = j.header /\ i.plan = j.plan /\ i.staging = j.staging
      /\ i.slots[o] = rec /\ i.slots[s] = j.slots[s] /\ j.slots \in [0 .. 1 -> SlotType]
  BY <1>3, <1>4, <1>5 DEF Journals
<1>7. Latest(i) = rec /\ o \in Valid(i)
  <2>1. \A r \in 0 .. 1 : r # o => i.slots[r].seq < rec.seq
    BY <1>1, <1>2, <1>3, <1>4, <1>6
  <2>. QED BY <1>3, <1>4, <1>6, <2>1, LatestIs
<1>8. \A r \in 0 .. 1 : r \in Valid(j) => /\ j.slots[r].seq % 2 = r
                                          /\ j.slots[r].next \in BlockStarts(keep[t]) \cup {Done}
  BY DEF Placed
<1>9. Placed(t, i)
  <2>1. rec.seq % 2 = o
    BY <1>4 DEF o
  <2>. QED BY <1>1, <1>3, <1>4, <1>6, <1>8, <2>1 DEF Placed, Valid
<1>10. j.slots[o] # rec
  <2>1. j.slots[o] = Torn \/ j.slots[o].seq < q
    BY <1>1, <1>3
  <2>2. j.slots[o].seq \in Nat
    BY <1>3, <1>6 DEF SlotType
  <2>. QED BY <1>2, <1>4, <2>1, <2>2
<1>11. /\ torn \in Journals /\ torn.slots[o] = Torn /\ torn.slots[s] = j.slots[s]
  <2>1. torn.slots = [r \in 0 .. 1 |-> IF i.slots[r] # j.slots[r] THEN Torn ELSE i.slots[r]]
    BY <1>6 DEF Journals
  <2>2. torn.slots \in [0 .. 1 -> SlotType]
    BY <1>6, <2>1, TornShape DEF Journals
  <2>3. torn \in Journals
    BY <1>6, <2>1, <2>2 DEF Journals
  <2>. QED BY <1>3, <1>6, <1>10, <2>1, <2>3
<1>12. Latest(torn) = Latest(j) /\ s \in Valid(torn)
  <2>1. \A r \in 0 .. 1 : r # s => torn.slots[r] = Torn
    BY <1>3, <1>11
  <2>. QED BY <1>1, <1>11, <2>1, LatestIs
<1>13. Placed(t, torn)
  BY <1>1, <1>3, <1>8, <1>11 DEF Placed, Valid
<1>. QED BY <1>4, <1>6, <1>7, <1>9, <1>11, <1>12, <1>13

LEMMA SlotFacts ==
    ASSUME NEW t \in Trims, NEW j \in Journals, Placed(t, j), Valid(j) # {},
           NEW n \in BlockStarts(keep[t]) \cup {Done}, n \in 0 .. Done, NEW b \in BOOLEAN
    PROVE  LET i == Slot(j, n, b)
           IN  /\ i \in Journals /\ Placed(t, i) /\ Valid(i) # {}
               /\ Latest(i).next = n /\ Latest(i).staged = b
               /\ i.there = j.there /\ i.header = j.header /\ i.plan = j.plan /\ i.staging = j.staging
<1>. DEFINE i == Slot(j, n, b)
            torn == [i EXCEPT !.slots = [s \in 0 .. 1 |-> IF i.slots[s] # j.slots[s] THEN Torn ELSE i.slots[s]]]
<1>1. i = Slot(j, n, b) /\ torn = [i EXCEPT !.slots = [s \in 0 .. 1 |->
                                        IF i.slots[s] # j.slots[s] THEN Torn ELSE i.slots[s]]]
  OBVIOUS
<1>. HIDE DEF i, torn
<1>2. /\ i \in Journals /\ Placed(t, i) /\ Valid(i) # {}
      /\ Latest(i).next = n /\ Latest(i).staged = b
      /\ i.there = j.there /\ i.header = j.header /\ i.plan = j.plan /\ i.staging = j.staging
  BY <1>1, TornFacts
<1>. QED BY <1>2 DEF i

-----------------------------------------------------------------------------
(* What is kept where, step by step.                                         *)
LEMMA AtWork ==
    ASSUME Types, Named, pc \in {"planned", "committing"} \cup Moving \cup Ending
    PROVE  /\ job \in Trims /\ J \in Journals /\ synced[job] \in Journals /\ K \in SUBSET Samples
           /\ Placed(job, J) /\ Valid(J) # {}
           /\ Progress \in SlotType /\ Progress.staged \in BOOLEAN
           /\ Progress.next \in BlockStarts(K) \cup {Done} /\ Progress.next \in 1 .. Done
           /\ pc \in {"staging", "staged", "moving"} => Progress.next \in BlockStarts(K)
<1>1. pc \notin {"idle", "finishing"}
  BY DEF Moving, Ending
<1>2. job \in Trims
  BY <1>1 DEF Types
<1>3. J \in Journals /\ synced[job] \in Journals /\ K \in SUBSET Samples
  BY <1>2 DEF Types, J, K
<1>4. Placed(job, J) /\ Valid(J) # {}
  BY <1>2 DEF Named, J
<1>5. /\ Progress \in SlotType /\ Progress.staged \in BOOLEAN
      /\ Progress.next \in BlockStarts(K) \cup {Done}
  BY <1>2, <1>3, <1>4, LatestFacts DEF Progress, K
<1>6. BlockStarts(K) \subseteq 1 .. NSamples
  BY <1>3, FiniteSamples DEF BlockStarts
<1>. QED BY <1>2, <1>3, <1>4, <1>5, <1>6, FiniteSamples DEF Named

LEMMA JournalTypes ==
    ASSUME Types, Named, job \in Trims, keep' = keep, trims' = trims, NEW j \in Journals, Placed(job, j),
           journal' = journal \/ Write(j), synced' = synced \/ Flush
    PROVE  /\ journal' \in [Trims -> Journals] /\ synced' \in [Trims -> Journals]
           /\ Blank' /\ \A t \in Trims : Placed(t, journal[t])' /\ Placed(t, synced[t])'
           /\ \A t \in Trims : t # job => journal'[t] = journal[t] /\ synced'[t] = synced[t]
           /\ Write(j) => J' = j \/ job' # job
<1>1. /\ journal' \in [Trims -> Journals] /\ synced' \in [Trims -> Journals]
      /\ \A t \in Trims : journal'[t] = journal[t] \/ (t = job /\ journal'[t] = j)
      /\ \A t \in Trims : synced'[t] = synced[t] \/ (t = job /\ synced'[t] = journal[job])
      /\ Write(j) => journal'[job] = j
  BY DEF Types, Write, Flush, J
<1>2. \A t \in Trims : Placed(t, journal[t]) /\ Placed(t, synced[t])
  BY DEF Named
<1>3. \A t \in Trims : Placed(t, journal[t])'
  BY <1>1, <1>2 DEF Placed
<1>4. \A t \in Trims : Placed(t, synced[t])'
  BY <1>1, <1>2 DEF Placed
<1>5. Blank'
  <2>1. job <= trims /\ \A t \in Trims : t > trims => t # job
    BY DEF Types
  <2>. QED BY <1>1, <2>1 DEF Blank, Named
<1>. QED BY <1>1, <1>3, <1>4, <1>5 DEF J

LEMMA DropTypes ==
    ASSUME Types, Named, job \in Trims, keep' = keep, trims' = trims, Drop(job)
    PROVE  /\ journal' \in [Trims -> Journals] /\ synced' \in [Trims -> Journals]
           /\ Blank' /\ \A t \in Trims : Placed(t, journal[t])' /\ Placed(t, synced[t])'
           /\ \A t \in Trims : t # job => journal'[t] = journal[t] /\ synced'[t] = synced[t]
           /\ journal'[job] = NoJournal /\ synced'[job] = NoJournal
<1>1. /\ journal' \in [Trims -> Journals] /\ synced' \in [Trims -> Journals]
      /\ \A t \in Trims : journal'[t] = IF t = job THEN NoJournal ELSE journal[t]
      /\ \A t \in Trims : synced'[t] = IF t = job THEN NoJournal ELSE synced[t]
  BY TornShape DEF Types, Drop
<1>2. \A t \in Trims : Placed(t, journal[t])'
  BY <1>1, TornShape DEF Named, Placed
<1>3. \A t \in Trims : Placed(t, synced[t])'
  BY <1>1, TornShape DEF Named, Placed
<1>4. Blank'
  BY <1>1 DEF Blank, Named
<1>. QED BY <1>1, <1>2, <1>3, <1>4

LEMMA BeginTypes ==
    ASSUME Types, Named, Begin
    PROVE  Types' /\ Named'
<1>. USE DEF Beginning, Moving, Ending
<1>1. CASE WritePlan
  <2>1. job \in Trims
    BY <1>1 DEF WritePlan, Types
  <2>. DEFINE rec == [seq |-> 1, next |-> NextBlock(K, 0), staged |-> FALSE]
              j == [J EXCEPT !.plan = TRUE, !.slots[1] = rec]
  <2>2. J \in Journals /\ K \in SUBSET Samples /\ 0 \in 0 .. NSamples
    BY <2>1, FiniteSamples DEF Types, J, K
  <2>3. rec \in SlotType /\ rec # Torn /\ rec.seq = 1 /\ rec.next \in BlockStarts(K) \cup {Done}
    BY <2>2, NextFacts DEF SlotType, Torn
  <2>. HIDE DEF rec
  <2>4. j \in Journals /\ j.slots[1] = rec /\ j.slots[0] = J.slots[0]
    <3>1. J.slots \in [0 .. 1 -> SlotType] /\ 1 \in 0 .. 1 /\ 0 \in 0 .. 1
      BY <2>2 DEF Journals
    <3>2. j.slots = [J.slots EXCEPT ![1] = rec] /\ j.slots \in [0 .. 1 -> SlotType]
      BY <2>2, <2>3, <3>1 DEF Journals
    <3>3. j \in Journals
      BY <2>2, <3>1, <3>2 DEF Journals
    <3>. QED BY <3>1, <3>2, <3>3
  <2>5. Placed(job, j)
    <3>1. Placed(job, J) /\ 1 % 2 = 1
      BY <2>1 DEF Named, J
    <3>. QED BY <2>3, <2>4, <3>1 DEF Placed, Valid, K
  <2>6. Write(j)
    BY <1>1 DEF WritePlan, rec
  <2>. HIDE DEF j
  <2>7. /\ UNCHANGED <<clip, disk, synced, plans, up, at, trimmer, history, counters>> /\ pc' = "planned"
    BY <1>1 DEF WritePlan
  <2>8. /\ journal' \in [Trims -> Journals] /\ synced' \in [Trims -> Journals]
        /\ Blank' /\ \A t \in Trims : Placed(t, journal[t])' /\ Placed(t, synced[t])'
        /\ J' = j
    BY <2>1, <2>4, <2>5, <2>6, <2>7, JournalTypes DEF plans, trimmer, counters
  <2>9. Valid(j) # {}
    BY <2>3, <2>4 DEF Valid
  <2>. QED BY <2>1, <2>7, <2>8, <2>9 DEF Types, Named, plans, trimmer, history, counters
<1>2. CASE WriteHeader
  <2>. DEFINE j == [J EXCEPT !.header = TRUE]
  <2>1. job \in Trims /\ J \in Journals /\ Placed(job, J) /\ Valid(J) # {}
    BY <1>2, AtWork DEF WriteHeader
  <2>2. j \in Journals /\ j.slots = J.slots
    BY <2>1 DEF Journals
  <2>3. Write(j) /\ Flush /\ UNCHANGED <<clip, disk, plans, up, at, trimmer, history, counters>>
        /\ pc' = "committing"
    BY <1>2 DEF WriteHeader
  <2>. HIDE DEF j
  <2>4. Placed(job, j) /\ Valid(j) # {}
    BY <2>1, <2>2 DEF Placed, Valid
  <2>5. /\ journal' \in [Trims -> Journals] /\ synced' \in [Trims -> Journals]
        /\ Blank' /\ \A t \in Trims : Placed(t, journal[t])' /\ Placed(t, synced[t])'
        /\ J' = j
    BY <2>1, <2>2, <2>3, <2>4, JournalTypes DEF plans, trimmer, counters
  <2>. QED BY <2>1, <2>3, <2>4, <2>5 DEF Types, Named, plans, trimmer, history, counters
<1>3. CASE Commit
  <2>1. job \in Trims /\ J \in Journals /\ Placed(job, J) /\ Valid(J) # {}
    BY <1>3, AtWork DEF Commit
  <2>2. Flush /\ UNCHANGED <<clip, disk, journal, plans, up, at, trimmer, history, counters>> /\ pc' = "block"
    BY <1>3 DEF Commit
  <2>3. /\ journal' \in [Trims -> Journals] /\ synced' \in [Trims -> Journals]
        /\ Blank' /\ \A t \in Trims : Placed(t, journal[t])' /\ Placed(t, synced[t])'
    BY <2>1, <2>2, JournalTypes DEF plans, counters
  <2>. QED BY <2>1, <2>2, <2>3 DEF Types, Named, plans, trimmer, history, counters, J
<1>. QED BY <1>1, <1>2, <1>3 DEF Begin

LEMMA RecordTypes ==
    ASSUME Types, Named, RecordStaged \/ RecordMoved \/ Stage \/ Staged \/ Recorded \/ BeginMove
    PROVE  Types' /\ Named'
<1>. USE DEF Moving
<1>1. /\ job \in Trims /\ J \in Journals /\ K \in SUBSET Samples /\ Placed(job, J) /\ Valid(J) # {}
      /\ Progress.next \in BlockStarts(K) \cup {Done} /\ Progress.next \in 1 .. Done
      /\ pc \in {"staging", "staged", "moving"} => Progress.next \in BlockStarts(K)
      /\ Done \notin BlockStarts(K)
  <2>1. pc \in Moving
    BY DEF RecordStaged, RecordMoved, Stage, Staged, Recorded, BeginMove
  <2>2. Done \notin BlockStarts(K)
    BY <2>1, AtWork, FiniteSamples DEF BlockStarts
  <2>. QED BY <2>1, <2>2, AtWork
<1>2. ASSUME NEW j \in Journals, Placed(job, j), Valid(j) # {},
             (journal' = journal /\ j = J) \/ Write(j),
             synced' = synced \/ Flush, clip' = clip, disk' \in {clip, disk},
             UNCHANGED <<plans, up, trimmer, history, counters>>, at' \in Nat, pc' \in Moving,
             pc' \in {"staging", "staged", "moving"} => Latest(j).next # Done
      PROVE  Types' /\ Named'
  <2>1. /\ journal' \in [Trims -> Journals] /\ synced' \in [Trims -> Journals]
        /\ Blank' /\ \A t \in Trims : Placed(t, journal[t])' /\ Placed(t, synced[t])'
        /\ J' = j
    BY <1>1, <1>2, JournalTypes DEF plans, trimmer, counters, J
  <2>2. Named'
    BY <1>2, <2>1 DEF Named, Progress
  <2>. QED BY <1>1, <1>2, <2>1, <2>2 DEF Types, plans, trimmer, history, counters
<1>3. ASSUME NEW n \in BlockStarts(K) \cup {Done}, n \in 0 .. Done, NEW b \in BOOLEAN
      PROVE  /\ Slot(J, n, b) \in Journals /\ Placed(job, Slot(J, n, b)) /\ Valid(Slot(J, n, b)) # {}
             /\ Latest(Slot(J, n, b)).next = n
  <2>1. n \in BlockStarts(keep[job]) \cup {Done}
    BY DEF K
  <2>. QED BY <1>1, <1>3, <2>1, SlotFacts
<1>4. CASE RecordStaged
  <2>1. Progress.next \in 0 .. Done /\ Progress.next # Done
    BY <1>1, <1>4, FiniteSamples DEF RecordStaged
  <2>. DEFINE j == Slot(J, Progress.next, TRUE)
  <2>2. j \in Journals /\ Placed(job, j) /\ Valid(j) # {} /\ Latest(j).next # Done
    BY <1>1, <1>3, <2>1
  <2>3. /\ Write(j) /\ Flush /\ UNCHANGED <<clip, disk, plans, up, at, trimmer, history, counters>>
        /\ pc' = "staged"
    BY <1>4 DEF RecordStaged
  <2>. HIDE DEF j
  <2>. QED BY <1>2, <2>2, <2>3 DEF Types
<1>5. CASE RecordMoved
  <2>. DEFINE n == NextBlock(K, Progress.next)
              j == Slot(J, n, FALSE)
  <2>1. n \in BlockStarts(K) \cup {Done} /\ n \in 0 .. Done
    <3>1. Progress.next \in 0 .. NSamples
      BY <1>1, <1>5, FiniteSamples DEF RecordMoved
    <3>. QED BY <1>1, <3>1, NextFacts
  <2>. HIDE DEF n
  <2>2. j \in Journals /\ Placed(job, j) /\ Valid(j) # {}
    BY <1>3, <2>1
  <2>3. /\ Write(j) /\ disk' = clip /\ UNCHANGED <<clip, synced, plans, up, at, trimmer, history, counters>>
        /\ pc' = "recording"
    BY <1>5 DEF RecordMoved, n
  <2>. HIDE DEF j
  <2>. QED BY <1>2, <2>2, <2>3 DEF Types
<1>6. CASE Stage
  <2>. DEFINE st == [i \in 1 .. BlockLen |-> IF i <= Size(K, Progress.next)
                        THEN clip.cells[Progress.next + i - 1] ELSE J.staging[i]]
              j == [J EXCEPT !.staging = st]
  <2>1. st \in [1 .. BlockLen -> 0 .. NSamples]
    <3>1. ASSUME NEW i \in 1 .. BlockLen, i <= Size(K, Progress.next)
          PROVE  Progress.next + i - 1 \in Cells
      <4>1. Progress.next \in BlockStarts(K) /\ Progress.next \in K
        BY <1>1, <1>6 DEF Stage, BlockStarts
      <4>2. /\ Block(K, Progress.next) = Progress.next .. Progress.next + Size(K, Progress.next) - 1
            /\ Size(K, Progress.next) \in 1 .. BlockLen /\ Progress.next \in Nat
            /\ Block(K, Progress.next) \subseteq K
        BY <1>1, <4>1, BlockCells
      <4>3. Progress.next + i - 1 \in Block(K, Progress.next)
        BY <3>1, <4>2, TornShape
      <4>. QED BY <1>1, <4>2, <4>3, FiniteSamples DEF Cells
    <3>2. clip.cells \in [Cells -> 0 .. NSamples] /\ J.staging \in [1 .. BlockLen -> 0 .. NSamples]
      BY <1>1 DEF Types, Clips, Journals
    <3>. QED BY <3>1, <3>2
  <2>2. /\ Write(j) /\ UNCHANGED <<clip, disk, synced, plans, up, at, trimmer, history, counters>>
        /\ pc' = "staging" /\ Progress.next # Done
    BY <1>6 DEF Stage
  <2>. HIDE DEF st
  <2>3. j \in Journals /\ j.slots = J.slots
    BY <1>1, <2>1 DEF Journals
  <2>. HIDE DEF j
  <2>4. Placed(job, j) /\ Valid(j) # {} /\ Latest(j).next # Done
    BY <1>1, <2>2, <2>3 DEF Placed, Valid, Latest, Progress
  <2>. QED BY <1>2, <2>2, <2>3, <2>4 DEF Types
<1>7. CASE Staged
  <2>1. /\ Flush /\ UNCHANGED <<clip, disk, journal, plans, up, trimmer, history, counters>>
        /\ pc' = "moving" /\ at' = 0 /\ Latest(J).next # Done
    BY <1>1, <1>7 DEF Staged, Progress
  <2>. QED BY <1>1, <1>2, <2>1
<1>8. CASE Recorded
  <2>1. /\ Flush /\ UNCHANGED <<clip, disk, journal, plans, up, at, trimmer, history, counters>>
        /\ pc' = "block"
    BY <1>8 DEF Recorded
  <2>. QED BY <1>1, <1>2, <2>1 DEF Types
<1>9. CASE BeginMove
  <2>1. /\ UNCHANGED <<clip, disk, journal, synced, plans, up, trimmer, history, counters>>
        /\ pc' = "moving" /\ at' = 0 /\ Latest(J).next # Done
    BY <1>9 DEF BeginMove, Progress
  <2>. QED BY <1>1, <1>2, <2>1
<1>. QED BY <1>4, <1>5, <1>6, <1>7, <1>8, <1>9

LEMMA ClipTypes ==
    ASSUME Types, Named, MoveCell \/ WriteIndex \/ WriteMediaHeader \/ SetLen
    PROVE  Types' /\ Named'
<1>. USE DEF Moving, Ending
<1>1. /\ job \in Trims /\ J \in Journals /\ K \in SUBSET Samples
      /\ Progress.next \in BlockStarts(K) \cup {Done} /\ Progress.next \in 1 .. Done
      /\ pc \in {"staging", "staged", "moving"} => Progress.next \in BlockStarts(K)
      /\ Cardinality(K) \in 0 .. NSamples
  BY AtWork, FiniteSamples DEF MoveCell, WriteIndex, WriteMediaHeader, SetLen
<1>2. ASSUME clip' \in Clips, at' \in Nat,
             UNCHANGED <<disk, journal, synced, plans, up, trimmer, history, counters>>,
             pc' = pc \/ pc' \in Ending, Valid(J) # {}
      PROVE  Types' /\ Named'
  <2>1. Named'
    BY <1>2 DEF Named, Blank, Placed, Progress, J, plans, trimmer, counters
  <2>. QED BY <1>1, <1>2, <2>1 DEF Types, plans, trimmer, history, counters
<1>3. /\ Valid(J) # {} /\ at \in Nat
      /\ clip.cells \in [Cells -> 0 .. NSamples] /\ clip.index \in [Cells -> SUBSET Samples]
      /\ clip.head \in 0 .. NSamples /\ clip.len \in Nat
      /\ Cardinality(K) + 1 \in Cells /\ Cardinality(K) + 2 \in Nat
      /\ clip = [head |-> clip.head, len |-> clip.len, cells |-> clip.cells, index |-> clip.index]
  <2>1. Valid(J) # {}
    BY AtWork DEF MoveCell, WriteIndex, WriteMediaHeader, SetLen
  <2>2. Cardinality(K) + 1 \in Cells /\ Cardinality(K) + 2 \in Nat
    BY <1>1, FiniteSamples DEF Cells
  <2>. QED BY <2>1, <2>2 DEF Types, Clips
<1>4. CASE MoveCell
  <2>. DEFINE b == Progress.next
              cell == Dst(K, b) + at
              sample == IF Progress.staged THEN J.staging[at + 1] ELSE clip.cells[b + at]
  <2>1. /\ clip' = [clip EXCEPT !.cells[cell] = sample, !.index[cell] = {}]
        /\ at' = at + 1 /\ at < Size(K, b) /\ b \in BlockStarts(K)
        /\ UNCHANGED <<disk, journal, synced, plans, up, pc, trimmer, history, counters>>
    BY <1>1, <1>4 DEF MoveCell
  <2>2. b \in K /\ b \in Nat
    BY <1>1, <2>1, FiniteSamples DEF BlockStarts
  <2>3. Size(K, b) \in 1 .. BlockLen
    BY <1>1, <2>2, BlockCells
  <2>4. b + at \in Block(K, b) /\ b + at \in K
    <3>1. Block(K, b) = b .. b + Size(K, b) - 1 /\ Block(K, b) \subseteq K
      BY <1>1, <2>2, BlockCells
    <3>. QED BY <1>3, <2>1, <2>2, <2>3, <3>1, TornShape
  <2>5. sample \in 0 .. NSamples
    <3>1. b + at \in Cells
      <4>1. b + at \in Samples
        BY <1>1, <2>4
      <4>. HIDE DEF b
      <4>. QED BY <4>1, FiniteSamples DEF Cells
    <3>2. at + 1 \in 1 .. BlockLen /\ J.staging \in [1 .. BlockLen -> 0 .. NSamples]
      BY <1>1, <1>3, <2>1, <2>3, TornShape DEF Journals
    <3>. QED BY <1>3, <3>1, <3>2
  <2>. HIDE DEF sample, cell, b
  <2>6. clip' \in Clips
    BY <1>3, <2>1, <2>5 DEF Clips
  <2>. QED BY <1>2, <1>3, <2>1, <2>6
<1>5. CASE WriteIndex
  <2>1. lists[job] \in SUBSET Samples /\ 0 \in 0 .. NSamples
    BY <1>1, FiniteSamples DEF Types
  <2>2. clip' \in Clips
    BY <1>3, <1>5, <2>1 DEF WriteIndex, Clips
  <2>. QED BY <1>2, <1>3, <1>5, <2>2 DEF WriteIndex
<1>6. CASE WriteMediaHeader
  <2>1. clip' \in Clips
    BY <1>1, <1>3, <1>6 DEF WriteMediaHeader, Clips
  <2>. QED BY <1>2, <1>3, <1>6, <2>1 DEF WriteMediaHeader
<1>7. CASE SetLen
  <2>1. 0 \in 0 .. NSamples
    BY FiniteSamples
  <2>2. clip' \in Clips
    BY <1>1, <1>3, <1>7, <2>1 DEF SetLen, Clips
  <2>. QED BY <1>2, <1>3, <1>7, <2>2 DEF SetLen
<1>. QED BY <1>4, <1>5, <1>6, <1>7

LEMMA TrimmerTypes ==
    ASSUME Types, Named, Start \/ FinishNext \/ Read \/ Rest \/ Trim \/ Quit \/ UNCHANGED vars
    PROVE  Types' /\ Named'
<1>. USE DEF Beginning, Moving, Ending
<1>1. Left \subseteq 1 .. trims
  <2>1. ASSUME NEW t \in Trims, journal[t].there PROVE t \in 1 .. trims
    <3>1. ~(t > trims)
      BY <2>1, TornShape DEF Named, Blank
    <3>2. trims \in Nat /\ t \in Nat /\ t >= 1
      BY TrimAssumption DEF Types, Trims
    <3>. QED BY <3>1, <3>2
  <2>. QED BY <2>1 DEF Left
<1>2. ASSUME UNCHANGED <<clip, disk, journal, synced, plans, at, history, trims>>,
             job' \in 0 .. trims, todo' \subseteq 1 .. trims, want' \in BOOLEAN, want' => trims < MaxTrims,
             pc' \in {"idle", "finishing", "reading", "block"}, pc' \in {"reading", "block"} => job' \in Trims,
             pc' = "block" => Valid(J') # {}
      PROVE  Types' /\ Named'
  <2>1. Types'
    BY <1>2 DEF Types, plans, history
  <2>2. Named'
    BY <1>2 DEF Named, Blank, Placed, plans
  <2>. QED BY <2>1, <2>2
<1>3. Trims = 1 .. MaxTrims /\ trims \in 0 .. MaxTrims /\ MaxTrims \in Nat /\ 0 \in 0 .. trims
  BY TrimAssumption DEF Trims, Types
<1>4. CASE Start
  <2>1. /\ pc' = "finishing" /\ todo' = Left /\ want' = FALSE
        /\ UNCHANGED <<clip, disk, journal, synced, plans, at, job, fresh, history, counters>>
    BY <1>4 DEF Start
  <2>2. job' \in 0 .. trims
    BY <2>1 DEF Types
  <2>. QED BY <1>1, <1>2, <2>1, <2>2 DEF counters
<1>5. CASE Trim
  <2>1. /\ pc' = "finishing" /\ todo' = Left /\ want' = TRUE /\ trims < MaxTrims
        /\ UNCHANGED <<clip, disk, journal, synced, plans, at, job, fresh, history, counters>>
    BY <1>5 DEF Trim
  <2>2. job' \in 0 .. trims
    BY <2>1 DEF Types
  <2>. QED BY <1>1, <1>2, <2>1, <2>2 DEF counters
<1>6. CASE FinishNext
  <2>1. PICK t \in todo : job' = t /\ todo' = todo \ {t}
    BY <1>6 DEF FinishNext
  <2>2. t \in 1 .. trims /\ t \in Trims /\ t \in 0 .. trims
    BY <1>3, <2>1 DEF Types
  <2>3. /\ pc' = "reading"
        /\ UNCHANGED <<clip, disk, journal, synced, plans, up, at, want, fresh, history, counters>>
    BY <1>6 DEF FinishNext
  <2>4. todo' \subseteq 1 .. trims /\ want' \in BOOLEAN /\ (want' => trims < MaxTrims)
    BY <2>1, <2>3 DEF Types
  <2>. QED BY <1>2, <2>1, <2>2, <2>3, <2>4 DEF counters
<1>7. CASE Rest
  BY <1>2, <1>7 DEF Rest, Types, trimmer, counters
<1>8. CASE Read
  <2>1. job \in Trims /\ pc = "reading"
    BY <1>8 DEF Read, Types
  <2>2. CASE Committed(J)
    <3>1. /\ UNCHANGED <<clip, disk, journal, synced, plans, up, at, trimmer, history, counters>>
          /\ pc' = IF Valid(J) = {} THEN "finishing" ELSE "block"
      BY <1>8, <2>2 DEF Read
    <3>2. J' = J
      BY <3>1 DEF J, trimmer
    <3>3. UNCHANGED <<job, todo, want, trims>>
      BY <3>1 DEF trimmer, counters
    <3>. QED BY <1>2, <2>1, <3>1, <3>2, <3>3 DEF Types
  <2>3. CASE ~Committed(J)
    <3>1. /\ Drop(job) /\ UNCHANGED <<clip, disk, plans, up, at, trimmer, history, counters>>
          /\ pc' = "finishing"
      BY <1>8, <2>3 DEF Read
    <3>2. /\ journal' \in [Trims -> Journals] /\ synced' \in [Trims -> Journals]
          /\ Blank' /\ \A t \in Trims : Placed(t, journal[t])' /\ Placed(t, synced[t])'
      BY <2>1, <3>1, DropTypes DEF plans, counters
    <3>. QED BY <2>1, <3>1, <3>2 DEF Types, Named, plans, trimmer, history, counters
  <2>. QED BY <2>2, <2>3
<1>9. CASE Quit
  <2>1. /\ pc' = "idle" /\ todo' = {} /\ want' = FALSE /\ at' = 0 /\ job' = 0
        /\ UNCHANGED <<clip, disk, journal, synced, plans, history, counters>>
    BY <1>9 DEF Quit, Stop
  <2>2. Types'
    BY <1>3, <2>1 DEF Types, plans, history, counters
  <2>3. Named'
    BY <2>1 DEF Named, Blank, Placed, plans, counters
  <2>. QED BY <2>2, <2>3
<1>10. CASE UNCHANGED vars
  BY <1>10 DEF vars, Types, Named, Blank, Placed, Progress, J, plans, trimmer, history, counters
<1>. QED BY <1>4, <1>5, <1>6, <1>7, <1>8, <1>9, <1>10

LEMMA EndTypes ==
    ASSUME Types, Named, Finished \/ Fail
    PROVE  Types' /\ Named'
<1>. USE DEF Beginning, Moving, Ending
<1>1. job \in Trims /\ J \in Journals /\ Placed(job, J)
  BY DEF Finished, Fail, Types, Named, J
<1>2. ASSUME clip' = clip, disk' \in {clip, disk}, flushed' \in BOOLEAN, keep' = keep,
             UNCHANGED <<plans, at, job, todo, want, alone, trims>>, pc' \in {"reading", "finishing"},
             Drop(job) \/ (journal' = journal /\ (synced' = synced \/ Flush))
      PROVE  Types' /\ Named'
  <2>1. /\ journal' \in [Trims -> Journals] /\ synced' \in [Trims -> Journals]
        /\ Blank' /\ \A t \in Trims : Placed(t, journal[t])' /\ Placed(t, synced[t])'
    BY <1>1, <1>2, DropTypes, JournalTypes
  <2>. QED BY <1>1, <1>2, <2>1 DEF Types, Named, plans
<1>3. CASE Finished
  BY <1>2, <1>3 DEF Finished, plans, history, Types
<1>4. CASE Fail
  BY <1>2, <1>4 DEF Fail, plans, Types
<1>. QED BY <1>3, <1>4

LEMMA PlanTypes ==
    ASSUME Types, Named, Plan
    PROVE  Types' /\ Named'
<1>. USE DEF Beginning, Moving, Ending
<1>1. /\ pc = "finishing" /\ todo = {} /\ want /\ want' = FALSE
      /\ UNCHANGED <<clip, disk, synced, up, at, todo, flushed, faults, crashes>>
  BY DEF Plan
<1>2. trims \in 0 .. MaxTrims /\ trims < MaxTrims /\ MaxTrims \in Nat /\ Trims = 1 .. MaxTrims
  BY <1>1, TrimAssumption DEF Types, Trims
<1>3. CASE Listed = {}
  <2>1. pc' = "idle" /\ UNCHANGED <<trims, job, fresh, plans, journal, alone>>
    BY <1>3 DEF Plan
  <2>. QED BY <1>1, <2>1 DEF Types, Named, Blank, Placed, plans
<1>4. CASE Listed # {}
  <2>0. PICK t : t = trims + 1
    OBVIOUS
  <2>1. PICK P \in (SUBSET (1 .. clip.head)) \ {{}} :
          /\ trims' = t /\ job' = t /\ fresh' = TRUE
          /\ keep' = [keep EXCEPT ![t] = P]
          /\ lists' = [lists EXCEPT ![t] = {x \in Listed : Dst(Listed, x) \in P}]
          /\ journal' = [journal EXCEPT ![t] = [NoJournal EXCEPT !.there = TRUE]]
          /\ alone' = (alone /\ Left = {})
          /\ pc' = "plan"
    BY <1>4, <2>0 DEF Plan
  <2>2. t \in Trims /\ t \in 0 .. MaxTrims /\ t \in 0 .. t /\ t > trims
    BY <1>2, <2>0
  <2>3. clip.head \in 0 .. NSamples /\ clip.head + 1 \in Cells /\ P \subseteq Samples
    <3>1. clip.head \in 0 .. NSamples
      BY DEF Types, Clips
    <3>. QED BY <3>1, FiniteSamples DEF Cells
  <2>4. Listed \subseteq Samples
    <3>1. clip.index \in [Cells -> SUBSET Samples]
      BY DEF Types, Clips
    <3>. QED BY <2>3, <3>1 DEF Listed
  <2>5. keep' \in [Trims -> SUBSET Samples] /\ lists' \in [Trims -> SUBSET Samples]
    BY <2>1, <2>2, <2>3, <2>4 DEF Types
  <2>6. [NoJournal EXCEPT !.there = TRUE] \in Journals /\ Valid([NoJournal EXCEPT !.there = TRUE]) = {}
    <3>1. [NoJournal EXCEPT !.there = TRUE].slots = NoJournal.slots
      BY DEF NoJournal
    <3>. QED BY <3>1, TornShape DEF Journals, Valid
  <2>7. journal' \in [Trims -> Journals]
    BY <2>1, <2>6 DEF Types
  <2>8. Types'
    <3>1. 1 .. trims \subseteq 1 .. t
      BY <1>2, <2>2
    <3>2. alone' \in BOOLEAN /\ flushed' \in BOOLEAN
      BY <1>1, <2>1 DEF Types
    <3>. QED BY <1>1, <1>2, <2>1, <2>2, <2>5, <2>7, <3>1, <3>2 DEF Types
  <2>9. Blank'
    <3>1. ASSUME NEW u \in Trims, u > t PROVE u > trims /\ u # t
      BY <1>2, <2>2, <3>1
    <3>. QED BY <1>1, <2>1, <3>1 DEF Blank, Named, Types
  <2>10. \A u \in Trims : Placed(u, journal[u])' /\ Placed(u, synced[u])'
    <3>0. /\ \A u \in Trims : u # t => journal'[u] = journal[u] /\ keep'[u] = keep[u]
          /\ journal'[t] = [NoJournal EXCEPT !.there = TRUE] /\ synced' = synced /\ synced[t] = NoJournal
      BY <1>1, <2>1, <2>2 DEF Types, Named, Blank
    <3>1. ASSUME NEW u \in Trims, u # t
          PROVE  Placed(u, journal[u])' /\ Placed(u, synced[u])'
      BY <3>0, <3>1 DEF Placed, Named
    <3>2. Placed(t, journal[t])' /\ Placed(t, synced[t])'
      BY <2>6, <3>0, TornShape DEF Placed
    <3>3. ASSUME NEW u \in Trims
          PROVE  Placed(u, journal[u])' /\ Placed(u, synced[u])'
      <4>1. CASE u = t
        BY <3>2, <4>1
      <4>. QED BY <3>1, <4>1
    <3>. QED BY <3>3
  <2>. QED BY <2>1, <2>8, <2>9, <2>10 DEF Named
<1>. QED BY <1>3, <1>4
(* What a stop leaves of the clip and of the journal.                        *)
TornOf(j, old) == [j EXCEPT !.slots = [s \in 0 .. 1 |-> IF j.slots[s] # old.slots[s] THEN Torn ELSE j.slots[s]]]
SlotsOf(j, old) == [old EXCEPT !.there = TRUE, !.slots = j.slots]

LEMMA CrashClip ==
    ASSUME Types, Crash
    PROVE  /\ clip' \in Clips /\ disk' = clip'
           /\ clip' = clip \/ clip # disk
           /\ \A c \in Cells : clip'.cells[c] = clip.cells[c] \/ clip'.cells[c] = disk.cells[c]
<1>1. PICK W \in SUBSET {c \in Cells : clip.cells[c] # disk.cells[c] \/ clip.index[c] # disk.index[c]},
           head \in {clip.head, disk.head}, len \in {clip.len, disk.len} :
          clip' = [head |-> head, len |-> len,
                   cells |-> [c \in Cells |-> IF c \in W THEN clip.cells[c] ELSE disk.cells[c]],
                   index |-> [c \in Cells |-> IF c \in W THEN clip.index[c] ELSE disk.index[c]]]
  BY DEF Crash
<1>2. /\ clip.cells \in [Cells -> 0 .. NSamples] /\ clip.index \in [Cells -> SUBSET Samples]
      /\ disk.cells \in [Cells -> 0 .. NSamples] /\ disk.index \in [Cells -> SUBSET Samples]
      /\ clip.head \in 0 .. NSamples /\ clip.len \in Nat /\ disk.head \in 0 .. NSamples /\ disk.len \in Nat
      /\ clip = [head |-> clip.head, len |-> clip.len, cells |-> clip.cells, index |-> clip.index]
  BY DEF Types, Clips
<1>3. clip' \in Clips
  BY <1>1, <1>2 DEF Clips
<1>4. \A c \in Cells : clip'.cells[c] = clip.cells[c] \/ clip'.cells[c] = disk.cells[c]
  BY <1>1
<1>5. clip = disk => clip' = clip
  <2>. SUFFICES ASSUME clip = disk PROVE clip' = clip
    OBVIOUS
  <2>1. [c \in Cells |-> IF c \in W THEN clip.cells[c] ELSE disk.cells[c]] = clip.cells
    BY <1>2
  <2>2. [c \in Cells |-> IF c \in W THEN clip.index[c] ELSE disk.index[c]] = clip.index
    BY <1>2
  <2>. QED BY <1>1, <1>2, <2>1, <2>2
<1>. QED BY <1>3, <1>4, <1>5 DEF Crash

LEMMA CrashJournal ==
    ASSUME Types, Crash
    PROVE  /\ synced' = journal'
           /\ job \notin Trims => journal' = journal
           /\ \A t \in Trims : t # job => journal'[t] = journal[t]
           /\ job \in Trims => /\ journal' \in [Trims -> {journal'[job]} \cup {journal[t] : t \in Trims}]
                               /\ \/ journal'[job] \in {J, synced[job]}
                                  \/ J.slots # synced[job].slots /\ journal'[job] = TornOf(J, synced[job])
                                  \/ J.plan # synced[job].plan /\ journal'[job] = SlotsOf(J, synced[job])
<1>1. synced' = journal'
  BY DEF Crash
<1>2. CASE job = 0
  <2>1. journal' = journal /\ 0 \notin Trims
    BY <1>2 DEF Crash, Trims
  <2>. QED BY <1>1, <1>2, <2>1
<1>3. CASE job # 0
  <2>1. PICK kept \in {J, synced[job]} :
          \/ Write(kept)
          \/ J.slots # synced[job].slots /\ Write(TornOf(J, synced[job]))
          \/ J.plan # synced[job].plan /\ Write(SlotsOf(J, synced[job]))
    BY <1>3 DEF Crash, TornOf, SlotsOf
  <2>2. job \in Trims
    BY <1>3, TrimAssumption DEF Types, Trims
  <2>3. \E x : /\ journal' = [journal EXCEPT ![job] = x]
               /\ \/ x \in {J, synced[job]}
                  \/ J.slots # synced[job].slots /\ x = TornOf(J, synced[job])
                  \/ J.plan # synced[job].plan /\ x = SlotsOf(J, synced[job])
    BY <2>1 DEF Write
  <2>4. PICK x : /\ journal' = [journal EXCEPT ![job] = x]
                 /\ \/ x \in {J, synced[job]}
                    \/ J.slots # synced[job].slots /\ x = TornOf(J, synced[job])
                    \/ J.plan # synced[job].plan /\ x = SlotsOf(J, synced[job])
    BY <2>3
  <2>5. journal \in [Trims -> Journals]
    BY DEF Types
  <2>6. journal'[job] = x /\ \A t \in Trims : t # job => journal'[t] = journal[t]
    BY <2>2, <2>4, <2>5
  <2>7. journal' \in [Trims -> {x} \cup {journal[t] : t \in Trims}]
    BY <2>2, <2>4, <2>5
  <2>. QED BY <1>1, <2>2, <2>4, <2>6, <2>7
<1>. QED BY <1>2, <1>3

LEMMA CrashTypes ==
    ASSUME Types, Named, Crash
    PROVE  Types' /\ Named'
<1>1. /\ up' = FALSE /\ pc' = "idle" /\ todo' = {} /\ want' = FALSE /\ fresh' = FALSE
      /\ at' = 0 /\ job' = 0 /\ UNCHANGED <<plans, history, trims, faults>>
  BY DEF Crash, Stop
<1>2. ASSUME job \in Trims
      PROVE  journal'[job] \in Journals /\ Placed(job, journal'[job])
  <2>1. J \in Journals /\ synced[job] \in Journals /\ Placed(job, J) /\ Placed(job, synced[job])
    BY <1>2 DEF Types, Named, J
  <2>2. TornOf(J, synced[job]) \in Journals
    <3>1. J.slots \in [0 .. 1 -> SlotType] /\ Torn \in SlotType
      BY <2>1, TornShape DEF Journals
    <3>. DEFINE sl == [s \in 0 .. 1 |-> IF J.slots[s] # synced[job].slots[s] THEN Torn ELSE J.slots[s]]
    <3>2. sl \in [0 .. 1 -> SlotType]
      BY <3>1
    <3>. HIDE DEF sl
    <3>3. [J EXCEPT !.slots = sl] \in Journals
      BY <2>1, <3>2 DEF Journals
    <3>. QED BY <3>3 DEF TornOf, sl
  <2>3. Placed(job, TornOf(J, synced[job]))
    <3>1. \A s \in 0 .. 1 : TornOf(J, synced[job]).slots[s] \in {Torn, J.slots[s]}
      BY <2>1 DEF TornOf, Journals
    <3>. QED BY <2>1, <3>1 DEF Placed, Valid
  <2>4. SlotsOf(J, synced[job]) \in Journals /\ SlotsOf(J, synced[job]).slots = J.slots
    BY <2>1 DEF SlotsOf, Journals
  <2>5. Placed(job, SlotsOf(J, synced[job]))
    BY <2>1, <2>4 DEF Placed, Valid
  <2>. QED BY <1>2, <2>1, <2>2, <2>3, <2>4, <2>5, CrashJournal
<1>3. journal' \in [Trims -> Journals]
  <2>1. CASE job \in Trims
    <3>1. journal \in [Trims -> Journals]
      BY DEF Types
    <3>2. journal' \in [Trims -> {journal'[job]} \cup {journal[t] : t \in Trims}]
      BY <2>1, CrashJournal
    <3>3. {journal'[job]} \cup {journal[t] : t \in Trims} \subseteq Journals
      BY <1>2, <2>1, <3>1
    <3>. QED BY <3>2, <3>3
  <2>2. CASE job \notin Trims
    BY <2>2, CrashJournal DEF Types
  <2>. QED BY <2>1, <2>2
<1>4. synced' = journal' /\ \A t \in Trims : t # job => journal'[t] = journal[t]
  BY CrashJournal
<1>5. \A t \in Trims : Placed(t, journal'[t])
  <2>1. ASSUME NEW t \in Trims PROVE Placed(t, journal'[t])
    <3>1. CASE t = job
      BY <1>2, <2>1, <3>1
    <3>2. CASE t # job
      BY <1>4, <2>1, <3>2 DEF Named
    <3>. QED BY <3>1, <3>2
  <2>. QED BY <2>1
<1>6. \A t \in Trims : Placed(t, journal[t])' /\ Placed(t, synced[t])'
  BY <1>1, <1>4, <1>5 DEF Placed, plans
<1>7. Blank'
  <2>1. \A t \in Trims : t > trims => t # job
    <3>1. trims \in Nat /\ job \in 0 .. trims
      BY TrimAssumption DEF Types
    <3>. QED BY <3>1
  <2>. QED BY <1>1, <1>4, <2>1 DEF Named, Blank
<1>8. Types'
  <2>1. clip' \in Clips /\ disk' \in Clips
    BY CrashClip
  <2>2. trims \in Nat /\ 0 \in 0 .. trims /\ 0 \in Nat
    BY TrimAssumption DEF Types
  <2>3. /\ trims' = trims /\ keep' = keep /\ lists' = lists /\ alone' = alone /\ flushed' = flushed
        /\ synced' \in [Trims -> Journals]
    BY <1>1, <1>3, <1>4 DEF plans, history
  <2>. QED BY <1>1, <1>3, <2>1, <2>2, <2>3 DEF Types
<1>. QED BY <1>1, <1>6, <1>7, <1>8 DEF Named, Beginning, Moving, Ending

LEMMA NextTypes ==
    ASSUME Types, Named, [Next]_vars
    PROVE  Types' /\ Named'
<1>1. CASE Begin
  BY <1>1, BeginTypes
<1>2. CASE Run
  BY <1>2, RecordTypes, ClipTypes, EndTypes DEF Run
<1>3. CASE Trimmer
  BY <1>3, TrimmerTypes, PlanTypes DEF Trimmer
<1>4. CASE Trim \/ Quit \/ UNCHANGED vars
  BY <1>4, TrimmerTypes
<1>5. CASE Fail
  BY <1>5, EndTypes
<1>6. CASE Crash
  BY <1>6, CrashTypes
<1>. QED BY <1>1, <1>2, <1>3, <1>4, <1>5, <1>6 DEF Next

LEMMA InitTypes ==
    ASSUME Init
    PROVE  Types /\ Named
<1>1. Original \in Clips
  <2>1. /\ 0 \in 0 .. NSamples /\ NSamples \in 0 .. NSamples /\ NSamples + 2 \in Nat
        /\ Samples \subseteq 0 .. NSamples
    BY FiniteSamples
  <2>. QED BY <2>1 DEF Original, Clips
<1>2. 0 \in 0 .. 0 /\ 0 \in Nat /\ 0 \in 0 .. MaxTrims /\ Trims = 1 .. MaxTrims
  BY TrimAssumption DEF Trims
<1>3. Types
  BY <1>1, <1>2, TornShape DEF Init, Types
<1>4. Named
  BY <1>2, TornShape DEF Init, Named, Blank, Placed, Moving, Ending
<1>. QED BY <1>3, <1>4
-----------------------------------------------------------------------------
(* What the steps of an orderly trim have in common.                         *)
LEMMA CommittedFacts ==
    ASSUME Types, Named, Ordered, NEW t \in Trims, Committed(journal[t])
    PROVE  /\ t = trims /\ keep[t] # {} /\ WellFormed(journal[t])
           /\ \A u \in Trims : u # t => journal[u] = NoJournal /\ synced[u] = NoJournal
<1>1. t = trims /\ \A u \in Trims : u # t => ~journal[u].there /\ ~synced[u].there
  BY DEF Ordered, Records, Committed
<1>2. trims \in 1 .. trims
  BY <1>1, TrimAssumption DEF Trims
<1>. QED BY <1>1, <1>2 DEF Ordered, Records, Plans

LEMMA NotCommitted ==
    /\ ~Committed(NoJournal) /\ WellFormed(NoJournal) /\ ~NoJournal.there /\ ~NoJournal.plan
    /\ Valid(NoJournal) = {}
BY TornShape DEF Committed, WellFormed

LEMMA JobFacts ==
    ASSUME Types, Named, Ordered, pc \in {"committing"} \cup Moving \cup Ending
    PROVE  /\ job \in Trims /\ job = trims /\ J \in Journals /\ K \in SUBSET Samples /\ K # {}
           /\ Committed(J) /\ WellFormed(J) /\ Placed(job, J) /\ Valid(J) # {}
           /\ Progress.staged \in BOOLEAN
           /\ Progress.next \in BlockStarts(K) \cup {Done} /\ Progress.next \in 1 .. Done
           /\ pc \in {"staging", "staged", "moving"} => Progress.next \in BlockStarts(K)
           /\ Recoverable(job, J, clip) /\ Recoverable(job, J, disk)
           /\ \A t \in Trims : t # job => journal[t] = NoJournal /\ synced[t] = NoJournal
           /\ pc \notin ToFlush => synced[job] = J
<1>1. /\ job \in Trims /\ J \in Journals /\ synced[job] \in Journals /\ K \in SUBSET Samples
      /\ Placed(job, J) /\ Valid(J) # {} /\ Progress.staged \in BOOLEAN
      /\ Progress.next \in BlockStarts(K) \cup {Done} /\ Progress.next \in 1 .. Done
      /\ pc \in {"staging", "staged", "moving"} => Progress.next \in BlockStarts(K)
  BY AtWork
<1>2. Committed(J)
  BY DEF Ordered, Flushed
<1>3. /\ job = trims /\ K # {} /\ WellFormed(J)
      /\ \A t \in Trims : t # job => journal[t] = NoJournal /\ synced[t] = NoJournal
  BY <1>1, <1>2, CommittedFacts DEF J, K
<1>4. Recoverable(job, J, clip) /\ Recoverable(job, J, disk)
  BY <1>1, <1>2 DEF Ordered, Kept, J
<1>5. pc \notin ToFlush => synced[job] = J
  BY <1>1, <1>2 DEF Ordered, Flushed, J
<1>. QED BY <1>1, <1>2, <1>3, <1>4, <1>5

LEMMA SamePlans ==
    ASSUME keep' = keep, lists' = lists, NEW t, NEW j, NEW k
    PROVE  Recoverable(t, j, k)' <=> Recoverable(t, j, k)
BY DEF Recoverable, InPlace, Holds, SampleAt

(* A step of the trim at work.                                               *)
LEMMA JobStep ==
    ASSUME Types, Named, Ordered, UNCHANGED <<plans, job, trims, history>>,
           pc \in {"committing"} \cup Moving \cup Ending, pc' \in Moving \cup Ending,
           NEW i, NEW s, journal'[job] = i, synced'[job] = s,
           \A t \in Trims : t # job => journal'[t] = journal[t] /\ synced'[t] = synced[t],
           WellFormed(i), WellFormed(s), Committed(i), Committed(s),
           pc' \notin ToFlush => s = i,
           pc' = "staging" => i = [s EXCEPT !.staging = i.staging],
           pc' \in {"staged", "recording"} =>
               \E next \in BlockStarts(K) \cup {Done}, staged \in BOOLEAN : i = Slot(s, next, staged),
           \A j \in {i, s} : \A k \in {clip', disk'} : Recoverable(job, j, k),
           Staging', MovingOn', Finishing'
    PROVE  Ordered'
<1>1. /\ job' = job /\ trims' = trims /\ keep' = keep /\ lists' = lists /\ J' = i /\ K' = K
      /\ job \in Trims /\ job = trims
      /\ \A t \in Trims : t # job => journal'[t] = NoJournal /\ synced'[t] = NoJournal
  BY JobFacts DEF plans, J, K
<1>2. Plans'
  BY <1>1 DEF Ordered, Plans
<1>3. Records'
  BY <1>1, NotCommitted DEF Records, Committed
<1>4. Flushed'
  <2>1. pc' \in {"staged", "recording"} => Recording(job)'
    BY <1>1 DEF Recording, K
  <2>2. \A t \in Trims : Committed(journal[t])' => t = job
    BY <1>1, NotCommitted DEF Committed
  <2>. QED BY <1>1, <2>1, <2>2 DEF Flushed, Moving, Ending, Committed
<1>5. Settled'
  BY <1>1 DEF Settled, Committed
<1>6. Kept'
  <2>1. ASSUME NEW t \in Trims, NEW j \in {journal'[t], synced'[t]}, NEW k \in {clip', disk'}, Committed(j)
        PROVE  Recoverable(t, j, k)'
    <3>1. t = job
      BY <1>1, <2>1, NotCommitted
    <3>2. Recoverable(t, j, k)
      BY <2>1, <3>1
    <3>. QED BY <1>1, <3>2, SamePlans
  <2>. QED BY <2>1 DEF Kept, Committed
<1>7. Planned'
  BY DEF Planned, Beginning, Moving, Ending
<1>. QED BY <1>2, <1>3, <1>4, <1>5, <1>6, <1>7 DEF Ordered

(* A step of the trimmer between the trims; the clip may be flushed.         *)
LEMMA IdleStep ==
    ASSUME Types, Named, Ordered, UNCHANGED <<clip, journal, plans, trims, history>>,
           disk' = disk \/ (disk' = clip /\ job \in Trims /\ Committed(synced[job])),
           \/ synced' = synced /\ pc \notin ToFlush
           \/ pc \in ToFlush \ {"committing"} /\ Flush,
           pc' \in {"idle", "finishing", "reading"} \/ (pc' = "block" /\ Committed(J'))
    PROVE  Ordered'
<1>1. keep' = keep /\ lists' = lists /\ journal' = journal /\ clip' = clip
  BY DEF plans
<1>2. \A t \in Trims : /\ synced'[t] \in {journal[t], synced[t]}
                       /\ Committed(synced'[t]) <=> Committed(synced[t])
                       /\ Committed(journal[t]) => synced'[t] = journal[t]
  <2>1. CASE synced' = synced /\ pc \notin ToFlush
    BY <2>1 DEF Ordered, Flushed
  <2>2. CASE pc \in ToFlush \ {"committing"} /\ Flush
    <3>1. job \in Trims /\ synced \in [Trims -> Journals]
      BY <2>2 DEF Types, ToFlush
    <3>2. \A t \in Trims : synced'[t] = IF t = job THEN journal[job] ELSE synced[t]
      BY <2>2, <3>1 DEF Flush, J
    <3>3. Committed(journal[job]) <=> Committed(synced[job])
      <4>1. CASE pc = "planned"
        BY <3>1, <4>1 DEF Ordered, Flushed, Planned, Beginning, Committed, J
      <4>2. CASE pc # "planned"
        BY <2>2, <4>2 DEF Ordered, Flushed, ToFlush, Moving, J
      <4>. QED BY <4>1, <4>2
    <3>. QED BY <3>2, <3>3 DEF Ordered, Flushed
  <2>. QED BY <2>1, <2>2
<1>3. Plans'
  BY <1>1 DEF Ordered, Plans
<1>4. Records'
  <2>1. \A t \in Trims : synced'[t] = journal[t] \/ synced'[t] = synced[t]
    BY <1>2
  <2>. QED BY <1>1, <2>1 DEF Ordered, Records
<1>5. Flushed'
  BY <1>1, <1>2 DEF Flushed, Committed, Moving, Ending, ToFlush
<1>6. Settled'
  BY <1>1, <1>2 DEF Ordered, Settled, Committed
<1>7. Kept'
  <2>1. ASSUME NEW t \in Trims, NEW j \in {journal'[t], synced'[t]}, NEW k \in {clip', disk'}, Committed(j)
        PROVE  Recoverable(t, j, k)'
    <3>1. j \in {journal[t], synced[t]} /\ k \in {clip, disk}
      BY <1>1, <1>2, <2>1
    <3>2. Recoverable(t, j, k)
      BY <2>1, <3>1 DEF Ordered, Kept
    <3>. QED BY <1>1, <3>2, SamePlans
  <2>. QED BY <2>1 DEF Kept, Committed
<1>8. Planned' /\ Staging' /\ MovingOn' /\ Finishing'
  BY DEF Planned, Staging, MovingOn, Finishing, Beginning, Ending
<1>. QED BY <1>3, <1>4, <1>5, <1>6, <1>7, <1>8 DEF Ordered

(* A journal goes.                                                           *)
LEMMA DropStep ==
    ASSUME Types, Named, Ordered, job \in Trims, Drop(job), UNCHANGED <<clip, plans, trims, history>>,
           disk' \in {clip, disk},
           \/ disk' = disk /\ ~Committed(synced[job])
           \/ disk' = clip /\ Committed(journal[job]) /\ Plays(clip),
           pc' \in {"idle", "finishing", "reading"}
    PROVE  Ordered'
<1>1. /\ keep' = keep /\ lists' = lists /\ clip' = clip
      /\ journal'[job] = NoJournal /\ synced'[job] = NoJournal
      /\ \A t \in Trims : t # job => journal'[t] = journal[t] /\ synced'[t] = synced[t]
  BY DEF plans, Drop, Types
<1>2. Plans'
  BY <1>1 DEF Ordered, Plans
<1>3. Records'
  BY <1>1, NotCommitted DEF Ordered, Records
<1>4. Flushed'
  <2>1. \A t \in Trims : Committed(journal'[t]) => t # job /\ synced'[t] = journal'[t]
    BY <1>1, NotCommitted DEF Ordered, Flushed
  <2>. QED BY <2>1 DEF Flushed, Committed, Moving, Ending
<1>5. Settled'
  <2>1. CASE disk' = disk /\ ~Committed(synced[job])
    <3>1. ASSUME \A t \in Trims : ~Committed(synced'[t])
          PROVE  clip = disk /\ Plays(clip)
      BY <1>1, <2>1, <3>1 DEF Ordered, Settled
    <3>. QED BY <1>1, <2>1, <3>1 DEF Settled, Committed
  <2>2. CASE disk' = clip /\ Plays(clip)
    BY <1>1, <2>2 DEF Settled
  <2>. QED BY <2>1, <2>2
<1>6. Kept'
  <2>1. ASSUME NEW t \in Trims, NEW j \in {journal'[t], synced'[t]}, NEW k \in {clip', disk'}, Committed(j)
        PROVE  Recoverable(t, j, k)'
    <3>1. t # job /\ j \in {journal[t], synced[t]} /\ k \in {clip, disk}
      BY <1>1, <2>1, NotCommitted
    <3>2. Recoverable(t, j, k)
      BY <2>1, <3>1 DEF Ordered, Kept
    <3>. QED BY <1>1, <3>2, SamePlans
  <2>. QED BY <2>1 DEF Kept, Committed
<1>7. Planned' /\ Staging' /\ MovingOn' /\ Finishing'
  BY DEF Planned, Staging, MovingOn, Finishing, Beginning, Ending
<1>. QED BY <1>2, <1>3, <1>4, <1>5, <1>6, <1>7 DEF Ordered
-----------------------------------------------------------------------------
(* Before the commit, and until the first block.                             *)
LEMMA PlanStep ==
    ASSUME Types, Named, Ordered, Plan, Orderly'
    PROVE  Ordered'
<1>. USE DEF Beginning, Moving, Ending
<1>1. /\ pc = "finishing" /\ todo = {} /\ want
      /\ UNCHANGED <<clip, disk, synced, up, at, todo, flushed, faults, crashes>>
  BY DEF Plan
<1>2. trims \in Nat /\ trims < MaxTrims /\ MaxTrims \in Nat /\ Trims = 1 .. MaxTrims
  BY <1>1, TrimAssumption DEF Types, Trims
<1>3. CASE Listed = {}
  <2>1. pc' = "idle" /\ UNCHANGED <<trims, job, fresh, plans, journal, alone>>
    BY <1>3 DEF Plan
  <2>. QED BY <1>1, <2>1, IdleStep DEF history, ToFlush
<1>4. CASE Listed # {}
  <2>0. PICK t : t = trims + 1
    OBVIOUS
  <2>1. PICK P \in (SUBSET (1 .. clip.head)) \ {{}} :
          /\ trims' = t /\ job' = t /\ fresh' = TRUE
          /\ keep' = [keep EXCEPT ![t] = P]
          /\ lists' = [lists EXCEPT ![t] = {x \in Listed : Dst(Listed, x) \in P}]
          /\ journal' = [journal EXCEPT ![t] = [NoJournal EXCEPT !.there = TRUE]]
          /\ alone' = (alone /\ Left = {})
          /\ pc' = "plan"
    BY <1>4, <2>0 DEF Plan
  <2>16. P \in SUBSET (1 .. clip.head) /\ P # {}
    BY <2>1
  <2>. DEFINE M == {x \in Listed : Dst(Listed, x) \in P}
              new == [NoJournal EXCEPT !.there = TRUE]
  <2>2. t \in Trims /\ t = trims + 1
    BY <1>2, <2>0
  <2>3. \A u \in Trims : journal[u] = NoJournal /\ synced[u] = NoJournal
    <3>1. Left = {}
      BY <2>1 DEF Orderly
    <3>. QED BY <3>1 DEF Left, Ordered, Records
  <2>4. clip = disk /\ Plays(clip)
    BY <2>3, NotCommitted DEF Ordered, Settled
  <2>5. new.there /\ ~new.header /\ ~new.plan /\ new.slots = NoJournal.slots
    BY TornShape DEF NoJournal
  <2>. HIDE DEF M, new
  <2>6. /\ \A u \in Trims : u # t => keep'[u] = keep[u] /\ lists'[u] = lists[u] /\ journal'[u] = NoJournal
        /\ keep'[t] = P /\ lists'[t] = M /\ journal'[t] = new
        /\ \A u \in Trims : synced'[u] = NoJournal
    BY <1>1, <2>1, <2>2, <2>3 DEF Types, M, new
  <2>7. /\ Cardinality(M) = Cardinality(P)
        /\ \A c \in P : clip.cells[c] = CHOOSE x \in M : Dst(M, x) = Dst(P, c)
    <3>1. clip \in Clips
      BY DEF Types
    <3>. QED BY <2>16, <2>4, <3>1, PlanFits DEF Listed, M
  <2>8. \A u \in Trims : ~Committed(journal'[u]) /\ ~Committed(synced'[u])
    BY <2>5, <2>6, NotCommitted DEF Committed
  <2>9. Plans'
    <3>1. \A u \in 1 .. t : u \in Trims /\ (u # t => u \in 1 .. trims)
      BY <1>2, <2>2
    <3>2. \A u \in 1 .. t : keep'[u] # {}
      BY <2>16, <2>6, <3>1 DEF Ordered, Plans
    <3>3. \A u \in Trims : Cardinality(lists'[u]) = Cardinality(keep'[u])
      BY <2>6, <2>7 DEF Ordered, Plans
    <3>. QED BY <2>1, <3>2, <3>3 DEF Plans
  <2>10. Records'
    <3>1. WellFormed(new)
      BY <2>5 DEF WellFormed, Committed
    <3>2. ASSUME NEW u \in Trims
          PROVE  /\ WellFormed(journal'[u]) /\ WellFormed(synced'[u])
                 /\ \A i \in {journal'[u], synced'[u]} : ~i.there => i = NoJournal
                 /\ journal'[u].there => u = trims'
                 /\ ~synced'[u].there /\ ~synced'[u].plan /\ ~Committed(synced'[u])
      <4>1. CASE u = t
        BY <2>1, <2>5, <2>6, <3>1, <4>1, NotCommitted
      <4>2. CASE u # t
        BY <2>6, <4>2, NotCommitted
      <4>. QED BY <4>1, <4>2
    <3>. QED BY <3>2 DEF Records, WellFormed, Committed, Valid
  <2>11. Flushed'
    <3>1. J' = new
      BY <2>1, <2>6 DEF J
    <3>. QED BY <2>1, <2>8, <3>1 DEF Flushed, Committed, new
  <2>12. Settled'
    BY <1>1, <2>4 DEF Settled
  <2>13. Kept'
    BY <2>8 DEF Kept, Committed
  <2>14. Planned'
    <3>1. K' = P
      BY <2>1, <2>6 DEF K
    <3>2. ASSUME NEW c \in P PROVE Holds(t, clip, c, c)'
      BY <1>1, <2>6, <2>7, <3>2 DEF Holds, SampleAt
    <3>3. \A c \in P : Holds(job, clip, c, c)'
      BY <2>1, <3>2 DEF Holds, SampleAt
    <3>. QED BY <2>1, <2>2, <2>8, <3>1, <3>3 DEF Planned, Committed
  <2>15. Staging' /\ MovingOn' /\ Finishing'
    BY <2>1 DEF Staging, MovingOn, Finishing
  <2>. QED BY <2>9, <2>10, <2>11, <2>12, <2>13, <2>14, <2>15 DEF Ordered
<1>. QED BY <1>3, <1>4

(* The first record: everything before its block is in place as it is.       *)
LEMMA FirstRecord ==
    ASSUME Types, job \in Trims, NEW j, NEW k, ~Latest(j).staged, Latest(j).next = NextBlock(K, 0),
           \A c \in K : Holds(job, k, c, c)
    PROVE  Recoverable(job, j, k)
<1>1. K \in SUBSET Samples /\ K = keep[job]
  BY DEF Types, K
<1>2. \A c \in K : c < NextBlock(K, 0) => Dst(K, c) = c
  BY <1>1, UpToFirst
<1>. QED BY <1>1, <1>2 DEF Recoverable, InPlace

LEMMA BeginStep ==
    ASSUME Types, Named, Ordered, Begin, Types', Named'
    PROVE  Ordered'
<1>. USE DEF Beginning, Moving, Ending
<1>1. CASE WritePlan
  <2>. DEFINE rec == [seq |-> 1, next |-> NextBlock(K, 0), staged |-> FALSE]
              j == [J EXCEPT !.plan = TRUE, !.slots[1] = rec]
  <2>1. /\ Write(j) /\ UNCHANGED <<clip, disk, synced, plans, up, at, trimmer, history, counters>>
        /\ pc = "plan" /\ pc' = "planned"
    BY <1>1 DEF WritePlan
  <2>2. job \in Trims /\ J = [NoJournal EXCEPT !.there = TRUE] /\ job = trims /\ J = journal[job]
    BY <2>1 DEF Types, Ordered, Flushed, Planned, J
  <2>3. j.there /\ j.plan /\ ~j.header /\ j.slots = [NoJournal.slots EXCEPT ![1] = rec]
    BY <2>2, TornShape DEF NoJournal
  <2>. HIDE DEF rec, j
  <2>4. /\ job' = job /\ trims' = trims /\ keep' = keep /\ lists' = lists /\ synced' = synced
        /\ clip' = clip /\ disk' = disk
        /\ journal'[job] = j /\ \A t \in Trims : t # job => journal'[t] = journal[t]
        /\ J' = j /\ K' = K
    BY <2>1, <2>2 DEF plans, trimmer, counters, Write, Types, J, K
  <2>5. ~Committed(J) /\ ~Committed(j) /\ WellFormed(j)
    BY <2>2, <2>3, TornShape DEF Committed, WellFormed
  <2>6. Plans' /\ Settled'
    <3>1. \A t \in Trims : Committed(synced[t])' <=> Committed(synced[t])
      BY <2>4 DEF Committed
    <3>. QED BY <2>4, <3>1 DEF Ordered, Plans, Settled
  <2>7. Records'
    <3>1. ~Committed(synced[job])
      BY <2>2, <2>5 DEF Ordered, Records
    <3>. QED BY <2>2, <2>3, <2>4, <2>5, <3>1 DEF Ordered, Records
  <2>8. Flushed'
    <3>1. \A t \in Trims : Committed(journal'[t]) => synced'[t] = journal'[t]
      BY <2>1, <2>4, <2>5 DEF Ordered, Flushed
    <3>. QED BY <2>1, <2>3, <2>4, <3>1 DEF Flushed, Committed, rec
  <2>9. Kept'
    <3>1. ASSUME NEW t \in Trims, NEW i \in {journal'[t], synced'[t]}, NEW k \in {clip', disk'}, Committed(i)
          PROVE  Recoverable(t, i, k)'
      <4>1. i \in {journal[t], synced[t]} /\ k \in {clip, disk}
        BY <2>4, <2>5, <3>1
      <4>2. Recoverable(t, i, k)
        BY <3>1, <4>1 DEF Ordered, Kept
      <4>. QED BY <2>4, <4>2, SamePlans
    <3>. QED BY <3>1 DEF Kept, Committed
  <2>10. Planned'
    BY <2>1, <2>4 DEF Ordered, Planned, Holds, SampleAt, Committed
  <2>11. Staging' /\ MovingOn' /\ Finishing'
    BY <2>1 DEF Staging, MovingOn, Finishing
  <2>. QED BY <2>6, <2>7, <2>8, <2>9, <2>10, <2>11 DEF Ordered
<1>2. CASE WriteHeader
  <2>. DEFINE j == [J EXCEPT !.header = TRUE]
              rec == [seq |-> 1, next |-> NextBlock(K, 0), staged |-> FALSE]
  <2>1. /\ Write(j) /\ Flush /\ UNCHANGED <<clip, disk, plans, up, at, trimmer, history, counters>>
        /\ pc = "planned" /\ pc' = "committing"
    BY <1>2 DEF WriteHeader
  <2>2. /\ job \in Trims /\ job = trims /\ J = journal[job] /\ J \in Journals /\ K \in SUBSET Samples
        /\ J.there /\ J.plan /\ ~J.header /\ J.slots = [NoJournal.slots EXCEPT ![1] = rec]
        /\ ~Committed(synced[job]) /\ \A c \in K : Holds(job, clip, c, c)
    BY <2>1, AtWork DEF Ordered, Flushed, Planned, J
  <2>3. /\ j.there /\ j.plan /\ j.header /\ j.slots = J.slots /\ J = [j EXCEPT !.header = FALSE]
        /\ j \in Journals
    BY <2>2 DEF Journals
  <2>4. Latest(j) = rec /\ Valid(j) # {}
    <3>0. NoJournal.slots = [s \in 0 .. 1 |-> Torn] /\ rec.seq = 1 /\ Torn.seq = 0
      BY TornShape DEF NoJournal
    <3>3. j.slots = [[s \in 0 .. 1 |-> Torn] EXCEPT ![1] = rec]
      BY <2>2, <2>3, <3>0
    <3>4. rec # Torn
      BY <3>0
    <3>. HIDE DEF rec, j
    <3>1. j.slots[1] = rec /\ j.slots[0] = Torn /\ rec # Torn
      BY <3>3, <3>4
    <3>2. 1 \in 0 .. 1 /\ \A r \in 0 .. 1 : r # 1 => r = 0
      OBVIOUS
    <3>. QED BY <2>3, <3>1, <3>2, LatestIs
  <2>5. ~rec.staged /\ rec.next = NextBlock(K, 0)
    OBVIOUS
  <2>. HIDE DEF rec, j
  <2>6. /\ job' = job /\ trims' = trims /\ keep' = keep /\ lists' = lists
        /\ clip' = clip /\ disk' = disk
        /\ journal'[job] = j /\ \A t \in Trims : t # job => journal'[t] = journal[t] /\ synced'[t] = synced[t]
        /\ synced'[job] = J /\ J' = j /\ K' = K
    BY <2>1, <2>2 DEF plans, trimmer, counters, Write, Flush, Types, J, K
  <2>7. ~Committed(J) /\ Committed(j) /\ WellFormed(j) /\ WellFormed(J)
    BY <2>2, <2>3, <2>4 DEF Committed, WellFormed
  <2>8. \A t \in Trims : t # job => journal[t] = NoJournal /\ synced[t] = NoJournal
    BY <2>2 DEF Ordered, Records
  <2>9. Plans'
    BY <2>6 DEF Ordered, Plans
  <2>10. Records'
    <3>1. ASSUME NEW t \in Trims
          PROVE  /\ WellFormed(journal'[t]) /\ WellFormed(synced'[t])
                 /\ \A i \in {journal'[t], synced'[t]} : ~i.there => i = NoJournal
                 /\ journal'[t].there => t = trims'
                 /\ synced'[t].there => journal'[t].there
                 /\ synced'[t].plan => journal'[t].plan
                 /\ Committed(synced'[t]) => Committed(journal'[t])
      <4>1. CASE t = job
        BY <2>2, <2>3, <2>6, <2>7, <4>1
      <4>2. CASE t # job
        BY <2>6, <2>8, <4>2, NotCommitted
      <4>. QED BY <4>1, <4>2
    <3>. QED BY <3>1 DEF Records, WellFormed, Committed, Valid
  <2>11. Flushed'
    <3>1. \A t \in Trims : Committed(journal'[t]) => t = job
      BY <2>6, <2>8, NotCommitted
    <3>. QED BY <2>1, <2>3, <2>6, <2>7, <3>1 DEF Flushed, Committed, ToFlush
  <2>12. clip = disk /\ Plays(clip)
    BY <2>2, <2>8, NotCommitted DEF Ordered, Settled
  <2>13. Settled'
    BY <2>6, <2>12 DEF Settled
  <2>14. Kept'
    <3>1. ASSUME NEW t \in Trims, NEW i \in {journal'[t], synced'[t]}, NEW k \in {clip', disk'}, Committed(i)
          PROVE  Recoverable(t, i, k)'
      <4>1. t = job /\ i = j /\ k = clip
        BY <2>6, <2>7, <2>8, <2>12, <3>1, NotCommitted
      <4>2. Recoverable(t, i, k)
        BY <2>2, <2>4, <2>5, <4>1, FirstRecord
      <4>. QED BY <2>6, <4>2, SamePlans
    <3>. QED BY <3>1 DEF Kept, Committed
  <2>15. Planned'
    <3>1. \A c \in K : Holds(job, clip, c, c)'
      BY <2>2, <2>6 DEF Holds, SampleAt
    <3>. QED BY <2>2, <2>6, <2>7, <3>1 DEF Planned, Committed
  <2>16. Staging' /\ MovingOn' /\ Finishing'
    BY <2>1 DEF Staging, MovingOn, Finishing
  <2>. QED BY <2>9, <2>10, <2>11, <2>13, <2>14, <2>15, <2>16 DEF Ordered
<1>3. CASE Commit
  <2>1. /\ Flush /\ UNCHANGED <<clip, disk, journal, plans, up, at, trimmer, history, counters>>
        /\ pc = "committing" /\ pc' = "block"
    BY <1>3 DEF Commit
  <2>2. /\ job \in Trims /\ Committed(J) /\ WellFormed(J)
        /\ Recoverable(job, J, clip) /\ Recoverable(job, J, disk)
    BY <2>1, JobFacts
  <2>3. /\ journal'[job] = J /\ synced'[job] = J /\ clip' = clip /\ disk' = disk /\ job' = job
        /\ \A t \in Trims : t # job => journal'[t] = journal[t] /\ synced'[t] = synced[t]
    BY <2>1, <2>2 DEF Types, Flush, J, trimmer
  <2>4. Staging' /\ MovingOn' /\ Finishing'
    BY <2>1 DEF Staging, MovingOn, Finishing
  <2>. QED BY <2>1, <2>2, <2>3, <2>4, JobStep DEF trimmer, counters, ToFlush
<1>. QED BY <1>1, <1>2, <1>3 DEF Begin
-----------------------------------------------------------------------------
(* Carrying a plan out.                                                      *)
LEMMA SameRecord ==
    ASSUME NEW t, NEW i, NEW j, NEW k, Recoverable(t, i, k), Latest(j) = Latest(i),
           j.staging = i.staging \/ ~Latest(i).staged
    PROVE  Recoverable(t, j, k)
BY DEF Recoverable

LEMMA JobFrame ==
    ASSUME Types, Named, Ordered, pc \in Moving \cup Ending, NEW i, NEW s, UNCHANGED <<plans, trimmer>>,
           Write(i) \/ (journal' = journal /\ i = J),
           (Flush /\ s = J) \/ (synced' = synced /\ s = synced[job])
    PROVE  /\ journal'[job] = i /\ synced'[job] = s /\ J' = i /\ K' = K
           /\ keep' = keep /\ lists' = lists /\ job' = job
           /\ \A t \in Trims : t # job => journal'[t] = journal[t] /\ synced'[t] = synced[t]
<1>1. job \in Trims
  BY JobFacts
<1>2. /\ journal'[job] = i /\ synced'[job] = s
      /\ \A t \in Trims : t # job => journal'[t] = journal[t] /\ synced'[t] = synced[t]
  BY <1>1 DEF Types, Write, Flush, J
<1>. QED BY <1>1, <1>2 DEF trimmer, plans, J, K

LEMMA StageStep ==
    ASSUME Types, Named, Ordered, Types', Named', Stage \/ RecordStaged \/ Staged \/ BeginMove \/ Recorded
    PROVE  Ordered'
<1>. USE DEF Moving, Ending, ToFlush
<1>1. /\ job \in Trims /\ job = trims /\ J \in Journals /\ K \in SUBSET Samples /\ K = keep[job]
      /\ Committed(J) /\ WellFormed(J) /\ Placed(job, J) /\ Valid(J) # {}
      /\ Progress.next \in BlockStarts(K) \cup {Done} /\ Progress.next \in 1 .. Done
      /\ pc \in {"staging", "staged", "moving"} => Progress.next \in BlockStarts(K)
      /\ Recoverable(job, J, clip) /\ Recoverable(job, J, disk)
      /\ pc \notin ToFlush => synced[job] = J
      /\ pc \in Moving
  <2>1. pc \in Moving
    BY DEF Stage, RecordStaged, Staged, BeginMove, Recorded
  <2>. QED BY <2>1, JobFacts DEF K
<1>2. CASE Stage
  <2>. DEFINE b == Progress.next
              st == [i \in 1 .. BlockLen |-> IF i <= Size(K, b) THEN clip.cells[b + i - 1] ELSE J.staging[i]]
              j == [J EXCEPT !.staging = st]
  <2>1. /\ Write(j) /\ UNCHANGED <<clip, disk, synced, plans, up, at, trimmer, history, counters>>
        /\ pc = "block" /\ pc' = "staging" /\ ~Progress.staged /\ b \in BlockStarts(K)
    BY <1>1, <1>2 DEF Stage
  <2>2. /\ j.slots = J.slots /\ j.staging = st /\ j = [J EXCEPT !.staging = j.staging]
        /\ j.there = J.there /\ j.header = J.header /\ j.plan = J.plan
    BY <1>1 DEF Journals
  <2>3. ASSUME NEW c \in Block(K, b)
        PROVE  st[c - b + 1] = SampleAt(job, c)
    <3>1. b \in Nat /\ c \in Nat /\ b <= c /\ Dst(K, c) < c /\ c \in K /\ b \in K /\ Dst(K, c) \in Nat
      BY <1>1, <2>1, BlockGoesDown, DstBounds
    <3>2. Block(K, b) = b .. b + Size(K, b) - 1 /\ Size(K, b) \in 1 .. BlockLen
      BY <1>1, <3>1, BlockCells
    <3>. HIDE DEF b
    <3>3. c - b + 1 \in 1 .. BlockLen /\ c - b + 1 <= Size(K, b) /\ b + (c - b + 1) - 1 = c
      BY <3>1, <3>2, TornShape
    <3>4. st[c - b + 1] = clip.cells[c]
      BY <3>3
    <3>5. Dst(K, c) # c /\ ~(c < b)
      BY <3>1
    <3>6. Holds(job, clip, c, c)
      BY <1>1, <2>1, <3>1, <3>5 DEF Recoverable, Progress, b
    <3>. QED BY <3>4, <3>6 DEF Holds
  <2>. HIDE DEF st
  <2>4. Committed(j) /\ WellFormed(j) /\ Latest(j) = Latest(J)
    BY <1>1, <2>2 DEF Committed, WellFormed, Valid, Latest
  <2>5. Recoverable(job, j, clip) /\ Recoverable(job, j, disk)
    BY <1>1, <2>1, <2>4, SameRecord DEF Progress
  <2>. HIDE DEF j
  <2>6. /\ journal'[job] = j /\ synced'[job] = J /\ J' = j /\ K' = K
        /\ keep' = keep /\ lists' = lists /\ job' = job
        /\ \A t \in Trims : t # job => journal'[t] = journal[t] /\ synced'[t] = synced[t]
    <3>1. synced[job] = J
      BY <1>1, <2>1
    <3>. QED BY <2>1, <3>1, JobFrame
  <2>7. Staging'
    <3>1. Progress' = Progress
      BY <2>4, <2>6 DEF Progress
    <3>2. \A c \in Block(K, Progress.next) : j.staging[c - Progress.next + 1] = SampleAt(job, c)'
      BY <2>2, <2>3, <2>6 DEF SampleAt
    <3>. QED BY <2>1, <2>6, <3>1, <3>2 DEF Staging, SampleAt
  <2>8. MovingOn' /\ Finishing'
    BY <2>1 DEF MovingOn, Finishing
  <2>. QED BY <1>1, <2>1, <2>2, <2>4, <2>5, <2>6, <2>7, <2>8, JobStep DEF trimmer, counters
<1>3. CASE RecordStaged
  <2>. DEFINE b == Progress.next
              j == Slot(J, b, TRUE)
  <2>1. /\ Write(j) /\ Flush /\ UNCHANGED <<clip, disk, plans, up, at, trimmer, history, counters>>
        /\ pc = "staging" /\ pc' = "staged" /\ b \in BlockStarts(K)
    BY <1>1, <1>3 DEF RecordStaged
  <2>2. /\ Valid(j) # {} /\ Latest(j).next = b /\ Latest(j).staged = TRUE
        /\ j.there = J.there /\ j.header = J.header /\ j.plan = J.plan /\ j.staging = J.staging
    <3>1. b \in BlockStarts(keep[job]) \cup {Done} /\ b \in 0 .. Done
      BY <1>1, <2>1, FiniteSamples
    <3>2. /\ Valid(j) # {} /\ Latest(j).next = b /\ Latest(j).staged = TRUE
          /\ j.there = J.there /\ j.header = J.header /\ j.plan = J.plan /\ j.staging = J.staging
      <4>1. ASSUME NEW n \in BlockStarts(keep[job]) \cup {Done}, n \in 0 .. Done, NEW x \in BOOLEAN
            PROVE  /\ Valid(Slot(J, n, x)) # {}
                   /\ Latest(Slot(J, n, x)).next = n /\ Latest(Slot(J, n, x)).staged = x
                   /\ Slot(J, n, x).there = J.there /\ Slot(J, n, x).header = J.header
                   /\ Slot(J, n, x).plan = J.plan /\ Slot(J, n, x).staging = J.staging
        BY <1>1, <4>1, SlotFacts
      <4>. HIDE DEF b
      <4>. QED BY <3>1, <4>1
    <3>. QED BY <3>2
  <2>3. Committed(j) /\ WellFormed(j)
    BY <1>1, <2>2 DEF Committed, WellFormed
  <2>4. ASSUME NEW k, Recoverable(job, J, k) PROVE Recoverable(job, j, k)
    <3>1. ~Latest(J).staged /\ \A c \in Block(K, b) : J.staging[c - b + 1] = SampleAt(job, c)
      BY <2>1 DEF Ordered, Staging, Progress
    <3>2. K = keep[job] /\ b = Latest(J).next
      BY DEF K, Progress
    <3>. HIDE DEF j, b
    <3>. QED BY <2>2, <2>4, <3>1, <3>2 DEF Recoverable
  <2>5. \E next \in BlockStarts(K) \cup {Done}, staged \in BOOLEAN : j = Slot(J, next, staged)
    BY <2>1
  <2>. HIDE DEF j
  <2>6. /\ journal'[job] = j /\ synced'[job] = J /\ J' = j /\ K' = K
        /\ \A t \in Trims : t # job => journal'[t] = journal[t] /\ synced'[t] = synced[t]
    BY <2>1, JobFrame
  <2>7. Staging' /\ MovingOn' /\ Finishing'
    BY <2>1, <2>2, <2>6 DEF Staging, MovingOn, Finishing, Progress
  <2>. QED BY <1>1, <2>1, <2>2, <2>3, <2>4, <2>5, <2>6, <2>7, JobStep DEF trimmer, counters
<1>4. ASSUME journal' = journal, clip' = clip, disk' = disk, UNCHANGED <<plans, trimmer, history, counters>>,
             Flush \/ (synced' = synced /\ synced[job] = J), pc' \in {"moving", "block"}, MovingOn'
      PROVE  Ordered'
  <2>1. /\ journal'[job] = J /\ synced'[job] = J
        /\ \A t \in Trims : t # job => journal'[t] = journal[t] /\ synced'[t] = synced[t]
    BY <1>1, <1>4, JobFrame
  <2>2. Staging' /\ Finishing'
    BY <1>4 DEF Staging, Finishing
  <2>. QED BY <1>1, <1>4, <2>1, <2>2, JobStep DEF trimmer, counters
<1>5. ASSUME pc' = "moving", at' = 0, J' = J, K' = K, Progress.next \in BlockStarts(K),
             Progress.staged \/ ~Overlaps(K, Progress.next)
      PROVE  MovingOn'
  <2>1. Progress' = Progress
    BY <1>5 DEF Progress
  <2>2. Size(K, Progress.next) \in 1 .. BlockLen
    BY <1>1, <1>5, BlockCells DEF BlockStarts
  <2>3. \A c \in Block(K, Progress.next) : ~(c < Progress.next + 0)
    BY <1>1, <1>5, BlockGoesDown
  <2>. QED BY <1>1, <1>5, <2>1, <2>2, <2>3, TornShape DEF MovingOn
<1>6. CASE Staged
  <2>1. /\ Flush /\ UNCHANGED <<clip, disk, journal, plans, up, trimmer, history, counters>>
        /\ pc = "staged" /\ pc' = "moving" /\ at' = 0
    BY <1>6 DEF Staged
  <2>2. Progress.staged
    BY <2>1 DEF Ordered, Staging
  <2>3. J' = J /\ K' = K
    BY <2>1 DEF J, K, trimmer, plans
  <2>. QED BY <1>1, <1>4, <1>5, <2>1, <2>2, <2>3
<1>7. CASE BeginMove
  <2>1. /\ UNCHANGED <<clip, disk, journal, synced, plans, up, trimmer, history, counters>>
        /\ pc = "block" /\ pc' = "moving" /\ at' = 0 /\ Progress.next # Done
        /\ Progress.staged \/ ~Overlaps(K, Progress.next)
    BY <1>7 DEF BeginMove
  <2>2. J' = J /\ K' = K
    BY <2>1 DEF J, K, trimmer, plans
  <2>. QED BY <1>1, <1>4, <1>5, <2>1, <2>2
<1>8. CASE Recorded
  <2>1. /\ Flush /\ UNCHANGED <<clip, disk, journal, plans, up, at, trimmer, history, counters>>
        /\ pc' = "block"
    BY <1>8 DEF Recorded
  <2>2. MovingOn'
    BY <2>1 DEF MovingOn
  <2>. QED BY <1>4, <2>1, <2>2
<1>. QED BY <1>2, <1>3, <1>6, <1>7, <1>8
(* A sample that is moved lands on a cell no sample to be had from there      *)
(* needs: the places of the kept samples differ, and a block that lands on   *)
(* its own source was staged.                                                *)
LEMMA Landing ==
    ASSUME NEW P \in SUBSET Samples, NEW b \in BlockStarts(P), NEW n \in Nat, n < Size(P, b),
           NEW c \in P, NEW w, w = Dst(P, b) + n
    PROVE  /\ b + n \in Block(P, b) /\ w = Dst(P, b + n) /\ w \in Cells /\ b \in Nat /\ c \in Nat
           /\ c \in Block(P, b) <=> (b <= c /\ c < b + Size(P, b))
           /\ c \in Block(P, b) /\ c < b + n + 1 => c < b + n \/ c = b + n
           /\ c # b + n => Dst(P, c) # w
           /\ b <= c /\ c \notin Block(P, b) => c # w
           /\ ~Overlaps(P, b) /\ b <= c => c # w
<1>1. b \in P /\ b \in Nat /\ c \in Nat /\ Size(P, b) \in 1 .. BlockLen /\ BlockLen \in Nat
      /\ Block(P, b) = b .. b + Size(P, b) - 1
  BY BlockCells, FiniteSamples, TornShape DEF BlockStarts
<1>2. Size(P, b) \in Nat /\ \A x \in Nat : x \in Block(P, b) <=> (b <= x /\ x < b + Size(P, b))
  BY <1>1
<1>3. b + n \in Nat /\ b <= b + n /\ b + n < b + Size(P, b)
  BY <1>1, <1>2
<1>4. b + n \in Block(P, b)
  BY <1>2, <1>3
<1>5. /\ b + n \in P /\ Dst(P, b) \in Nat /\ Dst(P, b + n) = Dst(P, b) + n /\ 1 <= Dst(P, b) /\ Dst(P, b) < b
  <2>1. /\ b + n \in P /\ Dst(P, b) \in Nat /\ Dst(P, b + n) = Dst(P, b) + ((b + n) - b)
        /\ 1 <= Dst(P, b) /\ Dst(P, b) < b
    BY <1>4, BlockGoesDown
  <2>. QED BY <1>1, <2>1
<1>6. w \in Cells
  <2>1. b + n \in 1 .. NSamples /\ NSamples \in Nat
    BY <1>5, FiniteSamples
  <2>2. w \in Nat /\ 1 <= w /\ w < b + n
    BY <1>1, <1>5
  <2>. QED BY <1>3, <2>1, <2>2 DEF Cells
<1>7. ASSUME c # b + n PROVE Dst(P, c) # w
  BY <1>5, <1>7, DstOneToOne
<1>8. ASSUME b <= c, c \notin Block(P, b) PROVE c # w
  <2>1. b + Size(P, b) <= c
    BY <1>1, <1>2, <1>8
  <2>. QED BY <1>1, <1>2, <1>5, <2>1
<1>9. ASSUME ~Overlaps(P, b), b <= c PROVE c # w
  <2>1. Dst(P, b) + Size(P, b) <= b
    BY <1>1, <1>2, <1>5, <1>9 DEF Overlaps
  <2>. QED BY <1>1, <1>2, <1>5, <1>9, <2>1
<1>. QED BY <1>1, <1>2, <1>4, <1>5, <1>6, <1>7, <1>8, <1>9

LEMMA MoveStep ==
    ASSUME Types, Named, Ordered, Types', Named', MoveCell
    PROVE  Ordered'
<1>. USE DEF Moving, Ending, ToFlush
<1>. DEFINE b == Progress.next
            w == Dst(K, b) + at
            sample == IF Progress.staged THEN J.staging[at + 1] ELSE clip.cells[b + at]
<1>1. /\ job \in Trims /\ job = trims /\ K \in SUBSET Samples /\ K = keep[job]
      /\ Committed(J) /\ WellFormed(J) /\ b \in BlockStarts(K)
      /\ Recoverable(job, J, clip) /\ Recoverable(job, J, disk) /\ synced[job] = J
      /\ Progress.staged \in BOOLEAN /\ at \in Nat
      /\ b = Latest(J).next /\ Progress.staged = Latest(J).staged
  BY JobFacts DEF MoveCell, K, Types, Progress
<1>2. /\ clip' = [clip EXCEPT !.cells[w] = sample, !.index[w] = {}] /\ at' = at + 1
      /\ pc = "moving" /\ pc' = "moving" /\ at < Size(K, b)
      /\ UNCHANGED <<disk, journal, synced, plans, up, trimmer, history, counters>>
  BY DEF MoveCell
<1>3. /\ Progress.staged \/ ~Overlaps(K, b)
      /\ \A c \in Block(K, b) : c < b + at => InPlace(job, clip, c)
  BY <1>2 DEF Ordered, MovingOn
<1>. HIDE DEF b
<1>4. /\ b + at \in Block(K, b) /\ w = Dst(K, b + at) /\ w \in Cells /\ b \in Nat /\ b + at \in K
      /\ \A c \in K : /\ c \in Nat
                      /\ c \in Block(K, b) /\ c < b + at + 1 => c < b + at \/ c = b + at
                      /\ c # b + at => Dst(K, c) # w
                      /\ b <= c /\ c \notin Block(K, b) => c # w
                      /\ ~Overlaps(K, b) /\ b <= c => c # w
                      /\ c \in Block(K, b) => b <= c
  <2>1. b \in K
    BY <1>1 DEF BlockStarts
  <2>2. b + at \in K
    BY <1>1, <1>2, <2>1, Landing DEF Block
  <2>. QED BY <1>1, <1>2, <2>1, <2>2, Landing
<1>5. \A c \in K : c \in Cells /\ Dst(K, c) \in Cells
  <2>1. \A c \in K : Dst(K, c) \in Nat /\ Dst(K, c) <= c /\ Dst(K, c) >= 1 /\ c \in Nat
    BY <1>1, <1>4, DstBounds
  <2>2. \A c \in K : c <= NSamples /\ NSamples \in Nat
    BY <1>1, FiniteSamples
  <2>. QED BY <2>1, <2>2 DEF Cells
<1>6. /\ clip'.cells[w] = sample
      /\ \A x \in Cells : x # w => clip'.cells[x] = clip.cells[x]
  <2>1. clip \in Clips /\ clip.cells \in [Cells -> 0 .. NSamples]
    BY DEF Types, Clips
  <2>2. clip'.cells = [clip.cells EXCEPT ![w] = sample]
    BY <1>2, <2>1 DEF Clips
  <2>. HIDE DEF w, sample
  <2>. QED BY <1>4, <2>1, <2>2
<1>. HIDE DEF w
<1>7. sample = SampleAt(job, b + at)
  <2>1. Dst(K, b + at) # b + at /\ ~(b + at < b) /\ (b + at) - b + 1 = at + 1
    <3>1. Dst(K, b + at) < b + at /\ Dst(K, b + at) \in Nat
      BY <1>1, <1>4, BlockGoesDown, DstBounds
    <3>. QED BY <1>1, <1>4, <3>1
  <2>2. CASE Progress.staged
    BY <1>1, <1>4, <2>1, <2>2 DEF Recoverable
  <2>3. CASE ~Progress.staged
    BY <1>1, <1>4, <2>1, <2>3 DEF Recoverable, Holds
  <2>. QED BY <2>2, <2>3
<1>. HIDE DEF sample
<1>8. ASSUME NEW c \in K, InPlace(job, clip, c), c # b + at
      PROVE  InPlace(job, clip', c)
  BY <1>1, <1>4, <1>5, <1>6, <1>8 DEF InPlace, Holds
<1>9. InPlace(job, clip', b + at)
  BY <1>1, <1>4, <1>6, <1>7 DEF InPlace, Holds
<1>10. Recoverable(job, J, clip')
  <2>1. ASSUME NEW c \in K, Dst(K, c) = c \/ c < b
        PROVE  InPlace(job, clip', c)
    <3>1. InPlace(job, clip, c)
      BY <1>1, <2>1 DEF Recoverable
    <3>. QED BY <1>8, <1>9, <3>1
  <2>2. ASSUME NEW c \in K, Dst(K, c) # c, ~(c < b), Progress.staged, c \in Block(K, b)
        PROVE  J.staging[c - b + 1] = SampleAt(job, c)
    BY <1>1, <2>2 DEF Recoverable
  <2>3. ASSUME NEW c \in K, Dst(K, c) # c, ~(c < b), ~(Progress.staged /\ c \in Block(K, b))
        PROVE  Holds(job, clip', c, c)
    <3>1. Holds(job, clip, c, c)
      BY <1>1, <2>3 DEF Recoverable
    <3>2. b <= c /\ c # w
      BY <1>3, <1>4, <2>3
    <3>. QED BY <1>5, <1>6, <3>1, <3>2 DEF Holds
  <2>. QED BY <1>1, <2>1, <2>2, <2>3 DEF Recoverable
<1>11. MovingOn'
  <2>1. Progress' = Progress /\ K' = K /\ job' = job /\ keep' = keep /\ lists' = lists
    BY <1>2 DEF Progress, J, K, plans, trimmer
  <2>2. at + 1 <= Size(K, b)
    <3>1. Size(K, b) \in Nat
      <4>1. b \in K
        BY <1>1 DEF BlockStarts
      <4>2. Size(K, b) \in 1 .. BlockLen
        BY <1>1, <4>1, BlockCells
      <4>. QED BY <4>2, TornShape
    <3>. QED BY <1>1, <1>2, <3>1
  <2>3. ASSUME NEW c \in Block(K, b), c < b + (at + 1)
        PROVE  InPlace(job, clip', c)
    <3>1. c \in K
      BY DEF Block
    <3>2. c < b + at + 1 /\ c \in Nat
      BY <1>1, <1>4, <2>3, <3>1
    <3>3. c < b + at \/ c = b + at
      BY <1>4, <3>1, <3>2
    <3>. QED BY <1>3, <1>8, <1>9, <3>1, <3>3
  <2>4. \A c \in Block(K, b) : c < b + at' => InPlace(job, clip, c)'
    BY <1>2, <2>1, <2>3 DEF InPlace, Holds, SampleAt
  <2>. QED BY <1>2, <1>3, <2>1, <2>2, <2>4 DEF MovingOn, b
<1>12. Staging' /\ Finishing'
  BY <1>2 DEF Staging, Finishing
<1>13. /\ journal'[job] = J /\ synced'[job] = J
       /\ \A t \in Trims : t # job => journal'[t] = journal[t] /\ synced'[t] = synced[t]
  BY <1>1, <1>2 DEF J
<1>. QED BY <1>1, <1>2, <1>10, <1>11, <1>12, <1>13, JobStep DEF trimmer, counters
LEMMA MovedStep ==
    ASSUME Types, Named, Ordered, Types', Named', RecordMoved
    PROVE  Ordered'
<1>. USE DEF Moving, Ending, ToFlush
<1>. DEFINE b == Progress.next
            n == NextBlock(K, b)
            j == Slot(J, n, FALSE)
<1>1. /\ job \in Trims /\ job = trims /\ J \in Journals /\ K \in SUBSET Samples /\ K = keep[job]
      /\ Committed(J) /\ WellFormed(J) /\ Placed(job, J) /\ Valid(J) # {} /\ b \in BlockStarts(K)
      /\ Recoverable(job, J, clip) /\ Recoverable(job, J, disk) /\ synced[job] = J
      /\ b = Latest(J).next /\ b \in K
  BY JobFacts DEF RecordMoved, K, Progress, BlockStarts
<1>2. /\ Write(j) /\ disk' = clip /\ UNCHANGED <<clip, synced, plans, up, at, trimmer, history, counters>>
      /\ pc = "moving" /\ pc' = "recording" /\ at = Size(K, b)
  BY DEF RecordMoved
<1>. HIDE DEF b
<1>3. /\ n \in BlockStarts(K) \cup {Done} /\ n \in 0 .. Done /\ b < n
      /\ \A c \in K : b <= c /\ c < n /\ Dst(K, c) # c => c \in Block(K, b)
      /\ \A c \in Block(K, b) : c < n
  <2>1. b \in 0 .. NSamples
    BY <1>1, FiniteSamples
  <2>. QED BY <1>1, <2>1, NextFacts, UpToNext
<1>4. \A c \in Block(K, b) : InPlace(job, clip, c)
  <2>1. Block(K, b) = b .. b + Size(K, b) - 1 /\ Size(K, b) \in 1 .. BlockLen /\ b \in Nat
    BY <1>1, BlockCells
  <2>2. Size(K, b) \in Nat
    BY <2>1, TornShape
  <2>3. \A c \in Block(K, b) : c < b + at
    BY <1>2, <2>1, <2>2
  <2>. QED BY <1>2, <2>3 DEF Ordered, MovingOn, b
<1>. HIDE DEF n
<1>5. /\ Valid(j) # {} /\ Latest(j).next = n /\ Latest(j).staged = FALSE
      /\ j.there = J.there /\ j.header = J.header /\ j.plan = J.plan
  <2>1. ASSUME NEW x \in BOOLEAN
        PROVE  /\ Valid(Slot(J, n, x)) # {}
               /\ Latest(Slot(J, n, x)).next = n /\ Latest(Slot(J, n, x)).staged = x
               /\ Slot(J, n, x).there = J.there /\ Slot(J, n, x).header = J.header
               /\ Slot(J, n, x).plan = J.plan
    <3>1. n \in BlockStarts(keep[job]) \cup {Done} /\ n \in 0 .. Done
      BY <1>1, <1>3
    <3>. QED BY <1>1, <3>1, SlotFacts
  <2>. QED BY <2>1
<1>6. Committed(j) /\ WellFormed(j)
  BY <1>1, <1>5 DEF Committed, WellFormed
<1>7. \E next \in BlockStarts(K) \cup {Done}, staged \in BOOLEAN : j = Slot(J, next, staged)
  BY <1>3
<1>. HIDE DEF j
<1>8. Recoverable(job, j, clip)
  <2>0. \A c \in K : c \in Nat /\ b \in Nat /\ n \in Nat
    BY <1>1, <1>3, FiniteSamples
  <2>1. ASSUME NEW c \in K, Dst(K, c) = c \/ c < n
        PROVE  InPlace(job, clip, c)
    <3>1. CASE Dst(K, c) = c \/ c < b
      BY <1>1, <3>1 DEF Recoverable
    <3>2. CASE ~(Dst(K, c) = c \/ c < b)
      BY <1>3, <1>4, <2>0, <2>1, <3>2
    <3>. QED BY <3>1, <3>2
  <2>2. ASSUME NEW c \in K, Dst(K, c) # c, ~(c < n)
        PROVE  Holds(job, clip, c, c)
    <3>1. ~(c < b) /\ c \notin Block(K, b)
      BY <1>3, <2>0, <2>2
    <3>. QED BY <1>1, <2>2, <3>1 DEF Recoverable
  <2>. QED BY <1>1, <1>5, <2>1, <2>2 DEF Recoverable
<1>9. /\ journal'[job] = j /\ synced'[job] = J
      /\ \A t \in Trims : t # job => journal'[t] = journal[t] /\ synced'[t] = synced[t]
  BY <1>1, <1>2, JobFrame
<1>10. Staging' /\ MovingOn' /\ Finishing'
  BY <1>2 DEF Staging, MovingOn, Finishing
<1>. QED BY <1>1, <1>2, <1>6, <1>7, <1>8, <1>9, <1>10, JobStep DEF trimmer, counters

(* The index and the media header are beyond the samples that are in place.  *)
LEMMA EndStep ==
    ASSUME Types, Named, Ordered, Types', Named', WriteIndex \/ WriteMediaHeader \/ SetLen
    PROVE  Ordered'
<1>. USE DEF Moving, Ending, ToFlush
<1>. DEFINE n == Cardinality(K)
<1>1. /\ job \in Trims /\ job = trims /\ K \in SUBSET Samples /\ K = keep[job]
      /\ Committed(J) /\ WellFormed(J) /\ synced[job] = J /\ Latest(J).next = Done
      /\ Recoverable(job, J, clip) /\ Recoverable(job, J, disk)
  <2>1. Progress.next = Done
    BY DEF WriteIndex, WriteMediaHeader, SetLen, Ordered, Finishing
  <2>. QED BY <2>1, JobFacts DEF WriteIndex, WriteMediaHeader, SetLen, K, Progress
<1>2. n \in 0 .. NSamples /\ NSamples \in Nat /\ Done = NSamples + 1
  BY <1>1, FiniteSamples
<1>3. \A c \in K : c < Done /\ Dst(K, c) \in 1 .. n /\ Dst(K, c) \in Cells
  <2>1. \A c \in K : c \in Nat /\ c <= NSamples
    BY <1>1, FiniteSamples
  <2>2. \A c \in K : Dst(K, c) \in Nat /\ Dst(K, c) <= n /\ Dst(K, c) >= 1
    BY <1>1, <2>1, DstBounds
  <2>. HIDE DEF n
  <2>. QED BY <1>2, <2>1, <2>2 DEF Cells
<1>4. n + 1 \in Cells /\ n + 2 \in Nat
  <2>. HIDE DEF n
  <2>. QED BY <1>2 DEF Cells
<1>5. /\ clip \in Clips /\ clip.cells \in [Cells -> 0 .. NSamples] /\ clip.index \in [Cells -> SUBSET Samples]
      /\ clip = [head |-> clip.head, len |-> clip.len, cells |-> clip.cells, index |-> clip.index]
  BY DEF Types, Clips
<1>6. ASSUME \A c \in 1 .. n : clip'.cells[c] = clip.cells[c], disk' = disk,
             UNCHANGED <<journal, synced, plans, trimmer, history, counters>>,
             pc \in {"block"} \cup Ending, pc' \in Ending, Finishing'
      PROVE  Ordered'
  <2>1. Recoverable(job, J, clip')
    <3>1. \A c \in K : InPlace(job, clip, c)
      BY <1>1, <1>3 DEF Recoverable
    <3>2. \A c \in K : InPlace(job, clip', c)
      BY <1>1, <1>3, <1>6, <3>1 DEF InPlace, Holds
    <3>. QED BY <1>1, <1>3, <3>2 DEF Recoverable
  <2>2. /\ journal'[job] = J /\ synced'[job] = J
        /\ \A t \in Trims : t # job => journal'[t] = journal[t] /\ synced'[t] = synced[t]
    BY <1>1, <1>6 DEF J
  <2>3. Staging' /\ MovingOn'
    BY <1>6 DEF Staging, MovingOn
  <2>. QED BY <1>1, <1>6, <2>1, <2>2, <2>3, JobStep DEF trimmer, counters
<1>7. ASSUME UNCHANGED <<journal, plans, trimmer>>, pc' \in Ending,
             clip'.index[n + 1] = lists[job],
             pc' # "indexed" => clip'.head = n, pc' = "cut" => clip'.len = n + 2
      PROVE  Finishing'
  <2>1. Progress' = Progress /\ K' = K /\ job' = job /\ lists' = lists
    BY <1>7 DEF Progress, J, K, plans, trimmer
  <2>. QED BY <1>1, <1>7, <2>1 DEF Finishing, Progress
<1>8. CASE WriteIndex
  <2>1. /\ clip' = [clip EXCEPT !.cells[n + 1] = 0, !.index[n + 1] = lists[job]]
        /\ pc = "block" /\ pc' = "indexed"
        /\ UNCHANGED <<disk, journal, synced, plans, up, at, trimmer, history, counters>>
    BY <1>8 DEF WriteIndex
  <2>. HIDE DEF n
  <2>2. clip'.index[n + 1] = lists[job] /\ clip'.cells = [clip.cells EXCEPT ![n + 1] = 0]
    BY <1>4, <1>5, <2>1
  <2>3. \A c \in 1 .. n : clip'.cells[c] = clip.cells[c]
    <3>1. \A c \in 1 .. n : c \in Cells /\ c # n + 1
      BY <1>2 DEF Cells
    <3>. QED BY <1>5, <2>2, <3>1
  <2>. QED BY <1>6, <1>7, <2>1, <2>2, <2>3
<1>9. CASE WriteMediaHeader
  <2>1. /\ clip' = [clip EXCEPT !.head = n] /\ pc = "indexed" /\ pc' = "headed"
        /\ UNCHANGED <<disk, journal, synced, plans, up, at, trimmer, history, counters>>
    BY <1>9 DEF WriteMediaHeader
  <2>2. clip.index[n + 1] = lists[job]
    BY <2>1 DEF Ordered, Finishing
  <2>. HIDE DEF n
  <2>3. clip'.index = clip.index /\ clip'.cells = clip.cells /\ clip'.head = n
    BY <1>5, <2>1
  <2>. QED BY <1>6, <1>7, <2>1, <2>2, <2>3
<1>10. CASE SetLen
  <2>1. /\ clip' = [clip EXCEPT !.len = n + 2,
                    !.cells = [c \in Cells |-> IF c > n + 1 THEN 0 ELSE clip.cells[c]],
                    !.index = [c \in Cells |-> IF c > n + 1 THEN {} ELSE clip.index[c]]]
        /\ pc = "headed" /\ pc' = "cut"
        /\ UNCHANGED <<disk, journal, synced, plans, up, at, trimmer, history, counters>>
    BY <1>10 DEF SetLen
  <2>2. clip.index[n + 1] = lists[job] /\ clip.head = n
    BY <2>1 DEF Ordered, Finishing
  <2>. HIDE DEF n
  <2>3. /\ clip'.index = [c \in Cells |-> IF c > n + 1 THEN {} ELSE clip.index[c]]
        /\ clip'.cells = [c \in Cells |-> IF c > n + 1 THEN 0 ELSE clip.cells[c]]
        /\ clip'.head = clip.head /\ clip'.len = n + 2
    BY <1>5, <2>1
  <2>4. ~(n + 1 > n + 1) /\ \A c \in 1 .. n : c \in Cells /\ ~(c > n + 1)
    BY <1>2 DEF Cells
  <2>5. \A c \in 1 .. n : clip'.cells[c] = clip.cells[c]
    BY <2>3, <2>4
  <2>6. clip'.index[n + 1] = lists[job]
    BY <1>4, <2>2, <2>3, <2>4
  <2>. QED BY <1>6, <1>7, <2>1, <2>2, <2>3, <2>5, <2>6
<1>. QED BY <1>8, <1>9, <1>10

(* Past the flush the trimmed clip plays, and its journal can go.            *)
LEMMA FinishedStep ==
    ASSUME Types, Named, Ordered, Types', Named', Finished
    PROVE  Ordered'
<1>. USE DEF Moving, Ending, ToFlush
<1>1. /\ disk' = clip /\ pc = "cut" /\ pc' = "finishing"
      /\ UNCHANGED <<clip, plans, up, at, job, todo, want, history, trims, crashes>>
      /\ Drop(job) \/ UNCHANGED <<journal, synced>>
  BY DEF Finished
<1>2. /\ job \in Trims /\ job = trims /\ K \in SUBSET Samples /\ K = keep[job] /\ K # {} /\ J = journal[job]
      /\ Committed(J) /\ synced[job] = J /\ Recoverable(job, J, clip)
  BY <1>1, JobFacts DEF K, J
<1>3. /\ Progress.next = Done /\ clip.index[Cardinality(K) + 1] = lists[job]
      /\ clip.head = Cardinality(K) /\ clip.len = Cardinality(K) + 2
  BY <1>1 DEF Ordered, Finishing
<1>4. Plays(clip)
  <2>1. \A c \in K : c < Done
    BY <1>2, FiniteSamples
  <2>2. \A c \in K : InPlace(job, clip, c)
    BY <1>2, <1>3, <2>1 DEF Recoverable, Progress
  <2>3. clip \in Clips /\ Cardinality(lists[job]) = Cardinality(keep[job])
    BY <1>2 DEF Types, Ordered, Plans
  <2>. QED BY <1>2, <1>3, <2>2, <2>3, TrimmedPlays
<1>5. CASE Drop(job)
  BY <1>1, <1>2, <1>4, <1>5, DropStep
<1>6. CASE UNCHANGED <<journal, synced>>
  BY <1>1, <1>2, <1>6, IdleStep
<1>. QED BY <1>1, <1>5, <1>6
-----------------------------------------------------------------------------
(* Failures, the trimmer and stops.                                          *)
LEMMA FailStep ==
    ASSUME Types, Named, Ordered, Types', Named', Fail, Orderly'
    PROVE  Ordered'
<1>1. /\ pc \notin {"idle", "finishing"} /\ flushed' # FALSE
      /\ UNCHANGED <<clip, disk, plans, up, at, job, todo, want, alone, trims, crashes>>
      /\ pc' \in {"reading", "finishing"}
  BY DEF Fail, Orderly
<1>2. flushed' = flushed
  <2>1. flushed' \in BOOLEAN /\ flushed \in BOOLEAN
    BY DEF Types
  <2>. QED BY <1>1, <2>1 DEF Fail, Orderly
<1>3. CASE pc \in {"plan", "planned", "committing"} /\ Drop(job)
  <2>1. job \in Trims
    BY <1>1 DEF Types
  <2>2. ~Committed(synced[job])
    BY <1>3 DEF Ordered, Planned, Beginning
  <2>. QED BY <1>1, <1>2, <1>3, <2>1, <2>2, DropStep DEF history
<1>4. CASE pc \notin ToFlush /\ UNCHANGED <<journal, synced>>
  BY <1>1, <1>2, <1>4, IdleStep DEF history
<1>5. CASE pc \in ToFlush \ {"committing"} /\ Flush /\ UNCHANGED journal
  BY <1>1, <1>2, <1>5, IdleStep DEF history
<1>. QED BY <1>1, <1>3, <1>4, <1>5 DEF Fail

LEMMA TrimmerStep ==
    ASSUME Types, Named, Ordered, Types', Named',
           Start \/ FinishNext \/ Read \/ Rest \/ Trim \/ Quit \/ UNCHANGED vars
    PROVE  Ordered'
<1>1. ASSUME UNCHANGED <<clip, disk, journal, synced, plans, trims, history>>,
             pc \in {"idle", "finishing", "reading"},
             pc' \in {"idle", "finishing", "reading"} \/ (pc' = "block" /\ Committed(J'))
      PROVE  Ordered'
  <2>1. pc \notin ToFlush
    BY <1>1 DEF ToFlush
  <2>. QED BY <1>1, <2>1, IdleStep
<1>2. CASE Start
  BY <1>1, <1>2 DEF Start, counters
<1>3. CASE Trim
  BY <1>1, <1>3 DEF Trim, counters
<1>4. CASE FinishNext
  BY <1>1, <1>4 DEF FinishNext, counters
<1>5. CASE Rest
  BY <1>1, <1>5 DEF Rest, counters
<1>6. CASE Quit
  BY <1>1, <1>6 DEF Quit, Stop, counters
<1>7. CASE Read
  <2>1. pc = "reading" /\ UNCHANGED <<clip, disk, plans, up, at, trimmer, history, counters>>
    BY <1>7 DEF Read
  <2>2. job \in Trims
    BY <2>1 DEF Types
  <2>3. CASE Committed(J)
    <3>1. UNCHANGED <<journal, synced>> /\ pc' \in {"finishing", "block"}
      BY <1>7, <2>3 DEF Read
    <3>2. J' = J
      BY <2>1, <3>1 DEF J, trimmer
    <3>. QED BY <1>1, <2>1, <2>3, <3>1, <3>2 DEF counters
  <2>4. CASE ~Committed(J)
    <3>1. Drop(job) /\ pc' = "finishing"
      BY <1>7, <2>4 DEF Read
    <3>2. ~Committed(synced[job])
      BY <2>2, <2>4 DEF Ordered, Records, J
    <3>. QED BY <2>1, <2>2, <3>1, <3>2, DropStep DEF counters
  <2>. QED BY <2>3, <2>4
<1>8. CASE UNCHANGED vars
  <2>1. /\ UNCHANGED <<clip, disk, journal, synced, keep, lists, pc, job, at, trims>>
        /\ J' = J /\ K' = K /\ Progress' = Progress
    BY <1>8 DEF vars, plans, trimmer, counters, Progress, J, K
  <2>2. Plans' /\ Records' /\ Settled'
    BY <2>1 DEF Ordered, Plans, Records, Settled, WellFormed, Committed, Valid
  <2>3. Flushed'
    BY <2>1 DEF Ordered, Flushed, Committed, Recording
  <2>4. Kept'
    <3>1. ASSUME NEW t \in Trims, NEW j \in {journal'[t], synced'[t]}, NEW k \in {clip', disk'}, Committed(j)
          PROVE  Recoverable(t, j, k)'
      <4>1. Recoverable(t, j, k)
        BY <2>1, <3>1 DEF Ordered, Kept
      <4>. QED BY <2>1, <4>1, SamePlans
    <3>. QED BY <3>1 DEF Kept, Committed
  <2>5. Planned' /\ Staging' /\ MovingOn' /\ Finishing'
    BY <2>1 DEF Ordered, Planned, Staging, MovingOn, Finishing, Holds, InPlace, SampleAt, Committed
  <2>. QED BY <2>2, <2>3, <2>4, <2>5 DEF Ordered
<1>. QED BY <1>2, <1>3, <1>4, <1>5, <1>6, <1>7, <1>8

(* Cell by cell: the same record needs the same of what is read and flushed. *)
LEMMA Mixture ==
    ASSUME Types, NEW t \in Trims, NEW j, NEW k,
           Recoverable(t, j, clip), Recoverable(t, j, disk),
           \A c \in Cells : k.cells[c] = clip.cells[c] \/ k.cells[c] = disk.cells[c]
    PROVE  Recoverable(t, j, k)
<1>1. keep[t] \in SUBSET Samples
  BY DEF Types
<1>2. \A c \in keep[t] : c \in Cells /\ Dst(keep[t], c) \in Cells
  <2>1. \A c \in keep[t] : c \in Nat /\ c <= NSamples /\ NSamples \in Nat
    BY <1>1, FiniteSamples
  <2>2. \A c \in keep[t] : /\ c \in Nat /\ c <= NSamples /\ NSamples \in Nat
                           /\ Dst(keep[t], c) \in Nat /\ Dst(keep[t], c) <= c /\ Dst(keep[t], c) >= 1
    BY <1>1, <2>1, DstBounds
  <2>. QED BY <2>2 DEF Cells
<1>3. ASSUME NEW c \in keep[t], NEW x \in Cells, Holds(t, clip, c, x), Holds(t, disk, c, x)
      PROVE  Holds(t, k, c, x)
  BY <1>3 DEF Holds
<1>. QED BY <1>2, <1>3 DEF Recoverable, InPlace

(* A record that is torn leaves the one before it, which is the one that is   *)
(* flushed.                                                                  *)
LEMMA TornRecord ==
    ASSUME Types, Named, Ordered, job \in Trims, NEW j, j = TornOf(J, synced[job]), Committed(j),
           J.slots # synced[job].slots
    PROVE  /\ Committed(synced[job]) /\ Valid(j) # {}
           /\ Latest(j) = Latest(synced[job]) /\ j.staging = synced[job].staging
<1>1. J \in Journals /\ synced[job] \in Journals /\ J = journal[job]
  BY DEF Types, J
<1>2. Committed(J)
  BY <1>1 DEF TornOf, Committed, Journals
<1>3. pc \in {"staged", "recording"}
  <2>1. pc \in ToFlush
    BY <1>1, <1>2 DEF Ordered, Flushed
  <2>2. pc # "planned"
    BY <1>2 DEF Ordered, Flushed, Committed
  <2>3. pc # "committing"
    <3>1. [J EXCEPT !.header = FALSE].slots = J.slots
      BY <1>1 DEF Journals
    <3>. QED BY <3>1 DEF Ordered, Flushed
  <2>4. pc # "staging"
    <3>1. [synced[job] EXCEPT !.staging = J.staging].slots = synced[job].slots
      BY <1>1 DEF Journals
    <3>. QED BY <3>1 DEF Ordered, Flushed
  <2>. QED BY <2>1, <2>2, <2>3, <2>4 DEF ToFlush
<1>4. Committed(synced[job]) /\ Recording(job)
  BY <1>3 DEF Ordered, Flushed
<1>5. PICK n \in BlockStarts(keep[job]) \cup {Done}, b \in BOOLEAN : J = Slot(synced[job], n, b)
  BY <1>1, <1>4 DEF Recording
<1>6. Placed(job, synced[job]) /\ Valid(synced[job]) # {}
  BY <1>4 DEF Named, Ordered, Records, WellFormed
<1>7. n \in 0 .. Done
  <2>1. keep[job] \in SUBSET Samples
    BY DEF Types
  <2>. QED BY <2>1, FiniteSamples DEF BlockStarts
<1>8. /\ J.staging = synced[job].staging
      /\ Valid(j) # {} /\ Latest(j) = Latest(synced[job])
  <2>1. j = [J EXCEPT !.slots = [s \in 0 .. 1 |->
                  IF J.slots[s] # synced[job].slots[s] THEN Torn ELSE J.slots[s]]]
    BY DEF TornOf
  <2>. QED BY <1>1, <1>5, <1>6, <1>7, <2>1, TornFacts
<1>9. j.staging = J.staging
  BY <1>1 DEF TornOf, Journals
<1>. QED BY <1>4, <1>8, <1>9

LEMMA CrashStep ==
    ASSUME Types, Named, Ordered, Types', Named', Crash
    PROVE  Ordered'
<1>1. /\ pc' = "idle" /\ synced' = journal' /\ disk' = clip'
      /\ clip' = clip \/ clip # disk
      /\ keep' = keep /\ lists' = lists /\ trims' = trims
      /\ \A c \in Cells : clip'.cells[c] = clip.cells[c] \/ clip'.cells[c] = disk.cells[c]
      /\ \A t \in Trims : t # job => journal'[t] = journal[t]
  BY CrashClip, CrashJournal DEF Crash, Stop, plans
<1>2. ASSUME NEW t \in Trims
      PROVE  /\ journal[t] \in Journals /\ synced[t] \in Journals
             /\ WellFormed(journal[t]) /\ WellFormed(synced[t])
             /\ ~journal[t].there => journal[t] = NoJournal
             /\ ~synced[t].there => synced[t] = NoJournal
             /\ journal[t].there => t = trims
             /\ synced[t].there => journal[t].there
             /\ synced[t].plan => journal[t].plan
             /\ Committed(synced[t]) => Committed(journal[t])
             /\ \A j \in {journal[t], synced[t]} :
                    Committed(j) => Recoverable(t, j, clip) /\ Recoverable(t, j, disk)
  BY DEF Types, Ordered, Records, Kept
<1>3. ASSUME NEW t \in Trims
      PROVE  LET j == journal'[t]
             IN  /\ WellFormed(j) /\ (j.there => t = trims) /\ (~j.there => j = NoJournal)
                 /\ Committed(synced[t]) => Committed(j)
                 /\ Committed(j) => Recoverable(t, j, clip')
  <2>. DEFINE j == journal'[t]
  <2>1. CASE j \in {journal[t], synced[t]}
    <3>1. Committed(j) => Recoverable(t, j, clip) /\ Recoverable(t, j, disk)
      BY <1>2, <2>1
    <3>2. Committed(j) => Recoverable(t, j, clip')
      BY <1>1, <3>1, Mixture
    <3>. QED BY <1>2, <2>1, <3>2
  <2>2. CASE j \notin {journal[t], synced[t]}
    <3>1. t = job /\ J = journal[t]
      BY <1>1, <2>2 DEF J
    <3>2. \/ J.slots # synced[t].slots /\ j = TornOf(J, synced[t])
          \/ J.plan # synced[t].plan /\ j = SlotsOf(J, synced[t])
      BY <2>2, <3>1, CrashJournal
    <3>3. CASE J.slots # synced[t].slots /\ j = TornOf(J, synced[t])
      <4>1. j.there = J.there /\ j.header = J.header /\ j.plan = J.plan
        BY <1>2, <3>1, <3>3 DEF TornOf, Journals
      <4>2. J.there
        BY <1>2, <3>1, <3>3
      <4>3. Committed(j) => /\ Committed(synced[t]) /\ Valid(j) # {}
                            /\ Latest(j) = Latest(synced[t]) /\ j.staging = synced[t].staging
        BY <3>1, <3>3, TornRecord
      <4>4. WellFormed(j)
        BY <1>2, <3>1, <4>1, <4>3 DEF WellFormed
      <4>5. ASSUME Committed(j) PROVE Recoverable(t, j, clip')
        <5>1. Recoverable(t, synced[t], clip) /\ Recoverable(t, synced[t], disk)
          BY <1>2, <4>3, <4>5
        <5>2. Recoverable(t, synced[t], clip')
          BY <1>1, <5>1, Mixture
        <5>. QED BY <4>3, <4>5, <5>2, SameRecord
      <4>6. Committed(synced[t]) => Committed(j)
        BY <1>2, <3>1, <4>1 DEF Committed
      <4>. QED BY <1>2, <3>1, <4>1, <4>2, <4>4, <4>5, <4>6
    <3>4. CASE J.plan # synced[t].plan /\ j = SlotsOf(J, synced[t])
      <4>1. ~synced[t].plan /\ J.plan
        <5>1. synced[t].plan \in BOOLEAN /\ J.plan \in BOOLEAN
          BY <1>2, <3>1 DEF Journals
        <5>. QED BY <1>2, <3>1, <3>4, <5>1
      <4>2. j.there /\ j.header = synced[t].header /\ j.plan = synced[t].plan
        BY <1>2, <3>4 DEF SlotsOf, Journals
      <4>3. ~synced[t].header
        BY <1>2, <4>1 DEF WellFormed
      <4>4. ~Committed(j) /\ ~Committed(synced[t]) /\ WellFormed(j)
        BY <4>2, <4>3 DEF Committed, WellFormed
      <4>5. J.there
        BY <1>2, <3>1, <4>1, NotCommitted
      <4>. QED BY <1>2, <3>1, <4>2, <4>4, <4>5
    <3>. QED BY <3>2, <3>3, <3>4
  <2>. QED BY <2>1, <2>2
<1>4. Plans'
  BY <1>1 DEF Ordered, Plans
<1>5. Records'
  BY <1>1, <1>3 DEF Records, WellFormed, Committed, Valid
<1>6. Flushed'
  BY <1>1 DEF Flushed, Moving, Ending
<1>7. Settled'
  <2>1. ASSUME \A t \in Trims : ~Committed(journal'[t])
        PROVE  clip' = clip /\ Plays(clip)
    <3>1. \A t \in Trims : ~Committed(synced[t])
      BY <1>3, <2>1
    <3>. QED BY <1>1, <3>1 DEF Ordered, Settled
  <2>. QED BY <1>1, <2>1 DEF Settled, Committed, Plays
<1>8. Kept'
  <2>1. ASSUME NEW t \in Trims, NEW j \in {journal'[t], synced'[t]}, NEW k \in {clip', disk'}, Committed(j)
        PROVE  Recoverable(t, j, k)'
    <3>1. j = journal'[t] /\ k = clip'
      BY <1>1, <2>1
    <3>2. Recoverable(t, j, k)
      BY <1>3, <2>1, <3>1
    <3>. QED BY <1>1, <3>2, SamePlans
  <2>. QED BY <2>1 DEF Kept, Committed
<1>9. Planned' /\ Staging' /\ MovingOn' /\ Finishing'
  BY <1>1 DEF Planned, Staging, MovingOn, Finishing, Beginning, Ending
<1>. QED BY <1>4, <1>5, <1>6, <1>7, <1>8, <1>9 DEF Ordered

-----------------------------------------------------------------------------
(* The invariant, and what it says.                                          *)
LEMMA InitOrdered ==
    ASSUME Init
    PROVE  Ordered
<1>1. /\ clip = Original /\ disk = Original /\ trims = 0 /\ pc = "idle"
      /\ \A t \in Trims : /\ journal[t] = NoJournal /\ synced[t] = NoJournal
                          /\ keep[t] = {} /\ lists[t] = {}
  BY DEF Init
<1>2. \A t \in 1 .. 0 : FALSE
  OBVIOUS
<1>3. Plays(Original)
  <2>1. /\ Samples \subseteq Nat /\ Samples = 1 .. NSamples /\ NSamples \in Nat \ {0} /\ Done = NSamples + 1
        /\ Samples # {}
    <3>1. 1 \in 1 .. NSamples
      BY TrimAssumption
    <3>. QED BY <3>1, FiniteSamples, TrimAssumption
  <2>2. NSamples + 1 \in Cells /\ Original.index[NSamples + 1] = Samples
    <3>1. NSamples + 1 \in Cells
      BY <2>1 DEF Cells
    <3>. QED BY <3>1 DEF Original
  <2>3. Cardinality(Samples) = NSamples
    BY <2>1, Intervals
  <2>4. ASSUME NEW x \in Samples PROVE Original.cells[Dst(Samples, x)] = x
    <3>1. x \in Nat /\ x <= NSamples /\ x >= 1
      BY <2>1
    <3>2. {k \in Samples : k <= x} = 1 .. x
      BY <2>1, <3>1
    <3>3. Dst(Samples, x) = x
      <4>1. Cardinality(1 .. x) = IF 1 > x THEN 0 ELSE x - 1 + 1
        BY <3>1, Intervals
      <4>2. Cardinality(1 .. x) = x
        BY <3>1, <4>1
      <4>. QED BY <3>2, <4>2 DEF Dst
    <3>4. x \in Cells
      BY <2>1, <3>1 DEF Cells
    <3>. QED BY <3>3, <3>4 DEF Original
  <2>5. Original.head = NSamples /\ Original.len = NSamples + 2
    BY DEF Original
  <2>. QED BY <2>1, <2>2, <2>3, <2>4, <2>5 DEF Plays
<1>4. Plans
  BY <1>1, <1>2 DEF Plans
<1>5. Records
  BY <1>1, NotCommitted DEF Records
<1>6. Flushed
  BY <1>1 DEF Flushed, Moving, Ending
<1>7. Settled
  BY <1>1, <1>3 DEF Settled
<1>8. Kept
  BY <1>1, NotCommitted DEF Kept
<1>9. Planned /\ Staging /\ MovingOn /\ Finishing
  BY <1>1 DEF Planned, Staging, MovingOn, Finishing, Beginning, Ending
<1>. QED BY <1>4, <1>5, <1>6, <1>7, <1>8, <1>9 DEF Ordered

LEMMA NextOrdered ==
    ASSUME IInv, [Next]_vars
    PROVE  IInv'
<1>1. Types /\ Named /\ Types' /\ Named'
  BY NextTypes DEF IInv
<1>2. ASSUME Orderly' PROVE Orderly
  <2>1. alone' => alone
    BY <1>2 DEF Next, Begin, Run, Trimmer, vars, history, WritePlan, WriteHeader, Commit, Stage, RecordStaged,
       Staged, BeginMove, MoveCell, RecordMoved, Recorded, WriteIndex, WriteMediaHeader, SetLen, Finished,
       Start, FinishNext, Read, Rest, Plan, Trim, Fail, Crash, Quit
  <2>2. flushed' => flushed
    BY <1>2 DEF Next, Begin, Run, Trimmer, vars, history, WritePlan, WriteHeader, Commit, Stage, RecordStaged,
       Staged, BeginMove, MoveCell, RecordMoved, Recorded, WriteIndex, WriteMediaHeader, SetLen, Finished,
       Start, FinishNext, Read, Rest, Plan, Trim, Fail, Crash, Quit
  <2>. QED BY <1>2, <2>1, <2>2 DEF Orderly
<1>3. ASSUME Orderly' PROVE Ordered'
  <2>1. Ordered
    BY <1>2, <1>3 DEF IInv
  <2>2. CASE Begin
    BY <1>1, <2>1, <2>2, BeginStep
  <2>3. CASE Run
    BY <1>1, <2>1, <2>3, StageStep, MoveStep, MovedStep, EndStep, FinishedStep DEF Run
  <2>4. CASE Trimmer \/ Trim \/ Quit \/ UNCHANGED vars
    BY <1>1, <1>3, <2>1, <2>4, TrimmerStep, PlanStep DEF Trimmer
  <2>5. CASE Fail
    BY <1>1, <1>3, <2>1, <2>5, FailStep
  <2>6. CASE Crash
    BY <1>1, <2>1, <2>6, CrashStep
  <2>. QED BY <2>2, <2>3, <2>4, <2>5, <2>6 DEF Next
<1>. QED BY <1>1, <1>3 DEF IInv

(* Whatever stops or fails, the clip, the journal that is being written and  *)
(* the one that is flushed fit together.                                     *)
THEOREM Invariance == Spec => []IInv
<1>1. Init => IInv
  BY InitTypes, InitOrdered DEF IInv
<1>2. IInv /\ [Next]_vars => IInv'
  BY NextOrdered
<1>. QED BY <1>1, <1>2, PTL DEF Spec

(* Without a committed journal the clip plays, as it is read and as it is on *)
(* disk: no stop in a trim leaves a clip that nothing repairs.               *)
THEOREM NoClipLeftBroken == Spec => []BrokenIsJournaled
<1>1. ASSUME IInv PROVE BrokenIsJournaled
  <2>1. ASSUME Orderly, Pending = {}
        PROVE  Plays(clip) /\ Plays(disk)
    <3>1. \A t \in Trims : ~Committed(synced[t])
      BY <2>1 DEF Pending
    <3>. QED BY <1>1, <2>1, <3>1 DEF IInv, Ordered, Settled
  <2>. QED BY <2>1 DEF BrokenIsJournaled
<1>. QED BY <1>1, Invariance, PTL

(* While a trim is committed, each sample it keeps is where its journal, as   *)
(* read and as flushed, says, in the clip as read and as flushed.            *)
THEOREM NoSampleLost == Spec => []KeptSamplesSurvive
<1>1. ASSUME IInv PROVE KeptSamplesSurvive
  <2>1. ASSUME Orderly, NEW t \in Pending, NEW j \in {journal[t], synced[t]}, NEW k \in {clip, disk},
               Committed(j)
        PROVE  Valid(j) # {} /\ Recoverable(t, j, k)
    <3>1. t \in Trims
      BY DEF Pending
    <3>. QED BY <1>1, <2>1, <3>1 DEF IInv, Ordered, Records, WellFormed, Kept
  <2>. QED BY <2>1 DEF KeptSamplesSurvive
<1>. QED BY <1>1, Invariance, PTL
=============================================================================
