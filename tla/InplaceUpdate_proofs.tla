------------------------ MODULE InplaceUpdate_proofs ------------------------
(* An in-place update can be undone until it is committed, and keeps the     *)
(* promise of AtomicUpdate, for any files and any number of failures.        *)
EXTENDS InplaceUpdate, FiniteSetTheorems, TLAPS

TypeOK ==
    /\ installed \in [Files -> {"none", "old", "new"}]
    /\ backup \in [Files -> {"none", "old"}]
    /\ staged \in [Files -> {"none", "new"}]
    /\ phase \in {"none", "staged", "applying", "applied", "committed"}
    /\ boot \in {"none", "clearing", "condemning", "starting", "mending", "astray", "preparing",
                 "swapping", "undoing", "trial", "proving", "restoring", "committing"}
    /\ todo \subseteq Files
    /\ lock \in BOOLEAN
    /\ runs \in {"none", "old", "new", "mixed"}
    /\ app \in {"idle", "emptied", "staging", "handed"}

Activated == phase \in {"applying", "applied"}

(* What the journal says of the files: while an update is activated every    *)
(* file can be put back, otherwise the installation is one version.          *)
Undoable(f) ==
    IF f \in Added
    THEN backup[f] = "none" /\ installed[f] # "old" /\ ~(installed[f] = "new" /\ staged[f] = "new")
    ELSE IF backup[f] = "none" THEN installed[f] = "old" ELSE installed[f] # "old"
Versions ==
    /\ Activated => \A f \in Files : Undoable(f)
    /\ phase \in {"none", "staged"} => backup = Nowhere
    /\ phase = "none" => installed \in {Old, New}
    /\ phase = "staged" => installed = Old
    /\ phase = "committed" => installed = New

(* What the process that boots has done so far, and may rely on.             *)
Swapping ==
    boot = "swapping" =>
        \A f \in Files : IF f \in todo THEN installed[f] # "new" /\ staged[f] = "new"
                         ELSE installed[f] = "new"
Undoing ==
    boot \in {"mending", "undoing", "restoring"} /\ Activated =>
        \A f \in Files \ todo : installed[f] = Old[f] /\ backup[f] = "none"
Booting ==
    /\ Swapping /\ Undoing
    /\ boot \in {"swapping", "undoing"} => phase = "applying"
    /\ boot \in {"trial", "proving", "restoring", "committing"} => phase = "applied"
    /\ boot \in {"trial", "proving", "committing"} => installed = New
    /\ boot = "mending" => phase # "committed" /\ (Activated \/ todo = {})
    /\ boot \in {"starting", "clearing"} => ~Activated
    /\ boot = "condemning" /\ ~lock => ~Activated
    /\ boot = "preparing" => phase = "staged" /\ ~failed /\ runs = "none"
    /\ boot = "committing" => healthy
    /\ boot \in {"none", "mending", "starting", "astray"} => ~lock
    /\ boot \in {"preparing", "swapping", "undoing", "trial", "proving", "restoring", "committing"}
           => lock

(* What runs beside it: only the old version stages, and none of it is left  *)
(* once the update is committed.                                             *)
Controllers ==
    /\ runs = "none" => app = "idle"
    /\ app \in {"emptied", "staging"} => runs = "old" /\ phase \in {"none", "staged"}
    /\ boot = "proving" => runs = "new" /\ app = "idle"
    /\ boot = "committing" \/ Committed => runs \in {"none", "new"}

IInv == TypeOK /\ Versions /\ Booting /\ Controllers

-----------------------------------------------------------------------------
(* The files and the versions.                                               *)

LEMMA FileFacts ==
    /\ Files \subseteq Nat /\ IsFiniteSet(Files)
    /\ Executable \in Files /\ Executable \notin Added
    BY UpdateAssumption, FS_Interval DEF Files

LEMMA VersionFacts ==
    /\ Old \in [Files -> {"none", "old", "new"}] /\ New \in [Files -> {"none", "old", "new"}]
    /\ \A f \in Files : Old[f] = (IF f \in Added THEN "none" ELSE "old") /\ New[f] = "new"
    /\ Old # New
    <1>1. Old[Executable] = "old" /\ New[Executable] = "new"
      BY FileFacts DEF Old, New
    <1> QED BY <1>1 DEF Old, New

LEMMA NowhereFacts ==
    /\ Nowhere \in [Files -> {"none", "new"}] /\ Nowhere \in [Files -> {"none", "old"}]
    /\ \A f \in Files : Nowhere[f] = "none"
    BY DEF Nowhere

(* Two functions on the files are equal if they agree on every file.         *)
LEMMA Agree ==
    ASSUME NEW S, NEW g \in [Files -> S], NEW T, NEW h \in [Files -> T],
           \A f \in Files : g[f] = h[f]
    PROVE  g = h
    OBVIOUS

(* A file that is left is found: of a finite set of numbers one is least and *)
(* one greatest, or the ones below, or above, would shrink for ever.         *)
LEMMA Extremes ==
    ASSUME NEW S \in SUBSET Files, S # {}
    PROVE  First(S) \in S /\ Last(S) \in S
    <1>1. IsFiniteSet(S) /\ S \subseteq Nat
      BY FileFacts, FS_Subset
    <1> DEFINE Below(x) == {y \in S : y <= x}
               Above(x) == {y \in S : y >= x}
    <1>2. IsWellFoundedOn(StrictSubsetOrdering(S), FiniteSubsetsOf(S))
      BY FS_StrictSubsetOrderingWellFounded
    <1>3. \A U : U \subseteq S => U \in FiniteSubsetsOf(S)
      BY <1>1, FS_Subset DEF FiniteSubsetsOf
    <1>4. \A U, V : U \subseteq S /\ V \subseteq S /\ U \subseteq V /\ U # V
                    => <<U, V>> \in StrictSubsetOrdering(S)
      BY DEF StrictSubsetOrdering
    <1>5. \E x \in S : \A y \in S : x <= y
      <2> DEFINE T == {Below(x) : x \in S}
      <2>1. T \subseteq FiniteSubsetsOf(S) /\ T # {}
        BY <1>3
      <2> HIDE DEF T
      <2>2. PICK U \in T : \A V \in T : <<V, U>> \notin StrictSubsetOrdering(S)
        BY <1>2, <2>1, WFMin
      <2>3. PICK x \in S : U = Below(x)
        BY DEF T
      <2>4. ASSUME NEW y \in S, ~(x <= y) PROVE FALSE
        <3>1. Below(y) \in T /\ Below(y) \subseteq S
          BY DEF T
        <3>2. x \in Nat /\ y \in Nat /\ \A z \in S : z \in Nat
          BY <1>1
        <3>4. ~(x <= y) /\ y <= x /\ x <= x /\ \A z \in S : z <= y => z <= x
          BY <2>4, <3>2
        <3>3. Below(y) \subseteq Below(x) /\ x \in Below(x) /\ x \notin Below(y) /\ Below(x) \subseteq S
          BY <3>4
        <3> QED BY <1>4, <2>2, <2>3, <3>1, <3>3
      <2> QED BY <2>4
    <1>6. \E x \in S : \A y \in S : x >= y
      <2> DEFINE T == {Above(x) : x \in S}
      <2>1. T \subseteq FiniteSubsetsOf(S) /\ T # {}
        BY <1>3
      <2> HIDE DEF T
      <2>2. PICK U \in T : \A V \in T : <<V, U>> \notin StrictSubsetOrdering(S)
        BY <1>2, <2>1, WFMin
      <2>3. PICK x \in S : U = Above(x)
        BY DEF T
      <2>4. ASSUME NEW y \in S, ~(x >= y) PROVE FALSE
        <3>1. Above(y) \in T /\ Above(y) \subseteq S
          BY DEF T
        <3>2. x \in Nat /\ y \in Nat /\ \A z \in S : z \in Nat
          BY <1>1
        <3>4. ~(x >= y) /\ y >= x /\ x >= x /\ \A z \in S : z >= y => z >= x
          BY <2>4, <3>2
        <3>3. Above(y) \subseteq Above(x) /\ x \in Above(x) /\ x \notin Above(y) /\ Above(x) \subseteq S
          BY <3>4
        <3> QED BY <1>4, <2>2, <2>3, <3>1, <3>3
      <2> QED BY <2>4
    <1> QED BY <1>5, <1>6 DEF First, Last

-----------------------------------------------------------------------------
(* The running controller: staging, and cleaning up after a handoff.         *)

(* Only a running old version stages, so the update is not committed yet.    *)
LEMMA StageBeginStep ==
    ASSUME IInv, StageBegin
    PROVE  IInv'
    <1>1. TypeOK'
      BY NowhereFacts DEF IInv, TypeOK, StageBegin, StageComplete, BackedUp, journal, process,
               running
    <1>2. Versions'
      BY VersionFacts, NowhereFacts DEF IInv, TypeOK, Versions, Activated, Undoable, Booting, Undoing,
               Swapping, Controllers, Committed, StageBegin, StageComplete, BackedUp,
               journal, process, running
    <1>3. Booting'
      BY VersionFacts, NowhereFacts DEF IInv, TypeOK, Versions, Activated, Undoable, Booting, Undoing,
               Swapping, Controllers, Committed, StageBegin, StageComplete, BackedUp,
               journal, process, running
    <1>4. Controllers'
      BY VersionFacts DEF IInv, TypeOK, Versions, Activated, Booting, Controllers, Committed,
               StageBegin, StageComplete, BackedUp, journal, process, running
    <1> QED BY <1>1, <1>2, <1>3, <1>4 DEF IInv

LEMMA StageDropJournalStep ==
    ASSUME IInv, StageDropJournal
    PROVE  IInv'
    <1>1. TypeOK'
      BY NowhereFacts DEF IInv, TypeOK, StageDropJournal, staging, places, process, running
    <1>2. Versions'
      BY VersionFacts, NowhereFacts DEF IInv, TypeOK, Versions, Activated, Undoable, Booting, Undoing,
               Swapping, Controllers, Committed, StageDropJournal, staging, places,
               process, running
    <1>3. Booting'
      BY VersionFacts, NowhereFacts DEF IInv, TypeOK, Versions, Activated, Undoable, Booting, Undoing,
               Swapping, Controllers, Committed, StageDropJournal, staging, places,
               process, running
    <1>4. Controllers'
      BY VersionFacts DEF IInv, TypeOK, Versions, Activated, Booting, Controllers, Committed,
               StageDropJournal, staging, places, process, running
    <1> QED BY <1>1, <1>2, <1>3, <1>4 DEF IInv

LEMMA StageFileStep ==
    ASSUME IInv, StageFile
    PROVE  IInv'
    <1>1. TypeOK'
      BY NowhereFacts DEF IInv, TypeOK, StageFile, staging, journal, process, running
    <1>2. Versions'
      BY VersionFacts, NowhereFacts DEF IInv, TypeOK, Versions, Activated, Undoable, Booting, Undoing,
               Swapping, Controllers, Committed, StageFile, staging, journal, process,
               running
    <1>3. Booting'
      BY VersionFacts, NowhereFacts DEF IInv, TypeOK, Versions, Activated, Undoable, Booting, Undoing,
               Swapping, Controllers, Committed, StageFile, staging, journal, process,
               running
    <1>4. Controllers'
      BY VersionFacts DEF IInv, TypeOK, Versions, Activated, Booting, Controllers, Committed,
               StageFile, staging, journal, process, running
    <1> QED BY <1>1, <1>2, <1>3, <1>4 DEF IInv

(* What was staged is for the version that is installed.                     *)
LEMMA StageDoneStep ==
    ASSUME IInv, StageDone
    PROVE  IInv'
    <1>1. TypeOK'
      BY NowhereFacts DEF IInv, TypeOK, StageDone, staging, places, process, running
    <1>2. Versions'
      BY VersionFacts, NowhereFacts DEF IInv, TypeOK, Versions, Activated, Undoable, Booting, Undoing,
               Swapping, Controllers, Committed, StageDone, staging, places, process,
               running
    <1>3. Booting'
      BY VersionFacts, NowhereFacts DEF IInv, TypeOK, Versions, Activated, Undoable, Booting, Undoing,
               Swapping, Controllers, Committed, StageDone, staging, places, process,
               running
    <1>4. Controllers'
      BY VersionFacts DEF IInv, TypeOK, Versions, Activated, Booting, Controllers, Committed,
               StageDone, staging, places, process, running
    <1> QED BY <1>1, <1>2, <1>3, <1>4 DEF IInv

LEMMA FinishRemoveStep ==
    ASSUME IInv, FinishRemove
    PROVE  IInv'
    <1>1. TypeOK'
      BY NowhereFacts DEF IInv, TypeOK, FinishRemove, BackedUp, Remove, journal, process,
               running, staging, Without
    <1>2. Versions'
      BY VersionFacts, NowhereFacts DEF IInv, TypeOK, Versions, Activated, Undoable, Booting, Undoing,
               Swapping, Controllers, Committed, FinishRemove, BackedUp, Remove,
               journal, process, running, staging, Without
    <1>3. Booting'
      BY VersionFacts, NowhereFacts DEF IInv, TypeOK, Versions, Activated, Undoable, Booting, Undoing,
               Swapping, Controllers, Committed, FinishRemove, BackedUp, Remove,
               journal, process, running, staging, Without
    <1>4. Controllers'
      BY VersionFacts DEF IInv, TypeOK, Versions, Activated, Booting, Controllers, Committed,
               FinishRemove, BackedUp, Remove, journal, process, running, staging,
               Without
    <1> QED BY <1>1, <1>2, <1>3, <1>4 DEF IInv

LEMMA FinishStep ==
    ASSUME IInv, Finish
    PROVE  IInv'
    <1>1. TypeOK'
      BY NowhereFacts DEF IInv, TypeOK, Finish, Emptied, journal, BackedUp, places, process,
               running
    <1>2. Versions'
      BY VersionFacts, NowhereFacts DEF IInv, TypeOK, Versions, Activated, Undoable, Booting, Undoing,
               Swapping, Controllers, Committed, Finish, Emptied, journal, BackedUp,
               places, process, running
    <1>3. Booting'
      BY VersionFacts, NowhereFacts DEF IInv, TypeOK, Versions, Activated, Undoable, Booting, Undoing,
               Swapping, Controllers, Committed, Finish, Emptied, journal, BackedUp,
               places, process, running
    <1>4. Controllers'
      BY VersionFacts DEF IInv, TypeOK, Versions, Activated, Booting, Controllers, Committed,
               Finish, Emptied, journal, BackedUp, places, process, running
    <1> QED BY <1>1, <1>2, <1>3, <1>4 DEF IInv

-----------------------------------------------------------------------------
(* Launches.                                                                 *)

(* A launch finds every file where the journal says.                         *)
LEMMA LaunchStep ==
    ASSUME IInv, Launch
    PROVE  IInv'
    <1>1. TypeOK'
      BY NowhereFacts DEF IInv, TypeOK, Launch, Recover, places, journal, running, staging,
               WorkIsEmpty, Now, BackedUp, Discard
    <1>2. Versions'
      BY VersionFacts, NowhereFacts DEF IInv, TypeOK, Versions, Activated, Undoable, Booting, Undoing,
               Swapping, Controllers, Committed, Launch, Recover, places, journal,
               running, staging, WorkIsEmpty, Now, BackedUp, Discard
    <1>3. Booting'
      BY VersionFacts, NowhereFacts DEF IInv, TypeOK, Versions, Activated, Undoable, Booting, Undoing,
               Swapping, Controllers, Committed, Launch, Recover, places, journal,
               running, staging, WorkIsEmpty, Now, BackedUp, Discard
    <1>4. Controllers'
      BY VersionFacts DEF IInv, TypeOK, Versions, Activated, Booting, Controllers, Committed,
               Launch, Recover, places, journal, running, staging, WorkIsEmpty, Now,
               BackedUp, Discard
    <1> QED BY <1>1, <1>2, <1>3, <1>4 DEF IInv

(* A restored file is as it was, one rename at a time.                       *)
LEMMA RestoreStep ==
    ASSUME IInv, Restore
    PROVE  IInv'
    <1>1. TypeOK'
      <2> DEFINE f == Last(todo)
      <2>1. f \in Files /\ RestoreFile(f)
        BY Extremes DEF IInv, TypeOK, Restore
      <2> HIDE DEF f
      <2>2. /\ installed' \in [Files -> {"none", "old", "new"}]
            /\ backup' \in [Files -> {"none", "old"}]
        BY <2>1 DEF IInv, TypeOK, RestoreFile, MoveInto, Without, places
      <2>3. staged' \in [Files -> {"none", "new"}]
        <3>1. staged' = staged \/ staged' = MoveInto(installed, staged, f)
          BY <2>1 DEF RestoreFile, places
        <3>2. staged' # staged => installed[f] = "new"
          BY <2>1 DEF RestoreFile, places, IInv, TypeOK, Versions, Activated, Undoable, Booting,
                      Restore
        <3> QED BY <2>1, <3>1, <3>2 DEF IInv, TypeOK, MoveInto
      <2>4. todo' \subseteq Files
        BY <2>1 DEF IInv, TypeOK, RestoreFile
      <2> QED BY <2>2, <2>3, <2>4 DEF IInv, TypeOK, Restore, journal, process, running, staging
    <1>2. Versions'
      BY VersionFacts, NowhereFacts, Extremes DEF IInv, TypeOK, Versions, Activated, Undoable, Booting, Undoing,
               Swapping, Controllers, Committed, Restore, RestoreFile, journal,
               process, running, staging, MoveInto, Without, places
    <1>3. Booting'
      BY VersionFacts, NowhereFacts, Extremes DEF IInv, TypeOK, Versions, Activated, Undoable, Booting, Undoing,
               Swapping, Controllers, Committed, Restore, RestoreFile, journal,
               process, running, staging, MoveInto, Without, places
    <1>4. Controllers'
      BY VersionFacts DEF IInv, TypeOK, Versions, Activated, Booting, Controllers, Committed,
               Restore, RestoreFile, journal, process, running, staging, MoveInto,
               Without, places
    <1> QED BY <1>1, <1>2, <1>3, <1>4 DEF IInv

(* With every file restored the update is staged again.                      *)
LEMMA MendedStep ==
    ASSUME IInv, Mended
    PROVE  IInv'
    <1>1. TypeOK'
      BY NowhereFacts DEF IInv, TypeOK, Mended, Discard, Now, places, running, staging, BackedUp
    <1>2. Versions'
      BY VersionFacts, NowhereFacts DEF IInv, TypeOK, Versions, Activated, Undoable, Booting, Undoing,
               Swapping, Controllers, Committed, Mended, Discard, Now, places,
               running, staging, BackedUp
    <1>3. Booting'
      BY VersionFacts, NowhereFacts DEF IInv, TypeOK, Versions, Activated, Undoable, Booting, Undoing,
               Swapping, Controllers, Committed, Mended, Discard, Now, places,
               running, staging, BackedUp
    <1>4. Controllers'
      BY VersionFacts DEF IInv, TypeOK, Versions, Activated, Booting, Controllers, Committed,
               Mended, Discard, Now, places, running, staging, BackedUp
    <1> QED BY <1>1, <1>2, <1>3, <1>4 DEF IInv

LEMMA ClearRemoveStep ==
    ASSUME IInv, ClearRemove
    PROVE  IInv'
    <1>1. TypeOK'
      BY NowhereFacts DEF IInv, TypeOK, ClearRemove, Remove, journal, process, running, staging,
               Without
    <1>2. Versions'
      BY VersionFacts, NowhereFacts DEF IInv, TypeOK, Versions, Activated, Undoable, Booting, Undoing,
               Swapping, Controllers, Committed, ClearRemove, Remove, journal,
               process, running, staging, Without
    <1>3. Booting'
      BY VersionFacts, NowhereFacts DEF IInv, TypeOK, Versions, Activated, Undoable, Booting, Undoing,
               Swapping, Controllers, Committed, ClearRemove, Remove, journal,
               process, running, staging, Without
    <1>4. Controllers'
      BY VersionFacts DEF IInv, TypeOK, Versions, Activated, Booting, Controllers, Committed,
               ClearRemove, Remove, journal, process, running, staging, Without
    <1> QED BY <1>1, <1>2, <1>3, <1>4 DEF IInv

LEMMA ClearDoneStep ==
    ASSUME IInv, ClearDone
    PROVE  IInv'
    <1>1. TypeOK'
      BY NowhereFacts DEF IInv, TypeOK, ClearDone, Emptied, AfterClearing, places, running,
               staging, Now, Gone
    <1>2. Versions'
      BY VersionFacts, NowhereFacts DEF IInv, TypeOK, Versions, Activated, Undoable, Booting, Undoing,
               Swapping, Controllers, Committed, ClearDone, Emptied, AfterClearing,
               places, running, staging, Now, Gone
    <1>3. Booting'
      BY VersionFacts, NowhereFacts DEF IInv, TypeOK, Versions, Activated, Undoable, Booting, Undoing,
               Swapping, Controllers, Committed, ClearDone, Emptied, AfterClearing,
               places, running, staging, Now, Gone
    <1>4. Controllers'
      BY VersionFacts DEF IInv, TypeOK, Versions, Activated, Booting, Controllers, Committed,
               ClearDone, Emptied, AfterClearing, places, running, staging, Now, Gone
    <1> QED BY <1>1, <1>2, <1>3, <1>4 DEF IInv

LEMMA ClearStuckStep ==
    ASSUME IInv, ClearStuck
    PROVE  IInv'
    <1>1. TypeOK'
      BY NowhereFacts DEF IInv, TypeOK, ClearStuck, Emptied, Trouble, AfterClearing, places,
               journal, running, staging, Now, Gone
    <1>2. Versions'
      BY VersionFacts, NowhereFacts DEF IInv, TypeOK, Versions, Activated, Undoable, Booting, Undoing,
               Swapping, Controllers, Committed, ClearStuck, Emptied, Trouble,
               AfterClearing, places, journal, running, staging, Now, Gone
    <1>3. Booting'
      BY VersionFacts, NowhereFacts DEF IInv, TypeOK, Versions, Activated, Undoable, Booting, Undoing,
               Swapping, Controllers, Committed, ClearStuck, Emptied, Trouble,
               AfterClearing, places, journal, running, staging, Now, Gone
    <1>4. Controllers'
      BY VersionFacts DEF IInv, TypeOK, Versions, Activated, Booting, Controllers, Committed,
               ClearStuck, Emptied, Trouble, AfterClearing, places, journal, running,
               staging, Now, Gone
    <1> QED BY <1>1, <1>2, <1>3, <1>4 DEF IInv

LEMMA MendFailsStep ==
    ASSUME IInv, MendFails
    PROVE  IInv'
    <1>1. TypeOK'
      BY NowhereFacts DEF IInv, TypeOK, MendFails, Trouble, Now, places, journal, process,
               running, staging
    <1>2. Versions'
      BY VersionFacts, NowhereFacts DEF IInv, TypeOK, Versions, Activated, Undoable, Booting, Undoing,
               Swapping, Controllers, Committed, MendFails, Trouble, Now, places,
               journal, process, running, staging
    <1>3. Booting'
      BY VersionFacts, NowhereFacts DEF IInv, TypeOK, Versions, Activated, Undoable, Booting, Undoing,
               Swapping, Controllers, Committed, MendFails, Trouble, Now, places,
               journal, process, running, staging
    <1>4. Controllers'
      BY VersionFacts DEF IInv, TypeOK, Versions, Activated, Booting, Controllers, Committed,
               MendFails, Trouble, Now, places, journal, process, running, staging
    <1> QED BY <1>1, <1>2, <1>3, <1>4 DEF IInv

LEMMA CondemnStep ==
    ASSUME IInv, Condemn
    PROVE  IInv'
    <1>1. TypeOK'
      BY NowhereFacts DEF IInv, TypeOK, Condemn, Trouble, Gone, Now, places, journal, running,
               staging
    <1>2. Versions'
      BY VersionFacts, NowhereFacts DEF IInv, TypeOK, Versions, Activated, Undoable, Booting, Undoing,
               Swapping, Controllers, Committed, Condemn, Trouble, Gone, Now, places,
               journal, running, staging
    <1>3. Booting'
      BY VersionFacts, NowhereFacts DEF IInv, TypeOK, Versions, Activated, Undoable, Booting, Undoing,
               Swapping, Controllers, Committed, Condemn, Trouble, Gone, Now, places,
               journal, running, staging
    <1>4. Controllers'
      BY VersionFacts DEF IInv, TypeOK, Versions, Activated, Booting, Controllers, Committed,
               Condemn, Trouble, Gone, Now, places, journal, running, staging
    <1> QED BY <1>1, <1>2, <1>3, <1>4 DEF IInv

LEMMA DuplicateStep ==
    ASSUME IInv, Duplicate
    PROVE  IInv'
    <1>1. TypeOK'
      BY NowhereFacts DEF IInv, TypeOK, Duplicate, Now, places, journal, running, staging
    <1>2. Versions'
      BY VersionFacts, NowhereFacts DEF IInv, TypeOK, Versions, Activated, Undoable, Booting, Undoing,
               Swapping, Controllers, Committed, Duplicate, Now, places, journal,
               running, staging
    <1>3. Booting'
      BY VersionFacts, NowhereFacts DEF IInv, TypeOK, Versions, Activated, Undoable, Booting, Undoing,
               Swapping, Controllers, Committed, Duplicate, Now, places, journal,
               running, staging
    <1>4. Controllers'
      BY VersionFacts DEF IInv, TypeOK, Versions, Activated, Booting, Controllers, Committed,
               Duplicate, Now, places, journal, running, staging
    <1> QED BY <1>1, <1>2, <1>3, <1>4 DEF IInv

LEMMA StartSupervisorStep ==
    ASSUME IInv, StartSupervisor
    PROVE  IInv'
    <1>1. TypeOK'
      BY NowhereFacts DEF IInv, TypeOK, StartSupervisor, Upgradable, StageComplete, Now, places,
               journal, running, staging
    <1>2. Versions'
      BY VersionFacts, NowhereFacts DEF IInv, TypeOK, Versions, Activated, Undoable, Booting, Undoing,
               Swapping, Controllers, Committed, StartSupervisor, Upgradable,
               StageComplete, Now, places, journal, running, staging
    <1>3. Booting'
      BY VersionFacts, NowhereFacts DEF IInv, TypeOK, Versions, Activated, Undoable, Booting, Undoing,
               Swapping, Controllers, Committed, StartSupervisor, Upgradable,
               StageComplete, Now, places, journal, running, staging
    <1>4. Controllers'
      BY VersionFacts DEF IInv, TypeOK, Versions, Activated, Booting, Controllers, Committed,
               StartSupervisor, Upgradable, StageComplete, Now, places, journal,
               running, staging
    <1> QED BY <1>1, <1>2, <1>3, <1>4 DEF IInv

LEMMA StartFailsStep ==
    ASSUME IInv, StartFails
    PROVE  IInv'
    <1>1. TypeOK'
      BY NowhereFacts DEF IInv, TypeOK, StartFails, Upgradable, StageComplete, Now, places,
               journal, process, running, staging
    <1>2. Versions'
      BY VersionFacts, NowhereFacts DEF IInv, TypeOK, Versions, Activated, Undoable, Booting, Undoing,
               Swapping, Controllers, Committed, StartFails, Upgradable,
               StageComplete, Now, places, journal, process, running, staging
    <1>3. Booting'
      BY VersionFacts, NowhereFacts DEF IInv, TypeOK, Versions, Activated, Undoable, Booting, Undoing,
               Swapping, Controllers, Committed, StartFails, Upgradable,
               StageComplete, Now, places, journal, process, running, staging
    <1>4. Controllers'
      BY VersionFacts DEF IInv, TypeOK, Versions, Activated, Booting, Controllers, Committed,
               StartFails, Upgradable, StageComplete, Now, places, journal, process,
               running, staging
    <1> QED BY <1>1, <1>2, <1>3, <1>4 DEF IInv

LEMMA StartAppStep ==
    ASSUME IInv, StartApp
    PROVE  IInv'
    <1>1. TypeOK'
      BY NowhereFacts DEF IInv, TypeOK, StartApp, Upgradable, OnDisk, Now, places, journal,
               staging
    <1>2. Versions'
      BY VersionFacts, NowhereFacts DEF IInv, TypeOK, Versions, Activated, Undoable, Booting, Undoing,
               Swapping, Controllers, Committed, StartApp, Upgradable, OnDisk, Now,
               places, journal, staging
    <1>3. Booting'
      BY VersionFacts, NowhereFacts DEF IInv, TypeOK, Versions, Activated, Undoable, Booting, Undoing,
               Swapping, Controllers, Committed, StartApp, Upgradable, OnDisk, Now,
               places, journal, staging
    <1>4. Controllers'
      BY VersionFacts DEF IInv, TypeOK, Versions, Activated, Booting, Controllers, Committed,
               StartApp, Upgradable, OnDisk, Now, places, journal, staging
    <1> QED BY <1>1, <1>2, <1>3, <1>4 DEF IInv

LEMMA ApplyNowStep ==
    ASSUME IInv, ApplyNow
    PROVE  IInv'
    <1>1. TypeOK'
      BY NowhereFacts DEF IInv, TypeOK, ApplyNow, Upgradable, StageComplete, Now, places,
               journal, staging
    <1>2. Versions'
      BY VersionFacts, NowhereFacts DEF IInv, TypeOK, Versions, Activated, Undoable, Booting, Undoing,
               Swapping, Controllers, Committed, ApplyNow, Upgradable, StageComplete,
               Now, places, journal, staging
    <1>3. Booting'
      BY VersionFacts, NowhereFacts DEF IInv, TypeOK, Versions, Activated, Undoable, Booting, Undoing,
               Swapping, Controllers, Committed, ApplyNow, Upgradable, StageComplete,
               Now, places, journal, staging
    <1>4. Controllers'
      BY VersionFacts DEF IInv, TypeOK, Versions, Activated, Booting, Controllers, Committed,
               ApplyNow, Upgradable, StageComplete, Now, places, journal, staging
    <1> QED BY <1>1, <1>2, <1>3, <1>4 DEF IInv

-----------------------------------------------------------------------------
(* The supervisor.                                                           *)

LEMMA BeginSwapStep ==
    ASSUME IInv, BeginSwap
    PROVE  IInv'
    <1>1. TypeOK'
      BY NowhereFacts DEF IInv, TypeOK, BeginSwap, Now, places, process, running, staging
    <1>2. Versions'
      BY VersionFacts, NowhereFacts DEF IInv, TypeOK, Versions, Activated, Undoable, Booting, Undoing,
               Swapping, Controllers, Committed, BeginSwap, Now, places, process,
               running, staging
    <1>3. Booting'
      BY VersionFacts, NowhereFacts DEF IInv, TypeOK, Versions, Activated, Undoable, Booting, Undoing,
               Swapping, Controllers, Committed, BeginSwap, Now, places, process,
               running, staging
    <1>4. Controllers'
      BY VersionFacts DEF IInv, TypeOK, Versions, Activated, Booting, Controllers, Committed,
               BeginSwap, Now, places, process, running, staging
    <1> QED BY <1>1, <1>2, <1>3, <1>4 DEF IInv

LEMMA BeginSwapFailsStep ==
    ASSUME IInv, BeginSwapFails
    PROVE  IInv'
    <1>1. TypeOK'
      BY NowhereFacts DEF IInv, TypeOK, BeginSwapFails, Trouble, Gone, places, journal, running,
               staging, Now
    <1>2. Versions'
      BY VersionFacts, NowhereFacts DEF IInv, TypeOK, Versions, Activated, Undoable, Booting, Undoing,
               Swapping, Controllers, Committed, BeginSwapFails, Trouble, Gone,
               places, journal, running, staging, Now
    <1>3. Booting'
      BY VersionFacts, NowhereFacts DEF IInv, TypeOK, Versions, Activated, Undoable, Booting, Undoing,
               Swapping, Controllers, Committed, BeginSwapFails, Trouble, Gone,
               places, journal, running, staging, Now
    <1>4. Controllers'
      BY VersionFacts DEF IInv, TypeOK, Versions, Activated, Booting, Controllers, Committed,
               BeginSwapFails, Trouble, Gone, places, journal, running, staging, Now
    <1> QED BY <1>1, <1>2, <1>3, <1>4 DEF IInv

(* A swapped file has its new bytes, and its old ones in the backup.         *)
LEMMA SwapStep ==
    ASSUME IInv, Swap
    PROVE  IInv'
    <1>1. TypeOK'
      <2> DEFINE f == First(todo)
      <2>1. f \in Files
        BY Extremes DEF IInv, TypeOK, Swap
      <2>2. \/ /\ f \notin Added /\ backup' = MoveInto(installed, backup, f)
               /\ installed' = Without(installed, f) /\ UNCHANGED <<staged, todo>>
            \/ /\ installed' = MoveInto(staged, installed, f) /\ staged' = Without(staged, f)
               /\ todo' = todo \ {f} /\ UNCHANGED backup
        BY DEF Swap
      <2>3. f \notin Added /\ backup' = MoveInto(installed, backup, f) => installed[f] # "new"
        BY Extremes DEF IInv, TypeOK, Booting, Swapping, Swap
      <2> HIDE DEF f
      <2>4. /\ installed' \in [Files -> {"none", "old", "new"}]
            /\ backup' \in [Files -> {"none", "old"}]
            /\ staged' \in [Files -> {"none", "new"}]
            /\ todo' \subseteq Files
        BY <2>1, <2>2, <2>3 DEF IInv, TypeOK, MoveInto, Without
      <2> QED BY <2>4 DEF IInv, TypeOK, Swap, journal, process, running, staging
    <1>2. Versions'
      BY VersionFacts, NowhereFacts, Extremes DEF IInv, TypeOK, Versions, Activated, Undoable, Booting, Undoing,
               Swapping, Controllers, Committed, Swap, MoveInto, Without, journal,
               process, running, staging
    <1>3. Booting'
      BY VersionFacts, NowhereFacts, Extremes DEF IInv, TypeOK, Versions, Activated, Undoable, Booting, Undoing,
               Swapping, Controllers, Committed, Swap, MoveInto, Without, journal,
               process, running, staging
    <1>4. Controllers'
      BY VersionFacts DEF IInv, TypeOK, Versions, Activated, Booting, Controllers, Committed,
               Swap, MoveInto, Without, journal, process, running, staging
    <1> QED BY <1>1, <1>2, <1>3, <1>4 DEF IInv

LEMMA SwappedStep ==
    ASSUME IInv, Swapped
    PROVE  IInv'
    <1>1. TypeOK'
      BY NowhereFacts DEF IInv, TypeOK, Swapped, Now, places, process, running, staging
    <1>2. Versions'
      BY VersionFacts, NowhereFacts DEF IInv, TypeOK, Versions, Activated, Undoable, Booting, Undoing,
               Swapping, Controllers, Committed, Swapped, Now, places, process,
               running, staging
    <1>3. Booting'
      BY VersionFacts, NowhereFacts DEF IInv, TypeOK, Versions, Activated, Undoable, Booting, Undoing,
               Swapping, Controllers, Committed, Swapped, Now, places, process,
               running, staging
    <1>4. Controllers'
      BY VersionFacts DEF IInv, TypeOK, Versions, Activated, Booting, Controllers, Committed,
               Swapped, Now, places, process, running, staging
    <1> QED BY <1>1, <1>2, <1>3, <1>4 DEF IInv

LEMMA SwapFailsStep ==
    ASSUME IInv, SwapFails
    PROVE  IInv'
    <1>1. TypeOK'
      BY NowhereFacts DEF IInv, TypeOK, SwapFails, Trouble, Now, places, journal, process,
               running, staging
    <1>2. Versions'
      BY VersionFacts, NowhereFacts DEF IInv, TypeOK, Versions, Activated, Undoable, Booting, Undoing,
               Swapping, Controllers, Committed, SwapFails, Trouble, Now, places,
               journal, process, running, staging
    <1>3. Booting'
      BY VersionFacts, NowhereFacts DEF IInv, TypeOK, Versions, Activated, Undoable, Booting, Undoing,
               Swapping, Controllers, Committed, SwapFails, Trouble, Now, places,
               journal, process, running, staging
    <1>4. Controllers'
      BY VersionFacts DEF IInv, TypeOK, Versions, Activated, Booting, Controllers, Committed,
               SwapFails, Trouble, Now, places, journal, process, running, staging
    <1> QED BY <1>1, <1>2, <1>3, <1>4 DEF IInv

LEMMA UndoneStep ==
    ASSUME IInv, Undone
    PROVE  IInv'
    <1>1. TypeOK'
      BY NowhereFacts DEF IInv, TypeOK, Undone, Gone, places, running, staging, Now
    <1>2. Versions'
      BY VersionFacts, NowhereFacts DEF IInv, TypeOK, Versions, Activated, Undoable, Booting, Undoing,
               Swapping, Controllers, Committed, Undone, Gone, places, running,
               staging, Now
    <1>3. Booting'
      BY VersionFacts, NowhereFacts DEF IInv, TypeOK, Versions, Activated, Undoable, Booting, Undoing,
               Swapping, Controllers, Committed, Undone, Gone, places, running,
               staging, Now
    <1>4. Controllers'
      BY VersionFacts DEF IInv, TypeOK, Versions, Activated, Booting, Controllers, Committed,
               Undone, Gone, places, running, staging, Now
    <1> QED BY <1>1, <1>2, <1>3, <1>4 DEF IInv

LEMMA UndoFailsStep ==
    ASSUME IInv, UndoFails
    PROVE  IInv'
    <1>1. TypeOK'
      BY NowhereFacts DEF IInv, TypeOK, UndoFails, Trouble, Gone, places, journal, running,
               staging, Now
    <1>2. Versions'
      BY VersionFacts, NowhereFacts DEF IInv, TypeOK, Versions, Activated, Undoable, Booting, Undoing,
               Swapping, Controllers, Committed, UndoFails, Trouble, Gone, places,
               journal, running, staging, Now
    <1>3. Booting'
      BY VersionFacts, NowhereFacts DEF IInv, TypeOK, Versions, Activated, Undoable, Booting, Undoing,
               Swapping, Controllers, Committed, UndoFails, Trouble, Gone, places,
               journal, running, staging, Now
    <1>4. Controllers'
      BY VersionFacts DEF IInv, TypeOK, Versions, Activated, Booting, Controllers, Committed,
               UndoFails, Trouble, Gone, places, journal, running, staging, Now
    <1> QED BY <1>1, <1>2, <1>3, <1>4 DEF IInv

LEMMA StartChildStep ==
    ASSUME IInv, StartChild
    PROVE  IInv'
    <1>1. TypeOK'
      BY NowhereFacts DEF IInv, TypeOK, StartChild, Now, places, journal, process, staging
    <1>2. Versions'
      BY VersionFacts, NowhereFacts DEF IInv, TypeOK, Versions, Activated, Undoable, Booting, Undoing,
               Swapping, Controllers, Committed, StartChild, Now, places, journal,
               process, staging
    <1>3. Booting'
      BY VersionFacts, NowhereFacts DEF IInv, TypeOK, Versions, Activated, Undoable, Booting, Undoing,
               Swapping, Controllers, Committed, StartChild, Now, places, journal,
               process, staging
    <1>4. Controllers'
      BY VersionFacts DEF IInv, TypeOK, Versions, Activated, Booting, Controllers, Committed,
               StartChild, Now, places, journal, process, staging
    <1> QED BY <1>1, <1>2, <1>3, <1>4 DEF IInv

LEMMA HealthyStep ==
    ASSUME IInv, Healthy
    PROVE  IInv'
    <1>1. TypeOK'
      BY NowhereFacts DEF IInv, TypeOK, Healthy, Now, places, journal, process
    <1>2. Versions'
      BY VersionFacts, NowhereFacts DEF IInv, TypeOK, Versions, Activated, Undoable, Booting, Undoing,
               Swapping, Controllers, Committed, Healthy, Now, places, journal,
               process
    <1>3. Booting'
      BY VersionFacts, NowhereFacts DEF IInv, TypeOK, Versions, Activated, Undoable, Booting, Undoing,
               Swapping, Controllers, Committed, Healthy, Now, places, journal,
               process
    <1>4. Controllers'
      BY VersionFacts DEF IInv, TypeOK, Versions, Activated, Booting, Controllers, Committed,
               Healthy, Now, places, journal, process
    <1> QED BY <1>1, <1>2, <1>3, <1>4 DEF IInv

LEMMA UnhealthyStep ==
    ASSUME IInv, Unhealthy
    PROVE  IInv'
    <1>1. TypeOK'
      BY NowhereFacts DEF IInv, TypeOK, Unhealthy, Now, places, journal, process, staging
    <1>2. Versions'
      BY VersionFacts, NowhereFacts DEF IInv, TypeOK, Versions, Activated, Undoable, Booting, Undoing,
               Swapping, Controllers, Committed, Unhealthy, Now, places, journal,
               process, staging
    <1>3. Booting'
      BY VersionFacts, NowhereFacts DEF IInv, TypeOK, Versions, Activated, Undoable, Booting, Undoing,
               Swapping, Controllers, Committed, Unhealthy, Now, places, journal,
               process, staging
    <1>4. Controllers'
      BY VersionFacts DEF IInv, TypeOK, Versions, Activated, Booting, Controllers, Committed,
               Unhealthy, Now, places, journal, process, staging
    <1> QED BY <1>1, <1>2, <1>3, <1>4 DEF IInv

(* A rejected update is undone, whether or not the journal can be written.   *)
LEMMA RejectStep ==
    ASSUME IInv, Reject
    PROVE  IInv'
    <1>1. TypeOK'
      BY NowhereFacts DEF IInv, TypeOK, Reject, Discard, Trouble, Now, places, running, staging,
               BackedUp
    <1>2. Versions'
      BY VersionFacts, NowhereFacts DEF IInv, TypeOK, Versions, Activated, Undoable, Booting, Undoing,
               Swapping, Controllers, Committed, Reject, Discard, Trouble, Now,
               places, running, staging, BackedUp
    <1>3. Booting'
      BY VersionFacts, NowhereFacts DEF IInv, TypeOK, Versions, Activated, Undoable, Booting, Undoing,
               Swapping, Controllers, Committed, Reject, Discard, Trouble, Now,
               places, running, staging, BackedUp
    <1>4. Controllers'
      BY VersionFacts DEF IInv, TypeOK, Versions, Activated, Booting, Controllers, Committed,
               Reject, Discard, Trouble, Now, places, running, staging, BackedUp
    <1> QED BY <1>1, <1>2, <1>3, <1>4 DEF IInv

(* The journal says committed when every file has been swapped.              *)
LEMMA CommitStep ==
    ASSUME IInv, Commit
    PROVE  IInv'
    <1>1. TypeOK'
      BY NowhereFacts DEF IInv, TypeOK, Commit, Now, Trouble, Gone, places, running, staging
    <1>2. Versions'
      BY VersionFacts, NowhereFacts DEF IInv, TypeOK, Versions, Activated, Undoable, Booting, Undoing,
               Swapping, Controllers, Committed, Commit, Now, Trouble, Gone, places,
               running, staging
    <1>3. Booting'
      BY VersionFacts, NowhereFacts DEF IInv, TypeOK, Versions, Activated, Undoable, Booting, Undoing,
               Swapping, Controllers, Committed, Commit, Now, Trouble, Gone, places,
               running, staging
    <1>4. Controllers'
      BY VersionFacts DEF IInv, TypeOK, Versions, Activated, Booting, Controllers, Committed,
               Commit, Now, Trouble, Gone, places, running, staging
    <1> QED BY <1>1, <1>2, <1>3, <1>4 DEF IInv

(* A controller that starts beside the supervisor does not stage.            *)
LEMMA LaunchBesideStep ==
    ASSUME IInv, LaunchBeside
    PROVE  IInv'
    <1>1. TypeOK'
      BY NowhereFacts DEF IInv, TypeOK, LaunchBeside, Upgradable, OnDisk, places, journal,
               process, staging
    <1>2. Versions'
      BY VersionFacts, NowhereFacts DEF IInv, TypeOK, Versions, Activated, Undoable, Booting, Undoing,
               Swapping, Controllers, Committed, LaunchBeside, Upgradable, OnDisk,
               places, journal, process, staging
    <1>3. Booting'
      BY VersionFacts, NowhereFacts DEF IInv, TypeOK, Versions, Activated, Undoable, Booting, Undoing,
               Swapping, Controllers, Committed, LaunchBeside, Upgradable, OnDisk,
               places, journal, process, staging
    <1>4. Controllers'
      BY VersionFacts DEF IInv, TypeOK, Versions, Activated, Booting, Controllers, Committed,
               LaunchBeside, Upgradable, OnDisk, places, journal, process, staging
    <1> QED BY <1>1, <1>2, <1>3, <1>4 DEF IInv

-----------------------------------------------------------------------------
(* The environment.                                                          *)

LEMMA QuitStep ==
    ASSUME IInv, Quit
    PROVE  IInv'
    <1>1. TypeOK'
      BY NowhereFacts DEF IInv, TypeOK, Quit, places, journal, process
    <1>2. Versions'
      BY VersionFacts, NowhereFacts DEF IInv, TypeOK, Versions, Activated, Undoable, Booting, Undoing,
               Swapping, Controllers, Committed, Quit, places, journal, process
    <1>3. Booting'
      BY VersionFacts, NowhereFacts DEF IInv, TypeOK, Versions, Activated, Undoable, Booting, Undoing,
               Swapping, Controllers, Committed, Quit, places, journal, process
    <1>4. Controllers'
      BY VersionFacts DEF IInv, TypeOK, Versions, Activated, Booting, Controllers, Committed,
               Quit, places, journal, process
    <1> QED BY <1>1, <1>2, <1>3, <1>4 DEF IInv

(* A stop of the machine leaves the disk as it is.                           *)
LEMMA CrashStep ==
    ASSUME IInv, Crash
    PROVE  IInv'
    <1>1. TypeOK'
      BY NowhereFacts DEF IInv, TypeOK, Crash, Trouble, Gone, places, journal, Now
    <1>2. Versions'
      BY VersionFacts, NowhereFacts DEF IInv, TypeOK, Versions, Activated, Undoable, Booting, Undoing,
               Swapping, Controllers, Committed, Crash, Trouble, Gone, places,
               journal, Now
    <1>3. Booting'
      BY VersionFacts, NowhereFacts DEF IInv, TypeOK, Versions, Activated, Undoable, Booting, Undoing,
               Swapping, Controllers, Committed, Crash, Trouble, Gone, places,
               journal, Now
    <1>4. Controllers'
      BY VersionFacts DEF IInv, TypeOK, Versions, Activated, Booting, Controllers, Committed,
               Crash, Trouble, Gone, places, journal, Now
    <1> QED BY <1>1, <1>2, <1>3, <1>4 DEF IInv

-----------------------------------------------------------------------------

LEMMA InitInvariant ==
    ASSUME Init
    PROVE  IInv
    <1>1. TypeOK
      BY VersionFacts, NowhereFacts DEF Init, TypeOK
    <1>2. Versions /\ Booting /\ Controllers
      BY VersionFacts, NowhereFacts
         DEF Init, Versions, Activated, Booting, Swapping, Undoing, Controllers, Committed
    <1> QED BY <1>1, <1>2 DEF IInv

LEMMA NextInvariant ==
    ASSUME IInv, Next
    PROVE  IInv'
    <1>1. CASE App
      BY <1>1, StageBeginStep, StageDropJournalStep, StageFileStep, StageDoneStep,
         FinishRemoveStep, FinishStep DEF App
    <1>2. CASE Recovery
      BY <1>2, RestoreStep, MendedStep, ClearRemoveStep, ClearDoneStep, ClearStuckStep,
         CondemnStep DEF Recovery
    <1>3. CASE Starting
      BY <1>3, DuplicateStep, StartSupervisorStep, StartFailsStep, StartAppStep DEF Starting
    <1>4. CASE Activation
      BY <1>4, BeginSwapStep, BeginSwapFailsStep, SwapStep, SwappedStep, UndoneStep,
         StartChildStep, HealthyStep, UnhealthyStep, RejectStep, CommitStep DEF Activation
    <1>5. CASE Environment
      BY <1>5, MendFailsStep, SwapFailsStep, UndoFailsStep, CrashStep, QuitStep,
         LaunchBesideStep, ApplyNowStep DEF Environment
    <1> QED BY <1>1, <1>2, <1>3, <1>4, <1>5, LaunchStep DEF Next

LEMMA StutterInvariant ==
    ASSUME IInv, UNCHANGED vars
    PROVE  IInv'
    BY DEF IInv, TypeOK, Versions, Activated, Undoable, Booting, Swapping, Undoing, Controllers,
           Committed, BackedUp, vars, places, journal, process, running, staging

(* While an update is activated every file can be put back, otherwise the    *)
(* installation is the one version the journal stands for; whatever process  *)
(* boots and whatever runs beside it is in step with that.                   *)
THEOREM Invariance == Spec => []IInv
    <1>1. Init => IInv
      BY InitInvariant
    <1>2. IInv /\ [Next]_vars => IInv'
      BY NextInvariant, StutterInvariant
    <1> QED BY <1>1, <1>2, PTL DEF Spec

(* Until the update is committed the old bytes of every replaced file are    *)
(* in the installation or in its backup (transaction.rs, apply and restore), *)
(* wherever renames fail or the machine stops.                               *)
THEOREM OldBytesAlwaysSurvive == Spec => []OldBytesSurvive
    <1>1. IInv => OldBytesSurvive
      <2> SUFFICES ASSUME IInv, ~Committed, NEW f \in Files \ Added
                   PROVE  "old" \in {installed[f], backup[f]}
        BY DEF OldBytesSurvive
      <2>1. CASE Activated
        <3>1. Undoable(f) /\ backup[f] \in {"none", "old"}
          BY <2>1 DEF IInv, Versions, TypeOK
        <3> QED BY <3>1 DEF Undoable
      <2>2. CASE ~Activated
        <3>1. installed = Old
          BY <2>2 DEF IInv, TypeOK, Versions, Activated, Committed
        <3> QED BY <3>1, VersionFacts
      <2> QED BY <2>1, <2>2
    <1> QED BY <1>1, Invariance, PTL

-----------------------------------------------------------------------------
(* InplaceUpdate implements AtomicUpdate: one step is a step or a stutter.   *)

(* A controller that starts after a completed recovery finds what the update *)
(* promises: no recovery ends with an update still activated.                *)
LEMMA WhatStarts ==
    ASSUME IInv, ~Activated
    PROVE  OnDisk = IF Committed THEN "new" ELSE "old"
    BY VersionFacts DEF IInv, TypeOK, Versions, Activated, Committed, OnDisk

(* Only a commit makes the new version the one that is kept, whatever else   *)
(* renames files or writes the journal.                                      *)
LEMMA KeptByOthers ==
    ASSUME IInv,
           \/ App \/ Launch \/ Recovery
           \/ Duplicate \/ StartSupervisor \/ StartFails
           \/ BeginSwap \/ BeginSwapFails \/ Swap \/ Swapped \/ Undone \/ Reject
           \/ MendFails \/ SwapFails \/ UndoFails
    PROVE  (Committed' <=> Committed) /\ UNCHANGED running
    <1>1. CASE StageBegin
      BY <1>1, VersionFacts, NowhereFacts
         DEF IInv, TypeOK, Versions, Activated, Undoable, Booting, Undoing, Swapping,
             Controllers, Committed, StageBegin, StageComplete, BackedUp, journal,
             process, running
    <1>2. CASE StageDropJournal
      BY <1>2, VersionFacts, NowhereFacts
         DEF IInv, TypeOK, Versions, Activated, Undoable, Booting, Undoing, Swapping,
             Controllers, Committed, StageDropJournal, staging, places, process, running
    <1>3. CASE StageFile
      BY <1>3, VersionFacts, NowhereFacts
         DEF IInv, TypeOK, Versions, Activated, Undoable, Booting, Undoing, Swapping,
             Controllers, Committed, StageFile, staging, journal, process, running
    <1>4. CASE StageDone
      BY <1>4, VersionFacts, NowhereFacts
         DEF IInv, TypeOK, Versions, Activated, Undoable, Booting, Undoing, Swapping,
             Controllers, Committed, StageDone, staging, places, process, running
    <1>5. CASE FinishRemove
      BY <1>5, VersionFacts, NowhereFacts
         DEF IInv, TypeOK, Versions, Activated, Undoable, Booting, Undoing, Swapping,
             Controllers, Committed, FinishRemove, BackedUp, Remove, journal, process,
             running, staging, Without
    <1>6. CASE Finish
      BY <1>6, VersionFacts, NowhereFacts
         DEF IInv, TypeOK, Versions, Activated, Undoable, Booting, Undoing, Swapping,
             Controllers, Committed, Finish, Emptied, journal, BackedUp, places, process,
             running
    <1>7. CASE Restore
      BY <1>7, VersionFacts, NowhereFacts
         DEF IInv, TypeOK, Versions, Activated, Undoable, Booting, Undoing, Swapping,
             Controllers, Committed, Restore, RestoreFile, journal, process, running,
             staging, MoveInto, Without, places
    <1>8. CASE Mended
      BY <1>8, VersionFacts, NowhereFacts
         DEF IInv, TypeOK, Versions, Activated, Undoable, Booting, Undoing, Swapping,
             Controllers, Committed, Mended, Discard, Now, places, running, staging,
             BackedUp
    <1>9. CASE ClearRemove
      BY <1>9, VersionFacts, NowhereFacts
         DEF IInv, TypeOK, Versions, Activated, Undoable, Booting, Undoing, Swapping,
             Controllers, Committed, ClearRemove, Remove, journal, process, running,
             staging, Without
    <1>10. CASE ClearDone
      BY <1>10, VersionFacts, NowhereFacts
         DEF IInv, TypeOK, Versions, Activated, Undoable, Booting, Undoing, Swapping,
             Controllers, Committed, ClearDone, Emptied, AfterClearing, places, running,
             staging, Now, Gone
    <1>11. CASE ClearStuck
      BY <1>11, VersionFacts, NowhereFacts
         DEF IInv, TypeOK, Versions, Activated, Undoable, Booting, Undoing, Swapping,
             Controllers, Committed, ClearStuck, Emptied, Trouble, AfterClearing, places,
             journal, running, staging, Now, Gone
    <1>12. CASE Condemn
      BY <1>12, VersionFacts, NowhereFacts
         DEF IInv, TypeOK, Versions, Activated, Undoable, Booting, Undoing, Swapping,
             Controllers, Committed, Condemn, Trouble, Gone, Now, places, journal,
             running, staging
    <1>13. CASE Duplicate
      BY <1>13, VersionFacts, NowhereFacts
         DEF IInv, TypeOK, Versions, Activated, Undoable, Booting, Undoing, Swapping,
             Controllers, Committed, Duplicate, Now, places, journal, running, staging
    <1>14. CASE StartSupervisor
      BY <1>14, VersionFacts, NowhereFacts
         DEF IInv, TypeOK, Versions, Activated, Undoable, Booting, Undoing, Swapping,
             Controllers, Committed, StartSupervisor, Upgradable, StageComplete, Now,
             places, journal, running, staging
    <1>15. CASE StartFails
      BY <1>15, VersionFacts, NowhereFacts
         DEF IInv, TypeOK, Versions, Activated, Undoable, Booting, Undoing, Swapping,
             Controllers, Committed, StartFails, Upgradable, StageComplete, Now, places,
             journal, process, running, staging
    <1>16. CASE BeginSwap
      BY <1>16, VersionFacts, NowhereFacts
         DEF IInv, TypeOK, Versions, Activated, Undoable, Booting, Undoing, Swapping,
             Controllers, Committed, BeginSwap, Now, places, process, running, staging
    <1>17. CASE BeginSwapFails
      BY <1>17, VersionFacts, NowhereFacts
         DEF IInv, TypeOK, Versions, Activated, Undoable, Booting, Undoing, Swapping,
             Controllers, Committed, BeginSwapFails, Trouble, Gone, places, journal,
             running, staging, Now
    <1>18. CASE Swap
      BY <1>18, VersionFacts, NowhereFacts
         DEF IInv, TypeOK, Versions, Activated, Undoable, Booting, Undoing, Swapping,
             Controllers, Committed, Swap, MoveInto, Without, journal, process, running,
             staging
    <1>19. CASE Swapped
      BY <1>19, VersionFacts, NowhereFacts
         DEF IInv, TypeOK, Versions, Activated, Undoable, Booting, Undoing, Swapping,
             Controllers, Committed, Swapped, Now, places, process, running, staging
    <1>20. CASE Undone
      BY <1>20, VersionFacts, NowhereFacts
         DEF IInv, TypeOK, Versions, Activated, Undoable, Booting, Undoing, Swapping,
             Controllers, Committed, Undone, Gone, places, running, staging, Now
    <1>21. CASE Reject
      BY <1>21, VersionFacts, NowhereFacts
         DEF IInv, TypeOK, Versions, Activated, Undoable, Booting, Undoing, Swapping,
             Controllers, Committed, Reject, Discard, Trouble, Now, places, running,
             staging, BackedUp
    <1>22. CASE MendFails
      BY <1>22, VersionFacts, NowhereFacts
         DEF IInv, TypeOK, Versions, Activated, Undoable, Booting, Undoing, Swapping,
             Controllers, Committed, MendFails, Trouble, Now, places, journal, process,
             running, staging
    <1>23. CASE SwapFails
      BY <1>23, VersionFacts, NowhereFacts
         DEF IInv, TypeOK, Versions, Activated, Undoable, Booting, Undoing, Swapping,
             Controllers, Committed, SwapFails, Trouble, Now, places, journal, process,
             running, staging
    <1>24. CASE UndoFails
      BY <1>24, VersionFacts, NowhereFacts
         DEF IInv, TypeOK, Versions, Activated, Undoable, Booting, Undoing, Swapping,
             Controllers, Committed, UndoFails, Trouble, Gone, places, journal, running,
             staging, Now
    <1>25. CASE Launch
      BY <1>25, VersionFacts, NowhereFacts
         DEF IInv, TypeOK, Versions, Activated, Undoable, Booting, Undoing, Swapping,
             Controllers, Committed, Launch, Recover, places, journal, running, staging,
             WorkIsEmpty, Now, BackedUp, Discard
    <1> QED BY <1>1, <1>2, <1>3, <1>4, <1>5, <1>6, <1>7, <1>8, <1>9, <1>10,
               <1>11, <1>12, <1>13, <1>14, <1>15, <1>16, <1>17, <1>18, <1>19,
               <1>20, <1>21, <1>22, <1>23, <1>24, <1>25 DEF App, Recovery

LEMMA StartAppKeeps ==
    ASSUME IInv, StartApp
    PROVE  Promise!Start \/ Promise!StartAnyway
    <1>1. (Committed' <=> Committed) /\ healthy' = healthy /\ runs = "none" /\ runs' = OnDisk
      BY DEF StartApp, Committed, places, journal
    <1>2. CASE boot = "starting" /\ mended' = TRUE
      <2>1. runs' = IF Committed THEN "new" ELSE "old"
        BY <1>1, <1>2, WhatStarts DEF IInv, Booting
      <2> QED BY <1>1, <1>2, <2>1 DEF Promise!Start
    <1>3. CASE mended' = FALSE
      BY <1>1, <1>3 DEF Promise!StartAnyway, OnDisk
    <1> QED BY <1>2, <1>3 DEF StartApp

LEMMA LaunchBesideKeeps ==
    ASSUME LaunchBeside
    PROVE  Promise!StartAnyway
    <1>1. (Committed' <=> Committed) /\ healthy' = healthy /\ runs = "none" /\ runs' = OnDisk
          /\ mended' = FALSE
      BY DEF LaunchBeside, Committed, places, journal
    <1> QED BY <1>1 DEF Promise!StartAnyway, OnDisk

LEMMA TrialKeeps ==
    ASSUME IInv, StartChild \/ Healthy
    PROVE  Promise!Try \/ Promise!Prove
    <1>1. (Committed' <=> Committed) /\ mended' = mended
      BY DEF StartChild, Healthy, Committed, places, journal
    <1>2. CASE StartChild
      BY <1>1, <1>2 DEF StartChild, Promise!Try
    <1>3. CASE Healthy
      BY <1>1, <1>3 DEF Healthy, IInv, Controllers, Promise!Prove
    <1> QED BY <1>2, <1>3

(* The new version has reported health before it is the one that is kept.    *)
LEMMA CommitKeeps ==
    ASSUME IInv, Commit
    PROVE  Promise!Keep \/ UNCHANGED Promise!vars
    <1>1. healthy /\ UNCHANGED <<running, installed>>
      BY DEF Commit, IInv, Booting, places
    <1>2. CASE phase' = "committed"
      BY <1>1, <1>2 DEF Committed, running, Promise!Keep
    <1>3. CASE phase' = phase
      BY <1>1, <1>3 DEF Committed, running, Promise!vars
    <1> QED BY <1>2, <1>3 DEF Commit

LEMMA StopKeeps ==
    ASSUME IInv, Unhealthy \/ Quit \/ ApplyNow \/ Crash
    PROVE  Promise!Stop \/ UNCHANGED Promise!vars
    <1>1. (Committed' <=> Committed) /\ UNCHANGED <<mended, healthy>>
      BY DEF Unhealthy, Quit, ApplyNow, Crash, Committed, places, journal
    <1>2. runs' = "none" \/ runs' = runs
      BY DEF Unhealthy, Quit, ApplyNow, Crash
    <1> QED BY <1>1, <1>2 DEF Promise!Stop, Promise!vars

LEMMA StepKeeps ==
    ASSUME IInv, [Next]_vars
    PROVE  [Promise!Next]_(Promise!vars)
    <1>1. CASE UNCHANGED vars
      BY <1>1 DEF vars, places, journal, running, Committed, Promise!vars
    <1>2. CASE (Committed' <=> Committed) /\ UNCHANGED running
      BY <1>2 DEF running, Promise!vars
    <1> QED BY <1>1, <1>2, KeptByOthers, StartAppKeeps, LaunchBesideKeeps, TrialKeeps,
               CommitKeeps, StopKeeps
            DEF Next, Starting, Activation, Environment, Promise!Next

(* The update keeps its promise: a controller that starts after a completed  *)
(* recovery is the one version that is kept, and the new one is kept for     *)
(* good only after it reported health (docs/adr/0020-in-place-updates.md).   *)
THEOREM PromiseKept == Spec => KeepsItsPromise
    <1>1. Init => Promise!Init
      BY VersionFacts DEF Init, Committed, Promise!Init
    <1>2. IInv /\ [Next]_vars => [Promise!Next]_(Promise!vars)
      BY StepKeeps
    <1> QED BY <1>1, <1>2, Invariance, PTL DEF Spec, KeepsItsPromise, Promise!Spec
=============================================================================
