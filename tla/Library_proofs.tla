---------------------------- MODULE Library_proofs ----------------------------
(* Footage survives until it is deleted or overwritten by name, pictures are   *)
(* made once and are not older than their URL, and only picked folders are    *)
(* read and written: for any number of clips, names, threads, requests and    *)
(* folders.                                                                  *)
EXTENDS Library, TLAPS

USE DEF ghosts, Gone

-----------------------------------------------------------------------------
(* What is kept where.                                                       *)
Listings == [Clips -> Names \cup {None}]
TaskType ==
    {Idle}
    \cup [at : {"process", "published", "append"}, clip : Clips, name : Names]
    \cup [at : {"listing"}, job : Jobs, loaded : Listings]
    \cup [at : {"stale"}, job : Jobs, kept : Listings]
    \cup [at : {"trim", "mix", "trimmed", "thumbnails"}, name : Names]
    \cup [at : {"delete", "rename", "renamed"}, clip : Clips, name : Names \cup {None}]
FixType ==
    {FixOff}
    \cup [at : {"checked", "next"}, pending : SUBSET Names]
    \cup [at : {"remux", "replace"}, pending : SUBSET Names, name : Names, original : Versions]

Types ==
    /\ files \in [Names -> Versions \cup {None}]
    /\ records \in Listings
    /\ tasks \in [Tasks -> TaskType]
    /\ fix \in FixType
    /\ \A t \in Tasks : In(t, "rename") => tasks[t].name \in Names

(* Footage is published before the engine's files are removed.               *)
Holds(c) == \E n \in Names : Exists(n) /\ files[n].clip = c
Footage ==
    /\ FootageSurvives
    /\ \A t \in Tasks : In(t, "published") => tasks[t].clip \in Gone \/ Holds(tasks[t].clip)

-----------------------------------------------------------------------------
(* A clip is published once, and is not seen before; from then on it has one  *)
(* file, of which only newer versions follow, but for the stale ones.        *)
Keys == [name : Names, file : Versions]
AskType ==
    {NoRequest}
    \cup [at : {"url", "load", "make"}, name : Names, file : Versions]
    \cup [at : {"made", "answered"}, name : Names, file : Versions, shows : Versions]

Of(f, c) == f.clip = c /\ ~f.stale
Ordered(old, new) == new.clip = old.clip /\ ~old.stale /\ ~new.stale => new.cut >= old.cut
Waits(r) == asked[r].at \in {"url", "load", "make"}

Unseen(c) ==
    /\ \A n \in Names : Exists(n) => ~Of(files[n], c)
    /\ \A r \in Requests : Waits(r) => ~Of(asked[r].file, c)
Publishing ==
    /\ \A c \in Clips \ made : Unseen(c)
    /\ \A t \in Tasks : In(t, "process") => tasks[t].clip \in made /\ Unseen(tasks[t].clip)
    /\ \A t, u \in Tasks : In(t, "process") /\ In(u, "process") /\ tasks[t].clip = tasks[u].clip => t = u
    /\ \A m, n \in Names :
          Exists(m) /\ Exists(n) /\ ~files[m].stale /\ Of(files[n], files[m].clip) => m = n

Pictures ==
    /\ asked \in [Requests -> AskType]
    /\ memory \cup disk \subseteq [key : Keys, shows : Versions]
    /\ \A r \in Requests : Waits(r) => \A n \in Names : Exists(n) => Ordered(asked[r].file, files[n])
    /\ \A r \in Requests : asked[r].at \in {"made", "answered"} => Ordered(asked[r].file, asked[r].shows)
    /\ \A p \in memory \cup disk : Ordered(p.key.file, p.shows)

(* The maker of a picture has its key to itself.                             *)
Makers ==
    /\ \A r \in Requests : asked[r].at \in {"make", "made"} => Key(r) \in making
    /\ OneMaker

-----------------------------------------------------------------------------
(* What names a folder names a picked one.                                   *)
Picked == [roots : SUBSET picked, folder : picked \cup {None}, hotkey : BOOLEAN]
After ==
    {Off} \cup [at : {"persist", "adopt"}, new : Picked]
          \cup [at : {"change"}, with : Picked, video : Folders]
WorkType ==
    After \cup [at : {"picker"}, with : Picked]
          \cup [at : {"scan"}, with : Picked, next : After]
          \cup [at : {"index"}, with : Picked, next : After, seen : SUBSET Folders]
Folder ==
    /\ current \in Picked /\ stored \in Picked /\ grant \in picked \cup {None}
    /\ work \in [Workers -> WorkType]
    /\ picked \subseteq Folders

IInv == Types /\ Footage /\ Publishing /\ Pictures /\ Makers /\ Folder

(* What a picker returned stays picked.                                      *)
LEMMA PickedGrows ==
    ASSUME picked \subseteq picked'
    PROVE  Picked \subseteq Picked' /\ After \subseteq After' /\ WorkType \subseteq WorkType'
    <1>1. Picked \subseteq Picked'
      BY DEF Picked
    <1>2. After \subseteq After'
      BY <1>1 DEF After
    <1> QED BY <1>1, <1>2 DEF WorkType

LEMMA WorksType ==
    ASSUME Folder, picked \subseteq picked', NEW w \in Workers, NEW x \in WorkType', Works(w, x)
    PROVE  work' \in [Workers -> WorkType']
    BY PickedGrows DEF Works, Folder

LEMMA SettingsSteps ==
    ASSUME Folder, SettingsStep
    PROVE  Folder'
    <1>1. ASSUME NEW f \in Folders, PickSaveFolder(f)
          PROVE  Folder'
      <2>1. /\ picked' = picked \cup {f} /\ grant' = f /\ UNCHANGED <<current, stored, work>>
        BY <1>1 DEF PickSaveFolder
      <2>2. Picked \subseteq Picked' /\ WorkType \subseteq WorkType'
        BY <2>1, PickedGrows
      <2> QED BY <2>1, <2>2 DEF Folder
    <1>2. ASSUME NEW w \in Workers, NEW page \in [folder : Folders \cup {None}], SaveFromUi(w, page)
          PROVE  Folder'
      <2> DEFINE new == [current EXCEPT !.folder =
                            IF page.folder # current.folder /\ grant = page.folder THEN page.folder ELSE @]
      <2>1. new \in Picked
        BY DEF Folder, Picked
      <2>2. Works(w, Saving(new)) /\ grant' \in {grant, None} /\ UNCHANGED <<current, stored, picked>>
        BY <1>2 DEF SaveFromUi
      <2> HIDE DEF new
      <2>3. Saving(new) \in WorkType'
        BY <2>1, <2>2, PickedGrows DEF Saving, After, WorkType
      <2>4. work' \in [Workers -> WorkType']
        BY <2>2, <2>3, WorksType
      <2> QED BY <2>2, <2>4 DEF Folder, Picked
    <1>3. ASSUME NEW w \in Workers, NEW on \in BOOLEAN, SetHotkey(w, on)
          PROVE  Folder'
      <2> DEFINE new == [current EXCEPT !.hotkey = on]
      <2>1. new \in Picked
        BY DEF Folder, Picked
      <2>2. Works(w, Saving(new)) /\ UNCHANGED <<current, stored, grant, picked>>
        BY <1>3 DEF SetHotkey
      <2> HIDE DEF new
      <2>3. Saving(new) \in WorkType'
        BY <2>1, <2>2, PickedGrows DEF Saving, After, WorkType
      <2>4. work' \in [Workers -> WorkType']
        BY <2>2, <2>3, WorksType
      <2> QED BY <2>2, <2>4 DEF Folder, Picked
    <1>4. ASSUME NEW w \in Workers, Persist(w) \/ Adopt(w)
          PROVE  Folder'
      <2>1. work[w] \in [at : {"persist", "adopt"}, new : Picked]
        BY <1>4 DEF Persist, Adopt, Folder, WorkType, After, Off
      <2>2. UNCHANGED <<grant, picked>> /\ current' \in Picked /\ stored' \in Picked
        BY <1>4, <2>1 DEF Persist, Adopt, Folder
      <2>3. Off \in WorkType' /\ [work[w] EXCEPT !.at = "adopt"] \in WorkType'
        BY <2>1, <2>2, PickedGrows DEF After, WorkType
      <2>4. work' \in [Workers -> WorkType']
        BY <1>4, <2>2, <2>3, WorksType DEF Persist, Adopt
      <2> QED BY <2>2, <2>4 DEF Folder, Picked
    <1>5. ASSUME NEW w \in Workers, Scan(w) \/ Refresh(w)
          PROVE  Folder'
      <2>1. UNCHANGED <<current, stored, grant, picked>>
        BY <1>5 DEF Scan, Refresh
      <2>2. CASE Scan(w)
        <3>1. work[w] \in [at : {"scan"}, with : Picked, next : After]
          BY <2>2 DEF Scan, Folder, WorkType, After, Off
        <3>2. work[w].with.roots \cap present \subseteq Folders
          BY <3>1 DEF Folder, Picked
        <3>3. [at |-> "index", with |-> work[w].with, next |-> work[w].next,
               seen |-> work[w].with.roots \cap present] \in WorkType'
          BY <2>1, <3>1, <3>2, PickedGrows DEF WorkType
        <3>4. work' \in [Workers -> WorkType']
          BY <2>1, <2>2, <3>3, WorksType DEF Scan
        <3> QED BY <2>1, <3>4 DEF Folder, Picked
      <2>3. CASE Refresh(w)
        <3>1. work[w].next \in WorkType'
          BY <2>1, <2>3, PickedGrows DEF Refresh, Folder, WorkType, After, Off
        <3>2. work' \in [Workers -> WorkType']
          BY <2>1, <2>3, <3>1, WorksType DEF Refresh
        <3> QED BY <2>1, <3>2 DEF Folder, Picked
      <2> QED BY <1>5, <2>2, <2>3
    <1>6. ASSUME NEW w \in Workers, Import(w) \/ ListImported(w)
          PROVE  Folder'
      <2>1. UNCHANGED <<current, stored, grant, picked>>
        BY <1>6 DEF Import, ListImported
      <2>2. /\ [at |-> "picker", with |-> current] \in WorkType'
            /\ Scanning(current, Off) \in WorkType'
        BY <2>1, PickedGrows DEF Folder, WorkType, After, Scanning
      <2>3. work' \in [Workers -> WorkType']
        BY <1>6, <2>1, <2>2, WorksType DEF Import, ListImported
      <2> QED BY <2>1, <2>3 DEF Folder, Picked
    <1>7. ASSUME NEW w \in Workers, NEW f \in Folders, ImportPicked(w, f)
          PROVE  Folder'
      <2>1. work[w] \in [at : {"picker"}, with : Picked]
        BY <1>7 DEF ImportPicked, Folder, WorkType, After, Off
      <2>2. picked' = picked \cup {f} /\ UNCHANGED <<current, stored, grant>>
        BY <1>7 DEF ImportPicked
      <2> DEFINE new == [work[w].with EXCEPT !.roots = @ \cup {f}]
      <2>3. new \in Picked'
        BY <2>1, <2>2 DEF Picked
      <2>4. Works(w, IF f \in work[w].with.roots THEN Off ELSE Scanning(new, Saving(new)))
        BY <1>7 DEF ImportPicked
      <2> HIDE DEF new
      <2>5. Off \in WorkType' /\ Scanning(new, Saving(new)) \in WorkType'
        BY <2>3 DEF WorkType, After, Scanning, Saving
      <2>6. work' \in [Workers -> WorkType']
        BY <2>2, <2>4, <2>5, WorksType
      <2>7. Picked \subseteq Picked'
        BY <2>2, PickedGrows
      <2> QED BY <2>2, <2>6, <2>7 DEF Folder
    <1>8. ASSUME NEW w \in Workers, NEW f \in Folders, ChangeImported(w, f)
          PROVE  Folder'
      <2>1. UNCHANGED <<current, stored, grant, picked>>
        BY <1>8 DEF ChangeImported
      <2>2. Scanning(current, [at |-> "change", with |-> current, video |-> f]) \in WorkType'
        BY <2>1, PickedGrows DEF Folder, WorkType, After, Scanning
      <2>3. work' \in [Workers -> WorkType']
        BY <1>8, <2>1, <2>2, WorksType DEF ChangeImported
      <2> QED BY <2>1, <2>3 DEF Folder, Picked
    <1>9. ASSUME NEW w \in Workers, Changed(w)
          PROVE  Folder'
      <2>1. UNCHANGED <<current, stored, grant, picked>>
        BY <1>9 DEF Changed
      <2>2. work[w].with \in Picked
        BY <1>9 DEF Changed, Folder, WorkType, After, Off
      <2>3. Off \in WorkType' /\ Scanning(work[w].with, Saving(work[w].with)) \in WorkType'
        BY <2>1, <2>2, PickedGrows DEF WorkType, After, Scanning, Saving
      <2>4. work' \in [Workers -> WorkType']
        BY <1>9, <2>1, <2>3, WorksType DEF Changed
      <2> QED BY <2>1, <2>4 DEF Folder, Picked
    <1> QED BY <1>1, <1>2, <1>3, <1>4, <1>5, <1>6, <1>7, <1>8, <1>9 DEF SettingsStep, WorkerStep

LEMMA SettingsFrame ==
    ASSUME Folder, UNCHANGED settings
    PROVE  Folder'
    BY DEF Folder, settings, WorkType, After, Picked

LEMMA SettingsRestarts ==
    ASSUME Folder, SettingsRestart
    PROVE  Folder'
    <1>1. /\ UNCHANGED <<stored, picked>> /\ current' = stored /\ grant' = None
          /\ work' = [w \in Workers |-> Off]
      BY DEF SettingsRestart
    <1>2. Off \in WorkType'
      BY DEF WorkType, After
    <1> QED BY <1>1, <1>2 DEF Folder, Picked

-----------------------------------------------------------------------------
(* The clips' threads.                                                       *)
LEMMA NoneIsNoFile == None \notin Versions /\ None \notin Names /\ None \notin Clips
    BY LibraryAssumption

Clips4 == Types /\ Footage /\ Publishing /\ Pictures

LEMMA GoesTo ==
    ASSUME Types, NEW t \in Tasks, NEW x \in TaskType, Goes(t, x)
    PROVE  /\ tasks' \in [Tasks -> TaskType]
           /\ \A u \in Tasks : tasks'[u] = IF u = t THEN x ELSE tasks[u]
    BY DEF Goes, Types

(* Steps that change no file, and publish nothing.                           *)
LEMMA TaskFrame ==
    ASSUME Clips4, NEW t \in Tasks, NEW x \in TaskType, Goes(t, x),
           x.at \notin {"process", "published"}, x.at = "rename" => x.name \in Names,
           UNCHANGED <<files, made, deleted, overwritten, asked, memory, disk>>,
           \A c \in inputs : c \in inputs' \/ c \in Gone \/ Holds(c),
           records' \in Listings, fix' \in FixType
    PROVE  Clips4'
    <1>1. /\ tasks' \in [Tasks -> TaskType]
          /\ \A u \in Tasks : tasks'[u] = IF u = t THEN x ELSE tasks[u]
      BY GoesTo DEF Clips4
    <1>2. Types'
      BY <1>1 DEF Clips4, Types, In
    <1>3. \A c : Holds(c)' <=> Holds(c)
      BY DEF Holds, Exists
    <1>4. Footage'
      BY <1>1, <1>3 DEF Clips4, Footage, FootageSurvives, Holds, Exists, In
    <1>5. Publishing'
      BY <1>1 DEF Clips4, Publishing, Unseen, Waits, Exists, In
    <1>6. Pictures'
      BY DEF Clips4, Pictures, Waits, Exists
    <1> QED BY <1>2, <1>4, <1>5, <1>6 DEF Clips4

(* What a thread does when it has something to do.                           *)
LEMMA TaskShapes ==
    ASSUME Types, NEW t \in Tasks
    PROVE  /\ In(t, "process") \/ In(t, "published") \/ In(t, "append") =>
                 tasks[t] \in [at : {"process", "published", "append"}, clip : Clips, name : Names]
           /\ In(t, "listing") => tasks[t] \in [at : {"listing"}, job : Jobs, loaded : Listings]
           /\ In(t, "stale") => tasks[t] \in [at : {"stale"}, job : Jobs, kept : Listings]
           /\ In(t, "trim") \/ In(t, "mix") \/ In(t, "trimmed") \/ In(t, "thumbnails") =>
                 tasks[t] \in [at : {"trim", "mix", "trimmed", "thumbnails"}, name : Names]
           /\ In(t, "delete") \/ In(t, "rename") \/ In(t, "renamed") =>
                 tasks[t] \in [at : {"delete", "rename", "renamed"}, clip : Clips, name : Names \cup {None}]
    BY DEF Types, TaskType, Idle, In

LEMMA FixShapes ==
    ASSUME Types
    PROVE  /\ fix.at \in {"checked", "next"} => fix \in [at : {"checked", "next"}, pending : SUBSET Names]
           /\ fix.at \in {"remux", "replace"} =>
                 fix \in [at : {"remux", "replace"}, pending : SUBSET Names, name : Names, original : Versions]
    BY DEF Types, FixType, FixOff

LEMMA ListedFacts ==
    ASSUME Types
    PROVE  /\ \A loaded \in Listings : Present(loaded) \in Listings
           /\ Idle \in TaskType
           /\ \A job \in Jobs, kept \in Listings : /\ Authorized(job, kept) \in TaskType
                                                   /\ Authorized(job, kept).at \in {"idle", "trim", "mix"}
           /\ \A job \in Jobs, kept \in Listings : Checks(job, kept) => fix' \in FixType
    <1>1. \A loaded \in Listings : Present(loaded) \in Listings
      BY DEF Present, Listings
    <1>2. Idle \in TaskType
      BY DEF TaskType
    <1>3. ASSUME NEW job \in Jobs, NEW kept \in Listings
          PROVE  /\ Authorized(job, kept) \in TaskType
                 /\ Authorized(job, kept).at \in {"idle", "trim", "mix"}
      <2>1. CASE job.do \in {"trim", "mix"} /\ kept[job.clip] # None
        <3>1. job.clip \in Clips
          BY <2>1 DEF Jobs
        <3>2. kept[job.clip] \in Names
          BY <2>1, <3>1 DEF Listings
        <3> QED BY <2>1, <3>2 DEF Authorized, TaskType
      <2>2. CASE ~(job.do \in {"trim", "mix"} /\ kept[job.clip] # None)
        BY <1>2, <2>2 DEF Authorized, Idle
      <2> QED BY <2>1, <2>2
    <1>4. ASSUME NEW job \in Jobs, NEW kept \in Listings, Checks(job, kept)
          PROVE  fix' \in FixType
      BY <1>4 DEF Checks, FixType, Types
    <1> QED BY <1>1, <1>2, <1>3, <1>4

LEMMA TaskSteps ==
    ASSUME Clips4, UNCHANGED <<asked, memory, disk>>, NEW t \in Tasks,
           \/ RemoveInputs(t) \/ AppendSaved(t) \/ CheckFiles(t) \/ ReplaceRecords(t) \/ NoteLength(t)
           \/ PersistDelete(t) \/ PersistRename(t) \/ DeleteEnds(t)
           \/ \E job \in Jobs : List(t, job)
           \/ \E c \in Clips : DeleteInUse(t, c)
           \/ \E c \in Clips, n \in Names : Rename(t, c, n)
    PROVE  Clips4'
    <1>1. Idle \in TaskType /\ Idle.at = "idle" /\ records \in Listings /\ fix \in FixType /\ Types
      BY DEF Clips4, Types, TaskType, Idle
    <1>2. CASE RemoveInputs(t)
      <2>1. tasks[t] \in [at : {"process", "published", "append"}, clip : Clips, name : Names]
        BY <1>1, <1>2, TaskShapes DEF RemoveInputs
      <2> DEFINE x == [tasks[t] EXCEPT !.at = "append"]
      <2>2. x \in TaskType /\ x.at = "append"
        BY <2>1 DEF TaskType
      <2>3. Goes(t, x) /\ UNCHANGED <<files, records, fix, made, deleted, overwritten>>
            /\ inputs' \in {inputs, inputs \ {tasks[t].clip}} /\ In(t, "published")
        BY <1>2 DEF RemoveInputs
      <2> HIDE DEF x
      <2>4. \A c \in inputs : c \in inputs' \/ c \in Gone \/ Holds(c)
        BY <2>3 DEF Clips4, Footage
      <2> QED BY <1>1, <2>2, <2>3, <2>4, TaskFrame
    <1>3. CASE AppendSaved(t)
      <2>1. tasks[t] \in [at : {"process", "published", "append"}, clip : Clips, name : Names]
        BY <1>1, <1>3, TaskShapes DEF AppendSaved
      <2>2. records' \in Listings
        BY <1>1, <1>3, <2>1 DEF AppendSaved, Listings
      <2> QED BY <1>1, <1>3, <2>2, TaskFrame DEF AppendSaved
    <1>4. CASE ReplaceRecords(t)
      <2>1. tasks[t].job \in Jobs /\ tasks[t].kept \in Listings
        BY <1>1, <1>4, TaskShapes DEF ReplaceRecords
      <2>2. records' \in Listings /\ fix' \in FixType
        BY <1>1, <1>4, <2>1, ListedFacts DEF ReplaceRecords
      <2>3. \E x \in TaskType : Goes(t, x) /\ x.at \in {"idle", "trim", "mix"}
        BY <1>1, <1>4, <2>1, ListedFacts DEF ReplaceRecords
      <2>4. UNCHANGED <<files, inputs, made, deleted, overwritten>>
        BY <1>4 DEF ReplaceRecords
      <2> QED BY <2>2, <2>3, <2>4, TaskFrame
    <1>5. CASE NoteLength(t)
      BY <1>1, <1>5, TaskFrame DEF NoteLength
    <1>6. CASE PersistDelete(t)
      <2>1. tasks[t] \in [at : {"delete", "rename", "renamed"}, clip : Clips, name : Names \cup {None}]
        BY <1>1, <1>6, TaskShapes DEF PersistDelete
      <2>2. records' \in Listings
        BY <1>1, <1>6, <2>1 DEF PersistDelete, Listings
      <2>3. tasks[t].name # None =>
               /\ [at |-> "thumbnails", name |-> tasks[t].name] \in TaskType
               /\ [at |-> "thumbnails", name |-> tasks[t].name].at = "thumbnails"
        BY <2>1 DEF TaskType
      <2>4. \E x \in TaskType : Goes(t, x) /\ x.at \in {"idle", "thumbnails"}
        BY <1>1, <1>6, <2>3 DEF PersistDelete
      <2>5. UNCHANGED <<files, inputs, fix, made, deleted, overwritten>>
        BY <1>6 DEF PersistDelete
      <2> QED BY <1>1, <2>2, <2>4, <2>5, TaskFrame
    <1>7. CASE PersistRename(t)
      <2>1. tasks[t] \in [at : {"delete", "rename", "renamed"}, clip : Clips, name : Names \cup {None}]
        BY <1>1, <1>7, TaskShapes DEF PersistRename
      <2>2. records' \in Listings
        BY <1>1, <1>7, <2>1 DEF PersistRename, Listings
      <2> QED BY <1>1, <1>7, <2>2, TaskFrame DEF PersistRename
    <1>8. CASE DeleteEnds(t)
      BY <1>1, <1>8, TaskFrame DEF DeleteEnds
    <1>9. ASSUME NEW job \in Jobs, List(t, job)
          PROVE  Clips4'
      <2>1. [at |-> "listing", job |-> job, loaded |-> records] \in TaskType
        BY <1>1 DEF TaskType
      <2> QED BY <1>1, <1>9, <2>1, TaskFrame DEF List
    <1>12. CASE CheckFiles(t)
      <2> DEFINE job == tasks[t].job
                 kept == Present(tasks[t].loaded)
                 x == [at |-> "stale", job |-> job, kept |-> kept]
      <2>1. job \in Jobs /\ kept \in Listings
        BY <1>1, <1>12, TaskShapes, ListedFacts DEF CheckFiles
      <2>2. \/ Goes(t, Authorized(job, kept)) /\ Checks(job, kept)
            \/ Goes(t, x) /\ UNCHANGED fix
        BY <1>12 DEF CheckFiles
      <2>3. UNCHANGED <<files, inputs, records, made, deleted, overwritten>>
        BY <1>12 DEF CheckFiles
      <2> HIDE DEF job, kept
      <2>4. x \in TaskType /\ x.at = "stale"
        BY <2>1 DEF TaskType
      <2> HIDE DEF x
      <2>5. fix' \in FixType /\ \E y \in TaskType : Goes(t, y) /\ y.at \in {"idle", "trim", "mix", "stale"}
        BY <1>1, <2>1, <2>2, <2>4, ListedFacts
      <2> QED BY <1>1, <2>3, <2>5, TaskFrame
    <1>10. ASSUME NEW c \in Clips, DeleteInUse(t, c)
           PROVE  Clips4'
      <2>1. [at |-> "delete", clip |-> c, name |-> None] \in TaskType
        BY DEF TaskType
      <2> QED BY <1>1, <1>10, <2>1, TaskFrame DEF DeleteInUse
    <1>11. ASSUME NEW c \in Clips, NEW n \in Names, Rename(t, c, n)
           PROVE  Clips4'
      <2>1. [at |-> "rename", clip |-> c, name |-> n] \in TaskType
        BY DEF TaskType
      <2> QED BY <1>1, <1>11, <2>1, TaskFrame DEF Rename
    <1> QED BY <1>2, <1>3, <1>4, <1>5, <1>6, <1>7, <1>8, <1>9, <1>10, <1>11, <1>12

(* Steps that change files: what is there after is what was there before,     *)
(* under a name of its own, or newer; or stale.                              *)
From(src) ==
    /\ \A n \in Names : Exists(n)' =>
          /\ src[n] \in Names /\ Exists(src[n])
          /\ ~files'[n].stale => /\ Of(files[src[n]], files'[n].clip)
                                 /\ files'[n].cut >= files[src[n]].cut
    /\ \A m, n \in Names : Exists(m)' /\ Exists(n)' /\ src[m] = src[n] => m = n

LEMMA FileFrame ==
    ASSUME Clips4, UNCHANGED <<asked, memory, disk, inputs, made>>, Gone \subseteq Gone',
           files' \in [Names -> Versions \cup {None}], records' \in Listings, fix' \in FixType,
           tasks' \in [Tasks -> TaskType],
           \A u \in Tasks : \/ tasks'[u] = tasks[u]
                            \/ tasks'[u].at \notin {"process", "published", "rename"},
           NEW src, From(src),
           \A c : Holds(c) => Holds(c)' \/ c \in Gone'
    PROVE  Clips4'
    <1>1. Types'
      BY DEF Clips4, Types, In
    <1>2. Footage'
      BY DEF Clips4, Footage, FootageSurvives, Holds, In
    <1>3. ASSUME NEW c, Unseen(c)
          PROVE  Unseen(c)'
      BY <1>3 DEF Unseen, From, Of, Waits
    <1>4. \A m, n \in Names :
              Exists(m)' /\ Exists(n)' /\ ~files'[m].stale /\ Of(files'[n], files'[m].clip) => m = n
      <2> SUFFICES ASSUME NEW m \in Names, NEW n \in Names, Exists(m)', Exists(n)',
                          ~files'[m].stale, Of(files'[n], files'[m].clip)
                   PROVE  m = n
        OBVIOUS
      <2>1. /\ src[m] \in Names /\ Exists(src[m]) /\ Of(files[src[m]], files'[m].clip)
            /\ src[n] \in Names /\ Exists(src[n]) /\ Of(files[src[n]], files'[n].clip)
        BY DEF From, Of
      <2>2. src[m] = src[n]
        BY <2>1 DEF Clips4, Publishing, Of
      <2> QED BY <2>2 DEF From
    <1>5. Publishing'
      BY <1>3, <1>4 DEF Clips4, Publishing, In
    <1>6. ASSUME NEW r \in Requests, Waits(r), NEW n \in Names, Exists(n)'
          PROVE  Ordered(asked[r].file, files'[n])
      <2>1. CASE ~files'[n].stale /\ files'[n].clip = asked[r].file.clip /\ ~asked[r].file.stale
        <3>1. src[n] \in Names /\ Exists(src[n]) /\ Of(files[src[n]], files'[n].clip)
              /\ files'[n].cut >= files[src[n]].cut
          BY <1>6, <2>1 DEF From
        <3>2. files[src[n]].cut >= asked[r].file.cut
          BY <1>6, <2>1, <3>1 DEF Clips4, Pictures, Ordered, Of
        <3>3. files'[n].cut \in Nat /\ files[src[n]].cut \in Nat /\ asked[r].file.cut \in Nat
          <4>1. files'[n] \in Versions /\ files[src[n]] \in Versions
            BY <1>6, <3>1 DEF Exists, Clips4, Types
          <4>2. asked[r].file \in Versions
            BY <1>6 DEF Clips4, Pictures, AskType, Waits, NoRequest
          <4> QED BY <4>1, <4>2 DEF Versions
        <3> QED BY <3>1, <3>2, <3>3 DEF Ordered
      <2>2. CASE ~(~files'[n].stale /\ files'[n].clip = asked[r].file.clip /\ ~asked[r].file.stale)
        BY <2>2 DEF Ordered
      <2> QED BY <2>1, <2>2
    <1>7. Pictures'
      BY <1>6 DEF Clips4, Pictures, Waits
    <1> QED BY <1>1, <1>2, <1>5, <1>7 DEF Clips4

LEMMA TasksGo ==
    ASSUME Types, NEW t \in Tasks, NEW x \in TaskType, Goes(t, x),
           x.at \notin {"process", "published", "rename"}
    PROVE  /\ tasks' \in [Tasks -> TaskType]
           /\ \A u \in Tasks : \/ tasks'[u] = tasks[u]
                               \/ tasks'[u].at \notin {"process", "published", "rename"}
    BY GoesTo

(* A file goes, with the footage it held.                                    *)
LEMMA FileGoes ==
    ASSUME Clips4, NEW n \in Names, Exists(n), files' = [files EXCEPT ![n] = None],
           Gone' = Gone \cup {files[n].clip}
    PROVE  /\ files' \in [Names -> Versions \cup {None}] /\ Gone \subseteq Gone'
           /\ \E src : From(src)
           /\ \A c : Holds(c) => Holds(c)' \/ c \in Gone'
    <1>1. /\ files' \in [Names -> Versions \cup {None}]
          /\ \A m \in Names : files'[m] = IF m = n THEN None ELSE files[m]
      BY DEF Clips4, Types
    <1>2. \A m \in Names : Exists(m)' => m # n /\ Exists(m) /\ files'[m] = files[m]
      BY <1>1 DEF Exists
    <1>3. From([m \in Names |-> m])
      <2>1. ASSUME NEW m \in Names, Exists(m)'
            PROVE  files'[m].cut >= files[m].cut /\ files'[m] = files[m]
        <3>1. files[m] \in Versions /\ files'[m] = files[m]
          BY <1>2, <2>1 DEF Exists, Clips4, Types
        <3> QED BY <3>1 DEF Versions
      <2> QED BY <1>2, <2>1 DEF From, Of
    <1>4. \A c : Holds(c) => Holds(c)' \/ c \in Gone'
      BY <1>1 DEF Holds, Exists
    <1> QED BY <1>1, <1>3, <1>4

LEMMA DeleteStep ==
    ASSUME Clips4, UNCHANGED <<asked, memory, disk>>, NEW t \in Tasks, NEW c \in Clips, Delete(t, c)
    PROVE  Clips4'
    <1>1. records[c] \in Names /\ Types /\ Idle \in TaskType
      BY DEF Delete, Clips4, Types, Listings, TaskType
    <1>2. CASE Exists(records[c])
      <2>1. /\ files' = [files EXCEPT ![records[c]] = None] /\ Gone' = Gone \cup {files[records[c]].clip}
            /\ Goes(t, [at |-> "delete", clip |-> c, name |-> records[c]])
            /\ UNCHANGED <<inputs, records, fix, made>>
        BY <1>2 DEF Delete
      <2>2. [at |-> "delete", clip |-> c, name |-> records[c]] \in TaskType
        BY <1>1 DEF TaskType
      <2>3. /\ tasks' \in [Tasks -> TaskType]
            /\ \A u \in Tasks : \/ tasks'[u] = tasks[u]
                                \/ tasks'[u].at \notin {"process", "published", "rename"}
        BY <1>1, <2>1, <2>2, TasksGo
      <2>4. records \in Listings /\ fix \in FixType
        BY <1>1 DEF Types
      <2>5. /\ files' \in [Names -> Versions \cup {None}] /\ Gone \subseteq Gone'
            /\ \E src : From(src)
            /\ \A d : Holds(d) => Holds(d)' \/ d \in Gone'
        BY <1>1, <1>2, <2>1, FileGoes
      <2> QED BY <2>1, <2>3, <2>4, <2>5, FileFrame
    <1>3. CASE ~Exists(records[c])
      <2>1. [at |-> "delete", clip |-> c, name |-> None] \in TaskType
        BY DEF TaskType
      <2>2. /\ Goes(t, [at |-> "delete", clip |-> c, name |-> None])
            /\ UNCHANGED <<files, deleted, overwritten, inputs, records, fix, made>>
        BY <1>3 DEF Delete
      <2>3. records \in Listings /\ fix \in FixType
        BY <1>1 DEF Types
      <2> QED BY <2>1, <2>2, <2>3, TaskFrame
    <1> QED BY <1>2, <1>3

LEMMA RemovedStep ==
    ASSUME Clips4, UNCHANGED <<asked, memory, disk>>, NEW n \in Names, FileRemoved(n)
    PROVE  Clips4'
    <1>1. /\ Exists(n) /\ files' = [files EXCEPT ![n] = None] /\ Gone' = Gone \cup {files[n].clip}
          /\ UNCHANGED <<inputs, records, tasks, fix, made>>
      BY DEF FileRemoved
    <1>2. records \in Listings /\ fix \in FixType /\ tasks \in [Tasks -> TaskType]
      BY DEF Clips4, Types
    <1>3. /\ files' \in [Names -> Versions \cup {None}] /\ Gone \subseteq Gone'
          /\ \E src : From(src)
          /\ \A d : Holds(d) => Holds(d)' \/ d \in Gone'
      BY <1>1, FileGoes
    <1> QED BY <1>1, <1>2, <1>3, FileFrame

(* A file is replaced by a version of the same clip, or of another one; a     *)
(* stale one, or one as new.                                                 *)
LEMMA FileReplaced ==
    ASSUME Clips4, NEW n \in Names, Exists(n), NEW f \in Versions, files' = [files EXCEPT ![n] = f],
           ~f.stale => Of(files[n], f.clip) /\ f.cut >= files[n].cut,
           Gone \subseteq Gone', f.clip = files[n].clip \/ files[n].clip \in Gone'
    PROVE  /\ files' \in [Names -> Versions \cup {None}]
           /\ \E src : From(src)
           /\ \A c : Holds(c) => Holds(c)' \/ c \in Gone'
    <1>1. /\ files' \in [Names -> Versions \cup {None}]
          /\ \A m \in Names : files'[m] = IF m = n THEN f ELSE files[m]
      BY DEF Clips4, Types
    <1>2. \A m \in Names : Exists(m)' <=> Exists(m)
      BY <1>1, NoneIsNoFile DEF Exists
    <1>3. From([m \in Names |-> m])
      <2>1. ASSUME NEW m \in Names, Exists(m)', m # n
            PROVE  files'[m].cut >= files[m].cut /\ files'[m] = files[m]
        <3>1. files[m] \in Versions /\ files'[m] = files[m]
          BY <1>1, <1>2, <2>1 DEF Exists, Clips4, Types
        <3> QED BY <3>1 DEF Versions
      <2> QED BY <1>1, <1>2, <2>1 DEF From, Of
    <1>4. \A c : Holds(c) => Holds(c)' \/ c \in Gone'
      BY <1>1, <1>2 DEF Holds
    <1> QED BY <1>1, <1>3, <1>4

LEMMA RewriteStep ==
    ASSUME Clips4, UNCHANGED <<asked, memory, disk>>, NEW t \in Tasks, NEW kind \in {"trim", "mix"},
           Rewrite(t, kind)
    PROVE  Clips4'
    <1>1. /\ tasks[t] \in [at : {"trim", "mix", "trimmed", "thumbnails"}, name : Names]
          /\ Types /\ Idle \in TaskType /\ Idle.at = "idle"
          /\ records \in Listings /\ fix \in FixType
      BY TaskShapes DEF Rewrite, Clips4, Types, TaskType, Idle
    <1> DEFINE n == tasks[t].name
    <1>2. n \in Names
      BY <1>1
    <1>3. [tasks[t] EXCEPT !.at = "trimmed"] \in TaskType
      BY <1>1 DEF TaskType
    <1>4. \E x \in TaskType : Goes(t, x) /\ x.at \in {"idle", "trimmed"}
      BY <1>1, <1>3 DEF Rewrite
    <1>5. UNCHANGED <<inputs, records, fix, made, deleted, overwritten>>
      BY DEF Rewrite
    <1>6. CASE Exists(n) /\ files' = [files EXCEPT ![n].cut = @ + 1]
      <2> DEFINE f == [files[n] EXCEPT !.cut = @ + 1]
      <2>1. files[n] \in Versions
        BY <1>2, <1>6 DEF Exists, Clips4, Types
      <2>2. f \in Versions /\ f.clip = files[n].clip /\ f.stale = files[n].stale /\ f.cut >= files[n].cut
        BY <2>1 DEF Versions
      <2>3. files' = [files EXCEPT ![n] = f]
        BY <1>6
      <2> HIDE DEF f, n
      <2>4. /\ files' \in [Names -> Versions \cup {None}]
            /\ \E src : From(src)
            /\ \A c : Holds(c) => Holds(c)' \/ c \in Gone'
        BY <1>2, <1>5, <1>6, <2>2, <2>3, FileReplaced DEF Of
      <2>5. /\ tasks' \in [Tasks -> TaskType]
            /\ \A u \in Tasks : \/ tasks'[u] = tasks[u]
                                \/ tasks'[u].at \notin {"process", "published", "rename"}
        BY <1>1, <1>4, TasksGo
      <2> QED BY <1>1, <1>5, <2>4, <2>5, FileFrame
    <1>7. CASE UNCHANGED files
      BY <1>1, <1>4, <1>5, <1>7, TaskFrame
    <1> QED BY <1>6, <1>7 DEF Rewrite

LEMMA MoveStep ==
    ASSUME Clips4, UNCHANGED <<asked, memory, disk>>, NEW t \in Tasks, Move(t)
    PROVE  Clips4'
    <1> DEFINE old == records[tasks[t].clip]
               new == tasks[t].name
    <1>1. /\ tasks[t] \in [at : {"delete", "rename", "renamed"}, clip : Clips, name : Names \cup {None}]
          /\ new \in Names /\ Types
          /\ records \in Listings /\ fix \in FixType
      BY TaskShapes DEF Move, Clips4, Types
    <1>2. old \in Names \cup {None}
      BY <1>1 DEF Listings
    <1>3. UNCHANGED <<inputs, records, fix, made>>
      BY DEF Move
    <1>4. /\ [tasks[t] EXCEPT !.at = "renamed"] \in TaskType
          /\ [tasks[t] EXCEPT !.at = "renamed"].at = "renamed"
      BY <1>1 DEF TaskType
    <1>5. /\ [tasks[t] EXCEPT !.at = "renamed", !.name = old] \in TaskType
          /\ [tasks[t] EXCEPT !.at = "renamed", !.name = old].at = "renamed"
      BY <1>1, <1>2 DEF TaskType
    <1>6. CASE /\ Exists(old) /\ files' = [files EXCEPT ![old] = None, ![new] = files[old]]
               /\ Gone' = IF Exists(new) THEN Gone \cup {files[new].clip} ELSE Gone
               /\ Goes(t, [tasks[t] EXCEPT !.at = "renamed"])
      <2>1. old \in Names /\ files[old] \in Versions
        BY <1>2, <1>6 DEF Exists, Clips4, Types
      <2>2. /\ tasks' \in [Tasks -> TaskType]
            /\ \A u \in Tasks : \/ tasks'[u] = tasks[u]
                                \/ tasks'[u].at \notin {"process", "published", "rename"}
        BY <1>1, <1>4, <1>6, TasksGo
      <2> HIDE DEF old, new
      <2>3. /\ files' \in [Names -> Versions \cup {None}]
            /\ \A m \in Names : files'[m] = IF m = new THEN files[old] ELSE IF m = old THEN None ELSE files[m]
        BY <1>1, <1>6, <2>1 DEF Types
      <2>4. From([m \in Names |-> IF m = new THEN old ELSE m])
        <3>1. ASSUME NEW m \in Names, Exists(m)', m # new
              PROVE  m # old /\ Exists(m) /\ files'[m] = files[m] /\ files'[m].cut >= files[m].cut
          <4>1. m # old /\ Exists(m) /\ files'[m] = files[m]
            BY <2>3, <3>1 DEF Exists
          <4>2. files[m] \in Versions
            BY <4>1 DEF Exists, Clips4, Types
          <4> QED BY <4>1, <4>2 DEF Versions
        <3>2. files'[new] = files[old] /\ files'[new].cut >= files[old].cut
          BY <1>1, <2>1, <2>3 DEF Versions
        <3> QED BY <1>6, <2>1, <3>1, <3>2 DEF From, Of
      <2>5. Gone \subseteq Gone'
        BY <1>6
      <2>6. \A c : Holds(c) => Holds(c)' \/ c \in Gone'
        <3> SUFFICES ASSUME NEW c, NEW m \in Names, Exists(m), files[m].clip = c
                     PROVE  Holds(c)' \/ c \in Gone'
          BY DEF Holds
        <3>1. CASE m = new
          BY <1>6, <3>1
        <3>2. CASE m # new /\ m = old
          <4>1. new # None /\ files'[new] # None /\ files'[new].clip = c
            BY <1>1, <2>1, <2>3, <3>2, NoneIsNoFile
          <4> QED BY <1>1, <4>1 DEF Holds, Exists
        <3>3. CASE m # new /\ m # old
          <4>1. Exists(m)' /\ files'[m].clip = c
            BY <2>3, <3>3 DEF Exists
          <4> QED BY <4>1 DEF Holds
        <3> QED BY <3>1, <3>2, <3>3
      <2> QED BY <1>1, <1>3, <2>2, <2>3, <2>4, <2>5, <2>6, FileFrame
    <1>7. CASE UNCHANGED <<files, deleted, overwritten>> /\ Goes(t, [tasks[t] EXCEPT !.at = "renamed", !.name = old])
      <2> DEFINE x == [tasks[t] EXCEPT !.at = "renamed", !.name = old]
      <2>1. x \in TaskType /\ x.at = "renamed" /\ Goes(t, x)
        BY <1>5, <1>7
      <2> HIDE DEF x
      <2> QED BY <1>1, <1>3, <1>7, <2>1, TaskFrame
    <1> QED BY <1>6, <1>7 DEF Move

-----------------------------------------------------------------------------
(* The layout repair.                                                        *)
LEMMA FixFrame ==
    ASSUME Clips4, fix' \in FixType,
           UNCHANGED <<files, inputs, records, tasks, made, deleted, overwritten, asked, memory, disk>>
    PROVE  Clips4'
    BY DEF Clips4, Types, Footage, FootageSurvives, Holds, Publishing, Unseen, Pictures, Waits, Exists, In

LEMMA NextClipType == \A left \in SUBSET Names : NextClip(left) \in FixType
    BY DEF NextClip, FixType

LEMMA RepairSteps ==
    ASSUME Clips4, UNCHANGED <<asked, memory, disk>>, Repair \/ RepairStep
    PROVE  Clips4'
    <1>1. Types
      BY DEF Clips4
    <1>2. CASE Repair
      <2>1. fix \in [at : {"checked", "next"}, pending : SUBSET Names]
        BY <1>1, <1>2, FixShapes DEF Repair
      <2>2. [fix EXCEPT !.at = "next"] \in FixType
        BY <2>1 DEF FixType
      <2> QED BY <1>2, <2>2, FixFrame DEF Repair
    <1>3. ASSUME NEW n \in Names, ReadOriginal(n)
          PROVE  Clips4'
      <2>1. fix \in [at : {"checked", "next"}, pending : SUBSET Names]
        BY <1>1, <1>3, FixShapes DEF ReadOriginal
      <2>2. NextClip(fix.pending \ {n}) \in FixType
        BY <2>1, NextClipType
      <2>3. Exists(n) => [at |-> "remux", pending |-> fix.pending \ {n}, name |-> n,
                          original |-> files[n]] \in FixType
        BY <1>1, <2>1 DEF FixType, Types, Exists
      <2>4. fix' \in FixType
        BY <1>3, <2>2, <2>3 DEF ReadOriginal
      <2> QED BY <1>3, <2>4, FixFrame DEF ReadOriginal
    <1>4. CASE Remux
      <2>1. fix \in [at : {"remux", "replace"}, pending : SUBSET Names, name : Names, original : Versions]
        BY <1>1, <1>4, FixShapes DEF Remux
      <2>2. NextClip(fix.pending) \in FixType /\ [fix EXCEPT !.at = "replace"] \in FixType
        BY <2>1, NextClipType DEF FixType
      <2> QED BY <1>4, <2>2, FixFrame DEF Remux
    <1>5. CASE ReplaceOriginal
      <2>1. fix \in [at : {"remux", "replace"}, pending : SUBSET Names, name : Names, original : Versions]
        BY <1>1, <1>5, FixShapes DEF ReplaceOriginal
      <2>2. fix' \in FixType /\ UNCHANGED <<inputs, records, tasks, made>>
        BY <1>5, <2>1, NextClipType DEF ReplaceOriginal
      <2>3. CASE UNCHANGED <<files, deleted, overwritten>>
        BY <2>2, <2>3, FixFrame
      <2>4. CASE ~UNCHANGED <<files, deleted, overwritten>>
        <3> DEFINE n == fix.name
                   f == [fix.original EXCEPT !.fixed = TRUE, !.stale = @ \/ files[n] # fix.original]
        <3>1. /\ Exists(n) /\ files' = [files EXCEPT ![n] = f]
              /\ Gone' = IF files[n].clip = fix.original.clip THEN Gone ELSE Gone \cup {files[n].clip}
          BY <1>5, <2>4 DEF ReplaceOriginal
        <3>2. n \in Names /\ fix.original \in Versions
          BY <2>1
        <3>3. f \in Versions /\ f.clip = fix.original.clip /\ f.cut = fix.original.cut
              /\ (f.stale <=> fix.original.stale \/ files[n] # fix.original)
          BY <3>2 DEF Versions
        <3>4. ~f.stale => Of(files[n], f.clip) /\ f.cut >= files[n].cut
          BY <3>2, <3>3 DEF Of, Versions
        <3>5. Gone \subseteq Gone' /\ (f.clip = files[n].clip \/ files[n].clip \in Gone')
          BY <3>1, <3>3
        <3> HIDE DEF n, f
        <3>6. /\ files' \in [Names -> Versions \cup {None}]
              /\ \E src : From(src)
              /\ \A c : Holds(c) => Holds(c)' \/ c \in Gone'
          BY <3>1, <3>2, <3>3, <3>4, <3>5, FileReplaced
        <3>7. records \in Listings /\ tasks \in [Tasks -> TaskType]
          BY <1>1 DEF Types
        <3> QED BY <2>2, <3>5, <3>6, <3>7, FileFrame
      <2> QED BY <2>3, <2>4
    <1> QED BY <1>2, <1>3, <1>4, <1>5 DEF RepairStep

-----------------------------------------------------------------------------
(* Saving.                                                                   *)
LEMMA SaveStep ==
    ASSUME Clips4, UNCHANGED <<asked, memory, disk>>,
           NEW t \in Tasks, NEW c \in Clips, NEW n \in Names, Save(t, c, n)
    PROVE  Clips4'
    <1>1. /\ c \notin made /\ made' = made \cup {c} /\ inputs' = inputs \cup {c}
          /\ UNCHANGED <<files, records, fix, deleted, overwritten>>
      BY DEF Save
    <1> DEFINE x == IF Exists(n) THEN Idle ELSE [at |-> "process", clip |-> c, name |-> n]
    <1>2. x \in TaskType /\ Goes(t, x) /\ (x.at = "idle" \/ (x.at = "process" /\ x.clip = c))
      <2>1. CASE Exists(n)
        BY <2>1 DEF Save, TaskType, Idle
      <2>2. CASE ~Exists(n)
        BY <2>2 DEF Save, TaskType
      <2> QED BY <2>1, <2>2
    <1> HIDE DEF x
    <1>3. /\ tasks' \in [Tasks -> TaskType]
          /\ \A u \in Tasks : tasks'[u] = IF u = t THEN x ELSE tasks[u]
      BY <1>2, GoesTo DEF Clips4
    <1>4. Types'
      BY <1>1, <1>2, <1>3 DEF Clips4, Types, In
    <1>5. Footage'
      BY <1>1, <1>2, <1>3 DEF Clips4, Footage, FootageSurvives, Holds, Exists, In
    <1>6. \A d : Unseen(d) => Unseen(d)'
      BY <1>1 DEF Unseen, Exists, Waits
    <1>7. Unseen(c)
      BY <1>1 DEF Clips4, Publishing
    <1>8. Publishing'
      <2>1. \A d \in Clips \ made' : Unseen(d)'
        BY <1>1, <1>6 DEF Clips4, Publishing
      <2>2. \A u \in Tasks, d \in Clips : In(u, "process")' /\ d = tasks'[u].clip => d \in made' /\ Unseen(d)'
        <3> SUFFICES ASSUME NEW u \in Tasks, NEW d \in Clips, In(u, "process")', d = tasks'[u].clip
                     PROVE  d \in made' /\ Unseen(d)'
          OBVIOUS
        <3>1. CASE u = t
          <4>1. d = c
            BY <1>2, <1>3, <3>1 DEF In
          <4> QED BY <1>1, <1>6, <1>7, <4>1
        <3>2. CASE u # t
          <4>1. tasks'[u] = tasks[u] /\ In(u, "process")
            BY <1>3, <3>2 DEF In
          <4>2. d \in made /\ Unseen(d)
            BY <4>1 DEF Clips4, Publishing
          <4> QED BY <1>1, <1>6, <4>1, <4>2
        <3> QED BY <3>1, <3>2
      <2>3. \A u, v \in Tasks : In(u, "process")' /\ In(v, "process")' /\ tasks'[u].clip = tasks'[v].clip => u = v
        BY <1>1, <1>2, <1>3 DEF Clips4, Publishing, In
      <2>4. \A k, m \in Names : Exists(k)' /\ Exists(m)' /\ ~files'[k].stale /\ Of(files'[m], files'[k].clip) => k = m
        BY <1>1 DEF Clips4, Publishing, Exists
      <2>5. \A u \in Tasks : In(u, "process")' => tasks'[u].clip \in Clips
        <3> SUFFICES ASSUME NEW u \in Tasks, In(u, "process")' PROVE tasks'[u].clip \in Clips
          OBVIOUS
        <3>1. CASE u = t
          BY <1>2, <1>3, <3>1 DEF In
        <3>2. CASE u # t
          BY <1>3, <3>2, TaskShapes DEF In, Clips4
        <3> QED BY <3>1, <3>2
      <2>6. \A u \in Tasks : In(u, "process")' => tasks[u].clip' \in made' /\ Unseen(tasks[u].clip)'
        BY <2>2, <2>5
      <2> QED BY <2>1, <2>3, <2>4, <2>6 DEF Publishing
    <1>9. Pictures'
      BY <1>1 DEF Clips4, Pictures, Waits, Exists
    <1> QED BY <1>4, <1>5, <1>8, <1>9 DEF Clips4

LEMMA PublishStep ==
    ASSUME Clips4, UNCHANGED <<asked, memory, disk>>, NEW t \in Tasks, Publish(t)
    PROVE  Clips4'
    <1>1. /\ tasks[t] \in [at : {"process", "published", "append"}, clip : Clips, name : Names]
          /\ Types /\ Idle \in TaskType /\ Idle.at = "idle" /\ In(t, "process")
          /\ records \in Listings /\ fix \in FixType
      BY TaskShapes DEF Publish, Clips4, Types, TaskType, Idle
    <1>2. UNCHANGED <<inputs, records, fix, made, deleted, overwritten>>
      BY DEF Publish
    <1>3. CASE Goes(t, Idle) /\ UNCHANGED files
      BY <1>1, <1>2, <1>3, TaskFrame
    <1>4. CASE ~(Goes(t, Idle) /\ UNCHANGED files)
      <2> DEFINE n == tasks[t].name
                 c == tasks[t].clip
                 x == [tasks[t] EXCEPT !.at = "published"]
      <2>1. ~Exists(n) /\ files' = [files EXCEPT ![n] = Fresh(c)] /\ Goes(t, x)
        BY <1>4 DEF Publish
      <2>2. n \in Names /\ c \in Clips
        BY <1>1
      <2>3. x \in TaskType /\ x.at = "published" /\ x.clip = c
        BY <1>1 DEF TaskType
      <2>4. /\ Fresh(c) \in Versions /\ Fresh(c).clip = c /\ ~Fresh(c).stale
        BY <2>2 DEF Fresh, Versions
      <2>5. c \in made /\ Unseen(c) /\ \A u \in Tasks \ {t} : In(u, "process") => tasks[u].clip # c
        BY <1>1 DEF Clips4, Publishing
      <2> HIDE DEF n, c, x
      <2>6. /\ tasks' \in [Tasks -> TaskType]
            /\ \A u \in Tasks : tasks'[u] = IF u = t THEN x ELSE tasks[u]
        BY <1>1, <2>1, <2>3, GoesTo
      <2>7. /\ files' \in [Names -> Versions \cup {None}]
            /\ \A m \in Names : files'[m] = IF m = n THEN Fresh(c) ELSE files[m]
        BY <1>1, <2>1, <2>4 DEF Types
      <2>8. \A m \in Names : files'[m] # None => m = n \/ (Exists(m) /\ files'[m] = files[m])
        BY <2>7, NoneIsNoFile DEF Exists
      <2>9. Types'
        BY <1>1, <1>2, <2>3, <2>6, <2>7 DEF Types, In
      <2>10. \A d : (Holds(d) \/ d = c) => Holds(d)'
        <3>1. ASSUME NEW m \in Names, Exists(m)
              PROVE  files'[m] # None /\ files'[m] = files[m] /\ m # None
          BY <2>1, <2>7, <3>1 DEF Exists
        <3>2. n # None /\ files'[n] # None /\ files'[n].clip = c
          BY <2>2, <2>4, <2>7, NoneIsNoFile
        <3> QED BY <2>2, <3>1, <3>2 DEF Holds, Exists
      <2>11. Footage'
        <3>1. FootageSurvives'
          BY <1>2, <2>10 DEF Clips4, Footage, FootageSurvives, Holds
        <3>2. \A u \in Tasks : In(u, "published")' => tasks[u].clip' \in Gone' \/ Holds(tasks[u].clip)'
          <4> SUFFICES ASSUME NEW u \in Tasks, In(u, "published")', NEW d, d = tasks'[u].clip
                       PROVE  d \in Gone' \/ Holds(d)'
            OBVIOUS
          <4>1. CASE u = t
            BY <2>3, <2>6, <2>10, <4>1
          <4>2. CASE u # t
            <5>1. In(u, "published") /\ d = tasks[u].clip
              BY <2>6, <4>2 DEF In
            <5>2. d \in Gone \/ Holds(d)
              BY <5>1 DEF Clips4, Footage
            <5> QED BY <1>2, <2>10, <5>2
          <4> QED BY <4>1, <4>2
        <3> QED BY <3>1, <3>2 DEF Footage
      <2>12. \A d : Unseen(d) /\ d # c => Unseen(d)'
        BY <2>4, <2>7, <2>8 DEF Unseen, Of, Exists, Waits
      <2>13. Publishing'
        <3>1. \A d \in Clips \ made' : Unseen(d)'
          BY <1>2, <2>5, <2>12 DEF Clips4, Publishing
        <3>2. \A u \in Tasks : In(u, "process")' => tasks'[u] = tasks[u] /\ u # t
          BY <2>3, <2>6 DEF In
        <3>3. \A u \in Tasks : In(u, "process")' => tasks[u].clip \in made' /\ Unseen(tasks[u].clip)'
          <4> SUFFICES ASSUME NEW u \in Tasks, In(u, "process")', NEW d, d = tasks[u].clip, d = tasks'[u].clip
                       PROVE  d \in made' /\ Unseen(d)'
            BY <3>2
          <4>1. d \in made /\ Unseen(d) /\ d # c
            BY <2>5, <3>2 DEF Clips4, Publishing, In
          <4> QED BY <1>2, <2>12, <4>1
        <3>4. \A u, v \in Tasks : In(u, "process")' /\ In(v, "process")' /\ tasks'[u].clip = tasks'[v].clip => u = v
          BY <3>2 DEF Clips4, Publishing, In
        <3>5. \A k, m \in Names : Exists(k)' /\ Exists(m)' /\ ~files'[k].stale /\ Of(files'[m], files'[k].clip) => k = m
          BY <2>4, <2>5, <2>7, <2>8 DEF Clips4, Publishing, Unseen, Of, Exists
        <3> QED BY <3>1, <3>2, <3>3, <3>4, <3>5 DEF Publishing
      <2>14. Pictures'
        <3>1. ASSUME NEW r \in Requests, Waits(r), NEW m \in Names, Exists(m)'
              PROVE  Ordered(asked[r].file, files'[m])
          BY <2>4, <2>5, <2>7, <2>8, <3>1 DEF Clips4, Pictures, Unseen, Of, Ordered, Exists
        <3> QED BY <3>1 DEF Clips4, Pictures, Waits
      <2> QED BY <2>9, <2>11, <2>13, <2>14 DEF Clips4
    <1> QED BY <1>3, <1>4

-----------------------------------------------------------------------------
(* The clips whole.                                                          *)
LEMMA ClipSteps ==
    ASSUME Clips4, UNCHANGED <<asked, memory, disk>>,
           ClipStep \/ \E n \in Names : FileRemoved(n)
    PROVE  Clips4'
    <1>1. ASSUME NEW t \in Tasks, TaskStep(t)
          PROVE  Clips4'
      BY <1>1, TaskSteps, PublishStep, RewriteStep, MoveStep DEF TaskStep
    <1>2. ASSUME NEW t \in Tasks, Command(t)
          PROVE  Clips4'
      BY <1>2, TaskSteps, SaveStep, DeleteStep DEF Command
    <1> QED BY <1>1, <1>2, RepairSteps, RemovedStep DEF ClipStep

LEMMA CrashStep ==
    ASSUME Clips4, Crash, ThumbnailsRestart
    PROVE  Clips4'
    <1>1. /\ UNCHANGED <<files, inputs, records, made, deleted, overwritten, disk>> /\ fix' = FixOff
          /\ tasks' = [t \in Tasks |-> Idle] /\ asked' = [r \in Requests |-> NoRequest]
          /\ memory' = {}
      BY DEF Crash, ThumbnailsRestart
    <1>2. \A t \in Tasks : tasks'[t].at = "idle"
      BY <1>1 DEF Idle
    <1>3. \A r \in Requests : asked'[r].at = "off"
      BY <1>1 DEF NoRequest
    <1>4. Types'
      BY <1>1, <1>2 DEF Clips4, Types, TaskType, FixType, In
    <1>5. Footage'
      BY <1>1, <1>2 DEF Clips4, Footage, FootageSurvives, Holds, Exists, In
    <1>6. Publishing'
      BY <1>1, <1>2, <1>3 DEF Clips4, Publishing, Unseen, Exists, In, Waits
    <1>7. Pictures'
      BY <1>1, <1>3 DEF Clips4, Pictures, AskType, Waits
    <1> QED BY <1>4, <1>5, <1>6, <1>7 DEF Clips4

-----------------------------------------------------------------------------
(* The requests for pictures.                                                *)
Pictured == [key : Keys, shows : Versions]
Thumbs == Pictures /\ Makers

LEMMA AskShapes ==
    ASSUME Pictures, NEW r \in Requests
    PROVE  /\ Waits(r) => asked[r] \in [at : {"url", "load", "make"}, name : Names, file : Versions]
           /\ asked[r].at \in {"made", "answered"} =>
                 asked[r] \in [at : {"made", "answered"}, name : Names, file : Versions, shows : Versions]
           /\ asked[r].at # "off" => Key(r) \in Keys
    <1>1. /\ Waits(r) => asked[r] \in [at : {"url", "load", "make"}, name : Names, file : Versions]
          /\ asked[r].at \in {"made", "answered"} =>
                asked[r] \in [at : {"made", "answered"}, name : Names, file : Versions, shows : Versions]
          /\ asked[r].at # "off" => Waits(r) \/ asked[r].at \in {"made", "answered"}
      BY DEF Pictures, AskType, NoRequest, Waits
    <1> QED BY <1>1 DEF Key, Keys

(* The files and what is saved are what they were; one request goes on.      *)
LEMMA AskFrame ==
    ASSUME Clips4, UNCHANGED library, NEW r \in Requests, NEW x \in AskType, Asks(r, x),
           x.at \in {"url", "load", "make"} =>
               \/ Waits(r) /\ x.file = asked[r].file
               \/ \E n \in Names : Exists(n) /\ x.file = files[n],
           x.at \in {"made", "answered"} => Ordered(x.file, x.shows),
           memory' \cup disk' \subseteq Pictured,
           \A p \in memory' \cup disk' : Ordered(p.key.file, p.shows)
    PROVE  Clips4'
    <1>1. /\ asked' \in [Requests -> AskType]
          /\ \A q \in Requests : asked'[q] = IF q = r THEN x ELSE asked[q]
      BY DEF Asks, Clips4, Pictures
    <1>2. Types' /\ Footage'
      BY DEF library, Clips4, Types, Footage, FootageSurvives, Holds, Exists, In
    <1>3. \A n \in Names : (Exists(n)' <=> Exists(n)) /\ files'[n] = files[n]
      BY DEF library, Exists
    <1>4. \A c : Unseen(c) => Unseen(c)'
      <2> SUFFICES ASSUME NEW c, Unseen(c), NEW q \in Requests, Waits(q)'
                   PROVE  ~Of(asked'[q].file, c)
        BY <1>3 DEF Unseen
      <2>1. CASE q = r
        BY <1>1, <2>1 DEF Unseen, Waits
      <2>2. CASE q # r
        BY <1>1, <2>2 DEF Unseen, Waits
      <2> QED BY <2>1, <2>2
    <1>5. Publishing'
      BY <1>3, <1>4 DEF library, Clips4, Publishing, In
    <1>6. ASSUME NEW q \in Requests, Waits(q)', NEW n \in Names, Exists(n)
          PROVE  Ordered(asked'[q].file, files[n])
      <2>1. CASE q # r
        BY <1>1, <1>6, <2>1 DEF Waits, Clips4, Pictures
      <2>2. CASE q = r /\ Waits(r) /\ x.file = asked[r].file
        BY <1>1, <1>6, <2>2 DEF Clips4, Pictures
      <2>3. ASSUME q = r, NEW m \in Names, Exists(m), x.file = files[m]
            PROVE  Ordered(asked'[q].file, files[n])
        <3>1. CASE n = m
          <4>1. files[m] \in Versions
            BY <2>3 DEF Exists, Clips4, Types
          <4> QED BY <1>1, <2>3, <3>1, <4>1 DEF Ordered, Versions
        <3>2. CASE n # m
          BY <1>1, <1>6, <2>3, <3>2 DEF Clips4, Publishing, Of, Ordered
        <3> QED BY <3>1, <3>2
      <2> QED BY <1>1, <1>6, <2>1, <2>2, <2>3 DEF Waits
    <1>7. ASSUME NEW q \in Requests, asked'[q].at \in {"made", "answered"}
          PROVE  Ordered(asked'[q].file, asked'[q].shows)
      BY <1>1, <1>7 DEF Clips4, Pictures
    <1>8. Pictures'
      BY <1>1, <1>3, <1>6, <1>7 DEF Pictures, Pictured
    <1> QED BY <1>2, <1>5, <1>8 DEF Clips4

(* The keys being made.                                                      *)
Making(r) == asked[r].at \in {"make", "made"}
LEMMA MakersFrame ==
    ASSUME Makers, NEW r \in Requests, NEW x, Asks(r, x), Pictures,
           x.at \notin {"make", "made"} \/ (Making(r) /\ x.name = asked[r].name /\ x.file = asked[r].file),
           \A k \in making : k \in making' \/ (Making(r) /\ k = Key(r) /\ x.at \notin {"make", "made"})
    PROVE  Makers'
    <1>1. \A q \in Requests : asked'[q] = IF q = r THEN x ELSE asked[q]
      BY DEF Asks, Pictures
    <1>2. \A q \in Requests : asked'[q].at \in {"make", "made"} => Making(q) /\ Key(q)' = Key(q)
      BY <1>1 DEF Making, Key
    <1>3. OneMaker'
      BY <1>2 DEF OneMaker, Makers, Making
    <1>4. ASSUME NEW q \in Requests, asked'[q].at \in {"make", "made"}
          PROVE  Key(q)' \in making'
      <2>1. Making(q) /\ Key(q)' = Key(q) /\ Key(q) \in making
        BY <1>2, <1>4 DEF Makers, Making
      <2>2. Making(r) /\ x.at \notin {"make", "made"} => q # r /\ Key(q) # Key(r)
        BY <1>1, <1>4, <2>1 DEF Makers, OneMaker, Making
      <2> QED BY <2>1, <2>2
    <1> QED BY <1>3, <1>4 DEF Makers

LEMMA MakersStay ==
    ASSUME Makers, UNCHANGED <<asked, making>>
    PROVE  Makers'
    BY DEF Makers, OneMaker, Key

LEMMA AskTypes ==
    /\ NoRequest \in AskType /\ NoRequest.at = "off"
    /\ \A n \in Names, f \in Versions :
          \A at \in {"url", "load", "make"} : [at |-> at, name |-> n, file |-> f] \in AskType
    /\ \A n \in Names, f \in Versions, g \in Versions :
          \A at \in {"made", "answered"} : [at |-> at, name |-> n, file |-> f, shows |-> g] \in AskType
    BY DEF AskType, NoRequest

LEMMA NewRequest ==
    ASSUME Clips4, Makers, NEW r \in Requests, NEW n \in Names, Url(r, n) \/ Prewarm(r, n)
    PROVE  Clips4' /\ Makers'
    <1>1. /\ Exists(n) /\ asked[r] = NoRequest /\ UNCHANGED <<library, memory, disk, making>>
          /\ \E at \in {"url", "load"} : Asks(r, [at |-> at, name |-> n, file |-> files[n]])
      BY DEF Url, Prewarm
    <1>2. files[n] \in Versions /\ Pictures
      BY <1>1 DEF Exists, Clips4, Types
    <1>3. PICK x \in AskType : Asks(r, x) /\ x.at \in {"url", "load"} /\ x.file = files[n]
      BY <1>1, <1>2, AskTypes
    <1>4. memory' \cup disk' \subseteq Pictured /\ \A p \in memory' \cup disk' : Ordered(p.key.file, p.shows)
      BY <1>1, <1>2 DEF Pictures, Pictured
    <1>5. Clips4'
      BY <1>1, <1>3, <1>4, AskFrame
    <1>6. Makers'
      BY <1>1, <1>2, <1>3, MakersFrame
    <1> QED BY <1>5, <1>6

(* An answer is a picture that is kept under the request's key.              *)
LEMMA AnswerStep ==
    ASSUME Clips4, Makers, NEW r \in Requests, Remembered(r) \/ (Load(r) /\ Holding(disk, Key(r)) # {})
    PROVE  Clips4' /\ Makers'
    <1>1. /\ asked[r].at = "load" /\ UNCHANGED <<library, disk, making>>
          /\ memory' \cup disk' \subseteq memory \cup disk
          /\ \E p \in memory \cup disk : p.key = Key(r) /\ Answers(r, p)
      BY DEF Remembered, Load, Holding
    <1>2. /\ Pictures /\ asked[r] \in [at : {"url", "load", "make"}, name : Names, file : Versions]
      BY <1>1, AskShapes DEF Clips4, Waits
    <1>3. PICK p \in memory \cup disk : p.key = Key(r) /\ Answers(r, p)
      BY <1>1
    <1>4. p \in Pictured /\ Ordered(asked[r].file, p.shows)
      BY <1>2, <1>3 DEF Pictures, Pictured, Key
    <1> DEFINE x == [at |-> "answered", name |-> asked[r].name, file |-> asked[r].file, shows |-> p.shows]
    <1>5. Asks(r, x) /\ x \in AskType /\ x.at = "answered" /\ Ordered(x.file, x.shows)
      BY <1>2, <1>3, <1>4, AskTypes DEF Answers, Shows, Pictured
    <1>6. memory' \cup disk' \subseteq Pictured /\ \A q \in memory' \cup disk' : Ordered(q.key.file, q.shows)
      BY <1>1, <1>2 DEF Pictures, Pictured
    <1> HIDE DEF x
    <1>7. Clips4'
      BY <1>1, <1>5, <1>6, AskFrame
    <1>8. Makers'
      BY <1>1, <1>2, <1>5, MakersFrame
    <1> QED BY <1>7, <1>8

LEMMA RequestStep ==
    ASSUME Clips4, Makers, NEW r \in Requests, Image(r) \/ Answered(r)
    PROVE  Clips4' /\ Makers'
    <1>1. /\ asked[r].at \in {"url", "answered"} /\ UNCHANGED <<library, memory, disk, making>>
          /\ \/ Asks(r, NoRequest)
             \/ asked[r].at = "url" /\ Asks(r, [asked[r] EXCEPT !.at = "load"])
      BY DEF Image, Answered
    <1>2. Pictures /\ memory' \cup disk' \subseteq Pictured /\ \A p \in memory' \cup disk' : Ordered(p.key.file, p.shows)
      BY <1>1 DEF Clips4, Pictures, Pictured
    <1>3. PICK x \in AskType : /\ Asks(r, x) /\ x.at \in {"off", "load"}
                               /\ x.at = "load" => Waits(r) /\ x.file = asked[r].file
      <2>1. CASE Asks(r, NoRequest)
        BY <2>1, AskTypes
      <2>2. CASE asked[r].at = "url" /\ Asks(r, [asked[r] EXCEPT !.at = "load"])
        <3>1. asked[r] \in [at : {"url", "load", "make"}, name : Names, file : Versions] /\ Waits(r)
          BY <1>2, <2>2, AskShapes DEF Waits
        <3>2. [asked[r] EXCEPT !.at = "load"] \in [at : {"url", "load", "make"}, name : Names, file : Versions]
          BY <3>1
        <3> QED BY <2>2, <3>1, <3>2 DEF AskType
      <2> QED BY <1>1, <2>1, <2>2
    <1>4. Clips4'
      BY <1>1, <1>2, <1>3, AskFrame
    <1>5. Makers'
      BY <1>1, <1>2, <1>3, MakersFrame
    <1> QED BY <1>4, <1>5

(* A request that finds nobody making its picture makes it.                  *)
LEMMA LoadStep ==
    ASSUME Clips4, Makers, NEW r \in Requests, Load(r), Holding(disk, Key(r)) = {}
    PROVE  Clips4' /\ Makers'
    <1> DEFINE x == [asked[r] EXCEPT !.at = "make"]
    <1>1. /\ asked[r].at = "load" /\ UNCHANGED <<library, memory, disk>>
          /\ Key(r) \notin making /\ making' = making \cup {Key(r)} /\ Asks(r, x)
      BY DEF Load
    <1>2. /\ Pictures /\ asked[r] \in [at : {"url", "load", "make"}, name : Names, file : Versions] /\ Waits(r)
      BY <1>1, AskShapes DEF Clips4, Waits
    <1>3. /\ x \in [at : {"url", "load", "make"}, name : Names, file : Versions]
          /\ x.at = "make" /\ x.name = asked[r].name /\ x.file = asked[r].file
      BY <1>2
    <1>4. memory' \cup disk' \subseteq Pictured /\ \A p \in memory' \cup disk' : Ordered(p.key.file, p.shows)
      BY <1>1, <1>2 DEF Pictures, Pictured
    <1> HIDE DEF x
    <1>5. Clips4'
      <2>1. x \in AskType
        BY <1>3 DEF AskType
      <2> QED BY <1>1, <1>2, <1>3, <1>4, <2>1, AskFrame
    <1>6. \A q \in Requests : asked'[q] = IF q = r THEN x ELSE asked[q]
      BY <1>1, <1>2 DEF Asks, Pictures
    <1>7. \A q \in Requests : /\ Key(q)' = Key(q)
                              /\ asked'[q].at \in {"make", "made"} => Key(q) \in making \/ q = r
      BY <1>3, <1>6 DEF Key, Makers
    <1>8. Makers'
      BY <1>1, <1>3, <1>6, <1>7 DEF Makers, OneMaker
    <1> QED BY <1>5, <1>8

LEMMA MakeStep ==
    ASSUME Clips4, Makers, NEW r \in Requests, Make(r)
    PROVE  Clips4' /\ Makers'
    <1>1. asked[r].at = "make" /\ UNCHANGED <<library, memory, disk>>
      BY DEF Make
    <1>2. /\ Pictures /\ asked[r] \in [at : {"url", "load", "make"}, name : Names, file : Versions] /\ Waits(r)
      BY <1>1, AskShapes DEF Clips4, Waits
    <1>3. memory' \cup disk' \subseteq Pictured /\ \A p \in memory' \cup disk' : Ordered(p.key.file, p.shows)
      BY <1>1, <1>2 DEF Pictures, Pictured
    <1>4. CASE Asks(r, NoRequest) /\ making' = making \ {Key(r)}
      <2>1. Clips4'
        BY <1>1, <1>3, <1>4, AskTypes, AskFrame
      <2>2. Makers'
        BY <1>1, <1>2, <1>4, AskTypes, MakersFrame DEF Making
      <2> QED BY <2>1, <2>2
    <1>5. CASE ~(Asks(r, NoRequest) /\ making' = making \ {Key(r)})
      <2> DEFINE n == asked[r].name
                 x == [at |-> "made", name |-> n, file |-> asked[r].file, shows |-> files[n]]
      <2>1. Exists(n) /\ Asks(r, x) /\ UNCHANGED making
        BY <1>5 DEF Make, Shows
      <2>2. n \in Names /\ files[n] \in Versions
        BY <1>2, <2>1 DEF Exists, Clips4, Types
      <2>3. Ordered(asked[r].file, files[n])
        BY <1>2, <2>1, <2>2 DEF Pictures
      <2>4. x \in AskType /\ x.at = "made" /\ x.name = asked[r].name /\ x.file = asked[r].file
            /\ Ordered(x.file, x.shows)
        BY <1>2, <2>2, <2>3, AskTypes
      <2> HIDE DEF x
      <2>5. Clips4'
        BY <1>1, <1>3, <2>1, <2>4, AskFrame
      <2>6. Makers'
        BY <1>1, <1>2, <2>1, <2>4, MakersFrame DEF Making
      <2> QED BY <2>5, <2>6
    <1> QED BY <1>4, <1>5

LEMMA KeepStep ==
    ASSUME Clips4, Makers, NEW r \in Requests, Keep(r)
    PROVE  Clips4' /\ Makers'
    <1> DEFINE p == [key |-> Key(r), shows |-> asked[r].shows]
               x == [at |-> "answered", name |-> asked[r].name, file |-> asked[r].file, shows |-> p.shows]
    <1>1. /\ asked[r].at = "made" /\ UNCHANGED library /\ Asks(r, x)
          /\ memory' \subseteq memory \cup {p} /\ disk' \subseteq disk \cup {p}
          /\ making' = making \ {Key(r)}
      BY DEF Keep, Answers, Shows
    <1>2. /\ Pictures
          /\ asked[r] \in [at : {"made", "answered"}, name : Names, file : Versions, shows : Versions]
          /\ Key(r) \in Keys
      BY <1>1, AskShapes DEF Clips4
    <1>3. Ordered(asked[r].file, asked[r].shows)
      BY <1>1, <1>2 DEF Pictures
    <1>4. p \in Pictured /\ Ordered(p.key.file, p.shows)
      BY <1>2, <1>3 DEF Pictured, Key
    <1>5. x \in AskType /\ x.at = "answered" /\ Ordered(x.file, x.shows)
      BY <1>2, <1>3, AskTypes
    <1> HIDE DEF p, x
    <1>6. memory' \cup disk' \subseteq Pictured /\ \A q \in memory' \cup disk' : Ordered(q.key.file, q.shows)
      BY <1>1, <1>2, <1>4 DEF Pictures, Pictured
    <1>7. Clips4'
      BY <1>1, <1>5, <1>6, AskFrame
    <1>8. Makers'
      BY <1>1, <1>2, <1>5, MakersFrame DEF Making
    <1> QED BY <1>7, <1>8

(* Pictures and tokens go, and that is all.                                  *)
LEMMA ForgetStep ==
    ASSUME Clips4, Makers, Forget
    PROVE  Clips4' /\ Makers'
    <1>1. UNCHANGED <<library, making, asked>> /\ memory' \subseteq memory /\ disk' \subseteq disk
      BY DEF Forget
    <1>2. Makers'
      BY <1>1, MakersStay
    <1>3. Clips4'
      BY <1>1 DEF library, Clips4, Types, Footage, FootageSurvives, Holds, Publishing, Unseen, Pictures,
                  Waits, Exists, In
    <1> QED BY <1>2, <1>3

(* A trim and a deletion of a clip take its pictures along.                  *)
LEMMA FewerPictures ==
    ASSUME Pictures, UNCHANGED <<asked, files>>, memory' \subseteq memory, disk' \subseteq disk
    PROVE  Pictures'
    BY DEF Pictures, Waits, Exists

LEMMA TrimmedStep ==
    ASSUME Clips4, Makers, NEW t \in Tasks, Trimmed(t)
    PROVE  Clips4' /\ Makers'
    BY RewriteStep, MakersStay DEF Trimmed

LEMMA DeletedStep ==
    ASSUME Clips4, Makers, NEW t \in Tasks, Deleted(t)
    PROVE  Clips4' /\ Makers'
    <1>1. /\ Goes(t, Idle) /\ UNCHANGED <<files, inputs, records, length, gate, fix, made, deleted, overwritten>>
          /\ UNCHANGED <<making, asked>> /\ memory' \subseteq memory /\ disk' \subseteq disk
      BY DEF Deleted, DeleteEnds
    <1>2. Idle \in TaskType /\ Idle.at = "idle" /\ Types
      BY DEF TaskType, Idle, Clips4
    <1>3. /\ tasks' \in [Tasks -> TaskType]
          /\ \A u \in Tasks : tasks'[u] = IF u = t THEN Idle ELSE tasks[u]
      BY <1>1, <1>2, GoesTo
    <1>4. Types' /\ Footage'
      BY <1>1, <1>2, <1>3 DEF Clips4, Types, Footage, FootageSurvives, Holds, Exists, In
    <1>5. Publishing'
      BY <1>1, <1>2, <1>3 DEF Clips4, Publishing, Unseen, Waits, Exists, In
    <1>6. Pictures'
      BY <1>1, FewerPictures DEF Clips4
    <1>7. Makers'
      BY <1>1, MakersStay
    <1> QED BY <1>4, <1>5, <1>6, <1>7 DEF Clips4

-----------------------------------------------------------------------------
LEMMA ThumbnailSteps ==
    ASSUME Clips4, Makers, ThumbnailStep
    PROVE  Clips4' /\ Makers'
    <1>1. ASSUME NEW r \in Requests, Serve(r)
          PROVE  Clips4' /\ Makers'
      BY <1>1, AnswerStep, LoadStep, RequestStep, MakeStep, KeepStep DEF Serve
    <1> QED BY <1>1, NewRequest, TrimmedStep, DeletedStep, ForgetStep DEF ThumbnailStep

LEMMA Start == Init => IInv
    <1> SUFFICES ASSUME Init PROVE IInv
      OBVIOUS
    <1> USE DEF Init, ClipInit, ThumbnailInit, SettingsInit
    <1>1. records \in Listings /\ \A c \in Clips : records[c] # None <=> c \in Earlier
      BY DEF Listings
    <1>2. \A n \in Names : \A c \in Clips : records[c] = n => Earlier # {} /\ c \in Earlier
      BY <1>1, NoneIsNoFile
    <1>3. \A c, d \in Clips : c # d /\ records[c] # None => records[c] # records[d]
      OBVIOUS
    <1>4. ASSUME NEW n \in Names, Exists(n)
          PROVE  \E c \in Clips : records[c] = n /\ files[n] = Fresh(c)
      BY <1>4 DEF Exists
    <1>5. ASSUME NEW n \in Names
          PROVE  files[n] \in Versions \cup {None}
      BY <1>4, <1>5 DEF Exists, Fresh, Versions
    <1>6. Types
      <2>1. files = [n \in Names |-> files[n]]
        OBVIOUS
      <2> QED BY <1>1, <1>5, <2>1 DEF Types, TaskType, FixType, In, Idle
    <1>7. Footage
      <2>1. ASSUME NEW c \in Earlier
            PROVE  Holds(c)
        <3>1. c \in Clips /\ records[c] \in Names
          BY <1>1, LibraryAssumption DEF Listings
        <3> DEFINE n == records[c]
        <3>2. \A d \in Clips : records[d] = n => d = c
          BY <1>3, <3>1, NoneIsNoFile
        <3>3. files[n] = Fresh(c)
          BY <3>1, <3>2
        <3>4. Fresh(c) \in Versions /\ Fresh(c).clip = c
          BY <3>1 DEF Fresh, Versions
        <3> QED BY <3>1, <3>3, <3>4, NoneIsNoFile DEF Holds, Exists
      <2> QED BY <2>1 DEF Footage, FootageSurvives, Holds, In, Idle
    <1>8. ASSUME NEW c \in Clips, c \notin Earlier
          PROVE  Unseen(c)
      <2>1. \A n \in Names : Exists(n) => ~Of(files[n], c)
        BY <1>2, <1>4, <1>8 DEF Of, Fresh
      <2> QED BY <2>1 DEF Unseen, Waits, NoRequest
    <1>9. Publishing
      <2>1. \A m, n \in Names : Exists(m) /\ Exists(n) /\ ~files[m].stale /\ Of(files[n], files[m].clip) => m = n
        <3> SUFFICES ASSUME NEW m \in Names, NEW n \in Names, Exists(m), Exists(n),
                            files[n].clip = files[m].clip
                     PROVE  m = n
          BY DEF Of
        <3>1. PICK c \in Clips : records[c] = m /\ files[m] = Fresh(c)
          BY <1>4
        <3>2. PICK d \in Clips : records[d] = n /\ files[n] = Fresh(d)
          BY <1>4
        <3> QED BY <3>1, <3>2 DEF Fresh
      <2> QED BY <1>8, <2>1 DEF Publishing, In, Idle
    <1>10. Pictures /\ Makers
      BY DEF Pictures, Makers, OneMaker, AskType, Waits, NoRequest
    <1>11. Folder
      BY DEF Folder, Picked, Defaults, WorkType, After
    <1> QED BY <1>6, <1>7, <1>9, <1>10, <1>11 DEF IInv

LEMMA Step == IInv /\ [Next]_vars => IInv'
    <1> SUFFICES ASSUME IInv, [Next]_vars PROVE IInv'
      OBVIOUS
    <1>1. Clips4 /\ Makers /\ Folder
      BY DEF IInv, Clips4
    <1>2. SUFFICES Clips4' /\ Makers' /\ Folder'
      BY DEF IInv, Clips4
    <1>3. CASE (ClipStep \/ \E n \in Names : FileRemoved(n)) /\ UNCHANGED <<thumbnails, settings>>
      BY <1>1, <1>3, ClipSteps, MakersStay, SettingsFrame DEF thumbnails
    <1>4. CASE ThumbnailStep /\ UNCHANGED settings
      BY <1>1, <1>4, ThumbnailSteps, SettingsFrame
    <1>5. CASE SettingsStep /\ UNCHANGED <<library, thumbnails>>
      <2>1. Clips4'
        BY <1>1, <1>5 DEF library, thumbnails, Clips4, Types, Footage, FootageSurvives, Holds, Publishing,
                          Unseen, Pictures, Waits, Exists, In
      <2> QED BY <1>1, <1>5, <2>1, MakersStay, SettingsSteps DEF thumbnails
    <1>6. CASE Restart
      <2>1. Makers'
        BY <1>6 DEF Restart, ThumbnailsRestart, Makers, OneMaker, NoRequest
      <2> QED BY <1>1, <1>6, <2>1, CrashStep, SettingsRestarts DEF Restart
    <1>7. CASE UNCHANGED vars
      <2>1. Clips4'
        BY <1>1, <1>7 DEF vars, library, thumbnails, Clips4, Types, Footage, FootageSurvives, Holds,
                          Publishing, Unseen, Pictures, Waits, Exists, In
      <2> QED BY <1>1, <1>7, <2>1, MakersStay, SettingsFrame DEF vars, thumbnails
    <1> QED BY <1>3, <1>4, <1>5, <1>6, <1>7 DEF Next

-----------------------------------------------------------------------------
(* A clip that is being saved is in no list yet, loaded or kept, and only one  *)
(* thread saves it; who deletes or renames has the lock, so that nothing is   *)
(* listed at the name a rename found free.                                   *)
SaveStages == {"process", "published", "append"}
LockStages == {"rename", "renamed", "delete"}
At(t, S) == tasks[t].at \in S
Known(c) ==
    \/ records[c] # None
    \/ \E t \in Tasks : \/ In(t, "listing") /\ tasks[t].loaded[c] # None
                        \/ In(t, "stale") /\ tasks[t].kept[c] # None
Saves ==
    /\ \A c \in Clips \ made : ~Known(c)
    /\ \A t \in Tasks : At(t, SaveStages) => tasks[t].clip \in made /\ ~Known(tasks[t].clip)
    /\ \A t, u \in Tasks :
          At(t, SaveStages) /\ At(u, SaveStages) /\ tasks[t].clip = tasks[u].clip => t = u
Locks ==
    /\ \A t \in Tasks : At(t, LockStages) => gate = t
    /\ \A t \in Tasks : In(t, "rename") \/ In(t, "renamed") => records[tasks[t].clip] # None
Spared == \A t \in Tasks : In(t, "rename") => ListedAt(tasks[t].name) = {}
Renaming == made \subseteq Clips /\ Saves /\ Locks /\ Spared

(* A step of one thread.                                                     *)
LEMMA RenamingFrame ==
    ASSUME Types, Renaming, NEW t \in Tasks, NEW x, Goes(t, x), made' = made,
           x.at \in SaveStages => At(t, SaveStages) /\ x.clip = tasks[t].clip,
           \A c \in Clips : Known(c)' => \/ Known(c)
                                         \/ At(t, SaveStages) /\ c = tasks[t].clip /\ x.at \notin SaveStages,
           x.at \in LockStages => gate' = t,
           x.at \in {"rename", "renamed"} => records'[x.clip] # None,
           x.at = "rename" => \E n \in Names : x.name = n /\ ListedAt(n)' = {},
           \/ gate = None \/ At(t, LockStages)
           \/ /\ gate' = gate /\ records' = records /\ x.at \notin LockStages
              /\ \A n \in Names : ListedAt(n)' \subseteq ListedAt(n)
    PROVE  Renaming'
    <1>1. \A u \in Tasks : tasks'[u] = IF u = t THEN x ELSE tasks[u]
      BY DEF Goes, Types
    <1>2. Saves'
      <2>1. \A u \in Tasks \ {t} : At(u, SaveStages)' => At(u, SaveStages) /\ tasks'[u].clip = tasks[u].clip
        BY <1>1 DEF At
      <2>2. At(t, SaveStages)' => At(t, SaveStages) /\ tasks'[t].clip = tasks[t].clip /\ x.at \in SaveStages
        BY <1>1 DEF At
      <2>3. \A c \in Clips \ made' : ~Known(c)'
        BY DEF Renaming, Saves
      <2>4. ASSUME NEW u \in Tasks, At(u, SaveStages)'
            PROVE  tasks'[u].clip \in made' /\ ~Known(tasks[u].clip)'
        <3>1. /\ At(u, SaveStages) /\ tasks'[u].clip = tasks[u].clip
              /\ tasks[u].clip \in Clips /\ tasks[u].clip \in made /\ ~Known(tasks[u].clip)
          BY <2>1, <2>2, <2>4 DEF Renaming, Saves
        <3>2. CASE u = t
          BY <2>2, <2>4, <3>1, <3>2
        <3>3. CASE u # t
          BY <3>1, <3>3 DEF Renaming, Saves
        <3> QED BY <3>2, <3>3
      <2>5. \A u, v \in Tasks :
               At(u, SaveStages)' /\ At(v, SaveStages)' /\ tasks'[u].clip = tasks'[v].clip => u = v
        BY <2>1, <2>2 DEF Renaming, Saves
      <2>6. \A u \in Tasks : At(u, SaveStages)' => tasks'[u].clip \in made' /\ ~Known(tasks[u].clip)'
        BY <2>4
      <2> QED BY <2>3, <2>5, <2>6 DEF Saves
    <1>3. \A u \in Tasks \ {t} : At(u, LockStages) => gate = u /\ gate # None /\ ~At(t, LockStages)
      BY LibraryAssumption DEF Renaming, Locks
    <1>4. \A u \in Tasks \ {t} : At(u, LockStages)' => At(u, LockStages) /\ tasks'[u] = tasks[u]
      BY <1>1 DEF At
    <1>5. \A u \in Tasks \ {t} : In(u, "rename")' \/ In(u, "renamed")' =>
                At(u, LockStages)' /\ tasks'[u] = tasks[u] /\ records' = records /\ gate' = gate
      BY <1>1, <1>3, <1>4 DEF At, In, LockStages
    <1>6. Locks'
      <2>1. \A u \in Tasks : At(u, LockStages)' => gate' = u
        BY <1>1, <1>3, <1>4 DEF At
      <2>2. ASSUME NEW u \in Tasks, In(u, "rename")' \/ In(u, "renamed")'
            PROVE  records'[tasks'[u].clip] # None
        <3>1. CASE u = t
          BY <1>1, <2>2, <3>1 DEF In
        <3>2. CASE u # t
          BY <1>5, <2>2, <3>2 DEF Renaming, Locks, In
        <3> QED BY <3>1, <3>2
      <2> QED BY <2>1, <2>2 DEF Locks
    <1>7. Spared'
      <2> SUFFICES ASSUME NEW u \in Tasks, In(u, "rename")' PROVE ListedAt(tasks[u].name)' = {}
        BY DEF Spared
      <2>1. CASE u = t
        BY <1>1, <2>1 DEF In
      <2>2. CASE u # t
        <3>1. In(u, "rename") /\ tasks'[u] = tasks[u] /\ At(u, LockStages)
          BY <1>1, <2>2 DEF In, At, LockStages
        <3>2. \A n \in Names : ListedAt(n)' \subseteq ListedAt(n)
          BY <1>3, <2>2, <3>1
        <3>3. tasks[u].name \in Names /\ ListedAt(tasks[u].name) = {}
          BY <3>1 DEF Types, Renaming, Spared
        <3> QED BY <3>1, <3>2, <3>3
      <2> QED BY <2>1, <2>2
    <1> QED BY <1>2, <1>6, <1>7 DEF Renaming

(* A thread that lists nothing adds to what is known what it records.        *)
LEMMA KnownFrame ==
    ASSUME Types, NEW t \in Tasks, NEW x, Goes(t, x), x.at \notin {"listing", "stale"},
           NEW c \in Clips, Known(c)'
    PROVE  Known(c) \/ records'[c] # None
    <1>1. \A u \in Tasks : tasks'[u] = IF u = t THEN x ELSE tasks[u]
      BY DEF Goes, Types
    <1> QED BY <1>1 DEF Known, In

(* Most steps list nothing, record nothing and replace nothing.              *)
LEMMA RenamingQuiet ==
    ASSUME Types, Renaming, NEW t \in Tasks, NEW x, Goes(t, x), made' = made, records' = records,
           x.at \notin {"listing", "stale"} \cup SaveStages \cup LockStages,
           gate' = gate, \A n \in Names : ListedAt(n)' \subseteq ListedAt(n)
    PROVE  Renaming'
    <1>1. \A c \in Clips : Known(c)' => Known(c)
      BY KnownFrame DEF Known
    <1>2. x.at \notin {"rename", "renamed"}
      BY DEF LockStages
    <1> QED BY <1>1, <1>2, RenamingFrame

LEMMA ListedSame ==
    ASSUME records' = records, files' = files
    PROVE  \A n \in Names : ListedAt(n)' \subseteq ListedAt(n)
    BY DEF ListedAt, Exists

LEMMA RenamingTask ==
    ASSUME Types, Renaming, NEW t \in Tasks,
           \/ RemoveInputs(t) \/ AppendSaved(t) \/ CheckFiles(t) \/ ReplaceRecords(t) \/ NoteLength(t)
           \/ PersistDelete(t) \/ PersistRename(t) \/ DeleteEnds(t)
           \/ \E job \in Jobs : List(t, job)
           \/ \E c \in Clips : DeleteInUse(t, c)
           \/ \E c \in Clips, n \in Names : Rename(t, c, n)
    PROVE  Renaming'
    <1>1. UNCHANGED <<made, files>>
      BY DEF RemoveInputs, AppendSaved, CheckFiles, ReplaceRecords, NoteLength, PersistDelete,
             PersistRename, DeleteEnds, List, DeleteInUse, Rename
    <1>2. Idle.at = "idle" /\ Idle.at \notin {"listing", "stale"} \cup SaveStages \cup LockStages
      BY DEF Idle, SaveStages, LockStages
    <1>3. CASE RemoveInputs(t)
      <2> DEFINE x == [tasks[t] EXCEPT !.at = "append"]
      <2>1. tasks[t] \in [at : {"process", "published", "append"}, clip : Clips, name : Names]
        BY <1>3, TaskShapes DEF RemoveInputs
      <2>2. x.at = "append" /\ x.clip = tasks[t].clip /\ At(t, SaveStages)
        BY <1>3, <2>1 DEF At, SaveStages
      <2>3. Goes(t, x) /\ UNCHANGED <<records, gate>>
        BY <1>3 DEF RemoveInputs
      <2> HIDE DEF x
      <2>4. \A c \in Clips : Known(c)' => Known(c)
        BY <2>2, <2>3, KnownFrame DEF Known
      <2>5. x.at \notin LockStages /\ x.at \notin {"rename", "renamed"}
        BY <2>2 DEF LockStages
      <2> QED BY <1>1, <2>2, <2>3, <2>4, <2>5, ListedSame, RenamingFrame
    <1>4. CASE AppendSaved(t)
      <2>1. /\ tasks[t] \in [at : {"process", "published", "append"}, clip : Clips, name : Names]
            /\ At(t, SaveStages)
        BY <1>4, TaskShapes DEF AppendSaved, At, In, SaveStages
      <2>2. Goes(t, Idle) /\ gate = None
        BY <1>4 DEF AppendSaved
      <2>3. \A c \in Clips : records'[c] = records[c] \/ c = tasks[t].clip
        BY <1>4, <2>1 DEF AppendSaved, Types, Listings
      <2>4. \A c \in Clips : Known(c)' => Known(c) \/ c = tasks[t].clip
        BY <1>2, <2>2, <2>3, KnownFrame DEF Known
      <2>5. Idle.at \notin SaveStages /\ Idle.at \notin LockStages /\ Idle.at \notin {"rename", "renamed"}
        BY <1>2 DEF LockStages
      <2> QED BY <1>1, <2>1, <2>2, <2>4, <2>5, RenamingFrame
    <1>5. CASE NoteLength(t) \/ DeleteEnds(t)
      <2>1. Goes(t, Idle) /\ UNCHANGED <<records, gate>>
        BY <1>5 DEF NoteLength, DeleteEnds
      <2> QED BY <1>1, <1>2, <2>1, ListedSame, RenamingQuiet
    <1>6. ASSUME NEW job \in Jobs, List(t, job)
          PROVE  Renaming'
      <2> DEFINE x == [at |-> "listing", job |-> job, loaded |-> records]
      <2>1. Goes(t, x) /\ UNCHANGED <<records, gate>> /\ gate = None
        BY <1>6 DEF List
      <2>2. /\ x.at \notin SaveStages /\ x.at \notin LockStages /\ x.at \notin {"rename", "renamed"}
            /\ x.at = "listing" /\ x.loaded = records
        BY DEF SaveStages, LockStages
      <2> HIDE DEF x
      <2>3. \A c \in Clips : Known(c)' => Known(c)
        <3>1. \A u \in Tasks : tasks'[u] = IF u = t THEN x ELSE tasks[u]
          BY <2>1 DEF Goes, Types
        <3> QED BY <2>1, <2>2, <3>1 DEF Known, In
      <2> QED BY <1>1, <2>1, <2>2, <2>3, RenamingFrame
    <1>7. CASE CheckFiles(t)
      <2> DEFINE job == tasks[t].job
                 kept == Present(tasks[t].loaded)
                 x == [at |-> "stale", job |-> job, kept |-> kept]
      <2>1. tasks[t].loaded \in Listings /\ job \in Jobs /\ kept \in Listings /\ In(t, "listing")
        BY <1>7, TaskShapes, ListedFacts DEF CheckFiles
      <2>2. UNCHANGED <<records, gate>> /\ (Goes(t, Authorized(job, kept)) \/ Goes(t, x))
        BY <1>7 DEF CheckFiles
      <2>3. CASE Goes(t, Authorized(job, kept))
        <3>1. Authorized(job, kept).at \in {"idle", "trim", "mix"}
          BY <2>1, ListedFacts
        <3>2. Authorized(job, kept).at \notin {"listing", "stale"} \cup SaveStages \cup LockStages
          BY <3>1 DEF SaveStages, LockStages
        <3> QED BY <1>1, <2>2, <2>3, <3>2, ListedSame, RenamingQuiet
      <2>4. CASE Goes(t, x)
        <3>1. /\ x.at \notin SaveStages /\ x.at \notin LockStages /\ x.at \notin {"rename", "renamed"}
              /\ x.at = "stale"
          BY DEF SaveStages, LockStages
        <3>2. \A c \in Clips : x.kept[c] # None => tasks[t].loaded[c] # None
          BY <2>1 DEF Present, Listings
        <3> HIDE DEF x, kept, job
        <3>3. \A c \in Clips : Known(c)' => Known(c)
          <4>1. \A u \in Tasks : tasks'[u] = IF u = t THEN x ELSE tasks[u]
            BY <2>4 DEF Goes, Types
          <4> QED BY <2>1, <2>2, <3>1, <3>2, <4>1 DEF Known, In
        <3> QED BY <1>1, <2>2, <2>4, <3>1, <3>3, ListedSame, RenamingFrame
      <2> QED BY <2>2, <2>3, <2>4
    <1>8. CASE ReplaceRecords(t)
      <2> DEFINE y == Authorized(tasks[t].job, tasks[t].kept)
      <2>1. tasks[t].job \in Jobs /\ tasks[t].kept \in Listings /\ In(t, "stale")
        BY <1>8, TaskShapes DEF ReplaceRecords
      <2>2. y.at \in {"idle", "trim", "mix"}
        BY <2>1, ListedFacts
      <2>3. /\ Goes(t, y) \/ Goes(t, Idle)
            /\ gate = None /\ records' \in {records, tasks[t].kept}
        BY <1>8 DEF ReplaceRecords
      <2> HIDE DEF y
      <2>4. PICK x : Goes(t, x) /\ x.at \in {"idle", "trim", "mix"}
        BY <1>2, <2>2, <2>3
      <2>5. /\ x.at \notin SaveStages /\ x.at \notin LockStages /\ x.at \notin {"rename", "renamed"}
            /\ x.at \notin {"listing", "stale"}
        BY <2>4 DEF SaveStages, LockStages
      <2>6. \A c \in Clips : Known(c)' => Known(c)
        BY <2>1, <2>3, <2>4, <2>5, KnownFrame DEF Known
      <2> QED BY <1>1, <2>3, <2>4, <2>5, <2>6, RenamingFrame
    <1>9. CASE PersistDelete(t)
      <2>1. /\ In(t, "delete") /\ At(t, LockStages)
            /\ records' = records \/ records' = [records EXCEPT ![tasks[t].clip] = None]
        BY <1>9 DEF PersistDelete, At, In, LockStages
      <2> DEFINE y == [at |-> "thumbnails", name |-> tasks[t].name]
      <2>2. Goes(t, Idle) \/ Goes(t, y)
        BY <1>9 DEF PersistDelete
      <2>3. y.at = "thumbnails"
        OBVIOUS
      <2> HIDE DEF y
      <2>4. PICK x : Goes(t, x) /\ x.at \in {"idle", "thumbnails"}
        BY <1>2, <2>2, <2>3
      <2>5. /\ x.at \notin SaveStages /\ x.at \notin LockStages /\ x.at \notin {"rename", "renamed"}
            /\ x.at \notin {"listing", "stale"}
        BY <2>4 DEF SaveStages, LockStages
      <2>6. \A c \in Clips : records'[c] # None => records[c] # None
        BY <2>1 DEF Types, Listings
      <2>7. \A c \in Clips : Known(c)' => Known(c)
        BY <2>4, <2>5, <2>6, KnownFrame DEF Known
      <2> QED BY <1>1, <2>1, <2>4, <2>5, <2>7, RenamingFrame
    <1>10. CASE PersistRename(t)
      <2>1. /\ In(t, "renamed") /\ At(t, LockStages) /\ Goes(t, Idle)
            /\ records' = records \/ records' = [records EXCEPT ![tasks[t].clip] = tasks[t].name]
        BY <1>10 DEF PersistRename, At, In, LockStages
      <2>2. \A c \in Clips : records'[c] # None => records[c] # None
        BY <2>1 DEF Types, Listings, Renaming, Locks
      <2>3. \A c \in Clips : Known(c)' => Known(c)
        BY <1>2, <2>1, <2>2, KnownFrame DEF Known
      <2>4. Idle.at \notin SaveStages /\ Idle.at \notin LockStages /\ Idle.at \notin {"rename", "renamed"}
        BY <1>2 DEF LockStages
      <2> QED BY <1>1, <2>1, <2>3, <2>4, RenamingFrame
    <1>11. ASSUME NEW c \in Clips, DeleteInUse(t, c)
           PROVE  Renaming'
      <2> DEFINE x == [at |-> "delete", clip |-> c, name |-> None]
      <2>1. Goes(t, x) /\ records' = records /\ gate = None /\ gate' = t
        BY <1>11 DEF DeleteInUse
      <2>2. x.at \notin SaveStages /\ x.at \notin {"rename", "renamed"} /\ x.at \notin {"listing", "stale"}
        BY DEF SaveStages
      <2> HIDE DEF x
      <2>3. \A d \in Clips : Known(d)' => Known(d)
        BY <2>1, <2>2, KnownFrame DEF Known
      <2> QED BY <1>1, <2>1, <2>2, <2>3, RenamingFrame
    <1>12. ASSUME NEW c \in Clips, NEW n \in Names, Rename(t, c, n)
           PROVE  Renaming'
      <2> DEFINE x == [at |-> "rename", clip |-> c, name |-> n]
      <2>1. Goes(t, x) /\ records' = records /\ gate = None /\ gate' = t /\ Exists(records[c]) /\ ~Exists(n)
        BY <1>12 DEF Rename
      <2>2. x.at \notin SaveStages /\ x.at \notin {"listing", "stale"} /\ x.clip = c /\ x.name = n
        BY DEF SaveStages
      <2>3. records'[c] # None /\ ListedAt(n)' = {}
        BY <1>1, <2>1 DEF Exists, ListedAt
      <2> HIDE DEF x
      <2>4. \A d \in Clips : Known(d)' => Known(d)
        BY <2>1, <2>2, KnownFrame DEF Known
      <2> QED BY <1>1, <2>1, <2>2, <2>3, <2>4, RenamingFrame
    <1> QED BY <1>3, <1>4, <1>5, <1>6, <1>7, <1>8, <1>9, <1>10, <1>11, <1>12

(* Steps of a thread that change files.                                      *)
LEMMA RenamingFiles ==
    ASSUME Types, Renaming, NEW t \in Tasks,
           Publish(t) \/ Rewrite(t, "trim") \/ Rewrite(t, "mix") \/ Move(t) \/ \E c \in Clips : Delete(t, c)
    PROVE  Renaming'
    <1>1. made' = made /\ records' = records
      BY DEF Publish, Rewrite, Move, Delete
    <1>2. Idle.at = "idle" /\ Idle.at \notin {"listing", "stale"} \cup SaveStages \cup LockStages
      BY DEF Idle, SaveStages, LockStages
    <1>3. CASE Publish(t)
      <2> DEFINE x == [tasks[t] EXCEPT !.at = "published"]
                 n == tasks[t].name
      <2>1. /\ tasks[t] \in [at : {"process", "published", "append"}, clip : Clips, name : Names]
            /\ At(t, SaveStages) /\ gate' = gate
        BY <1>3, TaskShapes DEF Publish, At, In, SaveStages
      <2>2. x.at = "published" /\ x.clip = tasks[t].clip /\ n \in Names
        BY <2>1
      <2>3. \/ Goes(t, Idle) /\ files' = files
            \/ Goes(t, x) /\ files' = [files EXCEPT ![n] = Fresh(tasks[t].clip)]
        BY <1>3 DEF Publish
      <2>4. records[tasks[t].clip] = None
        BY <2>1 DEF Renaming, Saves, Known
      <2> HIDE DEF x, n
      <2>5. CASE Goes(t, Idle) /\ files' = files
        BY <1>1, <1>2, <2>1, <2>5, ListedSame, RenamingQuiet
      <2>6. CASE Goes(t, x) /\ files' = [files EXCEPT ![n] = Fresh(tasks[t].clip)]
        <3>1. ASSUME NEW m \in Names, NEW c \in ListedAt(m)' PROVE c \in ListedAt(m)
          <4>1. c \in Clips /\ records[c] = m /\ m # None /\ files'[m].clip = c /\ Exists(m)' /\ ~files'[m].stale
            BY <1>1, NoneIsNoFile DEF ListedAt
          <4>2. CASE m = n
            <5>1. files'[m] = Fresh(tasks[t].clip)
              BY <2>6, <4>2 DEF Types
            <5>2. c = tasks[t].clip
              BY <4>1, <5>1 DEF Fresh
            <5> QED BY <2>4, <4>1, <5>2
          <4>3. CASE m # n
            BY <2>6, <4>1, <4>3 DEF Types, ListedAt, Exists
          <4> QED BY <4>2, <4>3
        <3>2. \A m \in Names : ListedAt(m)' \subseteq ListedAt(m)
          BY <3>1
        <3>3. /\ x.at \notin LockStages /\ x.at \notin {"rename", "renamed"} /\ x.at \notin {"listing", "stale"}
          BY <2>2 DEF LockStages
        <3>4. \A d \in Clips : Known(d)' => Known(d)
          BY <1>1, <2>6, <3>3, KnownFrame DEF Known
        <3> QED BY <1>1, <2>1, <2>2, <2>6, <3>2, <3>3, <3>4, RenamingFrame
      <2> QED BY <2>3, <2>5, <2>6
    <1>4. ASSUME NEW kind \in {"trim", "mix"}, Rewrite(t, kind)
          PROVE  Renaming'
      <2> DEFINE x == [tasks[t] EXCEPT !.at = "trimmed"]
      <2>1. /\ tasks[t] \in [at : {"trim", "mix", "trimmed", "thumbnails"}, name : Names]
            /\ gate' = gate
        BY <1>4, TaskShapes DEF Rewrite
      <2>2. x.at = "trimmed"
        BY <2>1
      <2>3. Goes(t, Idle) \/ Goes(t, x)
        BY <1>4 DEF Rewrite
      <2> HIDE DEF x
      <2>4. PICK y : Goes(t, y) /\ y.at \in {"idle", "trimmed"}
        BY <1>2, <2>2, <2>3
      <2>5. y.at \notin {"listing", "stale"} \cup SaveStages \cup LockStages
        BY <2>4 DEF SaveStages, LockStages
      <2>6. \A n \in Names : ListedAt(n)' \subseteq ListedAt(n)
        <3>1. CASE files' = files
          BY <1>1, <3>1, ListedSame
        <3>2. CASE Exists(tasks[t].name) /\ files' = [files EXCEPT ![tasks[t].name].cut = @ + 1]
          <4>1. files[tasks[t].name] \in Versions
            BY <2>1, <3>2 DEF Exists, Types
          <4>2. \A n \in Names : \/ files'[n] = files[n]
                                 \/ /\ Exists(n) /\ files'[n].clip = files[n].clip
                                    /\ files'[n].stale = files[n].stale
            BY <2>1, <3>2, <4>1 DEF Types, Versions
          <4> QED BY <1>1, <4>2 DEF ListedAt, Exists
        <3> QED BY <1>4, <3>1, <3>2 DEF Rewrite
      <2> QED BY <1>1, <2>1, <2>4, <2>5, <2>6, RenamingQuiet
    <1>5. CASE Move(t)
      <2>1. /\ tasks[t] \in [at : {"delete", "rename", "renamed"}, clip : Clips, name : Names \cup {None}]
            /\ In(t, "rename") /\ At(t, LockStages) /\ gate' = gate /\ gate = t
            /\ records[tasks[t].clip] # None
        BY <1>5, TaskShapes DEF Move, At, In, LockStages, Renaming, Locks
      <2> DEFINE y == [tasks[t] EXCEPT !.at = "renamed"]
                 z == [tasks[t] EXCEPT !.at = "renamed", !.name = records[tasks[t].clip]]
      <2>2. y.at = "renamed" /\ y.clip = tasks[t].clip /\ z.at = "renamed" /\ z.clip = tasks[t].clip
        BY <2>1
      <2>3. Goes(t, y) \/ Goes(t, z)
        BY <1>5 DEF Move
      <2> HIDE DEF y, z
      <2>4. PICK x : Goes(t, x) /\ x.at = "renamed" /\ x.clip = tasks[t].clip
        BY <2>2, <2>3
      <2>5. x.at \notin SaveStages /\ x.at \notin {"listing", "stale"}
        BY <2>4 DEF SaveStages
      <2>6. \A d \in Clips : Known(d)' => Known(d)
        BY <1>1, <2>4, <2>5, KnownFrame DEF Known
      <2> QED BY <1>1, <2>1, <2>4, <2>5, <2>6, RenamingFrame
    <1>6. ASSUME NEW c \in Clips, Delete(t, c)
          PROVE  Renaming'
      <2>1. gate = None /\ gate' = t
        BY <1>6 DEF Delete
      <2>2. PICK n : Goes(t, [at |-> "delete", clip |-> c, name |-> n])
        BY <1>6 DEF Delete
      <2> DEFINE x == [at |-> "delete", clip |-> c, name |-> n]
      <2>3. x.at \notin SaveStages /\ x.at \notin {"rename", "renamed"} /\ x.at \notin {"listing", "stale"}
        BY DEF SaveStages
      <2>4. Goes(t, x)
        BY <2>2
      <2> HIDE DEF x
      <2>5. \A d \in Clips : Known(d)' => Known(d)
        BY <1>1, <2>3, <2>4, KnownFrame DEF Known
      <2> QED BY <1>1, <2>1, <2>3, <2>4, <2>5, RenamingFrame
    <1> QED BY <1>3, <1>4, <1>5, <1>6

(* A new save.                                                               *)
LEMMA RenamingSave ==
    ASSUME Types, Renaming, NEW t \in Tasks, NEW c \in Clips, NEW n \in Names, Save(t, c, n)
    PROVE  Renaming'
    <1> DEFINE y == [at |-> "process", clip |-> c, name |-> n]
    <1>1. /\ c \notin made /\ made' = made \cup {c} /\ UNCHANGED <<records, files, gate>>
          /\ In(t, "idle") /\ (Goes(t, Idle) \/ Goes(t, y))
      BY DEF Save
    <1>2. PICK x : Goes(t, x) /\ x \in {Idle, y}
      BY <1>1
    <1>3. \A u \in Tasks : tasks'[u] = IF u = t THEN x ELSE tasks[u]
      BY <1>2 DEF Goes, Types
    <1>4. /\ x.at \notin LockStages /\ x.at \notin {"listing", "stale"} /\ x.at \notin {"rename", "renamed"}
          /\ x.at \in SaveStages => x.clip = c
      BY <1>2 DEF Idle, LockStages, SaveStages
    <1> HIDE DEF y
    <1>5. \A d \in Clips : Known(d)' => Known(d)
      BY <1>1, <1>2, <1>4, KnownFrame DEF Known
    <1>6. Saves'
      <2>1. \A d \in Clips \ made' : ~Known(d)'
        BY <1>1, <1>5 DEF Renaming, Saves
      <2>2. \A u \in Tasks \ {t} : /\ At(u, SaveStages)' => At(u, SaveStages)
                                   /\ tasks'[u] = tasks[u]
        BY <1>3 DEF At
      <2>3. At(t, SaveStages)' => tasks'[t].clip = c
        BY <1>3, <1>4 DEF At
      <2>4. ~Known(c)
        BY <1>1 DEF Renaming, Saves
      <2>5. \A u \in Tasks : At(u, SaveStages)' => tasks'[u].clip \in made' /\ ~Known(tasks[u].clip)'
        <3> SUFFICES ASSUME NEW u \in Tasks, At(u, SaveStages)'
                     PROVE  tasks'[u].clip \in made' /\ ~Known(tasks[u].clip)'
          OBVIOUS
        <3>1. CASE u = t
          <4>1. tasks'[u].clip = c
            BY <2>3, <3>1
          <4>2. ~Known(c)'
            BY <1>5, <2>4
          <4> QED BY <1>1, <4>1, <4>2
        <3>2. CASE u # t
          <4>1. tasks'[u].clip = tasks[u].clip /\ tasks[u].clip \in made /\ ~Known(tasks[u].clip)
            BY <2>2, <3>2 DEF Renaming, Saves
          <4> QED BY <1>1, <1>5, <4>1 DEF Renaming
        <3> QED BY <3>1, <3>2
      <2>6. ASSUME NEW u \in Tasks, NEW v \in Tasks, At(u, SaveStages)', At(v, SaveStages)',
                   tasks'[u].clip = tasks'[v].clip
            PROVE  u = v
        <3>1. \A w \in Tasks \ {t} : At(w, SaveStages)' => tasks'[w].clip # c
          BY <1>1, <2>2 DEF Renaming, Saves
        <3>2. CASE u = t \/ v = t
          BY <2>3, <2>6, <3>1, <3>2
        <3>3. CASE u # t /\ v # t
          BY <2>2, <2>6, <3>3 DEF Renaming, Saves
        <3> QED BY <3>2, <3>3
      <2> QED BY <2>1, <2>5, <2>6 DEF Saves
    <1>7. \A u \in Tasks : At(u, LockStages)' \/ In(u, "rename")' \/ In(u, "renamed")' =>
             tasks'[u] = tasks[u]
      BY <1>3, <1>4 DEF At, In
    <1>8. Locks'
      BY <1>1, <1>7 DEF Renaming, Locks, At, In
    <1>9. Spared'
      BY <1>1, <1>7 DEF Renaming, Spared, In, ListedAt, Exists
    <1> QED BY <1>1, <1>6, <1>8, <1>9 DEF Renaming

(* The steps of no thread.                                                   *)
LEMMA RenamingElse ==
    ASSUME Types, Renaming, UNCHANGED <<made, tasks, records, gate>>,
           \A n \in Names : ListedAt(n)' \subseteq ListedAt(n)
    PROVE  Renaming'
    <1>1. Saves' /\ Locks'
      BY DEF Renaming, Saves, Locks, Known, At, In
    <1>2. Spared'
      <2>1. ASSUME NEW t \in Tasks, In(t, "rename")'
            PROVE  ListedAt(tasks[t].name)' = {}
        <3>1. In(t, "rename") /\ tasks[t].name \in Names /\ ListedAt(tasks[t].name) = {}
          BY <2>1 DEF Types, Renaming, Spared, In
        <3> QED BY <3>1
      <2> QED BY <2>1 DEF Spared
    <1> QED BY <1>1, <1>2 DEF Renaming

LEMMA RenamingRepairs ==
    ASSUME Types, Renaming, Repair \/ RepairStep \/ \E n \in Names : FileRemoved(n)
    PROVE  Renaming'
    <1>1. UNCHANGED <<made, tasks, records, gate>>
      BY DEF Repair, RepairStep, Remux, ReplaceOriginal, ReadOriginal, FileRemoved
    <1>2. CASE files' = files
      BY <1>1, <1>2, ListedSame, RenamingElse
    <1>3. ASSUME NEW n \in Names, files' = [files EXCEPT ![n] = None]
          PROVE  Renaming'
      <2>1. \A m \in Names : files'[m] = IF m = n THEN None ELSE files[m]
        BY <1>3 DEF Types
      <2>2. \A m \in Names : ListedAt(m)' \subseteq ListedAt(m)
        BY <1>1, <2>1 DEF ListedAt, Exists
      <2> QED BY <1>1, <2>2, RenamingElse
    <1>4. CASE ReplaceOriginal /\ Exists(fix.name) /\ files' # files
      <2> DEFINE f == [fix.original EXCEPT !.fixed = TRUE, !.stale = @ \/ files[fix.name] # fix.original]
                 n == fix.name
      <2>1. fix \in [at : {"remux", "replace"}, pending : SUBSET Names, name : Names, original : Versions]
        BY <1>4, FixShapes DEF ReplaceOriginal
      <2>2. n \in Names /\ f.clip = fix.original.clip /\ (~f.stale => files[n] = fix.original /\ ~fix.original.stale)
        BY <2>1 DEF Versions
      <2>3. files' = [files EXCEPT ![n] = f]
        BY <1>4 DEF ReplaceOriginal
      <2> HIDE DEF f, n
      <2>4. \A m \in Names : files'[m] = IF m = n THEN f ELSE files[m]
        BY <2>2, <2>3 DEF Types
      <2>5. Exists(n)
        BY <1>4 DEF n
      <2>6. \A m \in Names : ListedAt(m)' \subseteq ListedAt(m)
        BY <1>1, <2>2, <2>4, <2>5 DEF ListedAt, Exists
      <2> QED BY <1>1, <2>6, RenamingElse
    <1> QED BY <1>2, <1>3, <1>4 DEF Repair, RepairStep, Remux, ReplaceOriginal, ReadOriginal, FileRemoved

LEMMA RenamingStarts ==
    (Init => Renaming) /\ (Types /\ Renaming /\ Crash => Renaming')
    <1>1. ASSUME Init PROVE Renaming
      <2>1. /\ made = Earlier /\ \A t \in Tasks : tasks[t].at = "idle"
            /\ \A c \in Clips : records[c] # None => c \in Earlier
        BY <1>1 DEF Init, ClipInit, Idle
      <2> QED BY <2>1, LibraryAssumption
           DEF Renaming, Saves, Locks, Spared, Known, At, In, SaveStages, LockStages
    <1>2. ASSUME Types, Renaming, Crash PROVE Renaming'
      <2>1. /\ UNCHANGED <<made, records>> /\ \A t \in Tasks : tasks'[t].at = "idle"
        BY <1>2 DEF Crash, Idle
      <2> QED BY <1>2, <2>1 DEF Renaming, Saves, Locks, Spared, Known, At, In, SaveStages, LockStages
    <1> QED BY <1>1, <1>2

LEMMA RenamingStep == Types /\ Renaming /\ [Next]_vars => Renaming'
    <1> SUFFICES ASSUME Types, Renaming, [Next]_vars PROVE Renaming'
      OBVIOUS
    <1>1. CASE ClipStep \/ \E n \in Names : FileRemoved(n)
      BY <1>1, RenamingTask, RenamingFiles, RenamingSave, RenamingRepairs
      DEF ClipStep, TaskStep, Command
    <1>2. CASE UNCHANGED library
      BY <1>2, RenamingElse, ListedSame DEF library
    <1>3. CASE ThumbnailStep
      <2>1. ASSUME NEW t \in Tasks, Trimmed(t) PROVE Renaming'
        BY <2>1, RenamingFiles DEF Trimmed
      <2>2. ASSUME NEW t \in Tasks, Deleted(t) PROVE Renaming'
        BY <2>2, RenamingTask DEF Deleted
      <2>3. CASE ~\E t \in Tasks : Trimmed(t) \/ Deleted(t)
        <3>1. UNCHANGED library
          BY <1>3, <2>3 DEF ThumbnailStep, Forget, Serve, Url, Prewarm, Image, Remembered, Load, Make, Keep,
                            Answered
        <3> QED BY <1>2, <3>1
      <2> QED BY <2>1, <2>2, <2>3
    <1>4. CASE Restart
      BY <1>4, RenamingStarts DEF Restart
    <1> QED BY <1>1, <1>2, <1>3, <1>4 DEF Next, vars

(* Only rename_saved ends a rename.                                          *)
LEMMA OnlyMoves ==
    ASSUME Types, Next, NEW t \in Tasks, In(t, "rename"), tasks'[t].at = "renamed"
    PROVE  Move(t)
    <1>1. tasks' # tasks /\ tasks' # [u \in Tasks |-> Idle]
      BY DEF In, Idle
    <1>2. \A u \in Tasks : \A x : Goes(u, x) => u = t
      BY DEF Goes, Types, In
    <1>3. PICK u \in Tasks : TaskStep(u) \/ Command(u) \/ Trimmed(u) \/ Deleted(u)
      BY <1>1 DEF Next, ClipStep, Repair, RepairStep, Remux, ReplaceOriginal, ReadOriginal, FileRemoved, Restart,
                  Crash, ThumbnailStep, Forget, Serve, Url, Prewarm, Image, Remembered, Load, Make, Keep,
                  Answered, library
    <1>4. CASE TaskStep(u) /\ ~Move(u)
      <2>1. u = t /\ ~In(u, "rename")
        BY <1>2, <1>4 DEF TaskStep, Publish, RemoveInputs, AppendSaved, CheckFiles, ReplaceRecords, NoteLength,
                          Rewrite, PersistDelete, PersistRename, In
      <2> QED BY <2>1
    <1>5. CASE Command(u)
      <2>1. u = t /\ ~In(u, "rename")
        BY <1>2, <1>5 DEF Command, Save, Rename, List, Delete, DeleteInUse, In
      <2> QED BY <2>1
    <1>6. CASE Trimmed(u) \/ Deleted(u)
      <2>1. u = t /\ ~In(u, "rename")
        BY <1>2, <1>6 DEF Trimmed, Deleted, Rewrite, DeleteEnds, In
      <2> QED BY <2>1
    <1>7. CASE Move(u)
      <2>1. u = t
        BY <1>2, <1>7 DEF Move
      <2> QED BY <1>7, <2>1
    <1> QED BY <1>3, <1>4, <1>5, <1>6, <1>7

(* What the library's files, pictures and folders may rely on.               *)
THEOREM Invariance == Spec => []IInv
    <1> QED BY Start, Step, PTL DEF Spec

(* save_processor.rs: the engine's files of a clip go only after its footage  *)
(* was published, and no failure, listing, trim or crash loses it after that. *)
(* A deletion does, and so does a rename or a repair that replaces the file of *)
(* another clip by its name, which the code allows (RenamesTouchTheirOwn is   *)
(* violated): those are the two ghosts of Gone, and nothing else is.         *)
THEOREM NoFootageLost == Spec => []FootageSurvives
    <1>1. IInv => FootageSurvives
      BY DEF IInv, Footage
    <1> QED BY Invariance, <1>1, PTL

(* clips/service.rs, rename_saved: what a rename replaces is no listed clip    *)
(* (but for a file that a repair put over another's).                        *)
THEOREM ListedClipsAreSpared == Spec => RenamesSpareTheListed
    <1>1. IInv => Types
      BY DEF IInv
    <1>2. Types /\ Renaming /\ [Next]_vars =>
            [\A t \in Tasks : Moves(t) =>
               \A n \in Names \ {records[tasks[t].clip]} : ListedAt(n) # {} => files'[n] = files[n]]_library
      <2> SUFFICES ASSUME Types, Renaming, Next, NEW t \in Tasks, Moves(t),
                          NEW n \in Names \ {records[tasks[t].clip]}, ListedAt(n) # {}
                   PROVE  files'[n] = files[n]
        BY DEF vars, library
      <2>1. Move(t)
        BY OnlyMoves DEF Moves
      <2>2. tasks[t].name # n
        BY <2>1 DEF Move, Renaming, Spared
      <2> QED BY <2>1, <2>2 DEF Move, Types
    <1> QED BY Invariance, RenamingStarts, RenamingStep, <1>1, <1>2, PTL DEF Spec, RenamesSpareTheListed

(* thumbnails.rs, load_or_make: one FFmpeg per picture.                      *)
THEOREM OneMakerAPicture == Spec => []OneMaker
    <1>1. IInv => OneMaker
      BY DEF IInv, Makers
    <1> QED BY Invariance, <1>1, PTL

(* thumbnails.rs, url: "a URL never shows an outdated picture".               *)
THEOREM NoOutdatedPicture == Spec => []NeverOutdated
    <1>1. IInv => NeverOutdated
      BY DEF IInv, Pictures, Ordered, NeverOutdated
    <1> QED BY Invariance, <1>1, PTL

(* settings/mod.rs, save_from_ui: the page picks no folder, the user does.    *)
THEOREM OnlyPickedFolders == Spec => []FoldersWerePicked
    <1>1. IInv => FoldersWerePicked
      <2> SUFFICES ASSUME IInv, NEW s \in {current, stored}
                              \cup {work[w].new : w \in {v \in Workers : work[v].at \in {"persist", "adopt"}}}
                   PROVE  s.roots \subseteq picked /\ s.folder \in picked \cup {None}
        BY DEF FoldersWerePicked
      <2>1. s \in Picked
        <3>1. \A w \in Workers : work[w].at \in {"persist", "adopt"} => work[w].new \in Picked
          BY DEF IInv, Folder, WorkType, After, Off
        <3> QED BY <3>1 DEF IInv, Folder
      <2> QED BY <2>1 DEF Picked
    <1> QED BY Invariance, <1>1, PTL
=============================================================================
