---------------------------- MODULE ClipLibrary ----------------------------
(***************************************************************************)
(* Clipture's own clips (src/src-tauri/src/clips, media/save_*.rs,          *)
(* media/layout_repair.rs, commands/{library,trim,mix,media}.rs): the files *)
(* of the save folder, the records of clips.json that list them, and the    *)
(* commands that change both, each on a thread of its own.                  *)
(*                                                                         *)
(* A file is a clip's footage, how often it was rewritten (trimmed, mixed),  *)
(* whether its layout was repaired, and whether a repair put it over a file   *)
(* it had not read; a rewrite is one step here and TrimJournal's many there. *)
(* FFmpeg's work is left out, its failure is not.                           *)
(***************************************************************************)
EXTENDS Naturals, FiniteSets

CONSTANTS
    Clips,          \* the clips the engine may save
    Earlier,        \* the clips of earlier runs, which the library lists
    Names,          \* file names of the save folder
    Tasks,          \* threads for commands
    None,
    MaxUses,        \* bound: saves, commands, pictures asked for, files deleted outside Clipture
    MaxTrouble      \* bound: failed writes, failed jobs, crashes

Versions == [clip : Clips, cut : Nat, fixed : BOOLEAN, stale : BOOLEAN]
Fresh(c) == [clip |-> c, cut |-> 0, fixed |-> FALSE, stale |-> FALSE]

ASSUME LibraryAssumption ==
    /\ Earlier \subseteq Clips /\ None \notin Clips \cup Names \cup Tasks \cup Versions
    /\ MaxUses \in Nat /\ MaxTrouble \in Nat

VARIABLES
    files,      \* what each name holds, or None
    inputs,     \* the clips whose engine files are still there
    records,    \* clips.json: the file of each clip listed, or None
    length,     \* clips.json: how often the clip was cut when its length was noted
    gate,       \* ClipRepository::gate: the task that holds it over more than a step
    tasks,      \* what each thread does
    fix,        \* ClipLayoutRepair
    made,       \* ghost: the clips the engine made
    deleted,    \* ghost: clips whose file was deleted, here or outside Clipture
    overwritten,\* ghost: clips whose file a rename or a repair of another clip replaced
    uses, trouble

library == <<files, inputs, records, length, gate, tasks, fix, made, deleted,
             overwritten>>

ghosts == <<made, deleted, overwritten>>

Idle == [at |-> "idle"]
FixOff == [at |-> "off"]

ClipInit ==
    /\ records \in {f \in [Clips -> Names \cup {None}] : \A c, d \in Clips :
          (f[c] # None <=> c \in Earlier) /\ (c # d /\ f[c] # None => f[c] # f[d])}
    /\ files = [n \in Names |-> IF \E c \in Clips : records[c] = n
                   THEN Fresh(CHOOSE c \in Clips : records[c] = n)
                   ELSE None]
    /\ made = Earlier /\ deleted = {} /\ overwritten = {}
    /\ inputs = {} /\ length = [c \in Clips |-> 0]
    /\ gate = None /\ tasks = [t \in Tasks |-> Idle] /\ fix = FixOff

Use == uses < MaxUses /\ uses' = uses + 1 /\ UNCHANGED trouble
Trouble == trouble < MaxTrouble /\ trouble' = trouble + 1 /\ UNCHANGED uses
Quiet == UNCHANGED <<uses, trouble>>

Goes(t, state) == tasks' = [tasks EXCEPT ![t] = state]
In(t, at) == tasks[t].at = at
Exists(n) == n # None /\ files[n] # None

-----------------------------------------------------------------------------
(* Saving (MediaSaveProcessor::process, persist_success).                    *)

(* The engine wrote a clip; validate and destination choose where it goes,   *)
(* and give up when the name is taken.                                       *)
Save(t, c, n) ==
    /\ In(t, "idle") /\ Use
    /\ c \notin made /\ made' = made \cup {c} /\ inputs' = inputs \cup {c}
    /\ Goes(t, IF Exists(n) THEN Idle ELSE [at |-> "process", clip |-> c, name |-> n])
    /\ UNCHANGED <<files, records, length, gate, fix, deleted, overwritten>>

(* publish_saved never replaces a file.                                      *)
(* Mutant: the engine's files go with the attempt.                           *)
PublishAndClean(t) ==
    /\ In(t, "process") /\ inputs' = inputs \ {tasks[t].clip}
    /\ \/ /\ ~Exists(tasks[t].name) /\ Quiet
          /\ files' = [files EXCEPT ![tasks[t].name] = Fresh(tasks[t].clip)]
          /\ Goes(t, [tasks[t] EXCEPT !.at = "published"])
       \/ /\ IF Exists(tasks[t].name) THEN Quiet ELSE Trouble
          /\ Goes(t, Idle) /\ UNCHANGED files
    /\ UNCHANGED <<records, length, gate, fix, ghosts>>

Publish(t) ==
    /\ In(t, "process")
    /\ \/ /\ ~Exists(tasks[t].name) /\ Quiet
          /\ files' = [files EXCEPT ![tasks[t].name] = Fresh(tasks[t].clip)]
          /\ Goes(t, [tasks[t] EXCEPT !.at = "published"])
       \/ /\ IF Exists(tasks[t].name) THEN Quiet ELSE Trouble
          /\ Goes(t, Idle) /\ UNCHANGED files
    /\ UNCHANGED <<inputs, records, length, gate, fix, ghosts>>

RemoveInputs(t) ==
    /\ In(t, "published")
    /\ \/ inputs' = inputs \ {tasks[t].clip} /\ Quiet
       \/ UNCHANGED inputs /\ Trouble
    /\ Goes(t, [tasks[t] EXCEPT !.at = "append"])
    /\ UNCHANGED <<files, records, length, gate, fix, ghosts>>

(* Mutant: clips.json is changed whoever holds the lock.                     *)
AppendUnlocked(t) ==
    /\ In(t, "append")
    /\ \/ /\ records' = [records EXCEPT ![tasks[t].clip] = tasks[t].name]
          /\ Quiet
       \/ UNCHANGED records /\ Trouble
    /\ Goes(t, Idle)
    /\ UNCHANGED <<files, inputs, length, gate, fix, ghosts>>

AppendSaved(t) ==
    /\ In(t, "append") /\ gate = None
    /\ \/ /\ records' = [records EXCEPT ![tasks[t].clip] = tasks[t].name]
          /\ Quiet
       \/ UNCHANGED records /\ Trouble
    /\ Goes(t, Idle)
    /\ UNCHANGED <<files, inputs, length, gate, fix, ghosts>>

-----------------------------------------------------------------------------
(* ClipService::list_saved: what the lock let it load, less the clips whose  *)
(* file is gone when it looks, outside the lock and for all clips in one     *)
(* step here, is written back by a second use of the lock.  Trims, mixes and  *)
(* the layout check begin with the same listing, which authorizes their path. *)
Present(loaded) == [c \in Clips |-> IF Exists(loaded[c]) THEN loaded[c] ELSE None]

Authorized(job, kept) ==
    IF job.do \in {"trim", "mix"} /\ kept[job.clip] # None
    THEN [at |-> job.do, name |-> kept[job.clip]] ELSE Idle

(* ClipLayoutRepair::check: the clips whose layout needs repair; not while a *)
(* check or a repair runs.                                                   *)
Checks(job, kept) ==
    IF job.do = "check" /\ fix.at \in {"off", "checked"}
    THEN fix' = [at |-> "checked", pending |->
            {n \in Names : Exists(n) /\ ~files[n].fixed /\ \E c \in Clips : kept[c] = n}]
    ELSE UNCHANGED fix

Jobs == [do : {"list", "check"}] \cup [do : {"trim", "mix"}, clip : Clips]
List(t, job) ==
    /\ In(t, "idle") /\ Use /\ gate = None
    /\ Goes(t, [at |-> "listing", job |-> job, loaded |-> records])
    /\ UNCHANGED <<files, inputs, records, length, gate, fix, ghosts>>

CheckFiles(t) ==
    LET job == tasks[t].job
        kept == Present(tasks[t].loaded) IN
    /\ In(t, "listing") /\ Quiet
    /\ IF kept = tasks[t].loaded
       THEN Goes(t, Authorized(job, kept)) /\ Checks(job, kept)
       ELSE Goes(t, [at |-> "stale", job |-> job, kept |-> kept]) /\ UNCHANGED fix
    /\ UNCHANGED <<files, inputs, records, length, gate, ghosts>>

ReplaceRecords(t) ==
    /\ In(t, "stale") /\ gate = None
    /\ \/ /\ records' = tasks[t].kept /\ Quiet
          /\ Goes(t, Authorized(tasks[t].job, tasks[t].kept))
          /\ Checks(tasks[t].job, tasks[t].kept)
       \/ UNCHANGED <<records, fix>> /\ Goes(t, Idle) /\ Trouble
    /\ UNCHANGED <<files, inputs, length, gate, ghosts>>

-----------------------------------------------------------------------------
(* trim_clip and mix_clip work on the path they were authorized for.         *)
Rewrite(t, kind) ==
    /\ In(t, kind)
    /\ \/ /\ Exists(tasks[t].name) /\ Quiet
          /\ files' = [files EXCEPT ![tasks[t].name].cut = @ + 1]
          /\ Goes(t, IF kind = "trim" THEN [tasks[t] EXCEPT !.at = "trimmed"] ELSE Idle)
       \/ /\ IF Exists(tasks[t].name) THEN Trouble ELSE Quiet
          /\ Goes(t, Idle) /\ UNCHANGED files
    /\ UNCHANGED <<inputs, records, length, gate, fix, ghosts>>

(* set_trimmed_duration finds the record by its path.                        *)
NoteLength(t) ==
    /\ In(t, "trimmed") /\ gate = None
    /\ \/ /\ length' = [c \in Clips |-> IF records[c] = tasks[t].name /\ Exists(records[c])
                                        THEN files[records[c]].cut ELSE length[c]]
          /\ Quiet
       \/ UNCHANGED length /\ Trouble
    /\ Goes(t, Idle)
    /\ UNCHANGED <<files, inputs, records, gate, fix, ghosts>>

-----------------------------------------------------------------------------
(* delete_saved holds the gate while it deletes the file; the record goes    *)
(* even when the file stays.                                                 *)
Delete(t, c) ==
    /\ In(t, "idle") /\ Use /\ gate = None /\ records[c] # None
    /\ gate' = t
    /\ LET n == records[c] IN
       IF Exists(n)
       THEN /\ files' = [files EXCEPT ![n] = None] /\ deleted' = deleted \cup {files[n].clip}
            /\ Goes(t, [at |-> "delete", clip |-> c, name |-> n])
       ELSE /\ UNCHANGED <<files, deleted>>
            /\ Goes(t, [at |-> "delete", clip |-> c, name |-> None])
    /\ UNCHANGED <<inputs, records, length, fix, made, overwritten>>

DeleteInUse(t, c) ==
    /\ In(t, "idle") /\ Trouble /\ gate = None /\ Exists(records[c])
    /\ gate' = t
    /\ Goes(t, [at |-> "delete", clip |-> c, name |-> None])
    /\ UNCHANGED <<files, inputs, records, length, fix, ghosts>>

PersistDelete(t) ==
    /\ In(t, "delete") /\ gate' = None
    /\ \/ /\ records' = [records EXCEPT ![tasks[t].clip] = None] /\ Quiet
          /\ Goes(t, IF tasks[t].name = None THEN Idle
                     ELSE [at |-> "thumbnails", name |-> tasks[t].name])
       \/ UNCHANGED records /\ Goes(t, Idle) /\ Trouble
    /\ UNCHANGED <<files, inputs, length, fix, ghosts>>

(* delete_thumbnails (Thumbnails).                                           *)
DeleteEnds(t) ==
    /\ In(t, "thumbnails") /\ Goes(t, Idle) /\ Quiet
    /\ UNCHANGED <<files, inputs, records, length, gate, fix, ghosts>>

(* rename_saved: unique_destination finds a free name; the file is moved to  *)
(* it, over what is there by then; the record follows if it was.             *)
Rename(t, c, n) ==
    /\ In(t, "idle") /\ Use /\ gate = None
    /\ Exists(records[c]) /\ ~Exists(n) /\ gate' = t
    /\ Goes(t, [at |-> "rename", clip |-> c, name |-> n])
    /\ UNCHANGED <<files, inputs, records, length, fix, ghosts>>

Move(t) ==
    LET old == records[tasks[t].clip]
        new == tasks[t].name IN
    /\ In(t, "rename")
    /\ \/ /\ Exists(old) /\ Quiet
          /\ files' = [files EXCEPT ![old] = None, ![new] = files[old]]
          /\ overwritten' = IF Exists(new) THEN overwritten \cup {files[new].clip} ELSE overwritten
          /\ Goes(t, [tasks[t] EXCEPT !.at = "renamed"])
       \/ /\ IF Exists(old) THEN Trouble ELSE Quiet
          /\ Goes(t, [tasks[t] EXCEPT !.at = "renamed", !.name = old])
          /\ UNCHANGED <<files, overwritten>>
    /\ UNCHANGED <<inputs, records, length, gate, fix, made, deleted>>

PersistRename(t) ==
    /\ In(t, "renamed") /\ gate' = None
    /\ \/ records' = [records EXCEPT ![tasks[t].clip] = tasks[t].name] /\ Quiet
       \/ UNCHANGED records /\ Trouble
    /\ Goes(t, Idle)
    /\ UNCHANGED <<files, inputs, length, fix, ghosts>>

-----------------------------------------------------------------------------
(* ClipLayoutRepair::repair: one clip at a time, by its path.                *)
Repair ==
    /\ fix.at = "checked" /\ fix.pending # {} /\ fix' = [fix EXCEPT !.at = "next"] /\ Quiet
    /\ UNCHANGED <<files, inputs, records, length, gate, tasks, ghosts>>

NextClip(left) == IF left = {} THEN FixOff ELSE [at |-> "next", pending |-> left]

ReadOriginal(n) ==
    /\ fix.at = "next" /\ n \in fix.pending
    /\ fix' = IF Exists(n) /\ ~files[n].fixed
              THEN [at |-> "remux", pending |-> fix.pending \ {n}, name |-> n, original |-> files[n]]
              ELSE NextClip(fix.pending \ {n})
    /\ Quiet
    /\ UNCHANGED <<files, inputs, records, length, gate, tasks, ghosts>>

(* The copy is of the file as it is now; verify compares it with the layout  *)
(* read at the start.                                                        *)
Remux ==
    /\ fix.at = "remux"
    /\ fix' = IF Exists(fix.name) /\ files[fix.name] = fix.original
              THEN [fix EXCEPT !.at = "replace"] ELSE NextClip(fix.pending)
    /\ Quiet
    /\ UNCHANGED <<files, inputs, records, length, gate, tasks, ghosts>>

ReplaceOriginal ==
    /\ fix.at = "replace" /\ fix' = NextClip(fix.pending)
    /\ \/ /\ Exists(fix.name) /\ Quiet
          /\ files' = [files EXCEPT ![fix.name] = [fix.original EXCEPT
                         !.fixed = TRUE, !.stale = @ \/ files[fix.name] # fix.original]]
          /\ overwritten' = IF files[fix.name].clip = fix.original.clip THEN overwritten
                            ELSE overwritten \cup {files[fix.name].clip}
       \/ /\ IF Exists(fix.name) THEN Trouble ELSE Quiet
          /\ UNCHANGED <<files, overwritten>>
    /\ UNCHANGED <<inputs, records, length, gate, tasks, made, deleted>>

-----------------------------------------------------------------------------
(* A file deleted or moved away outside Clipture; the end of the process.    *)
FileRemoved(n) ==
    /\ Use /\ Exists(n)
    /\ files' = [files EXCEPT ![n] = None]
    /\ deleted' = deleted \cup {files[n].clip}
    /\ UNCHANGED <<inputs, records, length, gate, tasks, fix, made, overwritten>>

Crash ==
    /\ Trouble
    /\ gate' = None /\ tasks' = [t \in Tasks |-> Idle] /\ fix' = FixOff
    /\ UNCHANGED <<files, inputs, records, length, ghosts>>

TaskStep(t) ==
    \/ Publish(t) \/ RemoveInputs(t) \/ AppendSaved(t)
    \/ CheckFiles(t) \/ ReplaceRecords(t) \/ NoteLength(t) \/ Rewrite(t, "mix")
    \/ PersistDelete(t) \/ Move(t) \/ PersistRename(t)

RepairStep == Remux \/ ReplaceOriginal \/ \E n \in Names : ReadOriginal(n)

Command(t) ==
    \/ \E c \in Clips, n \in Names : Save(t, c, n) \/ Rename(t, c, n)
    \/ \E job \in Jobs : List(t, job)
    \/ \E c \in Clips : Delete(t, c) \/ DeleteInUse(t, c)

ClipStep == (\E t \in Tasks : TaskStep(t) \/ Command(t)) \/ Repair \/ RepairStep

-----------------------------------------------------------------------------
(* The footage of a clip the engine made is in its files or in a published   *)
(* clip, wherever a save, a trim, a listing, a rename or a repair of it fails  *)
(* or the process ends: until the clip is deleted, or the rename or repair of *)
(* another clip replaces its file by name.  The two properties after it say    *)
(* what renames replace.                                                     *)
Gone == deleted \cup overwritten
FootageSurvives ==
    \A c \in made \ Gone : c \in inputs \/ \E n \in Names : Exists(n) /\ files[n].clip = c

(* The name a rename found free is only taken by clips that clips.json does   *)
(* not list there yet: the lock that rename_saved holds until the file was     *)
(* moved keeps their records out.  So what the move replaces is not the        *)
(* footage of a listed clip (but for a file that a repair put over another's).  *)
Moves(t) == In(t, "rename") /\ tasks'[t].at = "renamed"
ListedAt(n) == {c \in Clips : records[c] = n /\ Exists(n) /\ files[n].clip = c /\ ~files[n].stale}
RenamesSpareTheListed ==
    [][\A t \in Tasks : Moves(t) =>
          \A n \in Names \ {records[tasks[t].clip]} : ListedAt(n) # {} => files'[n] = files[n]]_library

(* A rename touches no file but that of the clip it was asked for.  Violated:  *)
(* a save that is published under the new name after unique_destination found *)
(* it free is replaced when the file is moved (clips/service.rs).             *)
RenamesTouchTheirOwn ==
    [][\A t \in Tasks : Moves(t) =>
          \A n \in Names : n # records[tasks[t].clip] /\ Exists(n) => files'[n] = files[n]]_library

=============================================================================
