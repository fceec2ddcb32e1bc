--------------------------- MODULE SettingsStore ---------------------------
(***************************************************************************)
(* Imported videos and the settings that name their folders                 *)
(* (src/src-tauri/src/library, settings/mod.rs, commands/library.rs,         *)
(* admin_hotkey/commands.rs): commands read the settings, work, and save     *)
(* what they read with their change.                                        *)
(*                                                                         *)
(* Of the settings there are those the host owns: the save folder, the import *)
(* folders, the administrator's hotkey.  Each folder has one video.  Titles   *)
(* of imported videos are saved with the rest and are left out.             *)
(***************************************************************************)
EXTENDS ClipLibrary

CONSTANTS Folders, Workers     \* Workers: threads for these commands

VARIABLES
    current, stored,    \* SettingsStore: the settings in memory and on disk
    grant,              \* granted_save_folder
    present,            \* the folders whose video is there
    index,              \* ImportedIndex
    work,               \* what each thread does
    picked              \* ghost: the folders picked in the native picker

settings == <<current, stored, grant, present, index, work, picked>>

Defaults == [roots |-> {}, folder |-> None, hotkey |-> FALSE]
NoIndex == [roots |-> {}, seen |-> {}]
Off == [at |-> "off"]

SettingsInit ==
    /\ current = Defaults /\ stored = Defaults /\ grant = None
    /\ present = Folders /\ index = NoIndex
    /\ work = [w \in Workers |-> Off]
    /\ picked = {}

Works(w, state) == work' = [work EXCEPT ![w] = state]

-----------------------------------------------------------------------------
(* SettingsStore::save: the file, then the memory, under no common lock.     *)
Saving(new) == [at |-> "persist", new |-> new]

Persist(w) ==
    /\ work[w].at = "persist"
    /\ \/ stored' = work[w].new /\ Works(w, [work[w] EXCEPT !.at = "adopt"]) /\ Quiet
       \/ UNCHANGED stored /\ Works(w, Off) /\ Trouble
    /\ UNCHANGED <<current, grant, present, index, picked>>

Adopt(w) ==
    /\ work[w].at = "adopt" /\ Quiet
    /\ current' = work[w].new /\ Works(w, Off)
    /\ UNCHANGED <<stored, grant, present, index, picked>>

(* save_from_ui: what the page sends of the host's settings is replaced by   *)
(* what is current; of the save folder, unless the picker returned it.       *)
(* Mutant: the page's folder is taken.                                       *)
SaveFromUiUnchecked(w, page) ==
    /\ work[w] = Off /\ Use
    /\ Works(w, Saving([current EXCEPT !.folder = page.folder]))
    /\ grant' = IF page.folder = current.folder THEN grant ELSE None
    /\ UNCHANGED <<current, stored, present, index, picked>>

SaveFromUi(w, page) ==
    /\ work[w] = Off /\ Use
    /\ LET asks == page.folder # current.folder IN
       /\ Works(w, Saving([current EXCEPT !.folder =
             IF asks /\ grant = page.folder THEN page.folder ELSE @]))
       /\ grant' = IF asks THEN None ELSE grant
    /\ UNCHANGED <<current, stored, present, index, picked>>

PickSaveFolder(f) ==
    /\ Use /\ grant' = f /\ picked' = picked \cup {f}
    /\ UNCHANGED <<current, stored, present, index, work>>

(* set_enabled, after Windows' prompt.                                       *)
SetHotkey(w, on) ==
    /\ work[w] = Off /\ Use
    /\ Works(w, Saving([current EXCEPT !.hotkey = on]))
    /\ UNCHANGED <<current, stored, grant, present, index, picked>>

-----------------------------------------------------------------------------
(* refresh_imported: a scan, and later the index.                            *)
Scan(w) ==
    /\ work[w].at = "scan" /\ Quiet
    /\ Works(w, [at |-> "index", with |-> work[w].with, next |-> work[w].next,
                 seen |-> work[w].with.roots \cap present])
    /\ UNCHANGED <<current, stored, grant, present, index, picked>>

Refresh(w) ==
    /\ work[w].at = "index" /\ Quiet
    /\ index' = [roots |-> work[w].with.roots, seen |-> work[w].seen]
    /\ Works(w, work[w].next)
    /\ UNCHANGED <<current, stored, grant, present, picked>>

Scanning(with, next) == [at |-> "scan", with |-> with, next |-> next]

(* list_refreshed scans when the folders are not those of the index.         *)
ListImported(w) ==
    /\ work[w] = Off /\ Use
    /\ index.roots # current.roots /\ Works(w, Scanning(current, Off))
    /\ UNCHANGED <<current, stored, grant, present, index, picked>>

(* import_video_folders: the settings are read before the picker opens.      *)
Import(w) ==
    /\ work[w] = Off /\ Use
    /\ Works(w, [at |-> "picker", with |-> current])
    /\ UNCHANGED <<current, stored, grant, present, index, picked>>

ImportPicked(w, f) ==
    LET with == work[w].with
        new == [with EXCEPT !.roots = @ \cup {f}] IN
    /\ work[w].at = "picker" /\ Quiet
    /\ picked' = picked \cup {f}
    /\ Works(w, IF f \in with.roots THEN Off ELSE Scanning(new, Saving(new)))
    /\ UNCHANGED <<current, stored, grant, present, index>>

(* delete_imported and rename_imported: a scan first, of which only an       *)
(* indexed video is touched; a scan after, and the settings are saved.       *)
ChangeImported(w, f) ==
    /\ work[w] = Off /\ Use
    /\ Works(w, Scanning(current, [at |-> "change", with |-> current, video |-> f]))
    /\ UNCHANGED <<current, stored, grant, present, index, picked>>

Changed(w) ==
    LET f == work[w].video
        with == work[w].with IN
    /\ work[w].at = "change"
    /\ \/ /\ f \in with.roots \cap present /\ Quiet
          /\ present' \in {present, present \ {f}}
          /\ Works(w, Scanning(with, Saving(with)))
       \/ /\ IF f \in with.roots \cap present THEN Trouble ELSE Quiet
          /\ Works(w, Off) /\ UNCHANGED present
    /\ UNCHANGED <<current, stored, grant, index, picked>>

SettingsRestart ==
    /\ current' = stored /\ grant' = None /\ index' = NoIndex
    /\ work' = [w \in Workers |-> Off]
    /\ UNCHANGED <<stored, present, picked>>

WorkerStep(w) ==
    \/ Persist(w) \/ Adopt(w) \/ Scan(w) \/ Refresh(w)
    \/ Changed(w) \/ \E f \in Folders : ImportPicked(w, f)

SettingsStep ==
    \/ \E f \in Folders : PickSaveFolder(f)
    \/ \E w \in Workers :
        \/ WorkerStep(w) \/ Import(w) \/ ListImported(w)
        \/ \E page \in [folder : Folders \cup {None}] : SaveFromUi(w, page)
        \/ \E on \in BOOLEAN : SetHotkey(w, on)
        \/ \E f \in Folders : ChangeImported(w, f)

-----------------------------------------------------------------------------
(* The folders the library reads and deletes in, and the one clips are saved *)
(* to, are ones the user picked, whatever the page sends and however saves    *)
(* overlap: in memory, on disk, and in what is still to be saved.            *)
FoldersWerePicked ==
    \A s \in {current, stored} \cup {work[w].new : w \in {v \in Workers : work[v].at \in {"persist", "adopt"}}} :
        s.roots \subseteq picked /\ s.folder \in picked \cup {None}
=============================================================================
