----------------------------- MODULE Thumbnails -----------------------------
(***************************************************************************)
(* The clips' thumbnails (src/src-tauri/src/media/thumbnails.rs): URLs for  *)
(* versions of clips, and pictures made once per version, in memory and on  *)
(* disk.                                                                   *)
(*                                                                         *)
(* A signature is the file it was taken of; a token is its path and         *)
(* signature; a picture is the file it shows.  Limits only drop tokens and   *)
(* pictures, which Forget does at any time.                                 *)
(***************************************************************************)
EXTENDS ClipLibrary

CONSTANT Requests   \* requests of the window for a clip's picture

VARIABLES
    tokens,     \* the URL handed out for each name: the file it was made for, or None
    memory,     \* pictures kept in memory
    disk,       \* thumbnails/
    making,     \* keys being made
    asked       \* what each request does

thumbnails == <<tokens, memory, disk, making, asked>>

NoRequest == [at |-> "off"]
Key(r) == [name |-> asked[r].name, file |-> asked[r].file]

ThumbnailInit ==
    /\ tokens = [n \in Names |-> None] /\ memory = {} /\ disk = {}
    /\ making = {} /\ asked = [r \in Requests |-> NoRequest]

Asks(r, state) == asked' = [asked EXCEPT ![r] = state]
Holding(cache, key) == {p \in cache : p.key = key}

-----------------------------------------------------------------------------
(* url: one token per clip and version.                                      *)
Url(r, n) ==
    /\ asked[r] = NoRequest /\ Use
    /\ Exists(n) /\ \E c \in Clips : records[c] = n
    /\ tokens' = [tokens EXCEPT ![n] = files[n]]
    /\ Asks(r, [at |-> "url", name |-> n, file |-> files[n]])
    /\ UNCHANGED <<library, memory, disk, making>>

(* image: a token that was replaced, or of a file that changed, is refused.  *)
Image(r) ==
    /\ asked[r].at = "url" /\ Quiet
    /\ Asks(r, IF tokens[asked[r].name] = asked[r].file /\ files[asked[r].name] = asked[r].file
               THEN [asked[r] EXCEPT !.at = "load"] ELSE NoRequest)
    /\ UNCHANGED <<library, tokens, memory, disk, making>>

(* prewarm, after a save: no token.                                          *)
Prewarm(r, n) ==
    /\ asked[r] = NoRequest /\ Use
    /\ Exists(n) /\ \E c \in Clips : records[c] = n
    /\ Asks(r, [at |-> "load", name |-> n, file |-> files[n]])
    /\ UNCHANGED <<library, tokens, memory, disk, making>>

(* load_or_make: from memory; from disk, or made, by one request at a time.  *)
Shows(at, r, file) == [at |-> at, name |-> asked[r].name, file |-> asked[r].file, shows |-> file]
Answers(r, p) == Asks(r, Shows("answered", r, p.shows))

(* Mutant: any picture of the clip will do.                                  *)
RememberedOfClip(r) ==
    /\ asked[r].at = "load" /\ Quiet
    /\ \E p \in memory : p.key.name = asked[r].name /\ Answers(r, p)
    /\ UNCHANGED <<library, tokens, memory, disk, making>>

Remembered(r) ==
    /\ asked[r].at = "load" /\ Quiet
    /\ \E p \in Holding(memory, Key(r)) : Answers(r, p)
    /\ UNCHANGED <<library, tokens, memory, disk, making>>

(* Mutant: a picture being made is made again.                               *)
LoadWithoutWaiting(r) ==
    /\ asked[r].at = "load" /\ Quiet
    /\ Holding(memory, Key(r)) = {}
    /\ IF Holding(disk, Key(r)) # {}
       THEN /\ \E p \in Holding(disk, Key(r)) : Answers(r, p)
            /\ memory' = memory \cup Holding(disk, Key(r)) /\ UNCHANGED making
       ELSE making' = making \cup {Key(r)} /\ Asks(r, [asked[r] EXCEPT !.at = "make"]) /\ UNCHANGED memory
    /\ UNCHANGED <<library, tokens, disk>>

Load(r) ==
    /\ asked[r].at = "load" /\ Quiet
    /\ Holding(memory, Key(r)) = {} /\ Key(r) \notin making
    /\ IF Holding(disk, Key(r)) # {}
       THEN /\ \E p \in Holding(disk, Key(r)) : Answers(r, p)
            /\ memory' = memory \cup Holding(disk, Key(r)) /\ UNCHANGED making
       ELSE making' = making \cup {Key(r)} /\ Asks(r, [asked[r] EXCEPT !.at = "make"]) /\ UNCHANGED memory
    /\ UNCHANGED <<library, tokens, disk>>

(* FFmpeg reads whatever is at the path now, and may fail.                   *)
(* Mutant: a failed maker keeps its key.                                     *)
MakeAndGiveUp(r) ==
    /\ asked[r].at = "make"
    /\ \/ /\ Exists(asked[r].name) /\ Quiet /\ UNCHANGED making
          /\ Asks(r, Shows("made", r, files[asked[r].name]))
       \/ /\ IF Exists(asked[r].name) THEN Trouble ELSE Quiet
          /\ Asks(r, NoRequest) /\ UNCHANGED making
    /\ UNCHANGED <<library, tokens, memory, disk>>

Make(r) ==
    /\ asked[r].at = "make"
    /\ \/ /\ Exists(asked[r].name) /\ Quiet /\ UNCHANGED making
          /\ Asks(r, Shows("made", r, files[asked[r].name]))
       \/ /\ IF Exists(asked[r].name) THEN Trouble ELSE Quiet
          /\ Asks(r, NoRequest) /\ making' = making \ {Key(r)}
    /\ UNCHANGED <<library, tokens, memory, disk>>

(* write_disk keeps one version of the clip; a failed write keeps the rest.  *)
Keep(r) ==
    LET p == [key |-> Key(r), shows |-> asked[r].shows] IN
    /\ asked[r].at = "made"
    /\ \/ disk' = {q \in disk : q.key.name # p.key.name} \cup {p} /\ Quiet
       \/ UNCHANGED disk /\ Trouble
    /\ memory' = {q \in memory : q.key # p.key} \cup {p} /\ making' = making \ {Key(r)}
    /\ Answers(r, p)
    /\ UNCHANGED <<library, tokens>>

Answered(r) ==
    /\ asked[r].at = "answered" /\ Asks(r, NoRequest) /\ Quiet
    /\ UNCHANGED <<library, tokens, memory, disk, making>>

(* Tokens and pictures past the limits (TOKEN_ENTRIES, MEMORY_ENTRIES,       *)
(* DISK_ENTRIES) go, the oldest first.                                       *)
Forget ==
    /\ Trouble
    /\ \/ \E n \in Names : /\ tokens[n] # None /\ tokens' = [tokens EXCEPT ![n] = None]
                           /\ UNCHANGED <<memory, disk>>
       \/ \E p \in memory : memory' = memory \ {p} /\ UNCHANGED <<tokens, disk>>
       \/ \E p \in disk : disk' = disk \ {p} /\ UNCHANGED <<tokens, memory>>
    /\ UNCHANGED <<library, making, asked>>

-----------------------------------------------------------------------------
(* A trim invalidates the clip's URL, a deletion takes its pictures too.     *)
Trimmed(t) ==
    /\ Rewrite(t, "trim") /\ tokens' = [tokens EXCEPT ![tasks[t].name] = None]
    /\ UNCHANGED <<memory, disk, making, asked>>

Deleted(t) ==
    /\ DeleteEnds(t)
    /\ tokens' = [tokens EXCEPT ![tasks[t].name] = None]
    /\ memory' = {p \in memory : p.key.name # tasks[t].name}
    /\ disk' = {p \in disk : p.key.name # tasks[t].name}
    /\ UNCHANGED <<making, asked>>

ThumbnailsRestart ==
    /\ tokens' = [n \in Names |-> None] /\ memory' = {} /\ making' = {}
    /\ asked' = [r \in Requests |-> NoRequest] /\ UNCHANGED disk

Serve(r) == Image(r) \/ Remembered(r) \/ Load(r) \/ Make(r) \/ Keep(r) \/ Answered(r)

ThumbnailStep ==
    \/ \E t \in Tasks : Trimmed(t) \/ Deleted(t)
    \/ Forget
    \/ \E r \in Requests : Serve(r) \/ \E n \in Names : Url(r, n) \/ Prewarm(r, n)

-----------------------------------------------------------------------------
(* FFmpeg makes each picture for one request; the others wait for it.        *)
OneMaker ==
    \A r, s \in Requests : (r # s /\ {asked[r].at, asked[s].at} \subseteq {"make", "made"}) => Key(r) # Key(s)

(* A URL never shows an outdated picture: what it shows of its clip is at    *)
(* least as new as the version the URL was made for; unless a repair put an   *)
(* older copy of the clip back.                                             *)
NeverOutdated ==
    \A r \in Requests : asked[r].at = "answered" =>
        LET old == asked[r].file
            new == asked[r].shows
        IN  new.clip = old.clip /\ ~old.stale /\ ~new.stale => new.cut >= old.cut

(* No request waits forever for a picture that another one makes.            *)
RequestsAnswered == \A r \in Requests : asked[r].at = "load" ~> asked[r].at # "load"
=============================================================================
