----------------------------- MODULE ShareClips -----------------------------
(***************************************************************************)
(* A clip offered to a friend (src/src-tauri/src/sharing): the sender's     *)
(* outbox and the reads it admits, the friend's inbox and answers, the      *)
(* requests between them, and "add to library" downloads.                  *)
(*                                                                         *)
(* One clip and two friends; friendship and presence are ShareFriends'.    *)
(* Each offer or answer of a delivery pass is a request of its own.  The   *)
(* list caps, names, copies of builds before 1.6.5, and reads to watch      *)
(* (ShareStreams) are left out.                                            *)
(***************************************************************************)
EXTENDS Naturals, FiniteSets, Sequences

CONSTANTS
    Chunks,         \* a clip's length
    MaxShares,      \* bound: share ids
    MaxRequests,    \* bound: requests under way
    MaxTasks,       \* bound: downloads started
    MaxUses,        \* bound: the users' actions
    MaxTrouble      \* bound: edits, lost requests, dropped connections, stops

ASSUME ClipsAssumption ==
    /\ {Chunks, MaxShares, MaxRequests, MaxTasks} \subseteq Nat \ {0}
    /\ {MaxUses, MaxTrouble} \subseteq Nat

Ids == 1 .. MaxShares
Tasks == 1 .. MaxTasks
Slots == 1 .. MaxRequests
Idle == [kind |-> "idle"]
NoShare == [answer |-> "none"]
NoOffer == [version |-> 0, size |-> 0]
NoClip == [awaiting |-> FALSE, saved |-> FALSE, here |-> FALSE]
Answers == {"accepted", "declined", "kept", "removed"}

VARIABLES
    clip,       \* the sender's file: version and size
    outbox,     \* the sender's shares
    offered,    \* what each offer describes
    counted,    \* TransferBook: the chunks of each share that were sent
    inbox,      \* the friend's clips
    answers,    \* answers not yet delivered
    requests,   \* under way
    row,        \* the downloads shown: phase and abort handle
    task,       \* download tasks
    file,       \* files by the task that created them: the version of each chunk
    partial,    \* the file at each share's partial path, or 0
    library,    \* the file each kept clip is, or 0
    discarding, \* partials whose deletion is under way
    dismissing, \* clips being dismissed
    said,       \* history: what the friend's user decided
    raced,      \* history: a download was cancelled and went on
    uses, trouble

sender == <<clip, outbox, offered, counted>>
friend == <<inbox, answers, dismissing, said>>
downloads == <<row, task, file, partial, library, discarding, raced>>
vars == <<sender, friend, requests, downloads, uses, trouble>>

NoRow == [phase |-> "none", abort |-> 0]
NoTask == [at |-> "none"]

Init ==
    /\ clip = [version |-> 1, size |-> 1]
    /\ outbox = [s \in Ids |-> NoShare] /\ offered = [s \in Ids |-> NoOffer]
    /\ counted = [s \in Ids |-> {}]
    /\ inbox = [s \in Ids |-> NoClip] /\ answers = [s \in Ids |-> "none"]
    /\ requests = [n \in Slots |-> Idle]
    /\ row = [s \in Ids |-> NoRow] /\ task = [t \in Tasks |-> NoTask]
    /\ file = [t \in Tasks |-> <<>>]
    /\ partial = [s \in Ids |-> 0] /\ library = [s \in Ids |-> 0]
    /\ discarding = {} /\ dismissing = {}
    /\ said = [s \in Ids |-> {}] /\ raced = FALSE
    /\ uses = 0 /\ trouble = 0

Use == uses < MaxUses /\ uses' = uses + 1 /\ UNCHANGED trouble
Trouble == trouble < MaxTrouble /\ trouble' = trouble + 1 /\ UNCHANGED uses
Quiet == UNCHANGED <<uses, trouble>>

-----------------------------------------------------------------------------
(* The sender.                                                               *)

Shared(s) == outbox[s] # NoShare
Fresh == [answer |-> "pending", delivered |-> FALSE, whole |-> FALSE, kept |-> FALSE,
          window |-> "none", keepStarted |-> FALSE, removed |-> FALSE]

(* share_clip: the same share again, or a new one in place of an old one.    *)
ShareClip ==
    /\ Use
    /\ LET old == {s \in Ids : Shared(s)}
           same == {s \in old : offered[s] = clip}
           new == {s \in Ids : ~Shared(s) /\ offered[s] = NoOffer}
       IN  \E s \in IF same # {} THEN same ELSE new :
             /\ same = {} => \A r \in new : s <= r
             /\ outbox' = [r \in Ids |-> IF r = s THEN Fresh
                                        ELSE IF same = {} THEN NoShare ELSE outbox[r]]
             /\ offered' = [offered EXCEPT ![s] = clip]
             /\ counted' = [counted EXCEPT ![s] = {}]
    /\ UNCHANGED <<clip, friend, requests, downloads>>

RevokeShare(s) ==
    /\ Use /\ Shared(s)
    /\ outbox' = [outbox EXCEPT ![s] = NoShare] /\ counted' = [counted EXCEPT ![s] = {}]
    /\ UNCHANGED <<clip, offered, friend, requests, downloads>>

(* The clip is changed on disk; trims and mixes revoke its shares after.     *)
Edit ==
    /\ Trouble
    /\ \E size \in {clip.size, clip.size + 1} :
          clip' = [version |-> clip.version + 1, size |-> size]
    /\ UNCHANGED <<outbox, offered, counted, friend, requests, downloads>>

WindowCloses(s) ==
    /\ Shared(s) /\ outbox[s].window = "open"
    /\ outbox' = [outbox EXCEPT ![s].window = "over"]
    /\ Quiet /\ UNCHANGED <<clip, offered, counted, friend, requests, downloads>>

-----------------------------------------------------------------------------
(* Requests.  One whose sender gave up may still be handled.                 *)

Ask(request) ==
    \E n \in Slots :
        /\ requests[n] = Idle /\ \A m \in Slots : m < n => requests[m] # Idle
        /\ requests' = [requests EXCEPT ![n] = request]

Offer(s) ==
    /\ Shared(s) /\ ~outbox[s].delivered
    /\ Ask([kind |-> "offer", id |-> s, at |-> "asked"])
    /\ Quiet /\ UNCHANGED <<sender, friend, downloads>>

Answer(s) ==
    /\ answers[s] # "none"
    /\ Ask([kind |-> "answer", id |-> s, at |-> "asked", answer |-> answers[s]])
    /\ Quiet /\ UNCHANGED <<sender, friend, downloads>>

(* receive_offer: a clip that was taken is answered again.                   *)
(* Mutant: so is one that waits for its user.                                *)
ReceiveOfferAgain(s) ==
    /\ inbox' = IF inbox[s].here THEN inbox
                ELSE [inbox EXCEPT ![s] = [NoClip EXCEPT !.here = TRUE, !.awaiting = TRUE]]
    /\ answers' = IF inbox[s].here
                  THEN [answers EXCEPT ![s] = IF inbox[s].saved THEN "kept" ELSE "accepted"]
                  ELSE answers
    /\ UNCHANGED <<sender, dismissing, said>>
ReceiveOffer(s) ==
    /\ inbox' = IF inbox[s].here THEN inbox
                ELSE [inbox EXCEPT ![s] = [NoClip EXCEPT !.here = TRUE, !.awaiting = TRUE]]
    /\ answers' = IF inbox[s].here /\ ~inbox[s].awaiting
                  THEN [answers EXCEPT ![s] = IF inbox[s].saved THEN "kept" ELSE "accepted"]
                  ELSE answers
    /\ UNCHANGED <<sender, dismissing, said>>

(* receive_answer.                                                           *)
Answered(share, a) ==
    CASE share.kept -> share
      [] a = "kept" -> [share EXCEPT !.answer = "accepted", !.kept = TRUE]
      [] a = "accepted" /\ (share.answer # "accepted" \/ share.removed) ->
            [share EXCEPT !.answer = "accepted", !.window = "open"]
      [] a = "declined" -> [share EXCEPT !.answer = "declined"]
      [] a = "removed" -> [share EXCEPT !.answer = "declined", !.removed = TRUE]
      [] OTHER -> share
ReceiveAnswer(s, a) ==
    /\ outbox' = IF Shared(s) THEN [outbox EXCEPT ![s] = Answered(@, a)] ELSE outbox
    /\ counted' = IF a \in {"declined", "removed"} /\ outbox' # outbox
                  THEN [counted EXCEPT ![s] = {}] ELSE counted
    /\ UNCHANGED <<clip, offered, friend>>

Handle(n) ==
    /\ requests[n] # Idle /\ requests[n].at \in {"asked", "stale"}
    /\ LET q == requests[n]
       IN  /\ IF q.kind = "offer" THEN ReceiveOffer(q.id) ELSE ReceiveAnswer(q.id, q.answer)
           /\ requests' = [requests EXCEPT ![n] =
                 IF q.at = "asked" THEN [q EXCEPT !.at = "handled"] ELSE Idle]
    /\ Quiet /\ UNCHANGED downloads

(* The rest of deliver_to.                                                   *)
Drop(q) ==
    answers' = IF answers[q.id] = q.answer THEN [answers EXCEPT ![q.id] = "none"] ELSE answers
Acknowledged(n) ==
    /\ requests[n] # Idle /\ requests[n].at = "handled"
    /\ LET q == requests[n]
       IN  IF q.kind = "offer"
           THEN /\ outbox' = IF Shared(q.id) THEN [outbox EXCEPT ![q.id].delivered = TRUE] ELSE outbox
                /\ UNCHANGED answers
           ELSE Drop(q) /\ UNCHANGED outbox
    /\ requests' = [requests EXCEPT ![n] = Idle]
    /\ Quiet /\ UNCHANGED <<clip, offered, counted, inbox, dismissing, said, downloads>>

(* No reply: an answer is dropped if presence had called the sender online   *)
(* before the request was made, which it may have or not.                    *)
GiveUp(n) ==
    /\ Trouble
    /\ requests[n] # Idle /\ requests[n].at \in {"asked", "handled"}
    /\ LET q == requests[n]
       IN  /\ UNCHANGED answers \/ (q.kind = "answer" /\ Drop(q))
           /\ \/ requests' = [requests EXCEPT ![n] = Idle]
              \/ q.at = "asked" /\ requests' = [requests EXCEPT ![n].at = "stale"]
    /\ UNCHANGED <<sender, inbox, dismissing, said, downloads>>

-----------------------------------------------------------------------------
(* The friend.                                                               *)

Taken(s) == inbox[s].here /\ ~inbox[s].awaiting

(* answer_shared_clip.                                                       *)
AnswerOffer(s, accept) ==
    /\ Use /\ inbox[s].awaiting
    /\ inbox' = [inbox EXCEPT ![s] = IF accept THEN [@ EXCEPT !.awaiting = FALSE] ELSE NoClip]
    /\ LET a == IF accept THEN "accepted" ELSE "declined"
       IN  answers' = [answers EXCEPT ![s] = a] /\ said' = [said EXCEPT ![s] = @ \cup {a}]
    /\ UNCHANGED <<sender, dismissing, requests, downloads>>

(* cancel_download: the row, its task if the row has it, and the partial.    *)
Running(t) == task[t].at \notin {"none", "stopped"}
Interruptible(t) == task[t].at \in {"open", "connect", "read", "verify"}
Cancel(s) ==
    LET t == row[s].abort
        stops == {t} \cap {u \in Tasks : Interruptible(u)}
        closes == {t} \cap {u \in Tasks : task[u].at = "publish"}
    IN  /\ row' = [row EXCEPT ![s] = NoRow]
        /\ task' = [u \in Tasks |->
               IF u \in stops THEN [task[u] EXCEPT !.at = "stopped"]
               ELSE IF u \in closes THEN [task[u] EXCEPT !.at = "link"] ELSE task[u]]
        /\ raced' = (raced \/ \E u \in Tasks : Running(u) /\ task[u].id = s /\ u \notin stops)
        /\ discarding' = discarding \cup {s}

CancelDownload(s) ==
    /\ Use /\ row[s].phase # "none" /\ Cancel(s)
    /\ UNCHANGED <<sender, friend, requests, file, partial, library>>

Discard(s) ==
    /\ s \in discarding /\ discarding' = discarding \ {s}
    /\ partial' = [partial EXCEPT ![s] = 0]
    /\ Quiet /\ UNCHANGED <<sender, friend, requests, row, task, file, library, raced>>

(* dismiss_shared_clip of a clip that was taken.                             *)
Dismiss(s) ==
    /\ Use /\ Taken(s) /\ s \notin dismissing
    /\ dismissing' = dismissing \cup {s} /\ Cancel(s)
    /\ UNCHANGED <<sender, inbox, answers, said, requests, file, partial, library>>

Dismissed(s) ==
    /\ s \in dismissing /\ dismissing' = dismissing \ {s}
    /\ inbox' = [inbox EXCEPT ![s] = NoClip]
    /\ IF Taken(s) /\ ~inbox[s].saved
       THEN answers' = [answers EXCEPT ![s] = "removed"] /\ said' = [said EXCEPT ![s] = @ \cup {"removed"}]
       ELSE UNCHANGED <<answers, said>>
    /\ Quiet /\ UNCHANGED <<sender, requests, downloads>>

-----------------------------------------------------------------------------
(* "Add to library" (service_keep.rs, download.rs).                          *)

(* save_shared_clip; its task starts before the row has its abort handle.    *)
SaveSharedClip(s) ==
    /\ Use /\ Taken(s) /\ ~inbox[s].saved /\ row[s].phase # "running"
    /\ row' = [row EXCEPT ![s] = [phase |-> "running", abort |-> 0]]
    /\ \E t \in Tasks :
          /\ task[t] = NoTask /\ \A u \in Tasks : u < t => task[u] # NoTask
          /\ task' = [task EXCEPT ![t] =
                [at |-> "open", id |-> s, into |-> 0, got |-> <<>>, stored |-> FALSE]]
    /\ UNCHANGED <<sender, friend, requests, file, partial, library, discarding, raced>>

StoreHandle(t) ==
    /\ task[t] # NoTask /\ ~task[t].stored
    /\ task' = [task EXCEPT ![t].stored = TRUE]
    /\ LET s == task[t].id
       IN  row' = IF row[s].phase = "running" THEN [row EXCEPT ![s].abort = t] ELSE row
    /\ Quiet /\ UNCHANGED <<sender, friend, requests, file, partial, library, discarding, raced>>

(* The partial file, which a retry goes on with.                             *)
Open(t) ==
    /\ task[t].at = "open"
    /\ LET s == task[t].id
           f == IF partial[s] = 0 THEN t ELSE partial[s]
       IN  /\ partial' = [partial EXCEPT ![s] = f]
           /\ task' = [task EXCEPT ![t] = [@ EXCEPT !.at = "connect", !.into = f, !.got = file[f]]]
    /\ Quiet /\ UNCHANGED <<sender, friend, requests, row, file, library, discarding, raced>>

Finish(t, phase) ==
    /\ row' = [row EXCEPT ![task[t].id] = IF @.phase = "none" THEN @ ELSE [@ EXCEPT !.phase = phase]]
    /\ task' = [task EXCEPT ![t].at = "stopped"]

(* serve_range: the share is open to this friend and the clip has its size.  *)
Readable(s) == Shared(s) /\ outbox[s].answer # "declined" /\ ~outbox[s].kept
Admitted(share) ==
    [share EXCEPT !.answer = "accepted",
                  !.window = IF share.answer = "pending" THEN "open" ELSE @,
                  !.keepStarted = @ \/ share.window # "over" \/ share.answer = "pending"]
Connect(t) ==
    /\ task[t].at = "connect" /\ Len(task[t].got) < Chunks
    /\ LET s == task[t].id
           open == Readable(s) /\ Admitted(outbox[s]).keepStarted
       IN  /\ outbox' = IF open THEN [outbox EXCEPT ![s] = Admitted(@)] ELSE outbox
           /\ IF open /\ clip.size = offered[s].size
              THEN task' = [task EXCEPT ![t].at = "read"] /\ UNCHANGED row
              ELSE Finish(t, "failed")
    /\ Quiet /\ UNCHANGED <<clip, offered, counted, friend, requests, file, partial, library, discarding, raced>>

(* A chunk leaves the sender and is appended; the last one makes the share   *)
(* received whole.                                                           *)
Read(t) ==
    /\ task[t].at = "read" /\ Len(task[t].got) < Chunks
    /\ LET s == task[t].id
           n == Len(task[t].got) + 1
           f == task[t].into
       IN  /\ file' = [file EXCEPT ![f] =
                 [i \in 1 .. (IF n > Len(@) THEN n ELSE Len(@)) |-> IF i = n THEN clip.version ELSE @[i]]]
           /\ task' = [task EXCEPT ![t].got = Append(@, clip.version)]
           /\ counted' = [counted EXCEPT ![s] = @ \cup {n}]
           /\ outbox' = IF Shared(s) /\ counted'[s] = 1 .. Chunks
                        THEN [outbox EXCEPT ![s].whole = TRUE] ELSE outbox
    /\ Quiet /\ UNCHANGED <<clip, offered, friend, requests, row, partial, library, discarding, raced>>

(* The connection drops: it is dialed again, or the delays have run out.     *)
Dropped(t) ==
    /\ Trouble
    /\ task[t].at \in {"connect", "read"} /\ Len(task[t].got) < Chunks
    /\ \/ task' = [task EXCEPT ![t].at = "connect"] /\ UNCHANGED row
       \/ Finish(t, "failed")
    /\ UNCHANGED <<sender, friend, requests, file, partial, library, discarding, raced>>

(* The digest of what was received; bad bytes are never resumed from.        *)
Genuine(s) == [i \in 1 .. Chunks |-> offered[s].version]
(* Mutant: only the size is compared.                                        *)
VerifySize(t) ==
    /\ task[t].at \in {"connect", "read"} /\ Len(task[t].got) >= Chunks
    /\ task' = [task EXCEPT ![t].at = "publish"] /\ UNCHANGED <<row, partial>>
    /\ Quiet /\ UNCHANGED <<sender, friend, requests, file, library, discarding, raced>>
Verify(t) ==
    /\ task[t].at \in {"connect", "read"} /\ Len(task[t].got) >= Chunks
    /\ IF task[t].got = Genuine(task[t].id)
       THEN task' = [task EXCEPT ![t].at = "publish"] /\ UNCHANGED <<row, partial>>
       ELSE Finish(t, "failed") /\ partial' = [partial EXCEPT ![task[t].id] = 0]
    /\ Quiet /\ UNCHANGED <<sender, friend, requests, file, library, discarding, raced>>

(* publish: whatever file has the partial's name gets the clip's.  A task    *)
(* that was aborted here still links.                                        *)
Publish(t) ==
    /\ task[t].at \in {"publish", "link"}
    /\ LET s == task[t].id
       IN  IF partial[s] = 0
           THEN /\ IF task[t].at = "publish" THEN Finish(t, "failed")
                   ELSE task' = [task EXCEPT ![t].at = "stopped"] /\ UNCHANGED row
                /\ UNCHANGED <<library, partial>>
           ELSE /\ library' = [library EXCEPT ![s] = partial[s]]
                /\ partial' = [partial EXCEPT ![s] = 0]
                /\ task' = [task EXCEPT ![t].at = IF @ = "publish" THEN "record" ELSE "stopped"]
                /\ UNCHANGED row
    /\ Quiet /\ UNCHANGED <<sender, friend, requests, file, discarding, raced>>

(* publish_download: the clip is in the library, then its path is recorded.  *)
RecordSaved(t) ==
    /\ task[t].at = "record" /\ task' = [task EXCEPT ![t].at = "confirm"]
    /\ LET s == task[t].id
       IN  inbox' = IF inbox[s].here THEN [inbox EXCEPT ![s].saved = TRUE] ELSE inbox
    /\ Quiet /\ UNCHANGED <<sender, answers, dismissing, said, requests, row, file, partial, library, discarding, raced>>

ConfirmKept(t) ==
    /\ task[t].at = "confirm"
    /\ LET s == task[t].id
       IN  answers' = IF inbox[s].saved THEN [answers EXCEPT ![s] = "kept"] ELSE answers
    /\ Finish(t, "done")
    /\ Quiet /\ UNCHANGED <<sender, inbox, dismissing, said, requests, file, partial, library, discarding, raced>>

-----------------------------------------------------------------------------
(* Stops: state.json, the files and the library remain.                      *)
Lost(kind) ==
    requests' = [n \in Slots |->
        IF requests[n] = Idle \/ requests[n].kind # kind THEN requests[n]
        ELSE IF requests[n].at = "handled" THEN Idle ELSE [requests[n] EXCEPT !.at = "stale"]]

StopSender ==
    /\ Trouble /\ counted' = [s \in Ids |-> {}] /\ Lost("offer")
    /\ UNCHANGED <<clip, outbox, offered, friend, downloads>>

StopFriend ==
    /\ Trouble /\ Lost("answer")
    /\ row' = [s \in Ids |-> NoRow] /\ discarding' = {} /\ dismissing' = {}
    /\ task' = [t \in Tasks |-> IF Running(t) THEN [task[t] EXCEPT !.at = "stopped"] ELSE task[t]]
    /\ UNCHANGED <<sender, inbox, answers, said, file, partial, library, raced>>

-----------------------------------------------------------------------------
Delivery ==
    \/ \E s \in Ids : Offer(s) \/ Answer(s)
    \/ \E n \in Slots : Handle(n) \/ Acknowledged(n)
Download(t) ==
    \/ StoreHandle(t) \/ Open(t) \/ Connect(t) \/ Read(t) \/ Verify(t)
    \/ Publish(t) \/ RecordSaved(t) \/ ConfirmKept(t)
Cleanup(s) == Discard(s) \/ Dismissed(s)

Next ==
    \/ ShareClip \/ Edit \/ StopSender \/ StopFriend \/ Delivery
    \/ \E s \in Ids :
          \/ RevokeShare(s) \/ WindowCloses(s) \/ Cleanup(s)
          \/ AnswerOffer(s, TRUE) \/ AnswerOffer(s, FALSE)
          \/ CancelDownload(s) \/ Dismiss(s) \/ SaveSharedClip(s)
    \/ \E n \in Slots : GiveUp(n)
    \/ \E t \in Tasks : Download(t) \/ Dropped(t)

Spec == Init /\ [][Next]_vars

-----------------------------------------------------------------------------
(* A clip in the library is the one its offer describes, although the sender *)
(* changed it meanwhile, connections dropped and Clipture stopped.  Not once *)
(* a cancelled download went on and writes what another one reads.           *)
SavedIsWhatWasOffered ==
    ~raced => \A s \in Ids : library[s] # 0 => file[library[s]] = Genuine(s)

(* What the sender is shown of a share is true of the friend, whatever order *)
(* offers and answers arrive in and however late: accepted only by a user    *)
(* who did, declined or removed likewise, kept only what is in the library.  *)
SenderIsNotMisled ==
    \A s \in Ids : Shared(s) =>
        /\ outbox[s].answer = "accepted" => "accepted" \in said[s]
        /\ outbox[s].answer = "declined" => said[s] \cap {"declined", "removed"} # {}
        /\ outbox[s].removed => "removed" \in said[s]
        /\ outbox[s].kept => library[s] # 0
=============================================================================
