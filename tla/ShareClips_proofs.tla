-------------------------- MODULE ShareClips_proofs --------------------------
(* What is kept of a shared clip is what was offered, and what the sender is *)
(* shown of the friend is true: for a clip of any length and any number of   *)
(* shares, requests, downloads and faults.                                  *)
(* Then a shared clip that is watched before it is here, for a clip of any   *)
(* number of blocks and any number of runways, readers and faults.          *)
EXTENDS ShareClips, ShareStreams, SequenceTheorems, FiniteSetTheorems, WellFoundedInduction, TLAPS

-----------------------------------------------------------------------------
(* What is kept where.                                                       *)
Versions == [version : Nat, size : Nat]
Share == [answer : {"pending", "accepted", "declined"}, delivered : BOOLEAN, whole : BOOLEAN,
          kept : BOOLEAN, window : {"none", "open", "over"}, keepStarted : BOOLEAN, removed : BOOLEAN]
Request ==
    {Idle}
    \cup [kind : {"offer"}, id : Ids, at : {"asked", "stale", "handled"}]
    \cup [kind : {"answer"}, id : Ids, at : {"asked", "stale", "handled"}, answer : Answers]
TaskStates == {"open", "connect", "read", "publish", "link", "record", "confirm", "stopped"}
TaskRecord == [at : TaskStates, id : Ids, into : Nat, got : Seq(Nat), stored : BOOLEAN]
Rows == [phase : {"none", "running", "failed", "done"}, abort : {0} \cup Tasks]

SenderTypes ==
    /\ clip \in Versions /\ clip # NoOffer
    /\ outbox \in [Ids -> {NoShare} \cup Share]
    /\ offered \in [Ids -> Versions]
FriendTypes ==
    /\ inbox \in [Ids -> [awaiting : BOOLEAN, saved : BOOLEAN, here : BOOLEAN]]
    /\ answers \in [Ids -> {"none"} \cup Answers]
    /\ said \in [Ids -> SUBSET Answers]
DownloadTypes ==
    /\ row \in [Ids -> Rows]
    /\ task \in [Tasks -> {NoTask} \cup TaskRecord]
    /\ file \in [Tasks -> Seq(Nat)]
    /\ partial \in [Ids -> {0} \cup Tasks] /\ library \in [Ids -> {0} \cup Tasks]
    /\ raced \in BOOLEAN
Types == SenderTypes /\ FriendTypes /\ DownloadTypes /\ requests \in [Slots -> Request]

(* Ids that are in use were offered, and an offer is never another one's.    *)
InUse(s) == Shared(s) \/ inbox[s].here \/ inbox[s].awaiting \/ answers[s] # "none"
Known ==
    /\ \A s \in Ids : InUse(s) => offered[s] # NoOffer
    /\ \A n \in Slots : requests[n].kind # "idle" => offered[requests[n].id] # NoOffer
    /\ \A t \in Tasks : task[t] # NoTask => offered[task[t].id] # NoOffer

(* What an answer says of share s.                                           *)
Backed(s, a) ==
    /\ a = "accepted" => "accepted" \in said[s]
    /\ a \in {"declined", "removed"} => a \in said[s]
    /\ a = "kept" => "accepted" \in said[s] /\ library[s] # 0
Truth ==
    /\ SenderIsNotMisled
    /\ \A s \in Ids : Backed(s, answers[s])
    /\ \A n \in Slots : requests[n].kind = "answer" => Backed(requests[n].id, requests[n].answer)
    /\ \A s \in Ids : Taken(s) => Backed(s, "accepted")
    /\ \A s \in Ids : inbox[s].saved => library[s] # 0
    /\ \A t \in Tasks : task[t] # NoTask => Backed(task[t].id, "accepted")
    /\ \A t \in Tasks : task[t].at \in {"record", "confirm"} => library[task[t].id] # 0

(* A file belongs to the share of the task that created it.                  *)
Created(f, s) == f \in Tasks /\ task[f].at \notin {"none", "open"} /\ task[f].id = s
Writes(t) == task[t].at \in {"connect", "read", "publish"}
Places ==
    /\ \A s \in Ids : partial[s] # 0 => Created(partial[s], s) /\ partial[s] # library[s]
    /\ \A s \in Ids : library[s] # 0 => Created(library[s], s)
    /\ \A t \in Tasks : Writes(t) => Created(task[t].into, task[t].id)
    /\ \A t \in Tasks : Writes(t) => Len(task[t].got) <= Len(file[task[t].into])
    /\ \A s \in Ids : row[s].abort # 0 => task[row[s].abort] # NoTask /\ task[row[s].abort].id = s

(* Unless a cancelled download went on, a share has one task, which knows    *)
(* what is in the file it writes.                                            *)
Alone ==
    ~raced =>
        /\ \A t \in Tasks : Running(t) => row[task[t].id].phase = "running" /\ task[t].at # "link"
        /\ \A t, u \in Tasks : Running(t) /\ Running(u) /\ task[t].id = task[u].id => t = u
        /\ \A t \in Tasks : Writes(t) =>
              /\ partial[task[t].id] \in {0, task[t].into} /\ library[task[t].id] # task[t].into
              /\ file[task[t].into] = task[t].got
        /\ \A t \in Tasks : task[t].at = "publish" => task[t].got = Genuine(task[t].id)
        /\ \A s \in Ids : library[s] # 0 => file[library[s]] = Genuine(s)

IInv == Types /\ Known /\ Truth /\ Places /\ Alone

-----------------------------------------------------------------------------
(* What the records look like.                                               *)
LEMMA Shapes ==
    /\ \A x \in Share : x # NoShare
    /\ Fresh \in Share /\ NoOffer \in Versions
    /\ \A x \in TaskRecord : x # NoTask /\ x.at # "none"
    /\ NoTask.at = "none"
    BY DEF Share, NoShare, Fresh, NoOffer, Versions, TaskRecord, TaskStates, NoTask

LEMMA TaskShape ==
    ASSUME DownloadTypes, NEW t \in Tasks, task[t].at # "none" \/ task[t] # NoTask
    PROVE  task[t] \in TaskRecord /\ task[t].id \in Ids /\ task[t] # NoTask
    BY Shapes DEF DownloadTypes, TaskRecord

LEMMA RequestShape ==
    ASSUME Types, NEW n \in Slots, requests[n] # Idle \/ requests[n].kind # "idle"
    PROVE  /\ requests[n].id \in Ids /\ requests[n].at \in {"asked", "stale", "handled"}
           /\ requests[n].kind \in {"offer", "answer"}
           /\ requests[n].kind = "answer" => requests[n].answer \in Answers
           /\ requests[n] # Idle /\ requests[n].kind # "idle"
    BY DEF Types, Request, Idle

-----------------------------------------------------------------------------
(* The sender's own steps.                                                   *)

(* What is downloaded does not depend on what the sender does.               *)
LEMMA DownloadsFrame ==
    ASSUME DownloadTypes, Known, Places, Alone,
           UNCHANGED <<row, task, file, partial, library, raced>>,
           \A s \in Ids : offered[s] # NoOffer => offered'[s] = offered[s]
    PROVE  DownloadTypes' /\ Places' /\ Alone'
    <1>1. DownloadTypes'
      BY DEF DownloadTypes
    <1>2. Places'
      BY DEF Places, Created, Writes
    <1>3. \A t \in Tasks : task[t].at = "publish" => Genuine(task[t].id)' = Genuine(task[t].id)
      BY TaskShape DEF Known, Genuine
    <1>4. \A s \in Ids : library[s] # 0 => Genuine(s)' = Genuine(s)
      <2>1. \A s \in Ids : library[s] # 0 => library[s] \in Tasks /\ task[library[s]].id = s
                                             /\ task[library[s]].at # "none"
        BY DEF Places, Created
      <2> QED BY <2>1, TaskShape DEF Known, Genuine
    <1>5. Alone'
      BY <1>3, <1>4 DEF Alone, Running, Writes
    <1> QED BY <1>1, <1>2, <1>5

LEMMA OutboxFrame ==
    ASSUME IInv, UNCHANGED <<friend, requests, downloads>>, SenderTypes',
           \A s \in Ids : offered[s] # NoOffer => offered'[s] = offered[s],
           \A s \in Ids : InUse(s)' => offered'[s] # NoOffer,
           \A s \in Ids : Shared(s)' =>
              \/ outbox'[s] = Fresh
              \/ /\ Shared(s) /\ outbox'[s].answer = outbox[s].answer
                 /\ outbox'[s].removed = outbox[s].removed /\ outbox'[s].kept = outbox[s].kept
    PROVE  IInv'
    <1>1. DownloadTypes' /\ Places' /\ Alone'
      BY DownloadsFrame DEF IInv, Types, downloads
    <1>2. Types'
      BY <1>1 DEF IInv, Types, FriendTypes, friend, Request
    <1>3. Known'
      <2>1. \A t \in Tasks : task[t] # NoTask => task[t].id \in Ids
        BY TaskShape DEF IInv, Types
      <2>2. \A n \in Slots : requests[n].kind # "idle" => requests[n].id \in Ids
        BY RequestShape DEF IInv
      <2> QED BY <2>1, <2>2 DEF IInv, Known, friend, downloads
    <1>4. SenderIsNotMisled'
      BY DEF IInv, Truth, SenderIsNotMisled, Fresh, friend, downloads
    <1>5. Truth'
      BY <1>4 DEF IInv, Truth, Backed, Taken, friend, downloads
    <1> QED BY <1>1, <1>2, <1>3, <1>5 DEF IInv

LEMMA SenderSteps ==
    ASSUME IInv, ShareClip \/ Edit \/ \E s \in Ids : RevokeShare(s) \/ WindowCloses(s)
    PROVE  IInv'
    <1>1. CASE ShareClip
      <2>1. PICK s \in Ids, same \in SUBSET Ids :
               /\ offered[s] \in {clip, NoOffer}
               /\ outbox' = [r \in Ids |-> IF r = s THEN Fresh ELSE IF same = {} THEN NoShare ELSE outbox[r]]
               /\ offered' = [offered EXCEPT ![s] = clip]
        BY <1>1 DEF ShareClip
      <2>2. UNCHANGED <<clip, friend, requests, downloads>>
        BY <1>1 DEF ShareClip
      <2>3. SenderTypes'
        BY <2>1, <2>2, Shapes DEF IInv, Types, SenderTypes
      <2>4. \A r \in Ids : offered[r] # NoOffer => offered'[r] = offered[r]
        BY <2>1 DEF IInv, Types, SenderTypes
      <2>5. \A r \in Ids : Shared(r)' =>
               outbox'[r] = Fresh \/ (Shared(r) /\ outbox'[r] = outbox[r])
        BY <2>1 DEF IInv, Types, SenderTypes, Shared
      <2>6. \A r \in Ids : InUse(r)' => offered'[r] # NoOffer
        BY <2>1, <2>2, <2>4 DEF IInv, Types, SenderTypes, Known, InUse, Shared, friend
      <2> QED BY <2>2, <2>3, <2>4, <2>5, <2>6, OutboxFrame
    <1>2. CASE Edit
      <2>1. clip' \in Versions /\ clip' # NoOffer /\ UNCHANGED <<outbox, offered, counted, friend, requests, downloads>>
        BY <1>2 DEF Edit, IInv, Types, SenderTypes, Versions, NoOffer
      <2>2. SenderTypes'
        BY <2>1 DEF IInv, Types, SenderTypes
      <2> QED BY <2>1, <2>2, OutboxFrame DEF IInv, Known, InUse, Shared, friend
    <1>3. ASSUME NEW s \in Ids, RevokeShare(s)
          PROVE  IInv'
      <2>1. outbox' = [outbox EXCEPT ![s] = NoShare] /\ UNCHANGED <<clip, offered, friend, requests, downloads>>
        BY <1>3 DEF RevokeShare
      <2>2. SenderTypes'
        BY <2>1 DEF IInv, Types, SenderTypes
      <2>3. \A r \in Ids : Shared(r)' => Shared(r) /\ outbox'[r] = outbox[r]
        BY <2>1 DEF IInv, Types, SenderTypes, Shared
      <2> QED BY <2>1, <2>2, <2>3, OutboxFrame DEF IInv, Known, InUse, friend
    <1>4. ASSUME NEW s \in Ids, WindowCloses(s)
          PROVE  IInv'
      <2>1. /\ Shared(s) /\ outbox' = [outbox EXCEPT ![s] = [@ EXCEPT !.window = "over"]]
            /\ UNCHANGED <<clip, offered, counted, friend, requests, downloads>>
        BY <1>4 DEF WindowCloses
      <2>2. outbox[s] \in Share
        BY <2>1 DEF IInv, Types, SenderTypes, Shared
      <2>3. [outbox[s] EXCEPT !.window = "over"] \in Share
        BY <2>2 DEF Share
      <2>4. SenderTypes'
        BY <2>1, <2>3 DEF IInv, Types, SenderTypes
      <2>5. \A r \in Ids : Shared(r)' =>
               /\ Shared(r) /\ outbox'[r].answer = outbox[r].answer
               /\ outbox'[r].removed = outbox[r].removed /\ outbox'[r].kept = outbox[r].kept
        BY <2>1, <2>2 DEF IInv, Types, SenderTypes, Shared, Share
      <2> QED BY <2>1, <2>4, <2>5, OutboxFrame DEF IInv, Known, InUse, friend
    <1> QED BY <1>1, <1>2, <1>3, <1>4

-----------------------------------------------------------------------------
(* Requests.                                                                 *)

(* What a download's end changes of the rest does not matter to a step that  *)
(* changes requests, answers, the inbox and the outbox only.                 *)
LEMMA MessagesFrame ==
    ASSUME IInv, UNCHANGED <<clip, offered, said, row, task, file, partial, library, raced>>,
           outbox' \in [Ids -> {NoShare} \cup Share],
           inbox' \in [Ids -> [awaiting : BOOLEAN, saved : BOOLEAN, here : BOOLEAN]],
           answers' \in [Ids -> {"none"} \cup Answers],
           requests' \in [Slots -> Request],
           \A s \in Ids : InUse(s)' => offered[s] # NoOffer,
           \A n \in Slots : requests'[n].kind # "idle" => offered[requests'[n].id] # NoOffer,
           \A n \in Slots : requests'[n].kind = "answer" => Backed(requests'[n].id, requests'[n].answer),
           \A s \in Ids : Backed(s, answers'[s]),
           \A s \in Ids : Taken(s)' => Backed(s, "accepted"),
           \A s \in Ids : inbox'[s].saved => library[s] # 0,
           SenderIsNotMisled'
    PROVE  IInv'
    <1>1. DownloadTypes' /\ Places' /\ Alone'
      BY DownloadsFrame DEF IInv, Types
    <1>2. Types'
      BY <1>1 DEF IInv, Types, SenderTypes, FriendTypes, Request
    <1>3. Known'
      BY DEF IInv, Known
    <1>4. Truth'
      BY DEF IInv, Truth, Backed, Taken
    <1> QED BY <1>1, <1>2, <1>3, <1>4 DEF IInv

LEMMA SlotChanges ==
    ASSUME IInv, NEW n \in Slots, NEW q \in Request, requests' = [requests EXCEPT ![n] = q],
           q.kind # "idle" => offered[q.id] # NoOffer,
           q.kind = "answer" => Backed(q.id, q.answer)
    PROVE  /\ requests' \in [Slots -> Request]
           /\ \A m \in Slots : requests'[m].kind # "idle" => offered[requests'[m].id] # NoOffer
           /\ \A m \in Slots : requests'[m].kind = "answer" => Backed(requests'[m].id, requests'[m].answer)
    BY DEF IInv, Types, Known, Truth

LEMMA Asked ==
    ASSUME IInv, NEW s \in Ids, Offer(s) \/ Answer(s)
    PROVE  IInv'
    <1>1. UNCHANGED <<sender, friend, downloads>>
      BY DEF Offer, Answer
    <1>2. /\ requests' \in [Slots -> Request]
          /\ \A m \in Slots : requests'[m].kind # "idle" => offered[requests'[m].id] # NoOffer
          /\ \A m \in Slots : requests'[m].kind = "answer" => Backed(requests'[m].id, requests'[m].answer)
      <2>1. CASE Offer(s)
        <3> DEFINE q == [kind |-> "offer", id |-> s, at |-> "asked"]
        <3>1. PICK n \in Slots : requests' = [requests EXCEPT ![n] = q]
          BY <2>1 DEF Offer, Ask
        <3>2. q \in Request /\ q.kind # "answer" /\ offered[q.id] # NoOffer
          BY <2>1 DEF Request, Offer, IInv, Known, InUse
        <3> HIDE DEF q
        <3> QED BY <3>1, <3>2, SlotChanges
      <2>2. CASE Answer(s)
        <3> DEFINE q == [kind |-> "answer", id |-> s, at |-> "asked", answer |-> answers[s]]
        <3>1. PICK n \in Slots : requests' = [requests EXCEPT ![n] = q]
          BY <2>2 DEF Answer, Ask
        <3>2. answers[s] \in Answers /\ Backed(s, answers[s])
          BY <2>2 DEF Answer, IInv, Types, FriendTypes, Truth
        <3>3. offered[s] # NoOffer
          BY <2>2 DEF Answer, IInv, Known, InUse
        <3>4. q \in Request /\ q.id = s /\ q.answer = answers[s]
          BY <3>2 DEF Request
        <3> HIDE DEF q
        <3> QED BY <3>1, <3>2, <3>3, <3>4, SlotChanges
      <2> QED BY <2>1, <2>2
    <1> QED BY <1>1, <1>2, MessagesFrame DEF IInv, Types, SenderTypes, FriendTypes, Known, Truth, sender, friend, downloads,
         InUse, Shared, Taken, SenderIsNotMisled

LEMMA Replied ==
    ASSUME IInv, NEW n \in Slots, Handle(n)
    PROVE  IInv'
    <1> DEFINE q == requests[n]
    <1> DEFINE s == q.id
    <1> DEFINE after == IF q.at = "asked" THEN [q EXCEPT !.at = "handled"] ELSE Idle
    <1>1. q # Idle /\ requests' = [requests EXCEPT ![n] = after] /\ UNCHANGED downloads
      BY DEF Handle
    <1>2. s \in Ids /\ q.kind \in {"offer", "answer"} /\ (q.kind = "answer" => q.answer \in Answers)
      BY <1>1, RequestShape DEF IInv
    <1>3. q.kind = "answer" => Backed(s, q.answer)
      BY DEF IInv, Truth
    <1>4. offered[s] # NoOffer
      BY <1>2 DEF IInv, Known
    <1>5. /\ after \in Request /\ (after.kind # "idle" => after.id = s)
          /\ after.kind = "answer" => q.kind = "answer" /\ after.answer = q.answer
      <2>1. q \in Request \ {Idle}
        BY <1>1 DEF IInv, Types
      <2> HIDE DEF q
      <2> QED BY <2>1 DEF Request, Idle
    <1>6. /\ requests' \in [Slots -> Request]
          /\ \A m \in Slots : requests'[m].kind # "idle" => offered[requests'[m].id] # NoOffer
          /\ \A m \in Slots : requests'[m].kind = "answer" => Backed(requests'[m].id, requests'[m].answer)
      <2> HIDE DEF after
      <2> QED BY <1>1, <1>3, <1>4, <1>5, SlotChanges DEF Idle
    <1> HIDE DEF after
    <1>7. CASE q.kind = "offer"
      <2>1. ReceiveOffer(s)
        BY <1>7 DEF Handle
      <2> HIDE DEF q, s
      <2>2. UNCHANGED <<sender, dismissing, said>>
        BY <2>1 DEF ReceiveOffer
      <2>3. inbox[s] \in [awaiting : BOOLEAN, saved : BOOLEAN, here : BOOLEAN]
        BY <1>2 DEF IInv, Types, FriendTypes
      <2>4. /\ inbox' \in [Ids -> [awaiting : BOOLEAN, saved : BOOLEAN, here : BOOLEAN]]
            /\ \A r \in Ids : Taken(r)' => Taken(r)
            /\ \A r \in Ids : inbox'[r].saved => inbox[r].saved
            /\ \A r \in Ids \ {s} : inbox'[r] = inbox[r]
        BY <1>2, <2>1, <2>3 DEF ReceiveOffer, IInv, Types, FriendTypes, Taken, NoClip
      <2>5. /\ answers' \in [Ids -> {"none"} \cup Answers]
            /\ \A r \in Ids \ {s} : answers'[r] = answers[r]
            /\ \A r \in Ids : Backed(r, answers'[r])
        <3>1. Taken(s) => Backed(s, "accepted") /\ (inbox[s].saved => Backed(s, "kept"))
          BY <1>2 DEF IInv, Truth, Backed
        <3>2. \A r \in Ids : Backed(r, answers[r])
          BY DEF IInv, Truth
        <3> QED BY <1>2, <2>1, <3>1, <3>2 DEF ReceiveOffer, IInv, Types, FriendTypes, Answers, Taken
      <2>6. \A r \in Ids : InUse(r)' => offered[r] # NoOffer
        BY <1>4, <2>2, <2>4, <2>5 DEF InUse, Shared, IInv, Known, sender
      <2>7. SenderIsNotMisled'
        BY <1>1, <2>2 DEF IInv, Truth, SenderIsNotMisled, Shared, sender, downloads
      <2>8. /\ \A r \in Ids : Taken(r)' => Backed(r, "accepted")
            /\ \A r \in Ids : inbox'[r].saved => library[r] # 0
        BY <2>4 DEF IInv, Truth
      <2> QED BY <1>1, <1>6, <2>2, <2>4, <2>5, <2>6, <2>7, <2>8, MessagesFrame
           DEF sender, downloads, IInv, Types, SenderTypes
    <1>8. CASE q.kind = "answer"
      <2> DEFINE a == q.answer
      <2>1. ReceiveAnswer(s, a)
        BY <1>8 DEF Handle
      <2>2. a \in Answers /\ Backed(s, a)
        BY <1>2, <1>3, <1>8
      <2> HIDE DEF q, s, a
      <2>3. UNCHANGED <<clip, offered, friend>>
        BY <2>1 DEF ReceiveAnswer
      <2>4. Shared(s) => Answered(outbox[s], a) \in Share
        <3>1. Shared(s) => outbox[s] \in Share
          BY <1>2 DEF Shared, IInv, Types, SenderTypes
        <3> QED BY <2>2, <3>1 DEF Answered, Share
      <2>5. outbox' \in [Ids -> {NoShare} \cup Share] /\ \A r \in Ids : Shared(r)' => Shared(r)
        BY <1>2, <2>1, <2>4 DEF ReceiveAnswer, IInv, Types, SenderTypes, Shared
      <2>6. \A r \in Ids : InUse(r)' => offered[r] # NoOffer
        BY <2>3, <2>5 DEF InUse, IInv, Known, friend
      <2>7. Shared(s) => LET o == Answered(outbox[s], a) IN
               /\ o.answer = "accepted" => "accepted" \in said[s]
               /\ o.answer = "declined" => said[s] \cap {"declined", "removed"} # {}
               /\ o.removed => "removed" \in said[s]
               /\ o.kept => library[s] # 0
        <3>1. Shared(s) => outbox[s] \in Share
          BY <1>2 DEF Shared, IInv, Types, SenderTypes
        <3>2. Shared(s) =>
                 /\ outbox[s].answer = "accepted" => "accepted" \in said[s]
                 /\ outbox[s].answer = "declined" => said[s] \cap {"declined", "removed"} # {}
                 /\ outbox[s].removed => "removed" \in said[s]
                 /\ outbox[s].kept => library[s] # 0
          BY <1>2 DEF IInv, Truth, SenderIsNotMisled
        <3> QED BY <2>2, <3>1, <3>2 DEF Answered, Share, Answers, Backed
      <2>8. SenderIsNotMisled'
        <3>1. \A r \in Ids : outbox'[r] = IF r = s /\ Shared(s) THEN Answered(outbox[s], a) ELSE outbox[r]
          BY <1>2, <2>1 DEF ReceiveAnswer, IInv, Types, SenderTypes
        <3> QED BY <1>1, <2>3, <2>5, <2>7, <3>1 DEF IInv, Truth, SenderIsNotMisled, friend, downloads
      <2> QED BY <1>1, <1>6, <2>3, <2>5, <2>6, <2>8, MessagesFrame
           DEF friend, downloads, IInv, Types, FriendTypes, Truth, Taken
    <1> QED BY <1>2, <1>7, <1>8

LEMMA AcknowledgedSteps ==
    ASSUME IInv, NEW n \in Slots, Acknowledged(n) \/ GiveUp(n)
    PROVE  IInv'
    <1> DEFINE q == requests[n]
    <1>1. q # Idle /\ UNCHANGED <<clip, offered, inbox, dismissing, said, downloads>>
      BY DEF Acknowledged, GiveUp, sender
    <1>2. q.id \in Ids /\ q \in Request \ {Idle}
      BY <1>1, RequestShape DEF IInv, Types
    <1>3. \/ requests' = [requests EXCEPT ![n] = Idle]
          \/ requests' = [requests EXCEPT ![n] = [q EXCEPT !.at = "stale"]]
      BY DEF Acknowledged, GiveUp
    <1>4. /\ requests' \in [Slots -> Request]
          /\ \A m \in Slots : requests'[m].kind # "idle" => offered[requests'[m].id] # NoOffer
          /\ \A m \in Slots : requests'[m].kind = "answer" => Backed(requests'[m].id, requests'[m].answer)
      <2>1. Idle \in Request /\ Idle.kind = "idle"
        BY DEF Request, Idle
      <2> DEFINE late == [q EXCEPT !.at = "stale"]
      <2>2. /\ late \in Request /\ late.id = q.id /\ late.kind = q.kind
            /\ late.kind = "answer" => late.answer = q.answer
        <3> HIDE DEF q
        <3> QED BY <1>2 DEF Request
      <2>3. (q.kind # "idle" => offered[q.id] # NoOffer) /\ (q.kind = "answer" => Backed(q.id, q.answer))
        BY DEF IInv, Known, Truth
      <2> HIDE DEF q, late
      <2>4. \/ requests' = [requests EXCEPT ![n] = Idle]
            \/ requests' = [requests EXCEPT ![n] = late]
        BY <1>3 DEF late
      <2> QED BY <2>1, <2>2, <2>3, <2>4, SlotChanges
    <1>5. answers' = answers \/ answers' = [answers EXCEPT ![q.id] = "none"]
      BY DEF Acknowledged, GiveUp, Drop
    <1>6. /\ answers' \in [Ids -> {"none"} \cup Answers]
          /\ \A s \in Ids : answers'[s] \in {"none", answers[s]}
      BY <1>2, <1>5 DEF IInv, Types, FriendTypes
    <1>7. \/ outbox' = outbox
          \/ Shared(q.id) /\ outbox' = [outbox EXCEPT ![q.id] = [@ EXCEPT !.delivered = TRUE]]
      BY DEF Acknowledged, GiveUp, sender
    <1>8. Shared(q.id) => outbox[q.id] \in Share /\ [outbox[q.id] EXCEPT !.delivered = TRUE] \in Share
      <2>1. Shared(q.id) => outbox[q.id] \in Share
        BY <1>2 DEF IInv, Types, SenderTypes, Shared
      <2> QED BY <2>1 DEF Share
    <1>9. /\ outbox' \in [Ids -> {NoShare} \cup Share]
          /\ \A s \in Ids : Shared(s)' =>
                /\ Shared(s) /\ outbox'[s].answer = outbox[s].answer
                /\ outbox'[s].removed = outbox[s].removed /\ outbox'[s].kept = outbox[s].kept
      BY <1>2, <1>7, <1>8 DEF IInv, Types, SenderTypes, Shared, Share
    <1>10. \A s \in Ids : Backed(s, answers'[s])
      BY <1>6 DEF IInv, Truth, Backed
    <1>11. \A s \in Ids : InUse(s)' => offered[s] # NoOffer
      BY <1>1, <1>6, <1>9 DEF IInv, Known, InUse
    <1>12. SenderIsNotMisled'
      BY <1>1, <1>9 DEF IInv, Truth, SenderIsNotMisled, downloads
    <1> HIDE DEF q
    <1> QED BY <1>1, <1>4, <1>6, <1>9, <1>10, <1>11, <1>12, MessagesFrame
         DEF IInv, Types, FriendTypes, Truth, Taken, downloads

-----------------------------------------------------------------------------
(* The friend's decisions.                                                   *)
LEMMA BackedGrows ==
    ASSUME \A s \in Ids : said[s] \subseteq said'[s],
           \A s \in Ids : library[s] # 0 => library'[s] # 0
    PROVE  \A s \in Ids : \A a : Backed(s, a) => Backed(s, a)'
    BY DEF Backed

LEMMA Decided ==
    ASSUME IInv, NEW s \in Ids, AnswerOffer(s, TRUE) \/ AnswerOffer(s, FALSE) \/ Dismissed(s)
    PROVE  IInv'
    <1>1. UNCHANGED <<sender, requests, downloads>>
      BY DEF AnswerOffer, Dismissed
    <1>2. DownloadTypes' /\ Places' /\ Alone'
      BY <1>1, DownloadsFrame DEF IInv, Types, sender, downloads
    <1>3. inbox[s] \in [awaiting : BOOLEAN, saved : BOOLEAN, here : BOOLEAN]
      BY DEF IInv, Types, FriendTypes
    <1>4. /\ inbox' \in [Ids -> [awaiting : BOOLEAN, saved : BOOLEAN, here : BOOLEAN]]
          /\ \A r \in Ids : inbox'[r].saved => inbox[r].saved
          /\ \A r \in Ids : inbox'[r].here => inbox[r].here
          /\ \A r \in Ids : inbox'[r].awaiting => inbox[r].awaiting
          /\ \A r \in Ids : Taken(r)' => Taken(r) \/ (r = s /\ "accepted" \in said'[s])
      <2>1. PICK new \in [awaiting : BOOLEAN, saved : BOOLEAN, here : BOOLEAN] :
               /\ inbox' = [inbox EXCEPT ![s] = new] /\ ~new.awaiting
               /\ new.saved => inbox[s].saved
               /\ new.here => (inbox[s].here /\ "accepted" \in said'[s])
        <3>1. CASE AnswerOffer(s, TRUE)
          <4> DEFINE new == [inbox[s] EXCEPT !.awaiting = FALSE]
          <4>1. inbox' = [inbox EXCEPT ![s] = new] /\ "accepted" \in said'[s]
            BY <3>1 DEF AnswerOffer, IInv, Types, FriendTypes
          <4>2. /\ new \in [awaiting : BOOLEAN, saved : BOOLEAN, here : BOOLEAN]
                /\ ~new.awaiting /\ (new.saved => inbox[s].saved) /\ (new.here => inbox[s].here)
            BY <1>3
          <4> HIDE DEF new
          <4> QED BY <4>1, <4>2
        <3>2. CASE AnswerOffer(s, FALSE) \/ Dismissed(s)
          <4>1. inbox' = [inbox EXCEPT ![s] = NoClip]
            BY <3>2 DEF AnswerOffer, Dismissed
          <4>2. NoClip \in [awaiting : BOOLEAN, saved : BOOLEAN, here : BOOLEAN]
                /\ ~NoClip.awaiting /\ ~NoClip.saved /\ ~NoClip.here
            BY DEF NoClip
          <4> QED BY <4>1, <4>2
        <3> QED BY <3>1, <3>2
      <2> QED BY <2>1 DEF IInv, Types, FriendTypes, Taken
    <1>5. /\ said' \in [Ids -> SUBSET Answers] /\ answers' \in [Ids -> {"none"} \cup Answers]
          /\ \A r \in Ids : said[r] \subseteq said'[r]
          /\ \A r \in Ids \ {s} : answers'[r] = answers[r]
          /\ answers'[s] = answers[s] \/ (answers'[s] \in said'[s] /\ answers'[s] # "kept"
                                          /\ (inbox[s].awaiting \/ inbox[s].here))
      BY DEF AnswerOffer, Dismissed, IInv, Types, FriendTypes, Answers, Taken
    <1>6. \A r \in Ids : \A a : Backed(r, a) => Backed(r, a)'
      BY <1>1, <1>5, BackedGrows DEF downloads
    <1>7. Types'
      BY <1>1, <1>2, <1>4, <1>5 DEF IInv, Types, SenderTypes, FriendTypes, sender, Request
    <1>8. Known'
      BY <1>1, <1>4, <1>5 DEF IInv, Known, InUse, Shared, sender, downloads
    <1>9. Truth'
      <2>1. SenderIsNotMisled'
        BY <1>1, <1>5 DEF IInv, Truth, SenderIsNotMisled, Shared, sender, downloads
      <2>2. \A r \in Ids : Backed(r, answers[r])'
        BY <1>5, <1>6 DEF IInv, Truth, Backed
      <2>3. \A n \in Slots : requests'[n].kind = "answer" => Backed(requests[n].id, requests[n].answer)'
        <3>1. \A n \in Slots : requests[n].kind = "answer" => requests[n].id \in Ids
          BY RequestShape DEF IInv
        <3>2. \A n \in Slots : requests[n].kind = "answer" => Backed(requests[n].id, requests[n].answer)
          BY DEF IInv, Truth
        <3> QED BY <1>1, <1>5, <3>1, <3>2 DEF Backed, downloads
      <2>4. \A r \in Ids : Taken(r)' => Backed(r, "accepted")'
        BY <1>4, <1>6 DEF IInv, Truth, Backed
      <2>5. \A t \in Tasks : task'[t] # NoTask => Backed(task[t].id, "accepted")'
        <3>1. \A t \in Tasks : task[t] # NoTask => task[t].id \in Ids /\ Backed(task[t].id, "accepted")
          BY TaskShape DEF IInv, Types, Truth
        <3> QED BY <1>1, <1>5, <3>1 DEF Backed, downloads
      <2> QED BY <1>1, <1>4, <2>1, <2>2, <2>3, <2>4, <2>5 DEF IInv, Truth, downloads
    <1> QED BY <1>2, <1>7, <1>8, <1>9 DEF IInv

-----------------------------------------------------------------------------
(* Downloads.                                                                *)

(* What is not about files when a download goes on.                          *)
LEMMA DownloadRest ==
    ASSUME IInv, UNCHANGED <<clip, offered, said, requests>>,
           DownloadTypes', FriendTypes',
           outbox' \in [Ids -> {NoShare} \cup Share],
           \A s \in Ids : library[s] # 0 => library'[s] # 0,
           \A s \in Ids : InUse(s)' => offered[s] # NoOffer,
           \A s \in Ids : Taken(s)' => "accepted" \in said[s],
           \A s \in Ids : inbox'[s].saved => library'[s] # 0,
           \A s \in Ids : Backed(s, answers[s])',
           \A t \in Tasks : task'[t] # NoTask =>
              offered[task'[t].id] # NoOffer /\ "accepted" \in said[task'[t].id],
           \A t \in Tasks : task'[t].at \in {"record", "confirm"} => library'[task'[t].id] # 0,
           SenderIsNotMisled'
    PROVE  Types' /\ Known' /\ Truth'
    <1>1. Types'
      BY DEF IInv, Types, SenderTypes, Request
    <1>2. Known'
      BY DEF IInv, Known
    <1>3. \A n \in Slots : requests'[n].kind = "answer" => Backed(requests[n].id, requests[n].answer)'
      <2>1. \A n \in Slots : requests[n].kind = "answer" => requests[n].id \in Ids
        BY RequestShape DEF IInv
      <2>2. \A n \in Slots : requests[n].kind = "answer" => Backed(requests[n].id, requests[n].answer)
        BY DEF IInv, Truth
      <2> QED BY <2>1, <2>2 DEF Backed
    <1>4. Truth'
      BY <1>3 DEF Truth, Backed
    <1> QED BY <1>1, <1>2, <1>4

(* Most steps change neither the inbox nor the answers nor the sender.       *)
LEMMA QuietRest ==
    ASSUME IInv, UNCHANGED <<clip, outbox, offered, friend, requests>>, DownloadTypes',
           \A s \in Ids : library[s] # 0 => library'[s] # 0,
           \A t \in Tasks : task'[t] # NoTask =>
              offered[task'[t].id] # NoOffer /\ "accepted" \in said[task'[t].id],
           \A t \in Tasks : task'[t].at \in {"record", "confirm"} => library'[task'[t].id] # 0
    PROVE  Types' /\ Known' /\ Truth'
    <1>1. \A s \in Ids : \A a : Backed(s, a) => Backed(s, a)'
      BY BackedGrows DEF friend
    <1>2. FriendTypes'
      BY DEF IInv, Types, FriendTypes, friend
    <1>3. SenderIsNotMisled'
      BY DEF IInv, Truth, SenderIsNotMisled, Shared, friend
    <1>4. outbox' \in [Ids -> {NoShare} \cup Share]
      BY DEF IInv, Types, SenderTypes
    <1>5. \A s \in Ids : Backed(s, answers[s])'
      BY DEF IInv, Truth, Backed, friend
    <1>6. /\ \A s \in Ids : InUse(s)' => offered[s] # NoOffer
          /\ \A s \in Ids : Taken(s)' => "accepted" \in said[s]
          /\ \A s \in Ids : inbox'[s].saved => library'[s] # 0
      BY DEF IInv, Known, InUse, Truth, Taken, Shared, Backed, friend
    <1> QED BY <1>2, <1>3, <1>4, <1>5, <1>6, DownloadRest DEF friend

(* A task that goes on.                                                      *)
LEMMA TaskMoves ==
    ASSUME IInv, NEW t \in Tasks, task[t].at # "none", NEW x \in TaskRecord, x.id = task[t].id,
           task' = [task EXCEPT ![t] = x]
    PROVE  /\ task' \in [Tasks -> {NoTask} \cup TaskRecord]
           /\ \A u \in Tasks : task'[u] = IF u = t THEN x ELSE task[u]
           /\ \A u \in Tasks : task'[u] # NoTask =>
                 /\ task[u] # NoTask /\ task'[u].id = task[u].id
                 /\ offered[task'[u].id] # NoOffer /\ "accepted" \in said[task'[u].id]
    <1>1. task[t] # NoTask /\ x # NoTask
      BY TaskShape, Shapes DEF IInv, Types
    <1> QED BY <1>1 DEF IInv, Types, DownloadTypes, Known, Truth, Backed

(* A step of task t that keeps its file and what it knows of it, on to a     *)
(* state it may be in unless it is over.                                     *)
LEMMA TaskGoesOn ==
    ASSUME IInv, NEW t \in Tasks, task[t].at # "none", NEW x \in TaskRecord,
           x.id = task[t].id, x.into = task[t].into, x.got = task[t].got,
           task' = [task EXCEPT ![t] = x],
           x.at \in {task[t].at, "stopped"}
             \/ (x.at \in {"connect", "read", "publish"} /\ Writes(t))
             \/ (x.at \in {"record", "confirm"} /\ Running(t)),
           x.at = "publish" => raced \/ x.got = Genuine(x.id),
           DownloadTypes',
           \A s \in Ids : row'[s].abort \in {row[s].abort, 0, t} /\ (row'[s].abort = t => s = x.id \/ row[s].abort = t),
           \A s \in Ids : row'[s].phase = row[s].phase \/ (s = x.id /\ x.at = "stopped" /\ Running(t)),
           \A s \in Ids : partial'[s] \in {0, partial[s]},
           UNCHANGED <<offered, file, library, raced>>
    PROVE  Places' /\ Alone'
    <1>1. \A u \in Tasks : task'[u] = IF u = t THEN x ELSE task[u]
      BY DEF IInv, Types, DownloadTypes
    <1>2. x.at # "none" /\ (x.at = "open" => task[t].at = "open")
      BY DEF TaskRecord, TaskStates
    <1>3. \A u \in Tasks : \A s \in Ids : Created(u, s) => Created(u, s)'
      BY <1>1, <1>2 DEF Created, TaskRecord, TaskStates
    <1>4. \A u \in Tasks : Writes(u)' => Writes(u) /\ task'[u].into = task[u].into /\ task'[u].id = task[u].id
                                         /\ task'[u].got = task[u].got
      BY <1>1 DEF Writes
    <1>5. \A u \in Tasks : Writes(u) => task[u].id \in Ids
      BY TaskShape DEF IInv, Types, Writes
    <1>6. Places'
      <2>1. \A s \in Ids : partial'[s] # 0 => Created(partial[s], s)' /\ partial'[s] # library'[s]
        BY <1>3 DEF IInv, Places, Created
      <2>2. \A s \in Ids : library'[s] # 0 => Created(library[s], s)'
        BY <1>3 DEF IInv, Places, Created
      <2>3. \A u \in Tasks : Writes(u)' => Created(task[u].into, task[u].id)'
        BY <1>3, <1>4, <1>5 DEF IInv, Places, Created
      <2>4. \A s \in Ids : row'[s].abort # 0 => task'[row'[s].abort] # NoTask /\ task'[row'[s].abort].id = s
        BY <1>1, Shapes DEF IInv, Places, Types, DownloadTypes, Rows
      <2>5. \A u \in Tasks : Writes(u)' => Len(task'[u].got) <= Len(file'[task'[u].into])
        BY <1>4 DEF IInv, Places
      <2> QED BY <2>1, <2>2, <2>3, <2>4, <2>5 DEF Places, Created, Writes
    <1>7. ASSUME ~raced
          PROVE  Alone'
      <2>1. \A u \in Tasks : Running(u)' => Running(u) /\ task'[u].id = task[u].id
        BY <1>1 DEF Running, Writes
      <2>2. task[t].at # "link" /\ x.at # "link"
        BY <1>7 DEF IInv, Alone, Running
      <2>3. \A u \in Tasks : Running(u)' => row'[task'[u].id].phase = "running" /\ task'[u].at # "link"
        <3> SUFFICES ASSUME NEW u \in Tasks, Running(u)'
                     PROVE  row'[task'[u].id].phase = "running" /\ task'[u].at # "link"
          OBVIOUS
        <3>1. Running(u) /\ task'[u].id = task[u].id /\ task[u].id \in Ids /\ row[task[u].id].phase = "running"
          BY <1>7, <2>1, TaskShape DEF IInv, Types, Alone, Running
        <3>2. task'[u].at # "link"
          BY <1>1, <1>7, <2>2, <3>1 DEF IInv, Alone
        <3>3. x.at = "stopped" /\ Running(t) => u # t /\ task[u].id # x.id
          BY <1>1, <1>7, <3>1 DEF IInv, Alone, Running
        <3> QED BY <3>1, <3>2, <3>3
      <2>4. \A u, v \in Tasks : Running(u)' /\ Running(v)' /\ task'[u].id = task'[v].id => u = v
        BY <1>7, <2>1 DEF IInv, Alone
      <2>5. \A u \in Tasks : Writes(u)' =>
               /\ partial'[task'[u].id] \in {0, task'[u].into} /\ library'[task'[u].id] # task'[u].into
               /\ file'[task'[u].into] = task'[u].got
        BY <1>4, <1>5, <1>7 DEF IInv, Alone
      <2>6. \A u \in Tasks : task'[u].at = "publish" => task'[u].got = Genuine(task[u].id)'
        <3>1. \A u \in Tasks : Genuine(task[u].id)' = Genuine(task'[u].id)
          BY DEF Genuine
        <3>2. \A u \in Tasks : task'[u].at = "publish" => task'[u].got = Genuine(task'[u].id)
          BY <1>1, <1>7 DEF IInv, Alone
        <3> QED BY <3>1, <3>2
      <2>7. \A s \in Ids : library'[s] # 0 => file'[library'[s]] = Genuine(s)'
        <3>1. \A s \in Ids : Genuine(s)' = Genuine(s)
          BY DEF Genuine
        <3> QED BY <1>7, <3>1 DEF IInv, Alone
      <2> QED BY <2>3, <2>4, <2>5, <2>6, <2>7 DEF Alone, Running, Writes, Genuine
    <1>8. raced => Alone'
      BY DEF Alone
    <1> QED BY <1>6, <1>7, <1>8 DEF IInv

LEMMA Finishes ==
    ASSUME IInv, NEW t \in Tasks, Running(t), NEW phase \in {"failed", "done"}, Finish(t, phase)
    PROVE  /\ [task[t] EXCEPT !.at = "stopped"] \in TaskRecord
           /\ task' = [task EXCEPT ![t] = [task[t] EXCEPT !.at = "stopped"]]
           /\ row' \in [Ids -> Rows]
           /\ \A s \in Ids : row'[s].abort = row[s].abort
           /\ \A s \in Ids : row'[s].phase = row[s].phase \/ s = task[t].id
    <1>1. task[t] \in TaskRecord /\ task[t].id \in Ids
      BY TaskShape DEF Running, IInv, Types
    <1>2. [task[t] EXCEPT !.at = "stopped"] \in TaskRecord
      BY <1>1 DEF TaskRecord, TaskStates
    <1>3. row[task[t].id] \in Rows
      BY <1>1 DEF IInv, Types, DownloadTypes
    <1> QED BY <1>1, <1>2, <1>3 DEF Finish, Rows, IInv, Types, DownloadTypes

(* What a step of task t does besides, when it changes no file.              *)
LEMMA HandleStored ==
    ASSUME IInv, NEW t \in Tasks, StoreHandle(t)
    PROVE  IInv'
    <1> DEFINE x == [task[t] EXCEPT !.stored = TRUE]
    <1> DEFINE s == task[t].id
    <1>1. task[t] \in TaskRecord /\ s \in Ids /\ task[t].at # "none"
      BY TaskShape, Shapes DEF StoreHandle, IInv, Types
    <1>2. /\ x \in TaskRecord /\ x.id = s /\ x.into = task[t].into /\ x.got = task[t].got
          /\ x.at = task[t].at
      BY <1>1 DEF TaskRecord
    <1>3. /\ task' = [task EXCEPT ![t] = x]
          /\ row' = row \/ row' = [row EXCEPT ![s] = [row[s] EXCEPT !.abort = t]]
          /\ UNCHANGED <<sender, friend, requests, file, partial, library, discarding, raced>>
      BY DEF StoreHandle
    <1> HIDE DEF x
    <1>4. row[s] \in Rows /\ [row[s] EXCEPT !.abort = t] \in Rows
      <2>1. row[s] \in Rows
        BY <1>1 DEF IInv, Types, DownloadTypes
      <2> QED BY <2>1 DEF Rows
    <1>5. /\ row' \in [Ids -> Rows]
          /\ \A r \in Ids : row'[r].phase = row[r].phase
          /\ \A r \in Ids : row'[r].abort = row[r].abort \/ (r = s /\ row'[r].abort = t)
      BY <1>1, <1>3, <1>4 DEF IInv, Types, DownloadTypes, Rows
    <1> HIDE DEF s
    <1>6. /\ task' \in [Tasks -> {NoTask} \cup TaskRecord]
          /\ \A u \in Tasks : task'[u] = IF u = t THEN x ELSE task[u]
          /\ \A u \in Tasks : task'[u] # NoTask =>
                 /\ task'[u].id = task[u].id
                 /\ offered[task'[u].id] # NoOffer /\ "accepted" \in said[task'[u].id]
      BY <1>1, <1>2, <1>3, TaskMoves DEF s
    <1>7. DownloadTypes'
      BY <1>3, <1>5, <1>6 DEF IInv, Types, DownloadTypes
    <1>8. Places' /\ Alone'
      <2>1. x.at = "publish" => raced \/ x.got = Genuine(x.id)
        BY <1>2 DEF IInv, Alone, s
      <2>2. /\ \A r \in Ids : /\ row'[r].abort \in {row[r].abort, 0, t}
                              /\ row'[r].abort = t => r = x.id \/ row[r].abort = t
            /\ \A r \in Ids : row'[r].phase = row[r].phase
            /\ \A r \in Ids : partial'[r] \in {0, partial[r]}
        BY <1>2, <1>3, <1>5
      <2> QED BY <1>1, <1>2, <1>3, <1>7, <2>1, <2>2, TaskGoesOn DEF s, sender
    <1>9. Types' /\ Known' /\ Truth'
      BY <1>2, <1>3, <1>6, <1>7, QuietRest DEF sender, s, IInv, Truth
    <1> QED BY <1>8, <1>9 DEF IInv

LEMMA ConnectionSteps ==
    ASSUME IInv, NEW t \in Tasks, Dropped(t) \/ Verify(t)
    PROVE  IInv'
    <1> DEFINE s == task[t].id
    <1>1. /\ task[t] \in TaskRecord /\ s \in Ids /\ task[t].at # "none"
          /\ Running(t) /\ Writes(t)
      BY TaskShape DEF Dropped, Verify, IInv, Types, Running, Writes
    <1>2. PICK x \in TaskRecord :
             /\ task' = [task EXCEPT ![t] = x]
             /\ x.id = s /\ x.into = task[t].into /\ x.got = task[t].got
             /\ x.at \in {"connect", "publish", "stopped"}
             /\ x.at = "publish" => x.got = Genuine(s)
             /\ row' \in [Ids -> Rows] /\ (x.at # "stopped" => row' = row)
             /\ \A r \in Ids : row'[r].abort = row[r].abort
             /\ \A r \in Ids : row'[r].phase = row[r].phase \/ r = s
      <2> HIDE DEF s
      <2>1. row \in [Ids -> Rows]
        BY DEF IInv, Types, DownloadTypes
      <2> DEFINE y(at) == [task[t] EXCEPT !.at = at]
      <2>2. \A at \in TaskStates : /\ y(at) \in TaskRecord /\ y(at).at = at /\ y(at).id = s
                                   /\ y(at).into = task[t].into /\ y(at).got = task[t].got
        BY <1>1 DEF TaskRecord, s
      <2>3. CASE \/ Dropped(t) /\ task' = [task EXCEPT ![t].at = "connect"] /\ UNCHANGED row
                 \/ Verify(t) /\ task[t].got = Genuine(s)
        <3>1. PICK at \in {"connect", "publish"} :
                 /\ task' = [task EXCEPT ![t] = y(at)] /\ row' = row
                 /\ at = "publish" => task[t].got = Genuine(s)
          BY <2>3 DEF Verify, s
        <3>2. at \in TaskStates
          BY DEF TaskStates
        <3> HIDE DEF y
        <3> QED BY <2>1, <2>2, <3>1, <3>2
      <2>4. CASE Finish(t, "failed")
        <3>1. "stopped" \in TaskStates
          BY DEF TaskStates
        <3>2. /\ task' = [task EXCEPT ![t] = y("stopped")] /\ row' \in [Ids -> Rows]
              /\ \A r \in Ids : row'[r].abort = row[r].abort
              /\ \A r \in Ids : row'[r].phase = row[r].phase \/ r = s
          BY <1>1, <2>4, Finishes DEF s
        <3> HIDE DEF y
        <3> QED BY <2>2, <3>1, <3>2
      <2> QED BY <2>3, <2>4 DEF Dropped, Verify, s
    <1>3. /\ UNCHANGED <<sender, friend, requests, file, library, discarding, raced>>
          /\ partial' \in {partial, [partial EXCEPT ![s] = 0]}
      BY DEF Dropped, Verify
    <1>4. /\ partial' \in [Ids -> {0} \cup Tasks]
          /\ \A r \in Ids : partial'[r] \in {0, partial[r]}
      BY <1>1, <1>3 DEF IInv, Types, DownloadTypes
    <1> HIDE DEF s
    <1>5. /\ task' \in [Tasks -> {NoTask} \cup TaskRecord]
          /\ \A u \in Tasks : task'[u] = IF u = t THEN x ELSE task[u]
          /\ \A u \in Tasks : task'[u] # NoTask =>
                 /\ task'[u].id = task[u].id
                 /\ offered[task'[u].id] # NoOffer /\ "accepted" \in said[task'[u].id]
      BY <1>1, <1>2, TaskMoves DEF s
    <1>6. DownloadTypes'
      BY <1>2, <1>3, <1>4, <1>5 DEF IInv, Types, DownloadTypes
    <1>7. Places' /\ Alone'
      BY <1>1, <1>2, <1>3, <1>4, <1>6, TaskGoesOn DEF s, sender
    <1>8. Types' /\ Known' /\ Truth'
      BY <1>2, <1>3, <1>5, <1>6, QuietRest DEF sender, s, IInv, Truth
    <1> QED BY <1>7, <1>8 DEF IInv

LEMMA TaskTo ==
    ASSUME IInv, NEW t \in Tasks, task[t].at # "none", NEW at \in TaskStates
    PROVE  LET x == [task[t] EXCEPT !.at = at] IN
           /\ x \in TaskRecord /\ x.at = at /\ x.id = task[t].id
           /\ x.into = task[t].into /\ x.got = task[t].got
    <1>1. task[t] \in TaskRecord
      BY TaskShape DEF IInv, Types
    <1> QED BY <1>1 DEF TaskRecord

(* A read from the sender begins with its consent, which shows there.        *)
LEMMA Connected ==
    ASSUME IInv, NEW t \in Tasks, Connect(t)
    PROVE  IInv'
    <1> DEFINE s == task[t].id
    <1>1. /\ task[t] \in TaskRecord /\ s \in Ids /\ task[t].at = "connect" /\ task[t] # NoTask
          /\ Running(t) /\ Writes(t)
      BY TaskShape DEF Connect, IInv, Types, Running, Writes
    <1>2. PICK at \in {"read", "stopped"} :
             /\ task' = [task EXCEPT ![t] = [task[t] EXCEPT !.at = at]]
             /\ row' \in [Ids -> Rows] /\ (at # "stopped" => row' = row)
             /\ \A r \in Ids : row'[r].abort = row[r].abort
             /\ \A r \in Ids : row'[r].phase = row[r].phase \/ r = s
      <2>1. row \in [Ids -> Rows]
        BY DEF IInv, Types, DownloadTypes
      <2>2. CASE task' = [task EXCEPT ![t].at = "read"] /\ UNCHANGED row
        BY <2>1, <2>2
      <2>3. CASE Finish(t, "failed")
        BY <1>1, <2>3, Finishes
      <2> QED BY <2>2, <2>3 DEF Connect
    <1> DEFINE x == [task[t] EXCEPT !.at = at]
    <1>3. x \in TaskRecord /\ x.at = at /\ x.id = s /\ x.into = task[t].into /\ x.got = task[t].got
      <2>1. at \in TaskStates
        BY DEF TaskStates
      <2> QED BY <1>1, <2>1, TaskTo
    <1>4. UNCHANGED <<clip, offered, counted, friend, requests, file, partial, library, discarding, raced>>
      BY DEF Connect
    <1>5. \/ outbox' = outbox
          \/ Shared(s) /\ outbox' = [outbox EXCEPT ![s] = Admitted(outbox[s])] /\ outbox[s].answer # "declined"
      BY DEF Connect, Readable
    <1> HIDE DEF x, s
    <1>6. /\ task' \in [Tasks -> {NoTask} \cup TaskRecord]
          /\ \A u \in Tasks : task'[u] = IF u = t THEN x ELSE task[u]
          /\ \A u \in Tasks : task'[u] # NoTask =>
                 /\ task'[u].id = task[u].id
                 /\ offered[task'[u].id] # NoOffer /\ "accepted" \in said[task'[u].id]
      BY <1>1, <1>2, <1>3, TaskMoves DEF s, x
    <1>7. DownloadTypes'
      BY <1>2, <1>4, <1>6 DEF IInv, Types, DownloadTypes
    <1>8. Places' /\ Alone'
      BY <1>1, <1>2, <1>3, <1>4, <1>7, TaskGoesOn DEF s, x, IInv, Types, DownloadTypes
    <1>9. Shared(s) => /\ outbox[s] \in Share /\ Admitted(outbox[s]) \in Share
                       /\ Admitted(outbox[s]).answer = "accepted"
                       /\ Admitted(outbox[s]).removed = outbox[s].removed
                       /\ Admitted(outbox[s]).kept = outbox[s].kept
      <2>1. Shared(s) => outbox[s] \in Share
        BY <1>1 DEF s, IInv, Types, SenderTypes, Shared
      <2> QED BY <2>1 DEF Admitted, Share
    <1>10. /\ outbox' \in [Ids -> {NoShare} \cup Share]
           /\ \A r \in Ids : Shared(r)' =>
                 /\ Shared(r) /\ outbox'[r].removed = outbox[r].removed /\ outbox'[r].kept = outbox[r].kept
                 /\ outbox'[r].answer = outbox[r].answer \/ (r = s /\ outbox'[r].answer = "accepted")
      BY <1>1, <1>5, <1>9 DEF s, IInv, Types, SenderTypes, Shared
    <1>11. "accepted" \in said[s]
      BY <1>1 DEF s, IInv, Truth, Backed
    <1>12. SenderIsNotMisled'
      BY <1>4, <1>10, <1>11 DEF IInv, Truth, SenderIsNotMisled, friend
    <1>13. Types' /\ Known' /\ Truth'
      <2>1. FriendTypes' /\ \A r \in Ids : InUse(r)' => offered[r] # NoOffer
        BY <1>4, <1>10 DEF IInv, Types, FriendTypes, Known, InUse, friend
      <2>2. /\ \A r \in Ids : Taken(r)' => "accepted" \in said[r]
            /\ \A r \in Ids : inbox'[r].saved => library'[r] # 0
            /\ \A r \in Ids : Backed(r, answers[r])'
        BY <1>4 DEF IInv, Truth, Taken, Backed, friend
      <2>3. \A u \in Tasks : task'[u].at \in {"record", "confirm"} => library'[task'[u].id] # 0
        BY <1>2, <1>3, <1>4, <1>6 DEF IInv, Truth
      <2> QED BY <1>4, <1>6, <1>7, <1>10, <1>12, <2>1, <2>2, <2>3, DownloadRest DEF friend
    <1> QED BY <1>8, <1>13 DEF IInv

(* Its path is recorded once the clip is in the library.                     *)
LEMMA Recorded ==
    ASSUME IInv, NEW t \in Tasks, RecordSaved(t)
    PROVE  IInv'
    <1> DEFINE s == task[t].id
    <1> DEFINE x == [task[t] EXCEPT !.at = "confirm"]
    <1>1. task[t] \in TaskRecord /\ s \in Ids /\ task[t].at = "record" /\ Running(t)
      BY TaskShape DEF RecordSaved, IInv, Types, Running
    <1>2. x \in TaskRecord /\ x.at = "confirm" /\ x.id = s /\ x.into = task[t].into /\ x.got = task[t].got
      BY <1>1, TaskTo DEF TaskStates
    <1>3. /\ task' = [task EXCEPT ![t] = x]
          /\ inbox' = inbox \/ (inbox[s].here /\ inbox' = [inbox EXCEPT ![s] = [inbox[s] EXCEPT !.saved = TRUE]])
          /\ UNCHANGED <<sender, answers, dismissing, said, requests, row, file, partial, library, discarding, raced>>
      BY DEF RecordSaved
    <1>4. library[s] # 0
      BY <1>1 DEF IInv, Truth
    <1> HIDE DEF x, s
    <1>5. /\ task' \in [Tasks -> {NoTask} \cup TaskRecord]
          /\ \A u \in Tasks : task'[u] = IF u = t THEN x ELSE task[u]
          /\ \A u \in Tasks : task'[u] # NoTask =>
                 /\ task'[u].id = task[u].id
                 /\ offered[task'[u].id] # NoOffer /\ "accepted" \in said[task'[u].id]
      BY <1>1, <1>2, <1>3, TaskMoves DEF s
    <1>6. DownloadTypes'
      BY <1>3, <1>5 DEF IInv, Types, DownloadTypes
    <1>7. Places' /\ Alone'
      BY <1>1, <1>2, <1>3, <1>6, TaskGoesOn DEF s, sender, IInv, Types, DownloadTypes
    <1>8. inbox[s] \in [awaiting : BOOLEAN, saved : BOOLEAN, here : BOOLEAN]
      BY <1>1 DEF IInv, Types, FriendTypes, s
    <1>9. /\ inbox' \in [Ids -> [awaiting : BOOLEAN, saved : BOOLEAN, here : BOOLEAN]]
          /\ \A r \in Ids : inbox'[r].here = inbox[r].here /\ inbox'[r].awaiting = inbox[r].awaiting
          /\ \A r \in Ids : inbox'[r].saved => inbox[r].saved \/ r = s
      BY <1>3, <1>8 DEF IInv, Types, FriendTypes
    <1>10. Types' /\ Known' /\ Truth'
      <2>1. FriendTypes' /\ outbox' \in [Ids -> {NoShare} \cup Share]
        BY <1>3, <1>9 DEF IInv, Types, FriendTypes, SenderTypes, sender
      <2>2. /\ \A r \in Ids : InUse(r)' => offered[r] # NoOffer
            /\ \A r \in Ids : Taken(r)' => "accepted" \in said[r]
            /\ \A r \in Ids : inbox'[r].saved => library'[r] # 0
            /\ \A r \in Ids : Backed(r, answers[r])'
        BY <1>3, <1>4, <1>9 DEF IInv, Known, InUse, Shared, Truth, Taken, Backed, sender
      <2>3. \A u \in Tasks : task'[u].at \in {"record", "confirm"} => library'[task'[u].id] # 0
        BY <1>2, <1>3, <1>4, <1>5 DEF IInv, Truth
      <2>4. SenderIsNotMisled'
        BY <1>3 DEF IInv, Truth, SenderIsNotMisled, Shared, sender
      <2> QED BY <1>3, <1>5, <1>6, <2>1, <2>2, <2>3, <2>4, DownloadRest DEF sender
    <1> QED BY <1>7, <1>10 DEF IInv

LEMMA Confirmed ==
    ASSUME IInv, NEW t \in Tasks, ConfirmKept(t)
    PROVE  IInv'
    <1> DEFINE s == task[t].id
    <1> DEFINE x == [task[t] EXCEPT !.at = "stopped"]
    <1>1. task[t] \in TaskRecord /\ s \in Ids /\ task[t].at = "confirm" /\ Running(t) /\ task[t] # NoTask
      BY TaskShape DEF ConfirmKept, IInv, Types, Running
    <1>2. x \in TaskRecord /\ x.at = "stopped" /\ x.id = s /\ x.into = task[t].into /\ x.got = task[t].got
      BY <1>1, TaskTo DEF TaskStates
    <1>3. /\ answers' = answers \/ (inbox[s].saved /\ answers' = [answers EXCEPT ![s] = "kept"])
          /\ UNCHANGED <<sender, inbox, dismissing, said, requests, file, partial, library, discarding, raced>>
          /\ Finish(t, "done")
      BY DEF ConfirmKept
    <1>4. /\ task' = [task EXCEPT ![t] = x] /\ row' \in [Ids -> Rows]
          /\ \A r \in Ids : row'[r].abort = row[r].abort
          /\ \A r \in Ids : row'[r].phase = row[r].phase \/ r = s
      BY <1>1, <1>3, Finishes
    <1> HIDE DEF x, s
    <1>5. /\ task' \in [Tasks -> {NoTask} \cup TaskRecord]
          /\ \A u \in Tasks : task'[u] = IF u = t THEN x ELSE task[u]
          /\ \A u \in Tasks : task'[u] # NoTask =>
                 /\ task'[u].id = task[u].id
                 /\ offered[task'[u].id] # NoOffer /\ "accepted" \in said[task'[u].id]
      BY <1>1, <1>2, <1>4, TaskMoves DEF s
    <1>6. DownloadTypes'
      BY <1>3, <1>4, <1>5 DEF IInv, Types, DownloadTypes
    <1>7. Places' /\ Alone'
      <2>1. /\ task[t].at # "none" /\ x.at \in {task[t].at, "stopped"} /\ x.at # "publish"
            /\ x.id = task[t].id /\ x.into = task[t].into /\ x.got = task[t].got
        BY <1>1, <1>2 DEF s
      <2>2. /\ \A r \in Ids : row'[r].abort \in {row[r].abort, 0, t} /\ (row'[r].abort = t => r = x.id \/ row[r].abort = t)
            /\ \A r \in Ids : row'[r].phase = row[r].phase \/ (r = x.id /\ x.at = "stopped" /\ Running(t))
        BY <1>1, <1>2, <1>4
      <2>3. \A r \in Ids : partial'[r] \in {0, partial[r]}
        BY <1>3
      <2>4. UNCHANGED <<offered, file, library, raced>>
        BY <1>3 DEF sender
      <2>5. task' = [task EXCEPT ![t] = x]
        BY <1>4
      <2> QED BY <1>2, <1>6, <2>1, <2>2, <2>3, <2>4, <2>5, TaskGoesOn
    <1>8. "accepted" \in said[s] /\ offered[s] # NoOffer /\ (inbox[s].saved => library[s] # 0)
      BY <1>1 DEF IInv, Truth, Known, Backed, s
    <1>9. /\ answers' \in [Ids -> {"none"} \cup Answers]
          /\ \A r \in Ids : answers'[r] = answers[r] \/ (r = s /\ answers'[r] = "kept" /\ library[s] # 0)
      BY <1>1, <1>3, <1>8 DEF IInv, Types, FriendTypes, Answers, s
    <1>10. Types' /\ Known' /\ Truth'
      <2>1. FriendTypes' /\ outbox' \in [Ids -> {NoShare} \cup Share]
        BY <1>3, <1>9 DEF IInv, Types, FriendTypes, SenderTypes, sender
      <2>2. /\ \A r \in Ids : InUse(r)' => offered[r] # NoOffer
            /\ \A r \in Ids : Taken(r)' => "accepted" \in said[r]
            /\ \A r \in Ids : inbox'[r].saved => library'[r] # 0
            /\ \A r \in Ids : Backed(r, answers[r])'
        BY <1>3, <1>8, <1>9 DEF IInv, Known, InUse, Shared, Truth, Taken, Backed, sender
      <2>3. \A u \in Tasks : task'[u].at \in {"record", "confirm"} => library'[task'[u].id] # 0
        BY <1>2, <1>3, <1>5 DEF IInv, Truth
      <2>4. SenderIsNotMisled'
        BY <1>3 DEF IInv, Truth, SenderIsNotMisled, Shared, sender
      <2> QED BY <1>3, <1>5, <1>6, <2>1, <2>2, <2>3, <2>4, DownloadRest DEF sender
    <1> QED BY <1>7, <1>10 DEF IInv

(* A download starts only when the row shows none: it is the share's own.    *)
LEMMA Saves ==
    ASSUME IInv, NEW s \in Ids, SaveSharedClip(s)
    PROVE  IInv'
    <1> DEFINE x == [at |-> "open", id |-> s, into |-> 0, got |-> <<>>, stored |-> FALSE]
    <1>1. PICK t \in Tasks : task[t] = NoTask /\ task' = [task EXCEPT ![t] = x]
      BY DEF SaveSharedClip
    <1>2. /\ Taken(s) /\ row[s].phase # "running"
          /\ row' = [row EXCEPT ![s] = [phase |-> "running", abort |-> 0]]
          /\ UNCHANGED <<sender, friend, requests, file, partial, library, discarding, raced>>
      BY DEF SaveSharedClip
    <1>3. x \in TaskRecord /\ x.at = "open" /\ x.id = s
      BY DEF TaskRecord, TaskStates
    <1> HIDE DEF x
    <1>4. /\ task' \in [Tasks -> {NoTask} \cup TaskRecord]
          /\ \A u \in Tasks : task'[u] = IF u = t THEN x ELSE task[u]
      BY <1>1, <1>3 DEF IInv, Types, DownloadTypes
    <1>5. /\ row' \in [Ids -> Rows] /\ row'[s].phase = "running"
          /\ \A r \in Ids : row'[r].abort \in {0, row[r].abort}
          /\ \A r \in Ids \ {s} : row'[r] = row[r]
      BY <1>2 DEF IInv, Types, DownloadTypes, Rows
    <1>6. DownloadTypes'
      BY <1>2, <1>4, <1>5 DEF IInv, Types, DownloadTypes
    <1>7. task[t].at = "none" /\ (\A u \in Tasks : \A r \in Ids : Created(u, r) => u # t)
      BY <1>1, Shapes DEF Created
    <1>8. Places'
      <2>1. \A u \in Tasks : Writes(u)' => Writes(u) /\ u # t
        BY <1>3, <1>4 DEF Writes
      <2>2. \A u \in Tasks : \A r \in Ids : Created(u, r) => Created(u, r)'
        BY <1>4, <1>7 DEF Created
      <2>3. \A u \in Tasks : Writes(u) => task[u].id \in Ids
        BY TaskShape DEF IInv, Types, Writes
      <2>4. \A r \in Ids : partial[r]' # 0 => Created(partial[r], r)' /\ partial'[r] # library'[r]
        BY <1>2, <2>2 DEF IInv, Places, Created
      <2>5. \A r \in Ids : library[r]' # 0 => Created(library[r], r)'
        BY <1>2, <2>2 DEF IInv, Places, Created
      <2>6. \A u \in Tasks : Writes(u)' => Created(task[u].into, task[u].id)'
        BY <1>4, <2>1, <2>2, <2>3 DEF IInv, Places, Created
      <2>7. \A r \in Ids : row'[r].abort # 0 => task'[row'[r].abort] # NoTask /\ task'[row'[r].abort].id = r
        BY <1>1, <1>4, <1>5 DEF IInv, Places, Types, DownloadTypes, Rows
      <2>8. \A u \in Tasks : Writes(u)' => Len(task'[u].got) <= Len(file'[task'[u].into])
        BY <1>2, <1>4, <2>1 DEF IInv, Places
      <2> QED BY <2>4, <2>5, <2>6, <2>7, <2>8 DEF Places, Created, Writes
    <1>9. ASSUME ~raced
          PROVE  Alone'
      <2>1. \A u \in Tasks : Running(u) => task[u].id \in Ids /\ task[u].id # s /\ u # t
        BY <1>2, <1>7, <1>9, TaskShape DEF IInv, Types, Alone, Running
      <2>2. \A u \in Tasks \ {t} : task'[u] = task[u] /\ (Running(u)' <=> Running(u))
        BY <1>4 DEF Running
      <2>3. \A u \in Tasks : Running(u)' => row'[task'[u].id].phase = "running" /\ task'[u].at # "link"
        BY <1>3, <1>4, <1>5, <1>9, <2>1, <2>2 DEF IInv, Alone
      <2>4. \A u, v \in Tasks : Running(u)' /\ Running(v)' /\ task'[u].id = task'[v].id => u = v
        BY <1>3, <1>4, <1>9, <2>1, <2>2 DEF IInv, Alone
      <2>5. \A u \in Tasks : Writes(u)' =>
               /\ partial'[task'[u].id] \in {0, task'[u].into} /\ library'[task'[u].id] # task'[u].into
               /\ file'[task'[u].into] = task'[u].got
        BY <1>2, <1>3, <1>4, <1>9 DEF IInv, Alone, Writes
      <2>6. \A u \in Tasks : task'[u].at = "publish" => task'[u].got = Genuine(task[u].id)'
        <3>1. \A u \in Tasks : Genuine(task[u].id)' = Genuine(task'[u].id)
          BY <1>2 DEF Genuine, sender
        <3> QED BY <1>3, <1>4, <1>9, <3>1 DEF IInv, Alone
      <2>7. \A r \in Ids : library'[r] # 0 => file'[library'[r]] = Genuine(r)'
        BY <1>2, <1>9 DEF IInv, Alone, Genuine, sender
      <2> QED BY <2>3, <2>4, <2>5, <2>6, <2>7 DEF Alone, Running, Writes, Genuine
    <1>10. raced => Alone'
      BY <1>2 DEF Alone
    <1>11. Types' /\ Known' /\ Truth'
      <2>1. offered[s] # NoOffer /\ "accepted" \in said[s]
        BY <1>2 DEF IInv, Known, InUse, Taken, Truth, Backed
      <2>2. \A u \in Tasks : task'[u] # NoTask =>
               offered[task'[u].id] # NoOffer /\ "accepted" \in said[task'[u].id]
        BY <1>3, <1>4, <2>1 DEF IInv, Known, Truth, Backed
      <2>3. \A u \in Tasks : task'[u].at \in {"record", "confirm"} => library'[task'[u].id] # 0
        BY <1>2, <1>3, <1>4 DEF IInv, Truth
      <2> QED BY <1>2, <1>6, <2>2, <2>3, QuietRest DEF sender
    <1> QED BY <1>8, <1>9, <1>10, <1>11 DEF IInv

(* Opens the share's partial file, or one of its own that nobody has yet.    *)
LEMMA Opens ==
    ASSUME IInv, NEW t \in Tasks, Open(t)
    PROVE  IInv'
    <1>1. PICK s \in Ids : s = task[t].id /\ task[t] \in TaskRecord /\ task[t].at = "open" /\ Running(t)
      BY TaskShape DEF Open, IInv, Types, Running
    <1>2. PICK f \in Tasks : f = (IF partial[s] = 0 THEN t ELSE partial[s]) /\ file[f] \in Seq(Nat)
      BY <1>1 DEF IInv, Types, DownloadTypes
    <1> DEFINE x == [task[t] EXCEPT !.at = "connect", !.into = f, !.got = file[f]]
    <1>3. x \in TaskRecord /\ x.at = "connect" /\ x.id = s /\ x.into = f /\ x.got = file[f]
      <2>1. f \in Nat
        BY ClipsAssumption DEF Tasks
      <2> QED BY <1>1, <1>2, <2>1 DEF TaskRecord, TaskStates
    <1>4. /\ partial' = [partial EXCEPT ![s] = f] /\ task' = [task EXCEPT ![t] = x]
          /\ UNCHANGED <<sender, friend, requests, row, file, library, discarding, raced>>
      BY <1>1, <1>2 DEF Open
    <1>5. f # library[s] /\ (f = t \/ Created(f, s))
      <2>1. 0 \notin Tasks
        BY DEF Tasks
      <2> QED BY <1>1, <1>2, <2>1 DEF IInv, Places, Created
    <1> HIDE DEF x
    <1>6. /\ task' \in [Tasks -> {NoTask} \cup TaskRecord]
          /\ \A u \in Tasks : task'[u] = IF u = t THEN x ELSE task[u]
          /\ \A u \in Tasks : task'[u] # NoTask =>
                 /\ task[u] # NoTask /\ task'[u].id = task[u].id
                 /\ offered[task'[u].id] # NoOffer /\ "accepted" \in said[task'[u].id]
      BY <1>1, <1>3, <1>4, TaskMoves
    <1>7. /\ partial' \in [Ids -> {0} \cup Tasks]
          /\ \A r \in Ids : partial'[r] = IF r = s THEN f ELSE partial[r]
      BY <1>1, <1>2, <1>4 DEF IInv, Types, DownloadTypes
    <1>8. DownloadTypes'
      BY <1>4, <1>6, <1>7 DEF IInv, Types, DownloadTypes
    <1>9. Places'
      <2>1. \A u \in Tasks : \A r \in Ids : Created(u, r) => Created(u, r)'
        BY <1>1, <1>3, <1>6 DEF Created
      <2>2. Created(t, s)'
        BY <1>3, <1>6 DEF Created
      <2>3. Created(f, s)'
        BY <1>1, <1>2, <1>5, <2>1, <2>2
      <2>4. \A r \in Ids : partial[r]' # 0 => Created(partial[r], r)' /\ partial'[r] # library'[r]
        <3>1. \A r \in Ids \ {s} : partial[r] # 0 => Created(partial[r], r)
          BY DEF IInv, Places
        <3> QED BY <1>4, <1>5, <1>7, <2>1, <2>3, <3>1 DEF IInv, Places, Created
      <2>5. \A r \in Ids : library[r]' # 0 => Created(library[r], r)'
        BY <1>4, <2>1 DEF IInv, Places, Created
      <2>6. \A u \in Tasks : Writes(u)' => Created(task[u].into, task[u].id)'
        <3>1. \A u \in Tasks : Writes(u) => task[u].id \in Ids /\ Created(task[u].into, task[u].id)
          BY TaskShape DEF IInv, Types, Writes, Places
        <3>2. \A u \in Tasks \ {t} : Writes(u)' => Writes(u) /\ task'[u] = task[u]
          BY <1>6 DEF Writes
        <3>3. task'[t].into = f /\ task'[t].id = s
          BY <1>3, <1>6
        <3>4. \A u \in Tasks \ {t} : Writes(u)' => Created(task[u].into, task[u].id)'
          BY <2>1, <3>1, <3>2 DEF Created
        <3> QED BY <2>3, <3>3, <3>4 DEF Created
      <2>7. \A r \in Ids : row'[r].abort # 0 => task'[row'[r].abort] # NoTask /\ task'[row'[r].abort].id = r
        BY <1>3, <1>4, <1>6, Shapes DEF IInv, Places, Types, DownloadTypes, Rows
      <2>8. \A u \in Tasks : Writes(u)' => Len(task'[u].got) <= Len(file'[task'[u].into])
        <3>1. \A u \in Tasks \ {t} : Writes(u)' => Writes(u) /\ task'[u] = task[u]
          BY <1>6 DEF Writes
        <3>2. Len(task'[t].got) <= Len(file'[task'[t].into])
          BY <1>2, <1>3, <1>4, <1>6
        <3> QED BY <1>4, <3>1, <3>2 DEF IInv, Places
      <2> QED BY <2>4, <2>5, <2>6, <2>7, <2>8 DEF Places, Created, Writes
    <1>10. ASSUME ~raced
           PROVE  Alone'
      <2>1. \A u \in Tasks : Running(u) /\ u # t => task[u].id # s
        BY <1>1, <1>10 DEF IInv, Alone
      <2>2. \A u \in Tasks \ {t} : task'[u] = task[u] /\ (Running(u)' <=> Running(u)) /\ (Writes(u)' <=> Writes(u))
                                   /\ (Writes(u) => Running(u))
        BY <1>6 DEF Running, Writes
      <2>3. \A u \in Tasks : Running(u)' => row'[task'[u].id].phase = "running" /\ task'[u].at # "link"
        BY <1>1, <1>3, <1>4, <1>6, <1>10, <2>2 DEF IInv, Alone
      <2>4. \A u, v \in Tasks : Running(u)' /\ Running(v)' /\ task'[u].id = task'[v].id => u = v
        BY <1>3, <1>6, <1>10, <2>1, <2>2 DEF IInv, Alone
      <2>5. \A u \in Tasks : Writes(u)' =>
               /\ partial'[task'[u].id] \in {0, task'[u].into} /\ library'[task'[u].id] # task'[u].into
               /\ file'[task'[u].into] = task'[u].got
        <3>1. \A u \in Tasks \ {t} : Writes(u) => task[u].id \in Ids /\ task[u].id # s
          BY <2>1, <2>2, TaskShape DEF IInv, Types, Writes
        <3>2. ASSUME NEW u \in Tasks \ {t}, Writes(u)
              PROVE  /\ partial'[task'[u].id] \in {0, task'[u].into} /\ library'[task'[u].id] # task'[u].into
                     /\ file'[task'[u].into] = task'[u].got
          BY <1>4, <1>7, <1>10, <2>2, <3>1, <3>2 DEF IInv, Alone
        <3>3. /\ partial'[task'[t].id] \in {0, task'[t].into} /\ library'[task'[t].id] # task'[t].into
              /\ file'[task'[t].into] = task'[t].got
          BY <1>1, <1>3, <1>4, <1>5, <1>6, <1>7
        <3> QED BY <2>2, <3>2, <3>3
      <2>6. \A u \in Tasks : task'[u].at = "publish" => task'[u].got = Genuine(task[u].id)'
        <3>1. \A u \in Tasks : Genuine(task[u].id)' = Genuine(task'[u].id)
          BY <1>4 DEF Genuine, sender
        <3> QED BY <1>3, <1>6, <1>10, <3>1 DEF IInv, Alone
      <2>7. \A r \in Ids : library'[r] # 0 => file'[library'[r]] = Genuine(r)'
        BY <1>4, <1>10 DEF IInv, Alone, Genuine, sender
      <2> QED BY <2>3, <2>4, <2>5, <2>6, <2>7 DEF Alone, Running, Writes, Genuine
    <1>11. raced => Alone'
      BY <1>4 DEF Alone
    <1>12. Types' /\ Known' /\ Truth'
      <2>1. \A u \in Tasks : task'[u].at \in {"record", "confirm"} => library'[task'[u].id] # 0
        BY <1>3, <1>4, <1>6 DEF IInv, Truth
      <2> QED BY <1>4, <1>6, <1>8, <2>1, QuietRest DEF sender
    <1> QED BY <1>9, <1>10, <1>11, <1>12 DEF IInv

(* What is written at position Len(got) + 1 extends a file that holds got.   *)
LEMMA Grows ==
    ASSUME NEW got \in Seq(Nat), NEW w \in Seq(Nat), NEW v \in Nat, Len(got) <= Len(w)
    PROVE  LET n == Len(got) + 1
               grown == [i \in 1 .. (IF n > Len(w) THEN n ELSE Len(w)) |-> IF i = n THEN v ELSE w[i]]
           IN  /\ grown \in Seq(Nat) /\ Len(grown) >= Len(w) /\ Len(grown) >= n
               /\ w = got => grown = Append(got, v)
    <1> DEFINE n == Len(got) + 1
    <1> DEFINE m == IF n > Len(w) THEN n ELSE Len(w)
    <1> DEFINE grown == [i \in 1 .. m |-> IF i = n THEN v ELSE w[i]]
    <1>1. Len(got) \in Nat /\ Len(w) \in Nat /\ m \in Nat /\ m >= n /\ m >= Len(w)
          /\ \A i \in 1 .. m : i = n \/ i \in 1 .. Len(w)
      OBVIOUS
    <1>2. \A i \in 1 .. Len(w) : w[i] \in Nat
      OBVIOUS
    <1> HIDE DEF m
    <1>3. \A i \in 1 .. m : (IF i = n THEN v ELSE w[i]) \in Nat
      BY <1>1, <1>2
    <1>4. grown \in Seq(Nat) /\ Len(grown) = m
      BY <1>1, <1>3
    <1>5. w = got => grown = Append(got, v)
      <2> SUFFICES ASSUME w = got
                   PROVE  grown = Append(got, v)
        OBVIOUS
      <2>1. m = Len(got) + 1
        BY <1>1 DEF m
      <2>2. Append(got, v) \in Seq(Nat) /\ Len(Append(got, v)) = Len(got) + 1
            /\ \A i \in 1 .. Len(got) + 1 : Append(got, v)[i] = IF i = Len(got) + 1 THEN v ELSE got[i]
        BY <1>1
      <2>3. \A i \in 1 .. m : grown[i] = Append(got, v)[i]
        BY <2>1, <2>2
      <2> QED BY <1>4, <2>1, <2>2, <2>3, SeqEqual
    <1> QED BY <1>1, <1>4, <1>5 DEF m

(* A chunk goes to the end of the file, which only this task writes.         *)
LEMMA Reads ==
    ASSUME IInv, NEW t \in Tasks, Read(t)
    PROVE  IInv'
    <1>1. PICK s \in Ids : s = task[t].id /\ task[t] \in TaskRecord /\ task[t].at = "read" /\ Running(t) /\ Writes(t)
      BY TaskShape DEF Read, IInv, Types, Running, Writes
    <1>2. PICK f \in Tasks : f = task[t].into /\ Created(f, s)
      BY <1>1 DEF IInv, Places, Created
    <1> DEFINE v == clip.version
    <1> DEFINE got == task[t].got
    <1> DEFINE n == Len(got) + 1
    <1> DEFINE x == [task[t] EXCEPT !.got = Append(got, v)]
    <1> DEFINE grown == [i \in 1 .. (IF n > Len(file[f]) THEN n ELSE Len(file[f])) |->
                            IF i = n THEN v ELSE file[f][i]]
    <1>3. got \in Seq(Nat) /\ file[f] \in Seq(Nat) /\ v \in Nat /\ n \in Nat
      BY <1>1 DEF TaskRecord, IInv, Types, DownloadTypes, SenderTypes, Versions
    <1>4. /\ file' = [file EXCEPT ![f] = grown] /\ task' = [task EXCEPT ![t] = x]
          /\ UNCHANGED <<clip, offered, friend, requests, row, partial, library, discarding, raced>>
      BY <1>1, <1>2 DEF Read
    <1>5. x \in TaskRecord /\ x.at = "read" /\ x.id = s /\ x.into = f /\ x.got = Append(got, v)
      <2>1. Append(got, v) \in Seq(Nat)
        BY <1>3
      <2> HIDE DEF got, v
      <2> QED BY <1>1, <1>2, <2>1 DEF TaskRecord
    <1>6. /\ grown \in Seq(Nat) /\ Len(grown) >= Len(file[f]) /\ Len(grown) >= Len(got) + 1
          /\ file[f] = got => grown = Append(got, v)
      <2>0. Len(got) <= Len(file[f])
        BY <1>1, <1>2 DEF IInv, Places
      <2> QED BY <1>3, <2>0, Grows
    <1> HIDE DEF x, grown, v, n, got
    <1>7. /\ task' \in [Tasks -> {NoTask} \cup TaskRecord]
          /\ \A u \in Tasks : task'[u] = IF u = t THEN x ELSE task[u]
          /\ \A u \in Tasks : task'[u] # NoTask =>
                 /\ task[u] # NoTask /\ task'[u].id = task[u].id
                 /\ offered[task'[u].id] # NoOffer /\ "accepted" \in said[task'[u].id]
      BY <1>1, <1>4, <1>5, TaskMoves
    <1>8. /\ file' \in [Tasks -> Seq(Nat)]
          /\ \A g \in Tasks : file'[g] = IF g = f THEN grown ELSE file[g]
      BY <1>4, <1>6 DEF IInv, Types, DownloadTypes
    <1>9. DownloadTypes'
      BY <1>4, <1>7, <1>8 DEF IInv, Types, DownloadTypes
    <1>10. \A u \in Tasks : /\ task'[u].at = task[u].at /\ task'[u].id = task[u].id /\ task'[u].into = task[u].into
                            /\ u # t => task'[u].got = task[u].got
      BY <1>1, <1>2, <1>5, <1>7
    <1>11. Places'
      <2>1. \A u \in Tasks : Writes(u) => /\ task[u].id \in Ids /\ task[u].into \in Tasks
                                          /\ Len(task[u].got) <= Len(file[task[u].into])
                                          /\ Len(task[u].got) \in Nat /\ Len(file[task[u].into]) \in Nat
        BY TaskShape DEF IInv, Types, DownloadTypes, Places, Writes, Created, TaskRecord
      <2>2. \A u \in Tasks : Writes(u) => Len(task'[u].got) <= Len(file'[task[u].into])
        <3>1. Len(grown) \in Nat /\ Len(x.got) = Len(got) + 1 /\ Len(got) \in Nat /\ Len(file[f]) \in Nat
          BY <1>3, <1>5, <1>6
        <3>2. task'[t].got = x.got /\ file'[f] = grown /\ task[t].into = f
          BY <1>2, <1>7, <1>8
        <3>3. \A u \in Tasks \ {t} : Writes(u) => Len(task'[u].got) <= Len(file'[task[u].into])
          <4> SUFFICES ASSUME NEW u \in Tasks \ {t}, Writes(u)
                       PROVE  Len(task'[u].got) <= Len(file'[task[u].into])
            OBVIOUS
          <4> DEFINE k == Len(task[u].got)
          <4> DEFINE g == task[u].into
          <4>1. g \in Tasks /\ k <= Len(file[g]) /\ k \in Nat /\ Len(file[g]) \in Nat /\ task'[u].got = task[u].got
            BY <1>10, <2>1
          <4> HIDE DEF k, g
          <4>2. CASE g = f
            <5>1. file'[g] = grown /\ Len(grown) >= Len(file[f])
              BY <1>6, <1>8, <4>2
            <5>2. k <= Len(file[f])
              BY <4>1, <4>2
            <5>3. Len(grown) \in Nat /\ Len(file[f]) \in Nat /\ k \in Nat
              BY <3>1, <4>1
            <5>4. k <= Len(grown)
              BY <5>1, <5>2, <5>3
            <5> QED BY <4>1, <5>1, <5>4 DEF k, g
          <4>3. CASE g # f
            BY <1>8, <4>1, <4>3 DEF k, g
          <4> QED BY <4>2, <4>3
        <3> QED BY <1>6, <3>1, <3>2, <3>3
      <2>3. \A s1 \in Ids : row'[s1].abort # 0 => task'[row'[s1].abort] # NoTask /\ task'[row'[s1].abort].id = s1
        BY <1>4, <1>5, <1>7, <1>10, Shapes DEF IInv, Places, Types, DownloadTypes, Rows
      <2> QED BY <1>4, <1>10, <2>2, <2>3 DEF IInv, Places, Created, Writes
    <1>12. ASSUME ~raced
           PROVE  Alone'
      <2>1. file[f] = got
        BY <1>1, <1>2, <1>12 DEF IInv, Alone, got
      <2>2. \A u \in Tasks \ {t} : Writes(u) => task[u].into # f /\ task[u].into \in Tasks
        <3>1. \A u \in Tasks \ {t} : Writes(u) => Running(u) /\ task[u].id # s
          BY <1>1, <1>12 DEF IInv, Alone, Running, Writes
        <3> QED BY <1>2, <3>1 DEF IInv, Places, Created
      <2>3. \A r \in Ids : library[r] # 0 => library[r] \in Tasks /\ library[r] # f
        <3>1. library[s] # f
          BY <1>1, <1>2, <1>12 DEF IInv, Alone
        <3> QED BY <1>2, <3>1 DEF IInv, Places, Created
      <2>4. \A u \in Tasks : Writes(u)' =>
               /\ partial'[task'[u].id] \in {0, task'[u].into} /\ library'[task'[u].id] # task'[u].into
               /\ file'[task'[u].into] = task'[u].got
        <3>1. \A u \in Tasks : Writes(u)' => Writes(u)
          BY <1>10 DEF Writes
        <3>2. file'[f] = x.got
          BY <1>5, <1>6, <1>8, <2>1
        <3>3. \A u \in Tasks : Writes(u) => file'[task[u].into] = task'[u].got
          BY <1>2, <1>7, <1>8, <1>10, <1>12, <2>2, <3>2 DEF IInv, Alone
        <3> QED BY <1>4, <1>10, <1>12, <3>1, <3>3 DEF IInv, Alone
      <2>5. \A u \in Tasks : task'[u].at = "publish" => task'[u].got = Genuine(task[u].id)'
        <3>1. \A u \in Tasks : Genuine(task[u].id)' = Genuine(task'[u].id)
          BY <1>4 DEF Genuine
        <3> QED BY <1>1, <1>10, <1>12, <3>1 DEF IInv, Alone
      <2>6. \A r \in Ids : library'[r] # 0 => file'[library'[r]] = Genuine(r)'
        <3>1. \A r \in Ids : Genuine(r)' = Genuine(r)
          BY <1>4 DEF Genuine
        <3> QED BY <1>4, <1>8, <1>12, <2>3, <3>1 DEF IInv, Alone
      <2>7. \A u \in Tasks : Running(u)' => Running(u)
        BY <1>10 DEF Running
      <2>8. \A u \in Tasks : Running(u)' => row'[task'[u].id].phase = "running" /\ task'[u].at # "link"
        BY <1>4, <1>10, <1>12, <2>7 DEF IInv, Alone
      <2>9. \A u, w \in Tasks : Running(u)' /\ Running(w)' /\ task'[u].id = task'[w].id => u = w
        BY <1>10, <1>12, <2>7 DEF IInv, Alone
      <2> QED BY <2>4, <2>5, <2>6, <2>8, <2>9 DEF Alone, Running, Writes, Genuine
    <1>13. raced => Alone'
      BY <1>4 DEF Alone
    <1>14. \/ outbox' = outbox
           \/ Shared(s) /\ outbox' = [outbox EXCEPT ![s] = [outbox[s] EXCEPT !.whole = TRUE]]
      BY <1>1 DEF Read
    <1>15. /\ outbox' \in [Ids -> {NoShare} \cup Share]
           /\ \A r \in Ids : Shared(r)' =>
                 /\ Shared(r) /\ outbox'[r].removed = outbox[r].removed /\ outbox'[r].kept = outbox[r].kept
                 /\ outbox'[r].answer = outbox[r].answer
      <2>1. Shared(s) => outbox[s] \in Share
        BY DEF IInv, Types, SenderTypes, Shared
      <2>2. Shared(s) => [outbox[s] EXCEPT !.whole = TRUE] \in Share
        BY <2>1 DEF Share
      <2> QED BY <1>14, <2>1, <2>2 DEF IInv, Types, SenderTypes, Shared, Share
    <1>16. Types' /\ Known' /\ Truth'
      <2>1. FriendTypes' /\ \A r \in Ids : InUse(r)' => offered[r] # NoOffer
        BY <1>4, <1>15 DEF IInv, Types, FriendTypes, Known, InUse, friend
      <2>2. /\ \A r \in Ids : Taken(r)' => "accepted" \in said[r]
            /\ \A r \in Ids : inbox'[r].saved => library'[r] # 0
            /\ \A r \in Ids : Backed(r, answers[r])'
        BY <1>4 DEF IInv, Truth, Taken, Backed, friend
      <2>3. \A u \in Tasks : task'[u].at \in {"record", "confirm"} => library'[task'[u].id] # 0
        BY <1>4, <1>10 DEF IInv, Truth
      <2>4. SenderIsNotMisled'
        BY <1>4, <1>15 DEF IInv, Truth, SenderIsNotMisled, friend
      <2> QED BY <1>4, <1>7, <1>9, <1>15, <2>1, <2>2, <2>3, <2>4, DownloadRest DEF friend
    <1> QED BY <1>11, <1>12, <1>13, <1>16 DEF IInv

(* What the partial's name holds becomes the clip, if it holds anything.     *)
LEMMA Publishes ==
    ASSUME IInv, NEW t \in Tasks, Publish(t)
    PROVE  IInv'
    <1>1. PICK s \in Ids : s = task[t].id /\ task[t] \in TaskRecord /\ task[t].at \in {"publish", "link"}
                           /\ Running(t) /\ (Writes(t) <=> task[t].at = "publish") /\ task[t].at # "none"
      BY TaskShape DEF Publish, IInv, Types, Running, Writes
    <1>2. UNCHANGED <<sender, friend, requests, file, discarding, raced>>
      BY DEF Publish
    <1>3. CASE partial[s] = 0
      <2> DEFINE x == [task[t] EXCEPT !.at = "stopped"]
      <2>1. /\ task' = [task EXCEPT ![t] = x] /\ UNCHANGED <<library, partial>>
            /\ row' \in [Ids -> Rows]
            /\ \A r \in Ids : row'[r].abort = row[r].abort
            /\ \A r \in Ids : row'[r].phase = row[r].phase \/ r = s
        <3>1. CASE Finish(t, "failed") /\ UNCHANGED <<library, partial>>
          BY <1>1, <3>1, Finishes
        <3>2. CASE task' = [task EXCEPT ![t].at = "stopped"] /\ UNCHANGED <<row, library, partial>>
          BY <3>2 DEF IInv, Types, DownloadTypes
        <3> QED BY <1>1, <1>3, <3>1, <3>2 DEF Publish
      <2>2. x \in TaskRecord /\ x.at = "stopped" /\ x.id = s /\ x.into = task[t].into /\ x.got = task[t].got
        <3>1. "stopped" \in TaskStates
          BY DEF TaskStates
        <3> QED BY <1>1, <3>1, TaskTo
      <2> HIDE DEF x
      <2>3. /\ task' \in [Tasks -> {NoTask} \cup TaskRecord]
            /\ \A u \in Tasks : task'[u] = IF u = t THEN x ELSE task[u]
            /\ \A u \in Tasks : task'[u] # NoTask =>
                   offered[task'[u].id] # NoOffer /\ "accepted" \in said[task'[u].id]
        BY <1>1, <2>1, <2>2, TaskMoves
      <2>4. DownloadTypes'
        BY <1>2, <2>1, <2>3 DEF IInv, Types, DownloadTypes
      <2>5. Places' /\ Alone'
        BY <1>1, <1>2, <2>1, <2>2, <2>4, TaskGoesOn DEF sender
      <2>6. Types' /\ Known' /\ Truth'
        BY <1>2, <2>1, <2>2, <2>3, <2>4, QuietRest DEF sender, IInv, Truth
      <2> QED BY <2>5, <2>6 DEF IInv
    <1>4. CASE partial[s] # 0
      <2> DEFINE at == IF task[t].at = "publish" THEN "record" ELSE "stopped"
      <2> DEFINE x == [task[t] EXCEPT !.at = at]
      <2>1. PICK f \in Tasks : f = partial[s] /\ f # 0 /\ Created(f, s)
        BY <1>4 DEF IInv, Places, Created
      <2>2. /\ task' = [task EXCEPT ![t] = x] /\ UNCHANGED row
            /\ library' = [library EXCEPT ![s] = f] /\ partial' = [partial EXCEPT ![s] = 0]
        BY <1>1, <1>4, <2>1 DEF Publish
      <2>4. at \in {"record", "stopped"} /\ at \in TaskStates
        BY DEF TaskStates
      <2> HIDE DEF at
      <2>3. x \in TaskRecord /\ x.at = at /\ x.id = s /\ x.into = task[t].into /\ x.got = task[t].got
        BY <1>1, <2>4, TaskTo
      <2> HIDE DEF x
      <2>5. /\ task' \in [Tasks -> {NoTask} \cup TaskRecord]
            /\ \A u \in Tasks : task'[u] = IF u = t THEN x ELSE task[u]
            /\ \A u \in Tasks : task'[u] # NoTask =>
                   offered[task'[u].id] # NoOffer /\ "accepted" \in said[task'[u].id]
        BY <1>1, <2>2, <2>3, TaskMoves
      <2>6. /\ library' \in [Ids -> {0} \cup Tasks] /\ partial' \in [Ids -> {0} \cup Tasks]
            /\ \A r \in Ids : library'[r] = IF r = s THEN f ELSE library[r]
            /\ \A r \in Ids : partial'[r] = IF r = s THEN 0 ELSE partial[r]
        BY <2>2 DEF IInv, Types, DownloadTypes
      <2>7. DownloadTypes'
        BY <1>2, <2>2, <2>5, <2>6 DEF IInv, Types, DownloadTypes
      <2>8. \A u \in Tasks : /\ task'[u].id = task[u].id /\ task'[u].into = task[u].into /\ task'[u].got = task[u].got
                             /\ u # t => task'[u].at = task[u].at
        BY <1>1, <2>3, <2>5
      <2>9. \A u \in Tasks : Writes(u)' => Writes(u) /\ u # t
        BY <2>3, <2>4, <2>5, <2>8 DEF Writes
      <2>10. Places'
        <3>1. \A u \in Tasks : \A r \in Ids : Created(u, r) => Created(u, r)'
          BY <2>3, <2>4, <2>5, <2>8 DEF Created
        <3>2. \A r \in Ids : partial[r]' # 0 => Created(partial[r], r)' /\ partial'[r] # library'[r]
          BY <2>6, <3>1 DEF IInv, Places, Created
        <3>3. \A r \in Ids : library[r]' # 0 => Created(library[r], r)'
          <4>1. Created(f, s)'
            BY <2>1, <3>1
          <4>2. \A r \in Ids \ {s} : library[r]' # 0 => Created(library[r], r)'
            BY <2>6, <3>1 DEF IInv, Places, Created
          <4> QED BY <2>6, <4>1, <4>2 DEF Created
        <3>4. \A u \in Tasks : Writes(u)' => Created(task[u].into, task[u].id)'
          <4>1. \A u \in Tasks : Writes(u) => task[u].id \in Ids
            BY TaskShape DEF IInv, Types, Writes
          <4> QED BY <2>8, <2>9, <3>1, <4>1 DEF IInv, Places, Created
        <3>5. \A r \in Ids : row'[r].abort # 0 => task'[row'[r].abort] # NoTask /\ task'[row'[r].abort].id = r
          BY <2>2, <2>3, <2>5, <2>8, Shapes DEF IInv, Places, Types, DownloadTypes, Rows
        <3>6. \A u \in Tasks : Writes(u)' => Len(task'[u].got) <= Len(file'[task'[u].into])
          BY <1>2, <2>8, <2>9 DEF IInv, Places
        <3> QED BY <3>2, <3>3, <3>4, <3>5, <3>6 DEF Places, Created, Writes
      <2>11. ASSUME ~raced
             PROVE  Alone'
        <3>1. task[t].at = "publish" /\ at = "record"
          BY <1>1, <2>11 DEF IInv, Alone, at
        <3>2. file[f] = Genuine(s)
          BY <1>1, <2>1, <2>11, <3>1 DEF IInv, Alone
        <3>3. \A u \in Tasks : Running(u) <=> Running(u)'
          BY <1>1, <2>3, <2>5, <2>8, <3>1 DEF Running
        <3>4. \A u \in Tasks : Running(u)' => row'[task'[u].id].phase = "running" /\ task'[u].at # "link"
          BY <2>2, <2>3, <2>5, <2>8, <2>11, <3>1, <3>3 DEF IInv, Alone
        <3>5. \A u, w \in Tasks : Running(u)' /\ Running(w)' /\ task'[u].id = task'[w].id => u = w
          BY <2>8, <2>11, <3>3 DEF IInv, Alone
        <3>6. \A u \in Tasks : Writes(u)' => task[u].id # s /\ task[u].id \in Ids
          BY <1>1, <2>9, <2>11, TaskShape DEF IInv, Types, Alone, Running, Writes
        <3>7. \A u \in Tasks : Writes(u)' =>
                 /\ partial'[task'[u].id] \in {0, task'[u].into} /\ library'[task'[u].id] # task'[u].into
                 /\ file'[task'[u].into] = task'[u].got
          BY <1>2, <2>6, <2>8, <2>9, <2>11, <3>6 DEF IInv, Alone
        <3>8. \A r \in Ids : Genuine(r)' = Genuine(r)
          BY <1>2 DEF Genuine, sender
        <3>9. \A u \in Tasks : task'[u].at = "publish" => task'[u].got = Genuine(task[u].id)'
          <4>1. \A u \in Tasks : Genuine(task[u].id)' = Genuine(task'[u].id)
            BY <1>2 DEF Genuine, sender
          <4> QED BY <2>3, <2>5, <2>8, <2>11, <3>1, <4>1 DEF IInv, Alone
        <3>10. \A r \in Ids : library'[r] # 0 => file'[library'[r]] = Genuine(r)'
          BY <1>2, <2>6, <2>11, <3>2, <3>8 DEF IInv, Alone
        <3> QED BY <3>4, <3>5, <3>7, <3>9, <3>10 DEF Alone, Running, Writes, Genuine
      <2>12. raced => Alone'
        BY <1>2 DEF Alone
      <2>13. Types' /\ Known' /\ Truth'
        <3>1. /\ \A r \in Ids : library[r] # 0 => library'[r] # 0
              /\ library'[s] # 0
          BY <2>1, <2>6
        <3>2. \A u \in Tasks : task'[u].at \in {"record", "confirm"} => library'[task'[u].id] # 0
          <4>1. \A u \in Tasks : task[u].at \in {"record", "confirm"} => task[u].id \in Ids /\ library[task[u].id] # 0
            BY TaskShape DEF IInv, Types, Truth
          <4> QED BY <1>1, <2>8, <3>1, <4>1
        <3> QED BY <1>2, <2>5, <2>7, <3>1, <3>2, QuietRest DEF sender
      <2> QED BY <2>10, <2>11, <2>12, <2>13 DEF IInv
    <1> QED BY <1>3, <1>4

-----------------------------------------------------------------------------
(* Cancelled and stopped.                                                    *)

(* Tasks that only stop, of shares whose row goes if one of theirs goes on.  *)
LEMMA Stopped ==
    ASSUME IInv, UNCHANGED <<clip, outbox, offered, file, library>>,
           requests' \in [Slots -> Request],
           \A n \in Slots : requests'[n].kind # "idle" =>
              /\ requests[n].kind # "idle" /\ requests'[n].id = requests[n].id
              /\ requests'[n].kind = requests[n].kind
              /\ requests'[n].kind = "answer" => requests'[n].answer = requests[n].answer,
           UNCHANGED <<inbox, answers, said>>,
           DownloadTypes',
           \A u \in Tasks : /\ task'[u].id = task[u].id /\ task'[u].into = task[u].into /\ task'[u].got = task[u].got
                            /\ task'[u] = NoTask <=> task[u] = NoTask
                            /\ \/ task'[u].at \in {task[u].at, "stopped"} /\ (task'[u].at = task[u].at \/ Running(u))
                               \/ task'[u].at = "link" /\ task[u].at = "publish" /\ raced',
           \A s \in Ids : row'[s].abort \in {0, row[s].abort},
           \A s \in Ids : partial'[s] \in {0, partial[s]},
           raced => raced',
           ~raced' => \A u \in Tasks : Running(u)' => row'[task[u].id].phase = row[task[u].id].phase
    PROVE  IInv'
    <1>1. \A u \in Tasks : \A r \in Ids : Created(u, r) => Created(u, r)'
      BY DEF Created, Running
    <1>2. \A u \in Tasks : Writes(u)' => Writes(u)
      BY DEF Writes
    <1>3. \A u \in Tasks : Running(u)' => Running(u)
      BY DEF Running
    <1>4. Places'
      <2>1. \A r \in Ids : partial[r]' # 0 => Created(partial[r], r)' /\ partial'[r] # library'[r]
        BY <1>1 DEF IInv, Places, Created
      <2>2. \A r \in Ids : library[r]' # 0 => Created(library[r], r)'
        BY <1>1 DEF IInv, Places, Created
      <2>3. \A u \in Tasks : Writes(u)' => Created(task[u].into, task[u].id)'
        <3>1. \A u \in Tasks : Writes(u) => task[u].id \in Ids
          BY TaskShape DEF IInv, Types, Writes
        <3> QED BY <1>1, <1>2, <3>1 DEF IInv, Places, Created
      <2>4. \A r \in Ids : row'[r].abort # 0 => task'[row'[r].abort] # NoTask /\ task'[row'[r].abort].id = r
        <3> SUFFICES ASSUME NEW r \in Ids, row'[r].abort # 0
                     PROVE  task'[row'[r].abort] # NoTask /\ task'[row'[r].abort].id = r
          OBVIOUS
        <3>1. row[r] \in Rows
          BY DEF IInv, Types, DownloadTypes
        <3>2. PICK u \in Tasks : u = row'[r].abort /\ u = row[r].abort /\ u # 0
          BY <3>1 DEF Rows
        <3>3. task[u] # NoTask /\ task[u].id = r
          BY <3>2 DEF IInv, Places
        <3> QED BY <3>2, <3>3
      <2>5. \A u \in Tasks : Writes(u)' => Len(task'[u].got) <= Len(file'[task'[u].into])
        BY <1>2 DEF IInv, Places
      <2> QED BY <2>1, <2>2, <2>3, <2>4, <2>5 DEF Places, Created, Writes
    <1>5. ASSUME ~raced'
          PROVE  Alone'
      <2>1. ~raced /\ \A u \in Tasks : task'[u].at \in {task[u].at, "stopped"}
        BY <1>5
      <2>2. \A u \in Tasks : Running(u)' => row'[task'[u].id].phase = "running" /\ task'[u].at # "link"
        BY <1>3, <1>5, <2>1 DEF IInv, Alone
      <2>3. \A u, w \in Tasks : Running(u)' /\ Running(w)' /\ task'[u].id = task'[w].id => u = w
        BY <1>3, <2>1 DEF IInv, Alone
      <2>4. \A u \in Tasks : Writes(u)' =>
               /\ partial'[task'[u].id] \in {0, task'[u].into} /\ library'[task'[u].id] # task'[u].into
               /\ file'[task'[u].into] = task'[u].got
        <3>1. \A u \in Tasks : Writes(u) => task[u].id \in Ids
          BY TaskShape DEF IInv, Types, Writes
        <3> QED BY <1>2, <2>1, <3>1 DEF IInv, Alone
      <2>5. \A u \in Tasks : task'[u].at = "publish" => task'[u].got = Genuine(task[u].id)'
        <3>1. \A u \in Tasks : Genuine(task[u].id)' = Genuine(task'[u].id)
          BY DEF Genuine
        <3> QED BY <2>1, <3>1 DEF IInv, Alone
      <2>6. \A r \in Ids : library'[r] # 0 => file'[library'[r]] = Genuine(r)'
        <3>1. \A r \in Ids : Genuine(r)' = Genuine(r)
          BY DEF Genuine
        <3> QED BY <2>1, <3>1 DEF IInv, Alone
      <2> QED BY <2>2, <2>3, <2>4, <2>5, <2>6 DEF Alone, Running, Writes, Genuine
    <1>6. raced' => Alone'
      BY DEF Alone
    <1>7. Types'
      BY DEF IInv, Types, SenderTypes, FriendTypes
    <1>8. Known'
      BY DEF IInv, Known, InUse, Shared
    <1>9. Truth'
      <2>1. SenderIsNotMisled'
        BY DEF IInv, Truth, SenderIsNotMisled, Shared
      <2>2. \A n \in Slots : requests'[n].kind = "answer" => Backed(requests[n].id, requests[n].answer)'
        <3>1. \A n \in Slots : requests'[n].kind = "answer" => Backed(requests[n].id, requests[n].answer)
          BY DEF IInv, Truth
        <3> QED BY <3>1 DEF Backed
      <2>3. \A u \in Tasks : task'[u].at \in {"record", "confirm"} => library'[task'[u].id] # 0
        BY DEF IInv, Truth
      <2>4. \A u \in Tasks : task'[u] # NoTask => Backed(task[u].id, "accepted")'
        BY DEF IInv, Truth, Backed
      <2>5. \A r \in Ids : Backed(r, answers[r])' /\ (Taken(r)' => Backed(r, "accepted")')
        BY DEF IInv, Truth, Backed, Taken
      <2> QED BY <2>1, <2>2, <2>3, <2>4, <2>5 DEF IInv, Truth, Taken, Backed
    <1> QED BY <1>4, <1>5, <1>6, <1>7, <1>8, <1>9 DEF IInv

(* Cancelled by its user or dismissed: whatever goes on shows as raced.      *)
LEMMA Cancelled ==
    ASSUME IInv, NEW s \in Ids, CancelDownload(s) \/ Dismiss(s)
    PROVE  IInv'
    <1>1. /\ Cancel(s)
          /\ UNCHANGED <<sender, requests, file, partial, library>> /\ UNCHANGED <<inbox, answers, said>>
      BY DEF CancelDownload, Dismiss, friend
    <1>2. /\ row' = [row EXCEPT ![s] = NoRow]
          /\ raced' = (raced \/ \E u \in Tasks : Running(u) /\ task[u].id = s
                                                 /\ ~(u = row[s].abort /\ Interruptible(u)))
      BY <1>1 DEF Cancel
    <1>3. /\ row' \in [Ids -> Rows] /\ raced' \in BOOLEAN
          /\ \A r \in Ids : row'[r].abort \in {0, row[r].abort}
          /\ \A r \in Ids \ {s} : row'[r] = row[r]
      BY <1>2 DEF IInv, Types, DownloadTypes, Rows, NoRow
    <1>4. \A u \in Tasks :
             \/ task'[u] = task[u]
             \/ /\ u = row[s].abort /\ Interruptible(u) /\ task'[u] = [task[u] EXCEPT !.at = "stopped"]
             \/ /\ u = row[s].abort /\ task[u].at = "publish" /\ task'[u] = [task[u] EXCEPT !.at = "link"]
      BY <1>1 DEF Cancel
    <1>5. \A u \in Tasks : u = row[s].abort => task[u] # NoTask /\ task[u].id = s /\ task[u] \in TaskRecord
      <2>1. 0 \notin Tasks
        BY DEF Tasks
      <2> QED BY <2>1, TaskShape DEF IInv, Types, Places
    <1>6. \A u \in Tasks :
             /\ task'[u].id = task[u].id /\ task'[u].into = task[u].into /\ task'[u].got = task[u].got
             /\ task'[u] = NoTask <=> task[u] = NoTask
             /\ task'[u] \in {NoTask} \cup TaskRecord
             /\ \/ task'[u].at = task[u].at
                \/ u = row[s].abort /\ Interruptible(u) /\ task'[u].at = "stopped"
                \/ u = row[s].abort /\ task[u].at = "publish" /\ task'[u].at = "link"
      <2> SUFFICES ASSUME NEW u \in Tasks
                   PROVE  /\ task'[u].id = task[u].id /\ task'[u].into = task[u].into /\ task'[u].got = task[u].got
                          /\ task'[u] = NoTask <=> task[u] = NoTask
                          /\ task'[u] \in {NoTask} \cup TaskRecord
                          /\ \/ task'[u].at = task[u].at
                             \/ u = row[s].abort /\ Interruptible(u) /\ task'[u].at = "stopped"
                             \/ u = row[s].abort /\ task[u].at = "publish" /\ task'[u].at = "link"
        OBVIOUS
      <2>1. CASE task'[u] = task[u]
        BY <2>1 DEF IInv, Types, DownloadTypes
      <2>2. CASE task'[u] # task[u]
        <3>1. u = row[s].abort /\ task[u] # NoTask
          BY <1>4, <1>5, <2>2
        <3>2. PICK at \in {"stopped", "link"} :
                 /\ task'[u] = [task[u] EXCEPT !.at = at]
                 /\ \/ at = "stopped" /\ Interruptible(u)
                    \/ at = "link" /\ task[u].at = "publish"
          BY <1>4, <2>2
        <3>3. /\ task'[u] \in TaskRecord /\ task'[u].at = at /\ task'[u] # NoTask
              /\ task'[u].id = task[u].id /\ task'[u].into = task[u].into /\ task'[u].got = task[u].got
          <4>1. task[u] \in TaskRecord /\ at \in TaskStates
            BY <1>5, <3>1 DEF TaskStates
          <4> QED BY <3>2, <4>1, Shapes DEF TaskRecord
        <3> QED BY <3>1, <3>2, <3>3
      <2> QED BY <2>1, <2>2
    <1>7. task' \in [Tasks -> {NoTask} \cup TaskRecord]
      <2>1. task' = [u \in Tasks |-> task'[u]]
        BY <1>1 DEF Cancel
      <2> QED BY <1>6, <2>1
    <1>8. DownloadTypes'
      BY <1>1, <1>3, <1>7 DEF IInv, Types, DownloadTypes
    <1>9. \A u \in Tasks : task'[u].at = "link" => task'[u].at = task[u].at \/ raced'
      BY <1>2, <1>5, <1>6 DEF Running, Interruptible
    <1>10. \A u \in Tasks : \/ task'[u].at \in {task[u].at, "stopped"} /\ (task'[u].at = task[u].at \/ Running(u))
                            \/ task'[u].at = "link" /\ task[u].at = "publish" /\ raced'
      BY <1>6, <1>9 DEF Running, Interruptible
    <1>11. ~raced' => \A u \in Tasks : Running(u)' => row'[task[u].id].phase = row[task[u].id].phase
      <2> SUFFICES ASSUME ~raced', NEW u \in Tasks, Running(u)'
                   PROVE  task[u].id # s /\ task[u].id \in Ids
        BY <1>3
      <2>1. Running(u)
        BY <1>6 DEF Running, Interruptible
      <2>2. task[u].id \in Ids
        BY <2>1, TaskShape DEF Running, IInv, Types
      <2>3. task[u].id = s => u = row[s].abort /\ Interruptible(u)
        BY <1>2, <2>1
      <2>4. u = row[s].abort /\ Interruptible(u) => task'[u].at = "stopped"
        BY <1>1, <1>5 DEF Cancel, TaskRecord
      <2> QED BY <2>2, <2>3, <2>4 DEF Running
    <1>12. /\ requests' \in [Slots -> Request]
           /\ \A n \in Slots : requests'[n].kind # "idle" =>
                 /\ requests[n].kind # "idle" /\ requests'[n].id = requests[n].id
                 /\ requests'[n].kind = requests[n].kind
                 /\ requests'[n].kind = "answer" => requests'[n].answer = requests[n].answer
      BY <1>1 DEF IInv, Types
    <1>13. /\ \A r \in Ids : partial'[r] \in {0, partial[r]}
           /\ raced => raced'
      BY <1>1, <1>2
    <1> QED BY <1>1, <1>3, <1>6, <1>8, <1>10, <1>11, <1>12, <1>13, Stopped DEF sender

LEMMA Discarded ==
    ASSUME IInv, NEW s \in Ids, Discard(s)
    PROVE  IInv'
    <1>1. /\ partial' = [partial EXCEPT ![s] = 0]
          /\ UNCHANGED <<sender, friend, requests, row, task, file, library, raced>>
      BY DEF Discard
    <1>2. /\ partial' \in [Ids -> {0} \cup Tasks]
          /\ \A r \in Ids : partial'[r] \in {0, partial[r]}
      BY <1>1 DEF IInv, Types, DownloadTypes
    <1>3. DownloadTypes' /\ requests' \in [Slots -> Request]
      BY <1>1, <1>2 DEF IInv, Types, DownloadTypes
    <1> QED BY <1>1, <1>2, <1>3, Stopped DEF sender, friend

(* A stop of either side loses its requests, and the friend's its downloads. *)
LEMMA LostSlots ==
    ASSUME IInv, NEW kind \in {"offer", "answer"}, Lost(kind)
    PROVE  /\ requests' \in [Slots -> Request]
           /\ \A n \in Slots : requests'[n].kind # "idle" =>
                 /\ requests[n].kind # "idle" /\ requests'[n].id = requests[n].id
                 /\ requests'[n].kind = requests[n].kind
                 /\ requests'[n].kind = "answer" => requests'[n].answer = requests[n].answer
    <1>1. \A n \in Slots : requests[n] \in Request
      BY DEF IInv, Types
    <1>2. \A q \in Request \ {Idle} : LET late == [q EXCEPT !.at = "stale"] IN
             /\ late \in Request /\ late.id = q.id /\ late.kind = q.kind /\ q.kind # "idle"
             /\ q.kind = "answer" => late.answer = q.answer
      BY DEF Request
    <1>3. Idle \in Request /\ Idle.kind = "idle"
      BY DEF Request, Idle
    <1>4. \A n \in Slots : \/ requests'[n] \in {requests[n], Idle}
                           \/ requests[n] # Idle /\ requests'[n] = [requests[n] EXCEPT !.at = "stale"]
      BY DEF Lost
    <1>5. ASSUME NEW n \in Slots
          PROVE  /\ requests'[n] \in Request
                 /\ requests'[n].kind # "idle" =>
                      /\ requests[n].kind # "idle" /\ requests'[n].id = requests[n].id
                      /\ requests'[n].kind = requests[n].kind
                      /\ requests'[n].kind = "answer" => requests'[n].answer = requests[n].answer
      <2>1. CASE requests'[n] \in {requests[n], Idle}
        BY <1>1, <1>3, <2>1
      <2>2. CASE requests[n] # Idle /\ requests'[n] = [requests[n] EXCEPT !.at = "stale"]
        BY <1>1, <1>2, <2>2
      <2> QED BY <1>4, <2>1, <2>2
    <1>6. requests' \in [Slots -> Request]
      <2>1. requests' = [n \in Slots |-> requests'[n]]
        BY DEF Lost
      <2> QED BY <1>5, <2>1
    <1> QED BY <1>5, <1>6

LEMMA Stops ==
    ASSUME IInv, StopSender \/ StopFriend
    PROVE  IInv'
    <1>1. CASE StopSender
      <2>1. Lost("offer") /\ UNCHANGED <<clip, outbox, offered, friend, downloads>>
        BY <1>1 DEF StopSender
      <2>2. DownloadTypes'
        BY <2>1 DEF IInv, Types, DownloadTypes, downloads
      <2> QED BY <2>1, <2>2, LostSlots, Stopped DEF friend, downloads
    <1>2. CASE StopFriend
      <2>1. /\ Lost("answer") /\ row' = [s \in Ids |-> NoRow]
            /\ task' = [t \in Tasks |-> IF Running(t) THEN [task[t] EXCEPT !.at = "stopped"] ELSE task[t]]
            /\ UNCHANGED <<sender, inbox, answers, said, file, partial, library, raced>>
        BY <1>2 DEF StopFriend
      <2>2. \A u \in Tasks : Running(u) =>
               LET x == [task[u] EXCEPT !.at = "stopped"] IN
               /\ x \in TaskRecord /\ x.at = "stopped" /\ x # NoTask /\ task[u] # NoTask
               /\ x.id = task[u].id /\ x.into = task[u].into /\ x.got = task[u].got
        <3>1. \A u \in Tasks : Running(u) => task[u] \in TaskRecord /\ task[u] # NoTask
          BY TaskShape DEF IInv, Types, Running
        <3> QED BY <3>1, Shapes DEF TaskRecord, TaskStates
      <2>3. /\ task' \in [Tasks -> {NoTask} \cup TaskRecord]
            /\ \A u \in Tasks :
                  /\ task'[u].id = task[u].id /\ task'[u].into = task[u].into /\ task'[u].got = task[u].got
                  /\ task'[u] = NoTask <=> task[u] = NoTask
                  /\ task'[u].at \in {task[u].at, "stopped"} /\ (task'[u].at = task[u].at \/ Running(u))
                  /\ ~Running(u)'
        <3>1. \A u \in Tasks : task[u] \in {NoTask} \cup TaskRecord
          BY DEF IInv, Types, DownloadTypes
        <3> QED BY <2>1, <2>2, <3>1 DEF Running
      <2>4. row' \in [Ids -> Rows] /\ \A s \in Ids : row'[s].abort = 0
        BY <2>1 DEF Rows, NoRow
      <2>5. DownloadTypes'
        BY <2>1, <2>3, <2>4 DEF IInv, Types, DownloadTypes
      <2> QED BY <2>1, <2>3, <2>4, <2>5, LostSlots, Stopped DEF sender
    <1> QED BY <1>1, <1>2

-----------------------------------------------------------------------------
(* Together.                                                                 *)
LEMMA InitHolds ==
    ASSUME Init
    PROVE  IInv
    <1>1. Types
      <2>1. 1 \in Nat /\ [version |-> 1, size |-> 1] # NoOffer /\ NoOffer \in Versions
        BY DEF NoOffer, Versions
      <2>2. SenderTypes
        BY <2>1 DEF Init, SenderTypes, Versions
      <2>3. FriendTypes
        BY DEF Init, FriendTypes, NoClip
      <2>4. DownloadTypes
        <3>1. NoRow \in Rows /\ <<>> \in Seq(Nat)
          BY DEF Rows, NoRow
        <3> QED BY <3>1 DEF Init, DownloadTypes
      <2> QED BY <2>2, <2>3, <2>4 DEF Init, Types, Request
    <1>2. Known
      BY Shapes DEF Init, Known, InUse, Shared, NoClip, Idle
    <1>3. Truth
      BY DEF Init, Truth, SenderIsNotMisled, Shared, Backed, Taken, NoClip, NoTask, Idle
    <1>4. Places
      BY DEF Init, Places, Created, Writes, NoTask, NoRow
    <1>5. Alone
      BY DEF Init, Alone, Running, Writes, NoTask
    <1> QED BY <1>1, <1>2, <1>3, <1>4, <1>5 DEF IInv

LEMMA NextHolds ==
    ASSUME IInv, [Next]_vars
    PROVE  IInv'
    <1>1. CASE UNCHANGED vars
      <2>1. UNCHANGED <<clip, outbox, offered, file, library, friend, requests, downloads>>
        BY <1>1 DEF vars, sender, downloads
      <2>2. DownloadTypes' /\ requests' \in [Slots -> Request]
        BY <2>1 DEF IInv, Types, DownloadTypes, downloads
      <2> QED BY <2>1, <2>2, Stopped DEF friend, downloads
    <1>2. CASE ShareClip \/ Edit \/ \E s \in Ids : RevokeShare(s) \/ WindowCloses(s)
      BY <1>2, SenderSteps
    <1>3. CASE StopSender \/ StopFriend
      BY <1>3, Stops
    <1>4. CASE Delivery
      BY <1>4, Asked, Replied, AcknowledgedSteps DEF Delivery
    <1>5. ASSUME NEW s \in Ids,
                 \/ Cleanup(s) \/ AnswerOffer(s, TRUE) \/ AnswerOffer(s, FALSE)
                 \/ CancelDownload(s) \/ Dismiss(s) \/ SaveSharedClip(s)
          PROVE  IInv'
      BY <1>5, Discarded, Decided, Cancelled, Saves DEF Cleanup
    <1>6. ASSUME NEW n \in Slots, GiveUp(n)
          PROVE  IInv'
      BY <1>6, AcknowledgedSteps
    <1>7. ASSUME NEW t \in Tasks, Download(t) \/ Dropped(t)
          PROVE  IInv'
      BY <1>7, HandleStored, Opens, Connected, Reads, ConnectionSteps, Publishes, Recorded, Confirmed DEF Download
    <1> QED BY <1>1, <1>2, <1>3, <1>4, <1>5, <1>6, <1>7 DEF Next

(* Every state of every run satisfies the invariant: nothing that            *)
(* service.rs, service_keep.rs and download.rs do in any order breaks it.    *)
THEOREM Invariance == Spec => []IInv
    <1>1. Init => IInv
      BY InitHolds
    <1>2. IInv /\ [Next]_vars => IInv'
      BY NextHolds
    <1> QED BY <1>1, <1>2, PTL DEF Spec

(* What the outbox shows of a share (service.rs, receive_answer and          *)
(* serve_range) is true of the friend, although answers are delivered late,  *)
(* twice or not at all.                                                      *)
THEOREM SenderAlwaysToldTheTruth == Spec => []SenderIsNotMisled
    <1>1. IInv => SenderIsNotMisled
      BY DEF IInv, Truth
    <1> QED BY <1>1, Invariance, PTL

(* What download.rs publishes is the clip its offer describes, whatever the  *)
(* sender does to the file meanwhile, unless a cancelled download went on.   *)
THEOREM LibraryHoldsWhatWasOffered == Spec => []SavedIsWhatWasOffered
    <1>1. IInv => SavedIsWhatWasOffered
      BY DEF IInv, Alone, SavedIsWhatWasOffered
    <1> QED BY <1>1, Invariance, PTL
-----------------------------------------------------------------------------
(* A session that is watched (ShareStreams), whose state has nothing to do    *)
(* with the offers and downloads above.                                      *)
Runway ==
    [at : {"plan", "fetch", "stop"}, from : Nat, next : Nat, until : Nat, read : Nat,
     active : BOOLEAN, filling : BOOLEAN]
StreamTypes ==
    /\ store \subseteq Blocks /\ local \in 0 .. Total /\ wanted \in 0 .. Total
    /\ order \in {"unknown", "known", "absent"} /\ cursor \in Nat \ {0} /\ playing \in BOOLEAN
    /\ runways \in [Runways -> {NoRunway} \cup Runway]
    /\ reading \in [Readers -> 0 .. Total]

(* The claims of two runways have no block in common, and what is under way  *)
(* is a part of the clip.                                                    *)
Holds(w, b) == w # NoRunway /\ w.next <= b /\ b < w.until
ClaimsApart == \A b \in Nat : \A r, s \in Runways : Holds(runways[r], b) /\ Holds(runways[s], b) => r = s
UnderWay == \A r \in Runways : runways[r].at = "fetch" => runways[r].next < runways[r].until
WithinClip == \A r \in Live : runways[r].next <= runways[r].until /\ runways[r].until <= Total
StreamInv == StreamTypes /\ ClaimsApart /\ UnderWay /\ WithinClip

-----------------------------------------------------------------------------
LEMMA StreamSizes ==
    /\ Total \in Nat \ {0} /\ Slack \in Nat \ {0} /\ Ahead \in Nat \ {0}
           /\ RequestBlocks \in Nat \ {0} /\ MaxRunways \in Nat \ {0}
           /\ Index \in Blocks /\ Order \in Seq(Blocks)
           /\ Blocks \subseteq Nat /\ Runways \subseteq Nat
           /\ \A b : b \in Blocks <=> b \in Nat /\ b < Total
<1>1. Total \in Nat \ {0}
  BY StreamsAssumption
<1>. QED BY <1>1, StreamsAssumption DEF Blocks, Runways

LEMMA RunwayFacts ==
    /\ NoRunway \notin Runway
    /\ \A w \in {NoRunway} \cup Runway : w.at # "none" => w \in Runway
    /\ \A w \in Runway : w # NoRunway
    /\ NoRunway.at = "none"
BY DEF NoRunway, Runway

(* A set of numbers that is not empty has a least one.                       *)
LEMMA LeastMember ==
    ASSUME NEW S \in SUBSET Nat, S # {}
    PROVE  \E x \in S : \A y \in S : x <= y
<1>. DEFINE UpTo == {0 .. x : x \in S}
<1>1. UpTo \subseteq FiniteSubsetsOf(Nat) /\ UpTo # {}
  <2>1. \A x \in S : IsFiniteSet(0 .. x) /\ 0 .. x \subseteq Nat
    BY FS_Interval
  <2>. QED BY <2>1 DEF FiniteSubsetsOf
<1>2. PICK B \in UpTo : \A C \in UpTo : <<C, B>> \notin StrictSubsetOrdering(Nat)
  BY <1>1, FS_StrictSubsetOrderingWellFounded, WFMin
<1>3. PICK x \in S : B = 0 .. x
  BY <1>2
<1>4. ASSUME NEW y \in S, y < x PROVE FALSE
  <2>1. 0 .. y \subseteq 0 .. x /\ x \in 0 .. x /\ x \notin 0 .. y /\ 0 .. x \subseteq Nat
    BY <1>4
  <2>2. <<0 .. y, 0 .. x>> \in StrictSubsetOrdering(Nat)
    BY <2>1 DEF StrictSubsetOrdering
  <2>. QED BY <2>2, <1>2, <1>3, <1>4
<1>. QED BY <1>4

LEMMA LeastChosen ==
    ASSUME NEW S \in SUBSET Nat, S # {}
    PROVE  Min(S) \in S /\ \A x \in S : Min(S) <= x
BY LeastMember DEF Min

(* One that is bounded has a greatest one.                                   *)
LEMMA GreatestChosen ==
    ASSUME NEW S \in SUBSET Nat, S # {}, NEW n \in Nat, \A x \in S : x <= n
    PROVE  Max(S) \in S /\ \A x \in S : x <= Max(S)
<1>. DEFINE Gap(x) == n - x
            T == {Gap(x) : x \in S}
<1>1. \A x \in S : Gap(x) \in Nat
  OBVIOUS
<1>2. PICK m \in T : \A y \in T : m <= y
  <2>1. T \in SUBSET Nat /\ T # {}
    BY <1>1
  <2>. HIDE DEF T
  <2>. QED BY <2>1, LeastMember
<1>3. PICK x \in S : m = Gap(x)
  BY <1>2
<1>4. \A y \in S : Gap(x) <= Gap(y)
  BY <1>2, <1>3
<1>5. \A y \in S : x >= y
  BY <1>4
<1>. QED BY <1>5 DEF Max

-----------------------------------------------------------------------------
(* What the runways look for.                                                *)
LEMMA FirstMissingType ==
    ASSUME NEW from \in Nat
    PROVE  FirstMissing(from) \in 0 .. Total
<1>. DEFINE missing == {b \in Blocks : b >= from /\ b >= local /\ b \notin store}
<1>1. missing \in SUBSET Nat /\ missing \subseteq Blocks
  BY StreamSizes
<1>2. CASE missing = {}
  BY <1>2, StreamSizes DEF FirstMissing
<1>3. CASE missing # {}
  <2>1. Min(missing) \in missing
    <3>. HIDE DEF missing
    <3>. QED BY <1>1, <1>3, LeastChosen
  <2>. QED BY <1>3, <2>1, StreamSizes DEF FirstMissing
<1>. QED BY <1>2, <1>3

LEMMA ClaimsAre ==
    ASSUME StreamTypes, NEW b \in Nat
    PROVE  \A r \in Runways : r \in Claimants(b) <=> Holds(runways[r], b)
BY DEF Claimants, Live, Holds

LEMMA RankType ==
    ASSUME NEW b, b \in Range(Order)
    PROVE  Rank(b) \in Nat \ {0}
<1>1. Order \in Seq(Blocks)
  BY StreamSizes
<1>2. DOMAIN Order = 1 .. Len(Order) /\ Len(Order) \in Nat
  BY <1>1
<1>3. \E i \in 1 .. Len(Order) : Order[i] = b
  BY <1>2 DEF Range
<1>4. Rank(b) \in 1 .. Len(Order)
  BY <1>3 DEF Rank
<1>. QED BY <1>2, <1>4

LEMMA CursorType ==
    ASSUME StreamTypes
    PROVE  Cursor \in Nat \ {0} /\ Learned \in {"unknown", "known", "absent"}
BY RankType DEF StreamTypes, Cursor, Learned

(* Nobody else fetches the block a runway goes for.                          *)
LEMMA OrderedIsFree ==
    ASSUME StreamTypes, NEW r \in Runways, Ordered(r) # Total
    PROVE  Ordered(r) \in Blocks /\ Claimants(Ordered(r)) \subseteq {r}
<1>. DEFINE places ==
              {n \in Cursor .. Len(Order) : Learned = "known" /\ WantedHere(Order[n], r)}
<1>1. Order \in Seq(Blocks) /\ DOMAIN Order = 1 .. Len(Order) /\ Len(Order) \in Nat
  BY StreamSizes
<1>2. Cursor \in Nat \ {0}
  BY CursorType
<1>3. places \in SUBSET Nat /\ places # {}
  BY <1>1, <1>2 DEF Ordered
<1>4. Min(places) \in places
  <2>. HIDE DEF places
  <2>. QED BY <1>3, LeastChosen
<1>5. PICK n \in places : n = Min(places)
  BY <1>4
<1>6. n \in Cursor .. Len(Order) /\ WantedHere(Order[n], r)
  OBVIOUS
<1>7. Ordered(r) = Order[n]
  BY <1>3, <1>5 DEF Ordered
<1>8. n \in 1 .. Len(Order)
  BY <1>1, <1>2, <1>6
<1>9. Order[n] \in Blocks
  BY <1>1, <1>8
<1>. QED BY <1>6, <1>7, <1>9 DEF WantedHere

LEMMA OnwardIsFree ==
    ASSUME StreamTypes,
           NEW r \in Runways, runways[r] \in Runway, Onward(r) # Total
    PROVE  Onward(r) \in Blocks /\ Claimants(Onward(r)) \subseteq {r}
<1>1. runways[r].next \in Nat /\ 0 \in Nat
  BY DEF Runway
<1>2. FirstMissing(runways[r].next) \in 0 .. Total /\ FirstMissing(0) \in 0 .. Total
  BY <1>1, FirstMissingType
<1>. QED BY <1>2, StreamSizes DEF Onward
(* The part a runway fetches: it starts where it was told, and nobody else    *)
(* fetches any block of it.                                                  *)
LEMMA FetchesFree ==
    ASSUME StreamTypes, NEW r \in Runways, NEW w \in Runway,
           NEW start \in Blocks, Claimants(start) \subseteq {r}
    PROVE  \E v \in Runway :
               /\ v = Fetches(r, w, start) /\ v.at = "fetch" /\ v.next = start
               /\ start < v.until /\ v.until <= Total
               /\ \A b \in Nat : Holds(v, b) => Claimants(b) \subseteq {r}
<1>. DEFINE ends == {n \in start + 1 .. Total : n <= start + RequestBlocks
                    /\ \A b \in start + 1 .. n - 1 : WantedHere(b, r)}
            v == Fetches(r, w, start)
<1>1. start \in Nat /\ start < Total /\ Total \in Nat /\ RequestBlocks \in Nat \ {0}
  BY StreamSizes
<1>2. start + 1 \in ends
  BY <1>1
<1>3. ends \in SUBSET Nat /\ ends # {} /\ \A x \in ends : x <= Total
  <2>1. start + 1 .. Total \subseteq Nat /\ \A x \in start + 1 .. Total : x <= Total
    BY <1>1
  <2>2. ends \subseteq start + 1 .. Total
    OBVIOUS
  <2>. HIDE DEF ends
  <2>. QED BY <1>2, <2>1, <2>2
<1>4. Max(ends) \in ends
  <2>. HIDE DEF ends
  <2>. QED BY <1>1, <1>3, GreatestChosen
<1>5. v = [w EXCEPT !.at = "fetch", !.next = start, !.until = Max(ends)]
  BY DEF Fetches
<1>6. PICK m \in Nat : m = Max(ends)
  BY <1>3, <1>4
<1>7. start < m /\ m <= Total /\ \A b \in start + 1 .. m - 1 : WantedHere(b, r)
  <2>1. m \in ends
    BY <1>4, <1>6
  <2>. QED BY <1>1, <2>1
<1>8. v \in Runway /\ v.at = "fetch" /\ v.next = start /\ v.until = m
  <2>. HIDE DEF ends, v
  <2>. QED BY <1>1, <1>5, <1>6 DEF Runway
<1>9. ASSUME NEW b \in Nat, Holds(v, b) PROVE Claimants(b) \subseteq {r}
  <2>1. start <= b /\ b < m
    BY <1>8, <1>9 DEF Holds
  <2>2. CASE b = start
    BY <2>2
  <2>3. CASE b # start
    <3>1. b \in start + 1 .. m - 1
      BY <1>1, <2>1, <2>3
    <3>. QED BY <3>1, <1>7 DEF WantedHere
  <2>. QED BY <2>2, <2>3
<1>. QED BY <1>7, <1>8, <1>9

-----------------------------------------------------------------------------
(* What keeps the claims apart.                                              *)

(* Runways that fetch no more than they did.                                 *)
LEMMA ApartShrinks ==
    ASSUME ClaimsApart,
           \A r \in Runways, b \in Nat : Holds(runways'[r], b) => Holds(runways[r], b)
    PROVE  ClaimsApart'
BY DEF ClaimsApart, Holds

(* One that goes for blocks nobody else fetches.                             *)
LEMMA ApartGrows ==
    ASSUME StreamTypes, ClaimsApart, NEW p \in Runways, NEW v,
           runways' = [runways EXCEPT ![p] = v],
           \A b \in Nat : Holds(v, b) => Claimants(b) \subseteq {p}
    PROVE  ClaimsApart'
<1>. SUFFICES ASSUME NEW b \in Nat, NEW r \in Runways, NEW s \in Runways,
                     Holds(runways'[r], b), Holds(runways'[s], b)
              PROVE  r = s
  BY DEF ClaimsApart, Holds
<1>1. \A t \in Runways : runways'[t] = IF t = p THEN v ELSE runways[t]
  BY DEF StreamTypes
<1>2. \A t \in Runways : t \in Claimants(b) <=> Holds(runways[t], b)
  BY ClaimsAre
<1>3. CASE r # p /\ s # p
  BY <1>1, <1>3 DEF ClaimsApart
<1>4. CASE r = p /\ s # p
  <2>1. Claimants(b) \subseteq {p} /\ s \in Claimants(b)
    BY <1>1, <1>2, <1>4
  <2>. QED BY <2>1, <1>4
<1>5. CASE r # p /\ s = p
  <2>1. Claimants(b) \subseteq {p} /\ r \in Claimants(b)
    BY <1>1, <1>2, <1>5
  <2>. QED BY <2>1, <1>5
<1>. QED BY <1>3, <1>4, <1>5

-----------------------------------------------------------------------------
(* The steps.                                                                *)
LEMMA StreamStart ==
    ASSUME StreamsInit PROVE StreamInv
<1>1. StreamTypes
  BY StreamSizes DEF StreamsInit, StreamTypes
<1>2. \A r \in Runways : runways[r] = NoRunway
  BY DEF StreamsInit
<1>. QED BY <1>1, <1>2, RunwayFacts DEF StreamInv, ClaimsApart, Holds, UnderWay, WithinClip, Live

LEMMA NotedType ==
    ASSUME StreamTypes, NEW b \in Blocks
    PROVE  /\ Noted(b) \in [Runways -> {NoRunway} \cup Runway]
           /\ \A r \in Runways : runways[r] = NoRunway => Noted(b)[r] = NoRunway
           /\ \A r \in Runways : runways[r] # NoRunway =>
                 /\ Noted(b)[r] \in Runway /\ Noted(b)[r].at = runways[r].at
                 /\ Noted(b)[r].next = runways[r].next /\ Noted(b)[r].until = runways[r].until
<1>. SUFFICES ASSUME NEW r \in Runways
              PROVE  /\ Noted(b)[r] \in {NoRunway} \cup Runway
                     /\ runways[r] = NoRunway => Noted(b)[r] = NoRunway
                     /\ runways[r] # NoRunway =>
                          /\ Noted(b)[r] \in Runway /\ Noted(b)[r].at = runways[r].at
                          /\ Noted(b)[r].next = runways[r].next
                          /\ Noted(b)[r].until = runways[r].until
  BY DEF Noted
<1>1. b \in Nat
  BY StreamSizes
<1>2. CASE Serves(runways[r], b)
  <2>1. runways[r] \in Runway
    BY <1>2 DEF Serves, StreamTypes
  <2>2. Noted(b)[r] = [runways[r] EXCEPT !.read = IF b > runways[r].read THEN b ELSE runways[r].read,
                                         !.active = TRUE, !.filling = FALSE]
    BY <1>2 DEF Noted
  <2>3. PICK n \in Nat : n = IF b > runways[r].read THEN b ELSE runways[r].read
    BY <1>1, <2>1 DEF Runway
  <2>4. Noted(b)[r] = [runways[r] EXCEPT !.read = n, !.active = TRUE, !.filling = FALSE]
    BY <2>2, <2>3
  <2>5. /\ Noted(b)[r] \in Runway /\ Noted(b)[r].at = runways[r].at
        /\ Noted(b)[r].next = runways[r].next /\ Noted(b)[r].until = runways[r].until
    BY <2>1, <2>4 DEF Runway
  <2>. QED BY <2>1, <2>5, RunwayFacts
<1>3. CASE ~Serves(runways[r], b)
  BY <1>3 DEF Noted, StreamTypes
<1>. QED BY <1>2, <1>3

LEMMA NewRunwayType ==
    ASSUME NEW b \in Blocks
    PROVE  NewRunway(b) \in Runway /\ NewRunway(b).at = "plan"
           /\ NewRunway(b).next = b /\ NewRunway(b).until = b
BY StreamSizes DEF NewRunway, Runway

LEMMA ReplaceableType ==
    ASSUME NEW ws, NEW r \in Replaceable(ws)
    PROVE  r \in Runways
<1>. DEFINE free == {q \in Runways : ws[q] = NoRunway}
<1>1. CASE free # {}
  <2>1. free \in SUBSET Nat /\ free \subseteq Runways
    BY StreamSizes
  <2>2. Min(free) \in free
    <3>. HIDE DEF free
    <3>. QED BY <1>1, <2>1, LeastChosen
  <2>3. Replaceable(ws) = {Min(free)}
    BY <1>1 DEF Replaceable
  <2>. QED BY <2>2, <2>3
<1>2. CASE free = {}
  BY <1>2 DEF Replaceable
<1>. QED BY <1>1, <1>2

(* Steps that leave what the runways fetch.                                  *)
LEMMA SameRunways ==
    ASSUME StreamInv, runways' = runways, StreamTypes'
    PROVE  StreamInv'
BY DEF StreamInv, ClaimsApart, Holds, UnderWay, WithinClip, Live

NoNewClaim(r) ==
    \/ runways'[r] = NoRunway
    \/ /\ runways'[r] # NoRunway
       /\ runways'[r].next <= runways'[r].until /\ runways'[r].until <= Total
       /\ runways'[r].at = "fetch" => runways'[r].next < runways'[r].until
       /\ \A b \in Nat : Holds(runways'[r], b) => Holds(runways[r], b)

LEMMA FewerClaims ==
    ASSUME StreamInv, StreamTypes', \A r \in Runways : NoNewClaim(r)
    PROVE  StreamInv'
<1>1. \A r \in Runways, b \in Nat : Holds(runways'[r], b) => Holds(runways[r], b)
  BY DEF NoNewClaim, Holds
<1>2. ClaimsApart'
  BY <1>1, ApartShrinks DEF StreamInv
<1>3. UnderWay' /\ WithinClip'
  BY RunwayFacts DEF NoNewClaim, UnderWay, WithinClip, Live
<1>. QED BY <1>2, <1>3 DEF StreamInv

LEMMA SameClaim ==
    ASSUME StreamInv, NEW r \in Runways,
           runways[r] = NoRunway => runways'[r] = NoRunway,
           runways[r] # NoRunway =>
              /\ runways'[r] \in Runway /\ runways'[r].at = runways[r].at
              /\ runways'[r].next = runways[r].next /\ runways'[r].until = runways[r].until
    PROVE  NoNewClaim(r)
<1>1. CASE runways[r] = NoRunway
  BY <1>1 DEF NoNewClaim
<1>2. CASE runways[r] # NoRunway
  BY <1>2, RunwayFacts DEF StreamInv, UnderWay, WithinClip, Live, Holds, NoNewClaim
<1>. QED BY <1>1, <1>2

LEMMA WaitStep ==
    ASSUME StreamInv, NEW i \in Readers, Wait(i) PROVE StreamInv'
<1>. DEFINE b == reading[i]
<1>1. b \in Blocks /\ b \in 0 .. Total
  BY StreamSizes DEF StreamInv, StreamTypes, Wait, Waiting
<1>2. wanted' \in 0 .. Total /\ cursor' \in Nat \ {0}
  BY <1>1, RankType DEF StreamInv, StreamTypes, Wait, NoteRead
<1>. HIDE DEF b
<1>3. CASE runways' = Noted(b)
  <2>1. StreamTypes'
    BY <1>1, <1>2, <1>3, NotedType DEF StreamInv, StreamTypes, Wait
  <2>2. \A r \in Runways :
          /\ runways[r] = NoRunway => runways'[r] = NoRunway
          /\ runways[r] # NoRunway =>
              /\ runways'[r] \in Runway /\ runways'[r].at = runways[r].at
              /\ runways'[r].next = runways[r].next /\ runways'[r].until = runways[r].until
    BY <1>1, <1>3, NotedType DEF StreamInv
  <2>. QED BY <2>1, <2>2, FewerClaims, SameClaim
<1>4. ASSUME NEW r \in Replaceable(Noted(b)),
             runways' = [Noted(b) EXCEPT ![r] = NewRunway(b)]
      PROVE  StreamInv'
  <2>1. r \in Runways
    BY ReplaceableType
  <2>2. Noted(b) \in [Runways -> {NoRunway} \cup Runway] /\ NewRunway(b) \in Runway
    BY <1>1, NotedType, NewRunwayType DEF StreamInv
  <2>3. StreamTypes'
    BY <1>1, <1>2, <1>4, <2>1, <2>2 DEF StreamInv, StreamTypes, Wait
  <2>4. runways'[r] = NewRunway(b) /\ \A s \in Runways \ {r} : runways'[s] = Noted(b)[s]
    BY <1>4, <2>1, <2>2
  <2>5. ASSUME NEW s \in Runways, s # r
        PROVE  /\ runways[s] = NoRunway => runways'[s] = NoRunway
               /\ runways[s] # NoRunway =>
                    /\ runways'[s] \in Runway /\ runways'[s].at = runways[s].at
                    /\ runways'[s].next = runways[s].next /\ runways'[s].until = runways[s].until
    BY <1>1, <2>4, <2>5, NotedType DEF StreamInv
  <2>6. /\ runways'[r] # NoRunway /\ runways'[r].at = "plan"
        /\ runways'[r].next = b /\ runways'[r].until = b
    BY <1>1, <2>4, NewRunwayType, RunwayFacts
  <2>7. b <= Total /\ b \in Nat /\ \A c \in Nat : ~(b <= c /\ c < b)
    BY <1>1, StreamSizes
  <2>8. ASSUME NEW s \in Runways
        PROVE  NoNewClaim(s)
    <3>1. CASE s = r
      BY <2>6, <2>7, <3>1, StreamSizes DEF NoNewClaim, Holds
    <3>2. CASE s # r
      BY <2>5, <3>2, SameClaim
    <3>. QED BY <3>1, <3>2
  <2>. QED BY <2>3, <2>8, FewerClaims
<1>. QED BY <1>3, <1>4 DEF Wait, b

LEMMA ArriveStep ==
    ASSUME StreamInv, NEW i \in Readers, Arrive(i) PROVE StreamInv'
<1>. DEFINE b == reading[i]
<1>1. b \in Blocks /\ b \in 0 .. Total
  BY StreamSizes DEF StreamInv, StreamTypes, Arrive, Waiting
<1>2. wanted' \in 0 .. Total /\ cursor' \in Nat \ {0}
  BY <1>1, RankType DEF StreamInv, StreamTypes, Arrive, NoteRead
<1>3. runways' = Noted(b) /\ reading' \in [Readers -> 0 .. Total]
  BY StreamSizes DEF StreamInv, StreamTypes, Arrive
<1>. HIDE DEF b
<1>4. StreamTypes'
  BY <1>1, <1>2, <1>3, NotedType DEF StreamInv, StreamTypes, Arrive
<1>5. \A r \in Runways :
        /\ runways[r] = NoRunway => runways'[r] = NoRunway
        /\ runways[r] # NoRunway =>
            /\ runways'[r] \in Runway /\ runways'[r].at = runways[r].at
            /\ runways'[r].next = runways[r].next /\ runways'[r].until = runways[r].until
  BY <1>1, <1>3, NotedType DEF StreamInv
<1>. QED BY <1>4, <1>5, FewerClaims, SameClaim

LEMMA PlanStep ==
    ASSUME StreamInv, NEW r \in Runways, Plan(r) PROVE StreamInv'
<1>. DEFINE w == runways[r]
<1>1. w \in Runway /\ runways \in [Runways -> {NoRunway} \cup Runway]
  BY DEF Plan, StreamInv, StreamTypes
<1>2. order' \in {"unknown", "known", "absent"} /\ cursor' \in Nat \ {0}
  BY CursorType DEF Plan, StreamInv
<1>3. ASSUME runways' \in [Runways -> {NoRunway} \cup Runway] PROVE StreamTypes'
  BY <1>2, <1>3 DEF Plan, StreamInv, StreamTypes
<1>4. CASE runways' = runways
  BY <1>1, <1>3, <1>4, SameRunways
<1>5. CASE runways' = [runways EXCEPT ![r] = [w EXCEPT !.at = "stop"]]
  <2>1. [w EXCEPT !.at = "stop"] \in Runway
    BY <1>1 DEF Runway
  <2>2. StreamTypes'
    BY <1>1, <1>3, <1>5, <2>1
  <2>3. /\ \A s \in Runways \ {r} : runways'[s] = runways[s]
        /\ runways'[r].next = w.next /\ runways'[r].until = w.until /\ runways'[r].at = "stop"
        /\ runways'[r] # NoRunway /\ w # NoRunway
    BY <1>1, <1>5, <2>1, RunwayFacts DEF Runway
  <2>. HIDE DEF w
  <2>. QED BY <2>2, <2>3, FewerClaims DEF NoNewClaim, StreamInv, UnderWay, WithinClip, Live, Holds, w
<1>6. ASSUME NEW u \in Runway, NEW start \in Blocks, Claimants(start) \subseteq {r},
             runways' = [runways EXCEPT ![r] = Fetches(r, u, start)]
      PROVE  StreamInv'
  <2>1. PICK v \in Runway :
           /\ v = Fetches(r, u, start) /\ v.at = "fetch" /\ v.next = start
           /\ start < v.until /\ v.until <= Total
           /\ \A b \in Nat : Holds(v, b) => Claimants(b) \subseteq {r}
    <3>1. StreamTypes
      BY DEF StreamInv
    <3>. QED BY <1>6, <3>1, FetchesFree
  <2>2. v.until \in Nat /\ start \in Nat
    BY StreamSizes DEF Runway
  <2>3. ClaimsApart'
    BY <1>6, <2>1, ApartGrows DEF StreamInv
  <2>4. StreamTypes'
    BY <1>1, <1>3, <1>6, <2>1
  <2>5. runways'[r] = v /\ \A s \in Runways \ {r} : runways'[s] = runways[s]
    BY <1>1, <1>6, <2>1
  <2>6. start <= v.until
    BY <2>1, <2>2
  <2>7. UnderWay' /\ WithinClip'
    BY <2>1, <2>5, <2>6 DEF StreamInv, UnderWay, WithinClip, Live
  <2>. QED BY <2>3, <2>4, <2>7 DEF StreamInv
<1>7. CASE Ordered(r) # Total /\ runways' = [runways EXCEPT ![r] =
             Fetches(r, [w EXCEPT !.filling = TRUE, !.from = Ordered(r), !.read = Ordered(r)],
                           Ordered(r))]
  <2>1. Ordered(r) \in Blocks /\ Claimants(Ordered(r)) \subseteq {r}
    BY <1>7, OrderedIsFree DEF StreamInv
  <2>2. [w EXCEPT !.filling = TRUE, !.from = Ordered(r), !.read = Ordered(r)] \in Runway
    BY <1>1, <2>1, StreamSizes DEF Runway
  <2>. QED BY <1>6, <1>7, <2>1, <2>2
<1>8. CASE Onward(r) # Total /\ runways' = [runways EXCEPT ![r] = Fetches(r, w, Onward(r))]
  <2>1. Onward(r) \in Blocks /\ Claimants(Onward(r)) \subseteq {r}
    BY <1>1, <1>8, OnwardIsFree DEF StreamInv
  <2>. QED BY <1>1, <1>6, <1>8, <2>1
<1>9. \/ runways' = runways
      \/ runways' = [runways EXCEPT ![r] = [w EXCEPT !.at = "stop"]]
      \/ Ordered(r) # Total /\ runways' = [runways EXCEPT ![r] =
             Fetches(r, [w EXCEPT !.filling = TRUE, !.from = Ordered(r), !.read = Ordered(r)],
                           Ordered(r))]
      \/ Onward(r) # Total /\ runways' = [runways EXCEPT ![r] = Fetches(r, w, Onward(r))]
  BY DEF Plan
<1>. QED BY <1>4, <1>5, <1>7, <1>8, <1>9

LEMMA DeliverStep ==
    ASSUME StreamInv, NEW r \in Runways, Deliver(r) PROVE StreamInv'
<1>. DEFINE w == runways[r]
            v == [w EXCEPT !.next = w.next + 1, !.at = IF w.next + 1 = w.until THEN "plan" ELSE w.at]
<1>1. /\ w \in Runway /\ runways \in [Runways -> {NoRunway} \cup Runway]
      /\ w.at = "fetch" /\ runways' = [runways EXCEPT ![r] = v]
  BY DEF Deliver, StreamInv, StreamTypes
<1>2. /\ w.next \in Nat /\ w.until \in Nat /\ Total \in Nat
      /\ w.next < w.until /\ w.until <= Total
  BY <1>1, StreamSizes, RunwayFacts DEF StreamInv, UnderWay, WithinClip, Live, Runway
<1>3. v \in Runway /\ v.next = w.next + 1 /\ v.until = w.until
      /\ v.at = IF w.next + 1 = w.until THEN "plan" ELSE w.at
  <2>1. PICK n \in Nat : n = w.next + 1
    BY <1>2
  <2>2. PICK a \in {"plan", "fetch"} : a = IF w.next + 1 = w.until THEN "plan" ELSE w.at
    BY <1>1
  <2>3. v = [w EXCEPT !.next = n, !.at = a]
    BY <2>1, <2>2
  <2>4. [w EXCEPT !.next = n, !.at = a] \in Runway
    BY <1>1 DEF Runway
  <2>. QED BY <1>1, <2>1, <2>2, <2>3, <2>4 DEF Runway
<1>4. w.next \in Blocks
  BY <1>2, StreamSizes
<1>5. v.next <= v.until /\ v.until <= Total /\ (v.at = "fetch" => v.next < v.until)
  BY <1>1, <1>2, <1>3
<1>6. \A b \in Nat : Holds(v, b) => Holds(w, b)
  BY <1>1, <1>2, <1>3, RunwayFacts DEF Holds
<1>7. runways'[r] = v /\ \A s \in Runways \ {r} : runways'[s] = runways[s]
  BY <1>1
<1>. HIDE DEF v
<1>8. StreamTypes'
  BY <1>1, <1>3, <1>4 DEF Deliver, StreamInv, StreamTypes
<1>9. v # NoRunway
  BY <1>3, RunwayFacts
<1>. HIDE DEF w
<1>. QED BY <1>5, <1>6, <1>7, <1>8, <1>9, FewerClaims DEF NoNewClaim, StreamInv, UnderWay, WithinClip, Live, w

(* A runway that fails, is stopped or is left by its reader; the session's    *)
(* end.                                                                      *)
LEMMA RunwayEnds ==
    ASSUME StreamInv, StreamTypes',
           \A s \in Runways : runways'[s] = NoRunway \/ runways'[s] = runways[s]
    PROVE  StreamInv'
BY FewerClaims DEF NoNewClaim, StreamInv, UnderWay, WithinClip, Live

LEMMA InterruptedStep ==
    ASSUME StreamInv, NEW r \in Runways, Interrupted(r) PROVE StreamInv'
<1>1. /\ runways[r] \in Runway /\ runways[r] # NoRunway
      /\ runways \in [Runways -> {NoRunway} \cup Runway]
  BY DEF Interrupted, StreamInv, StreamTypes
<1>2. CASE runways' = [runways EXCEPT ![r] = NoRunway]
  <2>1. StreamTypes'
    BY <1>1, <1>2 DEF Interrupted, StreamInv, StreamTypes
  <2>. QED BY <1>1, <1>2, <2>1, RunwayEnds
<1>3. CASE runways' = [runways EXCEPT ![r].at = "plan"]
  <2>1. PICK v : v = [runways[r] EXCEPT !.at = "plan"]
    OBVIOUS
  <2>2. v \in Runway /\ v.at = "plan" /\ v.next = runways[r].next /\ v.until = runways[r].until
    BY <1>1, <2>1 DEF Runway
  <2>3. runways' = [runways EXCEPT ![r] = v]
    BY <1>3, <2>1
  <2>4. StreamTypes'
    BY <1>1, <2>2, <2>3 DEF Interrupted, StreamInv, StreamTypes
  <2>5. runways'[r] = v /\ v # NoRunway /\ \A s \in Runways \ {r} : runways'[s] = runways[s]
    BY <1>1, <2>2, <2>3, RunwayFacts
  <2>. QED BY <1>1, <2>2, <2>4, <2>5, FewerClaims DEF NoNewClaim, StreamInv, UnderWay, WithinClip, Live, Holds
<1>. QED BY <1>2, <1>3 DEF Interrupted

LEMMA ExpireStep ==
    ASSUME StreamInv, NEW r \in Runways, Expire(r) PROVE StreamInv'
<1>1. /\ runways[r] \in Runway /\ runways[r] # NoRunway
      /\ runways \in [Runways -> {NoRunway} \cup Runway]
  BY DEF Expire, StreamInv, StreamTypes
<1>2. PICK v : v = [runways[r] EXCEPT !.active = FALSE]
  OBVIOUS
<1>3. v \in Runway /\ v.at = runways[r].at /\ v.next = runways[r].next /\ v.until = runways[r].until
  BY <1>1, <1>2 DEF Runway
<1>4. runways' = [runways EXCEPT ![r] = v]
  BY <1>2 DEF Expire
<1>5. StreamTypes'
  BY <1>1, <1>3, <1>4 DEF Expire, StreamInv, StreamTypes
<1>6. runways'[r] = v /\ v # NoRunway /\ \A s \in Runways \ {r} : runways'[s] = runways[s]
  BY <1>1, <1>3, <1>4, RunwayFacts
<1>. QED BY <1>1, <1>3, <1>5, <1>6, FewerClaims DEF NoNewClaim, StreamInv, UnderWay, WithinClip, Live, Holds

LEMMA StreamStep ==
    ASSUME StreamInv, [StreamsNext]_streamsVars PROVE StreamInv'
<1>1. ASSUME NEW i \in Readers, NEW b \in Blocks, ReadAt(i, b) PROVE StreamInv'
  <2>1. StreamTypes'
    BY <1>1, StreamSizes DEF ReadAt, cache, StreamInv, StreamTypes
  <2>. QED BY <1>1, <2>1, SameRunways DEF ReadAt, cache
<1>2. ASSUME NEW i \in Readers, GiveUpRead(i) PROVE StreamInv'
  <2>1. StreamTypes'
    BY <1>2, StreamSizes DEF GiveUpRead, cache, StreamInv, StreamTypes
  <2>. QED BY <1>2, <2>1, SameRunways DEF GiveUpRead, cache
<1>3. ASSUME NEW r \in Runways, Stop(r) PROVE StreamInv'
  <2>1. StreamTypes'
    BY <1>3 DEF Stop, StreamInv, StreamTypes
  <2>. QED BY <1>3, <2>1, RunwayEnds DEF Stop, StreamInv, StreamTypes
<1>4. CASE LocalChanges
  <2>1. StreamTypes'
    BY <1>4 DEF LocalChanges, cache, StreamInv, StreamTypes
  <2>. QED BY <1>4, <2>1, SameRunways DEF LocalChanges, cache
<1>5. CASE CloseSession
  <2>1. StreamTypes'
    BY <1>5 DEF CloseSession, StreamInv, StreamTypes
  <2>. QED BY <1>5, <2>1, RunwayEnds DEF CloseSession
<1>6. CASE UNCHANGED streamsVars
  <2>1. StreamTypes'
    BY <1>6 DEF streamsVars, cache, StreamInv, StreamTypes
  <2>. QED BY <1>6, <2>1, SameRunways DEF streamsVars, cache
<1>. QED BY <1>1, <1>2, <1>3, <1>4, <1>5, <1>6, WaitStep, ArriveStep, PlanStep, DeliverStep,
            InterruptedStep, ExpireStep DEF StreamsNext, Round, Run

-----------------------------------------------------------------------------
(* streams_runway.rs: whatever runways start, jump ahead to a seek, merge and *)
(* fail, no two requests under way ask the friend for the same block.        *)
THEOREM NothingAskedForTwice == StreamsSpec => []NothingFetchedTwice
<1>1. StreamsInit => StreamInv
  BY StreamStart
<1>2. StreamInv /\ [StreamsNext]_streamsVars => StreamInv'
  BY StreamStep
<1>3. StreamInv => NothingFetchedTwice
  <2>. SUFFICES ASSUME StreamInv, NEW b \in Blocks PROVE Cardinality(Claimants(b)) <= 1
    BY DEF NothingFetchedTwice
  <2>1. b \in Nat
    BY StreamSizes
  <2>2. \A r \in Runways : r \in Claimants(b) <=> Holds(runways[r], b)
    BY <2>1, ClaimsAre DEF StreamInv
  <2>3. \A r, s \in Claimants(b) : r = s
    BY <2>1, <2>2 DEF StreamInv, ClaimsApart, Claimants, Live
  <2>4. CASE Claimants(b) = {}
    BY <2>4, FS_EmptySet
  <2>5. CASE Claimants(b) # {}
    <3>1. PICK r \in Claimants(b) : TRUE
      BY <2>5
    <3>2. Claimants(b) = {r}
      BY <2>3, <3>1
    <3>3. Cardinality({r}) = 1
      BY FS_Singleton
    <3>. QED BY <3>2, <3>3
  <2>. QED BY <2>4, <2>5
<1>. QED BY <1>1, <1>2, <1>3, PTL DEF StreamsSpec
=============================================================================
