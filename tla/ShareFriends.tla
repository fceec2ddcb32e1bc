---------------------------- MODULE ShareFriends ----------------------------
(***************************************************************************)
(* Friend requests, acceptances and removals between copies of Clipture    *)
(* that talk to each other directly (src/src-tauri/src/sharing: store.rs,  *)
(* server.rs, node.rs, service.rs, service_lifecycle.rs).                  *)
(*                                                                         *)
(* Every peer keeps its own list on disk and hears of the others only      *)
(* through requests that run concurrently, each on a stream of its own: a  *)
(* request may be handled long after it was sent, its reply may be lost,   *)
(* and either side may go away in between.                                 *)
(*                                                                         *)
(* Abstractions: names, nicknames, the limits of the lists (200 friends,   *)
(* 32 requests) and clips are left out; presence is the set of friends a   *)
(* peer takes to be online, without its timestamps; a hidden ("appear      *)
(* offline") node counts as offline.  A peer is identified by its key, so  *)
(* nobody can speak for somebody else.                                     *)
(***************************************************************************)
EXTENDS Naturals, FiniteSets

CONSTANTS
    Peers,
    MaxActs,     \* user actions on the friends list (bound)
    MaxTrouble,  \* exchanges that fail although both sides are up, and stops of
                 \* somebody's Clipture (bound)
    MaxFlight    \* hellos and goodbyes to one peer awaiting replies at once (bound)

ASSUME BoundsAssumption ==
    MaxActs \in Nat /\ MaxTrouble \in Nat /\ MaxFlight \in Nat

VARIABLES
    status,       \* StoredState::friends: [p][q] is what p's list says of q
    undelivered,  \* friends whose `undelivered` flag is set
    goodbyes,     \* StoredState::goodbyes: removed, not told yet
    blocked,      \* StoredState::blocked: declined
    online,       \* peers whose node is up and visible
    seen,         \* PresenceBook: friends taken to be online
    pending,      \* deliver_to tasks spawned and not run yet
    untold,       \* friends the node has yet to announce itself to
    flight,       \* requests under way
    asked,        \* history: p's user added q, or accepted q's request
    acts, losses, stops

vars == <<status, undelivered, goodbyes, blocked, online, seen, pending, untold,
          flight, asked, acts, losses, stops>>
storeVars == <<status, undelivered, goodbyes, blocked>>
counters == <<acts, losses, stops>>

Statuses == {"none", "outgoing", "incoming", "accepted"}
Kinds == {"hello", "goodbye", "presence"}
Replies == {"ok", "notFriends"}

(* A request under way: sent, past the first check of its handler (a hello), *)
(* or answered; `heard` is FALSE once its sender no longer waits for a reply.  *)
Exchange == [from : Peers, to : Peers, what : Kinds,
             stage : {"sent", "checked", "answered"}, reply : Replies, heard : BOOLEAN]

Request(p, q, kind) ==
    [from |-> p, to |-> q, what |-> kind, stage |-> "sent", reply |-> "ok", heard |-> TRUE]

(* Requests of some kinds whose outcome p still waits for. *)
Awaited(p, q, kinds) == {x \in flight : x.from = p /\ x.to = q /\ x.what \in kinds /\ x.heard}

Init ==
    /\ status = [p \in Peers |-> [q \in Peers |-> "none"]]
    /\ undelivered = [p \in Peers |-> {}]
    /\ goodbyes = [p \in Peers |-> {}]
    /\ blocked = [p \in Peers |-> {}]
    /\ online = {}
    /\ seen = [p \in Peers |-> {}]
    /\ pending = [p \in Peers |-> {}]
    /\ untold = [p \in Peers |-> {}]
    /\ flight = {}
    /\ asked = [p \in Peers |-> {}]
    /\ acts = 0 /\ losses = 0 /\ stops = 0

Plus(f, p, q) == [f EXCEPT ![p] = @ \cup {q}]
Minus(f, p, q) == [f EXCEPT ![p] = @ \ {q}]
Set(p, q, value) == [status EXCEPT ![p][q] = value]

Send(p, q, kind) ==
    /\ Cardinality(Awaited(p, q, {"hello", "goodbye"})) < MaxFlight
    /\ flight' = flight \cup {Request(p, q, kind)}

(* deliver_soon: a delivery pass to everybody, if the node is up.            *)
DeliverAll(p) ==
    pending' = IF p \in online THEN [pending EXCEPT ![p] = Peers \ {p}] ELSE pending

-----------------------------------------------------------------------------
(* What the user does. *)

Act == acts < MaxActs /\ acts' = acts + 1

(* StoredState::add_friend: adding somebody who asked accepts them.          *)
AddFriend(p, q) ==
    /\ Act
    /\ status' = Set(p, q, CASE status[p][q] = "incoming" -> "accepted"
                             [] status[p][q] = "none" -> "outgoing"
                             [] OTHER -> status[p][q])
    /\ undelivered' = Plus(undelivered, p, q)
    /\ goodbyes' = Minus(goodbyes, p, q)
    /\ blocked' = Minus(blocked, p, q)
    /\ asked' = Plus(asked, p, q)
    /\ DeliverAll(p)
    /\ UNCHANGED <<online, seen, untold, flight, losses, stops>>

(* StoredState::accept_request.                                              *)
AcceptFriend(p, q) ==
    /\ Act
    /\ status[p][q] = "incoming"
    /\ status' = Set(p, q, "accepted")
    /\ undelivered' = Plus(undelivered, p, q)
    /\ asked' = Plus(asked, p, q)
    /\ DeliverAll(p)
    /\ UNCHANGED <<goodbyes, blocked, online, seen, untold, flight, losses, stops>>

(* StoredState::remove_friend and SharingService::remove_friend: a declined  *)
(* request is blocked, anybody else is owed a goodbye, sent now if possible. *)
Declined(p, q) == IF status[p][q] = "incoming" THEN Plus(blocked, p, q) ELSE blocked
Owed(p, q) == IF status[p][q] = "incoming" THEN goodbyes ELSE Plus(goodbyes, p, q)
RemoveFriend(p, q) ==
    /\ Act
    /\ status[p][q] # "none"
    /\ status' = Set(p, q, "none")
    /\ undelivered' = Minus(undelivered, p, q)
    /\ goodbyes' = Owed(p, q)
    /\ blocked' = Declined(p, q)
    /\ IF q \in goodbyes'[p] /\ p \in online THEN Send(p, q, "goodbye") ELSE UNCHANGED flight
    /\ UNCHANGED <<online, seen, pending, untold, asked, losses, stops>>

-----------------------------------------------------------------------------
(* The node. *)

(* SharingService::start: presence starts empty, every accepted friend is to *)
(* be told, and a delivery pass is due.                                      *)
GoOnline(p) ==
    /\ p \notin online
    /\ online' = online \cup {p}
    /\ seen' = [seen EXCEPT ![p] = {}]
    /\ untold' = [untold EXCEPT ![p] = {q \in Peers : status[p][q] = "accepted"}]
    /\ pending' = [pending EXCEPT ![p] = Peers \ {p}]
    /\ UNCHANGED <<storeVars, flight, asked, counters>>

(* Exit, crash or "off": friends taken to be online may hear of it; what this *)
(* peer was sent and had not handled fails; its own requests may still be    *)
(* handled, but it hears no reply.                                           *)
GoOffline(p) ==
    /\ losses + stops < MaxTrouble /\ stops' = stops + 1
    /\ p \in online
    /\ online' = online \ {p}
    /\ \E told \in SUBSET seen[p] :
         seen' = [q \in Peers |-> IF q = p THEN {}
                                  ELSE IF q \in told THEN seen[q] \ {p} ELSE seen[q]]
    /\ pending' = [pending EXCEPT ![p] = {}]
    /\ untold' = [untold EXCEPT ![p] = {}]
    /\ flight' = {x \in flight : p \notin {x.from, x.to} \/ (x.to = p /\ x.stage = "answered")}
                 \cup {[x EXCEPT !.heard = FALSE] :
                          x \in {y \in flight : y.from = p /\ y.stage # "answered"}}
    /\ UNCHANGED <<storeVars, asked, acts, losses>>

(* deliver_to: a goodbye that is owed comes before anything else.            *)
DeliverTo(p, q) ==
    /\ p \in online /\ q \in pending[p]
    /\ pending' = Minus(pending, p, q)
    /\ IF q \in goodbyes[p] THEN Send(p, q, "goodbye")
       ELSE IF q \in undelivered[p] /\ status[p][q] # "incoming" THEN Send(p, q, "hello")
       ELSE UNCHANGED flight
    /\ UNCHANGED <<storeVars, online, seen, untold, asked, counters>>

(* The part of each heartbeat that needs no presence: deliver_requests and   *)
(* deliver_goodbyes.                                                         *)
(* Mutant: the heartbeat sends the requests only.                            *)
RetryRequests(p, q) ==
    /\ p \in online
    /\ Awaited(p, q, {"hello", "goodbye"}) = {}
    /\ status[p][q] = "outgoing" /\ q \in undelivered[p] /\ Send(p, q, "hello")
    /\ UNCHANGED <<storeVars, online, seen, pending, untold, asked, counters>>
Retry(p, q) ==
    /\ p \in online
    /\ Awaited(p, q, {"hello", "goodbye"}) = {}
    /\ \/ status[p][q] = "outgoing" /\ q \in undelivered[p] /\ Send(p, q, "hello")
       \/ q \in goodbyes[p] /\ Send(p, q, "goodbye")
    /\ UNCHANGED <<storeVars, online, seen, pending, untold, asked, counters>>

(* PresenceBook::expire: friends are refreshed by every heartbeat they       *)
(* answer; only an entry of somebody who is none any more runs out.          *)
Expire(p, q) ==
    /\ q \in seen[p] /\ status[p][q] # "accepted"
    /\ seen' = Minus(seen, p, q)
    /\ UNCHANGED <<storeVars, online, pending, untold, flight, asked, counters>>

-----------------------------------------------------------------------------
(* Requests. *)

(* The reply to x is on its way, or nobody waits for it.                     *)
Answered(x, reply) ==
    (flight \ {x}) \cup (IF x.heard THEN {[x EXCEPT !.stage = "answered", !.reply = reply]} ELSE {})

(* contact_if_friend_since: a friend that is newly seen gets what waits.     *)
Contact(p, q, list) ==
    IF list[p][q] = "accepted" /\ q \notin seen[p]
    THEN seen' = Plus(seen, p, q) /\ pending' = Plus(pending, p, q)
    ELSE UNCHANGED <<seen, pending>>

(* announce, to accepted friends at the start and to those taken to be       *)
(* online on each heartbeat, and server.rs `answer` on the other side:        *)
(* somebody who is not on the list at all hears that, and is sent the goodbye *)
(* still owed.  A presence request carries nothing that could be out of date, *)
(* so only its reply is late.                                                *)
Announce(p, q) ==
    /\ p \in online /\ q \in seen[p] \cup untold[p]
    /\ Awaited(p, q, {"presence"}) = {}
    /\ untold' = Minus(untold, p, q)
    /\ LET answered == [Request(p, q, "presence") EXCEPT !.stage = "answered"]
       IN  \/ /\ q \notin online
              /\ seen' = Minus(seen, p, q)
              /\ UNCHANGED <<flight, pending>>
           \/ /\ q \in online /\ status[q][p] = "none"
              /\ flight' = flight \cup {[answered EXCEPT !.reply = "notFriends"]}
              /\ pending' = IF p \in goodbyes[q] THEN Plus(pending, q, p) ELSE pending
              /\ UNCHANGED seen
           \/ /\ q \in online /\ status[q][p] # "none"
              /\ flight' = flight \cup {answered}
              /\ Contact(q, p, status)
    /\ UNCHANGED <<storeVars, online, asked, counters>>

(* A hello from somebody we removed, who has not heard it yet, is answered    *)
(* with the removal.                                                         *)
RefuseHello(x) ==
    /\ x.stage = "sent" /\ x.what = "hello" /\ x.to \in online
    /\ x.from \in goodbyes[x.to]
    /\ flight' = Answered(x, "notFriends")
    /\ pending' = Plus(pending, x.to, x.from)
    /\ UNCHANGED <<storeVars, online, seen, untold, asked, counters>>

(* The check whether a goodbye is owed and the change of the list are two    *)
(* steps: the list is locked for each of them only.                          *)
CheckHello(x) ==
    /\ x.stage = "sent" /\ x.what = "hello" /\ x.to \in online
    /\ x.from \notin goodbyes[x.to]
    /\ flight' = (flight \ {x}) \cup {[x EXCEPT !.stage = "checked"]}
    /\ UNCHANGED <<storeVars, online, seen, pending, untold, asked, counters>>

(* StoredState::receive_hello: what it makes of each entry of the list.      *)
(* Mutants: somebody who was declined may ask again; asking is enough to     *)
(* become a friend.                                                          *)
GreetedAgain(s, isBlocked) ==
    CASE s = "none" -> "incoming" [] s = "outgoing" -> "accepted" [] OTHER -> s
GreetedAtOnce(s, isBlocked) == IF isBlocked THEN s ELSE "accepted"
Greeted(s, isBlocked) ==
    IF isBlocked THEN s
    ELSE CASE s = "none" -> "incoming" [] s = "outgoing" -> "accepted" [] OTHER -> s

ReceiveHello(x) ==
    LET p == x.to
        q == x.from
        next == Greeted(status[p][q], q \in blocked[p])
    IN  /\ x.stage = "checked" /\ x.what = "hello" /\ p \in online
        /\ status' = Set(p, q, next)
        /\ undelivered' = IF status[p][q] = "outgoing" /\ next = "accepted"
                          THEN Plus(undelivered, p, q) ELSE undelivered
        /\ flight' = Answered(x, "ok")
        /\ Contact(p, q, status')
        /\ UNCHANGED <<goodbyes, blocked, online, untold, asked, counters>>

(* StoredState::forget_peer.                                                 *)
ReceiveGoodbye(x) ==
    /\ x.stage = "sent" /\ x.what = "goodbye" /\ x.to \in online
    /\ status' = Set(x.to, x.from, "none")
    /\ undelivered' = Minus(undelivered, x.to, x.from)
    /\ flight' = Answered(x, "ok")
    /\ UNCHANGED <<goodbyes, blocked, online, seen, pending, untold, asked, counters>>

(* A reply reaches the sender: node.rs notes the contact, then the caller    *)
(* (send_hello, send_goodbye, announce) records the outcome for whatever its *)
(* list says of that peer by now.                                            *)
Acknowledged(x) ==
    /\ x.stage = "answered" /\ x.reply = "ok" /\ x.from \in online
    /\ flight' = flight \ {x}
    /\ undelivered' = IF x.what = "hello" THEN Minus(undelivered, x.from, x.to) ELSE undelivered
    /\ goodbyes' = IF x.what = "goodbye" THEN Minus(goodbyes, x.from, x.to) ELSE goodbyes
    /\ Contact(x.from, x.to, status)
    /\ UNCHANGED <<status, blocked, online, untold, asked, counters>>

(* forget_if_unfriended: only an accepted friend is dropped.                 *)
Forget(x) ==
    /\ x.stage = "answered" /\ x.reply = "notFriends" /\ x.from \in online
    /\ flight' = flight \ {x}
    /\ IF status[x.from][x.to] = "accepted"
       THEN /\ status' = Set(x.from, x.to, "none")
            /\ undelivered' = Minus(undelivered, x.from, x.to)
            /\ seen' = Minus(seen, x.from, x.to)
       ELSE UNCHANGED <<status, undelivered, seen>>
    /\ UNCHANGED <<goodbyes, blocked, online, pending, untold, asked, counters>>

(* A request to somebody who is not there.                                   *)
Fail(x) ==
    /\ x.stage = "sent" /\ x.to \notin online
    /\ flight' = flight \ {x}
    /\ seen' = IF x.heard THEN Minus(seen, x.from, x.to) ELSE seen
    /\ UNCHANGED <<storeVars, online, pending, untold, asked, counters>>

(* A connection that breaks, or a reply that takes too long: the request may *)
(* still be handled.  The other side is taken to be offline unless it has     *)
(* been heard of since.                                                      *)
Lose(x) ==
    /\ losses + stops < MaxTrouble /\ losses' = losses + 1
    /\ x.heard
    /\ \/ flight' = flight \ {x}
       \/ x.stage # "answered" /\ flight' = (flight \ {x}) \cup {[x EXCEPT !.heard = FALSE]}
    /\ seen' \in {seen, Minus(seen, x.from, x.to)}
    /\ UNCHANGED <<storeVars, online, pending, untold, asked, acts, stops>>

Advance(x) ==
    \/ RefuseHello(x) \/ CheckHello(x) \/ ReceiveHello(x) \/ ReceiveGoodbye(x)
    \/ Acknowledged(x) \/ Forget(x) \/ Fail(x)

User(p, q) == AddFriend(p, q) \/ AcceptFriend(p, q) \/ RemoveFriend(p, q)

Node(p, q) == DeliverTo(p, q) \/ Announce(p, q) \/ Retry(p, q) \/ Expire(p, q)

Next ==
    \/ \E p, q \in Peers : p # q /\ (User(p, q) \/ Node(p, q))
    \/ \E p \in Peers : GoOnline(p) \/ GoOffline(p)
    \/ \E x \in flight : Advance(x) \/ Lose(x)

Spec == Init /\ [][Next]_vars

(* A peer's node comes back, its tasks run, its heartbeat beats, and a       *)
(* request its sender waits for is handled and its reply taken, or it fails: *)
(* each is a task of its own.  Nothing makes the user act, and nothing makes *)
(* a request be handled whose sender has gone.                               *)
Handled(x) == RefuseHello(x) \/ CheckHello(x) \/ ReceiveHello(x) \/ ReceiveGoodbye(x) \/ Fail(x)
Heard(x) == Acknowledged(x) \/ Forget(x)
Fairness ==
    /\ \A p \in Peers : WF_vars(GoOnline(p))
    /\ \A p \in Peers : \A q \in Peers \ {p} :
         /\ WF_vars(DeliverTo(p, q)) /\ WF_vars(Announce(p, q))
         /\ WF_vars(Retry(p, q)) /\ WF_vars(Expire(p, q))
         /\ WF_vars(\E x \in Awaited(p, q, {"presence"}) : Heard(x))
         /\ WF_vars(\E x \in Awaited(p, q, {"hello", "goodbye"}) : Handled(x))
         /\ WF_vars(\E x \in Awaited(p, q, {"hello", "goodbye"}) : Heard(x))

FairSpec == Spec /\ Fairness

-----------------------------------------------------------------------------
(* Properties. *)

(* The type of the state; only a node that is up knows of others or has work. *)
TypeOK ==
    /\ status \in [Peers -> [Peers -> Statuses]]
    /\ undelivered \in [Peers -> SUBSET Peers]
    /\ goodbyes \in [Peers -> SUBSET Peers]
    /\ blocked \in [Peers -> SUBSET Peers]
    /\ online \in SUBSET Peers
    /\ seen \in [Peers -> SUBSET Peers]
    /\ pending \in [Peers -> SUBSET Peers]
    /\ \A p \in Peers : seen[p] \cup pending[p] \cup untold[p] # {} => p \in online
    /\ untold \in [Peers -> SUBSET Peers]
    /\ flight \in SUBSET Exchange
    /\ asked \in [Peers -> SUBSET Peers]
    /\ acts \in 0 .. MaxActs /\ losses \in 0 .. MaxTrouble /\ stops \in 0 .. MaxTrouble

(* "Both sides agreed" (model.rs, FriendStatus::Accepted): nobody is a friend *)
(* of somebody who never asked, and never of somebody its own user did not   *)
(* ask or accept, whatever requests are late, lost or repeated.              *)
Consent ==
    \A p, q \in Peers : status[p][q] = "accepted" => q \in asked[p] /\ p \in asked[q]

(* Declining a request is final until our own user adds that person: a       *)
(* stranger cannot re-appear by asking again.                                *)
DeclinedStayOut == \A p \in Peers : \A q \in blocked[p] : status[p][q] = "none"

(* A removal is settled at both ends: whoever is owed a goodbye acknowledges *)
(* it sooner or later, and a friend who has not handled it yet drops us,      *)
(* unless our user lists them again.                                         *)
Unaware(q, p) ==
    /\ q \in goodbyes[p] /\ status[q][p] = "accepted"
    /\ \A x \in Awaited(p, q, {"goodbye"}) : x.stage = "sent"
RemovalSettles ==
    \A p \in Peers : \A q \in Peers \ {p} :
        /\ q \in goodbyes[p] ~> q \notin goodbyes[p]
        /\ Unaware(q, p) ~> (status[q][p] # "accepted" \/ status[p][q] # "none")
=============================================================================
