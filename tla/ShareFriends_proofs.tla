------------------------ MODULE ShareFriends_proofs ------------------------
(* What ShareFriends promises about consent, for any set of peers and any    *)
(* number of actions, losses and stops.                                      *)
EXTENDS ShareFriends, TLAPS

(* Whoever counts as asking did ask: a request on somebody's list, a hello   *)
(* under way and one still to be delivered all go back to a user's action.   *)
Requested ==
    /\ \A p, q \in Peers :
         /\ status[p][q] \in {"outgoing", "accepted"} => q \in asked[p]
         /\ status[p][q] \in {"incoming", "accepted"} => p \in asked[q]
         /\ q \in undelivered[p] => q \in asked[p]
    /\ \A x \in flight : x.what = "hello" => x.to \in asked[x.from]

IInv == TypeOK /\ Requested /\ DeclinedStayOut

-----------------------------------------------------------------------------
(* The helpers keep the type of what they change. *)

(* A peer joins one of the lists.                                            *)
LEMMA PlusType ==
    ASSUME NEW f \in [Peers -> SUBSET Peers], NEW p \in Peers, NEW q \in Peers
    PROVE  /\ Plus(f, p, q) \in [Peers -> SUBSET Peers]
           /\ \A r \in Peers : Plus(f, p, q)[r] = IF r = p THEN f[p] \cup {q} ELSE f[r]
    BY DEF Plus

(* What a node sends is a request of its own.                                *)
LEMMA RequestType ==
    ASSUME NEW p \in Peers, NEW q \in Peers, NEW kind \in Kinds
    PROVE  /\ Request(p, q, kind) \in Exchange
           /\ Request(p, q, kind).from = p /\ Request(p, q, kind).to = q
           /\ Request(p, q, kind).what = kind
    BY DEF Request, Exchange, Replies

(* A reply changes neither who asked whom nor for what.                      *)
LEMMA AnsweredType ==
    ASSUME TypeOK, NEW x \in flight, NEW reply \in Replies
    PROVE  /\ Answered(x, reply) \in SUBSET Exchange
           /\ \A y \in Answered(x, reply) :
                \E z \in flight : y.from = z.from /\ y.to = z.to /\ y.what = z.what
    <1>1. flight \subseteq Exchange
      BY DEF TypeOK
    <1> DEFINE a == [x EXCEPT !.stage = "answered", !.reply = reply]
    <1>2. a \in Exchange /\ a.from = x.from /\ a.to = x.to /\ a.what = x.what
      BY <1>1 DEF Exchange
    <1> HIDE DEF a
    <1>3. Answered(x, reply) \subseteq flight \cup {a}
      BY DEF Answered, a
    <1> QED BY <1>1, <1>2, <1>3

(* A message in flight that was not there before is the one just sent.       *)
LEMMA SendType ==
    ASSUME TypeOK, NEW p \in Peers, NEW q \in Peers, NEW kind \in Kinds,
           Send(p, q, kind)
    PROVE  /\ flight' \in SUBSET Exchange
           /\ \A y \in flight' : y \in flight \/ (y.from = p /\ y.to = q /\ y.what = kind)
    BY RequestType DEF Send, TypeOK

(* Contact with a friend changes what is known of who is online, no list.    *)
LEMMA ContactType ==
    ASSUME TypeOK, NEW p \in Peers, NEW q \in Peers, NEW list, p \in online,
           Contact(p, q, list), online' = online, untold' = untold
    PROVE  /\ seen' \in [Peers -> SUBSET Peers] /\ pending' \in [Peers -> SUBSET Peers]
           /\ \A r \in Peers : seen'[r] \cup pending'[r] \cup untold'[r] # {} => r \in online'
    <1>1. seen' = seen \/ seen' = Plus(seen, p, q)
      BY DEF Contact
    <1>2. pending' = pending \/ pending' = Plus(pending, p, q)
      BY DEF Contact
    <1>3. /\ seen' \in [Peers -> SUBSET Peers]
          /\ \A r \in Peers : seen'[r] # {} => r \in online
      <2>1. seen \in [Peers -> SUBSET Peers] /\ \A r \in Peers : seen[r] # {} => r \in online
        BY DEF TypeOK
      <2>2. /\ Plus(seen, p, q) \in [Peers -> SUBSET Peers]
            /\ \A r \in Peers : Plus(seen, p, q)[r] = IF r = p THEN seen[p] \cup {q} ELSE seen[r]
        BY <2>1, PlusType
      <2> QED BY <1>1, <2>1, <2>2
    <1>4. /\ pending' \in [Peers -> SUBSET Peers]
          /\ \A r \in Peers : pending'[r] # {} => r \in online
      <2>1. pending \in [Peers -> SUBSET Peers] /\ \A r \in Peers : pending[r] # {} => r \in online
        BY DEF TypeOK
      <2>2. /\ Plus(pending, p, q) \in [Peers -> SUBSET Peers]
            /\ \A r \in Peers : Plus(pending, p, q)[r] = IF r = p THEN pending[p] \cup {q} ELSE pending[r]
        BY <2>1, PlusType
      <2> QED BY <1>2, <2>1, <2>2
    <1>5. \A r \in Peers : untold'[r] # {} => r \in online
      BY DEF TypeOK
    <1> QED BY <1>3, <1>4, <1>5

-----------------------------------------------------------------------------
(* The state has four parts that most actions touch one or two of. *)

StoreOK ==
    /\ status \in [Peers -> [Peers -> Statuses]]
    /\ undelivered \in [Peers -> SUBSET Peers]
    /\ goodbyes \in [Peers -> SUBSET Peers]
    /\ blocked \in [Peers -> SUBSET Peers]
NodesOK ==
    /\ online \in SUBSET Peers
    /\ seen \in [Peers -> SUBSET Peers]
    /\ pending \in [Peers -> SUBSET Peers]
    /\ untold \in [Peers -> SUBSET Peers]
    /\ \A p \in Peers : seen[p] \cup pending[p] \cup untold[p] # {} => p \in online
CountersOK == acts \in 0 .. MaxActs /\ losses \in 0 .. MaxTrouble /\ stops \in 0 .. MaxTrouble

(* The type invariant by the part of the state it is about.                  *)
LEMMA Parts ==
    TypeOK <=> /\ StoreOK /\ NodesOK /\ CountersOK
               /\ flight \in SUBSET Exchange /\ asked \in [Peers -> SUBSET Peers]
    BY DEF TypeOK, StoreOK, NodesOK, CountersOK

(* Only what flight gains has to be looked at when no list changes.          *)
LEMMA ListsUnchanged ==
    ASSUME IInv, UNCHANGED <<status, blocked, asked>>,
           flight' \in SUBSET Exchange, NodesOK', CountersOK',
           undelivered' \in [Peers -> SUBSET Peers], goodbyes' \in [Peers -> SUBSET Peers],
           \A p \in Peers : undelivered'[p] \subseteq undelivered[p],
           \A y \in flight' : y.what = "hello" =>
               \/ y.to \in undelivered[y.from]
               \/ \E z \in flight : z.what = "hello" /\ z.from = y.from /\ z.to = y.to
    PROVE  IInv'
    <1>1. DeclinedStayOut'
      BY DEF IInv, DeclinedStayOut
    <1>2. \A y \in flight' : y.what = "hello" => y.to \in asked[y.from]
      <2> SUFFICES ASSUME NEW y \in flight', y.what = "hello"
                   PROVE  y.to \in asked[y.from]
        OBVIOUS
      <2>1. y.from \in Peers /\ y.to \in Peers
        BY DEF Exchange
      <2> QED BY <2>1 DEF IInv, Requested
    <1>3. \A p, q \in Peers : q \in undelivered'[p] => q \in asked[p]
      BY DEF IInv, Requested
    <1>4. Requested'
      BY <1>2, <1>3 DEF IInv, Requested
    <1>5. TypeOK'
      BY DEF IInv, TypeOK, NodesOK, CountersOK
    <1> QED BY <1>1, <1>4, <1>5 DEF IInv

(* Adding a friend is the request its acceptance will refer to.              *)
LEMMA AddFriendStep ==
    ASSUME BoundsAssumption, IInv, NEW p \in Peers, NEW q \in Peers, AddFriend(p, q)
    PROVE  IInv'
    <1> DEFINE s == CASE status[p][q] = "incoming" -> "accepted"
                      [] status[p][q] = "none" -> "outgoing"
                      [] OTHER -> status[p][q]
    <1>a. /\ status' = Set(p, q, s) /\ undelivered' = Plus(undelivered, p, q)
          /\ goodbyes' = Minus(goodbyes, p, q) /\ blocked' = Minus(blocked, p, q)
          /\ asked' = Plus(asked, p, q) /\ DeliverAll(p) /\ Act
          /\ UNCHANGED <<online, seen, untold, flight, losses, stops>>
      BY DEF AddFriend
    <1>b. /\ undelivered \in [Peers -> SUBSET Peers] /\ goodbyes \in [Peers -> SUBSET Peers]
          /\ blocked \in [Peers -> SUBSET Peers] /\ asked \in [Peers -> SUBSET Peers]
          /\ flight \in SUBSET Exchange
          /\ TypeOK /\ Requested /\ DeclinedStayOut
      BY DEF IInv, TypeOK
    <1>c. status[p][q] \in Statuses
      BY <1>b DEF TypeOK
    <1>1. /\ s \in Statuses /\ s # "none"
          /\ s = "accepted" => status[p][q] \in {"incoming", "accepted"}
          /\ s = "incoming" => status[p][q] = "incoming"
      BY <1>c DEF Statuses
    <1> HIDE DEF s
    <1>2. /\ status' \in [Peers -> [Peers -> Statuses]]
          /\ \A r, t \in Peers : status'[r][t] = IF r = p /\ t = q THEN s ELSE status[r][t]
      BY <1>a, <1>b, <1>1 DEF Set, TypeOK
    <1>3. /\ undelivered' \in [Peers -> SUBSET Peers]
          /\ \A r \in Peers : undelivered'[r] = IF r = p THEN undelivered[p] \cup {q} ELSE undelivered[r]
      BY <1>a, <1>b DEF Plus
    <1>4. /\ asked' \in [Peers -> SUBSET Peers]
          /\ \A r \in Peers : asked'[r] = IF r = p THEN asked[p] \cup {q} ELSE asked[r]
      BY <1>a, <1>b DEF Plus
    <1>5. goodbyes' \in [Peers -> SUBSET Peers]
      BY <1>a, <1>b DEF Minus
    <1>6. /\ blocked' \in [Peers -> SUBSET Peers]
          /\ \A r \in Peers : blocked'[r] = IF r = p THEN blocked[p] \ {q} ELSE blocked[r]
      BY <1>a, <1>b DEF Minus
    <1>7. NodesOK'
      BY <1>a, <1>b DEF TypeOK, NodesOK, DeliverAll
    <1>8. CountersOK'
      BY <1>a, <1>b DEF TypeOK, CountersOK, Act, BoundsAssumption
    <1>9. Requested'
      <2>1. \A r, t \in Peers : t \in asked[r] => t \in asked'[r]
        BY <1>4
      <2>2. q \in asked'[p]
        BY <1>4
      <2>3. \A x \in flight' : x.what = "hello" => x.to \in asked'[x.from]
        <3> SUFFICES ASSUME NEW x \in flight, x.what = "hello"
                     PROVE  x.to \in asked'[x.from]
          BY <1>a
        <3>1. x.to \in Peers /\ x.from \in Peers
          BY <1>b DEF Exchange
        <3> QED BY <1>b, <3>1, <2>1 DEF Requested
      <2>4. \A r, t \in Peers : t \in undelivered'[r] => t \in asked'[r]
        BY <1>b, <1>3, <2>1, <2>2 DEF Requested
      <2>5. \A r, t \in Peers : status'[r][t] \in {"outgoing", "accepted"} => t \in asked'[r]
        BY <1>b, <1>2, <2>1, <2>2 DEF Requested
      <2>6. \A r, t \in Peers : status'[r][t] \in {"incoming", "accepted"} => r \in asked'[t]
        BY <1>b, <1>1, <1>2, <2>1 DEF Requested
      <2> QED BY <2>3, <2>4, <2>5, <2>6 DEF Requested
    <1>10. DeclinedStayOut'
      BY <1>b, <1>2, <1>6 DEF DeclinedStayOut
    <1>11. flight' \in SUBSET Exchange
      BY <1>a, <1>b
    <1>12. StoreOK'
      BY <1>2, <1>3, <1>5, <1>6 DEF StoreOK
    <1>13. TypeOK'
      BY <1>4, <1>7, <1>8, <1>11, <1>12 DEF TypeOK, StoreOK, NodesOK, CountersOK
    <1> QED BY <1>9, <1>10, <1>13 DEF IInv

(* A friend is accepted only where a request of theirs came in.              *)
LEMMA AcceptFriendStep ==
    ASSUME BoundsAssumption, IInv, NEW p \in Peers, NEW q \in Peers, AcceptFriend(p, q)
    PROVE  IInv'
    <1>a. /\ status[p][q] = "incoming" /\ status' = Set(p, q, "accepted")
          /\ undelivered' = Plus(undelivered, p, q)
          /\ asked' = Plus(asked, p, q) /\ DeliverAll(p) /\ Act
          /\ UNCHANGED <<goodbyes, blocked, online, seen, untold, flight, losses, stops>>
      BY DEF AcceptFriend
    <1>b. TypeOK /\ Requested /\ DeclinedStayOut
      BY DEF IInv
    <1>2. /\ status' \in [Peers -> [Peers -> Statuses]]
          /\ \A r, t \in Peers : status'[r][t] = IF r = p /\ t = q THEN "accepted" ELSE status[r][t]
      BY <1>a, <1>b DEF Set, TypeOK, Statuses
    <1>3. /\ undelivered' \in [Peers -> SUBSET Peers]
          /\ \A r \in Peers : undelivered'[r] = IF r = p THEN undelivered[p] \cup {q} ELSE undelivered[r]
      BY <1>a, <1>b DEF Plus, TypeOK
    <1>4. /\ asked' \in [Peers -> SUBSET Peers]
          /\ \A r \in Peers : asked'[r] = IF r = p THEN asked[p] \cup {q} ELSE asked[r]
      BY <1>a, <1>b DEF Plus, TypeOK
    <1>5. NodesOK' /\ CountersOK'
      BY <1>a, <1>b DEF TypeOK, NodesOK, CountersOK, DeliverAll, Act, BoundsAssumption
    <1>6. TypeOK'
      BY <1>a, <1>b, <1>2, <1>3, <1>4, <1>5 DEF TypeOK, NodesOK, CountersOK
    <1>7. DeclinedStayOut'
      BY <1>a, <1>b, <1>2 DEF DeclinedStayOut, TypeOK
    <1>8. \A r, t \in Peers : t \in asked[r] => t \in asked'[r]
      BY <1>4
    <1>9. Requested'
      <2>1. \A x \in flight' : x.what = "hello" => x.to \in asked'[x.from]
        <3> SUFFICES ASSUME NEW x \in flight, x.what = "hello"
                     PROVE  x.to \in asked'[x.from]
          BY <1>a
        <3> QED BY <1>b, <1>8 DEF Requested, TypeOK, Exchange
      <2>2. \A r, t \in Peers : t \in undelivered'[r] => t \in asked'[r]
        BY <1>b, <1>3, <1>4 DEF Requested
      <2>3. \A r, t \in Peers : status'[r][t] \in {"outgoing", "accepted"} => t \in asked'[r]
        BY <1>b, <1>2, <1>4 DEF Requested
      <2>4. \A r, t \in Peers : status'[r][t] \in {"incoming", "accepted"} => r \in asked'[t]
        BY <1>a, <1>b, <1>2, <1>8 DEF Requested
      <2> QED BY <2>1, <2>2, <2>3, <2>4 DEF Requested
    <1> QED BY <1>6, <1>7, <1>9 DEF IInv

(* Somebody leaves a list: RemoveFriend, ReceiveGoodbye and Forget.          *)
LEMMA Dropped ==
    ASSUME IInv, NEW p \in Peers, NEW q \in Peers,
           status' = Set(p, q, "none"),
           undelivered' = Minus(undelivered, p, q),
           blocked' \in {blocked, Plus(blocked, p, q)},
           goodbyes' \in [Peers -> SUBSET Peers],
           asked' = asked, NodesOK', CountersOK', flight' \in SUBSET Exchange,
           \A y \in flight' : y.what = "hello" =>
               \E z \in flight : z.what = "hello" /\ z.from = y.from /\ z.to = y.to
    PROVE  IInv'
    <1>b. TypeOK /\ Requested /\ DeclinedStayOut
      BY DEF IInv
    <1>2. /\ status' \in [Peers -> [Peers -> Statuses]]
          /\ \A r, t \in Peers : status'[r][t] = IF r = p /\ t = q THEN "none" ELSE status[r][t]
      BY <1>b DEF Set, TypeOK, Statuses
    <1>3. /\ undelivered' \in [Peers -> SUBSET Peers]
          /\ \A r \in Peers : undelivered'[r] \subseteq undelivered[r]
      BY <1>b DEF Minus, TypeOK
    <1>4. /\ blocked' \in [Peers -> SUBSET Peers]
          /\ \A r \in Peers : blocked'[r] \subseteq IF r = p THEN blocked[p] \cup {q} ELSE blocked[r]
      BY <1>b DEF Plus, TypeOK
    <1>5. TypeOK'
      BY <1>b, <1>2, <1>3, <1>4 DEF TypeOK, NodesOK, CountersOK
    <1>6. DeclinedStayOut'
      <2> SUFFICES ASSUME NEW r \in Peers, NEW t \in blocked'[r]
                   PROVE  status'[r][t] = "none"
        BY DEF DeclinedStayOut
      <2>1. t \in Peers
        BY <1>4
      <2> QED BY <1>b, <1>2, <1>4, <2>1 DEF DeclinedStayOut
    <1>7. Requested'
      <2>1. \A y \in flight' : y.what = "hello" => y.to \in asked'[y.from]
        BY <1>b DEF Requested
      <2>2. \A r, t \in Peers : t \in undelivered'[r] => t \in asked'[r]
        BY <1>b, <1>3 DEF Requested
      <2>3. \A r, t \in Peers : /\ status'[r][t] \in {"outgoing", "accepted"} => t \in asked'[r]
                                /\ status'[r][t] \in {"incoming", "accepted"} => r \in asked'[t]
        BY <1>b, <1>2 DEF Requested
      <2> QED BY <2>1, <2>2, <2>3 DEF Requested
    <1> QED BY <1>5, <1>6, <1>7 DEF IInv

(* A removal ends the friendship; a declined request is remembered.          *)
LEMMA RemoveFriendStep ==
    ASSUME BoundsAssumption, IInv, NEW p \in Peers, NEW q \in Peers, RemoveFriend(p, q)
    PROVE  IInv'
    <1>b. TypeOK
      BY DEF IInv
    <1>1. /\ status' = Set(p, q, "none") /\ undelivered' = Minus(undelivered, p, q)
          /\ asked' = asked
      BY DEF RemoveFriend
    <1>2. blocked' \in {blocked, Plus(blocked, p, q)}
      BY DEF RemoveFriend, Declined
    <1>3. goodbyes' = goodbyes \/ goodbyes' = Plus(goodbyes, p, q)
      BY DEF RemoveFriend, Owed
    <1>4. goodbyes' \in [Peers -> SUBSET Peers]
      BY <1>b, <1>3 DEF Plus, TypeOK
    <1>5. NodesOK' /\ CountersOK'
      BY <1>b DEF RemoveFriend, TypeOK, NodesOK, CountersOK, Act, BoundsAssumption
    <1>6. flight' = flight \/ Send(p, q, "goodbye")
      BY DEF RemoveFriend
    <1>7. /\ flight' \in SUBSET Exchange
          /\ \A y \in flight' : y \in flight \/ y.what = "goodbye"
      <2>1. CASE flight' = flight
        BY <1>b, <2>1 DEF TypeOK
      <2>2. CASE Send(p, q, "goodbye")
        BY <1>b, <2>2, SendType DEF Kinds
      <2> QED BY <1>6, <2>1, <2>2
    <1> QED BY <1>1, <1>2, <1>4, <1>5, <1>7, Dropped

-----------------------------------------------------------------------------
(* The node. *)

(* A node starts with its lists as they were.                                *)
LEMMA GoOnlineStep ==
    ASSUME IInv, NEW p \in Peers, GoOnline(p)
    PROVE  IInv'
    <1>1. NodesOK'
      BY DEF GoOnline, IInv, TypeOK, NodesOK
    <1>2. CountersOK'
      BY DEF GoOnline, IInv, TypeOK, CountersOK, counters
    <1>3. /\ UNCHANGED <<status, undelivered, goodbyes, blocked, asked, flight>>
          /\ flight \in SUBSET Exchange /\ undelivered \in [Peers -> SUBSET Peers]
          /\ goodbyes \in [Peers -> SUBSET Peers]
      BY DEF GoOnline, IInv, TypeOK, storeVars
    <1> QED BY <1>1, <1>2, <1>3, ListsUnchanged

(* A node that stops forgets what it was doing, not its lists.               *)
LEMMA GoOfflineStep ==
    ASSUME BoundsAssumption, IInv, NEW p \in Peers, GoOffline(p)
    PROVE  IInv'
    <1>b. TypeOK
      BY DEF IInv
    <1>1. PICK told \in SUBSET seen[p] :
            seen' = [q \in Peers |-> IF q = p THEN {}
                                     ELSE IF q \in told THEN seen[q] \ {p} ELSE seen[q]]
      BY DEF GoOffline
    <1>2. NodesOK'
      <2>1. /\ online' = online \ {p} /\ pending' = [pending EXCEPT ![p] = {}]
            /\ untold' = [untold EXCEPT ![p] = {}]
        BY DEF GoOffline
      <2> QED BY <1>b, <1>1, <2>1 DEF TypeOK, NodesOK
    <1>3. CountersOK'
      BY <1>b DEF GoOffline, TypeOK, CountersOK, BoundsAssumption
    <1>4. /\ UNCHANGED <<status, undelivered, goodbyes, blocked, asked>>
          /\ undelivered \in [Peers -> SUBSET Peers] /\ goodbyes \in [Peers -> SUBSET Peers]
      BY <1>b DEF GoOffline, TypeOK, storeVars
    <1>5. \A y \in flight' : \E z \in flight : y = z \/ y = [z EXCEPT !.heard = FALSE]
      BY DEF GoOffline
    <1>6. \A z \in flight : /\ [z EXCEPT !.heard = FALSE] \in Exchange
                            /\ [z EXCEPT !.heard = FALSE].what = z.what
                            /\ [z EXCEPT !.heard = FALSE].from = z.from
                            /\ [z EXCEPT !.heard = FALSE].to = z.to
      BY <1>b DEF TypeOK, Exchange
    <1>7. flight' \in SUBSET Exchange
      BY <1>b, <1>5, <1>6 DEF TypeOK
    <1>8. \A y \in flight' : \E z \in flight : y.what = z.what /\ y.from = z.from /\ y.to = z.to
      BY <1>5, <1>6
    <1> QED BY <1>2, <1>3, <1>4, <1>7, <1>8, ListsUnchanged

(* A delivery sends what the lists say is owed.                              *)
LEMMA DeliverToStep ==
    ASSUME IInv, NEW p \in Peers, NEW q \in Peers, DeliverTo(p, q) \/ Retry(p, q)
    PROVE  IInv'
    <1>b. TypeOK
      BY DEF IInv
    <1>1. /\ UNCHANGED <<status, undelivered, goodbyes, blocked, asked>>
          /\ undelivered \in [Peers -> SUBSET Peers] /\ goodbyes \in [Peers -> SUBSET Peers]
      BY <1>b DEF DeliverTo, Retry, TypeOK, storeVars
    <1>2. \/ UNCHANGED flight
          \/ Send(p, q, "goodbye")
          \/ q \in undelivered[p] /\ Send(p, q, "hello")
      BY DEF DeliverTo, Retry
    <1>3. NodesOK'
      BY <1>b DEF DeliverTo, Retry, Minus, TypeOK, NodesOK
    <1>4. CountersOK'
      BY <1>b DEF DeliverTo, Retry, TypeOK, CountersOK, counters
    <1>5. /\ flight' \in SUBSET Exchange
          /\ \A y \in flight' : \/ y \in flight
                                \/ y.what = "goodbye"
                                \/ y.from = p /\ y.to = q /\ q \in undelivered[p]
      <2>1. CASE UNCHANGED flight
        BY <1>b, <2>1 DEF TypeOK
      <2>2. CASE Send(p, q, "goodbye")
        BY <1>b, <2>2, SendType DEF Kinds
      <2>3. CASE q \in undelivered[p] /\ Send(p, q, "hello")
        BY <1>b, <2>3, SendType DEF Kinds
      <2> QED BY <1>2, <2>1, <2>2, <2>3
    <1> QED BY <1>1, <1>3, <1>4, <1>5, ListsUnchanged

(* Silence is not a removal.                                                 *)
LEMMA ExpireStep ==
    ASSUME IInv, NEW p \in Peers, NEW q \in Peers, Expire(p, q)
    PROVE  IInv'
    <1>1. NodesOK'
      BY DEF Expire, IInv, TypeOK, NodesOK, Minus
    <1>2. CountersOK'
      BY DEF Expire, IInv, TypeOK, CountersOK, counters
    <1>3. /\ UNCHANGED <<status, undelivered, goodbyes, blocked, asked, flight>>
          /\ flight \in SUBSET Exchange /\ undelivered \in [Peers -> SUBSET Peers]
          /\ goodbyes \in [Peers -> SUBSET Peers]
      BY DEF Expire, IInv, TypeOK, storeVars
    <1> QED BY <1>1, <1>2, <1>3, ListsUnchanged

(* A presence announcement carries nothing that changes a list.              *)
LEMMA AnnounceStep ==
    ASSUME IInv, NEW p \in Peers, NEW q \in Peers, Announce(p, q)
    PROVE  IInv'
    <1>b. TypeOK
      BY DEF IInv
    <1> DEFINE answered == [Request(p, q, "presence") EXCEPT !.stage = "answered"]
    <1>1. \A r \in Replies : /\ [answered EXCEPT !.reply = r] \in Exchange
                             /\ [answered EXCEPT !.reply = r].what = "presence"
      BY DEF Request, Exchange, Replies, Kinds
    <1>2. answered \in Exchange /\ answered.what = "presence"
      BY DEF Request, Exchange, Replies, Kinds
    <1>3. \/ flight' = flight
          \/ flight' = flight \cup {answered}
          \/ flight' = flight \cup {[answered EXCEPT !.reply = "notFriends"]}
      BY DEF Announce
    <1> HIDE DEF answered
    <1>4. flight' \in SUBSET Exchange /\ \A y \in flight' : y \in flight \/ y.what = "presence"
      BY <1>b, <1>1, <1>2, <1>3 DEF TypeOK, Replies
    <1>5. /\ untold' = Minus(untold, p, q) /\ p \in online
          /\ UNCHANGED <<status, undelivered, goodbyes, blocked, online, asked, acts, losses, stops>>
      BY DEF Announce, storeVars, counters
    <1>6. seen' = seen \/ seen' = Minus(seen, p, q) \/ (q \in online /\ seen' = Plus(seen, q, p))
      BY DEF Announce, Contact
    <1>7. pending' = pending \/ (q \in online /\ pending' = Plus(pending, q, p))
      BY DEF Announce, Contact
    <1>8. NodesOK'
      <2>1. untold' \in [Peers -> SUBSET Peers] /\ \A r \in Peers : untold'[r] # {} => r \in online'
        BY <1>b, <1>5 DEF Minus, TypeOK
      <2>2. seen' \in [Peers -> SUBSET Peers] /\ \A r \in Peers : seen'[r] # {} => r \in online'
        <3>1. seen \in [Peers -> SUBSET Peers] /\ \A r \in Peers : seen[r] # {} => r \in online'
          BY <1>b, <1>5 DEF TypeOK
        <3>2. CASE seen' = seen
          BY <3>1, <3>2
        <3>3. CASE seen' = Minus(seen, p, q)
          BY <3>1, <3>3 DEF Minus
        <3>4. CASE q \in online /\ seen' = Plus(seen, q, p)
          <4>1. q \in online'
            BY <1>5, <3>4
          <4> QED BY <3>1, <3>4, <4>1 DEF Plus
        <3> QED BY <1>6, <3>2, <3>3, <3>4
      <2>3. pending' \in [Peers -> SUBSET Peers] /\ \A r \in Peers : pending'[r] # {} => r \in online'
        <3>1. pending \in [Peers -> SUBSET Peers] /\ \A r \in Peers : pending[r] # {} => r \in online'
          BY <1>b, <1>5 DEF TypeOK
        <3>2. CASE pending' = pending
          BY <3>1, <3>2
        <3>3. CASE q \in online /\ pending' = Plus(pending, q, p)
          <4>1. q \in online'
            BY <1>5, <3>3
          <4> QED BY <3>1, <3>3, <4>1 DEF Plus
        <3> QED BY <1>7, <3>2, <3>3
      <2> QED BY <1>b, <1>5, <2>1, <2>2, <2>3 DEF NodesOK, TypeOK
    <1>9. /\ CountersOK' /\ undelivered \in [Peers -> SUBSET Peers]
          /\ goodbyes \in [Peers -> SUBSET Peers]
      BY <1>b, <1>5 DEF TypeOK, CountersOK
    <1> QED BY <1>4, <1>5, <1>8, <1>9, ListsUnchanged

-----------------------------------------------------------------------------
(* Requests. *)

(* Contact only ever adds to what a node that is up knows and has to do.     *)
LEMMA ContactKeepsNodes ==
    ASSUME TypeOK, NEW p \in online, NEW q \in Peers, NEW list, Contact(p, q, list),
           UNCHANGED <<online, untold>>
    PROVE  NodesOK'
    <1>1. p \in Peers
      BY DEF TypeOK
    <1>2. untold' \in [Peers -> SUBSET Peers] /\ online' \in SUBSET Peers
      BY DEF TypeOK
    <1> QED BY <1>1, <1>2, ContactType DEF NodesOK

(* A request that is refused, checked, failed or lost changes no list.       *)
LEMMA QuietStep ==
    ASSUME BoundsAssumption, IInv, NEW x \in flight,
           RefuseHello(x) \/ CheckHello(x) \/ Fail(x) \/ Lose(x)
    PROVE  IInv'
    <1>b. TypeOK /\ x \in Exchange
      BY DEF IInv, TypeOK
    <1>0. x.from \in Peers /\ x.to \in Peers
      BY <1>b DEF Exchange
    <1>1. /\ UNCHANGED <<status, undelivered, goodbyes, blocked, asked, online, untold>>
          /\ undelivered \in [Peers -> SUBSET Peers] /\ goodbyes \in [Peers -> SUBSET Peers]
      BY <1>b DEF RefuseHello, CheckHello, Fail, Lose, TypeOK, storeVars
    <1>2. seen' = seen \/ seen' = Minus(seen, x.from, x.to)
      BY DEF RefuseHello, CheckHello, Fail, Lose
    <1>3. pending' = pending \/ (x.to \in online /\ pending' = Plus(pending, x.to, x.from))
      BY DEF RefuseHello, CheckHello, Fail, Lose
    <1>4. seen' \in [Peers -> SUBSET Peers] /\ \A r \in Peers : seen'[r] \subseteq seen[r]
      <2>1. seen \in [Peers -> SUBSET Peers]
        BY <1>b DEF TypeOK
      <2> QED BY <1>0, <1>2, <2>1 DEF Minus
    <1>5. pending' \in [Peers -> SUBSET Peers] /\ \A r \in Peers : pending'[r] # {} => r \in online
      <2>1. pending \in [Peers -> SUBSET Peers] /\ \A r \in Peers : pending[r] # {} => r \in online
        BY <1>b DEF TypeOK
      <2>2. CASE pending' = pending
        BY <2>1, <2>2
      <2>3. CASE x.to \in online /\ pending' = Plus(pending, x.to, x.from)
        BY <1>0, <2>1, <2>3 DEF Plus
      <2> QED BY <1>3, <2>2, <2>3
    <1>6. NodesOK'
      BY <1>b, <1>1, <1>4, <1>5 DEF NodesOK, TypeOK
    <1>7. CountersOK'
      BY <1>b DEF RefuseHello, CheckHello, Fail, Lose, TypeOK, CountersOK, counters, BoundsAssumption
    <1>8. \A y \in flight' : y \in Exchange /\ \E z \in flight : y.what = z.what /\ y.from = z.from /\ y.to = z.to
      <2>1. CASE RefuseHello(x)
        BY <1>b, <2>1, AnsweredType DEF RefuseHello, Replies
      <2>2. CASE CheckHello(x)
        <3> DEFINE c == [x EXCEPT !.stage = "checked"]
        <3>1. c \in Exchange /\ c.what = x.what /\ c.from = x.from /\ c.to = x.to
          BY <1>b DEF Exchange
        <3>2. \A y \in flight' : y \in flight \/ y = c
          BY <2>2 DEF CheckHello
        <3> HIDE DEF c
        <3> QED BY <1>b, <3>1, <3>2 DEF TypeOK
      <2>3. CASE Fail(x) \/ Lose(x)
        <3> DEFINE c == [x EXCEPT !.heard = FALSE]
        <3>1. c \in Exchange /\ c.what = x.what /\ c.from = x.from /\ c.to = x.to
          BY <1>b DEF Exchange
        <3>2. \A y \in flight' : y \in flight \/ y = c
          BY <2>3 DEF Fail, Lose
        <3> HIDE DEF c
        <3> QED BY <1>b, <3>1, <3>2 DEF TypeOK
      <2> QED BY <2>1, <2>2, <2>3
    <1> QED BY <1>1, <1>6, <1>7, <1>8, ListsUnchanged

(* An answered request is no longer owed; nobody becomes a friend by it.     *)
LEMMA AcknowledgedStep ==
    ASSUME IInv, NEW x \in flight, Acknowledged(x)
    PROVE  IInv'
    <1>b. TypeOK /\ x \in Exchange
      BY DEF IInv, TypeOK
    <1>0. x.from \in Peers /\ x.to \in Peers
      BY <1>b DEF Exchange
    <1>1. UNCHANGED <<status, blocked, asked>> /\ CountersOK'
      BY <1>b DEF Acknowledged, TypeOK, CountersOK, counters
    <1>2. undelivered' = undelivered \/ undelivered' = Minus(undelivered, x.from, x.to)
      BY DEF Acknowledged
    <1>3. goodbyes' = goodbyes \/ goodbyes' = Minus(goodbyes, x.from, x.to)
      BY DEF Acknowledged
    <1>4. /\ undelivered' \in [Peers -> SUBSET Peers]
          /\ \A p \in Peers : undelivered'[p] \subseteq undelivered[p]
      <2>1. undelivered \in [Peers -> SUBSET Peers]
        BY <1>b DEF TypeOK
      <2> QED BY <1>0, <1>2, <2>1 DEF Minus
    <1>5. goodbyes' \in [Peers -> SUBSET Peers]
      <2>1. goodbyes \in [Peers -> SUBSET Peers]
        BY <1>b DEF TypeOK
      <2> QED BY <1>0, <1>3, <2>1 DEF Minus
    <1>6. NodesOK'
      BY <1>b, <1>0, ContactKeepsNodes DEF Acknowledged
    <1>7. flight' \in SUBSET Exchange /\ flight' \subseteq flight
      BY <1>b DEF Acknowledged, TypeOK
    <1> QED BY <1>1, <1>4, <1>5, <1>6, <1>7, ListsUnchanged

(* A goodbye only takes the sender off the lists.                            *)
LEMMA ReceiveGoodbyeStep ==
    ASSUME IInv, NEW x \in flight, ReceiveGoodbye(x)
    PROVE  IInv'
    <1>b. TypeOK /\ x \in Exchange
      BY DEF IInv, TypeOK
    <1>0. x.from \in Peers /\ x.to \in Peers
      BY <1>b DEF Exchange
    <1>1. /\ status' = Set(x.to, x.from, "none") /\ undelivered' = Minus(undelivered, x.to, x.from)
          /\ blocked' = blocked /\ goodbyes' = goodbyes /\ asked' = asked
          /\ flight' = Answered(x, "ok")
      BY DEF ReceiveGoodbye
    <1>2. NodesOK' /\ CountersOK' /\ goodbyes \in [Peers -> SUBSET Peers]
      BY <1>b DEF ReceiveGoodbye, TypeOK, NodesOK, CountersOK, counters
    <1>3. /\ flight' \in SUBSET Exchange
          /\ \A y \in flight' : \E z \in flight : y.what = z.what /\ y.from = z.from /\ y.to = z.to
      BY <1>b, <1>1, AnsweredType DEF Replies
    <1> QED BY <1>0, <1>1, <1>2, <1>3, Dropped

(* The answer of a stranger only takes the friend off the lists.             *)
LEMMA ForgetStep ==
    ASSUME IInv, NEW x \in flight, Forget(x)
    PROVE  IInv'
    <1>b. TypeOK /\ x \in Exchange
      BY DEF IInv, TypeOK
    <1>0. x.from \in Peers /\ x.to \in Peers
      BY <1>b DEF Exchange
    <1>1. /\ UNCHANGED <<goodbyes, blocked, online, pending, untold, asked>>
          /\ flight' \subseteq flight /\ CountersOK'
          /\ goodbyes \in [Peers -> SUBSET Peers]
      BY <1>b DEF Forget, TypeOK, CountersOK, counters
    <1>2. flight' \in SUBSET Exchange
      BY <1>b, <1>1 DEF TypeOK
    <1>3. seen' = seen \/ seen' = Minus(seen, x.from, x.to)
      BY DEF Forget
    <1>4. seen' \in [Peers -> SUBSET Peers] /\ \A r \in Peers : seen'[r] \subseteq seen[r]
      <2>1. seen \in [Peers -> SUBSET Peers]
        BY <1>b DEF TypeOK
      <2> QED BY <1>0, <1>3, <2>1 DEF Minus
    <1>5. NodesOK'
      BY <1>b, <1>1, <1>4 DEF NodesOK, TypeOK
    <1>6. CASE status[x.from][x.to] = "accepted"
      <2>1. status' = Set(x.from, x.to, "none") /\ undelivered' = Minus(undelivered, x.from, x.to)
        BY <1>6 DEF Forget
      <2> QED BY <1>0, <1>1, <1>2, <1>5, <2>1, Dropped
    <1>7. CASE status[x.from][x.to] # "accepted"
      <2>1. status' = status /\ undelivered' = undelivered /\ undelivered \in [Peers -> SUBSET Peers]
        BY <1>b, <1>7 DEF Forget, TypeOK
      <2> QED BY <1>1, <1>2, <1>5, <2>1, ListsUnchanged
    <1> QED BY <1>6, <1>7

(* Only a hello makes a friend of somebody else's request, and it shows that *)
(* its sender asked.                                                         *)
LEMMA ReceiveHelloStep ==
    ASSUME IInv, NEW x \in flight, ReceiveHello(x)
    PROVE  IInv'
    <1>b. TypeOK /\ Requested /\ DeclinedStayOut /\ x \in Exchange
      BY DEF IInv, TypeOK
    <1> DEFINE p == x.to
               q == x.from
               next == Greeted(status[p][q], q \in blocked[p])
    <1>0. p \in Peers /\ q \in Peers /\ p \in asked[q] /\ p \in online
      BY <1>b DEF Exchange, Requested, ReceiveHello
    <1>1. /\ status' = Set(p, q, next) /\ flight' = Answered(x, "ok")
          /\ Contact(p, q, status')
          /\ UNCHANGED <<goodbyes, blocked, online, untold, asked, counters>>
          /\ undelivered' = undelivered
             \/ (status[p][q] = "outgoing" /\ undelivered' = Plus(undelivered, p, q))
      BY DEF ReceiveHello
    <1>2. /\ next \in Statuses
          /\ next \in {"outgoing", "accepted"} => status[p][q] \in {"outgoing", "accepted"}
          /\ q \in blocked[p] => next = status[p][q]
      <2>1. status[p][q] \in Statuses
        BY <1>b, <1>0 DEF TypeOK
      <2> QED BY <2>1 DEF Greeted, Statuses
    <1> HIDE DEF next
    <1>3. /\ status' \in [Peers -> [Peers -> Statuses]]
          /\ \A r, t \in Peers : status'[r][t] = IF r = p /\ t = q THEN next ELSE status[r][t]
      <2>1. status \in [Peers -> [Peers -> Statuses]]
        BY <1>b DEF TypeOK
      <2> HIDE DEF p, q
      <2> QED BY <1>0, <1>1, <1>2, <2>1 DEF Set
    <1>4. /\ undelivered' \in [Peers -> SUBSET Peers]
          /\ \A r, t \in Peers : t \in undelivered'[r] =>
                t \in undelivered[r] \/ (r = p /\ t = q /\ status[p][q] = "outgoing")
      <2>1. undelivered \in [Peers -> SUBSET Peers]
        BY <1>b DEF TypeOK
      <2> HIDE DEF p, q
      <2>2. CASE undelivered' = undelivered
        BY <2>1, <2>2
      <2>3. CASE status[p][q] = "outgoing" /\ undelivered' = Plus(undelivered, p, q)
        BY <1>0, <2>1, <2>3 DEF Plus
      <2> QED BY <1>1, <2>2, <2>3
    <1>5. NodesOK'
      BY <1>b, <1>0, <1>1, ContactKeepsNodes
    <1>6. /\ flight' \in SUBSET Exchange
          /\ \A y \in flight' : \E z \in flight : y.what = z.what /\ y.from = z.from /\ y.to = z.to
      BY <1>b, <1>1, AnsweredType DEF Replies
    <1> HIDE DEF p, q
    <1>7. TypeOK'
      BY <1>b, <1>1, <1>3, <1>4, <1>5, <1>6 DEF TypeOK, NodesOK, counters
    <1>8. DeclinedStayOut'
      <2> SUFFICES ASSUME NEW r \in Peers, NEW t \in blocked[r]
                   PROVE  status'[r][t] = "none"
        BY <1>1 DEF DeclinedStayOut
      <2>1. t \in Peers /\ status[r][t] = "none"
        BY <1>b DEF TypeOK, DeclinedStayOut
      <2> QED BY <1>2, <1>3, <2>1
    <1>9. Requested'
      <2>1. \A y \in flight' : y.what = "hello" => y.to \in asked'[y.from]
        <3> SUFFICES ASSUME NEW y \in flight', y.what = "hello"
                     PROVE  y.to \in asked[y.from]
          BY <1>1
        <3>1. PICK z \in flight : y.what = z.what /\ y.from = z.from /\ y.to = z.to
          BY <1>6
        <3> QED BY <1>b, <3>1 DEF Requested
      <2>2. \A r, t \in Peers : t \in undelivered'[r] => t \in asked'[r]
        BY <1>b, <1>0, <1>1, <1>4 DEF Requested
      <2>3. \A r, t \in Peers : status'[r][t] \in {"outgoing", "accepted"} => t \in asked'[r]
        BY <1>b, <1>0, <1>1, <1>2, <1>3 DEF Requested
      <2>4. \A r, t \in Peers : status'[r][t] \in {"incoming", "accepted"} => r \in asked'[t]
        BY <1>b, <1>0, <1>1, <1>3 DEF Requested
      <2> QED BY <2>1, <2>2, <2>3, <2>4 DEF Requested
    <1> QED BY <1>7, <1>8, <1>9 DEF IInv

-----------------------------------------------------------------------------
(* The theorems. *)

(* At the start there are no friends and no messages.                        *)
LEMMA InitInvariant == BoundsAssumption /\ Init => IInv
    BY DEF Init, IInv, TypeOK, Requested, DeclinedStayOut, BoundsAssumption, Statuses

(* A step that changes nothing keeps the invariant.                          *)
LEMMA StutterInvariant == IInv /\ UNCHANGED vars => IInv'
    BY DEF IInv, TypeOK, Requested, DeclinedStayOut, vars

(* The invariant is inductive.                                               *)
LEMMA NextInvariant == BoundsAssumption /\ IInv /\ Next => IInv'
    <1> SUFFICES ASSUME BoundsAssumption, IInv, Next
                 PROVE  IInv'
      OBVIOUS
    <1>1. CASE \E p, q \in Peers : p # q /\ (User(p, q) \/ Node(p, q))
      <2>1. PICK p, q \in Peers : User(p, q) \/ Node(p, q)
        BY <1>1
      <2>2. CASE AddFriend(p, q)
        BY <2>2, AddFriendStep
      <2>3. CASE AcceptFriend(p, q)
        BY <2>3, AcceptFriendStep
      <2>4. CASE RemoveFriend(p, q)
        BY <2>4, RemoveFriendStep
      <2>5. CASE DeliverTo(p, q) \/ Retry(p, q)
        BY <2>5, DeliverToStep
      <2>6. CASE Announce(p, q)
        BY <2>6, AnnounceStep
      <2>7. CASE Expire(p, q)
        BY <2>7, ExpireStep
      <2> QED BY <2>1, <2>2, <2>3, <2>4, <2>5, <2>6, <2>7 DEF User, Node
    <1>2. CASE \E p \in Peers : GoOnline(p) \/ GoOffline(p)
      BY <1>2, GoOnlineStep, GoOfflineStep
    <1>3. CASE \E x \in flight : Advance(x) \/ Lose(x)
      <2>1. PICK x \in flight : Advance(x) \/ Lose(x)
        BY <1>3
      <2>2. CASE RefuseHello(x) \/ CheckHello(x) \/ Fail(x) \/ Lose(x)
        BY <2>2, QuietStep
      <2>3. CASE ReceiveHello(x)
        BY <2>3, ReceiveHelloStep DEF ReceiveHello
      <2>4. CASE ReceiveGoodbye(x)
        BY <2>4, ReceiveGoodbyeStep
      <2>5. CASE Acknowledged(x)
        BY <2>5, AcknowledgedStep
      <2>6. CASE Forget(x)
        BY <2>6, ForgetStep
      <2> QED BY <2>1, <2>2, <2>3, <2>4, <2>5, <2>6 DEF Advance
    <1> QED BY <1>1, <1>2, <1>3 DEF Next

(* The inductive invariant: types, who asked whom, and who was declined.     *)
THEOREM Invariance == Spec => []IInv
    <1>1. Init => IInv
      BY BoundsAssumption, InitInvariant
    <1>2. IInv /\ [Next]_vars => IInv'
      BY BoundsAssumption, NextInvariant, StutterInvariant
    <1> QED BY <1>1, <1>2, PTL DEF Spec

(* The lists, the nodes and the requests keep their types; only a node that  *)
(* is up knows of others or has work.                                        *)
THEOREM TypeCorrect == Spec => []TypeOK
    <1>1. IInv => TypeOK
      BY DEF IInv
    <1> QED BY <1>1, Invariance, PTL

(* Nobody ends up a friend of somebody who never asked, or whom their own     *)
(* user never asked: StoredState::receive_hello and accept_request, whatever  *)
(* is late, lost or repeated and whoever restarts.                           *)
THEOREM ConsentAlways == Spec => []Consent
    <1>1. IInv => Consent
      BY DEF IInv, Requested, Consent
    <1> QED BY <1>1, Invariance, PTL

(* Somebody declined stays off the list until our own user adds them          *)
(* (StoredState::remove_friend, blocked).                                    *)
THEOREM DeclinedAlways == Spec => []DeclinedStayOut
    <1>1. IInv => DeclinedStayOut
      BY DEF IInv
    <1> QED BY <1>1, Invariance, PTL
=============================================================================
