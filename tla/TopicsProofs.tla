---------------------------- MODULE TopicsProofs ----------------------------
(***************************************************************************)
(* Proofs about topics and their subscriptions, for any clients, names,    *)
(* queues and requests.                                                    *)
(***************************************************************************)
EXTENDS Topics, TLAPS

-----------------------------------------------------------------------------
(* The handlers' places and locals. *)

Made == {o \in Object : array[o] # Nil}

\* The handlers that iterate over a topic's subscriptions.
Rangers == (Iterating \ {"ListTopics"}) \cup {"ListSubscriptionsByTopic", "Publish"}

\* Client c at place p with call r: what the place says about the call.
CallOK(c, p, r) ==
    p # "idle" =>
        /\ r.handler \in Handlers[c] /\ r.handler \in AllHandlers /\ r.name \in Name
        /\ r.handler \in Naming => r.sub # Nil
        /\ p = "check" => r.handler \in {"CreateTopic", "DeleteTopic", "Subscribe", "Publish",
                                         "ListSubscriptionsByTopic"}
        /\ p = "lock" => r.handler \in {"CreateTopic", "DeleteTopic", "Subscribe",
                                        "Unsubscribe", "SetSubscriptionAttributes"}
        /\ p = "write" => r.handler \in {"CreateTopic", "DeleteTopic"}
        /\ p = "topics" => r.handler \in Iterating
        /\ p \in {"array", "length", "range"} => r.handler \in Rangers
        /\ p \in {"store", "token"} => r.handler = "Subscribe"
        /\ p = "cut" => r.handler = "Unsubscribe"
        /\ p = "post" => r.handler \in {"Subscribe", "Publish"}
        /\ p \in {"queue", "append"} => r.handler = "Publish"
        /\ p = "confirm" => r.handler = "ConfirmSubscription"
        /\ p \in {"store", "token", "post", "queue", "append"} => r.sub # Nil
        /\ p = "array" /\ r.handler # "Publish" => r.topic # Nil
        /\ \/ p \in {"length", "range", "queue", "append", "cut"}
           \/ p = "post" /\ r.handler = "Publish"
           \/ p = "lock" /\ r.handler = "Unsubscribe"
           => r.topic # Nil /\ r.i > 0

CallInv == \A c \in Client : CallOK(c, pc[c], call[c])

\* Who changes the table or a slice holds the mutex; a slice that has not been made
\* is empty; the position of a removal is in the slice.
HoldInv ==
    /\ \A c \in Client :
        /\ pc[c] \in {"write", "store", "cut"} => lock = c
        /\ pc[c] = "cut" => call[c].i <= length[call[c].topic]
    /\ \A o \in Object : array[o] = Nil => length[o] = 0

Inv == TypeOK /\ CallInv /\ HoldInv

-----------------------------------------------------------------------------
(* The mutexes. *)

\* What the handler of c relies on under the mutexes, until a topic or queue is
\* deleted or an Unsubscribe meets the removal of another.
RelyOK(c) ==
    /\ pc[c] = "write" /\ Is(c, "DeleteTopic") => deleted > 0
    /\ deleted = 0 /\ pc[c] = "lock" /\ Is(c, "Subscribe") => Topic(c) # Nil
    /\ deleted = 0 /\ pc[c] = "append" => subscription[call[c].sub].endpoint \in Queues
    /\ ~overlapped /\ Is(c, "Unsubscribe") /\ pc[c] \in {"range", "lock"} =>
            call[c].len <= length[call[c].topic]
    /\ ~overlapped /\ Is(c, "Unsubscribe") /\ pc[c] = "lock" => call[c].i <= call[c].len

MutexInv == MutexOwned /\ \A c \in Client : RelyOK(c)

-----------------------------------------------------------------------------
(* The slices. *)

\* The first n entries are different subscriptions.
Good(o, n) == \A i, j \in 1..n : Slot(o, i) # Nil /\ (i # j => Slot(o, i) # Slot(o, j))

\* The slices but o's are well formed, and o's but for its last entry.
GoodBut(o) == \A p \in Object : Good(p, IF p = o THEN length[p] - 1 ELSE length[p])

\* The last entry of o waits for a subscription with an address of its own.
StoreOK(c) ==
    pc[c] = "store" =>
        LET o == Topic(c)
        IN  /\ o # Nil /\ length[o] > 0 /\ GoodBut(o) /\ Slot(o, length[o]) = Nil
            /\ \A i \in 1..(length[o] - 1) :
                    Address(subscription[Slot(o, i)]) # Address(subscription[call[c].sub])

\* The last entry of the topic waits to be cut off.
CutOK(c) == pc[c] = "cut" => GoodBut(call[c].topic)

\* Behind a slice its array is empty.
TailInv ==
    \A o \in Object : array[o] # Nil => \A i \in (length[o] + 1)..array[o] : Slot(o, i) = Nil

\* Nobody is, or was when the process stopped, in the middle of a change of a slice.
Settled == lock = Free \/ (lock \in Client /\ ~crashed /\ pc[lock] \notin {"store", "cut"})

SliceInv ==
    /\ Settled => \A o \in Object : Good(o, length[o])
    /\ \A c \in Client : StoreOK(c) /\ CutOK(c)
    /\ TailInv


-----------------------------------------------------------------------------
(* Types. *)

\* A call whose subscription and topic are among those made.
Typed(r, subs, made) ==
    /\ r.handler \in AllHandlers \cup {"none"}
    /\ r \in [handler : {r.handler}, name : Name \cup {Nil}, sub : subs \cup {Nil},
              arg : Argument(r.handler), left : SUBSET Name, topic : made \cup {Nil},
              cap : Capacity, len : Nat, i : Nat, due : SUBSET Sub, got : [Sub -> Nat]]

LEMMA TypedCall ==
    ClientType <=>
        /\ pc \in [Client -> Places] /\ DOMAIN call = Client
        /\ \A c \in Client : Typed(call[c], Allocated, Made)
        /\ \A c \in Client : pc[c] = "idle" <=> call[c] = NoCall
BY DEF ClientType, Typed, Calls, Made

LEMMA CapacityType == Capacity \subseteq Nat /\ 0 \in Capacity
BY TopicsAssumption

LEMMA NoCallTyped == \A subs, made : Typed(NoCall, subs, made)
<1>1. Argument("none") = {Nil}
    BY DEF Argument
<1>2. NoCall.handler = "none"
    BY DEF NoCall
<1> QED BY <1>1, <1>2, CapacityType DEF Typed, NoCall

Released(r, S) == [r EXCEPT !.due = @ \ S]

LEMMA ReleasedTyped ==
    ASSUME NEW r, NEW subs, NEW made, Typed(r, subs, made), NEW S
    PROVE  /\ Typed(Released(r, S), subs, made)
           /\ r.handler = Released(r, S).handler /\ r.name = Released(r, S).name
           /\ r.sub = Released(r, S).sub /\ r.arg = Released(r, S).arg
           /\ r.topic = Released(r, S).topic /\ r.cap = Released(r, S).cap
           /\ r.len = Released(r, S).len /\ r.i = Released(r, S).i
           /\ r.got = Released(r, S).got /\ Released(r, S).due = r.due \ S
           /\ r = NoCall => Released(r, S) = NoCall
<1>1. r = NoCall => Released(r, S) = NoCall
    BY DEF NoCall, Released
<1> QED BY <1>1 DEF Typed, Released

\* Client c goes to place p with call r, and Publish is released from S.
MovesReleasing(c, p, r, S) ==
    pc' = [pc EXCEPT ![c] = p] /\ call' = Releasing(S, [call EXCEPT ![c] = r])

Moves(c, p, r) == pc' = [pc EXCEPT ![c] = p] /\ call' = [call EXCEPT ![c] = r]

Grows == Allocated \subseteq Allocated' /\ Made \subseteq Made'

LEMMA MovesTo ==
    ASSUME ClientType, NEW c \in Client, NEW p, NEW r, Moves(c, p, r)
    PROVE  /\ pc'[c] = p /\ call'[c] = r
           /\ \A d \in Client : d # c => pc'[d] = pc[d] /\ call'[d] = call[d]
BY DEF ClientType, Moves

LEMMA MovesReleasingTo ==
    ASSUME ClientType, NEW c \in Client, NEW p, NEW r, NEW S, MovesReleasing(c, p, r, S)
    PROVE  /\ pc'[c] = p /\ call'[c] = Released(r, S)
           /\ \A d \in Client : d # c => pc'[d] = pc[d] /\ call'[d] = Released(call[d], S)
<1>1. \A d \in Client : call'[d] = Released([call EXCEPT ![c] = r][d], S)
    BY DEF MovesReleasing, Releasing, Released
<1> QED BY <1>1 DEF ClientType, MovesReleasing

\* What Client c goes to, and the others release.
ClientNext(c, p, r, S) ==
    /\ pc' \in [Client -> Places] /\ DOMAIN call' = Client
    /\ pc'[c] = p /\ call'[c] = r
    /\ \A d \in Client : d # c =>
        pc'[d] = pc[d] /\ (call'[d] = call[d] \/ call'[d] = Released(call[d], S))

LEMMA ClientNextType ==
    ASSUME ClientType, CallInv, NEW c \in Client, NEW p, NEW r, NEW S, ClientNext(c, p, r, S),
           Typed(r, Allocated', Made'), p = "idle" <=> r = NoCall, CallOK(c, p, r), Grows
    PROVE  ClientType' /\ CallInv'
<1>1. ASSUME NEW d \in Client, d # c
      PROVE  /\ Typed(call'[d], Allocated', Made')
             /\ pc'[d] = "idle" <=> call'[d] = NoCall
             /\ CallOK(d, pc'[d], call'[d])
    <2>1. /\ Typed(call[d], Allocated, Made) /\ CallOK(d, pc[d], call[d])
          /\ pc[d] = "idle" <=> call[d] = NoCall
        BY TypedCall DEF CallInv
    <2>2. Typed(call[d], Allocated', Made')
        BY <2>1 DEF Typed, Grows
    <2>3. CASE call'[d] = call[d]
        BY <1>1, <2>1, <2>2, <2>3 DEF ClientNext
    <2>4. CASE call'[d] = Released(call[d], S)
        <3>1. pc'[d] = pc[d]
            BY <1>1 DEF ClientNext
        <3>2. call[d] # NoCall => call[d].handler \in AllHandlers
            BY <2>1 DEF CallOK
        <3>3. "none" \notin AllHandlers
            BY DEF AllHandlers
        <3>4. NoCall.handler = "none"
            BY DEF NoCall
        <3>5. call'[d] = NoCall <=> call[d] = NoCall
            BY <2>2, <2>4, <3>2, <3>3, <3>4, ReleasedTyped
        <3>6. CallOK(d, pc[d], call'[d])
            BY <2>1, <2>2, <2>4, ReleasedTyped DEF CallOK
        <3> QED BY <2>1, <2>2, <2>4, <3>1, <3>5, <3>6, ReleasedTyped
    <2> QED BY <1>1, <2>3, <2>4 DEF ClientNext
<1>2. ASSUME NEW d \in Client
      PROVE  /\ Typed(call'[d], Allocated', Made')
             /\ pc'[d] = "idle" <=> call'[d] = NoCall
             /\ CallOK(d, pc'[d], call'[d])
    BY <1>1 DEF ClientNext
<1>3. ClientType'
    BY <1>2 DEF ClientNext, ClientType, Typed, Calls, Made
<1> QED BY <1>2, <1>3 DEF CallInv

LEMMA CurrentCall ==
    ASSUME Inv, NEW c \in Client
    PROVE  Typed(call[c], Allocated, Made) /\ CallOK(c, pc[c], call[c])
BY TypedCall DEF Inv, TypeOK, CallInv

\* Client c, which is active, goes on to p with call r.
LEMMA MovesNext ==
    ASSUME ClientType, CallInv, NEW c \in Client, NEW p \in Places, NEW r, Moves(c, p, r)
    PROVE  ClientNext(c, p, r, {})
BY MovesTo DEF ClientNext, ClientType, Moves

LEMMA HoldNext ==
    ASSUME Inv, NEW c \in Client, NEW p \in Places \ {"write", "store", "cut"}, NEW r, NEW S,
           ClientNext(c, p, r, S), UNCHANGED <<array, length>>,
           lock' = lock \/ lock \notin Client \ {c}
    PROVE  HoldInv'
<1>1. ASSUME NEW d \in Client, d # c
      PROVE  pc'[d] = pc[d] /\ call'[d].i = call[d].i /\ call'[d].topic = call[d].topic
    BY <1>1, CurrentCall, ReleasedTyped DEF ClientNext
<1>2. pc'[c] \notin {"write", "store", "cut"}
    BY DEF ClientNext
<1>3. ASSUME NEW d \in Client
      PROVE  /\ pc'[d] \in {"write", "store", "cut"} => lock' = d
             /\ pc'[d] = "cut" => call'[d].i <= length'[call'[d].topic]
    BY <1>1, <1>2, <1>3 DEF Inv, HoldInv
<1> QED BY <1>3 DEF Inv, HoldInv

\* A step that changes nothing but what one client does.
LEMMA QuietInv ==
    ASSUME Inv, NEW c \in Client, NEW p \in Places \ {"write", "store", "cut"}, NEW r,
           NEW S, ClientNext(c, p, r, S), Typed(r, Allocated, Made),
           p = "idle" <=> r = NoCall, CallOK(c, p, r), UNCHANGED sharedVars
    PROVE  Inv'
<1>2. Grows /\ Typed(r, Allocated', Made')
    BY DEF sharedVars, topicVars, Grows, Allocated, Made
<1>3. ClientType' /\ CallInv'
    BY <1>2, ClientNextType DEF Inv, TypeOK
<1>4. TopicType' /\ ServerType'
    BY DEF Inv, TypeOK, TopicType, ServerType, sharedVars, topicVars, mutexVars, confirmVars,
       hazardVars, Allocated
<1>5. HoldInv'
    BY HoldNext DEF sharedVars, topicVars, mutexVars
<1> QED BY <1>3, <1>4, <1>5 DEF Inv, TypeOK

LEMMA NoCallOK == \A c : CallOK(c, "idle", NoCall)
BY DEF CallOK

LEMMA QuietAnswer ==
    ASSUME Inv, NEW c \in Client, Answer(c), UNCHANGED sharedVars
    PROVE  Inv'
<1>1. Moves(c, "idle", NoCall)
    BY DEF Answer, Goto, Moves
<1>2. "idle" \in Places \ {"write", "store", "cut"}
    BY DEF Places
<1> HIDE DEF NoCall
<1>3. ClientNext(c, "idle", NoCall, {})
    BY <1>1, <1>2, MovesNext DEF Inv, TypeOK
<1> QED BY <1>2, <1>3, NoCallOK, NoCallTyped, QuietInv

\* A client with a handler has a call.
LEMMA SomeCall ==
    ASSUME NEW r, r.handler \in AllHandlers PROVE r # NoCall
BY DEF AllHandlers, NoCall

LEMMA QuietMove ==
    ASSUME Inv, NEW c \in Client, NEW p \in Places \ {"idle", "write", "store", "cut"}, NEW r,
           Moves(c, p, r), Typed(r, Allocated, Made), r.handler = call[c].handler,
           pc[c] # "idle", CallOK(c, p, r), UNCHANGED sharedVars
    PROVE  Inv'
<1>1. r # NoCall
    BY CurrentCall, SomeCall DEF CallOK
<1>2. ClientNext(c, p, r, {})
    BY MovesNext DEF Inv, TypeOK
<1> QED BY <1>1, <1>2, QuietInv

LEMMA QuietGoes ==
    ASSUME Inv, NEW c \in Client, NEW p \in Places \ {"idle", "write", "store", "cut"},
           Goes(c, p), pc[c] # "idle", CallOK(c, p, call[c]), UNCHANGED sharedVars
    PROVE  Inv'
<1>1. ClientNext(c, p, call[c], {})
    BY DEF Goes, Goto, ClientNext, Inv, TypeOK, ClientType
<1>2. call[c] # NoCall
    BY DEF Inv, TypeOK, ClientType
<1> QED BY <1>1, <1>2, CurrentCall, QuietInv

-----------------------------------------------------------------------------
\* The call of a request.
Asked(h, n, s, a, L) ==
    [NoCall EXCEPT !.handler = h, !.name = n, !.sub = s, !.arg = a, !.left = L]

LEMMA NewCall ==
    ASSUME NEW h \in AllHandlers, NEW n \in Name, NEW s \in Allocated \cup {Nil},
           NEW a \in Argument(h), NEW L \in SUBSET Name
    PROVE  /\ Typed(Asked(h, n, s, a, L), Allocated, Made)
           /\ Asked(h, n, s, a, L).handler = h /\ Asked(h, n, s, a, L).name = n
           /\ Asked(h, n, s, a, L).sub = s /\ Asked(h, n, s, a, L).arg = a
BY CapacityType DEF NoCall, Typed, Asked

LEMMA ArgumentsType ==
    ASSUME NEW h \in AllHandlers, NEW n \in Name, NEW a \in Arguments(h, n),
           issued \in Seq([arn : Arn, sub : Sub])
    PROVE  a \in Argument(h)
<1>1. CASE h = "Subscribe"
    BY <1>1 DEF Arguments, Argument
<1>2. CASE h = "Publish"
    BY <1>2 DEF Arguments, Argument
<1>3. CASE h = "SetSubscriptionAttributes"
    BY <1>3 DEF Arguments, Argument
<1>4. CASE h = "ConfirmSubscription"
    BY <1>4 DEF Arguments, Argument, Posted
<1>5. CASE h \notin {"Subscribe", "Publish", "SetSubscriptionAttributes", "ConfirmSubscription"}
    BY <1>5 DEF Arguments, Argument
<1> QED BY <1>1, <1>2, <1>3, <1>4, <1>5

LEMMA RequestInv ==
    ASSUME Inv, NEW c \in Client, NEW n \in Name, NEW h \in Handlers[c], Request(c, h, n)
    PROVE  Inv'
<1>1. h \in AllHandlers
    BY TopicsAssumption, SMTT(30)
<1>2. PICK s \in IF h \in Naming THEN Allocated ELSE {Nil}, a \in Arguments(h, n) :
          call' = [call EXCEPT ![c] =
                    [NoCall EXCEPT !.handler = h, !.name = n, !.sub = s, !.arg = a,
                        !.left = {k \in Name : h \in Iterating /\ Topics[k] # Nil}]]
    BY DEF Request
<1> DEFINE L == {k \in Name : h \in Iterating /\ Topics[k] # Nil}
           r == Asked(h, n, s, a, L)
<1>3. Moves(c, FirstPlace(h), r)
    BY <1>2 DEF Request, Goto, Moves, Asked
<1>4. a \in Argument(h)
    BY <1>1, ArgumentsType DEF Inv, TypeOK, ServerType
<1>5. s \in Allocated \cup {Nil} /\ (h \in Naming => s # Nil)
    BY TopicsAssumption DEF Allocated
<1>6. /\ Typed(r, Allocated, Made)
      /\ r.handler = h /\ r.name = n /\ r.sub = s
    <2>1. L \in SUBSET Name
        OBVIOUS
    <2> HIDE DEF L
    <2> QED BY <1>1, <1>4, <1>5, <2>1, NewCall
<1> HIDE DEF r
<1>7. r # NoCall
    BY <1>1, <1>6, SomeCall
<1>8. CallOK(c, FirstPlace(h), r)
    BY <1>1, <1>5, <1>6 DEF CallOK, FirstPlace, AllHandlers, Iterating, Naming
<1>9. FirstPlace(h) \in Places \ {"idle", "write", "store", "cut"}
    BY DEF FirstPlace, Places
<1>10. ClientNext(c, FirstPlace(h), r, {})
    BY <1>3, <1>9, MovesNext DEF Inv, TypeOK
<1> QED BY <1>6, <1>7, <1>8, <1>9, <1>10, QuietInv DEF Request

LEMMA MadeTopic ==
    ASSUME Inv, NEW o \in Made
    PROVE  /\ o \in Object /\ o # Nil /\ array[o] \in Capacity /\ array[o] \in Nat
           /\ length[o] \in Nat /\ length[o] <= array[o]
           /\ \A i \in 1..array[o] : Slot(o, i) \in Allocated \cup {Nil}
<1>1. o \in Object /\ o # Nil /\ array[o] # Nil
    BY TopicsAssumption DEF Made
<1>2. array[o] \in Capacity /\ length[o] \in Nat /\ length[o] <= array[o]
    BY <1>1 DEF Inv, TypeOK, TopicType
<1>3. cell[o][array[o]] \in [1..array[o] -> Allocated \cup {Nil}]
    BY <1>1, <1>2 DEF Inv, TypeOK, TopicType
<1> QED BY <1>1, <1>2, <1>3, CapacityType DEF Slot

LEMMA SubscribersType ==
    ASSUME Inv, NEW o \in Made
    PROVE  Subscribers(o) \subseteq Allocated
BY MadeTopic DEF Subscribers, Slot

LEMMA DuplicatesType ==
    ASSUME Inv, NEW o \in Made, NEW a, NEW i \in Duplicates(o, a)
    PROVE  /\ i \in 1..length[o] /\ Slot(o, i) \in Allocated /\ Slot(o, i) # Nil
           /\ Address(subscription[Slot(o, i)]) = Address(a)
BY MadeTopic DEF Duplicates, IsDuplicate

LEMMA TableTopic ==
    ASSUME Inv, NEW n \in Name, Topics[n] # Nil
    PROVE  Topics[n] \in Made
BY DEF Inv, TypeOK, TopicType, Made

LEMMA CheckInv ==
    ASSUME Inv, NEW c \in Client, Check(c)
    PROVE  Inv'
<1> DEFINE r == call[c]
<1>1. Typed(r, Allocated, Made) /\ CallOK(c, "check", r) /\ pc[c] = "check"
    BY CurrentCall DEF Check, At
<1>2. CASE Answer(c)
    BY <1>2, QuietAnswer DEF Check
<1>3. CASE Goes(c, "lock") /\ r.handler \in {"CreateTopic", "DeleteTopic", "Subscribe"}
    <2>1. CallOK(c, "lock", r)
        BY <1>1, <1>3 DEF CallOK
    <2>2. "lock" \in Places \ {"idle", "write", "store", "cut"}
        BY DEF Places
    <2> QED BY <1>1, <1>3, <2>1, <2>2, QuietGoes DEF Check
<1>4. ASSUME NEW q, Moves(c, "array", q), Typed(q, Allocated, Made),
             q.handler = r.handler, q.name = r.name, q.sub = r.sub,
             q.handler = "ListSubscriptionsByTopic", q.topic # Nil
      PROVE  Inv'
    <2>1. CallOK(c, "array", q)
        BY <1>1, <1>4 DEF CallOK, Rangers
    <2>2. "array" \in Places \ {"idle", "write", "store", "cut"}
        BY DEF Places
    <2> QED BY <1>1, <1>4, <2>1, <2>2, QuietMove DEF Check
<1>5. CASE ~Is(c, "CreateTopic") /\ Topic(c) # Nil /\ Is(c, "Publish")
    <2>1. Goes(c, "array")
        BY <1>5 DEF Check, UseCheck, Is
    <2>2. CallOK(c, "array", r)
        BY <1>1, <1>5 DEF CallOK, Rangers, Is
    <2>3. "array" \in Places \ {"idle", "write", "store", "cut"}
        BY DEF Places
    <2> QED BY <1>1, <2>1, <2>2, <2>3, QuietGoes DEF Check
<1>6. CASE ~Is(c, "CreateTopic") /\ Topic(c) # Nil /\ Is(c, "ListSubscriptionsByTopic")
    <2>1. Topic(c) \in Made
        BY <1>1, <1>6, TableTopic DEF CallOK, Topic
    <2> DEFINE q == [r EXCEPT !.topic = Topic(c)]
    <2>3. Moves(c, "array", q)
        BY <1>6 DEF Check, UseCheck, Goto, Moves, Is
    <2>4. /\ Typed(q, Allocated, Made) /\ q.handler = r.handler /\ q.name = r.name /\ q.sub = r.sub
          /\ q.topic # Nil
        BY <1>1, <1>6, <2>1 DEF Typed
    <2> HIDE DEF q
    <2> QED BY <1>4, <1>6, <2>3, <2>4 DEF Is
<1>7. CASE Is(c, "CreateTopic") \/ Topic(c) = Nil
    BY <1>2, <1>3, <1>7 DEF Check, CreateCheck, UseCheck, Is
<1>8. CASE ~Is(c, "CreateTopic") /\ ~Is(c, "Publish") /\ ~Is(c, "ListSubscriptionsByTopic")
    <2>1. r.handler \in {"DeleteTopic", "Subscribe"}
        BY <1>1, <1>8 DEF CallOK, Is
    <2> QED BY <1>2, <1>3, <1>8, <2>1 DEF Check, UseCheck, Is
<1> QED BY <1>5, <1>6, <1>7, <1>8

LEMMA TopicsNextInv ==
    ASSUME Inv, NEW c \in Client, NEW n \in Name, TopicsNext(c, n)
    PROVE  Inv'
<1> DEFINE r == call[c]
<1>1. /\ Typed(r, Allocated, Made) /\ CallOK(c, "topics", r) /\ pc[c] = "topics"
      /\ UNCHANGED sharedVars
    BY CurrentCall DEF TopicsNext, At
<1>2. CASE Topics[n] = Nil \/ Is(c, "ListTopics")
    <2> DEFINE q == [r EXCEPT !.left = @ \ {n}]
    <2>1. ClientNext(c, "topics", q, {})
        BY <1>1, <1>2 DEF TopicsNext, ClientNext, Inv, TypeOK, ClientType
    <2>2. /\ Typed(q, Allocated, Made) /\ q.handler = r.handler /\ q.name = r.name /\ q.sub = r.sub
        BY <1>1 DEF Typed
    <2> HIDE DEF q
    <2>3. CallOK(c, "topics", q) /\ q # NoCall
        BY <1>1, <2>2, SomeCall DEF CallOK
    <2>4. "topics" \in Places \ {"write", "store", "cut"}
        BY DEF Places
    <2> QED BY <1>1, <2>1, <2>2, <2>3, <2>4, QuietInv
<1>3. CASE Topics[n] # Nil /\ ~Is(c, "ListTopics")
    <2> DEFINE q == [r EXCEPT !.left = @ \ {n}, !.topic = Topics[n]]
    <2>1. Topics[n] \in Made /\ Topics[n] # Nil
        BY <1>3, TableTopic
    <2>2. Moves(c, "array", q)
        BY <1>3 DEF TopicsNext, Goto, Moves
    <2>3. /\ Typed(q, Allocated, Made) /\ q.handler = r.handler /\ q.name = r.name /\ q.sub = r.sub
          /\ q.topic # Nil
        BY <1>1, <2>1 DEF Typed
    <2> HIDE DEF q
    <2>4. CallOK(c, "array", q)
        BY <1>1, <1>3, <2>3 DEF CallOK, Rangers, Is
    <2>5. "array" \in Places \ {"idle", "write", "store", "cut"}
        BY DEF Places
    <2> QED BY <1>1, <2>2, <2>3, <2>4, <2>5, QuietMove
<1> QED BY <1>2, <1>3

LEMMA RangeArrayInv ==
    ASSUME Inv, NEW c \in Client, RangeArray(c)
    PROVE  Inv'
<1> DEFINE r == call[c]
           o == IF Is(c, "Publish") THEN Topic(c) ELSE r.topic
           due == IF Is(c, "Publish") THEN Due(o, r.arg.attributes) ELSE {}
           q == [r EXCEPT !.topic = o, !.cap = array[o], !.i = 1, !.due = due]
<1>1. /\ Typed(r, Allocated, Made) /\ CallOK(c, "array", r) /\ pc[c] = "array"
      /\ UNCHANGED sharedVars
    BY CurrentCall DEF RangeArray, At
<1>2. CASE Is(c, "Publish") /\ Topic(c) = Nil
    BY <1>1, <1>2, QuietAnswer DEF RangeArray
<1>3. CASE ~(Is(c, "Publish") /\ Topic(c) = Nil)
    <2>1. o \in Made
        <3>1. CASE Is(c, "Publish")
            BY <1>1, <1>3, <3>1, TableTopic DEF CallOK, Topic
        <3>2. CASE ~Is(c, "Publish")
            BY <1>1, <3>2 DEF CallOK, Typed, Is
        <3> QED BY <3>1, <3>2
    <2>2. Moves(c, "length", q)
        BY <1>3 DEF RangeArray, Goto, Moves
    <2>3. array[o] \in Capacity /\ o # Nil
        BY <2>1, MadeTopic
    <2> HIDE DEF o
    <2>a. due \subseteq Sub
        BY <2>1, SubscribersType DEF Due, Staying, Allocated
    <2> HIDE DEF due
    <2>4. /\ Typed(q, Allocated, Made) /\ q.handler = r.handler /\ q.name = r.name /\ q.sub = r.sub
          /\ q.topic # Nil /\ q.i = 1
        BY <1>1, <2>1, <2>3, <2>a DEF Typed
    <2> HIDE DEF q
    <2>5. CallOK(c, "length", q)
        BY <1>1, <2>4 DEF CallOK
    <2>6. "length" \in Places \ {"idle", "write", "store", "cut"}
        BY DEF Places
    <2> QED BY <1>1, <2>2, <2>4, <2>5, <2>6, QuietMove
<1> QED BY <1>2, <1>3

LEMMA RangeLengthInv ==
    ASSUME Inv, NEW c \in Client, RangeLength(c)
    PROVE  Inv'
<1> DEFINE r == call[c]
           q == [r EXCEPT !.len = length[r.topic]]
<1>1. /\ Typed(r, Allocated, Made) /\ CallOK(c, "length", r) /\ pc[c] = "length"
      /\ UNCHANGED sharedVars
    BY CurrentCall DEF RangeLength, At
<1>2. length[r.topic] \in Nat
    BY <1>1, MadeTopic DEF CallOK, Typed
<1>3. Moves(c, "range", q)
    BY DEF RangeLength, Goto, Moves
<1>4. /\ Typed(q, Allocated, Made) /\ q.handler = r.handler /\ q.name = r.name /\ q.sub = r.sub
      /\ q.topic = r.topic /\ q.i = r.i
    BY <1>1, <1>2 DEF Typed
<1> HIDE DEF q
<1>5. CallOK(c, "range", q)
    BY <1>1, <1>4 DEF CallOK
<1>6. "range" \in Places \ {"idle", "write", "store", "cut"}
    BY DEF Places
<1> QED BY <1>1, <1>3, <1>4, <1>5, <1>6, QuietMove

\* Client c, whose slice is known, goes on iterating or serving.
LEMMA RangeMove ==
    ASSUME Inv, NEW c \in Client, NEW p \in {"range", "queue", "post", "append"}, NEW q,
           Moves(c, p, q), Typed(q, Allocated, Made), UNCHANGED sharedVars,
           q.handler = call[c].handler, q.name = call[c].name, q.topic = call[c].topic,
           pc[c] \in {"range", "queue", "append"} \/ (pc[c] = "post" /\ Is(c, "Publish")),
           q.handler \in Naming => q.sub # Nil, q.i > 0,
           p # "range" => q.handler = "Publish" /\ q.sub # Nil
    PROVE  Inv'
<1>1. CallOK(c, pc[c], call[c])
    BY CurrentCall
<1>2. CallOK(c, p, q)
    BY <1>1 DEF CallOK, Is, Rangers
<1>3. p \in Places \ {"idle", "write", "store", "cut"}
    BY DEF Places
<1> QED BY <1>2, <1>3, QuietMove

\* Call r goes on to entry k.
Entry(r, k, s, g) == [r EXCEPT !.i = k, !.sub = s, !.got = g]

LEMMA NextEntry ==
    ASSUME NEW r, NEW subs, NEW made, Typed(r, subs, made), NEW s \in subs \cup {Nil},
           NEW k \in Nat, NEW g \in [Sub -> Nat]
    PROVE  /\ Typed(Entry(r, k, s, g), subs, made)
           /\ Entry(r, k, s, g).handler = r.handler /\ Entry(r, k, s, g).name = r.name
           /\ Entry(r, k, s, g).topic = r.topic /\ Entry(r, k, s, g).i = k
           /\ Entry(r, k, s, g).sub = s
BY Zenon DEF Typed, Entry

LEMMA AdvanceInv ==
    ASSUME Inv, NEW c \in Client, Advance(c), UNCHANGED sharedVars,
           pc[c] \in {"range", "queue"}
    PROVE  Inv'
<1> DEFINE r == call[c]
           s == IF Is(c, "Publish") THEN Nil ELSE r.sub
           k == r.i + 1
           q == Entry(r, k, s, r.got)
<1>1. Typed(r, Allocated, Made) /\ CallOK(c, pc[c], r)
    BY CurrentCall
<1>2. Moves(c, "range", q)
    <2>1. q = [r EXCEPT !.i = @ + 1, !.sub = s]
        BY <1>1 DEF Entry, Typed
    <2> QED BY <2>1 DEF Advance, Goto, Moves
<1>3. /\ Typed(q, Allocated, Made) /\ q.handler = r.handler /\ q.name = r.name
      /\ q.topic = r.topic /\ q.i = k /\ (q.handler \in Naming => q.sub = r.sub)
    <2>1. s \in Allocated \cup {Nil}
        BY <1>1 DEF Typed
    <2>2. r.handler \in Naming => s = r.sub
        BY DEF Naming, Is
    <2> HIDE DEF s
    <2>3. k \in Nat /\ r.got \in [Sub -> Nat]
        BY <1>1 DEF Typed
    <2> DEFINE g == r.got
    <2> HIDE DEF k, g
    <2>4. /\ Typed(q, Allocated, Made) /\ q.handler = r.handler /\ q.name = r.name
          /\ q.topic = r.topic /\ q.i = k /\ q.sub = s
        BY <1>1, <2>1, <2>3, NextEntry DEF g
    <2> QED BY <2>2, <2>4
<1> HIDE DEF q
<1>4. r.i \in Nat /\ r.i > 0 /\ (q.handler \in Naming => q.sub # Nil)
    BY <1>1, <1>3 DEF Typed, CallOK
<1> QED BY <1>2, <1>3, <1>4, RangeMove

LEMMA RangeEndInv ==
    ASSUME Inv, NEW c \in Client, RangeEnd(c)
    PROVE  Inv'
<1> DEFINE r == call[c]
           q == [r EXCEPT !.topic = Nil, !.cap = 0, !.len = 0, !.i = 0]
<1>1. /\ Typed(r, Allocated, Made) /\ CallOK(c, "range", r) /\ pc[c] = "range"
      /\ UNCHANGED sharedVars
    BY CurrentCall DEF RangeEnd, At
<1>2. CASE Answer(c)
    BY <1>1, <1>2, QuietAnswer
<1>3. CASE ~Answer(c)
    <2>1. Moves(c, "topics", q) /\ r.handler \notin {"Publish", "ListSubscriptionsByTopic"}
        BY <1>3 DEF RangeEnd, Goto, Moves
    <2>2. /\ Typed(q, Allocated, Made) /\ q.handler = r.handler /\ q.name = r.name
          /\ q.sub = r.sub
        BY <1>1, CapacityType DEF Typed
    <2> HIDE DEF q
    <2>3. CallOK(c, "topics", q)
        BY <1>1, <2>1, <2>2 DEF CallOK, Rangers
    <2>4. "topics" \in Places \ {"idle", "write", "store", "cut"}
        BY DEF Places
    <2> QED BY <1>1, <2>1, <2>2, <2>3, <2>4, QuietMove
<1> QED BY <1>2, <1>3

LEMMA ServeInv ==
    ASSUME Inv, NEW c \in Client, NEW s \in Allocated, NEW p \in {"post", "queue"},
           Serve(c, s, p), Is(c, "Publish"), pc[c] = "range", UNCHANGED sharedVars
    PROVE  Inv'
<1> DEFINE r == call[c]
           q == [r EXCEPT !.sub = s]
<1>1. Typed(r, Allocated, Made) /\ CallOK(c, "range", r)
    BY CurrentCall
<1>2. Moves(c, p, q) /\ s # Nil
    BY TopicsAssumption DEF Serve, Goto, Moves, Allocated
<1>3. /\ Typed(q, Allocated, Made) /\ q.handler = r.handler /\ q.name = r.name
      /\ q.topic = r.topic /\ q.i = r.i /\ q.sub = s
    BY <1>1 DEF Typed
<1>4. r.i > 0 /\ r.handler = "Publish" /\ "Publish" \notin Naming
    BY <1>1 DEF CallOK, Is, Naming
<1> HIDE DEF q
<1> QED BY <1>2, <1>3, <1>4, RangeMove

LEMMA ReadsType ==
    ASSUME Inv, NEW c \in Client, NEW s, Reads(c, s)
    PROVE  s \in Allocated \cup {Nil} /\ call[c].i \in 1..call[c].cap
<1>1. Typed(call[c], Allocated, Made) /\ CallOK(c, "range", call[c])
    BY CurrentCall DEF Reads, At
<1>2. call[c].topic \in Object /\ call[c].cap \in Capacity
    BY <1>1, MadeTopic DEF Typed, CallOK
<1>3. cell[call[c].topic][call[c].cap] \in [1..call[c].cap -> Allocated \cup {Nil}]
    BY <1>2 DEF Inv, TypeOK, TopicType
<1>4. call[c].i \in 1..call[c].cap
    BY <1>1, <1>2, CapacityType DEF Reads, Typed
<1> QED BY <1>3, <1>4 DEF Reads

LEMMA RangeEntryInv ==
    ASSUME Inv, NEW c \in Client, NEW s \in Sub, RangeEntry(c, s)
    PROVE  Inv'
<1> DEFINE r == call[c]
<1>1. /\ Typed(r, Allocated, Made) /\ CallOK(c, "range", r) /\ pc[c] = "range"
      /\ UNCHANGED sharedVars
    BY CurrentCall DEF RangeEntry, Reads, At
<1>2. s \in Allocated
    BY ReadsType, TopicsAssumption DEF RangeEntry
<1>3. CASE Answer(c)
    BY <1>1, <1>3, QuietAnswer
<1>4. CASE Advance(c)
    BY <1>1, <1>4, AdvanceInv
<1>5. CASE Goes(c, "lock") /\ r.handler \in {"Unsubscribe", "SetSubscriptionAttributes"}
    <2>1. CallOK(c, "lock", r)
        BY <1>1, <1>5 DEF CallOK
    <2>2. "lock" \in Places \ {"idle", "write", "store", "cut"}
        BY DEF Places
    <2> QED BY <1>1, <1>5, <2>1, <2>2, QuietGoes
<1>6. CASE Is(c, "Publish")
    <2>1. PublishEntry(c, s)
        BY <1>6 DEF RangeEntry, Is
    <2> QED BY <1>1, <1>2, <1>4, <1>6, <2>1, ServeInv DEF PublishEntry
<1>7. CASE ~Is(c, "Publish")
    BY <1>3, <1>4, <1>5, <1>7 DEF RangeEntry, Is, AttributesEntry
<1> QED BY <1>6, <1>7

\* An entry has got the message.
LEMMA GotInv ==
    ASSUME Inv, NEW c \in Client, Goto(c, "range"), call' = Got(c), UNCHANGED sharedVars,
           pc[c] = "append" \/ (pc[c] = "post" /\ Is(c, "Publish"))
    PROVE  Inv'
<1> DEFINE r == call[c]
           g == [r.got EXCEPT ![r.sub] = @ + 1]
           k == r.i + 1
           q == Entry(r, k, Nil, g)
<1>1. /\ Typed(r, Allocated, Made) /\ CallOK(c, pc[c], r)
      /\ r.handler = "Publish" /\ r.sub # Nil
    BY CurrentCall DEF Is, CallOK
<1>2. Moves(c, "range", q)
    <2>1. q = [r EXCEPT !.got[r.sub] = @ + 1, !.i = @ + 1, !.sub = Nil]
        BY <1>1 DEF Entry, Typed
    <2> QED BY <2>1 DEF Goto, Moves, Got
<1>3. /\ Typed(q, Allocated, Made) /\ q.handler = r.handler /\ q.name = r.name
      /\ q.topic = r.topic /\ q.i = k
    <2>1. g \in [Sub -> Nat] /\ k \in Nat /\ Nil \in Allocated \cup {Nil}
        BY <1>1 DEF Typed, Allocated
    <2>2. Typed(r, Allocated, Made)
        BY <1>1
    <2> HIDE DEF g, k, r
    <2> QED BY <2>1, <2>2, Zenon DEF Typed, Entry
<1> HIDE DEF q
<1>4. r.i \in Nat /\ r.i > 0 /\ "Publish" \notin Naming
    BY <1>1 DEF Typed, CallOK, Naming
<1> QED BY <1>1, <1>2, <1>3, <1>4, RangeMove DEF Is

LEMMA PublishInv ==
    ASSUME Inv, NEW c \in Client, PublishPost(c) \/ PublishQueue(c)
    PROVE  Inv'
<1> DEFINE r == call[c]
<1>1. Typed(r, Allocated, Made) /\ CallOK(c, pc[c], r) /\ UNCHANGED sharedVars
    BY CurrentCall DEF PublishPost, PublishQueue
<1>2. CASE PublishPost(c)
    <2>1. pc[c] = "post" /\ Is(c, "Publish") /\ Goto(c, "range") /\ call' = Got(c)
        BY <1>2 DEF PublishPost, At
    <2> QED BY <1>1, <2>1, GotInv
<1>3. CASE PublishQueue(c)
    <2>1. pc[c] = "queue"
        BY <1>3 DEF PublishQueue, At
    <2>2. CASE Advance(c)
        BY <1>1, <2>1, <2>2, AdvanceInv
    <2>3. CASE Answer(c)
        BY <1>1, <2>3, QuietAnswer
    <2>4. CASE Goes(c, "append")
        <3>1. CallOK(c, "append", r)
            BY <1>1, <2>1 DEF CallOK
        <3>2. "append" \in Places \ {"idle", "write", "store", "cut"}
            BY DEF Places
        <3> QED BY <1>1, <2>1, <2>4, <3>1, <3>2, QuietGoes
    <2> QED BY <1>3, <2>2, <2>3, <2>4 DEF PublishQueue
<1> QED BY <1>2, <1>3

LEMMA SubscribedInv ==
    ASSUME Inv, NEW c \in Client, SubscribeDuplicate(c)
    PROVE  Inv'
<1> DEFINE r == call[c]
<1>0. PICK i \in Duplicates(Topic(c), r.arg) : Subscribed(c, Slot(Topic(c), i))
    BY DEF SubscribeDuplicate
<1> DEFINE s == Slot(Topic(c), i)
           q == [r EXCEPT !.sub = s]
<1>1. /\ Typed(r, Allocated, Made) /\ CallOK(c, "lock", r) /\ pc[c] = "lock"
      /\ UNCHANGED sharedVars /\ r.handler = "Subscribe"
    BY CurrentCall DEF SubscribeDuplicate, At, Is
<1>2. CASE Answer(c)
    BY <1>1, <1>2, QuietAnswer
<1>3. CASE ~Answer(c)
    <2>1. Moves(c, "token", q)
        BY <1>0, <1>3 DEF Subscribed, Goto, Moves
    <2>2. Topic(c) \in Made
        BY <1>1, TableTopic DEF SubscribeDuplicate, CallOK, Topic
    <2>3. s \in Allocated /\ s # Nil
        BY <1>0, <2>2, DuplicatesType
    <2> HIDE DEF s
    <2>4. /\ Typed(q, Allocated, Made) /\ q.handler = r.handler /\ q.name = r.name /\ q.sub = s
        BY <1>1, <2>3 DEF Typed
    <2> HIDE DEF q
    <2>5. CallOK(c, "token", q)
        BY <1>1, <2>3, <2>4 DEF CallOK
    <2>6. "token" \in Places \ {"idle", "write", "store", "cut"}
        BY DEF Places
    <2> QED BY <1>1, <2>1, <2>4, <2>5, <2>6, QuietMove
<1> QED BY <1>2, <1>3

\* The step of a client that holds the mutex, or finds it free.
LEMMA HoldMoves ==
    ASSUME Inv, NEW c \in Client, NEW p \in Places, NEW r, NEW S, ClientNext(c, p, r, S),
           lock \in {Free, c}, p \in {"write", "store", "cut"} => lock' = c,
           p = "cut" => r.i <= length'[r.topic],
           \A o \in Object : array'[o] = Nil => length'[o] = 0
    PROVE  HoldInv'
<1>1. ASSUME NEW d \in Client, d # c
      PROVE  pc'[d] \notin {"write", "store", "cut"}
    <2>1. pc'[d] = pc[d] /\ lock # d
        BY <1>1, TopicsAssumption DEF ClientNext
    <2> QED BY <2>1 DEF Inv, HoldInv
<1>2. ASSUME NEW d \in Client
      PROVE  /\ pc'[d] \in {"write", "store", "cut"} => lock' = d
             /\ pc'[d] = "cut" => call'[d].i <= length'[call'[d].topic]
    BY <1>1 DEF ClientNext
<1> QED BY <1>2 DEF HoldInv

\* What a step of c leaves of the clients' invariants, when it answers.
LEMMA AnswerNext ==
    ASSUME Inv, NEW c \in Client, Answer(c), Grows
    PROVE  ClientNext(c, "idle", NoCall, {}) /\ ClientType' /\ CallInv'
<1>1. Moves(c, "idle", NoCall)
    BY DEF Answer, Goto, Moves
<1>2. "idle" \in Places
    BY DEF Places
<1> HIDE DEF NoCall
<1>3. ClientNext(c, "idle", NoCall, {})
    BY <1>1, <1>2, MovesNext DEF Inv, TypeOK
<1> QED BY <1>3, NoCallOK, NoCallTyped, ClientNextType DEF Inv, TypeOK

LEMMA ReleasingAnswerNext ==
    ASSUME Inv, NEW c \in Client, NEW S, MovesReleasing(c, "idle", NoCall, S), Grows
    PROVE  ClientNext(c, "idle", NoCall, S) /\ ClientType' /\ CallInv'
<1>1. /\ pc'[c] = "idle" /\ call'[c] = Released(NoCall, S)
      /\ \A d \in Client : d # c => pc'[d] = pc[d] /\ call'[d] = Released(call[d], S)
    BY MovesReleasingTo DEF Inv, TypeOK
<1>2. Released(NoCall, S) = NoCall
    BY NoCallTyped, ReleasedTyped
<1>3. pc' \in [Client -> Places] /\ DOMAIN call' = Client
    BY DEF Inv, TypeOK, ClientType, MovesReleasing, Releasing, Places
<1> HIDE DEF NoCall
<1>4. ClientNext(c, "idle", NoCall, S)
    BY <1>1, <1>2, <1>3 DEF ClientNext
<1> QED BY <1>4, NoCallOK, NoCallTyped, ClientNextType DEF Inv, TypeOK

\* The call stays.
LEMMA GoesNext ==
    ASSUME Inv, NEW c \in Client, NEW p \in Places \ {"idle"}, Goes(c, p), pc[c] # "idle",
           CallOK(c, p, call[c]), Grows
    PROVE  ClientNext(c, p, call[c], {}) /\ ClientType' /\ CallInv'
<1>1. ClientNext(c, p, call[c], {})
    BY DEF Goes, Goto, ClientNext, Inv, TypeOK, ClientType
<1>2. call[c] # NoCall
    BY DEF Inv, TypeOK, ClientType
<1>3. Typed(call[c], Allocated', Made')
    BY CurrentCall DEF Typed, Grows
<1> QED BY <1>1, <1>2, <1>3, ClientNextType DEF Inv, TypeOK

LEMMA GrowsSame == UNCHANGED <<array, subscription>> => Grows
BY DEF Grows, Allocated, Made

LEMMA TopicSame == Inv /\ UNCHANGED topicVars => TopicType' /\ Grows
BY DEF Inv, TypeOK, TopicType, topicVars, Allocated, Made, Grows

LEMMA WriteBeginInv ==
    ASSUME Inv, NEW c \in Client, WriteBegin(c)
    PROVE  Inv'
<1>1. /\ lock = Free /\ lock' = c /\ Goes(c, "write") /\ UNCHANGED topicVars
      /\ pc[c] = "lock" /\ call[c].handler \in {"CreateTopic", "DeleteTopic"}
    BY DEF WriteBegin, At
<1>2. CallOK(c, "write", call[c])
    BY <1>1, CurrentCall DEF CallOK
<1>3. "write" \in Places \ {"idle"} /\ Grows /\ TopicType'
    BY <1>1, TopicSame DEF Places
<1>4. ClientNext(c, "write", call[c], {}) /\ ClientType' /\ CallInv'
    BY <1>1, <1>2, <1>3, GoesNext
<1>5. ServerType'
    BY DEF WriteBegin, Inv, TypeOK, ServerType, confirmVars
<1>6. HoldInv'
    BY <1>1, <1>3, <1>4, HoldMoves DEF topicVars, Inv, HoldInv
<1> QED BY <1>3, <1>4, <1>5, <1>6 DEF Inv, TypeOK

LEMMA CreateTopicInv ==
    ASSUME Inv, NEW c \in Client, NEW o \in Object, CreateTopic(c, o)
    PROVE  Inv'
<1>1. Answer(c) /\ lock = c /\ lock' = Free /\ array[o] = Nil /\ length[o] = 0
    BY DEF CreateTopic, At, Inv, HoldInv
<1>2. array' = [array EXCEPT ![o] = 0] /\ UNCHANGED <<length, cell, subscription>>
    BY DEF CreateTopic
<1>3. 0 # Nil /\ 0 \in Capacity
    BY TopicsAssumption, CapacityType
<1>4. Grows
    BY <1>2, <1>3 DEF Grows, Allocated, Made, Inv, TypeOK, TopicType
<1>5. ClientNext(c, "idle", NoCall, {}) /\ ClientType' /\ CallInv'
    BY <1>1, <1>4, AnswerNext
<1>6. TopicType'
    <2>1. Topics' = [Topics EXCEPT ![call[c].name] = o]
        BY DEF CreateTopic
    <2>2. array' \in [Object -> Capacity \cup {Nil}]
        BY <1>2, <1>3 DEF Inv, TypeOK, TopicType
    <2>3. Topics' \in [Name -> {p \in Object : array'[p] # Nil} \cup {Nil}]
        BY <1>2, <1>3, <2>1 DEF Inv, TypeOK, TopicType
    <2>4. \A p \in Object : array'[p] # Nil => length'[p] <= array'[p]
        BY <1>1, <1>2 DEF Inv, TypeOK, TopicType
    <2> QED BY <1>2, <2>2, <2>3, <2>4 DEF Inv, TypeOK, TopicType, Allocated
<1>7. ServerType'
    BY DEF CreateTopic, Inv, TypeOK, ServerType, confirmVars, hazardVars
<1>8. "idle" \in Places /\ \A p \in Object : array'[p] = Nil => length'[p] = 0
    BY <1>2, <1>3 DEF Places, Inv, HoldInv, TypeOK, TopicType
<1>9. HoldInv'
    <2> HIDE DEF NoCall
    <2> QED BY <1>1, <1>5, <1>8, HoldMoves
<1> QED BY <1>5, <1>6, <1>7, <1>9 DEF Inv, TypeOK

LEMMA DeleteTopicInv ==
    ASSUME Inv, NEW c \in Client, DeleteTopic(c)
    PROVE  Inv'
<1>1. Answer(c) /\ lock = c /\ lock' = Free
    BY DEF DeleteTopic, At, Inv, HoldInv
<1>2. Topics' = [Topics EXCEPT ![call[c].name] = Nil] /\ UNCHANGED <<array, length, cell, subscription>>
    BY DEF DeleteTopic
<1>3. Grows
    BY <1>2, GrowsSame
<1>4. ClientNext(c, "idle", NoCall, {}) /\ ClientType' /\ CallInv'
    BY <1>1, <1>3, AnswerNext
<1>5. TopicType'
    BY <1>2 DEF Inv, TypeOK, TopicType, Allocated
<1>6. ServerType'
    BY DEF DeleteTopic, Inv, TypeOK, ServerType, confirmVars, hazardVars
<1>7. "idle" \in Places /\ \A p \in Object : array'[p] = Nil => length'[p] = 0
    BY <1>2 DEF Places, Inv, HoldInv
<1>8. HoldInv'
    <2> HIDE DEF NoCall
    <2> QED BY <1>1, <1>4, <1>7, HoldMoves
<1> QED BY <1>4, <1>5, <1>6, <1>8 DEF Inv, TypeOK

LEMMA NewSubFresh ==
    ASSUME Allocated # Sub
    PROVE  NewSub \in Sub \ Allocated /\ NewSub # Nil
<1>1. \E s \in Sub : s \notin Allocated
    BY DEF Allocated
<1> QED BY <1>1, TopicsAssumption DEF NewSub

\* The array that a subscription of o is appended to.
NewArray(o) == IF length[o] < array[o] THEN array[o] ELSE IF array[o] = 0 THEN 1 ELSE 2 * array[o]

LEMMA SubscribeBeginFacts ==
    ASSUME Inv, NEW c \in Client, SubscribeBegin(c)
    PROVE  LET o == Topic(c)
               s == NewSub
               new == NewArray(o)
           IN  /\ pc[c] = "lock" /\ Is(c, "Subscribe") /\ lock = Free /\ lock' = c
               /\ o # Nil /\ o \in Made /\ Duplicates(o, call[c].arg) = {}
               /\ s \in Sub \ Allocated /\ s # Nil /\ call[c].arg \in Subscription
               /\ new \in Capacity /\ new \in Nat /\ length[o] < new /\ array[o] <= new
               /\ array' = [array EXCEPT ![o] = new]
               /\ length' = [length EXCEPT ![o] = @ + 1]
               /\ cell' = IF new = array[o] THEN cell
                          ELSE [cell EXCEPT ![o][new] =
                                  [i \in 1..new |-> IF i <= array[o] THEN cell[o][array[o]][i]
                                                    ELSE Nil]]
               /\ subscription' = [subscription EXCEPT ![s] = call[c].arg]
               /\ Moves(c, "store", [call[c] EXCEPT !.sub = s])
               /\ UNCHANGED <<Topics, Queues, queuesLock, crashed, confirmVars, hazardVars>>
<1> DEFINE o == Topic(c)
<1>1. pc[c] = "lock" /\ Is(c, "Subscribe") /\ Allocated # Sub
    BY SMTT(30) DEF SubscribeBegin, At
<1>2. o \in Made
    BY <1>1, CurrentCall, TableTopic DEF SubscribeBegin, CallOK, Topic
<1>3. call[c].arg \in Subscription
    BY <1>1, CurrentCall, TopicsAssumption DEF Typed, Argument, Is
<1>4. NewArray(o) \in Nat /\ length[o] < NewArray(o) /\ array[o] <= NewArray(o)
    BY <1>2, MadeTopic DEF NewArray
<1> QED BY <1>1, <1>2, <1>3, <1>4, NewSubFresh DEF SubscribeBegin, NewArray, Goto, Moves

LEMMA SubscribeBeginInv ==
    ASSUME Inv, NEW c \in Client, SubscribeBegin(c)
    PROVE  Inv'
<1> DEFINE o == Topic(c)
           s == NewSub
           new == NewArray(o)
           q == [call[c] EXCEPT !.sub = s]
<1>0. /\ pc[c] = "lock" /\ Is(c, "Subscribe") /\ lock = Free /\ lock' = c
      /\ o \in Made
      /\ s \in Sub \ Allocated /\ s # Nil /\ call[c].arg \in Subscription
      /\ new \in Capacity /\ new \in Nat /\ length[o] < new
      /\ array' = [array EXCEPT ![o] = new] /\ length' = [length EXCEPT ![o] = @ + 1]
      /\ cell' = IF new = array[o] THEN cell
                 ELSE [cell EXCEPT ![o][new] =
                        [i \in 1..new |-> IF i <= array[o] THEN cell[o][array[o]][i] ELSE Nil]]
      /\ subscription' = [subscription EXCEPT ![s] = call[c].arg]
      /\ Moves(c, "store", q)
      /\ UNCHANGED <<Topics, Queues, queuesLock, crashed, confirmVars, hazardVars>>
    BY SubscribeBeginFacts
<1>1. o \in Object /\ array[o] \in Nat /\ length[o] \in Nat /\ new # Nil /\ call[c].arg # Nil
    BY <1>0, MadeTopic, TopicsAssumption
<1> HIDE DEF o, s, new
<1>2. Allocated \subseteq Allocated' /\ s \in Allocated'
    BY <1>0, <1>1 DEF Allocated, Inv, TypeOK, TopicType
<1>3. Made \subseteq Made'
    BY <1>0, <1>1 DEF Made, Inv, TypeOK, TopicType
<1>4. /\ Typed(q, Allocated', Made') /\ q.handler = call[c].handler /\ q.name = call[c].name
      /\ q.sub = s
    BY <1>2, <1>3, CurrentCall DEF Typed
<1> HIDE DEF q
<1>5. CallOK(c, "store", q) /\ q # NoCall
    BY <1>0, <1>4, CurrentCall, SomeCall DEF CallOK, Is
<1>6. "store" \in Places
    BY DEF Places
<1>7. ClientNext(c, "store", q, {})
    BY <1>0, <1>6, MovesNext DEF Inv, TypeOK
<1>8. ClientType' /\ CallInv'
    BY <1>2, <1>3, <1>4, <1>5, <1>7, ClientNextType DEF Grows, Inv, TypeOK
<1>9. TopicType'
    <2>1. array' \in [Object -> Capacity \cup {Nil}]
        BY <1>0 DEF Inv, TypeOK, TopicType
    <2>2. length' \in [Object -> Nat] /\ \A p \in Object : array'[p] # Nil => length'[p] <= array'[p]
        BY <1>0, <1>1 DEF Inv, TypeOK, TopicType
    <2>3. subscription' \in [Sub -> Subscription \cup {Nil}]
        BY <1>0 DEF Inv, TypeOK, TopicType
    <2>4. DOMAIN cell' = Object /\ \A p \in Object : DOMAIN cell'[p] = Capacity
        BY <1>0 DEF Inv, TypeOK, TopicType
    <2>5. ASSUME NEW p \in Object, NEW k \in Capacity
          PROVE  cell'[p][k] \in [1..k -> Allocated' \cup {Nil}]
        <3>1. cell[p][k] \in [1..k -> Allocated' \cup {Nil}]
            BY <1>2 DEF Inv, TypeOK, TopicType
        <3>2. CASE p = o /\ k = new /\ new # array[o]
            <4>1. array[o] \in Capacity
                BY <1>0, MadeTopic
            <4>2. cell[o][array[o]] \in [1..array[o] -> Allocated' \cup {Nil}]
                BY <1>1, <1>2, <4>1 DEF Inv, TypeOK, TopicType
            <4>3. [i \in 1..new |-> IF i <= array[o] THEN cell[o][array[o]][i] ELSE Nil]
                    \in [1..new -> Allocated' \cup {Nil}]
                BY <1>0, <1>1, <4>2
            <4>4. cell'[p][k] = [i \in 1..new |-> IF i <= array[o] THEN cell[o][array[o]][i] ELSE Nil]
                BY <1>0, <3>2 DEF Inv, TypeOK, TopicType
            <4> QED BY <3>2, <4>3, <4>4
        <3>3. CASE ~(p = o /\ k = new /\ new # array[o])
            <4>1. cell'[p][k] = cell[p][k]
                BY <1>0, <3>3 DEF Inv, TypeOK, TopicType
            <4> QED BY <3>1, <4>1
        <3> QED BY <3>2, <3>3
    <2>6. Topics' \in [Name -> {p \in Object : array'[p] # Nil} \cup {Nil}]
        BY <1>0, <1>3 DEF Inv, TypeOK, TopicType, Made
    <2> QED BY <2>1, <2>2, <2>3, <2>4, <2>5, <2>6 DEF TopicType
<1>10. ServerType'
    BY <1>0 DEF Inv, TypeOK, ServerType, confirmVars, hazardVars
<1>11. \A p \in Object : array'[p] = Nil => length'[p] = 0
    BY <1>0, <1>1 DEF Inv, HoldInv, TypeOK, TopicType
<1>12. HoldInv'
    BY <1>0, <1>6, <1>7, <1>11, HoldMoves
<1> QED BY <1>8, <1>9, <1>10, <1>12 DEF Inv, TypeOK

LEMMA SubscribeEndInv ==
    ASSUME Inv, NEW c \in Client, SubscribeEnd(c)
    PROVE  Inv'
<1> DEFINE o == Topic(c)
           s == call[c].sub
<1>1. /\ pc[c] = "store" /\ lock = c /\ lock' = Free
      /\ Typed(call[c], Allocated, Made) /\ CallOK(c, "store", call[c])
      /\ UNCHANGED <<Topics, array, length, subscription, Queues, queuesLock, crashed,
                     confirmVars, hazardVars>>
      /\ cell' = [cell EXCEPT ![o][array[o]][length[o]] = s]
    BY CurrentCall DEF SubscribeEnd, At, Inv, HoldInv
<1>2. s \in Allocated
    BY <1>1 DEF Typed, CallOK
<1>3. TopicType'
    <2>1. DOMAIN cell' = Object /\ \A p \in Object : DOMAIN cell'[p] = Capacity
        BY <1>1 DEF Inv, TypeOK, TopicType
    <2>2. ASSUME NEW p \in Object, NEW k \in Capacity
          PROVE  cell'[p][k] \in [1..k -> Allocated \cup {Nil}]
        <3> HIDE DEF s, o
        <3>1. cell[p][k] \in [1..k -> Allocated \cup {Nil}]
            BY DEF Inv, TypeOK, TopicType
        <3>2. cell'[p][k] = cell[p][k] \/ cell'[p][k] = [cell[p][k] EXCEPT ![length[o]] = s]
            BY <1>1 DEF Inv, TypeOK, TopicType
        <3> QED BY <1>2, <3>1, <3>2
    <2> HIDE DEF s, o
    <2> QED BY <1>1, <2>1, <2>2 DEF Inv, TypeOK, TopicType, Allocated
<1>4. ServerType'
    BY <1>1 DEF Inv, TypeOK, ServerType, confirmVars, hazardVars
<1>5. Grows /\ \A p \in Object : array'[p] = Nil => length'[p] = 0
    BY <1>1, GrowsSame DEF Inv, HoldInv
<1>6. CASE Answer(c)
    <2>1. ClientNext(c, "idle", NoCall, {}) /\ ClientType' /\ CallInv'
        BY <1>5, <1>6, AnswerNext
    <2>2. "idle" \in Places
        BY DEF Places
    <2> HIDE DEF NoCall
    <2>3. HoldInv'
        BY <1>1, <1>5, <2>1, <2>2, HoldMoves
    <2> QED BY <1>3, <1>4, <2>1, <2>3 DEF Inv, TypeOK
<1>7. CASE ~Answer(c)
    <2> DEFINE q == [call[c] EXCEPT !.sub = s]
    <2>1. Moves(c, "token", q) /\ "token" \in Places
        BY <1>7 DEF SubscribeEnd, Subscribed, Goto, Moves, Places
    <2>2. /\ Typed(q, Allocated', Made') /\ q.handler = call[c].handler /\ q.name = call[c].name
          /\ q.sub = s
        BY <1>1, <1>5 DEF Typed, Grows
    <2> HIDE DEF q
    <2>3. CallOK(c, "token", q) /\ q # NoCall
        BY <1>1, <2>2, SomeCall DEF CallOK
    <2>4. ClientNext(c, "token", q, {})
        BY <2>1, MovesNext DEF Inv, TypeOK
    <2>5. ClientType' /\ CallInv'
        BY <1>5, <2>2, <2>3, <2>4, ClientNextType DEF Inv, TypeOK
    <2>6. HoldInv'
        BY <1>1, <1>5, <2>1, <2>4, HoldMoves
    <2> QED BY <1>3, <1>4, <2>5, <2>6 DEF Inv, TypeOK
<1> QED BY <1>6, <1>7

\* A panic leaves the mutex locked, or takes nothing else.
LEMMA PanicInv ==
    ASSUME Inv, NEW c \in Client, Answer(c), UNCHANGED <<topicVars, Queues, confirmVars>>,
           crashed' \in BOOLEAN, deleted' \in Nat, overlapped' \in BOOLEAN,
           \/ lock = Free /\ lock' = c /\ UNCHANGED queuesLock
           \/ UNCHANGED lock /\ queuesLock' \in Client \cup {Free}
    PROVE  Inv'
<1>1. TopicType' /\ Grows
    BY TopicSame
<1>2. ClientNext(c, "idle", NoCall, {}) /\ ClientType' /\ CallInv'
    BY <1>1, AnswerNext
<1>3. ServerType'
    BY DEF Inv, TypeOK, ServerType, confirmVars
<1>4. "idle" \in Places \ {"write", "store", "cut"}
    BY DEF Places
<1>5. HoldInv'
    <2> HIDE DEF NoCall
    <2>1. CASE UNCHANGED lock
        BY <1>2, <1>4, <2>1, HoldNext DEF topicVars
    <2>2. CASE lock = Free
        BY <1>2, <1>4, <2>2, TopicsAssumption, HoldNext DEF topicVars
    <2> QED BY <2>1, <2>2
<1> QED BY <1>1, <1>2, <1>3, <1>5 DEF Inv, TypeOK

LEMMA UnsubscribeShiftInv ==
    ASSUME Inv, NEW c \in Client, UnsubscribeShift(c)
    PROVE  Inv'
<1> DEFINE r == call[c]
           o == r.topic
           S == Moved(o, r.i)
<1>1. /\ pc[c] = "lock" /\ Is(c, "Unsubscribe") /\ lock = Free /\ lock' = c
      /\ r.i <= length[o] /\ cell' = [cell EXCEPT ![o][array[o]] = Shifted(o, r.i)]
      /\ pc' = [pc EXCEPT ![c] = "cut"] /\ call' = Releasing(S, call)
      /\ UNCHANGED <<Topics, array, length, subscription, Queues, queuesLock, crashed,
                     confirmVars, hazardVars>>
    BY DEF UnsubscribeShift, At, Goto
<1>2. /\ Typed(r, Allocated, Made) /\ CallOK(c, "lock", r) /\ o \in Made
      /\ r.i \in Nat /\ r.i > 0
    BY <1>1, CurrentCall DEF Typed, CallOK, Is
<1> HIDE DEF S
<1>3. Grows
    BY <1>1, GrowsSame
<1> DEFINE q == Released(r, S)
<1>4. /\ Typed(q, Allocated, Made) /\ q.handler = r.handler /\ q.name = r.name /\ q.sub = r.sub
      /\ q.topic = o /\ q.i = r.i
    BY <1>2, ReleasedTyped
<1>5. ClientNext(c, "cut", q, S)
    <2>1. pc' \in [Client -> Places] /\ DOMAIN call' = Client
        BY <1>1 DEF Inv, TypeOK, ClientType, Releasing, Places
    <2>2. \A d \in Client : call'[d] = Released(call[d], S)
        BY <1>1 DEF Releasing, Released
    <2> QED BY <1>1, <2>1, <2>2 DEF ClientNext, Inv, TypeOK, ClientType
<1> HIDE DEF q
<1>6. Typed(q, Allocated', Made') /\ CallOK(c, "cut", q) /\ q # NoCall
    <2>1. Typed(q, Allocated', Made')
        BY <1>3, <1>4 DEF Typed, Grows
    <2>2. CallOK(c, "cut", q)
        BY <1>1, <1>2, <1>4, TopicsAssumption DEF CallOK, Is, Made
    <2> QED BY <2>1, <2>2, SomeCall DEF CallOK
<1>7. ClientType' /\ CallInv'
    BY <1>3, <1>5, <1>6, ClientNextType DEF Inv, TypeOK
<1>8. TopicType'
    <2>0. /\ o \in Object /\ array[o] \in Capacity /\ array[o] \in Nat /\ length[o] \in Nat
          /\ length[o] <= array[o] /\ \A i \in 1..array[o] : Slot(o, i) \in Allocated \cup {Nil}
        BY <1>2, MadeTopic
    <2>1. DOMAIN cell' = Object /\ \A p \in Object : DOMAIN cell'[p] = Capacity
        BY <1>1 DEF Inv, TypeOK, TopicType
    <2>2. Shifted(o, r.i) \in [1..array[o] -> Allocated \cup {Nil}]
        <3> HIDE DEF o
        <3>1. \A j \in 1..array[o] : j \in r.i..(length[o] - 1) => j + 1 \in 1..array[o]
            BY <1>2, <2>0
        <3> QED BY <2>0, <3>1 DEF Shifted, Slot
    <2>3. ASSUME NEW p \in Object, NEW k \in Capacity
          PROVE  cell'[p][k] \in [1..k -> Allocated \cup {Nil}]
        <3> HIDE DEF o
        <3>1. cell[p][k] \in [1..k -> Allocated \cup {Nil}]
            BY DEF Inv, TypeOK, TopicType
        <3>2. cell'[p][k] = cell[p][k] \/ (k = array[o] /\ cell'[p][k] = Shifted(o, r.i))
            BY <1>1 DEF Inv, TypeOK, TopicType
        <3> QED BY <2>2, <3>1, <3>2
    <2> HIDE DEF o
    <2> QED BY <1>1, <2>1, <2>3 DEF Inv, TypeOK, TopicType, Allocated
<1>9. ServerType'
    BY <1>1 DEF Inv, TypeOK, ServerType, confirmVars, hazardVars
<1>10. "cut" \in Places /\ \A p \in Object : array'[p] = Nil => length'[p] = 0
    BY <1>1 DEF Places, Inv, HoldInv
<1>11. q.i <= length'[q.topic]
    BY <1>1, <1>4
<1>12. HoldInv'
    BY <1>1, <1>5, <1>10, <1>11, HoldMoves
<1> QED BY <1>7, <1>8, <1>9, <1>12 DEF Inv, TypeOK

LEMMA UnsubscribeCutInv ==
    ASSUME Inv, NEW c \in Client, UnsubscribeCut(c)
    PROVE  Inv'
<1> DEFINE r == call[c]
           o == r.topic
<1>1. /\ pc[c] = "cut" /\ lock = c /\ lock' = Free /\ Answer(c)
      /\ cell' = [cell EXCEPT ![o][array[o]][length[o]] = Nil]
      /\ length' = [length EXCEPT ![o] = @ - 1]
      /\ UNCHANGED <<Topics, array, subscription, Queues, queuesLock, crashed, confirmVars,
                     deleted>>
    BY DEF UnsubscribeCut, At, Inv, HoldInv
<1>2. /\ Typed(r, Allocated, Made) /\ CallOK(c, "cut", r) /\ o \in Made
      /\ r.i \in Nat /\ r.i > 0 /\ r.i <= length[o]
    BY <1>1, CurrentCall DEF Typed, CallOK, Inv, HoldInv
<1>3. Grows
    BY <1>1, GrowsSame
<1>4. ClientNext(c, "idle", NoCall, {}) /\ ClientType' /\ CallInv'
    BY <1>1, <1>3, AnswerNext
<1>5. o \in Object /\ length[o] \in Nat /\ length[o] > 0 /\ array[o] \in Nat /\ array[o] # Nil
      /\ length[o] <= array[o]
    <2>1. o \in Object /\ length[o] \in Nat /\ array[o] \in Nat /\ length[o] <= array[o]
        BY <1>2, MadeTopic
    <2> HIDE DEF o
    <2> QED BY <1>2, <2>1 DEF Made
<1> HIDE DEF o
<1>6. length' \in [Object -> Nat] /\ \A p \in Object : array'[p] # Nil => length'[p] <= array'[p]
    BY <1>1, <1>5 DEF Inv, TypeOK, TopicType
<1>7. TopicType'
    <2>1. DOMAIN cell' = Object /\ \A p \in Object : DOMAIN cell'[p] = Capacity
        BY <1>1 DEF Inv, TypeOK, TopicType
    <2>2. ASSUME NEW p \in Object, NEW k \in Capacity
          PROVE  cell'[p][k] \in [1..k -> Allocated \cup {Nil}]
        <3>1. cell[p][k] \in [1..k -> Allocated \cup {Nil}]
            BY DEF Inv, TypeOK, TopicType
        <3>2. cell'[p][k] = cell[p][k] \/ cell'[p][k] = [cell[p][k] EXCEPT ![length[o]] = Nil]
            BY <1>1 DEF Inv, TypeOK, TopicType
        <3> QED BY <3>1, <3>2
    <2> QED BY <1>1, <1>6, <2>1, <2>2 DEF Inv, TypeOK, TopicType, Allocated
<1>8. ServerType'
    BY <1>1 DEF UnsubscribeCut, Inv, TypeOK, ServerType, confirmVars
<1>9. \A p \in Object : array'[p] = Nil => length'[p] = 0
    BY <1>1, <1>5 DEF Inv, HoldInv, TypeOK, TopicType
<1>10. HoldInv'
    <2>1. "idle" \in Places
        BY DEF Places
    <2> HIDE DEF NoCall
    <2> QED BY <1>1, <1>4, <1>9, <2>1, HoldMoves
<1> QED BY <1>4, <1>7, <1>8, <1>10 DEF Inv, TypeOK

LEMMA SetAttributesInv ==
    ASSUME Inv, NEW c \in Client, SetSubscriptionAttributes(c)
    PROVE  Inv'
<1> DEFINE r == call[c]
           s == r.sub
           a == r.arg
           new == IF a.attribute = "RawMessageDelivery" THEN [subscription[s] EXCEPT !.raw = a.raw]
                  ELSE [subscription[s] EXCEPT !.policy = a.policy]
<1>1. /\ pc[c] = "lock" /\ Is(c, "SetSubscriptionAttributes") /\ lock = Free
      /\ UNCHANGED <<Topics, array, length, cell, Queues, mutexVars, confirmVars, hazardVars>>
    BY DEF SetSubscriptionAttributes, At
<1>2. Typed(r, Allocated, Made) /\ CallOK(c, "lock", r)
    BY <1>1, CurrentCall
<1>3. s \in Allocated /\ a \in AttributeInputs
    BY <1>1, <1>2 DEF Typed, CallOK, Is, Argument, Naming
<1>4. subscription' = [subscription EXCEPT ![s] = new] /\ subscription[s] \in Subscription
      /\ s \in Sub
    BY <1>3 DEF SetSubscriptionAttributes, Allocated, Inv, TypeOK, TopicType
<1>5. new \in Subscription /\ new # Nil
    <2>1. a.raw \in BOOLEAN /\ a.policy \in Policy
        BY <1>3, TopicsAssumption
    <2> QED BY <1>4, <2>1, TopicsAssumption DEF Subscription
<1> HIDE DEF new
<1>6. Allocated' = Allocated /\ Made' = Made
    BY <1>1, <1>3, <1>4, <1>5 DEF Allocated, Made, Inv, TypeOK, TopicType
<1>7. TopicType'
    <2>1. subscription' \in [Sub -> Subscription \cup {Nil}]
        BY <1>4, <1>5 DEF Inv, TypeOK, TopicType
    <2>2. \A o \in Object, k \in Capacity : cell'[o][k] \in [1..k -> Allocated' \cup {Nil}]
        BY <1>1, <1>6 DEF Inv, TypeOK, TopicType
    <2> QED BY <1>1, <2>1, <2>2 DEF Inv, TypeOK, TopicType
<1>8. ServerType'
    BY <1>1 DEF Inv, TypeOK, ServerType, confirmVars, hazardVars, mutexVars
<1>9. ASSUME NEW S, ClientNext(c, "idle", NoCall, S), ClientType', CallInv'
      PROVE  Inv'
    <2>1. "idle" \in Places \ {"write", "store", "cut"}
        BY DEF Places
    <2> HIDE DEF NoCall
    <2>2. HoldInv'
        BY <1>1, <1>9, <2>1, HoldNext DEF mutexVars
    <2> QED BY <1>7, <1>8, <1>9, <2>2 DEF Inv, TypeOK
<1>10. CASE Answer(c)
    BY <1>6, <1>9, <1>10, AnswerNext DEF Grows
<1>11. CASE ~Answer(c)
    <2>1. MovesReleasing(c, "idle", NoCall, {s})
        BY <1>11 DEF SetSubscriptionAttributes, MovesReleasing, Goto
    <2> QED BY <1>6, <1>9, <2>1, ReleasingAnswerNext DEF Grows
<1> QED BY <1>10, <1>11

LEMMA IssueTokenInv ==
    ASSUME Inv, NEW c \in Client, IssueToken(c)
    PROVE  Inv'
<1> DEFINE r == call[c]
           k == Len(issued) + 1
           e == [arn |-> r.arg.arn, sub |-> r.sub]
           q == [r EXCEPT !.i = k]
<1>1. /\ pc[c] = "token" /\ Typed(r, Allocated, Made) /\ CallOK(c, "token", r)
      /\ issued' = Append(issued, e)
      /\ TopicData' = [TopicData EXCEPT ![r.arg.arn] = [sub |-> r.sub, token |-> k]]
      /\ UNCHANGED <<topicVars, Queues, mutexVars, hazardVars>>
    BY CurrentCall DEF IssueToken, At, NextToken
<1>2. TopicType' /\ Grows
    BY <1>1, TopicSame
<1>3. Moves(c, "post", q) /\ "post" \in Places \ {"write", "store", "cut"}
    BY DEF IssueToken, NextToken, Goto, Moves, Places
<1>4. issued \in Seq([arn : Arn, sub : Sub]) /\ k \in Nat
    BY DEF Inv, TypeOK, ServerType
<1>5. e \in [arn : Arn, sub : Sub]
    <2>1. r.arg \in Subscription
        BY <1>1, TopicsAssumption DEF Typed, CallOK, Argument
    <2> QED BY <1>1, <2>1 DEF Typed, CallOK, Allocated, Subscription
<1>6. issued' \in Seq([arn : Arn, sub : Sub]) /\ Len(issued') = k
    <2> HIDE DEF e
    <2> QED BY <1>1, <1>4, <1>5
<1>7. ServerType'
    <2>1. ASSUME NEW n \in Arn, TopicData'[n] # Nil
          PROVE  TopicData'[n].token \in 1..Len(issued')
        <3>1. CASE TopicData'[n] = TopicData[n]
            <4>1. TopicData[n].token \in 1..Len(issued)
                BY <2>1, <3>1 DEF Inv, TypeOK, ServerType
            <4> QED BY <1>4, <1>6, <3>1, <4>1
        <3>2. CASE TopicData'[n] = [sub |-> r.sub, token |-> k]
            BY <1>4, <1>6, <3>2
        <3> QED BY <1>1, <3>1, <3>2
    <2> QED BY <1>1, <1>6, <2>1 DEF Inv, TypeOK, ServerType, mutexVars, hazardVars
<1> HIDE DEF k
<1>8. /\ Typed(q, Allocated', Made') /\ q.handler = r.handler /\ q.name = r.name
      /\ q.sub = r.sub
    BY <1>1, <1>2, <1>4 DEF Typed, Grows
<1> HIDE DEF q
<1>9. CallOK(c, "post", q) /\ q # NoCall
    BY <1>1, <1>8, SomeCall DEF CallOK
<1>10. ClientNext(c, "post", q, {})
    BY <1>3, MovesNext DEF Inv, TypeOK
<1>11. ClientType' /\ CallInv'
    BY <1>2, <1>3, <1>8, <1>9, <1>10, ClientNextType DEF Inv, TypeOK
<1>12. HoldInv'
    BY <1>1, <1>3, <1>10, HoldNext DEF topicVars, mutexVars
<1> QED BY <1>2, <1>7, <1>11, <1>12 DEF Inv, TypeOK

LEMMA PublishAppendInv ==
    ASSUME Inv, NEW c \in Client, PublishAppend(c)
    PROVE  Inv'
<1>1. CASE Answer(c) /\ queuesLock' = c
    BY <1>1, PanicInv DEF PublishAppend, hazardVars, Inv, TypeOK, ServerType
<1>2. CASE Goto(c, "range") /\ call' = Got(c) /\ UNCHANGED queuesLock
    <2>1. UNCHANGED sharedVars /\ pc[c] = "append"
        BY <1>2 DEF PublishAppend, sharedVars, mutexVars, At
    <2> QED BY <1>2, <2>1, GotInv
<1> QED BY <1>1, <1>2 DEF PublishAppend

\* A queue comes or goes: only what Publish owes changes.
LEMMA QueueInv ==
    ASSUME Inv, NEW q \in QueueEndpoint, CreateQueue(q) \/ DeleteQueue(q)
    PROVE  Inv'
<1>1. /\ UNCHANGED <<topicVars, mutexVars, confirmVars, pc, overlapped>>
      /\ Queues' \subseteq QueueEndpoint /\ deleted' \in Nat
    BY DEF CreateQueue, DeleteQueue, clientVars, hazardVars, Inv, TypeOK, ServerType
<1>2. TopicType' /\ Grows
    BY <1>1, TopicSame
<1>3. ServerType'
    BY <1>1 DEF Inv, TypeOK, ServerType, mutexVars, confirmVars
<1>4. CASE UNCHANGED call
    BY <1>1, <1>2, <1>3, <1>4 DEF Inv, TypeOK, ClientType, CallInv, HoldInv, topicVars, mutexVars,
       Calls, Allocated
<1>5. ASSUME NEW S, call' = Releasing(S, call)
      PROVE  Inv'
    <2>1. \A d \in Client : call'[d] = Released(call[d], S)
        BY <1>5 DEF Releasing, Released
    <2>2. ASSUME NEW c \in Client
          PROVE  Inv'
        <3> DEFINE r == Released(call[c], S)
        <3>0. Typed(call[c], Allocated, Made) /\ CallOK(c, pc[c], call[c])
            BY CurrentCall
        <3>1. ClientNext(c, pc[c], r, S)
            BY <1>1, <1>5, <2>1 DEF ClientNext, Inv, TypeOK, ClientType, Releasing
        <3>2. /\ Typed(r, Allocated, Made) /\ r.handler = call[c].handler /\ r.name = call[c].name
              /\ r.sub = call[c].sub /\ r.topic = call[c].topic /\ r.i = call[c].i
              /\ call[c] = NoCall => r = NoCall
            BY <3>0, ReleasedTyped
        <3> HIDE DEF r
        <3>3. Typed(r, Allocated', Made')
            BY <1>2, <3>2 DEF Typed, Grows
        <3>4. CallOK(c, pc[c], r)
            BY <3>0, <3>2 DEF CallOK
        <3>5. pc[c] = "idle" <=> r = NoCall
            BY <3>0, <3>2, <3>4, SomeCall DEF CallOK, Inv, TypeOK, ClientType
        <3>6. ClientType' /\ CallInv'
            BY <1>2, <3>1, <3>3, <3>4, <3>5, ClientNextType DEF Inv, TypeOK
        <3>7. HoldInv'
            <4>1. \A d \in Client : call'[d].i = call[d].i /\ call'[d].topic = call[d].topic
                BY <2>1, CurrentCall, ReleasedTyped
            <4> QED BY <1>1, <4>1 DEF Inv, HoldInv, topicVars, mutexVars
        <3> QED BY <1>2, <1>3, <3>6, <3>7 DEF Inv, TypeOK
    <2>3. CASE Client = {}
        <3>1. CallInv' /\ HoldInv'
            BY <1>1, <2>3 DEF CallInv, Inv, HoldInv, topicVars
        <3>2. ClientType'
            BY <1>1, <1>5, <2>3 DEF Inv, TypeOK, ClientType, Releasing
        <3> QED BY <1>2, <1>3, <3>1, <3>2 DEF Inv, TypeOK
    <2> QED BY <2>2, <2>3
<1> QED BY <1>4, <1>5 DEF CreateQueue, DeleteQueue, clientVars

LEMMA StopInv ==
    ASSUME Inv, Stop, UNCHANGED <<topicVars, Queues, confirmVars, hazardVars>>
    PROVE  Inv'
<1>1. TopicType' /\ Grows
    BY TopicSame
<1>2. ServerType'
    BY DEF Stop, Inv, TypeOK, ServerType, confirmVars, hazardVars
<1>3. \A c \in Client : pc'[c] = "idle" /\ call'[c] = NoCall
    BY DEF Stop
<1>4. ClientType'
    <2>1. \A c \in Client : Typed(NoCall, Allocated', Made')
        BY NoCallTyped
    <2>2. pc' \in [Client -> Places] /\ DOMAIN call' = Client
        BY DEF Stop, Places
    <2> HIDE DEF NoCall
    <2> QED BY <1>3, <2>1, <2>2 DEF ClientType, Typed, Calls, Made
<1>5. CallInv'
    <2> HIDE DEF NoCall
    <2> QED BY <1>3, NoCallOK DEF CallInv
<1>6. HoldInv'
    BY <1>3 DEF Inv, HoldInv, topicVars
<1> QED BY <1>1, <1>2, <1>4, <1>5, <1>6 DEF Inv, TypeOK

\* The steps that only answer.
LEMMA AnswerInv ==
    ASSUME Inv, NEW c \in Client,
           \/ TopicsEnd(c) \/ RangeNil(c) \/ PostConfirmation(c) \/ ConfirmSubscription(c)
           \/ SubscribePanic(c) \/ UnsubscribePanic(c)
    PROVE  Inv'
<1>1. CASE SubscribePanic(c) \/ UnsubscribePanic(c)
    BY <1>1, PanicInv DEF SubscribePanic, UnsubscribePanic, hazardVars, Inv, TypeOK, ServerType
<1>2. CASE TopicsEnd(c) \/ RangeNil(c) \/ PostConfirmation(c) \/ ConfirmSubscription(c)
    BY <1>2, QuietAnswer DEF TopicsEnd, RangeNil, PostConfirmation, ConfirmSubscription
<1> QED BY <1>1, <1>2

LEMMA RangeWildInv ==
    ASSUME Inv, NEW c \in Client, RangeWild(c)
    PROVE  Inv'
<1>1. CASE Stop
    BY <1>1, StopInv DEF RangeWild
<1>2. CASE Answer(c) /\ UNCHANGED mutexVars
    BY <1>2, PanicInv DEF RangeWild, hazardVars, mutexVars, Inv, TypeOK, ServerType
<1> QED BY <1>1, <1>2 DEF RangeWild

LEMMA StepInv ==
    ASSUME Inv, NEW c \in Client, Step(c)
    PROVE  Inv'
<1>1. CASE \/ Check(c) \/ WriteBegin(c) \/ (\E o \in Object : CreateTopic(c, o)) \/ DeleteTopic(c)
           \/ (\E n \in Name : TopicsNext(c, n)) \/ TopicsEnd(c)
    BY <1>1, CheckInv, WriteBeginInv, CreateTopicInv, DeleteTopicInv, TopicsNextInv, AnswerInv
<1>2. CASE \/ RangeArray(c) \/ RangeLength(c) \/ RangeEnd(c) \/ RangeWild(c) \/ RangeNil(c)
           \/ \E s \in Sub : RangeEntry(c, s)
    BY <1>2, RangeArrayInv, RangeLengthInv, RangeEndInv, RangeWildInv, AnswerInv, RangeEntryInv
<1>3. CASE \/ SubscribeBegin(c) \/ SubscribeEnd(c) \/ SubscribeDuplicate(c) \/ SubscribePanic(c)
           \/ UnsubscribeShift(c) \/ UnsubscribeCut(c) \/ UnsubscribePanic(c)
           \/ SetSubscriptionAttributes(c)
    BY <1>3, SubscribeBeginInv, SubscribeEndInv, SubscribedInv, AnswerInv, UnsubscribeShiftInv,
       UnsubscribeCutInv, SetAttributesInv
<1>4. CASE \/ IssueToken(c) \/ PostConfirmation(c) \/ ConfirmSubscription(c)
           \/ PublishPost(c) \/ PublishQueue(c) \/ PublishAppend(c)
    BY <1>4, IssueTokenInv, AnswerInv, PublishInv, PublishAppendInv
<1> QED BY <1>1, <1>2, <1>3, <1>4 DEF Step

\* The server starts with lists of different subscriptions, and nothing behind them.
LEMMA LoadedType ==
    ASSUME NEW t \in Loaded, LoadTable(t)
    PROVE  /\ TopicType
           /\ \A o \in Object : array[o] = Nil => length[o] = 0
           /\ \A o \in Object : \A i \in 1..length[o] :
                t.entries[o][i] \in Sub /\ Slot(o, i) = t.entries[o][i] /\ Slot(o, i) # Nil
           /\ \A o \in Object : array[o] # Nil =>
                \A i \in (length[o] + 1)..array[o] : Slot(o, i) = Nil
<1>1. /\ t \in Table /\ array = t.array /\ length = [o \in Object |-> Len(t.entries[o])]
      /\ Topics = t.topics /\ subscription = t.subscription
    BY LoadedAssumption DEF LoadTable
<1>2. /\ array \in [Object -> Capacity \cup {Nil}] /\ t.entries \in [Object -> Seq(Sub)]
      /\ Topics \in [Name -> Object \cup {Nil}]
      /\ subscription \in [Sub -> Subscription \cup {Nil}]
    BY <1>1 DEF Table
<1>3. \A o \in Object :
        /\ length[o] = Len(t.entries[o]) /\ length[o] \in Nat /\ DOMAIN t.entries[o] = 1..length[o]
        /\ array[o] = Nil => length[o] = 0
        /\ array[o] # Nil => length[o] <= array[o]
    <2> SUFFICES ASSUME NEW o \in Object
                 PROVE  /\ length[o] = Len(t.entries[o]) /\ length[o] \in Nat
                        /\ DOMAIN t.entries[o] = 1..length[o]
                        /\ array[o] = Nil => length[o] = 0
                        /\ array[o] # Nil => length[o] <= array[o]
        OBVIOUS
    <2>1. t.entries[o] \in Seq(Sub) /\ length[o] = Len(t.entries[o])
        BY <1>1, <1>2
    <2>2. IF array[o] = Nil THEN t.entries[o] = <<>> ELSE length[o] <= array[o]
        BY <1>1, <2>1, LoadedAssumption
    <2> QED BY <2>1, <2>2
<1>4. \A o \in Object : \A i \in 1..length[o] :
        t.entries[o][i] \in Allocated /\ t.entries[o][i] \in Sub /\ t.entries[o][i] # Nil
    <2> SUFFICES ASSUME NEW o \in Object, NEW i \in 1..length[o]
                 PROVE  t.entries[o][i] \in Allocated /\ t.entries[o][i] \in Sub
                        /\ t.entries[o][i] # Nil
        OBVIOUS
    <2>1. t.entries[o] \in Seq(Sub) /\ i \in 1..Len(t.entries[o])
        BY <1>2, <1>3
    <2>2. t.entries[o][i] \in Sub
        BY <2>1
    <2>3. t.subscription[t.entries[o][i]] # Nil
        BY <2>1, LoadedAssumption
    <2> QED BY <1>1, <2>2, <2>3, TopicsAssumption DEF Allocated
<1>5. \A o \in Object, k \in Capacity :
        /\ DOMAIN cell = Object /\ DOMAIN cell[o] = Capacity
        /\ cell[o][k] = [i \in 1..k |-> IF k = array[o] /\ i <= length[o] THEN t.entries[o][i]
                                        ELSE Nil]
    BY <1>1, <1>3 DEF LoadTable
<1>6. \A o \in Object, k \in Capacity : cell[o][k] \in [1..k -> Allocated \cup {Nil}]
    <2> SUFFICES ASSUME NEW o \in Object, NEW k \in Capacity
                 PROVE  cell[o][k] \in [1..k -> Allocated \cup {Nil}]
        OBVIOUS
    <2> DEFINE entry(i) == IF k = array[o] /\ i <= length[o] THEN t.entries[o][i] ELSE Nil
    <2>1. k \in Nat /\ length[o] \in Nat
        BY <1>3, CapacityType
    <2>2. \A i \in 1..k : entry(i) \in Allocated \cup {Nil}
        BY <1>4, <2>1
    <2>3. cell[o][k] = [i \in 1..k |-> entry(i)]
        BY <1>5
    <2> HIDE DEF entry
    <2> QED BY <2>2, <2>3
<1>7. \A n \in Name : Topics[n] # Nil => array[Topics[n]] # Nil
    BY <1>1, LoadedAssumption
<1>8. TopicType
    <2>1. DOMAIN cell = Object
        BY DEF LoadTable
    <2>2. \A o \in Object : DOMAIN cell[o] = Capacity
        BY DEF LoadTable
    <2>3. length \in [Object -> Nat]
        BY <1>1, <1>3
    <2>4. Topics \in [Name -> {o \in Object : array[o] # Nil} \cup {Nil}]
        BY <1>2, <1>7
    <2> QED BY <1>2, <1>3, <1>6, <2>1, <2>2, <2>3, <2>4 DEF TopicType
<1>9. ASSUME NEW o \in Object, NEW i \in 1..array[o], array[o] # Nil
      PROVE  Slot(o, i) = IF i <= length[o] THEN t.entries[o][i] ELSE Nil
    <2>1. array[o] \in Capacity
        BY <1>2, <1>9
    <2>2. cell[o][array[o]] =
            [j \in 1..array[o] |-> IF array[o] = array[o] /\ j <= length[o]
                                   THEN t.entries[o][j] ELSE Nil]
        BY <1>5, <2>1
    <2> QED BY <2>2 DEF Slot
<1>10. ASSUME NEW o \in Object, NEW i \in 1..length[o]
       PROVE  /\ t.entries[o][i] \in Sub /\ Slot(o, i) = t.entries[o][i] /\ Slot(o, i) # Nil
    <2>1. length[o] \in Nat /\ array[o] # Nil
        BY <1>3
    <2>2. array[o] \in Nat /\ length[o] <= array[o]
        BY <1>2, <1>3, <2>1, CapacityType
    <2>3. i \in 1..array[o]
        BY <2>1, <2>2
    <2> QED BY <1>4, <1>9, <2>1, <2>3
<1>11. ASSUME NEW o \in Object, array[o] # Nil, NEW i \in (length[o] + 1)..array[o]
       PROVE  Slot(o, i) = Nil
    <2>1. array[o] \in Nat /\ length[o] \in Nat
        BY <1>2, <1>3, <1>11, CapacityType
    <2> QED BY <1>9, <1>11, <2>1
<1> QED BY <1>3, <1>8, <1>10, <1>11

LEMMA InitInv == Init => Inv
<1> SUFFICES ASSUME Init PROVE Inv
    OBVIOUS
<1>0. PICK t \in Loaded : LoadTable(t)
    BY DEF Init
<1>1. TopicType
    BY <1>0, LoadedType
<1>2. ServerType
    <2>1. issued \in Seq([arn : Arn, sub : Sub])
        BY DEF Init
    <2>2. \A a \in Arn : TopicData[a] = Nil
        BY DEF Init
    <2>3. Queues \subseteq QueueEndpoint
        BY <1>0, LoadedAssumption DEF LoadTable, Table
    <2> QED BY <2>1, <2>2, <2>3 DEF Init, ServerType
<1>3. \A c \in Client : pc[c] = "idle" /\ call[c] = NoCall
    BY DEF Init
<1>4. ClientType
    <2>1. Typed(NoCall, Allocated, Made)
        BY NoCallTyped
    <2>2. pc \in [Client -> Places] /\ DOMAIN call = Client
        BY DEF Init, Places
    <2> HIDE DEF NoCall
    <2> QED BY <1>3, <2>1, <2>2 DEF ClientType, Typed, Calls, Made
<1>5. CallInv
    <2> HIDE DEF NoCall
    <2> QED BY <1>3, NoCallOK DEF CallInv
<1>6. HoldInv
    <2>1. \A o \in Object : array[o] = Nil => length[o] = 0
        BY <1>0, LoadedType
    <2> QED BY <1>3, <2>1 DEF HoldInv
<1> QED BY <1>1, <1>2, <1>4, <1>5, <1>6 DEF Inv, TypeOK

LEMMA NextInv == Inv /\ [Next]_vars => Inv'
<1> SUFFICES ASSUME Inv, [Next]_vars PROVE Inv'
    OBVIOUS
<1>1. CASE Crash
    BY <1>1, StopInv DEF Crash
<1>2. CASE UNCHANGED vars
    BY <1>2 DEF vars, sharedVars, clientVars, topicVars, mutexVars, confirmVars, hazardVars, Inv,
       TypeOK, TopicType, ServerType, ClientType, CallInv, HoldInv, Calls, Allocated, Made
<1> QED BY <1>1, <1>2, RequestInv, StepInv, QueueInv DEF Next

LEMMA InvCorrect == Spec => []Inv
BY InitInv, NextInv, PTL DEF Spec

\* Whatever requests do to each other, the table, a slice and a handler in progress
\* point to topics and subscriptions that were made, and no slice outgrows its array.
THEOREM TopicsTypeCorrect == Spec => []TypeOK
<1>1. Inv => TypeOK
    BY DEF Inv
<1> QED BY <1>1, InvCorrect, PTL

-----------------------------------------------------------------------------
(* The mutexes. *)

\* The calls differ at most in what Publish owes: it may owe less.
SameCall(r, q) ==
    /\ q.handler = r.handler /\ q.name = r.name /\ q.sub = r.sub /\ q.arg = r.arg
    /\ q.topic = r.topic /\ q.cap = r.cap /\ q.len = r.len /\ q.i = r.i
    /\ q.got = r.got /\ q.due \subseteq r.due

\* The handler of d does nothing.
Rests(d) == pc'[d] = pc[d] /\ SameCall(call[d], call'[d])

LEMMA EXCEPTRests ==
    ASSUME Inv, NEW c \in Client, NEW p, NEW r, Moves(c, p, r), NEW d \in Client \ {c}
    PROVE  Rests(d)
BY MovesTo DEF Rests, SameCall, Inv, TypeOK

LEMMA ReleasingRests ==
    ASSUME Inv, NEW c \in Client, NEW p, NEW r, NEW S, MovesReleasing(c, p, r, S),
           NEW d \in Client \ {c}
    PROVE  Rests(d)
<1>1. pc'[d] = pc[d] /\ call'[d] = Released(call[d], S)
    BY MovesReleasingTo DEF Inv, TypeOK
<1> QED BY <1>1, CurrentCall, ReleasedTyped DEF Rests, SameCall

\* A step of c leaves the other handlers where they are, or stops the process.
LEMMA OthersRest ==
    ASSUME Inv, NEW c \in Client,
           Step(c) \/ (\E h \in Handlers[c], n \in Name : Request(c, h, n)), ~Stop
    PROVE  \A d \in Client \ {c} : Rests(d)
<1>1. ASSUME NEW d \in Client \ {c}, \E p, r : Moves(c, p, r) PROVE Rests(d)
    BY <1>1, EXCEPTRests
<1>2. ASSUME NEW d \in Client \ {c}, UNCHANGED call, \E p : Goto(c, p) PROVE Rests(d)
    BY <1>2 DEF Rests, SameCall, Goto, Inv, TypeOK, ClientType
<1>3. ASSUME NEW d \in Client \ {c}, UNCHANGED pc, \E r : call' = [call EXCEPT ![c] = r]
      PROVE  Rests(d)
    BY <1>3 DEF Rests, SameCall, Inv, TypeOK, ClientType
<1>4. CASE Answer(c) \/ Advance(c) \/ (\E s, p : Serve(c, s, p)) \/ (\E p : Goes(c, p))
    BY <1>1, <1>2, <1>4 DEF Answer, Advance, Serve, Goes, Goto, Moves
<1>5. CASE DeleteTopic(c) \/ UnsubscribeShift(c) \/ SetSubscriptionAttributes(c)
    <2>1. CASE DeleteTopic(c)
        BY <1>4, <2>1 DEF DeleteTopic
    <2>2. CASE UnsubscribeShift(c)
        <3>1. ASSUME NEW d \in Client \ {c}
              PROVE  pc'[d] = pc[d] /\ \E S : call'[d] = Released(call[d], S)
            BY <2>2 DEF UnsubscribeShift, Goto, Releasing, Released, Inv, TypeOK, ClientType
        <3> QED BY <3>1, CurrentCall, ReleasedTyped DEF Rests, SameCall
    <2>3. CASE SetSubscriptionAttributes(c) /\ ~Answer(c)
        BY <2>3, ReleasingRests DEF SetSubscriptionAttributes, MovesReleasing, Goto
    <2> QED BY <1>4, <1>5, <2>1, <2>2, <2>3
<1>6. CASE \E h \in Handlers[c], n \in Name : Request(c, h, n)
    BY <1>1, <1>6 DEF Request, Goto, Moves
<1>7. CASE Check(c)
    BY <1>1, <1>4, <1>7 DEF Check, CreateCheck, UseCheck, Goto, Moves
<1>8. CASE \E n \in Name : TopicsNext(c, n)
    BY <1>1, <1>3, <1>8 DEF TopicsNext, Goto, Moves
<1>9. CASE RangeArray(c) \/ RangeLength(c) \/ RangeEnd(c)
    BY <1>1, <1>4, <1>9 DEF RangeArray, RangeLength, RangeEnd, Goto, Moves
<1>10. CASE \E s \in Sub : RangeEntry(c, s)
    BY <1>4, <1>10 DEF RangeEntry, PublishEntry, AttributesEntry
<1>11. CASE WriteBegin(c) \/ (\E o \in Object : CreateTopic(c, o)) \/ TopicsEnd(c) \/ RangeNil(c)
            \/ PostConfirmation(c) \/ ConfirmSubscription(c) \/ SubscribePanic(c)
            \/ UnsubscribePanic(c) \/ UnsubscribeCut(c)
    BY <1>4, <1>11 DEF WriteBegin, CreateTopic, TopicsEnd, RangeNil, PostConfirmation,
       ConfirmSubscription, SubscribePanic, UnsubscribePanic, UnsubscribeCut
<1>12. CASE RangeWild(c)
    BY <1>4, <1>12 DEF RangeWild
<1>13. CASE SubscribeBegin(c)
    BY <1>1, <1>13, SubscribeBeginFacts
<1>14. CASE SubscribeEnd(c) \/ SubscribeDuplicate(c)
    BY <1>1, <1>4, <1>14 DEF SubscribeEnd, SubscribeDuplicate, Subscribed, Goto, Moves
<1>15. CASE IssueToken(c)
    BY <1>1, <1>15 DEF IssueToken, Goto, Moves
<1>16. CASE PublishPost(c) \/ PublishQueue(c) \/ PublishAppend(c)
    <2>1. CASE Goto(c, "range") /\ call' = Got(c)
        <3>1. ASSUME NEW d \in Client \ {c}
              PROVE  pc'[d] = pc[d] /\ call'[d] = call[d]
            BY <2>1 DEF Goto, Got, Inv, TypeOK, ClientType
        <3> QED BY <3>1 DEF Rests, SameCall
    <2> QED BY <1>4, <1>16, <2>1 DEF PublishPost, PublishQueue, PublishAppend
<1> QED BY <1>5, <1>6, <1>7, <1>8, <1>9, <1>10, <1>11, <1>12, <1>13, <1>14, <1>15, <1>16
        DEF Step

\* A step takes no topic and no queue away while nothing is deleted, and the
\* endpoint of a subscription stays.
Mild ==
    /\ deleted' >= deleted /\ (overlapped => overlapped')
    /\ deleted' = 0 => /\ \A n \in Name : Topics[n] # Nil => Topics'[n] # Nil
                       /\ Queues \subseteq Queues'
    /\ \A s \in Allocated : subscription'[s].endpoint = subscription[s].endpoint

LEMMA MildSame ==
    Inv /\ UNCHANGED <<topicVars, hazardVars>> /\ Queues \subseteq Queues' => Mild
BY SMTT(30) DEF Mild, topicVars, hazardVars, Inv, TypeOK, ServerType

\* The rest of the state is left alone, but by the steps that are named.
LEMMA QuietStep ==
    ASSUME NEW c \in Client, Step(c) \/ (\E h \in Handlers[c], n \in Name : Request(c, h, n))
    PROVE  \/ UNCHANGED <<topicVars, Queues, hazardVars>>
           \/ WriteBegin(c) \/ (\E o \in Object : CreateTopic(c, o)) \/ DeleteTopic(c)
           \/ SubscribeBegin(c) \/ SubscribeEnd(c) \/ UnsubscribeShift(c) \/ UnsubscribeCut(c)
           \/ SetSubscriptionAttributes(c)
BY DEF Step, Request, sharedVars, Check, TopicsNext, TopicsEnd, RangeArray, RangeLength, RangeEnd,
   RangeWild, RangeNil, RangeEntry, SubscribeDuplicate, SubscribePanic, UnsubscribePanic,
   IssueToken, PostConfirmation, ConfirmSubscription, PublishPost, PublishQueue, PublishAppend

LEMMA StepMild ==
    ASSUME Inv, MutexInv, NEW c \in Client,
           Step(c) \/ (\E h \in Handlers[c], n \in Name : Request(c, h, n))
    PROVE  /\ Mild
           /\ UnsubscribeCut(c) \/ \A o \in Made : length'[o] >= length[o]
<1>0. \A o \in Made : length[o] \in Nat
    BY MadeTopic
<1>1. CASE UNCHANGED <<topicVars, Queues, hazardVars>>
    BY <1>0, <1>1, MildSame DEF topicVars
<1>2. CASE WriteBegin(c)
    <2>1. deleted \in Nat /\ UNCHANGED <<topicVars, Queues, overlapped>>
          /\ (deleted' = deleted \/ deleted' = deleted + 1)
        BY <1>2 DEF WriteBegin, Inv, TypeOK, ServerType
    <2> QED BY <1>0, <2>1 DEF Mild, topicVars
<1>3. ASSUME NEW o \in Object, CreateTopic(c, o) PROVE Mild /\ UNCHANGED length
    BY <1>3, TopicsAssumption DEF CreateTopic, Mild, hazardVars, Inv, TypeOK, ServerType, TopicType
<1>4. CASE DeleteTopic(c)
    <2>1. deleted > 0 /\ UNCHANGED <<length, subscription, Queues, hazardVars>>
        BY <1>4 DEF DeleteTopic, At, MutexInv, RelyOK
    <2> QED BY <1>0, <2>1 DEF Mild, hazardVars, Inv, TypeOK, ServerType
<1>5. CASE SubscribeBegin(c)
    <2>1. /\ NewSub \notin Allocated /\ Topic(c) \in Object /\ length[Topic(c)] \in Nat
          /\ subscription' = [subscription EXCEPT ![NewSub] = call[c].arg]
          /\ length' = [length EXCEPT ![Topic(c)] = @ + 1]
          /\ UNCHANGED <<Topics, Queues, hazardVars>>
        BY <1>5, SubscribeBeginFacts, MadeTopic
    <2>2. Mild
        BY <2>1 DEF Mild, hazardVars, Inv, TypeOK, ServerType, TopicType, Allocated
    <2>3. \A o \in Made : length'[o] >= length[o]
        BY <1>0, <2>1 DEF Inv, TypeOK, TopicType, Made
    <2> QED BY <2>2, <2>3
<1>6. CASE SubscribeEnd(c) \/ UnsubscribeShift(c)
    <2>1. UNCHANGED <<Topics, length, subscription, Queues, hazardVars>>
        BY <1>6 DEF SubscribeEnd, UnsubscribeShift
    <2> QED BY <1>0, <2>1 DEF Mild, hazardVars, Inv, TypeOK, ServerType
<1>7. CASE UnsubscribeCut(c)
    <2>1. UNCHANGED <<Topics, subscription, Queues, deleted>> /\ (overlapped => overlapped')
        BY <1>7 DEF UnsubscribeCut
    <2> QED BY <1>7, <2>1 DEF Mild, Inv, TypeOK, ServerType
<1>8. CASE SetSubscriptionAttributes(c)
    <2>1. UNCHANGED <<Topics, length, Queues, hazardVars>>
        BY <1>8 DEF SetSubscriptionAttributes
    <2>2. \A s \in Allocated : subscription[s] \in Subscription
        BY DEF Allocated, Inv, TypeOK, TopicType
    <2>3. \A s \in Allocated : subscription'[s].endpoint = subscription[s].endpoint
        BY <1>8, <2>2, SMTT(30) DEF SetSubscriptionAttributes, Subscription, Inv, TypeOK, TopicType, Allocated
    <2> QED BY <1>0, <2>1, <2>3 DEF Mild, hazardVars, Inv, TypeOK, ServerType
<1> QED BY <1>0, <1>1, <1>2, <1>3, <1>4, <1>5, <1>6, <1>7, <1>8, QuietStep

LEMMA RestRely ==
    ASSUME Inv, TypeOK', NEW d \in Client, RelyOK(d), Rests(d), Mild,
           \/ \A o \in Made : length'[o] >= length[o]
           \/ overlapped' \/ ~Is(d, "Unsubscribe")
    PROVE  RelyOK(d)'
<1>1. Typed(call[d], Allocated, Made) /\ CallOK(d, pc[d], call[d])
    BY CurrentCall
<1>2. deleted \in Nat /\ deleted' \in Nat
    BY DEF Inv, TypeOK, ServerType
<1>3. CASE pc[d] = "write"
    BY <1>2, <1>3 DEF RelyOK, Rests, SameCall, Mild, Is
<1>4. CASE pc[d] = "append"
    <2>1. call[d].sub \in Allocated
        BY <1>1, <1>4 DEF Typed, CallOK
    <2> QED BY <1>2, <1>4, <2>1 DEF RelyOK, Rests, SameCall, Mild, Is
<1>5. CASE pc[d] = "lock" /\ Is(d, "Subscribe")
    <2>1. call[d].name \in Name
        BY <1>1, <1>5 DEF CallOK
    <2> QED BY <1>2, <1>5, <2>1 DEF RelyOK, Rests, SameCall, Mild, Is, Topic
<1>6. CASE pc[d] \in {"range", "lock"} /\ Is(d, "Unsubscribe")
    <2>1. call[d].topic \in Made /\ call[d].len \in Nat
        BY <1>1, <1>6 DEF CallOK, Typed, Is
    <2>2. length[call[d].topic] \in Nat /\ length'[call[d].topic] \in Nat
        BY <2>1 DEF Inv, TypeOK, TopicType, Made
    <2>3. ~overlapped' => length'[call[d].topic] >= length[call[d].topic] /\ ~overlapped
        BY <1>6, <2>1 DEF Mild
    <2> QED BY <1>6, <2>1, <2>2, <2>3 DEF RelyOK, Rests, SameCall, Mild, Is
<1> QED BY <1>3, <1>4, <1>5, <1>6 DEF RelyOK, Rests, SameCall, Is

\* What a handler relies on, after its own step.
LEMMA OwnRely ==
    ASSUME Inv, TypeOK', MutexInv, NEW c \in Client,
           Step(c) \/ (\E h \in Handlers[c], n \in Name : Request(c, h, n)), ~Stop
    PROVE  RelyOK(c)'
<1> DEFINE r == call[c]
<1>0. /\ Typed(r, Allocated, Made) /\ CallOK(c, pc[c], r) /\ RelyOK(c)
      /\ pc[c] \in Places /\ DOMAIN pc = Client /\ DOMAIN call = Client
      /\ deleted \in Nat
    BY CurrentCall DEF MutexInv, Inv, TypeOK, ClientType, ServerType
<1>1. ASSUME pc'[c] \notin {"write", "lock", "append", "range"} PROVE RelyOK(c)'
    BY <1>1 DEF RelyOK
<1>2. ASSUME pc'[c] \in {"range", "lock"}, call'[c].handler \notin {"Subscribe", "Unsubscribe"}
      PROVE  RelyOK(c)'
    BY <1>2 DEF RelyOK, Is
<1>3. CASE Answer(c)
    BY <1>0, <1>1, <1>3 DEF Answer, Goto
<1>4. CASE Advance(c) /\ pc[c] \in {"range", "queue"} /\ UNCHANGED sharedVars
    <2>1. /\ pc'[c] = "range" /\ call'[c].handler = r.handler /\ call'[c].len = r.len
          /\ call'[c].topic = r.topic
        BY <1>0, <1>4 DEF Advance, Goto, Typed
    <2>2. r.handler = "Unsubscribe" => pc[c] = "range"
        BY <1>0, <1>4 DEF CallOK
    <2> QED BY <1>0, <1>4, <2>1, <2>2 DEF RelyOK, Is, sharedVars, topicVars, hazardVars
<1>5. CASE \E h \in Handlers[c], n \in Name : Request(c, h, n)
    <2>1. \E h : pc'[c] = FirstPlace(h)
        BY <1>0, <1>5 DEF Request, Goto
    <2> QED BY <1>1, <2>1 DEF FirstPlace
<1>6. CASE Check(c)
    <2>1. pc'[c] \in {"idle", "array", "lock"} /\ (pc'[c] = "lock" => UNCHANGED call)
        BY <1>0, <1>6 DEF Check, CreateCheck, UseCheck, Answer, Goes, Goto
    <2>2. CASE pc'[c] = "lock"
        <3>1. call'[c] = r /\ (Is(c, "Subscribe") => Topic(c) # Nil) /\ UNCHANGED Topics
            BY <1>0, <1>6, <2>1, <2>2 DEF Check, CreateCheck, UseCheck, Answer, Goes, Goto,
               sharedVars, topicVars, Is
        <3>2. ~Is(c, "Unsubscribe")
            BY <1>0, <1>6 DEF Check, At, CallOK, Is
        <3> QED BY <2>2, <3>1, <3>2 DEF RelyOK, Is, Topic
    <2> QED BY <1>1, <2>1, <2>2
<1>7. CASE \E n \in Name : TopicsNext(c, n)
    <2>1. pc'[c] \in {"topics", "array"}
        BY <1>0, <1>7 DEF TopicsNext, Goto, At
    <2> QED BY <1>1, <2>1
<1>8. CASE RangeArray(c) \/ RangeEnd(c) \/ IssueToken(c)
    <2>1. pc'[c] \in {"idle", "length", "topics", "post"}
        BY <1>0, <1>8 DEF RangeArray, RangeEnd, IssueToken, Answer, Goto
    <2> QED BY <1>1, <2>1
<1>9. CASE RangeLength(c)
    <2>1. /\ pc'[c] = "range" /\ call'[c].handler = r.handler
          /\ call'[c].len = length[r.topic] /\ call'[c].topic = r.topic /\ UNCHANGED length
        BY <1>0, <1>9 DEF RangeLength, Goto, Typed, sharedVars, topicVars
    <2>2. length[r.topic] \in Nat
        BY <1>0, <1>9, MadeTopic DEF RangeLength, At, CallOK, Typed
    <2> QED BY <2>1, <2>2 DEF RelyOK, Is
<1>10. ASSUME NEW s \in Sub, RangeEntry(c, s) PROVE RelyOK(c)'
    <2>1. pc[c] = "range" /\ r.i <= r.len /\ UNCHANGED sharedVars /\ r.i \in Nat /\ r.len \in Nat
        BY <1>0, <1>10 DEF RangeEntry, Reads, At, Typed
    <2>2. CASE Goes(c, "lock")
        <3>1. pc'[c] = "lock" /\ call'[c] = r
            BY <1>0, <2>2 DEF Goes, Goto
        <3>2. r.handler # "Subscribe"
            BY <1>0, <2>1 DEF CallOK, Rangers, Iterating, Naming
        <3> QED BY <1>0, <2>1, <3>1, <3>2 DEF RelyOK, Is, sharedVars, topicVars, hazardVars
    <2>3. CASE PublishEntry(c, s) /\ ~Advance(c)
        <3>1. pc'[c] \in {"post", "queue"}
            BY <1>0, <2>3 DEF PublishEntry, Serve, Goto
        <3> QED BY <1>1, <3>1
    <2> QED BY <1>3, <1>4, <1>10, <2>1, <2>2, <2>3 DEF RangeEntry, AttributesEntry
<1>11. CASE TopicsEnd(c) \/ RangeNil(c) \/ RangeWild(c) \/ PostConfirmation(c)
            \/ ConfirmSubscription(c) \/ SubscribePanic(c) \/ UnsubscribePanic(c)
            \/ UnsubscribeCut(c) \/ \E o \in Object : CreateTopic(c, o)
    BY <1>3, <1>11 DEF TopicsEnd, RangeNil, RangeWild, PostConfirmation, ConfirmSubscription,
       SubscribePanic, UnsubscribePanic, UnsubscribeCut, CreateTopic
<1>12. CASE WriteBegin(c)
    <2>1. pc'[c] = "write" /\ call'[c] = r /\ (Is(c, "DeleteTopic") => deleted' = deleted + 1)
        BY <1>0, <1>12 DEF WriteBegin, Goes, Goto
    <2> QED BY <1>0, <2>1 DEF RelyOK, Is
<1>13. CASE DeleteTopic(c) \/ SetSubscriptionAttributes(c) \/ UnsubscribeShift(c)
            \/ SubscribeBegin(c) \/ SubscribeEnd(c) \/ SubscribeDuplicate(c)
    <2>1. pc'[c] \in {"idle", "cut", "store", "token"}
        BY <1>0, <1>13 DEF DeleteTopic, SetSubscriptionAttributes, UnsubscribeShift,
           SubscribeBegin, SubscribeEnd, SubscribeDuplicate, Subscribed, Answer, Goto
    <2> QED BY <1>1, <2>1, SMTT(30)
<1>14. CASE PublishPost(c) \/ PublishAppend(c)
    <2>1. CASE Goto(c, "range") /\ call' = Got(c)
        <3>1. pc'[c] = "range" /\ call'[c].handler = r.handler
            BY <1>0, <2>1 DEF Goto, Got, Typed
        <3>2. r.handler = "Publish"
            BY <1>0, <1>14 DEF PublishPost, PublishAppend, At, Is, CallOK
        <3> QED BY <1>2, <3>1, <3>2
    <2> QED BY <1>3, <1>14, <2>1 DEF PublishPost, PublishAppend
<1>15. CASE PublishQueue(c)
    <2>1. CASE Goes(c, "append")
        <3>1. pc'[c] = "append" /\ call'[c] = r /\ subscription[r.sub].endpoint \in Queues
            BY <1>0, <1>15, <2>1 DEF PublishQueue, Goes, Goto, Answer, Advance
        <3> QED BY <1>15, <3>1 DEF RelyOK, PublishQueue, sharedVars, topicVars
    <2> QED BY <1>3, <1>4, <1>15, <2>1 DEF PublishQueue, At
<1> QED BY <1>5, <1>6, <1>7, <1>8, <1>9, <1>10, <1>11, <1>12, <1>13, <1>14, <1>15 DEF Step

\* While nothing is deleted, no step leaves a mutex to a handler that is done.
LEMMA OwnedStep ==
    ASSUME Inv, Inv', MutexInv, NEW c \in Client, Mild,
           Step(c) \/ (\E h \in Handlers[c], n \in Name : Request(c, h, n)), ~Stop,
           \A d \in Client \ {c} : Rests(d)
    PROVE  MutexOwned'
<1>0. /\ Typed(call[c], Allocated, Made) /\ CallOK(c, pc[c], call[c]) /\ RelyOK(c)
      /\ DOMAIN pc = Client /\ deleted \in Nat /\ deleted' \in Nat
    BY CurrentCall DEF MutexInv, Inv, TypeOK, ClientType, ServerType
<1> SUFFICES ASSUME ~crashed', deleted' = 0, ~overlapped' PROVE MutexOwned'
    BY <1>0, SMTT(30) DEF MutexOwned, Inv, TypeOK, ServerType
<1>1. UNCHANGED crashed
    BY DEF Step, Request, sharedVars, Check, TopicsNext, TopicsEnd, RangeArray, RangeLength,
       RangeEnd, RangeWild, RangeNil, RangeEntry, SubscribeDuplicate, SubscribePanic,
       UnsubscribePanic, IssueToken, PostConfirmation, ConfirmSubscription, PublishPost,
       PublishQueue, PublishAppend, WriteBegin, CreateTopic, DeleteTopic, SubscribeBegin,
       SubscribeEnd, UnsubscribeShift, UnsubscribeCut, SetSubscriptionAttributes, mutexVars
<1>2. deleted = 0 /\ ~overlapped /\ ~crashed /\ queuesLock = Free
      /\ (lock \in Client => pc[lock] \in {"write", "store", "cut"})
    BY <1>0, <1>1 DEF Mild, MutexInv, MutexOwned, Inv, TypeOK, ServerType
<1>3. ASSUME queuesLock' = Free,
             \/ lock' = Free
             \/ lock' = c /\ pc'[c] \in {"write", "store", "cut"}
             \/ lock' = lock /\ pc[c] \notin {"write", "store", "cut"}
      PROVE  MutexOwned'
    BY <1>2, <1>3, TopicsAssumption DEF MutexOwned, Rests
<1>4. CASE WriteBegin(c) \/ SubscribeBegin(c) \/ UnsubscribeShift(c)
    BY <1>0, <1>2, <1>3, <1>4 DEF WriteBegin, SubscribeBegin, UnsubscribeShift, Goes, Goto
<1>5. CASE (\E o \in Object : CreateTopic(c, o)) \/ DeleteTopic(c) \/ SubscribeEnd(c)
           \/ UnsubscribeCut(c)
    BY <1>2, <1>3, <1>5 DEF CreateTopic, DeleteTopic, SubscribeEnd, UnsubscribeCut
<1>6. ~SubscribePanic(c)
    BY <1>0, <1>2 DEF SubscribePanic, At, RelyOK
<1>7. ~UnsubscribePanic(c)
    <2> SUFFICES ASSUME UnsubscribePanic(c) PROVE FALSE
        OBVIOUS
    <2>1. /\ call[c].i <= call[c].len /\ call[c].len <= length[call[c].topic]
          /\ call[c].i > length[call[c].topic]
        BY <1>0, <1>2 DEF UnsubscribePanic, At, RelyOK
    <2>2. call[c].i \in Nat /\ call[c].len \in Nat /\ length[call[c].topic] \in Nat
        BY <1>0, MadeTopic DEF UnsubscribePanic, At, CallOK, Is, Typed
    <2> QED BY <2>1, <2>2
<1>8. CASE PublishAppend(c)
    <2>1. pc[c] = "append" /\ subscription[call[c].sub].endpoint \in Queues
        BY <1>0, <1>2, <1>8 DEF PublishAppend, At, RelyOK
    <2> QED BY <1>2, <1>3, <1>8, <2>1 DEF PublishAppend
<1>9. CASE /\ UNCHANGED <<lock, queuesLock>>
           /\ pc[c] \notin {"write", "store", "cut"}
    BY <1>2, <1>3, <1>9, SMTT(30)
<1>10. CASE \/ (\E h \in Handlers[c], n \in Name : Request(c, h, n))
            \/ Check(c) \/ (\E n \in Name : TopicsNext(c, n)) \/ TopicsEnd(c) \/ RangeArray(c)
            \/ RangeLength(c) \/ RangeEnd(c) \/ RangeWild(c) \/ RangeNil(c)
            \/ (\E s \in Sub : RangeEntry(c, s)) \/ SubscribeDuplicate(c)
            \/ SetSubscriptionAttributes(c) \/ IssueToken(c) \/ PostConfirmation(c)
            \/ ConfirmSubscription(c) \/ PublishPost(c) \/ PublishQueue(c)
    BY <1>9, <1>10 DEF Request, sharedVars, mutexVars, Check, TopicsNext, TopicsEnd, RangeArray,
       RangeLength, RangeEnd, RangeWild, RangeNil, RangeEntry, Reads, SubscribeDuplicate,
       SetSubscriptionAttributes, IssueToken, PostConfirmation, ConfirmSubscription, PublishPost,
       PublishQueue, At
<1> QED BY <1>4, <1>5, <1>6, <1>7, <1>8, <1>10 DEF Step

LEMMA MutexStep == Inv /\ MutexInv /\ [Next]_vars => MutexInv'
<1> SUFFICES ASSUME Inv, MutexInv, [Next]_vars PROVE MutexInv'
    OBVIOUS
<1>0. Inv' /\ TypeOK'
    BY NextInv DEF Inv
<1>1. CASE Stop
    BY <1>1 DEF Stop, MutexInv, MutexOwned, RelyOK
<1>2. ASSUME NEW c \in Client, ~Stop,
             Step(c) \/ (\E h \in Handlers[c], n \in Name : Request(c, h, n))
      PROVE  MutexInv'
    <2>1. Mild /\ (UnsubscribeCut(c) \/ \A o \in Made : length'[o] >= length[o])
        BY <1>2, StepMild
    <2>2. \A d \in Client \ {c} : Rests(d)
        BY <1>2, OthersRest
    <2>3. UnsubscribeCut(c) => \A d \in Client \ {c} : overlapped' \/ ~Is(d, "Unsubscribe")
        BY DEF UnsubscribeCut
    <2>4. \A d \in Client \ {c} : RelyOK(d)'
        BY <1>0, <2>1, <2>2, <2>3, RestRely DEF MutexInv
    <2>5. RelyOK(c)'
        BY <1>0, <1>2, OwnRely
    <2>6. MutexOwned'
        BY <1>0, <1>2, <2>1, <2>2, OwnedStep
    <2> QED BY <2>4, <2>5, <2>6 DEF MutexInv
<1>3. ASSUME NEW q \in QueueEndpoint, CreateQueue(q) \/ DeleteQueue(q)
      PROVE  MutexInv'
    <2>1. /\ UNCHANGED <<topicVars, mutexVars, pc, overlapped>> /\ deleted \in Nat
          /\ (deleted' = deleted /\ Queues \subseteq Queues') \/ deleted' = deleted + 1
        BY <1>3 DEF CreateQueue, DeleteQueue, clientVars, hazardVars, Inv, TypeOK, ServerType
    <2>2. Mild
        BY <2>1 DEF Mild, topicVars
    <2>3. \A d \in Client : Rests(d)
        <3>1. CASE UNCHANGED call
            BY <2>1, <3>1 DEF Rests, SameCall
        <3>2. ASSUME NEW S, call' = Releasing(S, call), NEW d \in Client
              PROVE  Rests(d)
            <4>1. call'[d] = Released(call[d], S)
                BY <3>2 DEF Releasing, Released
            <4> QED BY <2>1, <4>1, CurrentCall, ReleasedTyped DEF Rests, SameCall
        <3> QED BY <1>3, <3>1, <3>2 DEF CreateQueue, DeleteQueue, clientVars
    <2>4. \A o \in Made : length'[o] >= length[o]
        BY <2>1, MadeTopic DEF topicVars
    <2>5. \A d \in Client : RelyOK(d)'
        BY <1>0, <2>2, <2>3, <2>4, RestRely DEF MutexInv
    <2>6. MutexOwned'
        BY <2>1 DEF MutexInv, MutexOwned, mutexVars
    <2> QED BY <2>5, <2>6 DEF MutexInv
<1>4. CASE UNCHANGED vars
    BY <1>4 DEF vars, sharedVars, clientVars, topicVars, mutexVars, hazardVars, MutexInv,
       MutexOwned, RelyOK, Is, Topic
<1> QED BY <1>1, <1>2, <1>3, <1>4 DEF Next, Crash

LEMMA MutexInvCorrect == Spec => []MutexInv
<1>1. Init => MutexInv
    BY TopicsAssumption DEF Init, MutexInv, MutexOwned, RelyOK
<1> QED BY <1>1, MutexStep, InvCorrect, PTL DEF Spec

\* Whatever a handler finds without the mutexes still holds under them: until
\* something is deleted, none panics there and leaves a mutex locked.
THEOREM TopicsMutexCorrect == Spec => []MutexOwned
<1>1. MutexInv => MutexOwned
    BY DEF MutexInv
<1> QED BY <1>1, MutexInvCorrect, PTL

-----------------------------------------------------------------------------
(* The slices. *)

LEMMA GoodSame ==
    ASSUME UNCHANGED <<array, length, cell, subscription>>, SliceInv
    PROVE  /\ \A o, n : Good(o, n) => Good(o, n)'
           /\ \A o : GoodBut(o) => GoodBut(o)'
           /\ TailInv'
BY DEF Good, GoodBut, Slot, SliceInv, TailInv

\* The step of c leaves the slices and does not touch the last entry of any.
LEMMA SliceKept ==
    ASSUME Inv, SliceInv, UNCHANGED <<array, length, cell, subscription>>,
           \A d \in Client : pc'[d] \in {"store", "cut"} =>
                Rests(d) /\ Topics'[call[d].name] = Topics[call[d].name],
           Settled' => Settled
    PROVE  SliceInv'
<1>1. /\ \A o, n : Good(o, n) => Good(o, n)'
      /\ \A o : GoodBut(o) => GoodBut(o)'
      /\ TailInv'
    BY GoodSame
<1>2. ASSUME NEW d \in Client
      PROVE  StoreOK(d)' /\ CutOK(d)'
    <2>1. StoreOK(d) /\ CutOK(d)
        BY DEF SliceInv
    <2>2. CASE pc'[d] = "store"
        <3> SUFFICES ASSUME NEW o, o = Topic(d)
                     PROVE  StoreOK(d)'
            BY <2>2 DEF StoreOK, CutOK
        <3>1. /\ Topic(d)' = o /\ pc[d] = "store" /\ call'[d].sub = call[d].sub
              /\ call'[d].arg = call[d].arg
            BY <2>2 DEF Topic, Rests, SameCall
        <3>2. /\ o # Nil /\ length[o] > 0 /\ GoodBut(o) /\ Slot(o, length[o]) = Nil
              /\ \A i \in 1..(length[o] - 1) :
                    Address(subscription[Slot(o, i)]) # Address(subscription[call[d].sub])
            BY <2>1, <3>1 DEF StoreOK
        <3>3. GoodBut(o)' /\ \A i : Slot(o, i)' = Slot(o, i)
            BY <1>1, <3>2 DEF Slot
        <3> QED BY <3>1, <3>2, <3>3 DEF StoreOK, Slot
    <2>3. CASE pc'[d] = "cut"
        BY <1>1, <2>1, <2>3 DEF StoreOK, CutOK, Rests, SameCall
    <2> QED BY <2>2, <2>3 DEF StoreOK, CutOK
<1>3. Settled' => \A o \in Object : Good(o, length[o])'
    BY <1>1 DEF SliceInv
<1> QED BY <1>1, <1>2, <1>3 DEF SliceInv

\* While c holds the mutex, or may take it, no other handler is about to write.
LEMMA Alone ==
    ASSUME Inv, NEW c \in Client, lock \in {Free, c}, NEW d \in Client \ {c}
    PROVE  pc[d] \notin {"write", "store", "cut"}
BY TopicsAssumption DEF Inv, HoldInv

LEMMA GoodAll ==
    ASSUME SliceInv, Settled, NEW o \in Object
    PROVE  Good(o, length[o])
BY DEF SliceInv

LEMMA CreateTopicSlice ==
    ASSUME Inv, SliceInv, NEW c \in Client, NEW o \in Object, CreateTopic(c, o)
    PROVE  SliceInv'
<1>1. /\ pc[c] = "write" /\ lock = c /\ ~crashed /\ array[o] = Nil /\ length[o] = 0 /\ Answer(c)
      /\ array' = [array EXCEPT ![o] = 0] /\ UNCHANGED <<length, cell, subscription>>
    BY DEF CreateTopic, At, Inv, HoldInv
<1>2. \A d \in Client : pc'[d] \notin {"store", "cut"}
    BY <1>1, Alone DEF Answer, Goto, Inv, TypeOK, ClientType
<1>3. ASSUME NEW p \in Object
      PROVE  Good(p, length[p])'
    <2>1. CASE p = o
        BY <1>1, <2>1 DEF Good
    <2>2. CASE p # o
        <3>1. array'[p] = array[p] /\ Good(p, length[p])
            BY <1>1, <2>2, GoodAll DEF Inv, TypeOK, TopicType, Settled
        <3> QED BY <1>1, <3>1 DEF Good, Slot
    <2> QED BY <2>1, <2>2
<1>4. TailInv'
    BY <1>1 DEF SliceInv, TailInv, Slot, Inv, TypeOK, TopicType
<1> QED BY <1>2, <1>3, <1>4 DEF SliceInv, StoreOK, CutOK

\* An entry that is in its array stays where it is, in the new array too.
LEMMA SubscribeBeginSlot ==
    ASSUME Inv, NEW o \in Made, NEW new \in Capacity, array[o] <= new,
           array' = [array EXCEPT ![o] = new],
           cell' = IF new = array[o] THEN cell
                   ELSE [cell EXCEPT ![o][new] =
                          [i \in 1..new |-> IF i <= array[o] THEN cell[o][array[o]][i] ELSE Nil]],
           NEW p \in Made, NEW j \in 1..array[p]
    PROVE  Slot(p, j)' = Slot(p, j)
<1>2. p \in Object /\ array[p] \in Nat /\ array[o] \in Nat /\ o \in Object /\ new \in Nat
    BY MadeTopic, CapacityType
<1>3. CASE p # o
    BY <1>2, <1>3 DEF Slot, Inv, TypeOK, TopicType
<1>4. CASE p = o /\ new = array[o]
    BY <1>2, <1>4 DEF Slot, Inv, TypeOK, TopicType
<1>5. CASE p = o /\ new # array[o]
    <2>1. cell'[o][new] = [i \in 1..new |-> IF i <= array[o] THEN cell[o][array[o]][i] ELSE Nil]
        BY <1>2, <1>5 DEF Inv, TypeOK, TopicType
    <2>2. array'[o] = new
        BY <1>2 DEF Inv, TypeOK, TopicType
    <2> QED BY <1>2, <1>5, <2>1, <2>2 DEF Slot
<1> QED BY <1>3, <1>4, <1>5

LEMMA SubscribeBeginSlice ==
    ASSUME Inv, SliceInv, NEW c \in Client, SubscribeBegin(c)
    PROVE  SliceInv'
<1> SUFFICES ASSUME NEW o, NEW s, NEW new, NEW a, o = Topic(c), s = NewSub,
                    new = NewArray(o), a = call[c].arg
             PROVE  SliceInv'
    OBVIOUS
<1>0. /\ lock = Free /\ lock' = c /\ o \in Made /\ o # Nil /\ Duplicates(o, a) = {}
      /\ s \in Sub \ Allocated /\ s # Nil /\ a \in Subscription
      /\ new \in Capacity /\ new \in Nat /\ length[o] < new /\ array[o] <= new
      /\ array' = [array EXCEPT ![o] = new] /\ length' = [length EXCEPT ![o] = @ + 1]
      /\ cell' = IF new = array[o] THEN cell
                 ELSE [cell EXCEPT ![o][new] =
                        [i \in 1..new |-> IF i <= array[o] THEN cell[o][array[o]][i] ELSE Nil]]
      /\ subscription' = [subscription EXCEPT ![s] = a]
      /\ Moves(c, "store", [call[c] EXCEPT !.sub = s]) /\ UNCHANGED Topics
    BY SubscribeBeginFacts
<1>1. /\ o \in Object /\ array[o] \in Nat /\ array[o] # Nil /\ length[o] \in Nat
      /\ length[o] <= array[o]
      /\ \A i \in 1..array[o] : Slot(o, i) \in Allocated \cup {Nil}
    BY <1>0, MadeTopic DEF Made
<1>2. /\ pc'[c] = "store" /\ call'[c].sub = s /\ call'[c].arg = a
      /\ call'[c].name = call[c].name
      /\ \A d \in Client \ {c} : pc'[d] \notin {"store", "cut"}
    BY <1>0, MovesTo, Alone, CurrentCall DEF Inv, TypeOK, Typed
<1>3. ASSUME NEW p \in Object, NEW i \in 1..array[p], array[p] # Nil
      PROVE  Slot(p, i)' = Slot(p, i) /\ Slot(p, i) \in Allocated \cup {Nil}
    <2>1. p \in Made
        BY <1>3 DEF Made
    <2> QED BY <1>0, <2>1, MadeTopic, SubscribeBeginSlot
<1>4. \A i \in 1..array[o] : Slot(o, i)' = Slot(o, i)
    BY <1>0, SubscribeBeginSlot
<1>5. \A i \in (length[o] + 1)..new : Slot(o, i)' = Nil
    <2>1. \A i \in (length[o] + 1)..array[o] : Slot(o, i) = Nil
        BY <1>1 DEF SliceInv, TailInv
    <2>2. CASE new = array[o]
        BY <1>1, <1>4, <2>1, <2>2
    <2>3. CASE new # array[o]
        <3>1. cell'[o][new] = [i \in 1..new |-> IF i <= array[o] THEN cell[o][array[o]][i] ELSE Nil]
            BY <1>0, <1>1, <2>3 DEF Inv, TypeOK, TopicType
        <3>2. array'[o] = new
            BY <1>0, <1>1 DEF Inv, TypeOK, TopicType
        <3> QED BY <1>0, <1>1, <2>1, <3>1, <3>2 DEF Slot
    <2> QED BY <2>2, <2>3
<1>6. \A t \in Allocated : t # s /\ subscription'[t] = subscription[t]
    BY <1>0
<1>7. ASSUME NEW p \in Object, NEW n \in Nat, n <= length[p], Good(p, n), p # o
      PROVE  Good(p, n)'
    <2>1. CASE array[p] = Nil
        BY <1>7, <2>1 DEF Inv, HoldInv, Good
    <2>2. CASE array[p] # Nil
        <3>1. length[p] \in Nat /\ length[p] <= array[p] /\ array[p] \in Nat
            BY <2>2, CapacityType DEF Inv, TypeOK, TopicType
        <3>2. \A i \in 1..n : Slot(p, i)' = Slot(p, i) /\ Slot(p, i) \in Allocated
            BY <1>3, <1>7, <2>2, <3>1 DEF Good
        <3> QED BY <1>6, <1>7, <3>2 DEF Good
    <2> QED BY <2>1, <2>2
<1>8. Good(o, length[o]) /\ \A i \in 1..length[o] : Slot(o, i)' = Slot(o, i) /\ Slot(o, i) \in Allocated
    <2>1. Good(o, length[o])
        BY <1>0, <1>1, GoodAll DEF Settled
    <2> QED BY <1>1, <1>4, <2>1 DEF Good
<1>9. length'[o] = length[o] + 1 /\ length'[o] - 1 = length[o]
    BY <1>0, <1>1 DEF Inv, TypeOK, TopicType
<1>10. GoodBut(o)'
    <2>1. ASSUME NEW p \in Object, p # o
          PROVE  Good(p, length[p])'
        <3>1. length'[p] = length[p] /\ length[p] \in Nat /\ Good(p, length[p])
            BY <1>0, <2>1, GoodAll DEF Inv, TypeOK, TopicType, Settled
        <3> QED BY <1>7, <2>1, <3>1
    <2>2. Good(o, length[o] - 1)'
        BY <1>6, <1>8, <1>9 DEF Good
    <2> QED BY <2>1, <2>2 DEF GoodBut
<1>11. \A i \in 1..length[o] : Address(subscription'[Slot(o, i)']) # Address(a)
    <2>1. \A i \in 1..length[o] : Slot(o, i) # Nil
        BY <1>8 DEF Good
    <2>2. \A i \in 1..length[o] : Address(subscription[Slot(o, i)]) # Address(a)
        BY <1>0, <2>1 DEF Duplicates, IsDuplicate
    <2> QED BY <1>6, <1>8, <2>2
<1>12. TailInv'
    <2> SUFFICES ASSUME NEW p \in Object, array'[p] # Nil, NEW i \in (length'[p] + 1)..array'[p]
                 PROVE  Slot(p, i)' = Nil
        BY DEF TailInv
    <2>1. CASE p = o
        BY <1>0, <1>1, <1>5, <1>9, <2>1 DEF Inv, TypeOK, TopicType
    <2>2. CASE p # o
        <3>1. array'[p] = array[p] /\ length'[p] = length[p] /\ length[p] \in Nat /\ array[p] \in Nat
            BY <1>0, <2>2, CapacityType, SMTT(30) DEF Inv, TypeOK, TopicType
        <3> QED BY <1>3, <2>2, <3>1 DEF SliceInv, TailInv
    <2> QED BY <2>1, <2>2
<1>13. StoreOK(c)'
    <2>1. Topic(c)' = o
        BY <1>0, <1>2 DEF Topic
    <2>2. subscription'[s] = a
        BY <1>0 DEF Inv, TypeOK, TopicType
    <2>3. ASSUME NEW k, k = length'[o]
          PROVE  Slot(o, k)' = Nil
        BY <1>0, <1>1, <1>5, <1>9, <2>3
    <2>4. length'[o] > 0 /\ \A i \in 1..(length'[o] - 1) :
                Address(subscription'[Slot(o, i)']) # Address(a)
        BY <1>1, <1>9, <1>11
    <2> QED BY <1>0, <1>2, <1>10, <2>1, <2>2, <2>3, <2>4 DEF StoreOK, Slot
<1>14. pc'[lock'] = "store" /\ lock' # Free
    BY <1>0, <1>2, TopicsAssumption
<1> QED BY <1>2, <1>12, <1>13, <1>14 DEF SliceInv, StoreOK, CutOK, Settled

LEMMA SubscribeEndSlice ==
    ASSUME Inv, SliceInv, NEW c \in Client, SubscribeEnd(c)
    PROVE  SliceInv'
<1> SUFFICES ASSUME NEW o, NEW s, o = Topic(c), s = call[c].sub
             PROVE  SliceInv'
    OBVIOUS
<1>0. /\ pc[c] = "store" /\ lock = c /\ lock' = Free
      /\ UNCHANGED <<Topics, array, length, subscription>>
      /\ cell' = [cell EXCEPT ![o][array[o]][length[o]] = s]
      /\ CallOK(c, "store", call[c]) /\ Typed(call[c], Allocated, Made)
    BY CurrentCall DEF SubscribeEnd, At, Inv, HoldInv
<1>1. /\ o # Nil /\ length[o] > 0 /\ GoodBut(o)
      /\ \A i \in 1..(length[o] - 1) :
            Address(subscription[Slot(o, i)]) # Address(subscription[s])
    BY <1>0, SMTT(30) DEF SliceInv, StoreOK
<1>2. o \in Made /\ s # Nil
    BY <1>0, <1>1, TableTopic DEF CallOK, Topic
<1>3. /\ o \in Object /\ array[o] \in Nat /\ array[o] \in Capacity /\ length[o] \in Nat
      /\ length[o] <= array[o] /\ DOMAIN cell[o][array[o]] = 1..array[o]
    BY <1>2, MadeTopic DEF Inv, TypeOK, TopicType, Made
<1>4. \A i \in 1..array[o] : Slot(o, i)' = IF i = length[o] THEN s ELSE Slot(o, i)
    BY <1>0, <1>3 DEF Slot, Inv, TypeOK, TopicType
<1>5. \A p \in Object \ {o} : \A i : Slot(p, i)' = Slot(p, i)
    BY <1>0 DEF Slot, Inv, TypeOK, TopicType
<1>6. ASSUME NEW p \in Object
      PROVE  Good(p, length[p])'
    <2>1. CASE p = o
        <3>1. \A i, j \in 1..(length[o] - 1) :
                /\ Slot(o, i) # Nil
                /\ i # j => Slot(o, i) # Slot(o, j)
            BY <1>1, <1>3 DEF GoodBut, Good
        <3>2. \A i \in 1..length[o] : i # length[o] => i \in 1..(length[o] - 1)
            BY <1>3
        <3>3. \A i \in 1..length[o] : i \in 1..array[o]
            BY <1>3
        <3> QED BY <1>0, <1>1, <1>2, <1>4, <2>1, <3>1, <3>2, <3>3 DEF Good
    <2>2. CASE p # o
        BY <1>0, <1>1, <1>5, <2>2 DEF GoodBut, Good
    <2> QED BY <2>1, <2>2
<1>7. TailInv'
    <2> SUFFICES ASSUME NEW p \in Object, array[p] # Nil, NEW i \in (length[p] + 1)..array[p]
                 PROVE  Slot(p, i)' = Nil
        BY <1>0 DEF TailInv
    <2>1. Slot(p, i) = Nil
        BY DEF SliceInv, TailInv
    <2>2. CASE p = o
        BY <1>3, <1>4, <2>1, <2>2
    <2>3. CASE p # o
        BY <1>5, <2>1, <2>3
    <2> QED BY <2>2, <2>3
<1>8. \A d \in Client : pc'[d] \notin {"store", "cut"}
    <2>1. \A d \in Client \ {c} : pc'[d] = pc[d]
        BY DEF SubscribeEnd, Subscribed, Answer, Goto, Inv, TypeOK, ClientType
    <2>2. pc'[c] \in {"idle", "token"}
        BY DEF SubscribeEnd, Subscribed, Answer, Goto, Inv, TypeOK, ClientType
    <2> QED BY <1>0, <2>1, <2>2, Alone
<1> QED BY <1>6, <1>7, <1>8 DEF SliceInv, StoreOK, CutOK

LEMMA UnsubscribeShiftSlice ==
    ASSUME Inv, SliceInv, NEW c \in Client, UnsubscribeShift(c)
    PROVE  SliceInv'
<1> SUFFICES ASSUME NEW o, NEW k, o = call[c].topic, k = call[c].i
             PROVE  SliceInv'
    OBVIOUS
<1>0. /\ pc[c] = "lock" /\ Is(c, "Unsubscribe") /\ lock = Free /\ lock' = c
      /\ UNCHANGED <<Topics, array, length, subscription>>
      /\ k <= length[o] /\ cell' = [cell EXCEPT ![o][array[o]] = Shifted(o, k)]
      /\ pc' = [pc EXCEPT ![c] = "cut"] /\ call' = Releasing(Moved(o, k), call)
      /\ CallOK(c, "lock", call[c]) /\ Typed(call[c], Allocated, Made)
    BY CurrentCall DEF UnsubscribeShift, At, Goto
<1>1. o \in Made /\ k \in Nat /\ k > 0
    BY <1>0 DEF CallOK, Typed, Is
<1>2. /\ o \in Object /\ array[o] \in Nat /\ array[o] \in Capacity /\ length[o] \in Nat
      /\ length[o] <= array[o]
    BY <1>1, MadeTopic, SMTT(30) DEF Inv, TypeOK, TopicType, Made
<1>3. \A i \in 1..array[o] :
        Slot(o, i)' = IF i \in k..(length[o] - 1) THEN Slot(o, i + 1) ELSE Slot(o, i)
    <2>1. cell'[o][array[o]] = Shifted(o, k)
        BY <1>0, <1>2 DEF Inv, TypeOK, TopicType
    <2> QED BY <1>0, <2>1 DEF Slot, Shifted
<1>4. \A p \in Object \ {o} : \A i : Slot(p, i)' = Slot(p, i)
    BY <1>0 DEF Slot, Inv, TypeOK, TopicType
<1>5. GoodBut(o)'
    <2>1. ASSUME NEW p \in Object, p # o
          PROVE  Good(p, length[p])'
        BY <1>0, <1>4, <2>1, GoodAll DEF Good, Settled
    <2>2. Good(o, length[o] - 1)'
        <3> DEFINE at(i) == IF i \in k..(length[o] - 1) THEN i + 1 ELSE i
        <3>1. \A i \in 1..(length[o] - 1) :
                i \in 1..array[o] /\ at(i) \in 1..length[o] /\ Slot(o, i)' = Slot(o, at(i))
            BY <1>1, <1>2, <1>3
        <3>2. \A i, j \in 1..(length[o] - 1) : i # j => at(i) # at(j)
            BY <1>1, <1>2
        <3>3. Good(o, length[o])
            BY <1>0, <1>2, GoodAll DEF Settled
        <3> HIDE DEF at
        <3> QED BY <1>0, <3>1, <3>2, <3>3 DEF Good
    <2> QED BY <2>1, <2>2 DEF GoodBut
<1>6. TailInv'
    <2> SUFFICES ASSUME NEW p \in Object, array[p] # Nil, NEW i \in (length[p] + 1)..array[p]
                 PROVE  Slot(p, i)' = Nil
        BY <1>0 DEF TailInv
    <2>1. Slot(p, i) = Nil
        BY DEF SliceInv, TailInv
    <2>2. CASE p = o
        BY <1>1, <1>2, <1>3, <2>1, <2>2
    <2>3. CASE p # o
        BY <1>4, <2>1, <2>3
    <2> QED BY <2>2, <2>3
<1>7. /\ pc'[c] = "cut" /\ call'[c].topic = o
      /\ \A d \in Client \ {c} : pc'[d] \notin {"write", "store", "cut"}
    <2>1. call'[c] = Released(call[c], Moved(o, k))
        BY <1>0 DEF Releasing, Released
    <2>2. \A d \in Client \ {c} : pc'[d] = pc[d]
        BY <1>0 DEF Inv, TypeOK, ClientType
    <2> QED BY <1>0, <2>1, <2>2, Alone, ReleasedTyped DEF Inv, TypeOK, ClientType
<1>8. CutOK(c)'
    BY <1>5, <1>7 DEF CutOK
<1>9. lock' # Free /\ pc'[lock'] = "cut"
    BY <1>0, <1>7, TopicsAssumption
<1> QED BY <1>6, <1>7, <1>8, <1>9 DEF SliceInv, StoreOK, CutOK, Settled

LEMMA UnsubscribeCutSlice ==
    ASSUME Inv, SliceInv, NEW c \in Client, UnsubscribeCut(c)
    PROVE  SliceInv'
<1> SUFFICES ASSUME NEW o, o = call[c].topic
             PROVE  SliceInv'
    OBVIOUS
<1>0. /\ pc[c] = "cut" /\ lock = c /\ lock' = Free /\ Answer(c)
      /\ UNCHANGED <<Topics, array, subscription>>
      /\ cell' = [cell EXCEPT ![o][array[o]][length[o]] = Nil]
      /\ length' = [length EXCEPT ![o] = @ - 1]
      /\ CallOK(c, "cut", call[c]) /\ Typed(call[c], Allocated, Made)
    BY CurrentCall DEF UnsubscribeCut, At, Inv, HoldInv
<1>1. GoodBut(o) /\ o \in Made /\ length[o] > 0
    <2>1. o \in Made /\ call[c].i > 0 /\ call[c].i \in Nat /\ call[c].i <= length[o]
        BY <1>0 DEF CallOK, Typed, Inv, HoldInv
    <2> QED BY <1>0, <2>1, MadeTopic DEF SliceInv, CutOK
<1>2. /\ o \in Object /\ array[o] \in Nat /\ array[o] \in Capacity /\ length[o] \in Nat
      /\ length[o] <= array[o] /\ DOMAIN cell[o][array[o]] = 1..array[o]
      /\ length'[o] = length[o] - 1
    BY <1>0, <1>1, MadeTopic DEF Inv, TypeOK, TopicType, Made
<1>3. \A i \in 1..array[o] : Slot(o, i)' = IF i = length[o] THEN Nil ELSE Slot(o, i)
    BY <1>0, <1>2, SMTT(30) DEF Slot, Inv, TypeOK, TopicType
<1>4. \A p \in Object \ {o} : length'[p] = length[p] /\ \A i : Slot(p, i)' = Slot(p, i)
    BY <1>0 DEF Slot, Inv, TypeOK, TopicType
<1>5. ASSUME NEW p \in Object
      PROVE  Good(p, length[p])'
    <2>1. CASE p = o
        <3>1. \A i \in 1..(length[o] - 1) : Slot(o, i)' = Slot(o, i)
            BY <1>2, <1>3
        <3> QED BY <1>0, <1>1, <1>2, <2>1, <3>1 DEF GoodBut, Good
    <2>2. CASE p # o
        BY <1>0, <1>1, <1>4, <2>2 DEF GoodBut, Good
    <2> QED BY <2>1, <2>2
<1>6. TailInv'
    <2> SUFFICES ASSUME NEW p \in Object, array[p] # Nil, NEW i \in (length'[p] + 1)..array[p]
                 PROVE  Slot(p, i)' = Nil
        BY <1>0 DEF TailInv
    <2>1. i \in (length[p] + 1)..array[p] => Slot(p, i) = Nil
        BY DEF SliceInv, TailInv
    <2>2. CASE p = o
        BY <1>1, <1>2, <1>3, <2>1, <2>2
    <2>3. CASE p # o
        BY <1>4, <2>1, <2>3
    <2> QED BY <2>2, <2>3
<1>7. \A d \in Client : pc'[d] \notin {"store", "cut"}
    BY <1>0, Alone DEF Answer, Goto, Inv, TypeOK, ClientType
<1> QED BY <1>5, <1>6, <1>7 DEF SliceInv, StoreOK, CutOK

LEMMA SetAttributesSlice ==
    ASSUME Inv, SliceInv, NEW c \in Client, SetSubscriptionAttributes(c)
    PROVE  SliceInv'
<1>1. /\ lock = Free /\ UNCHANGED <<Topics, array, length, cell, lock>>
      /\ \A d \in Client : pc'[d] \notin {"store", "cut"}
    BY Alone DEF SetSubscriptionAttributes, At, Answer, Goto, mutexVars, Inv, TypeOK, ClientType
<1>3. ASSUME NEW o \in Object
      PROVE  Good(o, length[o])'
    <2>1. Good(o, length[o])
        BY <1>1, GoodAll DEF Settled
    <2> QED BY <1>1, <2>1 DEF Good, Slot
<1>4. TailInv'
    BY <1>1 DEF SliceInv, TailInv, Slot
<1> QED BY <1>1, <1>3, <1>4 DEF SliceInv, StoreOK, CutOK

LEMMA SliceStep == Inv /\ SliceInv /\ [Next]_vars => SliceInv'
<1> SUFFICES ASSUME Inv, SliceInv, [Next]_vars PROVE SliceInv'
    OBVIOUS
<1>1. ASSUME Stop, UNCHANGED topicVars PROVE SliceInv'
    BY <1>1, SliceKept DEF Stop, topicVars, Settled
<1>2. ASSUME NEW c \in Client, ~Stop,
             Step(c) \/ (\E h \in Handlers[c], n \in Name : Request(c, h, n))
      PROVE  SliceInv'
    <2>0. (\A d \in Client \ {c} : Rests(d)) /\ DOMAIN pc = Client /\ CallOK(c, pc[c], call[c])
        BY <1>2, OthersRest, CurrentCall DEF Inv, TypeOK, ClientType
    <2>1. ASSUME UNCHANGED topicVars, {pc[c], pc'[c]} \cap {"store", "cut"} = {},
                 UNCHANGED lock \/ lock = Free, ~crashed
          PROVE  SliceInv'
        <3>1. \A d \in Client : pc'[d] \in {"store", "cut"} =>
                    Rests(d) /\ Topics'[call[d].name] = Topics[call[d].name]
            BY <2>0, <2>1 DEF topicVars
        <3>2. Settled' => Settled
            BY <2>0, <2>1 DEF Rests, Settled
        <3> QED BY <2>1, <3>1, <3>2, SliceKept DEF topicVars
    <2>2. CASE WriteBegin(c) \/ SubscribePanic(c) \/ UnsubscribePanic(c)
        <3>1. /\ UNCHANGED topicVars /\ lock = Free /\ ~crashed
              /\ pc[c] \notin {"store", "cut"} /\ pc'[c] \notin {"store", "cut"}
            BY <2>0, <2>2 DEF WriteBegin, SubscribePanic, UnsubscribePanic, Goes, Answer, Goto, At
        <3> QED BY <2>1, <3>1
    <2>3. CASE DeleteTopic(c)
        <3>1. /\ pc[c] = "write" /\ lock = c /\ UNCHANGED <<array, length, cell, subscription>>
              /\ pc'[c] = "idle" /\ ~crashed
            BY <2>0, <2>3 DEF DeleteTopic, At, Answer, Goto, Inv, HoldInv
        <3>2. \A d \in Client : pc'[d] \notin {"store", "cut"}
            BY <2>0, <3>1, Alone DEF Rests
        <3> QED BY <3>1, <3>2, SliceKept DEF Settled
    <2>4. CASE \/ (\E h \in Handlers[c], n \in Name : Request(c, h, n))
               \/ Check(c) \/ (\E n \in Name : TopicsNext(c, n)) \/ TopicsEnd(c) \/ RangeArray(c)
               \/ RangeLength(c) \/ RangeEnd(c) \/ RangeWild(c) \/ RangeNil(c)
               \/ (\E s \in Sub : RangeEntry(c, s)) \/ SubscribeDuplicate(c)
               \/ IssueToken(c) \/ PostConfirmation(c)
               \/ ConfirmSubscription(c) \/ PublishPost(c) \/ PublishQueue(c) \/ PublishAppend(c)
        <3>1. UNCHANGED <<topicVars, lock>>
            BY <1>2, <2>4 DEF Request, sharedVars, mutexVars, Check, TopicsNext, TopicsEnd,
               RangeArray, RangeLength, RangeEnd, RangeWild, RangeNil, RangeEntry,
               SubscribeDuplicate, IssueToken, PostConfirmation, ConfirmSubscription, PublishPost,
               PublishQueue, PublishAppend
        <3>2. pc[c] \notin {"store", "cut"} /\ ~crashed
            BY <2>0, <2>4 DEF Request, Check, TopicsNext, TopicsEnd, RangeArray, RangeLength,
               RangeEnd, RangeWild, RangeNil, RangeEntry, Reads, SubscribeDuplicate, IssueToken,
               PostConfirmation, ConfirmSubscription, PublishPost, PublishQueue, PublishAppend, At
        <3>3. pc'[c] \notin {"store", "cut"}
            BY <1>2, <2>0, <2>4 DEF Request, FirstPlace, Check, CreateCheck, UseCheck, TopicsNext,
               TopicsEnd, RangeArray, RangeLength, RangeEnd, RangeWild, RangeNil, RangeEntry,
               PublishEntry, AttributesEntry, Serve, Advance, SubscribeDuplicate, Subscribed,
               IssueToken, PostConfirmation, ConfirmSubscription, PublishPost, PublishQueue,
               PublishAppend, Answer, Goes, Goto, At
        <3> QED BY <2>1, <3>1, <3>2, <3>3, SMTT(30)
    <2> QED BY <1>2, <2>2, <2>3, <2>4, CreateTopicSlice, SubscribeBeginSlice, SubscribeEndSlice,
               UnsubscribeShiftSlice, UnsubscribeCutSlice, SetAttributesSlice DEF Step
<1>3. ASSUME NEW q \in QueueEndpoint, CreateQueue(q) \/ DeleteQueue(q)
      PROVE  SliceInv'
    <2>1. UNCHANGED <<topicVars, lock, crashed, pc>>
        BY <1>3 DEF CreateQueue, DeleteQueue, clientVars, mutexVars
    <2>2. \A d \in Client : Rests(d)
        <3>1. CASE UNCHANGED call
            BY <2>1, <3>1 DEF Rests, SameCall
        <3>2. ASSUME NEW S, call' = Releasing(S, call), NEW d \in Client
              PROVE  Rests(d)
            <4>1. call'[d] = Released(call[d], S)
                BY <3>2 DEF Releasing, Released
            <4> QED BY <2>1, <4>1, CurrentCall, ReleasedTyped DEF Rests, SameCall
        <3> QED BY <1>3, <3>1, <3>2 DEF CreateQueue, DeleteQueue, clientVars
    <2> QED BY <2>1, <2>2, SliceKept DEF topicVars, Settled
<1>4. CASE UNCHANGED vars
    <2>1. UNCHANGED <<topicVars, lock, crashed, pc, call>>
        BY <1>4 DEF vars, sharedVars, clientVars, mutexVars
    <2> QED BY <2>1, SliceKept DEF topicVars, Rests, SameCall, Settled
<1>5. CASE Crash
    BY <1>1, <1>5 DEF Crash
<1>6. ASSUME NEW c \in Client, Stop,
             Step(c) \/ (\E h \in Handlers[c], n \in Name : Request(c, h, n))
      PROVE  SliceInv'
    <2>1. crashed'
        BY <1>6, SMTT(30) DEF Stop
    <2>2. ~crashed /\ (UNCHANGED crashed \/ RangeWild(c))
        BY <1>6 DEF Step, At, Request, sharedVars, Check, TopicsNext, TopicsEnd, RangeArray,
           RangeLength, RangeEnd, RangeWild, RangeNil, RangeEntry, Reads, SubscribeDuplicate,
           SubscribePanic, UnsubscribePanic, IssueToken, PostConfirmation, ConfirmSubscription,
           PublishPost, PublishQueue, PublishAppend, WriteBegin, CreateTopic, DeleteTopic,
           SubscribeBegin, SubscribeEnd, UnsubscribeShift, UnsubscribeCut,
           SetSubscriptionAttributes, mutexVars
    <2>3. RangeWild(c)
        BY <2>1, <2>2
    <2> QED BY <1>1, <1>6, <2>3 DEF RangeWild
<1> QED BY <1>2, <1>3, <1>4, <1>5, <1>6 DEF Next

LEMMA SliceInvCorrect == Spec => []SliceInv
<1>1. Init => SliceInv
    <2> SUFFICES ASSUME Init PROVE SliceInv
        OBVIOUS
    <2>1. PICK t \in Loaded : LoadTable(t)
        BY DEF Init
    <2>2. \A c \in Client : pc[c] = "idle"
        BY DEF Init
    <2>3. ASSUME NEW o \in Object PROVE Good(o, length[o])
        <3>1. /\ \A i \in 1..length[o] : Slot(o, i) = t.entries[o][i] /\ Slot(o, i) # Nil
              /\ length[o] = Len(t.entries[o])
            BY <2>1, LoadedType DEF LoadTable
        <3>2. \A i, j \in 1..Len(t.entries[o]) : t.entries[o][i] = t.entries[o][j] => i = j
            BY LoadedAssumption
        <3> QED BY <3>1, <3>2 DEF Good
    <2>4. TailInv
        BY <2>1, LoadedType DEF TailInv
    <2> QED BY <2>2, <2>3, <2>4 DEF SliceInv, StoreOK, CutOK
<1> QED BY <1>1, SliceStep, InvCorrect, PTL DEF Spec

\* In whatever order requests append to a topic's list and remove entries by positions
\* that may be stale, it has no hole and no subscription twice.
THEOREM TopicsWellFormedCorrect == Spec => []WellFormed
<1>1. SliceInv => WellFormed
    BY DEF SliceInv, Settled, Good, WellFormed
<1> QED BY <1>1, SliceInvCorrect, PTL

-----------------------------------------------------------------------------
(* Leaving by name. *)

OneCreator ==
    \A c, d \in Client : "CreateTopic" \in Handlers[c] \cap Handlers[d] => c = d

CreateInv ==
    \A c \in Client : Is(c, "CreateTopic") /\ pc[c] \in {"lock", "write"} => Topic(c) = Nil

Cutting == \E d \in Client : pc[d] = "cut"

\* What the Unsubscribe of c has read of its slice is still in the slice, at its place.
PositionOK(c) ==
    LET r == call[c]
        o == r.topic
    IN  /\ pc[c] \in {"length", "range"} /\ ~Cutting =>
            /\ r.cap <= array[o]
            /\ r.cap < array[o] => r.cap < length[o]
            /\ \A i \in 1..r.cap : cell[o][r.cap][i] # Nil => Slot(o, i) = cell[o][r.cap][i]
        /\ pc[c] = "lock" /\ ~Cutting => Slot(o, r.i) = r.sub
        /\ pc[c] = "cut" =>
            \/ Slot(o, length[o]) = r.sub
            \/ r.i < length[o] /\ Slot(o, length[o]) = Slot(o, length[o] - 1)

PositionInv == ~overlapped => \A c \in Client : Is(c, "Unsubscribe") => PositionOK(c)

LEMMA CreateStep ==
    ASSUME OneCreator, Inv, CreateInv, [Next]_vars
    PROVE  CreateInv'
<1>1. CASE Stop
    BY <1>1 DEF Stop, CreateInv
<1>2. ASSUME NEW c \in Client, ~Stop,
             Step(c) \/ (\E h \in Handlers[c], n \in Name : Request(c, h, n))
      PROVE  CreateInv'
    <2>0. /\ \A d \in Client \ {c} : Rests(d)
          /\ DOMAIN pc = Client /\ DOMAIN call = Client
          /\ \A d \in Client : CallOK(d, pc[d], call[d]) /\ Typed(call[d], Allocated, Made)
        BY <1>2, OthersRest, CurrentCall DEF Inv, TypeOK, ClientType
    <2>1. CASE \E o \in Object : CreateTopic(c, o)
        <3>1. pc'[c] = "idle" /\ \A d \in Client \ {c} : pc[d] # "write"
            BY <2>0, <2>1, Alone DEF CreateTopic, At, Answer, Goto, Inv, HoldInv
        <3>2. \A d \in Client \ {c} : pc[d] # "idle" => call[d].handler # "CreateTopic"
            <4>1. Is(c, "CreateTopic") /\ pc[c] = "write"
                BY <2>1 DEF CreateTopic, At
            <4>2. "CreateTopic" \in Handlers[c]
                BY <2>0, <4>1 DEF CallOK, Is
            <4> QED BY <2>0, <4>2 DEF OneCreator, CallOK
        <3> QED BY <2>0, <3>1, <3>2 DEF CreateInv, Rests, SameCall, Is
    <2>2. CASE DeleteTopic(c)
        <3>1. pc'[c] = "idle" /\ Topics' = [Topics EXCEPT ![call[c].name] = Nil]
            BY <2>0, <2>2 DEF DeleteTopic, Answer, Goto
        <3>2. ASSUME NEW d \in Client, Is(d, "CreateTopic")', pc'[d] \in {"lock", "write"}
              PROVE  Topic(d)' = Nil
            <4>1. d # c /\ pc[d] = pc'[d] /\ Is(d, "CreateTopic") /\ call'[d].name = call[d].name
                BY <2>0, <3>1, <3>2 DEF Rests, SameCall, Is
            <4>2. Topics[call[d].name] = Nil /\ call[d].name \in Name
                BY <2>0, <3>2, <4>1 DEF CreateInv, Topic, CallOK
            <4> QED BY <3>1, <4>1, <4>2 DEF Topic, Inv, TypeOK, TopicType
        <3> QED BY <3>2 DEF CreateInv
    <2>3. CASE UNCHANGED Topics
        <3>1. ASSUME NEW d \in Client \ {c}, Is(d, "CreateTopic")', pc'[d] \in {"lock", "write"}
              PROVE  Topic(d)' = Nil
            BY <2>0, <2>3, <3>1 DEF CreateInv, Rests, SameCall, Is, Topic
        <3>2. ASSUME Is(c, "CreateTopic")', pc'[c] \in {"lock", "write"}
              PROVE  Topic(c)' = Nil
            <4>1. CASE Check(c)
                <5>1. UNCHANGED call /\ pc[c] = "check"
                    BY <2>0, <3>2, <4>1 DEF Check, CreateCheck, UseCheck, Answer, Goes, Goto, At
                <5> QED BY <2>0, <2>3, <3>2, <4>1, <5>1 DEF Check, CreateCheck, Answer, Goto, Is,
                           Topic
            <4>2. CASE WriteBegin(c)
                BY <2>3, <3>2, <4>2 DEF WriteBegin, At, Goes, CreateInv, Is, Topic
            <4>3. CASE \E h \in Handlers[c], n \in Name : Request(c, h, n)
                <5>1. \E h : pc'[c] = FirstPlace(h)
                    BY <2>0, <4>3 DEF Request, Goto
                <5> QED BY <3>2, <5>1 DEF FirstPlace
            <4>4. CASE \E s \in Sub : RangeEntry(c, s)
                <5>1. CASE Goes(c, "lock") /\ UNCHANGED call
                    <6>1. Is(c, "CreateTopic") /\ pc[c] = "range"
                        BY <3>2, <4>4, <5>1 DEF RangeEntry, Reads, At, Is
                    <6> QED BY <2>0, <6>1 DEF CallOK, Is, Rangers, Iterating, Naming
                <5>2. CASE ~Goes(c, "lock")
                    BY <2>0, <3>2, <4>4, <5>2 DEF RangeEntry, PublishEntry, AttributesEntry,
                       Answer, Serve, Advance, Goto
                <5> QED BY <5>1, <5>2 DEF Goes
            <4>5. CASE ~Check(c) /\ ~WriteBegin(c) /\ ~(\E s \in Sub : RangeEntry(c, s)) /\ Step(c)
                <5>1. pc'[c] \notin {"lock", "write"}
                    BY <1>2, <2>0, <4>5 DEF Step, TopicsNext, TopicsEnd, RangeArray, RangeLength,
                       RangeEnd, RangeWild, RangeNil, SubscribeDuplicate, Subscribed, CreateTopic,
                       DeleteTopic, SubscribeBegin, SubscribeEnd, SubscribePanic, UnsubscribeShift,
                       UnsubscribeCut, UnsubscribePanic, SetSubscriptionAttributes, IssueToken,
                       PostConfirmation, ConfirmSubscription, PublishPost, PublishQueue,
                       PublishAppend, Answer, Advance, Goes, Goto, At
                <5> QED BY <3>2, <5>1
            <4> QED BY <1>2, <4>1, <4>2, <4>3, <4>4, <4>5
        <3> QED BY <3>1, <3>2 DEF CreateInv
    <2>4. UNCHANGED Topics \/ DeleteTopic(c) \/ \E o \in Object : CreateTopic(c, o)
        BY <1>2, QuietStep DEF topicVars, WriteBegin, SubscribeBegin, SubscribeEnd,
           UnsubscribeShift, UnsubscribeCut, SetSubscriptionAttributes
    <2> QED BY <2>1, <2>2, <2>3, <2>4
<1>3. ASSUME NEW q \in QueueEndpoint, CreateQueue(q) \/ DeleteQueue(q)
      PROVE  CreateInv'
    <2>1. UNCHANGED <<Topics, pc>> /\ \A d \in Client :
                call'[d].handler = call[d].handler /\ call'[d].name = call[d].name
        <3>1. CASE UNCHANGED call
            BY <1>3, <3>1 DEF CreateQueue, DeleteQueue, clientVars, topicVars
        <3>2. ASSUME NEW S, call' = Releasing(S, call), NEW d \in Client
              PROVE  call'[d].handler = call[d].handler /\ call'[d].name = call[d].name
            <4>1. call'[d] = Released(call[d], S)
                BY <3>2 DEF Releasing, Released
            <4> QED BY <4>1, CurrentCall, ReleasedTyped
        <3>3. UNCHANGED <<Topics, pc>>
            BY <1>3 DEF CreateQueue, DeleteQueue, clientVars, topicVars
        <3> QED BY <1>3, <3>1, <3>2, <3>3 DEF CreateQueue, DeleteQueue, clientVars
    <2> QED BY <2>1 DEF CreateInv, Is, Topic
<1>4. CASE UNCHANGED vars
    BY <1>4 DEF vars, sharedVars, clientVars, topicVars, CreateInv, Is, Topic
<1> QED BY <1>1, <1>2, <1>3, <1>4 DEF Next, Crash

LEMMA CreateInvCorrect == OneCreator /\ Spec => []CreateInv
<1>1. Init => CreateInv
    BY DEF Init, CreateInv
<1>2. CASE OneCreator
    <2>1. Inv /\ CreateInv /\ [Next]_vars => CreateInv'
        BY <1>2, CreateStep
    <2> QED BY <1>1, <2>1, InvCorrect, PTL DEF Spec
<1> QED BY <1>2

-----------------------------------------------------------------------------
(* What a step does to the entries of the topics. *)

LEMMA SubscribeEndSlots ==
    ASSUME Inv, SliceInv, NEW c \in Client, SubscribeEnd(c), NEW o, o = Topic(c)
    PROVE  /\ o \in Made /\ length[o] \in 1..array[o] /\ Slot(o, length[o]) = Nil
           /\ UNCHANGED <<Topics, array, length>> /\ pc[c] = "store"
           /\ cell' = [cell EXCEPT ![o][array[o]][length[o]] = call[c].sub]
           /\ \A i \in 1..array[o] : i # length[o] => Slot(o, i)' = Slot(o, i)
           /\ \A p \in Object \ {o} : \A i : Slot(p, i)' = Slot(p, i)
<1>0. /\ pc[c] = "store" /\ UNCHANGED <<Topics, array, length>>
      /\ cell' = [cell EXCEPT ![o][array[o]][length[o]] = call[c].sub]
      /\ CallOK(c, "store", call[c])
    BY CurrentCall DEF SubscribeEnd, At
<1>1. o # Nil /\ length[o] > 0 /\ Slot(o, length[o]) = Nil
    BY <1>0, SMTT(30) DEF SliceInv, StoreOK
<1>2. o \in Made
    BY <1>0, <1>1, TableTopic DEF CallOK, Topic
<1>3. /\ o \in Object /\ array[o] \in Nat /\ array[o] \in Capacity /\ length[o] \in Nat
      /\ length[o] <= array[o] /\ DOMAIN cell[o][array[o]] = 1..array[o]
    BY <1>2, MadeTopic DEF Inv, TypeOK, TopicType, Made
<1>4. \A i \in 1..array[o] : i # length[o] => Slot(o, i)' = Slot(o, i)
    BY <1>0, <1>3 DEF Slot, Inv, TypeOK, TopicType
<1>5. \A p \in Object \ {o} : \A i : Slot(p, i)' = Slot(p, i)
    BY <1>0 DEF Slot, Inv, TypeOK, TopicType
<1> QED BY <1>0, <1>1, <1>2, <1>3, <1>4, <1>5

LEMMA UnsubscribeShiftSlots ==
    ASSUME Inv, NEW c \in Client, UnsubscribeShift(c), NEW o, o = call[c].topic,
           NEW k, k = call[c].i
    PROVE  /\ o \in Made /\ k \in 1..length[o] /\ length[o] \in 1..array[o]
           /\ pc[c] = "lock" /\ Is(c, "Unsubscribe") /\ lock = Free /\ lock' = c
           /\ UNCHANGED <<Topics, array, length>> /\ pc'[c] = "cut" /\ SameCall(call[c], call'[c])
           /\ \A i \in 1..array[o] :
                Slot(o, i)' = IF i \in k..(length[o] - 1) THEN Slot(o, i + 1) ELSE Slot(o, i)
           /\ \A p \in Object \ {o} : \A i : Slot(p, i)' = Slot(p, i)
<1>0. /\ pc[c] = "lock" /\ Is(c, "Unsubscribe") /\ lock = Free /\ lock' = c
      /\ UNCHANGED <<Topics, array, length>>
      /\ k <= length[o] /\ cell' = [cell EXCEPT ![o][array[o]] = Shifted(o, k)]
      /\ pc' = [pc EXCEPT ![c] = "cut"] /\ call' = Releasing(Moved(o, k), call)
      /\ CallOK(c, "lock", call[c]) /\ Typed(call[c], Allocated, Made)
    BY CurrentCall DEF UnsubscribeShift, At, Goto
<1>1. o \in Made /\ k \in Nat /\ k > 0
    BY <1>0 DEF CallOK, Typed, Is
<1>2. /\ o \in Object /\ array[o] \in Nat /\ array[o] \in Capacity /\ length[o] \in Nat
      /\ length[o] <= array[o]
    BY <1>1, MadeTopic, SMTT(30) DEF Inv, TypeOK, TopicType, Made
<1>3. \A i \in 1..array[o] :
        Slot(o, i)' = IF i \in k..(length[o] - 1) THEN Slot(o, i + 1) ELSE Slot(o, i)
    <2>1. cell'[o][array[o]] = Shifted(o, k)
        BY <1>0, <1>2 DEF Inv, TypeOK, TopicType
    <2> QED BY <1>0, <2>1 DEF Slot, Shifted
<1>4. \A p \in Object \ {o} : \A i : Slot(p, i)' = Slot(p, i)
    BY <1>0 DEF Slot, Inv, TypeOK, TopicType
<1>5. SameCall(call[c], call'[c])
    <2>1. call'[c] = Released(call[c], Moved(o, k))
        BY <1>0 DEF Releasing, Released
    <2> QED BY <1>0, <2>1, ReleasedTyped DEF SameCall
<1>6. pc'[c] = "cut"
    BY <1>0 DEF Inv, TypeOK, ClientType
<1> QED BY <1>0, <1>1, <1>2, <1>3, <1>4, <1>5, <1>6

LEMMA UnsubscribeCutSlots ==
    ASSUME Inv, NEW c \in Client, UnsubscribeCut(c), NEW o, o = call[c].topic
    PROVE  /\ o \in Made /\ length[o] \in 1..array[o] /\ array[o] \in Nat
           /\ call[c].i \in 1..length[o] /\ pc[c] = "cut" /\ lock = c
           /\ UNCHANGED <<Topics, array>> /\ length' = [length EXCEPT ![o] = @ - 1]
           /\ \A i \in 1..array[o] : i # length[o] => Slot(o, i)' = Slot(o, i)
           /\ \A p \in Object \ {o} : \A i : Slot(p, i)' = Slot(p, i)
<1>0. /\ pc[c] = "cut" /\ lock = c /\ UNCHANGED <<Topics, array>>
      /\ cell' = [cell EXCEPT ![o][array[o]][length[o]] = Nil]
      /\ length' = [length EXCEPT ![o] = @ - 1]
      /\ CallOK(c, "cut", call[c]) /\ Typed(call[c], Allocated, Made)
    BY CurrentCall DEF UnsubscribeCut, At, Inv, HoldInv
<1>1. o \in Made /\ call[c].i > 0 /\ call[c].i \in Nat /\ call[c].i <= length[o]
    BY <1>0 DEF CallOK, Typed, Inv, HoldInv
<1>2. /\ o \in Object /\ array[o] \in Nat /\ array[o] \in Capacity /\ length[o] \in Nat
      /\ length[o] <= array[o] /\ DOMAIN cell[o][array[o]] = 1..array[o]
    BY <1>1, MadeTopic DEF Inv, TypeOK, TopicType, Made
<1>3. \A i \in 1..array[o] : i # length[o] => Slot(o, i)' = Slot(o, i)
    BY <1>0, <1>2 DEF Slot, Inv, TypeOK, TopicType
<1>4. \A p \in Object \ {o} : \A i : Slot(p, i)' = Slot(p, i)
    BY <1>0, SMTT(30) DEF Slot, Inv, TypeOK, TopicType
<1> QED BY <1>0, <1>1, <1>2, <1>3, <1>4

-----------------------------------------------------------------------------
(* Positions.  The Unsubscribe of d rests while others change topics. *)

LEMMA RestPosition ==
    ASSUME NEW d \in Client, Rests(d), PositionOK(d), NEW o, o = call[d].topic,
           array'[o] = array[o], length'[o] = length[o], cell'[o] = cell[o],
           Cutting => Cutting'
    PROVE  PositionOK(d)'
<1>1. call'[d].topic = o /\ call'[d].cap = call[d].cap /\ call'[d].i = call[d].i
    BY DEF Rests, SameCall
<1>2. \A i : Slot(o, i)' = Slot(o, i)
    BY DEF Slot
<1> QED BY <1>1, <1>2 DEF PositionOK, Rests, SameCall

\* What an Unsubscribe that iterates or has found its entry points to.
LEMMA PositionFacts ==
    ASSUME Inv, MutexInv, ~overlapped, NEW d \in Client, Is(d, "Unsubscribe"),
           pc[d] \in {"length", "range", "lock", "cut"}
    PROVE  /\ call[d].topic \in Made /\ call[d].cap \in Nat /\ call[d].i \in Nat
           /\ call[d].i > 0 /\ call[d].len \in Nat /\ call[d].sub # Nil
           /\ pc[d] = "lock" => call[d].i <= length[call[d].topic]
<1>1. Typed(call[d], Allocated, Made) /\ CallOK(d, pc[d], call[d])
    BY CurrentCall
<1>2. /\ call[d].topic \in Made \cup {Nil} /\ call[d].cap \in Nat /\ call[d].i \in Nat
      /\ call[d].len \in Nat
    BY <1>1, CapacityType DEF Typed
<1>3. call[d].topic # Nil /\ call[d].i > 0 /\ call[d].sub # Nil
    BY <1>1 DEF CallOK, Is, Naming
<1>4. call[d].topic \in Made
    BY <1>2, <1>3
<1>5. ASSUME pc[d] = "lock"
      PROVE  call[d].i <= length[call[d].topic]
    <2>1. call[d].i <= call[d].len /\ call[d].len <= length[call[d].topic]
        BY <1>5 DEF MutexInv, RelyOK
    <2>2. length[call[d].topic] \in Nat
        BY <1>4, MadeTopic
    <2> QED BY <1>2, <2>1, <2>2
<1> QED BY <1>2, <1>3, <1>4, <1>5

LEMMA SubscribeBeginPosition ==
    ASSUME Inv, MutexInv, ~overlapped, NEW c \in Client, SubscribeBegin(c),
           NEW d \in Client, Is(d, "Unsubscribe"), Rests(d), PositionOK(d)
    PROVE  PositionOK(d)'
<1> SUFFICES ASSUME NEW o, NEW s, NEW new, NEW a, o = Topic(c), s = NewSub,
                    new = NewArray(o), a = call[c].arg
             PROVE  PositionOK(d)'
    OBVIOUS
<1>0. /\ lock = Free /\ lock' = c /\ o \in Made /\ o # Nil /\ Duplicates(o, a) = {}
      /\ s \in Sub \ Allocated /\ s # Nil /\ a \in Subscription
      /\ new \in Capacity /\ new \in Nat /\ length[o] < new /\ array[o] <= new
      /\ array' = [array EXCEPT ![o] = new] /\ length' = [length EXCEPT ![o] = @ + 1]
      /\ cell' = IF new = array[o] THEN cell
                 ELSE [cell EXCEPT ![o][new] =
                        [i \in 1..new |-> IF i <= array[o] THEN cell[o][array[o]][i] ELSE Nil]]
      /\ subscription' = [subscription EXCEPT ![s] = a]
      /\ Moves(c, "store", [call[c] EXCEPT !.sub = s]) /\ UNCHANGED Topics
    BY SubscribeBeginFacts
<1>1. ~Cutting
    BY <1>0, TopicsAssumption DEF Cutting, Inv, HoldInv
<1> SUFFICES ASSUME pc[d] \in {"length", "range", "lock", "cut"}
             PROVE  PositionOK(d)'
    BY DEF PositionOK, Rests
<1>2. pc[d] # "cut"
    BY <1>1 DEF Cutting
<1> SUFFICES ASSUME NEW p, NEW k, NEW j, p = call[d].topic, k = call[d].cap, j = call[d].i
             PROVE  PositionOK(d)'
    OBVIOUS
<1>3. p \in Made /\ k \in Nat /\ j \in Nat /\ j > 0 /\ (pc[d] = "lock" => j <= length[p])
    BY PositionFacts
<1>4. /\ pc'[d] = pc[d] /\ call'[d].topic = p /\ call'[d].cap = k /\ call'[d].i = j
      /\ call'[d].sub = call[d].sub
    BY DEF Rests, SameCall
<1>5. \A i \in 1..array[p] : Slot(p, i)' = Slot(p, i)
    BY <1>0, <1>3, SubscribeBeginSlot
<1>6. /\ p \in Object /\ array[p] \in Nat /\ length[p] \in Nat /\ length[p] <= array[p]
      /\ o \in Object /\ array[o] \in Nat /\ length[o] \in Nat /\ length[o] <= array[o]
    BY <1>0, <1>3, MadeTopic
<1>7. CASE pc[d] = "lock"
    <2>1. Slot(p, j) = call[d].sub
        BY <1>1, <1>7 DEF PositionOK
    <2>2. Slot(p, j)' = Slot(p, j)
        BY <1>3, <1>5, <1>6, <1>7
    <2> QED BY <1>4, <1>7, <2>1, <2>2 DEF PositionOK
<1>8. CASE pc[d] \in {"length", "range"}
    <2>1. /\ k <= array[p] /\ (k < array[p] => k < length[p])
          /\ \A i \in 1..k : cell[p][k][i] # Nil => Slot(p, i) = cell[p][k][i]
        BY <1>1, <1>8 DEF PositionOK
    <2>2. k <= array'[p] /\ (k < array'[p] => k < length'[p])
        <3>1. CASE p # o
            BY <1>0, <1>6, <2>1, <3>1 DEF Inv, TypeOK, TopicType
        <3>2. CASE p = o
            <4>1. array'[p] = new /\ length'[p] = length[p] + 1
                BY <1>0, <1>6, <3>2 DEF Inv, TypeOK, TopicType
            <4>2. new # array[o] => length[o] = array[o]
                BY <1>0, <1>6 DEF NewArray
            <4> QED BY <1>0, <1>3, <1>6, <2>1, <3>2, <4>1, <4>2
        <3> QED BY <3>1, <3>2
    <2>3. cell'[p][k] = cell[p][k]
        BY <1>0, <1>3, <1>6, <2>1 DEF Inv, TypeOK, TopicType
    <2>4. \A i \in 1..k : cell'[p][k][i] # Nil => Slot(p, i)' = cell'[p][k][i]
        BY <1>3, <1>5, <1>6, <2>1, <2>3
    <2> QED BY <1>4, <1>8, <2>2, <2>4 DEF PositionOK
<1> QED BY <1>2, <1>7, <1>8

LEMMA SubscribeEndPosition ==
    ASSUME Inv, MutexInv, SliceInv, ~overlapped, NEW c \in Client, SubscribeEnd(c),
           NEW d \in Client, Is(d, "Unsubscribe"), Rests(d), PositionOK(d)
    PROVE  PositionOK(d)'
<1> SUFFICES ASSUME NEW o, NEW s, o = Topic(c), s = call[c].sub
             PROVE  PositionOK(d)'
    OBVIOUS
<1>0. /\ o \in Made /\ length[o] \in 1..array[o] /\ Slot(o, length[o]) = Nil
      /\ UNCHANGED <<array, length>> /\ pc[c] = "store"
      /\ cell' = [cell EXCEPT ![o][array[o]][length[o]] = s]
      /\ \A i \in 1..array[o] : i # length[o] => Slot(o, i)' = Slot(o, i)
      /\ \A p \in Object \ {o} : \A i : Slot(p, i)' = Slot(p, i)
    BY SubscribeEndSlots
<1>1. ~Cutting
    <2>1. lock = c
        BY <1>0 DEF Inv, HoldInv
    <2> QED BY <1>0, <2>1, Alone DEF Cutting
<1> SUFFICES ASSUME pc[d] \in {"length", "range", "lock", "cut"}
             PROVE  PositionOK(d)'
    BY DEF PositionOK, Rests
<1>2. pc[d] # "cut"
    BY <1>1 DEF Cutting
<1> SUFFICES ASSUME NEW p, NEW k, NEW j, p = call[d].topic, k = call[d].cap, j = call[d].i
             PROVE  PositionOK(d)'
    OBVIOUS
<1>3. /\ p \in Made /\ k \in Nat /\ j \in Nat /\ j > 0 /\ call[d].sub # Nil
      /\ pc[d] = "lock" => j <= length[p]
    BY PositionFacts
<1>4. /\ pc'[d] = pc[d] /\ call'[d].topic = p /\ call'[d].cap = k /\ call'[d].i = j
      /\ call'[d].sub = call[d].sub
    BY DEF Rests, SameCall
<1>6. /\ p \in Object /\ array[p] \in Nat /\ length[p] \in Nat /\ length[p] <= array[p]
      /\ array[p] \in Capacity /\ o \in Object
    BY <1>0, <1>3, MadeTopic
<1>7. CASE pc[d] = "lock"
    <2>1. Slot(p, j) = call[d].sub
        BY <1>1, <1>7 DEF PositionOK
    <2>2. Slot(p, j)' = Slot(p, j)
        BY <1>0, <1>3, <1>6, <1>7, <2>1
    <2> QED BY <1>4, <1>7, <2>1, <2>2 DEF PositionOK
<1>8. CASE pc[d] \in {"length", "range"}
    <2>1. /\ k <= array[p] /\ (k < array[p] => k < length[p])
          /\ \A i \in 1..k : cell[p][k][i] # Nil => Slot(p, i) = cell[p][k][i]
        BY <1>1, <1>8, SMTT(30) DEF PositionOK
    <2>2. CASE k = array[p]
        <3>1. \A i : Slot(p, i)' = cell'[p][k][i]
            BY <1>0, <2>2, SMTT(30) DEF Slot
        <3> QED BY <1>0, <1>4, <1>8, <2>1, <3>1 DEF PositionOK
    <2>3. CASE k # array[p]
        <3>1. cell'[p][k] = cell[p][k]
            BY <1>0, <1>6, <2>3 DEF Inv, TypeOK, TopicType
        <3>2. \A i \in 1..k : Slot(p, i)' = Slot(p, i)
            BY <1>0, <1>3, <1>6, <2>1, <2>3
        <3>3. \A i \in 1..k : cell'[p][k][i] # Nil => Slot(p, i)' = cell'[p][k][i]
            BY <2>1, <3>1, <3>2
        <3>4. array'[p] = array[p] /\ length'[p] = length[p]
            BY <1>0
        <3> QED BY <1>4, <1>8, <2>1, <3>3, <3>4 DEF PositionOK
    <2> QED BY <2>2, <2>3
<1> QED BY <1>2, <1>7, <1>8

\* The Unsubscribe of c takes a step of its own.
LEMMA OwnPosition ==
    ASSUME Inv, Inv', MutexInv, PositionInv, ~overlapped, NEW c \in Client, ~Stop,
           Step(c) \/ (\E h \in Handlers[c], n \in Name : Request(c, h, n)),
           Is(c, "Unsubscribe")', pc'[c] \in {"length", "range", "lock", "cut"}
    PROVE  PositionOK(c)'
<1>0. /\ DOMAIN pc = Client /\ DOMAIN call = Client /\ Typed(call[c], Allocated, Made)
      /\ CallOK(c, pc[c], call[c]) /\ pc[c] \in Places
    BY CurrentCall DEF Inv, TypeOK, ClientType
<1>1. CASE RangeArray(c)
    <2> SUFFICES ASSUME NEW o, o = call[c].topic
                 PROVE  PositionOK(c)'
        OBVIOUS
    <2>1. pc[c] = "array" /\ call[c].handler = "Unsubscribe" /\ UNCHANGED sharedVars
        <3>1. call'[c].handler = call[c].handler \/ pc'[c] = "idle"
            BY <1>0, <1>1 DEF RangeArray, Answer, Goto, Typed
        <3> QED BY <1>1, <3>1 DEF RangeArray, At, Is
    <2>2. /\ call' = [call EXCEPT ![c].topic = o, ![c].cap = array[o], ![c].i = 1]
          /\ pc' = [pc EXCEPT ![c] = "length"]
        BY <1>1, <2>1 DEF RangeArray, Is, Goto
    <2>3. /\ call'[c].topic = o /\ call'[c].cap = array[o] /\ pc'[c] = "length"
          /\ UNCHANGED <<array, length, cell>>
        BY <1>0, <2>1, <2>2 DEF Typed, sharedVars, topicVars
    <2>4. o \in Made
        BY <1>0, <2>1 DEF CallOK, Typed
    <2>5. array[o] \in Nat
        BY <2>4, MadeTopic
    <2> QED BY <2>3, <2>5 DEF PositionOK, Slot
<1>2. CASE RangeLength(c)
    <2>1. /\ call'[c].topic = call[c].topic /\ call'[c].cap = call[c].cap
          /\ call'[c].handler = call[c].handler /\ pc[c] = "length" /\ pc'[c] = "range"
          /\ UNCHANGED <<array, length, cell>> /\ \A d \in Client \ {c} : pc'[d] = pc[d]
        BY <1>0, <1>2 DEF RangeLength, At, Goto, sharedVars, topicVars, Typed
    <2>2. PositionOK(c) /\ (Cutting => Cutting')
        BY <2>1 DEF PositionInv, Is, Cutting
    <2> QED BY <2>1, <2>2 DEF PositionOK, Slot
<1>3. CASE \E s \in Sub : RangeEntry(c, s)
    <2>0. PICK s \in Sub : RangeEntry(c, s)
        BY <1>3, SMTT(30)
    <2>1. /\ pc[c] = "range" /\ UNCHANGED <<array, length, cell>>
          /\ call[c].i \in 1..call[c].cap /\ s = cell[call[c].topic][call[c].cap][call[c].i]
        BY <1>0, <2>0, CapacityType DEF RangeEntry, Reads, At, sharedVars, topicVars, Typed
    <2>2. \/ Goes(c, "lock") \/ Advance(c) \/ Answer(c) \/ \E p : Serve(c, s, p)
        BY <2>0 DEF RangeEntry, PublishEntry, AttributesEntry
    <2>3. pc' = [pc EXCEPT ![c] = pc'[c]]
        BY <1>0, <2>2 DEF Goes, Advance, Answer, Serve, Goto
    <2>4. call'[c].handler = call[c].handler \/ pc'[c] = "idle"
        BY <1>0, <2>2 DEF Goes, Advance, Answer, Serve, Goto, Typed
    <2>5. Is(c, "Unsubscribe") /\ call[c].handler = "Unsubscribe"
        BY <2>4 DEF Is
    <2>6. PositionOK(c) /\ (Cutting => Cutting')
        BY <1>0, <2>1, <2>3, <2>5 DEF PositionInv, Cutting
    <2>7. CASE Goes(c, "lock") /\ s = call[c].sub
        <3>1. pc'[c] = "lock" /\ call'[c] = call[c]
            BY <1>0, <2>7 DEF Goes, Goto
        <3>2. s # Nil
            BY TopicsAssumption
        <3> QED BY <2>1, <2>6, <2>7, <3>1, <3>2 DEF PositionOK, Slot
    <2>8. CASE Advance(c)
        <3>1. /\ pc'[c] = "range" /\ call'[c].topic = call[c].topic
              /\ call'[c].cap = call[c].cap
            BY <1>0, <2>8 DEF Advance, Goto, Typed
        <3> QED BY <2>1, <2>6, <3>1 DEF PositionOK, Slot
    <2> QED BY <2>0, <2>5, <2>7, <2>8 DEF RangeEntry, Is
<1>4. CASE UnsubscribeShift(c)
    <2> SUFFICES ASSUME NEW o, NEW k, o = call[c].topic, k = call[c].i
                 PROVE  PositionOK(c)'
        OBVIOUS
    <2>1. /\ o \in Made /\ k \in 1..length[o] /\ length[o] \in 1..array[o]
          /\ pc[c] = "lock" /\ Is(c, "Unsubscribe") /\ lock = Free
          /\ UNCHANGED <<array, length>> /\ pc'[c] = "cut" /\ SameCall(call[c], call'[c])
          /\ \A i \in 1..array[o] :
                Slot(o, i)' = IF i \in k..(length[o] - 1) THEN Slot(o, i + 1) ELSE Slot(o, i)
        BY <1>4, UnsubscribeShiftSlots
    <2>2. array[o] \in Nat /\ length[o] \in Nat
        BY <2>1, MadeTopic
    <2>3. call'[c].topic = o /\ call'[c].i = k /\ call'[c].sub = call[c].sub
        BY <2>1 DEF SameCall
    <2>4. ~Cutting
        BY <2>1, TopicsAssumption DEF Cutting, Inv, HoldInv
    <2>5. Slot(o, k) = call[c].sub
        BY <2>1, <2>4 DEF PositionInv, PositionOK
    <2> SUFFICES ASSUME NEW n, n = length[o]
                 PROVE  \/ Slot(o, n)' = call[c].sub
                        \/ k < n /\ Slot(o, n)' = Slot(o, n - 1)'
        BY <2>1, <2>3 DEF PositionOK
    <2>6. Slot(o, n)' = Slot(o, n)
        BY <2>1, <2>2
    <2>7. CASE k < n
        BY <2>1, <2>2, <2>6, <2>7
    <2> QED BY <2>1, <2>2, <2>5, <2>6, <2>7
<1>5. CASE \E h \in Handlers[c], n \in Name : Request(c, h, n)
    <2>1. \E h : pc'[c] = FirstPlace(h)
        BY <1>0, <1>5 DEF Request, Goto
    <2> QED BY <2>1, SMTT(30) DEF FirstPlace
<1>6. CASE /\ ~RangeArray(c) /\ ~RangeLength(c) /\ ~(\E s \in Sub : RangeEntry(c, s))
           /\ ~UnsubscribeShift(c) /\ Step(c)
    <2>1. pc'[c] \notin {"length", "range", "cut"} \/ Is(c, "Publish")'
        <3>1. CASE PublishPost(c) \/ PublishQueue(c) \/ PublishAppend(c)
            <4>1. call[c].handler = "Publish"
                BY <1>0, <3>1 DEF PublishPost, PublishQueue, PublishAppend, At, CallOK, Is
            <4>2. call'[c].handler = call[c].handler \/ pc'[c] \in {"idle", "append"}
                BY <1>0, <3>1, SMTT(30) DEF PublishPost, PublishQueue, PublishAppend, Advance, Got, Goes,
                   Answer, Goto, Typed
            <4> QED BY <4>1, <4>2 DEF Is
        <3>2. CASE ~PublishPost(c) /\ ~PublishQueue(c) /\ ~PublishAppend(c)
            BY <1>0, <1>6, <3>2 DEF Step, Check, CreateCheck, UseCheck, WriteBegin, CreateTopic,
               DeleteTopic, TopicsNext, TopicsEnd, RangeEnd, RangeWild, RangeNil, SubscribeBegin,
               SubscribeEnd, SubscribeDuplicate, SubscribePanic, Subscribed, UnsubscribeCut,
               UnsubscribePanic, SetSubscriptionAttributes, IssueToken, PostConfirmation,
               ConfirmSubscription, Answer, Goes, Goto, At
        <3> QED BY <3>1, <3>2
    <2>2. pc'[c] = "lock" => Check(c)
        BY <1>0, <1>6 DEF Step, WriteBegin, CreateTopic, DeleteTopic, TopicsNext, TopicsEnd,
           RangeEnd, RangeWild, RangeNil, SubscribeBegin, SubscribeEnd, SubscribeDuplicate,
           SubscribePanic, Subscribed, UnsubscribeCut, UnsubscribePanic,
           SetSubscriptionAttributes, IssueToken, PostConfirmation, ConfirmSubscription,
           PublishPost, PublishQueue, PublishAppend, Advance, Answer, Goes, Goto, At
    <2>3. Check(c) => call'[c].handler # "Unsubscribe" \/ pc'[c] = "idle"
        <3>1. Check(c) => call'[c].handler = call[c].handler \/ pc'[c] = "idle"
            BY <1>0 DEF Check, CreateCheck, UseCheck, Answer, Goes, Goto
        <3>2. Check(c) => call[c].handler # "Unsubscribe"
            BY <1>0 DEF Check, At, CallOK
        <3> QED BY <3>1, <3>2
    <2> QED BY <2>1, <2>2, <2>3 DEF Is
<1> QED BY <1>1, <1>2, <1>3, <1>4, <1>5, <1>6

LEMMA CutOnly ==
    ASSUME NEW c \in Client, pc[c] = "cut",
           Step(c) \/ (\E h \in Handlers[c], n \in Name : Request(c, h, n))
    PROVE  UnsubscribeCut(c)
BY DEF Step, Request, At, Check, WriteBegin, CreateTopic, DeleteTopic, TopicsNext, TopicsEnd,
   RangeArray, RangeLength, RangeEnd, RangeWild, RangeNil, RangeEntry, Reads, SubscribeBegin,
   SubscribeEnd, SubscribeDuplicate, SubscribePanic, UnsubscribeShift, UnsubscribePanic,
   SetSubscriptionAttributes, IssueToken, PostConfirmation, ConfirmSubscription, PublishPost,
   PublishQueue, PublishAppend

LEMMA OverlappedStays ==
    ASSUME NEW c \in Client,
           Step(c) \/ (\E h \in Handlers[c], n \in Name : Request(c, h, n))
    PROVE  overlapped => overlapped'
BY QuietStep DEF hazardVars, WriteBegin, CreateTopic, DeleteTopic, SubscribeBegin, SubscribeEnd,
   UnsubscribeShift, UnsubscribeCut, SetSubscriptionAttributes

\* Another client takes a step.
LEMMA OtherPosition ==
    ASSUME Inv, MutexInv, SliceInv, PositionInv, ~overlapped', NEW c \in Client, ~Stop,
           Step(c) \/ (\E h \in Handlers[c], n \in Name : Request(c, h, n)),
           NEW d \in Client \ {c}, Is(d, "Unsubscribe")'
    PROVE  PositionOK(d)'
<1>0. /\ \A e \in Client \ {c} : Rests(e)
      /\ ~overlapped
    BY OthersRest, OverlappedStays
<1>1. Rests(d) /\ Is(d, "Unsubscribe") /\ PositionOK(d)
    BY <1>0 DEF Rests, SameCall, Is, PositionInv
<1> SUFFICES ASSUME pc[d] \in {"length", "range", "lock", "cut"}
             PROVE  PositionOK(d)'
    BY <1>1 DEF PositionOK, Rests
<1> SUFFICES ASSUME NEW o, o = call[d].topic
             PROVE  PositionOK(d)'
    OBVIOUS
<1>2. o \in Made
    BY <1>0, <1>1, PositionFacts
<1>3. CASE UnsubscribeCut(c)
    BY <1>1, <1>3 DEF UnsubscribeCut
<1>4. ~UnsubscribeCut(c) => (Cutting => Cutting')
    BY <1>0, CutOnly DEF Cutting, Rests
<1>5. CASE UnsubscribeShift(c)
    <2> SUFFICES ASSUME NEW p, NEW k, p = call[c].topic, k = call[c].i
                 PROVE  PositionOK(d)'
        OBVIOUS
    <2>1. pc'[c] = "cut" /\ lock = Free
        BY <1>5, UnsubscribeShiftSlots
    <2>2. Cutting' /\ pc'[d] # "cut"
        BY <1>1, <2>1, Alone DEF Cutting, Rests
    <2> QED BY <2>2 DEF PositionOK
<1>6. CASE SubscribeBegin(c)
    BY <1>0, <1>1, <1>6, SubscribeBeginPosition
<1>7. CASE SubscribeEnd(c)
    BY <1>0, <1>1, <1>7, SubscribeEndPosition
<1>8. CASE \E p \in Object : CreateTopic(c, p)
    <2>1. array'[o] = array[o] /\ length'[o] = length[o] /\ cell'[o] = cell[o]
        BY <1>2, <1>8 DEF CreateTopic, Made, Inv, TypeOK, TopicType
    <2>2. ~UnsubscribeCut(c)
        BY <1>8 DEF CreateTopic, UnsubscribeCut, At
    <2> QED BY <1>1, <1>4, <2>1, <2>2, RestPosition
<1>9. CASE /\ ~UnsubscribeCut(c)
           /\ \/ UNCHANGED topicVars \/ WriteBegin(c) \/ DeleteTopic(c)
              \/ SetSubscriptionAttributes(c)
    <2>1. UNCHANGED <<array, length, cell>>
        BY <1>9 DEF topicVars, WriteBegin, DeleteTopic, SetSubscriptionAttributes
    <2> QED BY <1>1, <1>4, <1>9, <2>1, RestPosition
<1> QED BY <1>3, <1>5, <1>6, <1>7, <1>8, <1>9, QuietStep

LEMMA PositionStep ==
    Inv /\ Inv' /\ MutexInv /\ SliceInv /\ PositionInv /\ [Next]_vars => PositionInv'
<1> SUFFICES ASSUME Inv, Inv', MutexInv, SliceInv, PositionInv, [Next]_vars,
                    ~overlapped', NEW d \in Client, Is(d, "Unsubscribe")'
             PROVE  PositionOK(d)'
    BY DEF PositionInv
<1>1. CASE Stop
    BY <1>1 DEF Stop, PositionOK
<1>2. ASSUME NEW c \in Client, ~Stop,
             Step(c) \/ (\E h \in Handlers[c], n \in Name : Request(c, h, n))
      PROVE  PositionOK(d)'
    <2>1. CASE d = c
        <3>1. ~overlapped
            BY <1>2, OverlappedStays
        <3>2. CASE pc'[c] \in {"length", "range", "lock", "cut"}
            BY <1>2, <2>1, <3>1, <3>2, OwnPosition
        <3>3. CASE pc'[c] \notin {"length", "range", "lock", "cut"}
            BY <2>1, <3>3 DEF PositionOK
        <3> QED BY <3>2, <3>3
    <2>2. CASE d # c
        BY <1>2, <2>2, OtherPosition
    <2> QED BY <2>1, <2>2
<1>3. ASSUME UNCHANGED <<array, length, cell, pc, overlapped>>, Rests(d)
      PROVE  PositionOK(d)'
    <2>1. PositionOK(d) /\ (Cutting => Cutting')
        BY <1>3 DEF PositionInv, Rests, SameCall, Is, Cutting
    <2> QED BY <1>3, <2>1, RestPosition
<1>4. ASSUME NEW q \in QueueEndpoint, CreateQueue(q) \/ DeleteQueue(q)
      PROVE  PositionOK(d)'
    <2>1. UNCHANGED <<array, length, cell, pc, overlapped>>
        BY <1>4 DEF CreateQueue, DeleteQueue, clientVars, topicVars, hazardVars
    <2>2. Rests(d)
        <3>1. CASE UNCHANGED call
            BY <2>1, <3>1 DEF Rests, SameCall
        <3>2. ASSUME NEW S, call' = Releasing(S, call)
              PROVE  Rests(d)
            <4>1. call'[d] = Released(call[d], S)
                BY <3>2 DEF Releasing, Released
            <4> QED BY <2>1, <4>1, CurrentCall, ReleasedTyped DEF Rests, SameCall
        <3> QED BY <1>4, <3>1, <3>2 DEF CreateQueue, DeleteQueue, clientVars
    <2> QED BY <1>3, <2>1, <2>2
<1>5. CASE UNCHANGED vars
    BY <1>3, <1>5 DEF vars, sharedVars, clientVars, topicVars, hazardVars, Rests, SameCall
<1> QED BY <1>1, <1>2, <1>4, <1>5 DEF Next, Crash

LEMMA PositionInvCorrect == Spec => []PositionInv
<1>1. Init => PositionInv
    BY DEF Init, PositionInv, Is, NoCall
<1> QED BY <1>1, PositionStep, InvCorrect, MutexInvCorrect, SliceInvCorrect, PTL DEF Spec

-----------------------------------------------------------------------------
(* Who makes a subscription leave. *)

LEMMA ListsEntry ==
    ASSUME NEW n, NEW s, Lists(n, s)
    PROVE  Topics[n] # Nil /\ s # Nil /\ \E i \in 1..length[Topics[n]] : Slot(Topics[n], i) = s
BY DEF Lists, Subscribers, Slot

LEMMA ListsNext ==
    ASSUME NEW n, NEW s, s # Nil, NEW o, o # Nil, Topics'[n] = o, NEW i \in 1..length'[o],
           Slot(o, i)' = s
    PROVE  Lists(n, s)'
BY DEF Lists, Subscribers, Slot

Leaver(n, s) ==
    \E c \in Client :
        /\ c \in {lock, lock'}
        /\ \/ Is(c, "Unsubscribe") /\ call[c].sub = s
           \/ Is(c, "DeleteTopic") /\ call[c].name = n

\* The topic keeps its entries.
LEMMA StillListed ==
    ASSUME Inv, NEW n \in Name, NEW s, Lists(n, s), NEW o, o = Topics[n], Topics'[n] = o,
           length[o] <= length'[o], length'[o] \in Nat,
           \A i \in 1..length[o] : Slot(o, i) # Nil => Slot(o, i)' = Slot(o, i)
    PROVE  Lists(n, s)'
<1>1. PICK i \in 1..length[o] : Slot(o, i) = s
    BY ListsEntry
<1>2. o # Nil /\ s # Nil /\ length[o] \in Nat
    BY ListsEntry, TableTopic, MadeTopic
<1>3. i \in 1..length'[o]
    BY <1>2
<1> QED BY <1>1, <1>2, <1>3, ListsNext

LEMMA SubscribeBeginLeaves ==
    ASSUME Inv, NEW c \in Client, SubscribeBegin(c), NEW n \in Name, NEW s, Lists(n, s)
    PROVE  Lists(n, s)'
<1> SUFFICES ASSUME NEW o, NEW t, NEW new, NEW a, o = Topic(c), t = NewSub,
                    new = NewArray(o), a = call[c].arg
             PROVE  Lists(n, s)'
    OBVIOUS
<1>0. /\ lock = Free /\ lock' = c /\ o \in Made /\ o # Nil /\ Duplicates(o, a) = {}
      /\ t \in Sub \ Allocated /\ t # Nil /\ a \in Subscription
      /\ new \in Capacity /\ new \in Nat /\ length[o] < new /\ array[o] <= new
      /\ array' = [array EXCEPT ![o] = new] /\ length' = [length EXCEPT ![o] = @ + 1]
      /\ cell' = IF new = array[o] THEN cell
                 ELSE [cell EXCEPT ![o][new] =
                        [i \in 1..new |-> IF i <= array[o] THEN cell[o][array[o]][i] ELSE Nil]]
      /\ subscription' = [subscription EXCEPT ![t] = a]
      /\ Moves(c, "store", [call[c] EXCEPT !.sub = t]) /\ UNCHANGED Topics
    BY SubscribeBeginFacts
<1> SUFFICES ASSUME NEW p, p = Topics[n]
             PROVE  Lists(n, s)'
    OBVIOUS
<1>1. p \in Made
    BY ListsEntry, TableTopic
<1>2. /\ p \in Object /\ length[p] \in Nat /\ array[p] \in Nat /\ length[p] <= array[p]
    BY <1>1, MadeTopic
<1>3. \A i \in 1..array[p] : Slot(p, i)' = Slot(p, i)
    BY <1>0, <1>1, SubscribeBeginSlot
<1>4. length'[p] \in Nat /\ length[p] <= length'[p]
    BY <1>0, <1>2 DEF Inv, TypeOK, TopicType
<1>5. \A i \in 1..length[p] : Slot(p, i)' = Slot(p, i)
    BY <1>2, <1>3
<1> QED BY <1>0, <1>4, <1>5, StillListed

LEMMA SubscribeEndLeaves ==
    ASSUME Inv, SliceInv, NEW c \in Client, SubscribeEnd(c), NEW n \in Name, NEW s, Lists(n, s)
    PROVE  Lists(n, s)'
<1> SUFFICES ASSUME NEW o, o = Topic(c), NEW p, p = Topics[n]
             PROVE  Lists(n, s)'
    OBVIOUS
<1>0. /\ o \in Made /\ length[o] \in 1..array[o] /\ Slot(o, length[o]) = Nil
      /\ UNCHANGED <<Topics, array, length>>
      /\ \A i \in 1..array[o] : i # length[o] => Slot(o, i)' = Slot(o, i)
      /\ \A q \in Object \ {o} : \A i : Slot(q, i)' = Slot(q, i)
    BY SubscribeEndSlots
<1>1. p \in Made
    BY ListsEntry, TableTopic
<1>2. /\ p \in Object /\ length[p] \in Nat /\ array[p] \in Nat /\ length[p] <= array[p]
    BY <1>1, MadeTopic
<1>3. \A i \in 1..length[p] : Slot(p, i) # Nil => Slot(p, i)' = Slot(p, i)
    BY <1>0, <1>2
<1> QED BY <1>0, <1>2, <1>3, StillListed

\* The removal shifts its own entry away, and no other.
LEMMA UnsubscribeShiftLeaves ==
    ASSUME Inv, MutexInv, PositionInv, ~overlapped, NEW c \in Client, UnsubscribeShift(c),
           NEW n \in Name, NEW s, Lists(n, s), ~Lists(n, s)'
    PROVE  Leaver(n, s)
<1> SUFFICES ASSUME NEW o, NEW k, NEW p, o = call[c].topic, k = call[c].i, p = Topics[n]
             PROVE  Leaver(n, s)
    OBVIOUS
<1>0. /\ o \in Made /\ k \in 1..length[o] /\ length[o] \in 1..array[o]
      /\ pc[c] = "lock" /\ Is(c, "Unsubscribe") /\ lock = Free /\ lock' = c
      /\ UNCHANGED <<Topics, array, length>>
      /\ \A i \in 1..array[o] :
            Slot(o, i)' = IF i \in k..(length[o] - 1) THEN Slot(o, i + 1) ELSE Slot(o, i)
      /\ \A q \in Object \ {o} : \A i : Slot(q, i)' = Slot(q, i)
    BY UnsubscribeShiftSlots
<1>1. ~Cutting
    BY <1>0, TopicsAssumption DEF Cutting, Inv, HoldInv
<1>2. Slot(o, k) = call[c].sub
    BY <1>0, <1>1 DEF PositionInv, PositionOK
<1>3. p \in Made /\ p # Nil /\ s # Nil
    BY ListsEntry, TableTopic
<1>4. /\ p \in Object /\ length[p] \in Nat /\ array[p] \in Nat /\ length[p] <= array[p]
    BY <1>3, MadeTopic
<1>5. PICK i \in 1..length[p] : Slot(p, i) = s
    BY ListsEntry
<1>6. p = o
    BY <1>0, <1>3, <1>4, <1>5, ListsNext
<1>7. CASE i < k
    <2>1. Slot(o, i)' = s /\ i \in 1..length'[o] /\ Topics'[n] = o
        BY <1>0, <1>4, <1>5, <1>6, <1>7
    <2> QED BY <1>3, <1>6, <2>1, ListsNext
<1>8. CASE i = k
    BY <1>0, <1>2, <1>5, <1>6, <1>8 DEF Leaver
<1>9. CASE i > k
    <2>1. i - 1 \in k..(length[o] - 1) /\ i - 1 \in 1..array[o] /\ i - 1 \in 1..length[o]
          /\ (i - 1) + 1 = i
        BY <1>0, <1>4, <1>5, <1>6, <1>9
    <2>2. Slot(o, i - 1)' = s /\ i - 1 \in 1..length'[o] /\ Topics'[n] = o
        BY <1>0, <1>5, <1>6, <2>1
    <2> QED BY <1>3, <1>6, <2>2, ListsNext
<1> QED BY <1>0, <1>4, <1>5, <1>7, <1>8, <1>9

\* The entry that is cut off is that of the removal, or a duplicate.
LEMMA UnsubscribeCutLeaves ==
    ASSUME Inv, PositionInv, ~overlapped, NEW c \in Client, UnsubscribeCut(c),
           NEW n \in Name, NEW s, Lists(n, s), ~Lists(n, s)'
    PROVE  Leaver(n, s)
<1> SUFFICES ASSUME NEW o, NEW p, o = call[c].topic, p = Topics[n]
             PROVE  Leaver(n, s)
    OBVIOUS
<1>0. /\ o \in Made /\ length[o] \in 1..array[o] /\ array[o] \in Nat
      /\ call[c].i \in 1..length[o] /\ pc[c] = "cut" /\ lock = c
      /\ UNCHANGED <<Topics, array>> /\ length' = [length EXCEPT ![o] = @ - 1]
      /\ \A i \in 1..array[o] : i # length[o] => Slot(o, i)' = Slot(o, i)
      /\ \A q \in Object \ {o} : \A i : Slot(q, i)' = Slot(q, i)
    BY UnsubscribeCutSlots
<1>1. Is(c, "Unsubscribe")
    BY <1>0, CurrentCall DEF CallOK, Is
<1>2. \/ Slot(o, length[o]) = call[c].sub
      \/ call[c].i < length[o] /\ Slot(o, length[o]) = Slot(o, length[o] - 1)
    BY <1>0, <1>1 DEF PositionInv, PositionOK
<1>3. p \in Made /\ p # Nil /\ s # Nil
    BY ListsEntry, TableTopic
<1>4. /\ p \in Object /\ length[p] \in Nat /\ array[p] \in Nat /\ length[p] <= array[p]
      /\ o \in Object /\ length[o] \in Nat /\ length[o] <= array[o]
    BY <1>0, <1>3, MadeTopic
<1>5. PICK i \in 1..length[p] : Slot(p, i) = s
    BY ListsEntry
<1>6. p = o
    <2>1. ASSUME p # o PROVE FALSE
        <3>1. length'[p] = length[p] /\ Slot(p, i)' = s /\ Topics'[n] = p
            BY <1>0, <1>4, <1>5, <2>1 DEF Inv, TypeOK, TopicType
        <3> QED BY <1>3, <1>5, <3>1, ListsNext
    <2> QED BY <2>1
<1>7. length'[o] = length[o] - 1
    BY <1>0, <1>4 DEF Inv, TypeOK, TopicType
<1>8. \A j \in 1..(length[o] - 1) : Slot(o, j) # s
    <2>1. ASSUME NEW j \in 1..(length[o] - 1), Slot(o, j) = s PROVE FALSE
        <3>1. j \in 1..array[o] /\ j # length[o] /\ j \in 1..length'[o]
            BY <1>0, <1>4, <1>7, <2>1
        <3>2. Slot(o, j)' = s /\ Topics'[n] = o
            BY <1>0, <1>6, <2>1, <3>1
        <3> QED BY <1>3, <1>6, <3>1, <3>2, ListsNext
    <2> QED BY <2>1
<1>9. i = length[o]
    BY <1>0, <1>4, <1>5, <1>6, <1>8
<1>10. CASE Slot(o, length[o]) = call[c].sub
    BY <1>0, <1>1, <1>5, <1>6, <1>9, <1>10 DEF Leaver
<1>11. CASE call[c].i < length[o] /\ Slot(o, length[o]) = Slot(o, length[o] - 1)
    <2>1. length[o] - 1 \in 1..(length[o] - 1)
        BY <1>0, <1>4, <1>11
    <2> QED BY <1>5, <1>6, <1>8, <1>9, <1>11, <2>1
<1> QED BY <1>2, <1>10, <1>11

LEMMA LeavesStep ==
    ASSUME Inv, MutexInv, SliceInv, PositionInv, CreateInv, [Next]_vars, ~overlapped,
           NEW n \in Name, NEW s \in Sub, Lists(n, s), ~Lists(n, s)'
    PROVE  Leaver(n, s)
<1>1. ~UNCHANGED <<Topics, array, length, cell>>
    BY DEF Lists, Subscribers, Slot
<1>2. PICK c \in Client : Step(c) \/ (\E h \in Handlers[c], m \in Name : Request(c, h, m))
    BY <1>1 DEF Next, CreateQueue, DeleteQueue, Crash, topicVars, vars, sharedVars
<1>3. \/ \E o \in Object : CreateTopic(c, o)
      \/ DeleteTopic(c) \/ SubscribeBegin(c) \/ SubscribeEnd(c) \/ UnsubscribeShift(c)
      \/ UnsubscribeCut(c)
    BY <1>1, <1>2, QuietStep DEF topicVars, WriteBegin, SetSubscriptionAttributes
<1>4. ASSUME NEW o \in Object, CreateTopic(c, o) PROVE FALSE
    <2>1. /\ pc[c] = "write" /\ Is(c, "CreateTopic") /\ array[o] = Nil
          /\ Topics' = [Topics EXCEPT ![call[c].name] = o] /\ UNCHANGED <<length, cell>>
          /\ array' = [array EXCEPT ![o] = 0]
        BY <1>4 DEF CreateTopic, At
    <2>2. Topics[call[c].name] = Nil
        BY <2>1 DEF CreateInv, Topic
    <2>3. Topics[n] \in Made /\ Topics[n] # Nil
        BY ListsEntry, TableTopic
    <2>4. n # call[c].name /\ Topics[n] # o
        BY <2>1, <2>2, <2>3 DEF Made
    <2>5. Topics'[n] = Topics[n] /\ array'[Topics[n]] = array[Topics[n]]
        BY <2>1, <2>3, <2>4 DEF Made, Inv, TypeOK, TopicType
    <2> QED BY <2>1, <2>5 DEF Lists, Subscribers, Slot
<1>5. CASE DeleteTopic(c)
    <2>1. /\ lock = c /\ Is(c, "DeleteTopic")
          /\ Topics' = [Topics EXCEPT ![call[c].name] = Nil] /\ UNCHANGED <<array, length, cell>>
        BY <1>5 DEF DeleteTopic, At, Inv, HoldInv
    <2>2. call[c].name = n
        <3>1. ASSUME call[c].name # n PROVE Topics'[n] = Topics[n]
            BY <2>1, <3>1 DEF Inv, TypeOK, TopicType
        <3> QED BY <2>1, <3>1 DEF Lists, Subscribers, Slot
    <2> QED BY <2>1, <2>2 DEF Leaver
<1> QED BY <1>3, <1>4, <1>5, SubscribeBeginLeaves, SubscribeEndLeaves, UnsubscribeShiftLeaves,
           UnsubscribeCutLeaves

\* With one client that creates topics, and until an Unsubscribe meets the removal of
\* another, a subscription leaves its topic only by a request that names it or the topic.
THEOREM LeavesByNameCorrect == OneCreator /\ Spec => LeavesByName
<1>1. CASE OneCreator
    <2>1. Inv /\ MutexInv /\ SliceInv /\ PositionInv /\ CreateInv /\ [Next]_vars =>
            [\A n \in Name, s \in Sub : Lists(n, s) /\ ~Lists(n, s)' /\ ~overlapped =>
                \E c \in Client :
                    /\ c \in {lock, lock'}
                    /\ \/ Is(c, "Unsubscribe") /\ call[c].sub = s
                       \/ Is(c, "DeleteTopic") /\ call[c].name = n]_vars
        BY LeavesStep DEF Leaver
    <2> QED BY <1>1, <2>1, InvCorrect, MutexInvCorrect, SliceInvCorrect, PositionInvCorrect,
               CreateInvCorrect, PTL DEF Spec, LeavesByName
<1> QED BY <1>1
=============================================================================
