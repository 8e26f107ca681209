------------------------- MODULE TopicsPublishProofs -------------------------
(***************************************************************************)
(* Proof that Publish serves what it owes exactly once, for any clients,   *)
(* names, queues and requests.                                             *)
(***************************************************************************)
EXTENDS TopicsProofs

\* The last entry of o waits to be cut off.
Cuts(o) == \E d \in Client : pc[d] = "cut" /\ call[d].topic = o

\* Subscription s is in the slice of o at j, to stay there, and in the array of o with
\* capacity k at j and nowhere else.
Placed(o, k, s, j) ==
    /\ o \in Made /\ k <= array[o] /\ j \in 1..k /\ j <= length[o] /\ Slot(o, j) = s
    /\ Cuts(o) => j < length[o]
    /\ \A i \in 1..k : cell[o][k][i] = s <=> i = j

\* The message is for s: the two cases of Due.
Invited(s, attributes) ==
    /\ s \in Allocated
    /\ \/ subscription[s].endpoint \in HttpEndpoint
       \/ /\ subscription[s].endpoint \in Queues
          /\ IsSatisfiedBy(subscription[s].policy, attributes)

\* Publish has the header of the slice, or its array.
Walking == {"length", "range", "post", "queue", "append"}

\* At place p, call r has served the entry s at j if and only if it has passed it, and
\* has yet to reach it otherwise.
Served(p, r, s, j) ==
    /\ r.got[s] = IF j < r.i THEN 1 ELSE 0
    /\ p # "length" => j <= r.len
    /\ p \in {"post", "queue", "append"} => (r.sub = s <=> j = r.i)

\* What is true of a subscription that the Publish of c owes its message.
OweOK(c, s) ==
    /\ Invited(s, call[c].arg.attributes)
    /\ \E j \in 1..call[c].cap :
        Placed(call[c].topic, call[c].cap, s, j) /\ Served(pc[c], call[c], s, j)
    /\ pc[c] \in {"queue", "append"} /\ call[c].sub = s =>
            subscription[s].endpoint \notin HttpEndpoint

Owes(c) ==
    Is(c, "Publish") =>
        /\ pc[c] \in {"check", "array"} => call[c].due = {} /\ \A s \in Sub : call[c].got[s] = 0
        /\ \A s \in call[c].due : OweOK(c, s)

OweInv == \A c \in Client : Owes(c)

\* No slice begins to be cut.
NoNewCut == \A o : Cuts(o)' => Cuts(o)

-----------------------------------------------------------------------------
(* The Publish of d rests while others change topics. *)

\* What is true of s stays so as long as s is invited and in its place.
LEMMA RestOwe ==
    ASSUME NEW d \in Client, NEW s, OweOK(d, s), Rests(d),
           NEW a, a = call[d].arg.attributes, Invited(s, a)',
           subscription'[s].endpoint = subscription[s].endpoint,
           NEW o, o = call[d].topic, NEW k, k = call[d].cap,
           \A j : Placed(o, k, s, j) => Placed(o, k, s, j)'
    PROVE  OweOK(d, s)'
<1>1. /\ pc'[d] = pc[d] /\ call'[d].got = call[d].got
      /\ call'[d].topic = o /\ call'[d].cap = k /\ call'[d].arg.attributes = a
      /\ call'[d].i = call[d].i /\ call'[d].len = call[d].len /\ call'[d].sub = call[d].sub
    BY DEF Rests, SameCall
<1>2. Invited(s, call[d].arg.attributes)'
    BY <1>1 DEF Invited
<1>3. PICK j \in 1..k : Placed(o, k, s, j) /\ Served(pc[d], call[d], s, j)
    BY DEF OweOK
<1>4. Placed(o, k, s, j)' /\ Served(pc[d], call[d], s, j)'
    BY <1>1, <1>3, SMTT(30) DEF Served
<1>5. Placed(call[d].topic, call[d].cap, s, j)'
    BY <1>1, <1>4 DEF Placed, Slot, Cuts
<1> QED BY <1>1, <1>2, <1>3, <1>4, <1>5 DEF OweOK

LEMMA CutsNext ==
    ASSUME Inv, NEW c \in Client, ~Stop, ~UnsubscribeShift(c),
           Step(c) \/ (\E h \in Handlers[c], n \in Name : Request(c, h, n))
    PROVE  NoNewCut
<1>1. \A d \in Client \ {c} : pc'[d] = "cut" => pc[d] = "cut" /\ call'[d].topic = call[d].topic
    BY OthersRest DEF Rests, SameCall
<1>2. DOMAIN pc = Client
    BY DEF Inv, TypeOK, ClientType
<1>3. CASE \E h \in Handlers[c], n \in Name : Request(c, h, n)
    <2>1. \E h : pc'[c] = FirstPlace(h)
        BY <1>2, <1>3 DEF Request, Goto
    <2> QED BY <1>1, <2>1, SMTT(30) DEF Cuts, NoNewCut, FirstPlace
<1>4. CASE Step(c)
    <2>1. pc'[c] # "cut"
        BY <1>2, <1>4 DEF Step, Check, CreateCheck, UseCheck, WriteBegin, CreateTopic,
           DeleteTopic, TopicsNext, TopicsEnd, RangeArray, RangeLength, RangeEnd, RangeWild,
           RangeNil, RangeEntry, PublishEntry, AttributesEntry, Serve, Advance, SubscribeBegin,
           SubscribeEnd, SubscribeDuplicate, SubscribePanic, Subscribed, UnsubscribeCut,
           UnsubscribePanic, SetSubscriptionAttributes, IssueToken, PostConfirmation,
           ConfirmSubscription, PublishPost, PublishQueue, PublishAppend, Answer, Goes, Goto, At
    <2> QED BY <1>1, <2>1, SMTT(30) DEF Cuts, NoNewCut
<1> QED BY <1>3, <1>4

\* The slices and arrays stay.
LEMMA PlacedSame ==
    ASSUME UNCHANGED <<array, length, cell>>, NoNewCut
    PROVE  \A o, k, s, j : Placed(o, k, s, j) => Placed(o, k, s, j)'
BY DEF Placed, Made, Slot, NoNewCut

\* A new topic is not one that is iterated over.
LEMMA CreateTopicPlaced ==
    ASSUME Inv, NEW c \in Client, NEW p \in Object, CreateTopic(c, p), NoNewCut,
           NEW o, NEW k, NEW s, NEW j, Placed(o, k, s, j)
    PROVE  Placed(o, k, s, j)'
<1>1. /\ array[p] = Nil /\ UNCHANGED <<length, cell>>
      /\ array' = [array EXCEPT ![p] = 0] /\ DOMAIN array = Object
    BY DEF CreateTopic, Inv, TypeOK, TopicType
<1>2. o # p /\ array'[o] = array[o] /\ o \in Object
    BY <1>1 DEF Placed, Made
<1> QED BY <1>1, <1>2 DEF Placed, Made, Slot, NoNewCut

\* append leaves the array it copies.
LEMMA SubscribeBeginPlaced ==
    ASSUME Inv, NEW c \in Client, SubscribeBegin(c), NoNewCut, NEW o, NEW k, NEW s, NEW j,
           k \in Nat, Placed(o, k, s, j)
    PROVE  Placed(o, k, s, j)'
<1> SUFFICES ASSUME NEW p, NEW t, NEW new, NEW a, p = Topic(c), t = NewSub,
                    new = NewArray(p), a = call[c].arg
             PROVE  Placed(o, k, s, j)'
    OBVIOUS
<1>0. /\ lock = Free /\ lock' = c /\ p \in Made /\ p # Nil /\ Duplicates(p, a) = {}
      /\ t \in Sub \ Allocated /\ t # Nil /\ a \in Subscription
      /\ new \in Capacity /\ new \in Nat /\ length[p] < new /\ array[p] <= new
      /\ array' = [array EXCEPT ![p] = new] /\ length' = [length EXCEPT ![p] = @ + 1]
      /\ cell' = IF new = array[p] THEN cell
                 ELSE [cell EXCEPT ![p][new] =
                        [i \in 1..new |-> IF i <= array[p] THEN cell[p][array[p]][i] ELSE Nil]]
      /\ subscription' = [subscription EXCEPT ![t] = a]
      /\ Moves(c, "store", [call[c] EXCEPT !.sub = t]) /\ UNCHANGED Topics
    BY SubscribeBeginFacts
<1>1. /\ o \in Object /\ array[o] \in Nat /\ length[o] \in Nat /\ k <= array[o] /\ o \in Made
      /\ p \in Object /\ array[p] \in Nat /\ length[p] \in Nat /\ j \in Nat /\ j \in 1..array[o]
    BY <1>0, MadeTopic DEF Placed
<1>2. cell'[o][k] = cell[o][k]
    BY <1>0, <1>1 DEF Inv, TypeOK, TopicType
<1>3. o \in Made' /\ k <= array'[o] /\ length'[o] \in {length[o], length[o] + 1}
    <2>1. CASE o = p
        <3>1. array'[o] = new /\ length'[o] = length[o] + 1
            BY <1>0, <1>1, <2>1 DEF Inv, TypeOK, TopicType
        <3> QED BY <1>0, <1>1, <2>1, <3>1, TopicsAssumption DEF Made
    <2>2. CASE o # p
        BY <1>0, <1>1, <2>2 DEF Made, Inv, TypeOK, TopicType
    <2> QED BY <2>1, <2>2
<1>4. Slot(o, j)' = Slot(o, j)
    BY <1>0, <1>1, SubscribeBeginSlot
<1>5. j <= length'[o] /\ (Cuts(o)' => j < length'[o])
    BY <1>1, <1>3 DEF Placed, NoNewCut
<1>6. /\ Slot(o, j) = s /\ j \in 1..k
      /\ \A i \in 1..k : cell[o][k][i] = s <=> i = j
    BY DEF Placed
<1> QED BY <1>2, <1>3, <1>4, <1>5, <1>6 DEF Placed

\* The entry that is stored is new, and its place was empty.
LEMMA SubscribeEndPlaced ==
    ASSUME Inv, SliceInv, NEW c \in Client, SubscribeEnd(c), NoNewCut, NEW o, NEW k, NEW s, NEW j,
           k \in Nat, s # Nil, Placed(o, k, s, j)
    PROVE  Placed(o, k, s, j)'
<1> SUFFICES ASSUME NEW p, NEW t, p = Topic(c), t = call[c].sub
             PROVE  Placed(o, k, s, j)'
    OBVIOUS
<1>0. /\ p \in Made /\ length[p] \in 1..array[p] /\ Slot(p, length[p]) = Nil
      /\ UNCHANGED <<array, length>> /\ pc[c] = "store"
      /\ cell' = [cell EXCEPT ![p][array[p]][length[p]] = t]
      /\ \A i \in 1..array[p] : i # length[p] => Slot(p, i)' = Slot(p, i)
      /\ \A q \in Object \ {p} : \A i : Slot(q, i)' = Slot(q, i)
    BY SubscribeEndSlots
<1>1. /\ o \in Object /\ array[o] \in Nat /\ length[o] \in Nat /\ k <= array[o]
      /\ p \in Object /\ array[p] \in Capacity /\ j \in 1..k /\ j <= length[o]
      /\ Slot(o, j) = s /\ \A i \in 1..k : cell[o][k][i] = s <=> i = j
    BY <1>0, MadeTopic DEF Placed
<1>2. Slot(o, j)' = s
    BY <1>0, <1>1
<1>3. CASE o # p \/ k # array[p]
    <2>1. cell'[o][k] = cell[o][k]
        BY <1>0, <1>1, <1>3 DEF Inv, TypeOK, TopicType
    <2> QED BY <1>0, <1>2, <2>1 DEF Placed, Made, NoNewCut
<1>4. CASE o = p /\ k = array[p]
    <2>1. \A i : Slot(o, i) = cell[o][k][i] /\ Slot(o, i)' = cell'[o][k][i]
        BY <1>0, <1>4 DEF Slot
    <2>2. j # length[o] /\ length[o] \in 1..k /\ Slot(o, length[o]) = Nil
        BY <1>0, <1>1, <1>4
    <2>3. s # t
        <3>1. \A i \in 1..(length[p] - 1) :
                    Address(subscription[Slot(p, i)]) # Address(subscription[t])
            BY <1>0 DEF SliceInv, StoreOK
        <3>2. j \in 1..(length[p] - 1)
            BY <1>1, <1>4, <2>2
        <3> QED BY <1>1, <1>4, <3>1, <3>2
    <2>4. ASSUME NEW i \in 1..k PROVE cell'[o][k][i] = s <=> i = j
        <3>1. CASE i = length[o]
            <4>1. cell'[o][k][i] = t
                BY <1>0, <1>1, <1>4, <3>1 DEF Inv, TypeOK, TopicType
            <4> QED BY <2>2, <2>3, <3>1, <4>1
        <3>2. CASE i # length[o]
            BY <1>0, <1>1, <1>4, <2>1, <3>2
        <3> QED BY <3>1, <3>2
    <2> QED BY <1>0, <1>1, <1>2, <2>4 DEF Placed, Made, NoNewCut
<1> QED BY <1>3, <1>4

\* A removal leaves the entries before its position where they are.
LEMMA UnsubscribeShiftPlaced ==
    ASSUME Inv, NEW c \in Client, UnsubscribeShift(c), NEW o, NEW k, NEW s, NEW j,
           k \in Nat, Placed(o, k, s, j), s \notin Moved(call[c].topic, call[c].i)
    PROVE  Placed(o, k, s, j)'
<1> SUFFICES ASSUME NEW p, NEW m, p = call[c].topic, m = call[c].i
             PROVE  Placed(o, k, s, j)'
    OBVIOUS
<1>0. /\ p \in Made /\ m \in 1..length[p] /\ length[p] \in 1..array[p]
      /\ lock = Free /\ UNCHANGED <<Topics, array, length>> /\ SameCall(call[c], call'[c])
      /\ \A i \in 1..array[p] :
            Slot(p, i)' = IF i \in m..(length[p] - 1) THEN Slot(p, i + 1) ELSE Slot(p, i)
      /\ \A q \in Object \ {p} : \A i : Slot(q, i)' = Slot(q, i)
      /\ pc' = [pc EXCEPT ![c] = "cut"]
      /\ cell' = [cell EXCEPT ![p][array[p]] = Shifted(p, m)]
    BY UnsubscribeShiftSlots, ZenonT(30) DEF UnsubscribeShift, Goto
<1>1. /\ o \in Object /\ o \in Made /\ array[o] \in Nat /\ length[o] \in Nat /\ k <= array[o]
      /\ p \in Object /\ array[p] \in Capacity /\ array[p] \in Nat /\ length[p] \in Nat
      /\ j \in 1..k /\ j <= length[o] /\ Slot(o, j) = s
      /\ \A i \in 1..k : cell[o][k][i] = s <=> i = j
    BY <1>0, MadeTopic DEF Placed
<1>2. o = p => j < m /\ j < length[o]
    <2>1. ASSUME o = p PROVE j \notin m..length[p]
        BY <1>1, <2>1 DEF Moved, Slot
    <2> QED BY <1>0, <1>1, <2>1
<1>3. Cuts(o)' => j < length[o]
    <2>1. \A d \in Client \ {c} : pc'[d] # "cut"
        BY <1>0, Alone DEF Inv, TypeOK, ClientType
    <2>2. call'[c].topic = p
        BY <1>0 DEF SameCall
    <2> QED BY <1>2, <2>1, <2>2 DEF Cuts
<1>4. Slot(o, j)' = s
    BY <1>0, <1>1, <1>2
<1>5. CASE o # p \/ k # array[p]
    <2>1. cell'[o][k] = cell[o][k]
        BY <1>0, <1>1, <1>5, SMTT(30) DEF Inv, TypeOK, TopicType
    <2> QED BY <1>0, <1>1, <1>3, <1>4, <2>1 DEF Placed, Made
<1>6. CASE o = p /\ k = array[p]
    <2>1. \A i : Slot(o, i) = cell[o][k][i] /\ Slot(o, i)' = cell'[o][k][i]
        BY <1>0, <1>6 DEF Slot
    <2>2. ASSUME NEW i \in 1..k PROVE cell'[o][k][i] = s <=> i = j
        <3>1. CASE i \in m..(length[p] - 1)
            <4>1. i + 1 \in 1..k /\ i + 1 # j /\ i # j
                BY <1>0, <1>1, <1>2, <1>6, <3>1, SMTT(30)
            <4> QED BY <1>0, <1>1, <1>6, <2>1, <3>1, <4>1
        <3>2. CASE i \notin m..(length[p] - 1)
            BY <1>0, <1>1, <1>6, <2>1, <3>2
        <3> QED BY <3>1, <3>2, SMTT(30)
    <2> QED BY <1>0, <1>1, <1>3, <1>4, <2>2, SMTT(30) DEF Placed, Made
<1> QED BY <1>5, <1>6

\* The entry that is cut off is not one that stays.
LEMMA UnsubscribeCutPlaced ==
    ASSUME Inv, NEW c \in Client, UnsubscribeCut(c), NEW o, NEW k, NEW s, NEW j,
           k \in Nat, s # Nil, Placed(o, k, s, j)
    PROVE  Placed(o, k, s, j)'
<1> SUFFICES ASSUME NEW p, p = call[c].topic
             PROVE  Placed(o, k, s, j)'
    BY SMTT(30)
<1>0. /\ p \in Made /\ length[p] \in 1..array[p] /\ array[p] \in Nat /\ pc[c] = "cut" /\ lock = c
      /\ UNCHANGED array /\ length' = [length EXCEPT ![p] = @ - 1]
      /\ \A i \in 1..array[p] : i # length[p] => Slot(p, i)' = Slot(p, i)
      /\ \A q \in Object \ {p} : \A i : Slot(q, i)' = Slot(q, i)
      /\ Answer(c)
      /\ cell' = [cell EXCEPT ![p][array[p]][length[p]] = Nil]
    BY UnsubscribeCutSlots DEF UnsubscribeCut
<1>1. /\ o \in Object /\ o \in Made /\ array[o] \in Nat /\ length[o] \in Nat /\ k <= array[o]
      /\ p \in Object /\ array[p] \in Capacity /\ length[p] \in Nat
      /\ j \in 1..k /\ j <= length[o] /\ Slot(o, j) = s
      /\ \A i \in 1..k : cell[o][k][i] = s <=> i = j
    BY <1>0, MadeTopic DEF Placed
<1>2. o = p => j < length[o]
    BY <1>0 DEF Placed, Cuts
<1>3. ~Cuts(o)'
    <2>1. \A d \in Client : pc'[d] # "cut"
        BY <1>0, Alone DEF Answer, Goto, Inv, TypeOK, ClientType
    <2> QED BY <2>1 DEF Cuts
<1>4. Slot(o, j)' = s /\ j <= length'[o]
    <2>1. CASE o = p
        <3>1. length'[o] = length[o] - 1
            BY <1>0, <1>1, <2>1 DEF Inv, TypeOK, TopicType
        <3> QED BY <1>0, <1>1, <1>2, <2>1, <3>1
    <2>2. CASE o # p
        BY <1>0, <1>1, <2>2, SMTT(30) DEF Inv, TypeOK, TopicType
    <2> QED BY <2>1, <2>2
<1>5. CASE o # p \/ k # array[p]
    <2>1. cell'[o][k] = cell[o][k]
        BY <1>0, <1>1, <1>5, SMTT(30) DEF Inv, TypeOK, TopicType
    <2> QED BY <1>0, <1>1, <1>3, <1>4, <2>1 DEF Placed, Made
<1>6. CASE o = p /\ k = array[p]
    <2>1. \A i : Slot(o, i) = cell[o][k][i] /\ Slot(o, i)' = cell'[o][k][i]
        BY <1>0, <1>6, SMTT(30) DEF Slot
    <2>2. cell'[o][k][length[o]] = Nil
        BY <1>0, <1>1, <1>6 DEF Inv, TypeOK, TopicType
    <2>3. ASSUME NEW i \in 1..k PROVE cell'[o][k][i] = s <=> i = j
        <3>1. cell[o][k][i] = s <=> i = j
            BY <1>1, SMTT(30)
        <3>2. CASE i = length[o]
            BY <1>0, <1>2, <1>6, <2>2, <3>2
        <3>3. CASE i # length[o]
            <4>1. Slot(o, i)' = Slot(o, i)
                BY <1>0, <1>1, <1>6, <3>3
            <4> QED BY <2>1, <3>1, <4>1, SMTT(30)
        <3> QED BY <3>2, <3>3
    <2> QED BY <1>0, <1>1, <1>3, <1>4, <2>3, SMTT(30) DEF Placed, Made
<1> QED BY <1>5, <1>6

\* The message stays for s.
LEMMA InvitedSame ==
    ASSUME NEW s, NEW a, Invited(s, a), Queues \subseteq Queues',
           subscription'[s] # Nil, subscription'[s].endpoint = subscription[s].endpoint,
           subscription'[s].policy = subscription[s].policy
    PROVE  Invited(s, a)'
BY DEF Invited, Allocated

\* A subscription whose filter is set is released.
LEMMA SetAttributesInvited ==
    ASSUME Inv, NEW c \in Client, SetSubscriptionAttributes(c), NEW d \in Client \ {c},
           NEW s \in call'[d].due, NEW a, Invited(s, a)
    PROVE  Invited(s, a)' /\ subscription'[s].endpoint = subscription[s].endpoint
<1> DEFINE t == call[c].sub
<1>1. /\ s \in Allocated /\ s \in Sub /\ subscription[s] \in Subscription /\ UNCHANGED Queues
      /\ DOMAIN subscription = Sub
    BY DEF Invited, Allocated, SetSubscriptionAttributes, Inv, TypeOK, TopicType
<1>2. CASE subscription' = [subscription EXCEPT ![t].raw = call[c].arg.raw]
    <2>1. /\ subscription'[s].endpoint = subscription[s].endpoint
          /\ subscription'[s].policy = subscription[s].policy
        BY <1>1, <1>2 DEF Subscription
    <2>2. subscription'[s] # Nil
        <3>1. s # t => subscription'[s] = subscription[s]
            BY <1>1, <1>2
        <3>2. s = t => subscription'[s] \in Subscription
            <4>1. call[c].arg.raw \in BOOLEAN
                BY CurrentCall, TopicsAssumption
                DEF SetSubscriptionAttributes, At, Is, Typed, Argument
            <4> QED BY <1>1, <1>2, <4>1 DEF Subscription
        <3> QED BY <1>1, <3>1, <3>2, TopicsAssumption DEF Allocated
    <2> QED BY <1>1, <2>1, <2>2, InvitedSame
<1>3. CASE /\ subscription' = [subscription EXCEPT ![t].policy = call[c].arg.policy]
           /\ call' = Releasing({t}, [call EXCEPT ![c] = NoCall])
    <2>1. call'[d] = Released(call[d], {t})
        BY <1>3 DEF Releasing, Released, Inv, TypeOK, ClientType
    <2>2. s # t
        BY <2>1, CurrentCall, ReleasedTyped
    <2>3. subscription'[s] = subscription[s]
        BY <1>1, <1>3, <2>2
    <2> QED BY <1>1, <2>3, InvitedSame DEF Allocated
<1> QED BY <1>2, <1>3 DEF SetSubscriptionAttributes

\* A Publish is released from the entries that a removal moves.
LEMMA ShiftReleases ==
    ASSUME Inv, NEW c \in Client, UnsubscribeShift(c), NEW d \in Client \ {c}
    PROVE  \A s \in call'[d].due : s \notin Moved(call[c].topic, call[c].i)
<1> DEFINE S == Moved(call[c].topic, call[c].i)
<1>1. call' = Releasing(S, call)
    BY DEF UnsubscribeShift
<1> HIDE DEF S
<1>2. call'[d] = Released(call[d], S)
    BY <1>1 DEF Releasing, Released
<1> QED BY <1>2, CurrentCall, ReleasedTyped DEF S

LEMMA OthersOwe ==
    ASSUME Inv, SliceInv, NEW c \in Client, ~Stop,
           Step(c) \/ (\E h \in Handlers[c], n \in Name : Request(c, h, n)),
           NEW d \in Client \ {c}, Owes(d)
    PROVE  Owes(d)'
<1>0. Rests(d)
    BY OthersRest
<1> SUFFICES ASSUME NEW s \in call'[d].due, Is(d, "Publish") PROVE OweOK(d, s)'
    BY <1>0 DEF Owes, Rests, SameCall, Is
<1>1. s \in call[d].due /\ OweOK(d, s) /\ Is(d, "Publish")
    BY <1>0 DEF Owes, Rests, SameCall
<1> SUFFICES ASSUME NEW a, NEW o, NEW k, a = call[d].arg.attributes, o = call[d].topic,
                    k = call[d].cap
             PROVE  OweOK(d, s)'
    OBVIOUS
<1>2. /\ Invited(s, a) /\ s \in Allocated /\ s # Nil /\ k \in Nat
    <2>1. Invited(s, a) /\ s \in Allocated
        BY <1>1 DEF OweOK, Invited
    <2>2. k \in Nat
        BY CurrentCall, CapacityType DEF Typed
    <2> QED BY <2>1, <2>2, TopicsAssumption DEF Allocated
<1>3. ~UnsubscribeShift(c) => NoNewCut
    BY CutsNext
<1>4. UNCHANGED <<subscription, Queues>> =>
        Invited(s, a)' /\ subscription'[s].endpoint = subscription[s].endpoint
    BY <1>2, InvitedSame DEF Allocated
<1>5. /\ Invited(s, a)' /\ subscription'[s].endpoint = subscription[s].endpoint
      /\ \A j : Placed(o, k, s, j) => Placed(o, k, s, j)'
    <2>1. CASE UNCHANGED <<array, length, cell, subscription, Queues>> /\ ~UnsubscribeShift(c)
        BY <1>3, <1>4, <2>1, PlacedSame
    <2>2. CASE \E p \in Object : CreateTopic(c, p)
        <3>1. UNCHANGED <<subscription, Queues>> /\ ~UnsubscribeShift(c)
            BY <2>2 DEF CreateTopic, UnsubscribeShift, At
        <3> QED BY <1>3, <1>4, <2>2, <3>1, CreateTopicPlaced
    <2>3. CASE SubscribeBegin(c)
        <3>1. subscription'[s] = subscription[s] /\ UNCHANGED Queues
            <4>1. /\ NewSub \notin Allocated /\ UNCHANGED Queues
                  /\ subscription' = [subscription EXCEPT ![NewSub] = call[c].arg]
                BY <2>3, SubscribeBeginFacts
            <4> QED BY <1>2, <4>1 DEF Allocated, Inv, TypeOK, TopicType
        <3>2. Invited(s, a)'
            BY <1>2, <3>1, InvitedSame DEF Allocated
        <3>3. ~UnsubscribeShift(c)
            BY <2>3, SubscribeBeginFacts DEF UnsubscribeShift, Is
        <3> QED BY <1>2, <1>3, <2>3, <3>1, <3>2, <3>3, SubscribeBeginPlaced
    <2>4. CASE SubscribeEnd(c)
        <3>1. UNCHANGED <<subscription, Queues>> /\ ~UnsubscribeShift(c)
            BY <2>4 DEF SubscribeEnd, UnsubscribeShift, At
        <3> QED BY <1>2, <1>3, <1>4, <2>4, <3>1, SubscribeEndPlaced
    <2>5. CASE SetSubscriptionAttributes(c)
        <3>1. UNCHANGED <<array, length, cell>> /\ ~UnsubscribeShift(c)
            BY <2>5 DEF SetSubscriptionAttributes, UnsubscribeShift, Is
        <3> QED BY <1>2, <1>3, <2>5, <3>1, SetAttributesInvited, PlacedSame
    <2>6. CASE UnsubscribeShift(c)
        <3>1. UNCHANGED <<subscription, Queues>>
            BY <2>6 DEF UnsubscribeShift
        <3>2. s \notin Moved(call[c].topic, call[c].i)
            BY <2>6, ShiftReleases
        <3> QED BY <1>2, <1>4, <2>6, <3>1, <3>2, UnsubscribeShiftPlaced
    <2>7. CASE UnsubscribeCut(c)
        <3>1. UNCHANGED <<subscription, Queues>>
            BY <2>7 DEF UnsubscribeCut
        <3> QED BY <1>2, <1>4, <2>7, <3>1, UnsubscribeCutPlaced
    <2>8. CASE UNCHANGED <<topicVars, Queues>> \/ WriteBegin(c) \/ DeleteTopic(c)
        <3>1. UNCHANGED <<array, length, cell, subscription, Queues>>
            BY <2>8 DEF topicVars, WriteBegin, DeleteTopic
        <3> QED BY <2>1, <2>6, <3>1
    <2> QED BY <2>2, <2>3, <2>4, <2>5, <2>6, <2>7, <2>8, QuietStep
<1> QED BY <1>0, <1>1, <1>5, RestOwe

-----------------------------------------------------------------------------
(* The steps of a Publish. *)

LEMMA NoPublish == NoCall.handler # "Publish" /\ NoCall.due = {}
BY DEF NoCall

\* The steps after which c publishes.
LEMMA PublishSteps ==
    ASSUME Inv, NEW c \in Client, ~Stop,
           Step(c) \/ (\E h \in Handlers[c], n \in Name : Request(c, h, n)),
           Is(c, "Publish")'
    PROVE  \/ \E n \in Name : Request(c, "Publish", n)
           \/ /\ Is(c, "Publish") /\ ~Answer(c)
              /\ \/ Check(c) \/ RangeArray(c) \/ RangeLength(c) \/ (\E s \in Sub : RangeEntry(c, s))
                 \/ PublishPost(c) \/ PublishQueue(c) \/ PublishAppend(c)
<1>1. /\ DOMAIN call = Client /\ DOMAIN pc = Client
      /\ Typed(call[c], Allocated, Made) /\ CallOK(c, pc[c], call[c])
    BY CurrentCall DEF Inv, TypeOK, ClientType
<1>2. ~Answer(c)
    BY <1>1, NoPublish DEF Answer, Is
<1>3. ASSUME NEW h \in Handlers[c], NEW n \in Name, Request(c, h, n)
      PROVE  h = "Publish"
    <2> DEFINE L == {k \in Name : h \in Iterating /\ Topics[k] # Nil}
    <2>1. PICK s, a : call' = [call EXCEPT ![c] = Asked(h, n, s, a, L)]
        BY <1>3 DEF Request, Asked
    <2>2. Asked(h, n, s, a, L).handler = h
        BY DEF Asked, NoCall
    <2> QED BY <1>1, <2>1, <2>2, SMTT(30) DEF Is
<1>4. CASE /\ \/ Check(c) \/ RangeArray(c) \/ RangeLength(c) \/ (\E s \in Sub : RangeEntry(c, s))
              \/ PublishPost(c) \/ PublishQueue(c) \/ PublishAppend(c)
    <2>1. call'[c].handler = call[c].handler
        <3>1. CASE Check(c)
            BY <1>1, <1>2, <3>1 DEF Check, CreateCheck, UseCheck, Goes, Typed
        <3>2. CASE RangeArray(c) \/ RangeLength(c)
            BY <1>1, <1>2, <3>2 DEF RangeArray, RangeLength, Typed
        <3>3. CASE \E s \in Sub : RangeEntry(c, s)
            <4>1. Goes(c, "lock") \/ Advance(c) \/ \E s, p : Serve(c, s, p)
                BY <1>2, <3>3 DEF RangeEntry, PublishEntry, AttributesEntry
            <4> QED BY <1>1, <4>1 DEF Goes, Advance, Serve, Typed
        <3>4. CASE PublishPost(c) \/ PublishQueue(c) \/ PublishAppend(c)
            BY <1>1, <1>2, <3>4 DEF PublishPost, PublishQueue, PublishAppend, Goes, Advance, Got,
               Typed
        <3> QED BY <1>4, <3>1, <3>2, <3>3, <3>4
    <2> QED BY <1>2, <1>4, <2>1 DEF Is
<1>5. CASE /\ Step(c) /\ ~Check(c) /\ ~RangeArray(c) /\ ~RangeLength(c)
           /\ ~(\E s \in Sub : RangeEntry(c, s))
           /\ ~PublishPost(c) /\ ~PublishQueue(c) /\ ~PublishAppend(c)
    <2>1. ~RangeWild(c) /\ ~RangeNil(c) /\ ~TopicsEnd(c) /\ ~PostConfirmation(c)
          /\ ~ConfirmSubscription(c) /\ ~SubscribePanic(c) /\ ~UnsubscribePanic(c)
          /\ ~UnsubscribeCut(c) /\ ~(\E o \in Object : CreateTopic(c, o))
        BY <1>2 DEF RangeWild, RangeNil, TopicsEnd, PostConfirmation, ConfirmSubscription,
           SubscribePanic, UnsubscribePanic, UnsubscribeCut, CreateTopic
    <2>2. ~RangeEnd(c)
        <3> SUFFICES ASSUME RangeEnd(c) PROVE FALSE
            OBVIOUS
        <3>1. call'[c].handler = call[c].handler /\ call[c].handler # "Publish"
            BY <1>1, <1>2 DEF RangeEnd, Typed
        <3> QED BY <3>1 DEF Is
    <2>3. ASSUME NEW r, NEW S, call'[c] = Released(r, S), r = NoCall \/ r.handler # "Publish",
                 \E subs, made : Typed(r, subs, made)
          PROVE  FALSE
        BY <2>3, NoPublish, ReleasedTyped DEF Is
    <2>4. ~DeleteTopic(c)
        BY <1>2 DEF DeleteTopic
    <2>5. ~UnsubscribeShift(c)
        <3> SUFFICES ASSUME UnsubscribeShift(c) PROVE FALSE
            OBVIOUS
        <3>1. /\ call'[c] = Released(call[c], Moved(call[c].topic, call[c].i))
              /\ call[c].handler # "Publish"
            BY <1>1 DEF UnsubscribeShift, Releasing, Released, Is
        <3> QED BY <1>1, <2>3, <3>1
    <2>6. ~SetSubscriptionAttributes(c)
        <3> SUFFICES ASSUME SetSubscriptionAttributes(c) PROVE FALSE
            OBVIOUS
        <3>1. call'[c] = Released(NoCall, {call[c].sub})
            BY <1>1, <1>2 DEF SetSubscriptionAttributes, Releasing, Released
        <3>2. Released(NoCall, {call[c].sub}) = NoCall
            BY NoCallTyped, ReleasedTyped
        <3> QED BY <3>1, <3>2, NoPublish DEF Is
    <2>7. ~(\E n \in Name : TopicsNext(c, n))
        <3> SUFFICES ASSUME NEW n \in Name, TopicsNext(c, n) PROVE FALSE
            OBVIOUS
        <3>1. call'[c].handler = call[c].handler /\ pc[c] = "topics"
            BY <1>1 DEF TopicsNext, At, Typed
        <3> QED BY <1>1, <3>1 DEF CallOK, Iterating, Naming, Is
    <2>8. ~WriteBegin(c) /\ ~IssueToken(c)
        BY <1>1 DEF WriteBegin, IssueToken, Goes, At, CallOK, Is, Typed
    <2>9. ~SubscribeDuplicate(c) /\ ~SubscribeEnd(c)
        BY <1>1, <1>2 DEF SubscribeDuplicate, SubscribeEnd, Subscribed, At, CallOK, Is, Typed
    <2>10. ~SubscribeBegin(c)
        <3> SUFFICES ASSUME SubscribeBegin(c) PROVE FALSE
            OBVIOUS
        <3>1. call'[c].handler = call[c].handler /\ Is(c, "Subscribe")
            BY <1>1 DEF SubscribeBegin, Typed
        <3> QED BY <3>1 DEF Is
    <2> QED BY <1>5, <2>1, <2>2, <2>4, <2>5, <2>6, <2>7, <2>8, <2>9, <2>10 DEF Step
<1> QED BY <1>3, <1>4, <1>5

\* A subscriber that stays is in its topic's array once.
LEMMA EntryPlaced ==
    ASSUME Inv, SliceInv, ~crashed, NEW o \in Made, NEW s \in Staying(o)
    PROVE  \E j \in 1..array[o] : Placed(o, array[o], s, j)
<1>0. s \in Subscribers(o) /\ (Cuts(o) => s # Slot(o, length[o]))
    BY DEF Staying, Cuts, Slot
<1>1. PICK j \in 1..length[o] : Slot(o, j) = s
    BY <1>0 DEF Subscribers, Slot
<1>2. /\ o \in Object /\ o # Nil /\ array[o] \in Nat /\ length[o] \in Nat
      /\ length[o] <= array[o] /\ s # Nil /\ array[o] # Nil
    BY <1>0, MadeTopic DEF Subscribers, Made
<1>3. Cuts(o) => j < length[o]
    BY <1>0, <1>1, <1>2
<1>4. ASSUME NEW i \in 1..length[o], Slot(o, i) = s PROVE i = j
    <2>1. CASE Good(o, length[o])
        BY <1>1, <1>4, <2>1 DEF Good
    <2>2. CASE Good(o, length[o] - 1) /\ Slot(o, length[o]) # s
        BY <1>1, <1>2, <1>4, <2>2 DEF Good
    <2>3. CASE Settled
        BY <1>2, <2>1, <2>3, GoodAll
    <2>4. CASE ~Settled
        <3>1. lock \in Client /\ pc[lock] \in {"store", "cut"}
            BY <2>4 DEF Settled, Inv, TypeOK, ServerType
        <3>2. ASSUME NEW p, GoodBut(p), o = p => Slot(o, length[o]) # s PROVE i = j
            BY <1>2, <2>1, <2>2, <3>2 DEF GoodBut
        <3>3. CASE pc[lock] = "store"
            <4>1. GoodBut(Topic(lock)) /\ Slot(Topic(lock), length[Topic(lock)]) = Nil
                BY <3>1, <3>3 DEF SliceInv, StoreOK
            <4> QED BY <1>2, <3>2, <4>1
        <3>4. CASE pc[lock] = "cut"
            <4>1. GoodBut(call[lock].topic)
                BY <3>1, <3>4 DEF SliceInv, CutOK
            <4>2. o = call[lock].topic => Slot(o, length[o]) # s
                BY <1>0, <3>1, <3>4 DEF Cuts
            <4> QED BY <3>2, <4>1, <4>2
        <3> QED BY <3>1, <3>3, <3>4
    <2> QED BY <2>3, <2>4
<1>5. ASSUME NEW i \in 1..array[o], Slot(o, i) = s PROVE i = j
    <2>1. i \notin (length[o] + 1)..array[o]
        BY <1>2, <1>5 DEF SliceInv, TailInv
    <2> QED BY <1>2, <1>4, <1>5, <2>1
<1>6. j \in 1..array[o]
    BY <1>2
<1> QED BY <1>1, <1>2, <1>3, <1>5, <1>6 DEF Placed, Slot

\* The Publish of c keeps the array it iterates over, and its topic.
LEMMA WalkOwe ==
    ASSUME NEW c \in Client, NEW s, OweOK(c, s), UNCHANGED <<topicVars, Queues>>, NoNewCut,
           pc[c] \in Walking, pc'[c] \in Walking, call'[c].arg = call[c].arg,
           call'[c].topic = call[c].topic, call'[c].cap = call[c].cap,
           \A j \in 1..call[c].cap :
                Placed(call[c].topic, call[c].cap, s, j) /\ Served(pc[c], call[c], s, j) =>
                    Served(pc'[c], call'[c], s, j),
           pc'[c] \in {"queue", "append"} /\ call'[c].sub = s =>
                subscription[s].endpoint \notin HttpEndpoint
    PROVE  OweOK(c, s)'
<1> SUFFICES ASSUME NEW o, NEW k, NEW a, o = call[c].topic, k = call[c].cap,
                    a = call[c].arg.attributes
             PROVE  OweOK(c, s)'
    OBVIOUS
<1>1. /\ UNCHANGED <<Topics, array, length, cell, subscription, Queues>>
      /\ call'[c].topic = o /\ call'[c].cap = k /\ call'[c].arg.attributes = a
    BY DEF topicVars
<1>2. Invited(s, a)'
    <2>1. Invited(s, a) /\ subscription[s] # Nil
        BY DEF OweOK, Invited, Allocated
    <2> QED BY <1>1, <2>1, InvitedSame
<1>3. Invited(s, call[c].arg.attributes)'
    BY <1>1, <1>2 DEF Invited
<1>4. PICK j \in 1..k : Placed(o, k, s, j) /\ Served(pc[c], call[c], s, j)
    BY DEF OweOK
<1>5. Placed(o, k, s, j)' /\ Served(pc'[c], call'[c], s, j)
    BY <1>1, <1>4, PlacedSame
<1>6. Placed(call[c].topic, call[c].cap, s, j)' /\ Served(pc[c], call[c], s, j)'
    BY <1>1, <1>5 DEF Placed, Served, Slot, Cuts
<1> QED BY <1>1, <1>3, <1>4, <1>6 DEF OweOK

\* A Publish that has found its topic owes nothing yet.
LEMMA CheckOwe ==
    ASSUME Inv, NEW c \in Client, Check(c), Is(c, "Publish"), ~Answer(c), Owes(c)
    PROVE  Owes(c)'
<1>1. Goes(c, "array") /\ pc[c] = "check"
    BY DEF Check, At, UseCheck, Is
<1> QED BY <1>1 DEF Goes, Owes, OweOK

\* What Publish owes when it begins to iterate: every subscriber that it is for is in
\* the array that it gets, once.
LEMMA RangeArrayOwe ==
    ASSUME Inv, SliceInv, NEW c \in Client, RangeArray(c), Is(c, "Publish"), ~Answer(c), Owes(c),
           NoNewCut
    PROVE  Owes(c)'
<1> SUFFICES ASSUME NEW o, NEW k, NEW a, o = Topic(c), k = array[o], a = call[c].arg.attributes
             PROVE  Owes(c)'
    OBVIOUS
<1>1. /\ o # Nil /\ pc[c] = "array" /\ ~crashed /\ DOMAIN call = Client /\ DOMAIN pc = Client
      /\ call' = [call EXCEPT ![c].topic = o, ![c].cap = k, ![c].i = 1, ![c].due = Due(o, a)]
      /\ pc' = [pc EXCEPT ![c] = "length"] /\ UNCHANGED <<topicVars, Queues>>
      /\ Typed(call[c], Allocated, Made) /\ call[c].name \in Name
    BY CurrentCall DEF RangeArray, At, Goto, sharedVars, CallOK, Inv, TypeOK, ClientType
<1>2. /\ pc'[c] = "length" /\ call'[c].due = Due(o, a) /\ call'[c].got = call[c].got
      /\ call'[c].arg = call[c].arg /\ call'[c].topic = o /\ call'[c].cap = k
      /\ call'[c].i = 1
    BY <1>1 DEF Typed
<1>3. o \in Made
    BY <1>1, TableTopic DEF Topic
<1>4. ASSUME NEW s \in Due(o, a) PROVE OweOK(c, s)'
    <2>1. s \in Staying(o) /\ s \in Allocated /\ s \in Sub /\ Invited(s, a)
        BY <1>3, SubscribersType DEF Due, Staying, Invited, Allocated
    <2>2. UNCHANGED <<array, length, cell, subscription, Queues>>
        BY <1>1 DEF topicVars
    <2>3. Invited(s, a)'
        BY <2>1, <2>2, InvitedSame DEF Allocated
    <2>4. Invited(s, call[c].arg.attributes)'
        BY <1>2, <2>3 DEF Invited
    <2>5. PICK j \in 1..k : Placed(o, k, s, j)
        BY <1>1, <1>3, <2>1, EntryPlaced
    <2>6. Placed(o, k, s, j)'
        BY <2>2, <2>5, PlacedSame
    <2>7. Placed(call[c].topic, call[c].cap, s, j)'
        BY <1>2, <2>6 DEF Placed, Slot, Cuts
    <2>8. Served(pc[c], call[c], s, j)'
        BY <1>1, <1>2, <2>1 DEF Served, Owes
    <2> QED BY <1>2, <2>4, <2>7, <2>8 DEF OweOK
<1> QED BY <1>2, <1>4 DEF Owes

\* The length that Publish gets counts every subscriber.
LEMMA RangeLengthOwe ==
    ASSUME Inv, NEW c \in Client, RangeLength(c), Is(c, "Publish"), Owes(c), NoNewCut
    PROVE  Owes(c)'
<1>1. /\ pc[c] = "length" /\ DOMAIN call = Client /\ DOMAIN pc = Client
      /\ call' = [call EXCEPT ![c].len = length[call[c].topic]]
      /\ pc' = [pc EXCEPT ![c] = "range"] /\ UNCHANGED <<topicVars, Queues>>
      /\ Typed(call[c], Allocated, Made)
    BY CurrentCall DEF RangeLength, At, Goto, sharedVars, Inv, TypeOK, ClientType
<1>2. /\ pc'[c] = "range" /\ call'[c].due = call[c].due /\ call'[c].got = call[c].got
      /\ call'[c].arg = call[c].arg /\ call'[c].topic = call[c].topic
      /\ call'[c].cap = call[c].cap /\ call'[c].i = call[c].i
      /\ call'[c].len = length[call[c].topic]
    BY <1>1 DEF Typed
<1>3. ASSUME NEW s \in call[c].due PROVE OweOK(c, s)'
    <2>1. OweOK(c, s)
        BY DEF Owes
    <2>3. ASSUME NEW j \in 1..call[c].cap, Placed(call[c].topic, call[c].cap, s, j),
                 Served(pc[c], call[c], s, j)
          PROVE  Served(pc'[c], call'[c], s, j)
        BY <1>2, <2>3 DEF Placed, Served
    <2> QED BY <1>1, <1>2, <2>1, <2>3, WalkOwe DEF Walking
<1> QED BY <1>2, <1>3 DEF Owes

\* Publish passes an entry.
LEMMA AdvanceOwe ==
    ASSUME Inv, NEW c \in Client, Advance(c), Is(c, "Publish"), Owes(c),
           UNCHANGED <<topicVars, Queues>>, NoNewCut, pc[c] \in Walking,
           \A s \in call[c].due :
              \A j \in 1..call[c].cap :
                 /\ Placed(call[c].topic, call[c].cap, s, j) /\ Served(pc[c], call[c], s, j)
                 => j # call[c].i /\ j <= call[c].len
    PROVE  Owes(c)'
<1>1. /\ DOMAIN call = Client /\ DOMAIN pc = Client
      /\ call' = [call EXCEPT ![c].i = @ + 1, ![c].sub = Nil]
      /\ pc' = [pc EXCEPT ![c] = "range"] /\ Typed(call[c], Allocated, Made)
    BY CurrentCall DEF Advance, Goto, Inv, TypeOK, ClientType
<1>2. /\ pc'[c] = "range" /\ call'[c].due = call[c].due /\ call'[c].got = call[c].got
      /\ call'[c].arg = call[c].arg /\ call'[c].topic = call[c].topic
      /\ call'[c].cap = call[c].cap /\ call'[c].i = call[c].i + 1
      /\ call'[c].len = call[c].len /\ call[c].i \in Nat /\ call[c].cap \in Nat
    BY <1>1, CapacityType DEF Typed
<1>3. ASSUME NEW s \in call[c].due PROVE OweOK(c, s)'
    <2>1. OweOK(c, s)
        BY DEF Owes
    <2>3. ASSUME NEW j \in 1..call[c].cap, Placed(call[c].topic, call[c].cap, s, j),
                 Served(pc[c], call[c], s, j)
          PROVE  Served(pc'[c], call'[c], s, j)
        <3>1. j # call[c].i /\ j \in Nat /\ j <= call[c].len
            BY <1>2, <2>3
        <3>2. j < call[c].i + 1 <=> j < call[c].i
            BY <1>2, <3>1, SMTT(30)
        <3> QED BY <1>2, <2>3, <3>1, <3>2 DEF Served
    <2> QED BY <1>1, <1>2, <2>1, <2>3, WalkOwe DEF Walking
<1> QED BY <1>2, <1>3 DEF Owes

\* Publish serves the entry t.
LEMMA ServeOwe ==
    ASSUME Inv, NEW c \in Client, NEW t, NEW p \in {"post", "queue"}, Serve(c, t, p),
           Is(c, "Publish"), Owes(c), UNCHANGED <<topicVars, Queues>>, NoNewCut, pc[c] = "range",
           t = cell[call[c].topic][call[c].cap][call[c].i], call[c].i \in 1..call[c].cap,
           p = "queue" => subscription[t].endpoint \notin HttpEndpoint
    PROVE  Owes(c)'
<1>1. /\ DOMAIN call = Client /\ DOMAIN pc = Client
      /\ call' = [call EXCEPT ![c].sub = t]
      /\ pc' = [pc EXCEPT ![c] = p] /\ Typed(call[c], Allocated, Made)
    BY CurrentCall, SMTT(30) DEF Serve, Goto, Inv, TypeOK, ClientType
<1>2. /\ pc'[c] = p /\ call'[c].due = call[c].due /\ call'[c].got = call[c].got
      /\ call'[c].arg = call[c].arg /\ call'[c].topic = call[c].topic
      /\ call'[c].cap = call[c].cap /\ call'[c].i = call[c].i
      /\ call'[c].len = call[c].len /\ call'[c].sub = t
    BY <1>1 DEF Typed
<1>3. ASSUME NEW s \in call[c].due PROVE OweOK(c, s)'
    <2>1. OweOK(c, s)
        BY DEF Owes
    <2>3. ASSUME NEW j \in 1..call[c].cap, Placed(call[c].topic, call[c].cap, s, j),
                 Served(pc[c], call[c], s, j)
          PROVE  Served(pc'[c], call'[c], s, j)
        <3>1. t = s <=> j = call[c].i
            BY <2>3 DEF Placed
        <3> QED BY <1>2, <2>3, <3>1 DEF Served
    <2> QED BY <1>1, <1>2, <2>1, <2>3, WalkOwe DEF Walking
<1> QED BY <1>2, <1>3 DEF Owes

\* A subscription that is owed the message is not passed.
LEMMA RangeEntryOwe ==
    ASSUME Inv, NEW c \in Client, NEW t \in Sub, RangeEntry(c, t), Is(c, "Publish"), Owes(c),
           NoNewCut
    PROVE  Owes(c)'
<1>1. /\ pc[c] = "range" /\ UNCHANGED <<topicVars, Queues>> /\ PublishEntry(c, t)
      /\ t = cell[call[c].topic][call[c].cap][call[c].i] /\ call[c].i \in 1..call[c].cap
    BY ReadsType, SMTT(30) DEF RangeEntry, Reads, At, Is, sharedVars
<1>2. CASE Serve(c, t, "post")
    BY <1>1, <1>2, ServeOwe
<1>3. CASE Serve(c, t, "queue") /\ subscription[t].endpoint \notin HttpEndpoint
    BY <1>1, <1>3, ServeOwe
<1>4. CASE /\ Advance(c) /\ subscription[t].endpoint \notin HttpEndpoint
           /\ ~IsSatisfiedBy(subscription[t].policy, call[c].arg.attributes)
    <2>1. ASSUME NEW s \in call[c].due, NEW j \in 1..call[c].cap,
                 Placed(call[c].topic, call[c].cap, s, j), Served(pc[c], call[c], s, j)
          PROVE  j # call[c].i /\ j <= call[c].len
        <3>1. s # t
            BY <1>4 DEF Owes, OweOK, Invited
        <3>2. cell[call[c].topic][call[c].cap][j] = s
            BY <2>1 DEF Placed
        <3> QED BY <1>1, <2>1, <3>1, <3>2 DEF Served
    <2> QED BY <1>1, <1>4, <2>1, AdvanceOwe DEF Walking
<1> QED BY <1>1, <1>2, <1>3, <1>4 DEF PublishEntry

\* The entry has got the message.
LEMMA GotOwe ==
    ASSUME Inv, NEW c \in Client, Goto(c, "range"), call' = Got(c), Is(c, "Publish"), Owes(c),
           UNCHANGED <<topicVars, Queues>>, NoNewCut, pc[c] \in {"post", "append"}
    PROVE  Owes(c)'
<1>1. /\ DOMAIN call = Client /\ DOMAIN pc = Client
      /\ call' = [call EXCEPT ![c].got[call[c].sub] = @ + 1, ![c].i = @ + 1, ![c].sub = Nil]
      /\ pc' = [pc EXCEPT ![c] = "range"] /\ Typed(call[c], Allocated, Made)
    BY CurrentCall DEF Got, Goto, Inv, TypeOK, ClientType
<1>2. /\ pc'[c] = "range" /\ call'[c].due = call[c].due
      /\ call'[c].got = [call[c].got EXCEPT ![call[c].sub] = @ + 1]
      /\ call'[c].arg = call[c].arg /\ call'[c].topic = call[c].topic
      /\ call'[c].cap = call[c].cap /\ call'[c].i = call[c].i + 1
      /\ call'[c].len = call[c].len /\ call[c].i \in Nat /\ call[c].cap \in Nat
      /\ call[c].got \in [Sub -> Nat] /\ call[c].due \subseteq Sub
    BY <1>1, CapacityType, SMTT(30) DEF Typed
<1>3. ASSUME NEW s \in call[c].due PROVE OweOK(c, s)'
    <2>1. OweOK(c, s)
        BY DEF Owes
    <2>3. ASSUME NEW j \in 1..call[c].cap, Placed(call[c].topic, call[c].cap, s, j),
                 Served(pc[c], call[c], s, j)
          PROVE  Served(pc'[c], call'[c], s, j)
        <3>1. /\ call[c].sub = s <=> j = call[c].i
              /\ call[c].got[s] = IF j < call[c].i THEN 1 ELSE 0
              /\ j <= call[c].len
            BY <2>3 DEF Served
        <3>2. call'[c].got[s] = IF j < call[c].i + 1 THEN 1 ELSE 0
            <4>1. CASE j = call[c].i
                BY <1>2, <3>1, <4>1
            <4>2. CASE j # call[c].i
                BY <1>2, <3>1, <4>2
            <4> QED BY <4>1, <4>2
        <3> QED BY <1>2, <3>1, <3>2 DEF Served
    <2> QED BY <1>1, <1>2, <2>1, <2>3, WalkOwe DEF Walking
<1> QED BY <1>2, <1>3 DEF Owes

\* A queue that is owed the message exists.
LEMMA PublishOwe ==
    ASSUME Inv, NEW c \in Client, PublishPost(c) \/ PublishQueue(c) \/ PublishAppend(c),
           Is(c, "Publish"), ~Answer(c), Owes(c), NoNewCut
    PROVE  Owes(c)'
<1>1. CASE PublishPost(c) \/ PublishAppend(c)
    <2>1. /\ Goto(c, "range") /\ call' = Got(c) /\ UNCHANGED <<topicVars, Queues>>
          /\ pc[c] \in {"post", "append"}
        BY <1>1 DEF PublishPost, PublishAppend, At, sharedVars
    <2> QED BY <2>1, GotOwe
<1>2. CASE PublishQueue(c)
    <2>1. pc[c] = "queue" /\ UNCHANGED <<topicVars, Queues>>
        BY <1>2 DEF PublishQueue, At, sharedVars
    <2>2. CASE Advance(c) /\ subscription[call[c].sub].endpoint \notin Queues
        <3>1. ASSUME NEW s \in call[c].due, NEW j \in 1..call[c].cap,
                     Placed(call[c].topic, call[c].cap, s, j), Served(pc[c], call[c], s, j)
              PROVE  j # call[c].i /\ j <= call[c].len
            <4>1. s # call[c].sub
                BY <2>1, <2>2 DEF Owes, OweOK, Invited
            <4> QED BY <2>1, <3>1, <4>1 DEF Served
        <3> QED BY <2>1, <2>2, <3>1, AdvanceOwe DEF Walking
    <2>3. CASE Goes(c, "append")
        <3>1. call' = call /\ pc' = [pc EXCEPT ![c] = "append"] /\ pc'[c] = "append"
            BY <2>3 DEF Goes, Goto, Inv, TypeOK, ClientType
        <3>2. ASSUME NEW s \in call[c].due PROVE OweOK(c, s)'
            <4>1. OweOK(c, s)
                BY DEF Owes
            <4>3. call[c].sub = s => subscription[s].endpoint \notin HttpEndpoint
                BY <2>1, <4>1 DEF OweOK
            <4>4. \A j : Served(pc[c], call[c], s, j) => Served(pc'[c], call'[c], s, j)
                BY <2>1, <3>1 DEF Served
            <4> QED BY <2>1, <3>1, <4>1, <4>3, <4>4, WalkOwe DEF Walking
        <3> QED BY <3>1, <3>2 DEF Owes
    <2> QED BY <1>2, <2>2, <2>3 DEF PublishQueue
<1> QED BY <1>1, <1>2

\* A request has been served nowhere yet.
LEMMA RequestOwe ==
    ASSUME Inv, NEW c \in Client, NEW n \in Name, Request(c, "Publish", n)
    PROVE  Owes(c)'
<1> DEFINE L == {k \in Name : "Publish" \in Iterating /\ Topics[k] # Nil}
<1>1. PICK s, a : call' = [call EXCEPT ![c] = Asked("Publish", n, s, a, L)]
    BY DEF Request, Asked
<1>2. /\ Asked("Publish", n, s, a, L).due = {}
      /\ Asked("Publish", n, s, a, L).got = [t \in Sub |-> 0]
    BY DEF Asked, NoCall
<1>3. call'[c].due = {} /\ call'[c].got = [t \in Sub |-> 0]
    BY <1>1, <1>2 DEF Inv, TypeOK, ClientType
<1> QED BY <1>3, SMTT(30) DEF Owes

LEMMA OwnOwe ==
    ASSUME Inv, SliceInv, NEW c \in Client, ~Stop, Owes(c),
           Step(c) \/ (\E h \in Handlers[c], n \in Name : Request(c, h, n))
    PROVE  Owes(c)'
<1>1. CASE Is(c, "Publish")'
    <2>1. CASE \E n \in Name : Request(c, "Publish", n)
        BY <2>1, RequestOwe
    <2>2. CASE Is(c, "Publish") /\ ~Answer(c)
        <3>1. NoNewCut
            BY <2>2, CutsNext DEF UnsubscribeShift, Is
        <3>2. CASE Check(c)
            BY <2>2, <3>2, CheckOwe
        <3> QED BY <1>1, <2>1, <2>2, <3>1, <3>2, PublishSteps, RangeArrayOwe, RangeLengthOwe,
                RangeEntryOwe, PublishOwe
    <2> QED BY <1>1, <2>1, <2>2, PublishSteps
<1>2. CASE ~Is(c, "Publish")'
    BY <1>2 DEF Owes
<1> QED BY <1>1, <1>2

LEMMA QueueRests ==
    ASSUME Inv, NEW q \in QueueEndpoint, CreateQueue(q) \/ DeleteQueue(q), NEW d \in Client
    PROVE  Rests(d)
<1>1. CASE UNCHANGED <<pc, call>>
    BY <1>1 DEF Rests, SameCall
<1>2. ASSUME NEW S, call' = Releasing(S, call), UNCHANGED pc PROVE Rests(d)
    <2>1. call'[d] = Released(call[d], S)
        BY <1>2 DEF Releasing, Released
    <2> QED BY <1>2, <2>1, CurrentCall, ReleasedTyped DEF Rests, SameCall
<1> QED BY <1>1, <1>2 DEF CreateQueue, DeleteQueue, clientVars

\* A queue that is deleted is owed no message.
LEMMA QueueOwe ==
    ASSUME Inv, NEW q \in QueueEndpoint, CreateQueue(q) \/ DeleteQueue(q),
           NEW d \in Client, Owes(d)
    PROVE  Owes(d)'
<1>1. /\ UNCHANGED <<Topics, array, length, cell, subscription, pc>>
      /\ \/ Queues \subseteq Queues' /\ UNCHANGED call
         \/ /\ Queues' = Queues \ {q}
            /\ call' = Releasing({s \in Allocated : subscription[s].endpoint = q}, call)
    BY DEF CreateQueue, DeleteQueue, clientVars, topicVars
<1>2. /\ Rests(d)
      /\ \A s \in call'[d].due : s \in Allocated =>
            Queues \subseteq Queues' \/ (Queues' = Queues \ {q} /\ subscription[s].endpoint # q)
    <2>1. CASE UNCHANGED call /\ Queues \subseteq Queues'
        BY <1>1, <2>1 DEF Rests, SameCall
    <2>2. ASSUME NEW S, S = {s \in Allocated : subscription[s].endpoint = q},
                 call' = Releasing(S, call), Queues' = Queues \ {q}
          PROVE  <1>2
        <3>1. call'[d] = Released(call[d], S)
            BY <2>2 DEF Releasing, Released
        <3>2. Rests(d) /\ call'[d].due = call[d].due \ S
            BY <1>1, <3>1, CurrentCall, ReleasedTyped DEF Rests, SameCall
        <3> QED BY <2>2, <3>2
    <2> QED BY <1>1, <2>1, <2>2
<1> SUFFICES ASSUME NEW s \in call'[d].due, Is(d, "Publish") PROVE OweOK(d, s)'
    BY <1>2 DEF Owes, Rests, SameCall, Is
<1>3. s \in call[d].due /\ OweOK(d, s)
    BY <1>2 DEF Owes, Rests, SameCall
<1> SUFFICES ASSUME NEW a, NEW o, NEW k, a = call[d].arg.attributes, o = call[d].topic,
                    k = call[d].cap
             PROVE  OweOK(d, s)'
    OBVIOUS
<1>4. Invited(s, a) /\ s \in Allocated /\ subscription[s] # Nil
    BY <1>3 DEF OweOK, Invited, Allocated
<1>5. NoNewCut
    <2>1. \A e \in Client : call'[e].topic = call[e].topic
        BY QueueRests DEF Rests, SameCall
    <2> QED BY <1>1, <2>1 DEF NoNewCut, Cuts
<1>6. Invited(s, a)'
    <2>1. subscription[s].endpoint \in Queues => subscription[s].endpoint \in Queues'
        BY <1>2, <1>4
    <2> QED BY <1>1, <1>4, <2>1 DEF Invited, Allocated
<1>7. \A j : Placed(o, k, s, j) => Placed(o, k, s, j)'
    BY <1>1, <1>5, PlacedSame
<1> QED BY <1>1, <1>2, <1>3, <1>6, <1>7, RestOwe

LEMMA OweStep == Inv /\ SliceInv /\ OweInv /\ [Next]_vars => OweInv'
<1> SUFFICES ASSUME Inv, SliceInv, OweInv, [Next]_vars, NEW d \in Client
             PROVE  Owes(d)'
    BY DEF OweInv
<1>0. Owes(d)
    BY DEF OweInv
<1>1. CASE Stop
    <2>1. call'[d] = NoCall
        BY <1>1 DEF Stop
    <2> QED BY <2>1, NoPublish DEF Owes, Is
<1>2. ASSUME NEW c \in Client, ~Stop,
             Step(c) \/ (\E h \in Handlers[c], n \in Name : Request(c, h, n))
      PROVE  Owes(d)'
    BY <1>0, <1>2, OwnOwe, OthersOwe
<1>3. ASSUME NEW q \in QueueEndpoint, CreateQueue(q) \/ DeleteQueue(q) PROVE Owes(d)'
    BY <1>0, <1>3, QueueOwe
<1>4. CASE UNCHANGED vars
    BY <1>0, <1>4 DEF vars, sharedVars, clientVars, topicVars, Owes, OweOK, Cuts, Invited,
       Allocated, Placed, Made, Slot, Served, Is
<1> QED BY <1>1, <1>2, <1>3, <1>4 DEF Next, Crash

LEMMA OweInvCorrect == Spec => []OweInv
<1>1. Init => OweInv
    BY NoPublish DEF Init, OweInv, Owes, Is
<1> QED BY <1>1, OweStep, InvCorrect, SliceInvCorrect, PTL DEF Spec

\* The step from the range to the answer behind the last entry.
LEMMA OwedServed ==
    ASSUME OweInv, Inv, NEW c \in Client, Is(c, "Publish"), pc[c] = "range",
           call[c].i > call[c].len, NEW s \in call[c].due
    PROVE  call[c].got[s] = 1
<1>1. OweOK(c, s)
    BY DEF OweInv, Owes
<1>2. PICK j \in 1..call[c].cap : Served("range", call[c], s, j)
    BY <1>1 DEF OweOK
<1>3. call[c].i \in Nat /\ call[c].len \in Nat /\ call[c].cap \in Nat
    BY CurrentCall, CapacityType DEF Typed
<1> QED BY <1>2, <1>3 DEF Served

\* A Publish that reaches the end of its slice has served every subscription it owes
\* the message once: neither an append that moves the slice, nor a removal behind it,
\* nor the deletion or replacement of the topic, costs a subscription its message or
\* gives it a second one.
THEOREM PublishedOnceCorrect == Spec => PublishedOnce
<1>1. Inv /\ OweInv =>
        [\A c \in Client :
            Is(c, "Publish") /\ pc[c] = "range" /\ pc'[c] = "idle" /\ call[c].i > call[c].len
                => \A s \in call[c].due : call[c].got[s] = 1]_vars
    BY OwedServed
<1> QED BY <1>1, OweInvCorrect, InvCorrect, PTL DEF PublishedOnce
=============================================================================
