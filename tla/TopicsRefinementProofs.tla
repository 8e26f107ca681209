----------------------- MODULE TopicsRefinementProofs -----------------------
(***************************************************************************)
(* Proof that the topics implement SubscriberSets, and of what the sets    *)
(* promise.                                                                *)
(***************************************************************************)
EXTENDS TopicsRefinement, TopicsProofs

-----------------------------------------------------------------------------
(* The table. *)

\* No two names share a topic.
TableInv == \A n, k \in Name : Topics[n] = Topics[k] /\ Topics[n] # Nil => n = k

SetsInv == Inv /\ SliceInv /\ TableInv

\* Who changes the table.
LEMMA TableWriters ==
    ASSUME [Next]_vars
    PROVE  \/ UNCHANGED Topics
           \/ \E c \in Client : DeleteTopic(c) \/ \E o \in Object : CreateTopic(c, o)
<1>1. ASSUME NEW c \in Client,
             Step(c) \/ (\E h \in Handlers[c], n \in Name : Request(c, h, n))
      PROVE  UNCHANGED Topics \/ DeleteTopic(c) \/ \E o \in Object : CreateTopic(c, o)
    BY <1>1, QuietStep DEF topicVars, WriteBegin, SubscribeBegin, SubscribeEnd,
       UnsubscribeShift, UnsubscribeCut, SetSubscriptionAttributes
<1>2. ASSUME NEW q \in QueueEndpoint, CreateQueue(q) \/ DeleteQueue(q) PROVE UNCHANGED Topics
    BY <1>2 DEF CreateQueue, DeleteQueue, topicVars
<1>3. Crash => UNCHANGED Topics
    BY DEF Crash, topicVars
<1>4. UNCHANGED vars => UNCHANGED Topics
    BY DEF vars, sharedVars, topicVars
<1> QED BY <1>1, <1>2, <1>3, <1>4 DEF Next

LEMMA TableStep == Inv /\ TableInv /\ [Next]_vars => TableInv'
<1> SUFFICES ASSUME Inv, TableInv, [Next]_vars PROVE TableInv'
    OBVIOUS
<1>1. CASE UNCHANGED Topics
    BY <1>1 DEF TableInv
<1>2. ASSUME NEW c \in Client, DeleteTopic(c) PROVE TableInv'
    <2>1. \A n \in Name : Topics'[n] = Topics[n] \/ Topics'[n] = Nil
        BY <1>2 DEF DeleteTopic, Inv, TypeOK, TopicType
    <2> QED BY <2>1 DEF TableInv
<1>3. ASSUME NEW c \in Client, NEW o \in Object, CreateTopic(c, o) PROVE TableInv'
    <2>1. array[o] = Nil /\ Topics' = [Topics EXCEPT ![call[c].name] = o]
        BY <1>3 DEF CreateTopic
    <2>2. \A n \in Name : Topics'[n] = IF n = call[c].name THEN o ELSE Topics[n]
        BY <2>1 DEF Inv, TypeOK, TopicType
    <2>3. \A n \in Name : Topics[n] # Nil => Topics[n] # o
        BY <2>1, TableTopic DEF Made
    <2> QED BY <2>2, <2>3 DEF TableInv
<1> QED BY <1>1, <1>2, <1>3, TableWriters

LEMMA SetsInvCorrect == Spec => []SetsInv
<1>1. Init => TableInv
    BY LoadedAssumption DEF Init, LoadTable, TableInv
<1> QED BY <1>1, TableStep, InvCorrect, SliceInvCorrect, PTL DEF Spec, SetsInv

-----------------------------------------------------------------------------
(* What a step changes of the sets. *)

LEMMA SlicesKept ==
    UNCHANGED <<Topics, array, length, cell, subscription>> =>
        UNCHANGED <<topicsOf, membersOf, addressOf>>
BY DEF topicsOf, membersOf, addressOf, Subscribers, Slot, Allocated

LEMMA PendingKept ==
    ASSUME \A d \in Client : pc[d] = "store" \/ pc'[d] = "store" => Rests(d)
    PROVE  UNCHANGED pendingOf
<1>1. ASSUME NEW d \in Client
      PROVE  /\ pc[d] = "store" <=> pc'[d] = "store"
             /\ pc[d] = "store" => <<call'[d].name, call'[d].sub>> = <<call[d].name, call[d].sub>>
    BY DEF Rests, SameCall
<1> QED BY <1>1 DEF pendingOf

LEMMA NonePending ==
    ASSUME \A d \in Client : pc[d] # "store" PROVE pendingOf = {}
BY DEF pendingOf

\* The subscriptions of p are those in its slots.
LEMMA SubscribersKept ==
    ASSUME NEW p, length'[p] = length[p], \A i \in 1..length[p] : Slot(p, i)' = Slot(p, i)
    PROVE  Subscribers(p)' = Subscribers(p)
BY DEF Subscribers, Slot

LEMMA AddressesKept ==
    ASSUME UNCHANGED subscription PROVE UNCHANGED addressOf
BY DEF addressOf, Allocated

LEMMA MembersType ==
    ASSUME Inv, NEW n \in Name
    PROVE  /\ membersOf[n] \subseteq Allocated
           /\ Topics[n] = Nil => membersOf[n] = {}
           /\ Topics[n] # Nil => membersOf[n] = Subscribers(Topics[n])
BY TableTopic, SubscribersType DEF membersOf

\* The subscribers of o change, and those of no other topic.
LEMMA MembersChange ==
    ASSUME Inv, TableInv, UNCHANGED Topics, NEW o \in Made,
           \A p \in Object \ {o} : Subscribers(p)' = Subscribers(p),
           NEW n \in Name, Topics[n] = o
    PROVE  membersOf' = [membersOf EXCEPT ![n] = Subscribers(o)']
<1>1. o # Nil
    BY MadeTopic
<1>2. ASSUME NEW k \in Name, k # n PROVE membersOf'[k] = membersOf[k]
    <2>1. CASE Topics[k] = Nil
        BY <2>1 DEF membersOf
    <2>2. CASE Topics[k] # Nil
        <3>1. Topics[k] \in Object \ {o}
            BY <1>1, <1>2, <2>2, TableTopic DEF TableInv, Made
        <3> QED BY <2>2, <3>1 DEF membersOf
    <2> QED BY <2>1, <2>2
<1>3. membersOf'[n] = Subscribers(o)'
    BY <1>1 DEF membersOf
<1> QED BY <1>2, <1>3 DEF membersOf

LEMMA MembersKept ==
    ASSUME Inv, UNCHANGED Topics,
           \A n \in Name : Topics[n] # Nil => Subscribers(Topics[n])' = Subscribers(Topics[n])
    PROVE  UNCHANGED <<topicsOf, membersOf>>
<1>1. UNCHANGED topicsOf
    BY DEF topicsOf
<1>2. ASSUME NEW n \in Name PROVE membersOf'[n] = membersOf[n]
    BY DEF membersOf
<1> QED BY <1>1, <1>2 DEF membersOf

\* Of the subscribers of o one goes, or none.
LEMMA OneLeaves ==
    ASSUME Inv, TableInv, UNCHANGED Topics, UNCHANGED subscription, UNCHANGED pendingOf,
           NEW o \in Made,
           \A p \in Object \ {o} : Subscribers(p)' = Subscribers(p),
           NEW s, Subscribers(o)' \in {Subscribers(o), Subscribers(o) \ {s}}
    PROVE  [Sets!Next]_Sets!vars
<1>1. UNCHANGED <<addressOf, topicsOf>>
    BY AddressesKept DEF topicsOf
<1>2. CASE Subscribers(o)' = Subscribers(o) \/ \A n \in Name : Topics[n] # o
    <2>1. ASSUME NEW n \in Name, Topics[n] # Nil
          PROVE  Subscribers(Topics[n])' = Subscribers(Topics[n])
        BY <1>2, <2>1, TableTopic DEF Made
    <2>2. UNCHANGED membersOf
        BY <2>1, MembersKept
    <2> QED BY <1>1, <2>2 DEF Sets!vars
<1>3. ASSUME NEW n \in Name, Topics[n] = o, Subscribers(o)' # Subscribers(o)
      PROVE  [Sets!Next]_Sets!vars
    <2>1. s \in Subscribers(o) /\ Subscribers(o)' = Subscribers(o) \ {s}
        BY <1>3
    <2>2. o # Nil /\ membersOf[n] = Subscribers(o) /\ s \in Sub
        BY <1>3, <2>1, MadeTopic, MembersType, SubscribersType DEF Allocated
    <2>3. membersOf' = [membersOf EXCEPT ![n] = @ \ {s}]
        BY <1>3, <2>1, <2>2, MembersChange
    <2>4. Sets!Leave(n, s)
        BY <1>1, <2>1, <2>2, <2>3 DEF Sets!Leave
    <2> QED BY <2>2, <2>4 DEF Sets!Next
<1> QED BY <1>2, <1>3

-----------------------------------------------------------------------------
(* Topics. *)

LEMMA CreateTopicSets ==
    ASSUME SetsInv, NEW c \in Client, NEW o \in Object, CreateTopic(c, o),
           UNCHANGED pendingOf
    PROVE  \E n \in Name : Sets!Create(n)
<1> SUFFICES ASSUME NEW n, n = call[c].name PROVE n \in Name /\ Sets!Create(n)
    OBVIOUS
<1>1. /\ pc[c] = "write" /\ Is(c, "CreateTopic") /\ array[o] = Nil
      /\ Topics' = [Topics EXCEPT ![n] = o] /\ array' = [array EXCEPT ![o] = 0]
      /\ UNCHANGED <<length, cell, subscription>>
    BY DEF CreateTopic, At
<1>2. n \in Name /\ length[o] = 0 /\ o # Nil
    BY <1>1, CurrentCall, TopicsAssumption DEF SetsInv, CallOK, Inv, HoldInv
<1>3. \A k \in Name : Topics'[k] = IF k = n THEN o ELSE Topics[k]
    BY <1>1, <1>2 DEF SetsInv, Inv, TypeOK, TopicType
<1>4. topicsOf' = topicsOf \cup {n}
    BY <1>2, <1>3 DEF topicsOf
<1>5. ASSUME NEW k \in Name PROVE membersOf'[k] = IF k = n THEN {} ELSE membersOf[k]
    <2>1. CASE k = n
        <3>1. Subscribers(o)' = {}
            BY <1>1, <1>2 DEF Subscribers
        <3> QED BY <1>2, <1>3, <2>1, <3>1 DEF membersOf
    <2>2. CASE k # n /\ Topics[k] # Nil
        <3>1. Topics[k] \in Object /\ Topics[k] # o
            BY <1>1, <2>2, TableTopic DEF SetsInv, Made
        <3>2. array'[Topics[k]] = array[Topics[k]]
            BY <1>1, <3>1 DEF SetsInv, Inv, TypeOK, TopicType
        <3>3. ASSUME NEW p, p = Topics[k] PROVE Subscribers(p)' = Subscribers(p)
            BY <1>1, <3>2, <3>3 DEF Subscribers, Slot
        <3>4. PICK p : p = Topics[k]
            OBVIOUS
        <3>5. Topics'[k] = p
            BY <1>3, <2>2, <3>4
        <3> QED BY <2>2, <3>3, <3>4, <3>5 DEF membersOf
    <2>3. CASE k # n /\ Topics[k] = Nil
        BY <1>3, <2>3 DEF membersOf
    <2> QED BY <2>1, <2>2, <2>3
<1>6. membersOf' = [membersOf EXCEPT ![n] = {}]
    BY <1>5 DEF membersOf
<1>7. UNCHANGED addressOf
    BY <1>1, AddressesKept
<1> QED BY <1>2, <1>4, <1>6, <1>7 DEF Sets!Create

LEMMA DeleteTopicSets ==
    ASSUME SetsInv, NEW c \in Client, DeleteTopic(c), UNCHANGED pendingOf
    PROVE  [Sets!Next]_Sets!vars
<1> SUFFICES ASSUME NEW n, n = call[c].name PROVE [Sets!Next]_Sets!vars
    OBVIOUS
<1>1. /\ pc[c] = "write" /\ Topics' = [Topics EXCEPT ![n] = Nil]
      /\ UNCHANGED <<array, length, cell, subscription>>
    BY DEF DeleteTopic, At
<1>2. n \in Name
    BY <1>1, CurrentCall DEF SetsInv, CallOK
<1>3. \A k \in Name : Topics'[k] = IF k = n THEN Nil ELSE Topics[k]
    BY <1>1, <1>2 DEF SetsInv, Inv, TypeOK, TopicType
<1>4. topicsOf' = topicsOf \ {n} /\ UNCHANGED addressOf
    BY <1>1, <1>3, AddressesKept DEF topicsOf
<1>5. \A k \in Name : membersOf'[k] = IF k = n THEN {} ELSE membersOf[k]
    <2>1. ASSUME NEW p PROVE Subscribers(p)' = Subscribers(p)
        BY <1>1 DEF Subscribers, Slot
    <2>2. \A k \in Name : membersOf[k] = IF Topics[k] = Nil THEN {} ELSE Subscribers(Topics[k])
        BY DEF membersOf
    <2>3. \A k \in Name : membersOf'[k] = IF Topics'[k] = Nil THEN {} ELSE Subscribers(Topics'[k])
        BY <2>1 DEF membersOf
    <2> QED BY <1>3, <2>2, <2>3
<1>6. CASE n \in topicsOf
    <2>1. membersOf' = [membersOf EXCEPT ![n] = {}]
        BY <1>2, <1>5 DEF membersOf
    <2>2. Sets!Drop(n)
        BY <1>4, <1>6, <2>1 DEF Sets!Drop
    <2> QED BY <1>2, <2>2 DEF Sets!Next
<1>7. CASE n \notin topicsOf
    <2>1. membersOf[n] = {}
        BY <1>2, <1>7 DEF topicsOf, membersOf
    <2>2. UNCHANGED <<topicsOf, membersOf>>
        BY <1>4, <1>5, <1>7, <2>1 DEF membersOf
    <2> QED BY <1>4, <2>2 DEF Sets!vars
<1> QED BY <1>6, <1>7

-----------------------------------------------------------------------------
(* Subscriptions. *)

LEMMA SubscribeBeginSets ==
    ASSUME SetsInv, NEW c \in Client, SubscribeBegin(c)
    PROVE  \E n \in Name, s \in Sub, p \in Arn \X Endpoint : Sets!Register(n, s, p)
<1> SUFFICES ASSUME NEW o, NEW n, NEW s, NEW new, NEW a, o = Topic(c), n = call[c].name,
                    s = NewSub, new = NewArray(o), a = call[c].arg
             PROVE  n \in Name /\ s \in Sub /\ Address(a) \in Arn \X Endpoint
                    /\ Sets!Register(n, s, Address(a))
    OBVIOUS
<1>0. /\ lock = Free /\ o \in Made /\ o # Nil /\ Duplicates(o, a) = {}
      /\ s \in Sub \ Allocated /\ s # Nil /\ a \in Subscription /\ pc[c] = "lock"
      /\ new \in Capacity /\ new \in Nat /\ length[o] < new /\ array[o] <= new
      /\ array' = [array EXCEPT ![o] = new] /\ length' = [length EXCEPT ![o] = @ + 1]
      /\ cell' = IF new = array[o] THEN cell
                 ELSE [cell EXCEPT ![o][new] =
                        [i \in 1..new |-> IF i <= array[o] THEN cell[o][array[o]][i] ELSE Nil]]
      /\ subscription' = [subscription EXCEPT ![s] = a]
      /\ Moves(c, "store", [call[c] EXCEPT !.sub = s]) /\ UNCHANGED Topics
    BY SubscribeBeginFacts, SMTT(30) DEF SetsInv
<1>1. /\ n \in Name /\ Topics[n] = o /\ Address(a) \in Arn \X Endpoint
      /\ o \in Object /\ length[o] \in Nat /\ length[o] <= array[o] /\ array[o] \in Nat
    BY <1>0, CurrentCall, MadeTopic DEF SetsInv, CallOK, Topic, Subscription, Address
<1>2. n \in topicsOf /\ UNCHANGED topicsOf
    BY <1>0, <1>1 DEF topicsOf
<1>3. /\ pc'[c] = "store" /\ call'[c].sub = s /\ call'[c].name = n
      /\ \A d \in Client \ {c} : pc[d] # "store" /\ pc'[d] # "store"
    BY <1>0, MovesTo, Alone, CurrentCall DEF SetsInv, Inv, TypeOK, Typed
<1>4. pendingOf = {} /\ pendingOf' = {<<n, s>>}
    BY <1>0, <1>3 DEF pendingOf
<1>5. ASSUME NEW i, i = length[o] + 1 PROVE Slot(o, i)' = Nil
    <2>1. i <= array[o] => Slot(o, i) = Nil
        BY <1>0, <1>1, <1>5 DEF SetsInv, SliceInv, TailInv, Made
    <2>2. CASE new = array[o]
        <3>1. array'[o] = array[o] /\ cell' = cell
            BY <1>0, <1>1, <2>2 DEF SetsInv, Inv, TypeOK, TopicType
        <3> QED BY <1>0, <1>1, <1>5, <2>1, <2>2, <3>1 DEF Slot
    <2>3. CASE new # array[o]
        <3>1. cell'[o][new] =
                    [j \in 1..new |-> IF j <= array[o] THEN cell[o][array[o]][j] ELSE Nil]
            BY <1>0, <1>1, <2>3 DEF SetsInv, Inv, TypeOK, TopicType
        <3>2. array'[o] = new
            BY <1>0, <1>1 DEF SetsInv, Inv, TypeOK, TopicType
        <3>3. i \in 1..new
            BY <1>0, <1>1, <1>5
        <3>4. cell'[o][array'[o]][i] = IF i <= array[o] THEN cell[o][array[o]][i] ELSE Nil
            BY <3>1, <3>2, <3>3
        <3> QED BY <2>1, <3>4 DEF Slot
    <2> QED BY <2>2, <2>3
<1>6. ASSUME NEW p \in Made PROVE Subscribers(p)' = Subscribers(p)
    <2>1. \A i \in 1..array[p] : Slot(p, i)' = Slot(p, i)
        BY <1>0, SubscribeBeginSlot DEF SetsInv
    <2>2. length[p] \in Nat /\ length[p] <= array[p] /\ array[p] \in Nat /\ p \in Object
        BY MadeTopic DEF SetsInv
    <2>3. CASE p # o
        <3>1. length'[p] = length[p]
            BY <1>0, <2>2, <2>3 DEF SetsInv, Inv, TypeOK, TopicType
        <3> QED BY <2>1, <2>2, <3>1, SubscribersKept
    <2>4. CASE p = o
        <3>1. length'[o] = length[o] + 1
            BY <1>0, <1>1 DEF SetsInv, Inv, TypeOK, TopicType
        <3>2. \A i \in 1..length[o] : Slot(o, i)' = Slot(o, i)
            BY <2>1, <2>2, <2>4
        <3>3. 1..(length[o] + 1) = 1..length[o] \cup {length[o] + 1}
            BY <1>1
        <3>4. Subscribers(o)' = {Slot(o, i)' : i \in 1..length[o] \cup {length[o] + 1}} \ {Nil}
            BY <3>1, <3>3 DEF Subscribers, Slot
        <3>5. Subscribers(o) = {Slot(o, i) : i \in 1..length[o]} \ {Nil}
            BY DEF Subscribers, Slot
        <3> QED BY <1>5, <2>4, <3>2, <3>4, <3>5
    <2> QED BY <2>3, <2>4
<1>7. UNCHANGED membersOf
    BY <1>0, <1>6, TableTopic, MembersKept DEF SetsInv
<1>8. Allocated' = Allocated \cup {s}
    BY <1>0, TopicsAssumption DEF Allocated, SetsInv, Inv, TypeOK, TopicType
<1>9. /\ DOMAIN addressOf = Allocated
      /\ addressOf' = [x \in DOMAIN addressOf \cup {s} |->
                            IF x = s THEN Address(a) ELSE addressOf[x]]
    <2>1. \A x \in Allocated' : subscription'[x] = IF x = s THEN a ELSE subscription[x]
        BY <1>0 DEF Allocated, SetsInv, Inv, TypeOK, TopicType
    <2> QED BY <1>8, <2>1 DEF addressOf
<1>10. ~Sets!Has(n, Address(a))
    <2> SUFFICES ASSUME NEW t \in membersOf[n], addressOf[t] = Address(a) PROVE FALSE
        BY DEF Sets!Has
    <2>1. t \in Subscribers(o) /\ t \in Allocated /\ Address(subscription[t]) = Address(a)
        BY <1>0, <1>1, MembersType DEF SetsInv, addressOf
    <2>2. PICK i \in 1..length[o] : Slot(o, i) = t /\ t # Nil
        BY <2>1 DEF Subscribers
    <2>3. i \in Duplicates(o, a)
        BY <2>1, <2>2 DEF Duplicates, IsDuplicate
    <2> QED BY <1>0, <2>3
<1> QED BY <1>0, <1>1, <1>2, <1>4, <1>7, <1>9, <1>10 DEF Sets!Register

LEMMA SubscribeEndSets ==
    ASSUME SetsInv, NEW c \in Client, SubscribeEnd(c)
    PROVE  \E n \in Name, s \in Sub : Sets!Join(n, s)
<1> SUFFICES ASSUME NEW o, NEW n, NEW s, o = Topic(c), n = call[c].name, s = call[c].sub
             PROVE  n \in Name /\ s \in Sub /\ Sets!Join(n, s)
    OBVIOUS
<1>0. /\ o \in Made /\ length[o] \in 1..array[o] /\ Slot(o, length[o]) = Nil
      /\ UNCHANGED <<Topics, array, length>> /\ pc[c] = "store"
      /\ cell' = [cell EXCEPT ![o][array[o]][length[o]] = s]
      /\ \A i \in 1..array[o] : i # length[o] => Slot(o, i)' = Slot(o, i)
      /\ \A p \in Object \ {o} : \A i : Slot(p, i)' = Slot(p, i)
    BY SubscribeEndSlots DEF SetsInv
<1>1. /\ lock = c /\ UNCHANGED subscription /\ CallOK(c, "store", call[c])
      /\ Typed(call[c], Allocated, Made) /\ pc'[c] # "store"
      /\ \A d \in Client \ {c} : pc'[d] = pc[d]
    BY <1>0, CurrentCall, SMTT(30)
    DEF SubscribeEnd, Subscribed, Answer, Goto, SetsInv, Inv, HoldInv, TypeOK, ClientType
<1>2. /\ n \in Name /\ s \in Allocated /\ s \in Sub /\ s # Nil /\ Topics[n] = o
      /\ o \in Object /\ o # Nil /\ array[o] \in Capacity /\ length[o] \in Nat
    BY <1>0, <1>1, MadeTopic, TopicsAssumption
    DEF SetsInv, CallOK, Typed, Topic, Allocated
<1>3. \A d \in Client \ {c} : pc[d] # "store"
    BY <1>1, Alone DEF SetsInv
<1>4. pendingOf = {<<n, s>>} /\ pendingOf' = {}
    <2>1. \A d \in Client : pc'[d] # "store"
        BY <1>1, <1>3
    <2> QED BY <1>0, <1>3, <2>1 DEF pendingOf
<1>5. Slot(o, length[o])' = s
    BY <1>0, <1>2 DEF Slot, SetsInv, Inv, TypeOK, TopicType
<1>6. Subscribers(o)' = Subscribers(o) \cup {s}
    <2>1. \A i \in 1..length[o] : Slot(o, i)' = IF i = length[o] THEN s ELSE Slot(o, i)
        BY <1>0, <1>2, <1>5, MadeTopic DEF SetsInv
    <2>2. length[o] \in 1..length[o]
        BY <1>0, <1>2
    <2> QED BY <1>0, <1>2, <2>1, <2>2 DEF Subscribers, Slot
<1>7. \A p \in Object \ {o} : Subscribers(p)' = Subscribers(p)
    BY <1>0, SubscribersKept
<1>8. membersOf[n] = Subscribers(o) /\ membersOf' = [membersOf EXCEPT ![n] = @ \cup {s}]
    BY <1>0, <1>2, <1>6, <1>7, MembersType, MembersChange DEF SetsInv
<1>9. n \in topicsOf /\ UNCHANGED <<topicsOf, addressOf>>
    BY <1>0, <1>1, <1>2, AddressesKept DEF topicsOf
<1>10. ~Sets!Has(n, addressOf[s])
    <2> SUFFICES ASSUME NEW t \in membersOf[n], addressOf[t] = addressOf[s] PROVE FALSE
        BY DEF Sets!Has
    <2>1. PICK i \in 1..length[o] : t = Slot(o, i) /\ t # Nil
        BY <1>8 DEF Subscribers, Slot
    <2>2. i \in 1..(length[o] - 1)
        BY <1>0, <1>2, <2>1
    <2>3. Address(subscription[t]) # Address(subscription[s])
        BY <1>0, <2>1, <2>2 DEF SetsInv, SliceInv, StoreOK
    <2>4. t \in Allocated
        BY <1>2, MembersType DEF SetsInv
    <2> QED BY <1>2, <2>3, <2>4 DEF addressOf
<1> QED BY <1>2, <1>4, <1>8, <1>9, <1>10 DEF Sets!Join

LEMMA UnsubscribeShiftSets ==
    ASSUME SetsInv, NEW c \in Client, UnsubscribeShift(c), UNCHANGED pendingOf
    PROVE  [Sets!Next]_Sets!vars
<1> SUFFICES ASSUME NEW o, NEW k, NEW s, o = call[c].topic, k = call[c].i, s = Slot(o, k)
             PROVE  [Sets!Next]_Sets!vars
    OBVIOUS
<1>0. /\ o \in Made /\ k \in 1..length[o] /\ length[o] \in 1..array[o]
      /\ UNCHANGED <<Topics, array, length>>
      /\ \A i \in 1..array[o] :
            Slot(o, i)' = IF i \in k..(length[o] - 1) THEN Slot(o, i + 1) ELSE Slot(o, i)
      /\ \A p \in Object \ {o} : \A i : Slot(p, i)' = Slot(p, i)
    BY UnsubscribeShiftSlots DEF SetsInv
<1>1. UNCHANGED subscription
    BY DEF UnsubscribeShift
<1>2. length[o] \in Nat /\ array[o] \in Nat /\ length[o] <= array[o]
    BY <1>0, MadeTopic DEF SetsInv
<1>3. \A p \in Object \ {o} : Subscribers(p)' = Subscribers(p)
    BY <1>0, SubscribersKept
<1>4. Subscribers(o)' \subseteq Subscribers(o)
    <2> SUFFICES ASSUME NEW i \in 1..length[o], Slot(o, i)' # Nil
                 PROVE  \E j \in 1..length[o] : Slot(o, i)' = Slot(o, j)
        BY <1>0 DEF Subscribers, Slot
    <2>1. i + 1 \in 1..length[o] \/ i \notin k..(length[o] - 1)
        BY <1>0, <1>2
    <2>2. i \in 1..array[o]
        BY <1>2
    <2> QED BY <1>0, <2>1, <2>2, SMTT(30)
<1>5. Subscribers(o) \ {s} \subseteq Subscribers(o)'
    <2> SUFFICES ASSUME NEW i \in 1..length[o], i # k
                 PROVE  \E j \in 1..length[o] : Slot(o, j)' = Slot(o, i)
        BY <1>0 DEF Subscribers, Slot
    <2>1. CASE i < k
        <3>1. i \in 1..array[o] /\ i \notin k..(length[o] - 1)
            BY <1>0, <1>2, <2>1
        <3> QED BY <1>0, <3>1
    <2>2. CASE i > k
        <3>1. /\ i - 1 \in 1..array[o] /\ i - 1 \in 1..length[o] /\ i - 1 \in k..(length[o] - 1)
              /\ (i - 1) + 1 = i
            BY <1>0, <1>2, <2>2
        <3> QED BY <1>0, <3>1
    <2> QED BY <1>0, <1>2, <2>1, <2>2, SMTT(30)
<1>6. Subscribers(o)' \in {Subscribers(o), Subscribers(o) \ {s}}
    BY <1>4, <1>5
<1>7. Inv /\ TableInv /\ o \in Made /\ UNCHANGED Topics
    BY <1>0 DEF SetsInv
<1> QED BY <1>1, <1>3, <1>6, <1>7, OneLeaves

LEMMA UnsubscribeCutSets ==
    ASSUME SetsInv, NEW c \in Client, UnsubscribeCut(c), UNCHANGED pendingOf
    PROVE  [Sets!Next]_Sets!vars
<1> SUFFICES ASSUME NEW o, NEW s, o = call[c].topic, s = Slot(o, length[o])
             PROVE  [Sets!Next]_Sets!vars
    OBVIOUS
<1>0. /\ o \in Made /\ length[o] \in 1..array[o] /\ array[o] \in Nat
      /\ UNCHANGED <<Topics, array>> /\ length' = [length EXCEPT ![o] = @ - 1]
      /\ \A i \in 1..array[o] : i # length[o] => Slot(o, i)' = Slot(o, i)
      /\ \A p \in Object \ {o} : \A i : Slot(p, i)' = Slot(p, i)
    BY UnsubscribeCutSlots DEF SetsInv
<1>1. UNCHANGED subscription
    BY DEF UnsubscribeCut
<1>2. /\ o \in Object /\ length[o] \in Nat /\ length[o] <= array[o]
      /\ length'[o] = length[o] - 1
      /\ \A p \in Object \ {o} : length'[p] = length[p]
    BY <1>0, MadeTopic DEF SetsInv, Inv, TypeOK, TopicType
<1>3. \A p \in Object \ {o} : Subscribers(p)' = Subscribers(p)
    BY <1>0, <1>2, SubscribersKept
<1>4. \A i \in 1..(length[o] - 1) : Slot(o, i)' = Slot(o, i)
    BY <1>0, <1>2
<1>5. 1..length[o] = 1..(length[o] - 1) \cup {length[o]}
    BY <1>0, <1>2
<1>6. Subscribers(o)' \in {Subscribers(o), Subscribers(o) \ {s}}
    <2>1. Subscribers(o)' = {Slot(o, i) : i \in 1..(length[o] - 1)} \ {Nil}
        BY <1>2, <1>4 DEF Subscribers, Slot
    <2>2. Subscribers(o) = ({Slot(o, i) : i \in 1..(length[o] - 1)} \cup {s}) \ {Nil}
        BY <1>5 DEF Subscribers, Slot
    <2> QED BY <2>1, <2>2
<1>7. Inv /\ TableInv /\ o \in Made /\ UNCHANGED Topics
    BY <1>0 DEF SetsInv
<1> QED BY <1>1, <1>3, <1>6, <1>7, OneLeaves

LEMMA SetAttributesSets ==
    ASSUME SetsInv, NEW c \in Client, SetSubscriptionAttributes(c), UNCHANGED pendingOf
    PROVE  UNCHANGED Sets!vars
<1> SUFFICES ASSUME NEW s, NEW a, s = call[c].sub, a = call[c].arg
             PROVE  UNCHANGED Sets!vars
    OBVIOUS
<1>1. /\ pc[c] = "lock" /\ Is(c, "SetSubscriptionAttributes")
      /\ UNCHANGED <<Topics, array, length, cell>>
      /\ \/ subscription' = [subscription EXCEPT ![s].raw = a.raw]
         \/ subscription' = [subscription EXCEPT ![s].policy = a.policy]
    BY DEF SetSubscriptionAttributes, At
<1>2. UNCHANGED <<topicsOf, membersOf>>
    BY <1>1 DEF topicsOf, membersOf, Subscribers, Slot
<1>3. /\ s \in Allocated /\ s \in Sub /\ subscription[s] \in Subscription
      /\ a.raw \in BOOLEAN /\ a.policy \in Policy
    <2>1. s \in Allocated /\ a \in AttributeInputs
        BY <1>1, CurrentCall DEF SetsInv, CallOK, Typed, Is, Naming, Argument
    <2> QED BY <2>1, TopicsAssumption DEF Allocated, SetsInv, Inv, TypeOK, TopicType
<1>4. /\ subscription'[s] \in Subscription
      /\ Address(subscription'[s]) = Address(subscription[s])
      /\ \A t \in Sub : t # s => subscription'[t] = subscription[t]
    BY <1>1, <1>3 DEF Subscription, Address, SetsInv, Inv, TypeOK, TopicType
<1>5. /\ Allocated' = Allocated
      /\ \A t \in Allocated : Address(subscription'[t]) = Address(subscription[t])
    BY <1>3, <1>4, TopicsAssumption DEF Allocated
<1>6. UNCHANGED addressOf
    BY <1>5 DEF addressOf
<1> QED BY <1>2, <1>6 DEF Sets!vars

-----------------------------------------------------------------------------
(* The refinement. *)

LEMMA StopWild ==
    ASSUME NEW c \in Client, Stop,
           Step(c) \/ (\E h \in Handlers[c], n \in Name : Request(c, h, n))
    PROVE  RangeWild(c)
<1>1. crashed'
    BY DEF Stop
<1>2. ~crashed /\ (UNCHANGED crashed \/ RangeWild(c))
    BY DEF Step, At, Request, sharedVars, Check, TopicsNext, TopicsEnd, RangeArray, RangeLength,
       RangeEnd, RangeWild, RangeNil, RangeEntry, Reads, SubscribeDuplicate, SubscribePanic,
       UnsubscribePanic, IssueToken, PostConfirmation, ConfirmSubscription, PublishPost,
       PublishQueue, PublishAppend, WriteBegin, CreateTopic, DeleteTopic, SubscribeBegin,
       SubscribeEnd, UnsubscribeShift, UnsubscribeCut, SetSubscriptionAttributes, mutexVars
<1> QED BY <1>1, <1>2

\* The goroutines stop, and with them the one that was about to store an entry.
LEMMA StopSets ==
    ASSUME Stop, UNCHANGED topicVars
    PROVE  Sets!Abandon
<1>1. pendingOf' = {}
    BY DEF Stop, pendingOf
<1> QED BY <1>1, SlicesKept DEF topicVars, Sets!Abandon

\* Only the two halves of Subscribe come from the store or go there.
LEMMA StorePlace ==
    ASSUME Inv, NEW c \in Client, ~Stop, ~SubscribeBegin(c), ~SubscribeEnd(c),
           Step(c) \/ (\E h \in Handlers[c], n \in Name : Request(c, h, n))
    PROVE  pc[c] # "store" /\ pc'[c] # "store"
<1>0. DOMAIN pc = Client
    BY SMTT(30) DEF Inv, TypeOK, ClientType
<1>1. CASE \/ WriteBegin(c) \/ (\E o \in Object : CreateTopic(c, o)) \/ DeleteTopic(c)
           \/ SubscribePanic(c) \/ UnsubscribePanic(c) \/ UnsubscribeShift(c) \/ UnsubscribeCut(c)
           \/ SetSubscriptionAttributes(c)
    BY <1>0, <1>1 DEF WriteBegin, CreateTopic, DeleteTopic, SubscribePanic, UnsubscribePanic,
       UnsubscribeShift, UnsubscribeCut, SetSubscriptionAttributes, Answer, Goes, Goto, At
<1>2. CASE \/ (\E h \in Handlers[c], n \in Name : Request(c, h, n))
           \/ Check(c) \/ (\E n \in Name : TopicsNext(c, n)) \/ TopicsEnd(c) \/ RangeArray(c)
           \/ RangeLength(c) \/ RangeEnd(c) \/ RangeWild(c) \/ RangeNil(c)
           \/ (\E s \in Sub : RangeEntry(c, s)) \/ SubscribeDuplicate(c)
           \/ IssueToken(c) \/ PostConfirmation(c)
           \/ ConfirmSubscription(c) \/ PublishPost(c) \/ PublishQueue(c) \/ PublishAppend(c)
    <2>1. pc[c] # "store"
        BY <1>2 DEF Request, Check, TopicsNext, TopicsEnd, RangeArray, RangeLength,
           RangeEnd, RangeWild, RangeNil, RangeEntry, Reads, SubscribeDuplicate, IssueToken,
           PostConfirmation, ConfirmSubscription, PublishPost, PublishQueue, PublishAppend, At
    <2>2. pc'[c] # "store"
        BY <1>0, <1>2, <2>1 DEF Request, FirstPlace, Check, CreateCheck, UseCheck, TopicsNext,
           TopicsEnd, RangeArray, RangeLength, RangeEnd, RangeWild, RangeNil, RangeEntry,
           PublishEntry, AttributesEntry, Serve, Advance, SubscribeDuplicate, Subscribed,
           IssueToken, PostConfirmation, ConfirmSubscription, PublishPost, PublishQueue,
           PublishAppend, Answer, Goes, Goto, At
    <2> QED BY <2>1, <2>2, SMTT(30)
<1> QED BY <1>1, <1>2 DEF Step

LEMMA SetsInit == Init => Sets!Init
<1> SUFFICES ASSUME Init, NEW t \in Loaded, LoadTable(t) PROVE Sets!Init
    BY DEF Init
<1>0. /\ TopicType /\ TableInv
      /\ \A o \in Object : \A i \in 1..length[o] : Slot(o, i) = t.entries[o][i]
      /\ \A o \in Object : length[o] = Len(t.entries[o])
    BY LoadedType, LoadedAssumption DEF LoadTable, TableInv
<1>1. topicsOf \subseteq Name /\ \A n \in Name \ topicsOf : membersOf[n] = {}
    BY DEF topicsOf, membersOf
<1>2. /\ Allocated \subseteq Sub /\ DOMAIN addressOf = Allocated
      /\ addressOf \in [Allocated -> Arn \X Endpoint]
    BY <1>0 DEF TopicType, Allocated, addressOf, Address, Subscription
<1>3. ASSUME NEW n \in Name, NEW s \in membersOf[n]
      PROVE  /\ Topics[n] \in Object /\ Topics[n] # Nil /\ s \in Allocated
             /\ \E i \in 1..Len(t.entries[Topics[n]]) : t.entries[Topics[n]][i] = s
    <2>1. Topics[n] # Nil /\ s \in Subscribers(Topics[n])
        BY DEF membersOf
    <2>2. Topics[n] \in Object /\ array[Topics[n]] # Nil
        BY <1>0, <2>1 DEF TopicType
    <2>3. PICK i \in 1..length[Topics[n]] : Slot(Topics[n], i) = s /\ s # Nil
        BY <2>1 DEF Subscribers
    <2>4. i \in 1..Len(t.entries[Topics[n]]) /\ t.entries[Topics[n]][i] = s
        BY <1>0, <2>2, <2>3
    <2>5. s \in Sub /\ subscription[s] # Nil
        BY <2>2, <2>3, <2>4, LoadedType, LoadedAssumption DEF LoadTable
    <2> QED BY <2>1, <2>2, <2>4, <2>5 DEF Allocated
<1>4. membersOf \in [Name -> SUBSET DOMAIN addressOf]
    <2>1. \A n \in Name : membersOf[n] \in SUBSET DOMAIN addressOf
        BY <1>2, <1>3
    <2> QED BY <2>1 DEF membersOf
<1>5. ASSUME NEW n \in Name, NEW k \in Name, n # k PROVE membersOf[n] \cap membersOf[k] = {}
    <2> SUFFICES ASSUME NEW s \in membersOf[n], s \in membersOf[k] PROVE FALSE
        OBVIOUS
    <2>1. Topics[n] = Topics[k] /\ Topics[n] # Nil
        BY <1>3, LoadedAssumption
    <2> QED BY <1>0, <1>5, <2>1 DEF TableInv
<1>6. pendingOf = {}
    BY NonePending DEF Init
<1> QED BY <1>1, <1>2, <1>4, <1>5, <1>6 DEF Sets!Init

LEMMA SetsStep == SetsInv /\ [Next]_vars => [Sets!Next]_Sets!vars
<1> SUFFICES ASSUME SetsInv, [Next]_vars PROVE [Sets!Next]_Sets!vars
    OBVIOUS
<1>0. Inv
    BY DEF SetsInv
<1>1. ASSUME UNCHANGED topicVars, \A d \in Client : Rests(d) PROVE UNCHANGED Sets!vars
    BY <1>1, SlicesKept, PendingKept DEF topicVars, Sets!vars
<1>2. ASSUME NEW c \in Client, Stop,
             Step(c) \/ (\E h \in Handlers[c], n \in Name : Request(c, h, n))
      PROVE  [Sets!Next]_Sets!vars
    <2>1. RangeWild(c)
        BY <1>2, StopWild
    <2> QED BY <1>2, <2>1, StopSets DEF RangeWild, Sets!Next
<1>3. ASSUME NEW c \in Client, ~Stop,
             Step(c) \/ (\E h \in Handlers[c], n \in Name : Request(c, h, n))
      PROVE  [Sets!Next]_Sets!vars
    <2>1. CASE SubscribeBegin(c)
        BY <2>1, SubscribeBeginSets DEF Sets!Next
    <2>2. CASE SubscribeEnd(c)
        BY <2>2, SubscribeEndSets DEF Sets!Next
    <2>3. CASE ~SubscribeBegin(c) /\ ~SubscribeEnd(c)
        <3>1. UNCHANGED pendingOf
            <4>1. \A d \in Client \ {c} : Rests(d)
                BY <1>0, <1>3, OthersRest
            <4>2. pc[c] # "store" /\ pc'[c] # "store"
                BY <1>0, <1>3, <2>3, StorePlace
            <4> QED BY <4>1, <4>2, PendingKept
        <3>2. CASE UNCHANGED topicVars
            BY <3>1, <3>2, SlicesKept DEF topicVars, Sets!vars
        <3>3. ASSUME NEW o \in Object, CreateTopic(c, o) PROVE [Sets!Next]_Sets!vars
            BY <3>1, <3>3, CreateTopicSets DEF Sets!Next
        <3>4. CASE DeleteTopic(c)
            BY <3>1, <3>4, DeleteTopicSets
        <3>5. CASE UnsubscribeShift(c)
            BY <3>1, <3>5, UnsubscribeShiftSets
        <3>6. CASE UnsubscribeCut(c)
            BY <3>1, <3>6, UnsubscribeCutSets
        <3>7. CASE SetSubscriptionAttributes(c)
            BY <3>1, <3>7, SetAttributesSets
        <3>8. WriteBegin(c) => UNCHANGED topicVars
            BY DEF WriteBegin
        <3> QED BY <1>3, <2>3, <3>2, <3>3, <3>4, <3>5, <3>6, <3>7, <3>8, QuietStep
    <2> QED BY <2>1, <2>2, <2>3
<1>4. ASSUME NEW q \in QueueEndpoint, CreateQueue(q) \/ DeleteQueue(q)
      PROVE  UNCHANGED Sets!vars
    <2>1. UNCHANGED <<topicVars, pc>>
        BY <1>4 DEF CreateQueue, DeleteQueue, clientVars
    <2>2. \A d \in Client : Rests(d)
        <3>1. CASE UNCHANGED call
            BY <2>1, <3>1 DEF Rests, SameCall
        <3>2. ASSUME NEW S, call' = Releasing(S, call), NEW d \in Client
              PROVE  Rests(d)
            <4>1. call'[d] = Released(call[d], S)
                BY <3>2 DEF Releasing, Released
            <4> QED BY <1>0, <2>1, <4>1, CurrentCall, ReleasedTyped DEF Rests, SameCall
        <3> QED BY <1>4, <3>1, <3>2 DEF CreateQueue, DeleteQueue, clientVars
    <2> QED BY <1>1, <2>1, <2>2
<1>5. CASE UNCHANGED vars
    BY <1>1, <1>5 DEF vars, sharedVars, clientVars, Rests, SameCall
<1>6. CASE Crash
    BY <1>6, StopSets DEF Crash, Sets!Next
<1> QED BY <1>2, <1>3, <1>4, <1>5, <1>6 DEF Next

\* The slices of subscriptions implement sets: for every file, every capacity, every
\* interleaving and every stale position, a step joins or takes away one subscription
\* of one topic, or a whole topic, and no step joins an address that the topic has.
THEOREM TopicsRefine == Spec => Implements
<1>1. SetsInv /\ [Next]_vars => [Sets!Next]_Sets!vars
    BY SetsStep
<1> QED BY <1>1, SetsInit, SetsInvCorrect, PTL DEF Spec, Implements, Sets!Spec

-----------------------------------------------------------------------------
(* What the sets promise. *)

\* Members and those who wait were made, and wait for one topic each.
SoundInv ==
    /\ Sets!Sound
    /\ membersOf \in [Name -> SUBSET DOMAIN addressOf]
    /\ pendingOf \subseteq Name \X DOMAIN addressOf
    /\ \A n, k \in Name, s \in Sub : <<n, s>> \in pendingOf /\ <<k, s>> \in pendingOf => n = k

LEMMA SoundStep == SoundInv /\ [Sets!Next]_Sets!vars => SoundInv'
<1> SUFFICES ASSUME SoundInv, [Sets!Next]_Sets!vars PROVE SoundInv'
    OBVIOUS
<1>1. ASSUME NEW n \in Name, Sets!Create(n) PROVE SoundInv'
    BY <1>1 DEF Sets!Create, SoundInv, Sets!Sound
<1>2. ASSUME NEW n \in Name, Sets!Drop(n) PROVE SoundInv'
    BY <1>2 DEF Sets!Drop, SoundInv, Sets!Sound
<1>3. ASSUME NEW n \in Name, NEW s \in Sub, NEW p \in Arn \X Endpoint,
             Sets!Register(n, s, p)
      PROVE  SoundInv'
    BY <1>3 DEF Sets!Register, SoundInv, Sets!Sound
<1>4. ASSUME NEW n \in Name, NEW s \in Sub, Sets!Join(n, s) PROVE SoundInv'
    BY <1>4 DEF Sets!Join, Sets!Has, SoundInv, Sets!Sound
<1>5. ASSUME NEW n \in Name, NEW s \in Sub, Sets!Leave(n, s) PROVE SoundInv'
    BY <1>5 DEF Sets!Leave, SoundInv, Sets!Sound
<1>6. CASE Sets!Abandon
    BY <1>6 DEF Sets!Abandon, SoundInv, Sets!Sound
<1>7. CASE UNCHANGED Sets!vars
    BY <1>7 DEF Sets!vars, SoundInv, Sets!Sound
<1> QED BY <1>1, <1>2, <1>3, <1>4, <1>5, <1>6, <1>7 DEF Sets!Next

\* What SubscriberSets promises of every behaviour, and the topics keep because they
\* implement it: no subscription is in two topics, and what has not been stored yet is
\* in none.
THEOREM SubscribersSound == Spec => []Sets!Sound
<1>1. Sets!Init => SoundInv
    BY DEF Sets!Init, SoundInv, Sets!Sound
<1>2. SoundInv => Sets!Sound
    BY DEF SoundInv
<1> QED BY <1>1, <1>2, SoundStep, TopicsRefine, PTL DEF Implements, Sets!Spec

\* Of two members with one address, one was not the last to join.
LEMMA OnceStep ==
    ASSUME SoundInv, [Sets!Next]_Sets!vars, NEW n \in Name, NEW s, NEW t, s # t,
           s \in membersOf'[n], t \in membersOf'[n], addressOf'[s] = addressOf'[t]
    PROVE  s \in membersOf[n] /\ t \in membersOf[n]
<1>1. ASSUME NEW k \in Name, Sets!Create(k) \/ Sets!Drop(k)
      PROVE  s \in membersOf[n] /\ t \in membersOf[n]
    BY <1>1 DEF Sets!Create, Sets!Drop, SoundInv
<1>2. ASSUME NEW k \in Name, NEW x \in Sub, Sets!Join(k, x)
      PROVE  s \in membersOf[n] /\ t \in membersOf[n]
    BY <1>2 DEF Sets!Join, Sets!Has, SoundInv
<1>3. ASSUME NEW k \in Name, NEW x \in Sub, Sets!Leave(k, x)
      PROVE  s \in membersOf[n] /\ t \in membersOf[n]
    BY <1>3 DEF Sets!Leave, SoundInv
<1>4. UNCHANGED membersOf => s \in membersOf[n] /\ t \in membersOf[n]
    OBVIOUS
<1> QED BY <1>1, <1>2, <1>3, <1>4
        DEF Sets!Next, Sets!Register, Sets!Abandon, Sets!vars

LEMMA ListsMembers ==
    ASSUME NEW n \in Name, NEW s
    PROVE  (Lists(n, s) <=> s \in membersOf[n]) /\ (Lists(n, s)' <=> s \in membersOf'[n])
BY DEF Lists, membersOf, Subscribers, Slot

\* Whatever comes between the look for a duplicate and the entry that is stored two
\* steps later, no step makes two subscriptions of a topic that have one address.
THEOREM SubscribedOnceCorrect == Spec => SubscribedOnce
<1>1. ASSUME SoundInv, SoundInv', [Sets!Next]_Sets!vars, NEW n \in Name,
             NEW s \in Sub, NEW t \in Sub, s # t, (Lists(n, s) /\ Lists(n, t))',
             Address(subscription'[s]) = Address(subscription'[t])
      PROVE  Lists(n, s) /\ Lists(n, t)
    <2>1. s \in membersOf'[n] /\ t \in membersOf'[n]
        BY <1>1, ListsMembers
    <2>2. s \in Allocated' /\ t \in Allocated'
        BY <1>1, <2>1 DEF SoundInv, addressOf
    <2>3. addressOf'[s] = addressOf'[t]
        BY <1>1, <2>2 DEF addressOf
    <2> QED BY <1>1, <2>1, <2>3, OnceStep, ListsMembers
<1>2. SoundInv /\ SoundInv' /\ [Sets!Next]_Sets!vars =>
        [\A n \in Name, s, t \in Sub :
            /\ s # t /\ (Lists(n, s) /\ Lists(n, t))'
            /\ Address(subscription'[s]) = Address(subscription'[t])
            => Lists(n, s) /\ Lists(n, t)]_vars
    BY <1>1
<1>3. Sets!Init => SoundInv
    BY DEF Sets!Init, SoundInv, Sets!Sound
<1> QED BY <1>2, <1>3, SoundStep, TopicsRefine, PTL
        DEF Implements, Sets!Spec, SubscribedOnce
=============================================================================
