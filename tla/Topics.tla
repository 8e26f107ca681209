------------------------------- MODULE Topics -------------------------------
(***************************************************************************)
(* The topics of GoAws, app.SyncTopics, their subscriptions, and the SNS   *)
(* handlers: what publishers, subscribers and unsubscribers do to each     *)
(* other.                                                                  *)
(*                                                                         *)
(* Handlers iterate over topics and subscriptions without the mutex and    *)
(* write them with it.  A topic's subscriptions are a Go slice, and are    *)
(* one here: a header (array and length) that is read word by word, and    *)
(* arrays that live on while somebody iterates over them.  append doubles  *)
(* an array that is full, so the arrays of a topic are told apart by their *)
(* capacity.  A panic ends the request and leaves a mutex that the handler *)
(* holds locked; Go's maps stop the process when they see a read or write  *)
(* during a write.                                                         *)
(***************************************************************************)
EXTENDS Naturals, FiniteSets, Sequences

CONSTANTS
    Client,                 \* connections of the HTTP server
    Name,                   \* names of topics
    Arn, TopicName,         \* ARNs of topics -> their last segments, the names
    Object,                 \* bound: the Topic objects that may be allocated
    Sub,                    \* bound: the Subscription objects, and their ARNs
    QueueEndpoint,          \* endpoints of protocol sqs: the queues they name
    HttpEndpoint,           \* endpoints of protocol http and https
    Capacity,               \* bound: the capacities that arrays may have
    Handlers,               \* client -> the handlers it calls
    MaxTokens,              \* bound: confirmation tokens issued
    MaxDeletions,           \* bound: deletions of topics and queues
    Free,                   \* a mutex is free
    Nil                     \* a nil pointer

CONSTANTS                   \* what requests and configuration files carry
    Policy,                 \* filter policies: attribute -> the values that pass
    SubscribeInputs,        \* Subscribe: topic ARN, endpoint, raw and policy
    PublishInputs,          \* Publish: attributes; broken: JSON structure, no default
    AttributeInputs,        \* SetSubscriptionAttributes: attribute and its value
    Loaded                  \* tables that configuration files leave

AllHandlers ==
    {"CreateTopic", "DeleteTopic", "ListTopics", "Subscribe", "Unsubscribe",
     "ConfirmSubscription", "ListSubscriptions", "ListSubscriptionsByTopic",
     "SetSubscriptionAttributes", "GetSubscriptionAttributes", "Publish"}

Endpoint == QueueEndpoint \cup HttpEndpoint

Subscription == [arn : Arn, endpoint : Endpoint, raw : BOOLEAN, policy : Policy]

\* The table after LoadYamlConfig: names and their topics, the capacity of each
\* topic's array, the subscriptions in it, in the order of the file, and the queues.
Table ==
    [topics : [Name -> Object \cup {Nil}], array : [Object -> Capacity \cup {Nil}],
     entries : [Object -> Seq(Sub)], subscription : [Sub -> Subscription \cup {Nil}],
     queues : SUBSET QueueEndpoint]

ASSUME TopicsAssumption ==
    /\ Free \notin Client
    /\ Nil \notin Object \cup Sub \cup Subscription \cup Nat
    /\ SubscribeInputs \subseteq Subscription
    /\ \A a \in AttributeInputs : a.raw \in BOOLEAN /\ a.policy \in Policy
    /\ IsFiniteSet(Client)
    /\ QueueEndpoint \cap HttpEndpoint = {}
    /\ Handlers \in [Client -> SUBSET AllHandlers]
    /\ MaxTokens \in Nat /\ MaxDeletions \in Nat
    /\ Capacity \subseteq Nat /\ 0 \in Capacity
    /\ TopicName \in [Arn -> Name]

\* The loader makes a Topic for each name and a Subscription for each entry.  It does
\* not look for entries of one endpoint, nor at the ARNs that HTTP entries bring.
ASSUME LoadedAssumption ==
    \A t \in Loaded :
        /\ t \in Table
        /\ \A n \in Name : t.topics[n] # Nil => t.array[t.topics[n]] # Nil
        /\ \A n, k \in Name : t.topics[n] # Nil /\ t.topics[n] = t.topics[k] => n = k
        /\ \A o \in Object :
            IF t.array[o] = Nil THEN t.entries[o] = <<>> ELSE Len(t.entries[o]) <= t.array[o]
        /\ \A o \in Object : \A i \in 1..Len(t.entries[o]) :
            t.subscription[t.entries[o][i]] # Nil
        /\ \A o, p \in Object : \A i \in 1..Len(t.entries[o]), j \in 1..Len(t.entries[p]) :
            t.entries[o][i] = t.entries[p][j] => o = p /\ i = j

VARIABLES
    Topics,                 \* name -> its topic, or Nil
    array,                  \* topic -> the capacity of its slice: which array
    length,                 \* topic -> the length of its slice
    cell,                   \* topic -> capacity -> index -> subscription, or Nil
    subscription,           \* subscription -> its topic ARN, endpoint, raw and policy
    TopicData,              \* TOPIC_DATA: topic ARN -> pending confirmation, or Nil
    Queues,                 \* the queues that exist
    lock,                   \* who holds the mutex of SyncTopics
    queuesLock,             \* who holds the mutex of SyncQueues
    crashed                 \* the Go runtime has stopped the process

VARIABLES
    pc,                     \* client -> where its handler is
    call,                   \* client -> its request and the handler's locals
    issued,                 \* history: token -> what it confirms
    deleted,                \* history: the deletions of topics and queues
    overlapped              \* history: an Unsubscribe met the removal of another

topicVars == <<Topics, array, length, cell, subscription>>
mutexVars == <<lock, queuesLock, crashed>>
confirmVars == <<TopicData, issued>>
clientVars == <<pc, call>>
hazardVars == <<deleted, overlapped>>
sharedVars == <<topicVars, Queues, mutexVars, confirmVars, hazardVars>>
vars == <<sharedVars, clientVars>>

NoCall ==
    [handler |-> "none",
     name |-> Nil,                  \* the topic it names
     sub |-> Nil,                   \* the subscription it names or makes
     arg |-> Nil,                   \* what else it brings
     left |-> {},                   \* topics left to look at
     topic |-> Nil,                 \* range: the topic,
     cap |-> 0,                     \*   the array,
     len |-> 0,                     \*   the length and
     i |-> 0,                       \*   the index
     due |-> {},                    \* history: subscriptions Publish has to serve
     got |-> [s \in Sub |-> 0]]     \* history: times it served each

-----------------------------------------------------------------------------
(* Helpers. *)

At(c, p) == pc[c] = p /\ ~crashed

Goto(c, p) == pc' = [pc EXCEPT ![c] = p]

Goes(c, p) == Goto(c, p) /\ UNCHANGED call

\* The handler returns, or panics; either way the goroutine is done with it.
Answer(c) == Goto(c, "idle") /\ call' = [call EXCEPT ![c] = NoCall]

\* The process stops, and its goroutines with it.
Stop ==
    /\ crashed' = TRUE
    /\ pc' = [c \in Client |-> "idle"] /\ call' = [c \in Client |-> NoCall]
    /\ UNCHANGED <<lock, queuesLock>>

Is(c, h) == call[c].handler = h

Topic(c) == Topics[call[c].name]

\* Entry i of the array that o has now.
Slot(o, i) == cell[o][array[o]][i]

\* What is in the slice that o has now.
Subscribers(o) == {Slot(o, i) : i \in 1..length[o]} \ {Nil}

\* What the duplicate check compares: the topic's ARN, as the request or the file
\* spells it, and the endpoint.
Address(sub) == <<sub.arn, sub.endpoint>>

\* (mutant) the check finds none
IsDuplicateNever(o, i, a) == FALSE

\* Entry i of o is for the endpoint and ARN of a.
IsDuplicate(o, i, a) ==
    Slot(o, i) # Nil /\ Address(subscription[Slot(o, i)]) = Address(a)

Duplicates(o, a) == {i \in 1..length[o] : IsDuplicate(o, i, a)}

IsSatisfiedBy(policy, attributes) ==
    \A a \in DOMAIN policy :
        /\ a \in DOMAIN attributes
        /\ attributes[a].DataType = "String"
        /\ attributes[a].Value \in policy[a]

\* (history) Publish owes nothing to the subscriptions of S from now on.
Releasing(S, calls) == [c \in Client |-> [calls[c] EXCEPT !.due = @ \ S]]

-----------------------------------------------------------------------------
(* Requests, and the look at the table without the mutex. *)

Naming == {"Unsubscribe", "SetSubscriptionAttributes", "GetSubscriptionAttributes"}

Iterating == Naming \cup {"ListTopics", "ListSubscriptions"}

FirstPlace(h) == IF h = "ConfirmSubscription" THEN "confirm"
                 ELSE IF h \in Iterating THEN "topics" ELSE "check"

Allocated == {s \in Sub : subscription[s] # Nil}

\* The ARN of a subscription is a UUID.
NewSub == CHOOSE s \in Sub : s \notin Allocated

\* The tokens that HTTP endpoints have been sent.
Posted ==
    1..Len(issued) \ {call[d].i : d \in {e \in Client : Is(e, "Subscribe") /\ pc[e] = "post"}}

\* The model's bound leaves room for one more token.
TokenLeft == Len(issued) + Cardinality({d \in Client : Is(d, "Subscribe")}) < MaxTokens

Arguments(h, n) ==
    CASE h = "Subscribe" ->
            {a \in SubscribeInputs : /\ TopicName[a.arn] = n
                                     /\ a.endpoint \in HttpEndpoint => TokenLeft}
      [] h = "Publish" -> PublishInputs
      [] h = "SetSubscriptionAttributes" -> AttributeInputs
      [] h = "ConfirmSubscription" -> {k \in Posted : TopicName[issued[k].arn] = n}
      [] OTHER -> {Nil}

Request(c, h, n) ==
    /\ At(c, "idle")
    /\ Goto(c, FirstPlace(h))
    /\ \E s \in IF h \in Naming THEN Allocated ELSE {Nil},
          a \in Arguments(h, n) :
          call' = [call EXCEPT ![c] =
                    [NoCall EXCEPT !.handler = h, !.name = n, !.sub = s, !.arg = a,
                        !.left = {k \in Name : h \in Iterating /\ Topics[k] # Nil}]]
    /\ UNCHANGED sharedVars

CreateCheck(c) == IF Topic(c) # Nil THEN Answer(c) ELSE Goes(c, "lock")

\* The handlers that need the topic.
UseCheck(c) ==
    IF Topic(c) = Nil THEN Answer(c)
    ELSE CASE Is(c, "Publish") -> Goes(c, "array")
           [] Is(c, "ListSubscriptionsByTopic") ->
                call' = [call EXCEPT ![c].topic = Topic(c)] /\ Goto(c, "array")
           [] OTHER -> Goes(c, "lock")

Check(c) ==
    /\ At(c, "check")
    /\ IF Is(c, "CreateTopic") THEN CreateCheck(c) ELSE UseCheck(c)
    /\ UNCHANGED sharedVars

-----------------------------------------------------------------------------
(* CreateTopic and DeleteTopic: the write of the map is two steps. *)

WriteBegin(c) ==
    /\ At(c, "lock") /\ call[c].handler \in {"CreateTopic", "DeleteTopic"}
    /\ lock = Free
    /\ lock' = c
    /\ IF Is(c, "CreateTopic") THEN \E o \in Object : array[o] = Nil ELSE deleted < MaxDeletions
    /\ deleted' = IF Is(c, "DeleteTopic") THEN deleted + 1 ELSE deleted
    /\ Goes(c, "write")
    /\ UNCHANGED <<topicVars, Queues, queuesLock, crashed, confirmVars, overlapped>>

CreateTopic(c, o) ==
    /\ At(c, "write") /\ Is(c, "CreateTopic")
    /\ array[o] = Nil
    /\ Topics' = [Topics EXCEPT ![call[c].name] = o]
    /\ array' = [array EXCEPT ![o] = 0]
    /\ lock' = Free
    /\ Answer(c)
    /\ UNCHANGED <<length, cell, subscription, Queues, queuesLock, crashed, confirmVars,
                   hazardVars>>

DeleteTopic(c) ==
    /\ At(c, "write") /\ Is(c, "DeleteTopic")
    /\ Topics' = [Topics EXCEPT ![call[c].name] = Nil]
    /\ lock' = Free
    /\ Answer(c)
    /\ UNCHANGED <<array, length, cell, subscription, Queues, queuesLock, crashed, confirmVars,
                   hazardVars>>

-----------------------------------------------------------------------------
(* Iterating: `for i, sub := range topic.Subscriptions'.  The header is    *)
(* read once, its array before its length, and each entry when its turn    *)
(* comes.                                                                  *)

\* The next topic of `range app.SyncTopics.Topics', if it is still there.
TopicsNext(c, n) ==
    /\ At(c, "topics") /\ n \in call[c].left
    /\ IF Topics[n] = Nil \/ Is(c, "ListTopics")
       THEN call' = [call EXCEPT ![c].left = @ \ {n}] /\ UNCHANGED pc
       ELSE /\ call' = [call EXCEPT ![c].left = @ \ {n}, ![c].topic = Topics[n]]
            /\ Goto(c, "array")
    /\ UNCHANGED sharedVars

\* The list is complete, or the subscription was not found.
TopicsEnd(c) ==
    /\ At(c, "topics") /\ call[c].left = {}
    /\ Answer(c)
    /\ UNCHANGED sharedVars

\* (history) The subscriptions of o but for the last entry, while it is cut off.
Staying(o) ==
    IF \E d \in Client : pc[d] = "cut" /\ call[d].topic = o
    THEN Subscribers(o) \ {Slot(o, length[o])}
    ELSE Subscribers(o)

\* (history) What a Publish that begins to iterate over o has to serve: every
\* subscription over HTTP, and those whose queue exists and whose filter lets it pass.
Due(o, attributes) ==
    {s \in Staying(o) :
        \/ subscription[s].endpoint \in HttpEndpoint
        \/ /\ subscription[s].endpoint \in Queues
           /\ IsSatisfiedBy(subscription[s].policy, attributes)}

\* Publish finds its topic once more: a nil topic is a panic.
RangeArray(c) ==
    /\ At(c, "array")
    /\ IF Is(c, "Publish") /\ Topic(c) = Nil THEN Answer(c)
       ELSE LET o == IF Is(c, "Publish") THEN Topic(c) ELSE call[c].topic
            IN  /\ call' = [call EXCEPT ![c].topic = o, ![c].cap = array[o], ![c].i = 1,
                       ![c].due = IF Is(c, "Publish") THEN Due(o, call[c].arg.attributes)
                                  ELSE {}]
                /\ Goto(c, "length")
    /\ UNCHANGED sharedVars

RangeLength(c) ==
    /\ At(c, "length")
    /\ call' = [call EXCEPT ![c].len = length[call[c].topic]]
    /\ Goto(c, "range")
    /\ UNCHANGED sharedVars

\* On to the next entry.  (Publish forgets the one it has served.)
Advance(c) ==
    /\ Goto(c, "range")
    /\ call' = [call EXCEPT ![c].i = @ + 1, ![c].sub = IF Is(c, "Publish") THEN Nil ELSE @]

\* The slice is exhausted: Publish answers, and so does ListSubscriptionsByTopic;
\* the others look at the next topic.
RangeEnd(c) ==
    /\ At(c, "range") /\ call[c].i > call[c].len
    /\ IF call[c].handler \in {"Publish", "ListSubscriptionsByTopic"} THEN Answer(c)
       ELSE /\ Goto(c, "topics")
            /\ call' = [call EXCEPT ![c].topic = Nil, ![c].cap = 0, ![c].len = 0, ![c].i = 0]
    /\ UNCHANGED sharedVars

\* The old array was read with the new length: what lies behind the array is
\* no subscription, and the request ends, or the process.
RangeWild(c) ==
    /\ At(c, "range") /\ call[c].i \in (call[c].cap + 1)..call[c].len
    /\ \/ Stop
       \/ Answer(c) /\ UNCHANGED mutexVars
    /\ UNCHANGED <<topicVars, Queues, confirmVars, hazardVars>>

Reads(c, s) ==
    /\ At(c, "range")
    /\ call[c].i \in 1..call[c].len /\ call[c].i <= call[c].cap
    /\ s = cell[call[c].topic][call[c].cap][call[c].i]

\* The entry is not stored yet, or no more: a nil dereference.
RangeNil(c) ==
    /\ Reads(c, Nil)
    /\ Answer(c)
    /\ UNCHANGED sharedVars

\* The entry is served by the step at p.
Serve(c, s, p) == Goto(c, p) /\ call' = [call EXCEPT ![c].sub = s]

\* (mutant) a subscription that the filter rejects ends the loop
PublishEntryBreak(c, s) ==
    IF subscription[s].endpoint \in HttpEndpoint THEN Serve(c, s, "post")
    ELSE IF IsSatisfiedBy(subscription[s].policy, call[c].arg.attributes)
    THEN Serve(c, s, "queue")
    ELSE UNCHANGED pc /\ call' = [call EXCEPT ![c].i = call[c].len + 1]

\* publishHTTP does not look at the filter.
PublishEntry(c, s) ==
    IF subscription[s].endpoint \in HttpEndpoint THEN Serve(c, s, "post")
    ELSE IF IsSatisfiedBy(subscription[s].policy, call[c].arg.attributes)
    THEN Serve(c, s, "queue")
    ELSE Advance(c)

\* An attribute that is not known leads on, and to "not found" in the end.
AttributesEntry(c) ==
    CASE call[c].arg.attribute = "other" -> Advance(c)
      [] call[c].arg.attribute = "invalid FilterPolicy" -> Answer(c)
      [] OTHER -> Goes(c, "lock")

RangeEntry(c, s) ==
    /\ Reads(c, s)
    /\ CASE Is(c, "Publish") -> PublishEntry(c, s)
         [] Is(c, "Unsubscribe") /\ s = call[c].sub -> Goes(c, "lock")
         [] Is(c, "SetSubscriptionAttributes") /\ s = call[c].sub -> AttributesEntry(c)
         [] Is(c, "GetSubscriptionAttributes") /\ s = call[c].sub -> Answer(c)
         [] OTHER -> Advance(c)
    /\ UNCHANGED sharedVars

-----------------------------------------------------------------------------
(* Subscribing and unsubscribing: the critical sections are two steps each, *)
(* with an unlocked reader's view in between.                               *)

\* A new subscription has a nil entry at first, in a new array if the old is full.
SubscribeBegin(c) ==
    /\ At(c, "lock") /\ Is(c, "Subscribe") /\ lock = Free
    /\ Topic(c) # Nil /\ Duplicates(Topic(c), call[c].arg) = {}
    /\ Allocated # Sub
    /\ LET o == Topic(c)
           s == NewSub
           old == array[o]
           new == IF length[o] < old THEN old ELSE IF old = 0 THEN 1 ELSE 2 * old
       IN  /\ new \in Capacity
           /\ array' = [array EXCEPT ![o] = new]
           /\ length' = [length EXCEPT ![o] = @ + 1]
           /\ cell' = IF new = old THEN cell
                      ELSE [cell EXCEPT ![o][new] =
                                [i \in 1..new |-> IF i <= old THEN cell[o][old][i] ELSE Nil]]
           /\ subscription' = [subscription EXCEPT ![s] = call[c].arg]
           /\ call' = [call EXCEPT ![c].sub = s]
    /\ lock' = c
    /\ Goto(c, "store")
    /\ UNCHANGED <<Topics, Queues, queuesLock, crashed, confirmVars, hazardVars>>

\* The answer, or the confirmation that HTTP endpoints get before it.
Subscribed(c, s) ==
    IF call[c].arg.endpoint \in HttpEndpoint
    THEN Goto(c, "token") /\ call' = [call EXCEPT ![c].sub = s]
    ELSE Answer(c)

SubscribeEnd(c) ==
    /\ At(c, "store")
    /\ LET o == Topic(c)
       IN  cell' = [cell EXCEPT ![o][array[o]][length[o]] = call[c].sub]
    /\ lock' = Free
    /\ Subscribed(c, call[c].sub)
    /\ UNCHANGED <<Topics, array, length, subscription, Queues, queuesLock, crashed,
                   confirmVars, hazardVars>>

\* (mutant) the answer to a duplicate forgets the mutex
SubscribeDuplicateHolding(c) ==
    /\ At(c, "lock") /\ Is(c, "Subscribe") /\ lock = Free
    /\ Topic(c) # Nil
    /\ \E i \in Duplicates(Topic(c), call[c].arg) : Subscribed(c, Slot(Topic(c), i))
    /\ lock' = c
    /\ UNCHANGED <<topicVars, Queues, queuesLock, crashed, confirmVars, hazardVars>>

\* The endpoint is subscribed already, by this ARN: the ARN of the last such entry is
\* answered, or confirmed again.
SubscribeDuplicate(c) ==
    /\ At(c, "lock") /\ Is(c, "Subscribe") /\ lock = Free
    /\ Topic(c) # Nil
    /\ LET found == Duplicates(Topic(c), call[c].arg)
       IN  \E i \in found :
            (\A j \in found : j <= i) /\ Subscribed(c, Slot(Topic(c), i))
    /\ UNCHANGED sharedVars

\* The topic has gone since: a panic under the mutex.
SubscribePanic(c) ==
    /\ At(c, "lock") /\ Is(c, "Subscribe") /\ lock = Free
    /\ Topic(c) = Nil
    /\ lock' = c
    /\ Answer(c)
    /\ UNCHANGED <<topicVars, Queues, queuesLock, crashed, confirmVars, hazardVars>>

\* (mutant) the entry that follows is lost
ShiftedTwo(o, p) ==
    [j \in 1..array[o] |-> IF j \in p..(length[o] - 2) THEN Slot(o, j + 2)
                           ELSE Slot(o, j)]

\* copy(Subscriptions[p:], Subscriptions[p+1:])
Shifted(o, p) ==
    [j \in 1..array[o] |-> IF j \in p..(length[o] - 1) THEN Slot(o, j + 1)
                           ELSE Slot(o, j)]

\* (history) The entries that a removal takes away or moves.
Moved(o, p) == {Slot(o, j) : j \in p..length[o]}

\* The entries that follow move up, whatever is at the position by now.
UnsubscribeShift(c) ==
    /\ At(c, "lock") /\ Is(c, "Unsubscribe") /\ lock = Free
    /\ LET o == call[c].topic
       IN  /\ call[c].i <= length[o]
           /\ cell' = [cell EXCEPT ![o][array[o]] = Shifted(o, call[c].i)]
           /\ call' = Releasing(Moved(o, call[c].i), call)
    /\ lock' = c
    /\ Goto(c, "cut")
    /\ UNCHANGED <<Topics, array, length, subscription, Queues, queuesLock, crashed,
                   confirmVars, hazardVars>>

\* (mutant) the last entry is cleared and not cut off
UnsubscribeClear(c) ==
    /\ At(c, "cut")
    /\ LET o == call[c].topic
       IN  cell' = [cell EXCEPT ![o][array[o]][length[o]] = Nil]
    /\ lock' = Free
    /\ Answer(c)
    /\ UNCHANGED <<Topics, array, length, subscription, Queues, queuesLock, crashed,
                   confirmVars, hazardVars>>

UnsubscribeCut(c) ==
    /\ At(c, "cut")
    /\ LET o == call[c].topic
       IN  /\ cell' = [cell EXCEPT ![o][array[o]][length[o]] = Nil]
           /\ length' = [length EXCEPT ![o] = @ - 1]
    /\ lock' = Free
    /\ Answer(c)
    /\ overlapped' = (overlapped \/ \E d \in Client \ {c} : Is(d, "Unsubscribe"))
    /\ UNCHANGED <<Topics, array, subscription, Queues, queuesLock, crashed, confirmVars,
                   deleted>>

\* The slice is shorter by now: a panic under the mutex.
UnsubscribePanic(c) ==
    /\ At(c, "lock") /\ Is(c, "Unsubscribe") /\ lock = Free
    /\ call[c].i > length[call[c].topic]
    /\ lock' = c
    /\ Answer(c)
    /\ UNCHANGED <<topicVars, Queues, queuesLock, crashed, confirmVars, hazardVars>>

SetSubscriptionAttributes(c) ==
    /\ At(c, "lock") /\ Is(c, "SetSubscriptionAttributes") /\ lock = Free
    /\ LET s == call[c].sub
           a == call[c].arg
       IN  IF a.attribute = "RawMessageDelivery"
           THEN /\ subscription' = [subscription EXCEPT ![s].raw = a.raw]
                /\ Answer(c)
           ELSE /\ subscription' = [subscription EXCEPT ![s].policy = a.policy]
                /\ Goto(c, "idle")
                /\ call' = Releasing({s}, [call EXCEPT ![c] = NoCall])
    /\ UNCHANGED <<Topics, array, length, cell, Queues, mutexVars, confirmVars, hazardVars>>

-----------------------------------------------------------------------------
(* Confirmations. *)

\* (mutant) a token is that of the confirmation before
NextTokenStale == Len(issued)

NextToken == Len(issued) + 1

\* The pending confirmation of the ARN is replaced, without a mutex.
IssueToken(c) ==
    /\ At(c, "token")
    /\ issued' = Append(issued, [arn |-> call[c].arg.arn, sub |-> call[c].sub])
    /\ TopicData' = [TopicData EXCEPT ![call[c].arg.arn] =
                        [sub |-> call[c].sub, token |-> NextToken]]
    /\ Goto(c, "post") /\ call' = [call EXCEPT ![c].i = NextToken]
    /\ UNCHANGED <<topicVars, Queues, mutexVars, hazardVars>>

\* The endpoint has got the token, a second later; then the answer is sent.
PostConfirmation(c) ==
    /\ At(c, "post") /\ Is(c, "Subscribe")
    /\ Answer(c)
    /\ UNCHANGED sharedVars

\* The pending confirmation is answered.  With any other token, or none pending,
\* the handler panics: its error has no HTTP status.
ConfirmSubscription(c) ==
    /\ At(c, "confirm")
    /\ Answer(c)
    /\ UNCHANGED sharedVars

-----------------------------------------------------------------------------
(* Publishing to an entry. *)

Got(c) == [call EXCEPT ![c].got[call[c].sub] = @ + 1, ![c].i = @ + 1, ![c].sub = Nil]

\* publishHTTP: whatever the endpoint answers.
PublishPost(c) ==
    /\ At(c, "post") /\ Is(c, "Publish")
    /\ Goto(c, "range") /\ call' = Got(c)
    /\ UNCHANGED sharedVars

\* publishSQS: a message for a missing queue is discarded; one without a default
\* entry is a panic, as the error has no HTTP status.
PublishQueue(c) ==
    /\ At(c, "queue")
    /\ LET s == subscription[call[c].sub]
       IN  IF s.endpoint \notin Queues THEN Advance(c)
           ELSE IF ~s.raw /\ call[c].arg.broken THEN Answer(c)
           ELSE Goes(c, "append")
    /\ UNCHANGED sharedVars

\* The queue may be gone since: a panic under the mutex of SyncQueues.
PublishAppend(c) ==
    /\ At(c, "append") /\ queuesLock = Free
    /\ IF subscription[call[c].sub].endpoint \in Queues
       THEN Goto(c, "range") /\ call' = Got(c) /\ UNCHANGED queuesLock
       ELSE Answer(c) /\ queuesLock' = c
    /\ UNCHANGED <<topicVars, Queues, lock, crashed, confirmVars, hazardVars>>

-----------------------------------------------------------------------------
(* The clients of SQS, and the Go runtime. *)

CreateQueue(q) ==
    /\ ~crashed /\ queuesLock = Free
    /\ Queues' = Queues \cup {q}
    /\ UNCHANGED <<topicVars, mutexVars, confirmVars, clientVars, hazardVars>>

DeleteQueue(q) ==
    /\ ~crashed /\ queuesLock = Free /\ q \in Queues /\ deleted < MaxDeletions
    /\ Queues' = Queues \ {q}
    /\ deleted' = deleted + 1
    /\ call' = Releasing({s \in Allocated : subscription[s].endpoint = q}, call)
    /\ UNCHANGED <<topicVars, mutexVars, confirmVars, pc, overlapped>>

\* A map is read or written while it is written: the topics, the pending
\* confirmations, or the queues, which the clients of SQS may write at any time.
Crash ==
    /\ ~crashed
    /\ \/ \E c, d \in Client :
            /\ pc[c] = "write"
            /\ pc[d] \in {"check", "topics"} \/ (pc[d] = "array" /\ Is(d, "Publish"))
       \/ \E c, d \in Client : c # d /\ pc[c] = "token" /\ pc[d] \in {"token", "confirm"}
       \/ \E c \in Client : pc[c] = "queue"
    /\ Stop
    /\ UNCHANGED <<topicVars, Queues, confirmVars, hazardVars>>

-----------------------------------------------------------------------------
\* The server is up: its tables are those that the loader leaves.
LoadTable(t) ==
    /\ Topics = t.topics
    /\ array = t.array /\ length = [o \in Object |-> Len(t.entries[o])]
    /\ cell = [o \in Object |-> [k \in Capacity |-> [i \in 1..k |->
                IF k = t.array[o] /\ i <= Len(t.entries[o]) THEN t.entries[o][i] ELSE Nil]]]
    /\ subscription = t.subscription
    /\ Queues = t.queues

Init ==
    /\ \E t \in Loaded : LoadTable(t)
    /\ TopicData = [a \in Arn |-> Nil]
    /\ lock = Free /\ queuesLock = Free /\ crashed = FALSE
    /\ pc = [c \in Client |-> "idle"] /\ call = [c \in Client |-> NoCall]
    /\ issued = <<>> /\ deleted = 0 /\ overlapped = FALSE

\* A step of the goroutine that serves c.
Step(c) ==
    \/ Check(c)
    \/ WriteBegin(c) \/ (\E o \in Object : CreateTopic(c, o)) \/ DeleteTopic(c)
    \/ (\E n \in Name : TopicsNext(c, n)) \/ TopicsEnd(c)
    \/ RangeArray(c) \/ RangeLength(c) \/ RangeEnd(c) \/ RangeWild(c) \/ RangeNil(c)
    \/ \E s \in Sub : RangeEntry(c, s)
    \/ SubscribeBegin(c) \/ SubscribeEnd(c) \/ SubscribeDuplicate(c) \/ SubscribePanic(c)
    \/ UnsubscribeShift(c) \/ UnsubscribeCut(c) \/ UnsubscribePanic(c)
    \/ SetSubscriptionAttributes(c)
    \/ IssueToken(c) \/ PostConfirmation(c) \/ ConfirmSubscription(c)
    \/ PublishPost(c) \/ PublishQueue(c) \/ PublishAppend(c)

Next ==
    \/ \E c \in Client : (\E h \in Handlers[c], n \in Name : Request(c, h, n)) \/ Step(c)
    \/ \E q \in QueueEndpoint : CreateQueue(q) \/ DeleteQueue(q)
    \/ Crash

Spec == Init /\ [][Next]_vars

-----------------------------------------------------------------------------
(* What topics and subscriptions promise. *)

Places == {"idle", "check", "lock", "write", "topics", "array", "length", "range", "store",
           "cut", "token", "post", "confirm", "queue", "append"}

\* What a request brings, besides names.
Argument(h) ==
    CASE h = "Subscribe" -> SubscribeInputs
      [] h = "Publish" -> PublishInputs
      [] h = "SetSubscriptionAttributes" -> AttributeInputs
      [] h = "ConfirmSubscription" -> Nat
      [] OTHER -> {Nil}

Calls(h) ==
    [handler : {h}, name : Name \cup {Nil}, sub : Allocated \cup {Nil}, arg : Argument(h),
     left : SUBSET Name, topic : {o \in Object : array[o] # Nil} \cup {Nil},
     cap : Capacity, len : Nat, i : Nat, due : SUBSET Sub, got : [Sub -> Nat]]

TopicType ==
    /\ Topics \in [Name -> {o \in Object : array[o] # Nil} \cup {Nil}]
    /\ array \in [Object -> Capacity \cup {Nil}]
    /\ length \in [Object -> Nat] /\ \A o \in Object : array[o] # Nil => length[o] <= array[o]
    /\ DOMAIN cell = Object /\ \A o \in Object : DOMAIN cell[o] = Capacity
    /\ \A o \in Object, k \in Capacity : cell[o][k] \in [1..k -> Allocated \cup {Nil}]
    /\ subscription \in [Sub -> Subscription \cup {Nil}]

ServerType ==
    /\ issued \in Seq([arn : Arn, sub : Sub])
    /\ \A a \in Arn : TopicData[a] # Nil => TopicData[a].token \in 1..Len(issued)
    /\ Queues \subseteq QueueEndpoint
    /\ lock \in Client \cup {Free} /\ queuesLock \in Client \cup {Free}
    /\ crashed \in BOOLEAN /\ deleted \in Nat /\ overlapped \in BOOLEAN

ClientType ==
    /\ pc \in [Client -> Places]
    /\ DOMAIN call = Client
    /\ \A c \in Client :
        /\ call[c].handler \in AllHandlers \cup {"none"}
        /\ call[c] \in Calls(call[c].handler)
    /\ \A c \in Client : pc[c] = "idle" <=> call[c] = NoCall

\* Every variable has its type: what the table, a slice, or a handler that iterates
\* over one points to is a topic or subscription that was made, and a slice is not
\* longer than its array.
TypeOK == TopicType /\ ServerType /\ ClientType

\* While nobody writes it, a topic's list has no holes and no subscription twice, in
\* whatever order requests append to it and remove entries by stale positions.
WellFormed ==
    lock = Free =>
        \A o \in Object : \A i, j \in 1..length[o] :
            Slot(o, i) # Nil /\ (i # j => Slot(o, i) # Slot(o, j))

Lists(n, s) == Topics[n] # Nil /\ s \in Subscribers(Topics[n])

\* No step makes two subscriptions of a topic that have one endpoint and one topic ARN:
\* what the check saw still holds when the subscription is stored, two steps later.
\* Those that a configuration file brings stay, and two ARNs that end in the topic's
\* name may subscribe an endpoint twice.
SubscribedOnce ==
    [][\A n \in Name, s, t \in Sub :
        /\ s # t /\ (Lists(n, s) /\ Lists(n, t))'
        /\ Address(subscription'[s]) = Address(subscription'[t])
        => Lists(n, s) /\ Lists(n, t)]_vars

\* A subscription leaves its topic only when a request names it: an Unsubscribe of
\* its ARN, or a DeleteTopic.  Positions that are found without the mutex, and the
\* look of CreateTopic, do not take others with them.  The code keeps this for one
\* creator of topics, until an Unsubscribe meets the removal of another.
LeavesByName ==
    [][\A n \in Name, s \in Sub : Lists(n, s) /\ ~Lists(n, s)' /\ ~overlapped =>
            \E c \in Client :
                /\ c \in {lock, lock'}
                /\ \/ Is(c, "Unsubscribe") /\ call[c].sub = s
                   \/ Is(c, "DeleteTopic") /\ call[c].name = n]_vars

\* A Publish that is answered has served every subscription it owes the message
\* exactly once: subscribers that come while it iterates over the slice, and grow
\* it or move it to a new array, cost none of the others its message, nor does the
\* removal of an entry behind theirs, or the deletion of the topic.
PublishedOnce ==
    [][\A c \in Client :
        Is(c, "Publish") /\ pc[c] = "range" /\ pc'[c] = "idle" /\ call[c].i > call[c].len
            => \A s \in call[c].due : call[c].got[s] = 1]_vars

\* While no topic and no queue is deleted, no handler returns with a mutex held.
MutexOwned ==
    crashed \/ deleted > 0 \/ overlapped
        \/ (/\ lock \in Client => pc[lock] \in {"write", "store", "cut"}
            /\ queuesLock = Free)

\* The endpoint that visits the URL it was sent has its confirmation pending
\* ("To confirm the subscription, visit the SubscribeURL included in this
\* message.", gosns.go:208).  The code does not keep this: there is one pending
\* confirmation per topic ARN, and the next subscriber replaces it.
ConfirmationWorks ==
    [][\A c \in Client : pc[c] = "confirm" /\ pc'[c] = "idle" =>
            TopicData[issued[call[c].arg].arn].token = call[c].arg]_vars
=============================================================================
