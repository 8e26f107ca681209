---------------------------- MODULE StartProofs ----------------------------
(***************************************************************************)
(* Proofs about the loading of a configuration, for every file.            *)
(***************************************************************************)
EXTENDS Start, SequenceTheorems, TLAPS

-----------------------------------------------------------------------------
(* Types. *)

LEMMA FileType ==
    ASSUME TypeOK
    PROVE  /\ config \in File
           /\ config.queues \in Seq(QueueEntry) /\ config.topics \in Seq(TopicEntry)
           /\ Len(config.queues) \in Nat /\ Len(config.topics) \in Nat
           /\ Len(queue) \in Nat
BY StartAssumption DEF TypeOK, File

LEMMA TimeoutType ==
    ASSUME TypeOK, NEW t \in Nat
    PROVE  Timeout(t) \in Nat \ {0} /\ DefaultTimeout \in Nat \ {0}
BY FileType DEF Timeout, DefaultTimeout, File

\* One more queue, in the table under the name n.
LEMMA MoreQueues ==
    ASSUME TypeOK, NEW n \in Name, NEW t \in Nat \ {0},
           queue' = Append(queue, NewQueue(t)),
           Queues' = [Queues EXCEPT ![n] = Len(queue) + 1]
    PROVE  /\ queue' \in Seq(Queue) /\ Len(queue') = Len(queue) + 1
           /\ Queues' \in [Name -> 0..Len(queue')]
           /\ \A k \in 1..Len(queue) : queue'[k] = queue[k]
           /\ queue'[Len(queue) + 1] = NewQueue(t)
           /\ \A k \in 1..Len(queue') : queue'[k].target \in 0..Len(queue')
<1>1. queue \in Seq(Queue) /\ NewQueue(t) \in Queue /\ NewQueue(t).target = 0
    BY DEF TypeOK, NewQueue, Queue
<1>2. /\ queue' \in Seq(Queue) /\ Len(queue') = Len(queue) + 1
      /\ \A k \in 1..Len(queue) : queue'[k] = queue[k]
      /\ queue'[Len(queue) + 1] = NewQueue(t)
    BY <1>1, AppendProperties
<1>3. Len(queue) \in Nat
    BY <1>1
<1>4. Queues' \in [Name -> 0..Len(queue')]
    BY <1>2, <1>3 DEF TypeOK
<1>5. ASSUME NEW k \in 1..Len(queue')
      PROVE  queue'[k].target \in 0..Len(queue')
    <2>1. CASE k = Len(queue) + 1
        BY <1>1, <1>2, <1>3, <2>1
    <2>2. CASE k \in 1..Len(queue)
        BY <1>2, <1>3, <2>2 DEF TypeOK
    <2> QED BY <1>2, <1>3, <2>1, <2>2
<1> QED BY <1>2, <1>4, <1>5

LEMMA EntryType ==
    ASSUME TypeOK, NEW k \in 1..Len(config.queues)
    PROVE  /\ config.queues[k] \in QueueEntry /\ config.queues[k].name \in Name
           /\ config.queues[k].timeout \in Nat /\ config.queues[k].policy \in Policy
<1>1. config.queues[k] \in QueueEntry
    BY FileType, ElementOfSeq
<1> QED BY <1>1 DEF QueueEntry

LEMMA TopicType ==
    ASSUME TypeOK, InTopic
    PROVE  /\ i \in 1..Len(config.topics) /\ config.topics[i].name \in TopicName
           /\ config.topics[i].subscriptions \in Seq(Subscription)
           /\ Len(config.topics[i].subscriptions) \in Nat
<1>1. i \in 1..Len(config.topics)
    BY FileType DEF InTopic, TypeOK
<1>2. config.topics[i] \in TopicEntry
    BY <1>1, FileType, ElementOfSeq
<1> QED BY <1>1, <1>2 DEF TopicEntry

\* What AddQueue, SetQueueRedrivePolicy and AddSubscription do to the queues.
LEMMA AddQueueStep ==
    ASSUME TypeOK, AddQueue
    PROVE  /\ i \in 1..Len(config.queues) /\ config.queues[i].name \in Name
           /\ Timeout(config.queues[i].timeout) \in Nat \ {0}
           /\ queue' = Append(queue, NewQueue(Timeout(config.queues[i].timeout)))
           /\ Queues' = [Queues EXCEPT ![config.queues[i].name] = Len(queue) + 1]
<1>1. i \in 1..Len(config.queues)
    BY FileType DEF AddQueue, TypeOK
<1> QED BY <1>1, EntryType, TimeoutType DEF AddQueue

LEMMA PolicyStep ==
    ASSUME TypeOK, SetQueueRedrivePolicy
    PROVE  /\ i \in 1..Len(config.queues)
           /\ LET e == config.queues[i]
                  q == Queues[e.name]
              IN  \/ UNCHANGED queue
                  \/ /\ PolicyOK(e.policy) /\ e.policy.target \in Name
                     /\ e.policy.count \in Nat
                     /\ queue' = [queue EXCEPT ![q] =
                            [@ EXCEPT !.target = Queues[e.policy.target], !.count = e.policy.count]]
<1>1. i \in 1..Len(config.queues)
    BY FileType DEF SetQueueRedrivePolicy, TypeOK
<1>2. config.queues[i].policy \in Policy
    BY <1>1, EntryType
<1> QED BY <1>1, <1>2 DEF SetQueueRedrivePolicy, PolicyOK, SetPolicy, Policy

LEMMA PolicyQueue ==
    ASSUME TypeOK, SetQueueRedrivePolicy
    PROVE  /\ queue' \in Seq(Queue) /\ Len(queue') = Len(queue)
           /\ \A k \in 1..Len(queue) :
                /\ queue'[k].timeout = queue[k].timeout
                /\ queue'[k].target \in 0..Len(queue)
<1> DEFINE e == config.queues[i]
           q == Queues[e.name]
           t == Queues[e.policy.target]
           d == e.policy.count
<1>0. queue \in Seq(Queue) /\ Len(queue) \in Nat /\ \A k \in 1..Len(queue) : queue[k] \in Queue
    BY DEF TypeOK
<1>1. CASE UNCHANGED queue
    BY <1>0, <1>1 DEF TypeOK
<1>2. CASE /\ e.policy.target \in Name /\ d \in Nat
           /\ queue' = [queue EXCEPT ![q] = [@ EXCEPT !.target = t, !.count = d]]
    <2>1. t \in 0..Len(queue)
        BY <1>2 DEF TypeOK
    <2> HIDE DEF t, d, q
    <2> DEFINE r(k) == [queue[k] EXCEPT !.target = t, !.count = d]
    <2>2. \A k \in 1..Len(queue) :
            /\ r(k) \in Queue /\ r(k).timeout = queue[k].timeout /\ r(k).target = t
        <3>1. t \in Nat /\ d \in Nat
            BY <1>0, <1>2, <2>1
        <3> SUFFICES ASSUME NEW k \in 1..Len(queue)
                     PROVE  r(k) \in Queue /\ r(k).timeout = queue[k].timeout /\ r(k).target = t
            OBVIOUS
        <3>2. queue[k] \in Queue
            BY <1>0
        <3> QED BY <3>1, <3>2 DEF Queue
    <2>3. queue' = [queue EXCEPT ![q] = r(q)]
        BY <1>2
    <2> HIDE DEF r
    <2>4. CASE q \in 1..Len(queue)
        <3>1. /\ queue' \in Seq(Queue) /\ Len(queue') = Len(queue)
              /\ \A k \in 1..Len(queue) : queue'[k] = IF k = q THEN r(q) ELSE queue[k]
            BY <1>0, <2>2, <2>3, <2>4, ExceptSeq
        <3>2. r(q).timeout = queue[q].timeout /\ r(q).target \in 0..Len(queue)
            BY <2>1, <2>2, <2>4
        <3> QED BY <3>1, <3>2 DEF TypeOK
    <2>5. CASE q \notin 1..Len(queue)
        <3>1. queue' = queue
            BY <1>0, <2>3, <2>5, LenProperties
        <3> QED BY <1>0, <3>1 DEF TypeOK
    <2> QED BY <2>4, <2>5
<1> QED BY <1>1, <1>2, PolicyStep

LEMMA SubscriptionStep ==
    ASSUME TypeOK, AddSubscription
    PROVE  LET s == config.topics[i].subscriptions[j]
           IN  /\ j \in 1..Len(config.topics[i].subscriptions)
               /\ s \in Subscription /\ s.queue \in Name
               /\ IF NeedsQueue(s)
                  THEN /\ queue' = Append(queue, NewQueue(DefaultTimeout))
                       /\ Queues' = [Queues EXCEPT ![s.queue] = Len(queue) + 1]
                  ELSE UNCHANGED <<queue, Queues>>
               /\ \/ ReturnEarly /\ s.filter = "malformed"
                  \/ newTopic' = Append(newTopic, s) /\ j' = j + 1 /\ UNCHANGED <<pc, i>>
<1>1. j \in 1..Len(config.topics[i].subscriptions)
    BY TopicType DEF AddSubscription, TypeOK
<1>2. config.topics[i].subscriptions[j] \in Subscription
    BY <1>1, TopicType DEF AddSubscription
<1>3. config.topics[i].subscriptions[j].queue \in Name
    BY <1>2 DEF Subscription
<1> QED BY <1>1, <1>2, <1>3 DEF AddSubscription

LEMMA TypeStep == TypeOK /\ [Next]_vars => TypeOK'
<1> SUFFICES ASSUME TypeOK, [Next]_vars
             PROVE  TypeOK'
    OBVIOUS
<1>1. CASE ReadFile \/ QueuesEnd \/ PoliciesEnd \/ Unlock \/ Listen \/ PeriodicTasks
    <2>1. UNCHANGED <<config, Queues, queue, Topics>>
        BY <1>1 DEF ReadFile, QueuesEnd, PoliciesEnd, Unlock, Listen, PeriodicTasks, tables
    <2>2. /\ pc' \in {pc, "queues", "policies", "topics", "main", "listening"}
          /\ queuesLocked' \in BOOLEAN /\ topicsLocked' \in BOOLEAN /\ swept' \in BOOLEAN
          /\ i' \in {i, 1} /\ j' \in {j, 1} /\ newTopic' \in {newTopic, <<>>}
        BY <1>1
        DEF ReadFile, QueuesEnd, PoliciesEnd, Unlock, Listen, PeriodicTasks, Goto, ReturnEarly,
            TypeOK, locks, locals
    <2>3. newTopic' \in Seq(Subscription)
        BY <2>2, EmptySeq DEF TypeOK
    <2> QED BY <2>1, <2>2, <2>3 DEF TypeOK
<1>2. CASE AddQueue
    <2>1. /\ queue' \in Seq(Queue) /\ Queues' \in [Name -> 0..Len(queue')]
          /\ \A k \in 1..Len(queue') : queue'[k].target \in 0..Len(queue')
        BY <1>2, AddQueueStep, MoreQueues
    <2>2. UNCHANGED <<config, Topics, locks, pc, j, newTopic, swept>> /\ i' = i + 1
        BY <1>2 DEF AddQueue
    <2> QED BY <2>1, <2>2 DEF TypeOK, locks
<1>3. CASE SetQueueRedrivePolicy
    <2>1. UNCHANGED <<config, Queues, Topics, locks, swept>>
        BY <1>3 DEF SetQueueRedrivePolicy
    <2>2. \/ pc' = "main" /\ i' = 1 /\ j' = 1 /\ newTopic' = <<>>
          \/ i' = i + 1 /\ UNCHANGED <<pc, j, newTopic>>
        BY <1>3 DEF SetQueueRedrivePolicy, ReturnEarly, Goto
    <2>3. newTopic' \in Seq(Subscription)
        BY <2>2, EmptySeq DEF TypeOK
    <2>4. /\ queue' \in Seq(Queue) /\ Len(queue') = Len(queue)
          /\ \A k \in 1..Len(queue') : queue'[k].target \in 0..Len(queue')
        BY <1>3, PolicyQueue
    <2> QED BY <2>1, <2>2, <2>3, <2>4 DEF TypeOK, locks
<1>4. CASE AddSubscription
    <2> DEFINE s == config.topics[i].subscriptions[j]
    <2>1. /\ s \in Subscription /\ s.queue \in Name /\ DefaultTimeout \in Nat \ {0}
          /\ UNCHANGED <<config, Topics, locks, swept>>
        BY <1>4, SubscriptionStep, TimeoutType DEF AddSubscription
    <2>2. /\ queue' \in Seq(Queue) /\ Queues' \in [Name -> 0..Len(queue')]
          /\ \A k \in 1..Len(queue') : queue'[k].target \in 0..Len(queue')
        <3>1. CASE NeedsQueue(s)
            BY <1>4, <2>1, <3>1, SubscriptionStep, MoreQueues
        <3>2. CASE ~NeedsQueue(s)
            BY <1>4, <3>2, SubscriptionStep DEF TypeOK
        <3> QED BY <3>1, <3>2
    <2>3. \/ pc' = "main" /\ i' = 1 /\ j' = 1 /\ newTopic' = <<>>
          \/ newTopic' = Append(newTopic, s) /\ j' = j + 1 /\ UNCHANGED <<pc, i>>
        BY <1>4, SubscriptionStep DEF ReturnEarly, Goto
    <2>4. newTopic' \in Seq(Subscription)
        <3>1. newTopic \in Seq(Subscription) /\ <<>> \in Seq(Subscription)
            BY EmptySeq DEF TypeOK
        <3>2. Append(newTopic, s) \in Seq(Subscription)
            BY <2>1, <3>1, AppendProperties
        <3> QED BY <2>3, <3>1, <3>2
    <2> QED BY <2>1, <2>2, <2>3, <2>4 DEF TypeOK, locks
<1>5. CASE AddTopic
    <2>1. config.topics[i].name \in TopicName
        BY <1>5, TopicType DEF AddTopic
    <2>2. [exists |-> TRUE, subscriptions |-> newTopic] \in Topic
        BY DEF TypeOK, Topic
    <2> QED BY <1>5, <2>1, <2>2, EmptySeq DEF AddTopic, TypeOK, locks
<1>6. CASE UNCHANGED vars
    BY <1>6 DEF vars, tables, locks, locals, TypeOK
<1> QED BY <1>1, <1>2, <1>3, <1>4, <1>5, <1>6 DEF Next, Main, LoadYamlConfig

LEMMA TypeInit == Init => TypeOK
<1> SUFFICES ASSUME Init
             PROVE  TypeOK
    OBVIOUS
<1>1. <<>> \in Seq(Queue) /\ <<>> \in Seq(Subscription) /\ Len(<<>>) = 0
    BY EmptySeq
<1>2. [exists |-> FALSE, subscriptions |-> <<>>] \in Topic
    BY <1>1 DEF Topic
<1>3. queue \in Seq(Queue) /\ newTopic \in Seq(Subscription) /\ Len(queue) = 0
    BY <1>1 DEF Init
<1>4. Topics \in [TopicName -> Topic] /\ Queues \in [Name -> 0..Len(queue)]
    BY <1>2, <1>3 DEF Init
<1>5. \A k \in 1..Len(queue) : queue[k].target \in 0..Len(queue)
    BY <1>3
<1>6. config \in Configs /\ i \in Nat \ {0} /\ j \in Nat \ {0} /\ pc = "open"
    BY DEF Init
<1>7. queuesLocked \in BOOLEAN /\ topicsLocked \in BOOLEAN /\ swept \in BOOLEAN
    BY Zenon DEF Init
<1> QED BY <1>3, <1>4, <1>5, <1>6, <1>7 DEF TypeOK

\* Type correctness, for any file: no step of the loader goes past the end of a
\* list, and redrive policies point to queues that were made.
THEOREM StartTypeCorrect == Spec => []TypeOK
BY TypeInit, TypeStep, PTL DEF Spec

-----------------------------------------------------------------------------
(* Redrive targets.  All queues of the file are made before the first policy *)
(* is set, and nothing replaces a queue from then on.                        *)

Injective == \A n, m \in Name : Queues[n] # 0 /\ Queues[n] = Queues[m] => n = m

TargetInv ==
    /\ Injective
    /\ pc \in {"open", "queues"} => \A k \in 1..Len(queue) : queue[k].target = 0
    /\ \A k \in 1..Len(queue) : queue[k].target # 0 => InTable(queue[k].target)

\* The queues that there are stay, in the table too.
Kept == /\ \A n \in Name : Queues[n] # 0 => Queues'[n] = Queues[n]
        /\ Len(queue') >= Len(queue) /\ \A k \in 1..Len(queue) : queue'[k] = queue[k]

\* A queue comes into the table under a name that had none.
LEMMA SubscriptionKeeps ==
    ASSUME TypeOK, AddSubscription
    PROVE  /\ Kept
           /\ \A k \in (Len(queue) + 1)..Len(queue') : queue'[k].target = 0
           /\ Injective => Injective'
           /\ LET s == config.topics[i].subscriptions[j]
              IN  s.protocol = "sqs" => Queues'[s.queue] # 0
<1> DEFINE s == config.topics[i].subscriptions[j]
<1>1. s.queue \in Name /\ Len(queue) \in Nat /\ DefaultTimeout \in Nat \ {0}
    BY SubscriptionStep, FileType, TimeoutType
<1>2. CASE NeedsQueue(s)
    <2>1. /\ queue' = Append(queue, NewQueue(DefaultTimeout))
          /\ Queues' = [Queues EXCEPT ![s.queue] = Len(queue) + 1]
        BY <1>2, SubscriptionStep
    <2>2. /\ Len(queue') = Len(queue) + 1
          /\ \A k \in 1..Len(queue) : queue'[k] = queue[k]
          /\ queue'[Len(queue) + 1].target = 0
        BY <1>1, <2>1, MoreQueues DEF NewQueue
    <2>3. \A n \in Name : Queues[n] \in 0..Len(queue)
        BY DEF TypeOK
    <2>4. \A n \in Name : Queues'[n] = IF n = s.queue THEN Len(queue) + 1 ELSE Queues[n]
        BY <2>1 DEF TypeOK
    <2>5. Queues[s.queue] = 0
        BY <1>2 DEF NeedsQueue
    <2>6. Injective => Injective'
        BY <1>1, <2>3, <2>4 DEF Injective
    <2> HIDE DEF s
    <2>7. Kept
        BY <1>1, <2>2, <2>4, <2>5 DEF Kept
    <2>8. \A k \in (Len(queue) + 1)..Len(queue') : queue'[k].target = 0
        <3>1. \A k \in (Len(queue) + 1)..(Len(queue) + 1) : k = Len(queue) + 1
            BY <1>1
        <3> QED BY <2>2, <3>1
    <2>9. Queues'[s.queue] # 0
        BY <1>1, <2>4
    <2> QED BY <2>6, <2>7, <2>8, <2>9 DEF s
<1>3. CASE ~NeedsQueue(s)
    <2>1. UNCHANGED <<queue, Queues>>
        BY <1>3, SubscriptionStep
    <2>2. s.protocol = "sqs" => Queues'[s.queue] # 0
        BY <1>3, <2>1 DEF NeedsQueue
    <2>3. Kept
        BY <1>1, <2>1 DEF Kept
    <2>4. \A k \in (Len(queue) + 1)..Len(queue') : queue'[k].target = 0
        BY <1>1, <2>1
    <2> QED BY <2>1, <2>2, <2>3, <2>4 DEF Injective
<1> QED BY <1>2, <1>3

LEMMA TargetStep == TypeOK /\ TargetInv /\ [Next]_vars => TargetInv'
<1> SUFFICES ASSUME TypeOK, TargetInv, [Next]_vars
             PROVE  TargetInv'
    OBVIOUS
<1>1. CASE ReadFile \/ QueuesEnd \/ PoliciesEnd \/ AddTopic \/ Unlock \/ Listen
           \/ PeriodicTasks \/ UNCHANGED vars
    <2>1. UNCHANGED <<Queues, queue>> /\ (pc' \in {"open", "queues"} => pc \in {"open", "queues"})
        BY <1>1
        DEF ReadFile, QueuesEnd, PoliciesEnd, AddTopic, InTopic, Unlock, Listen, PeriodicTasks,
            Goto, ReturnEarly, vars, tables
    <2> QED BY <2>1 DEF TargetInv, Injective, InTable
<1>2. CASE AddQueue
    <2> DEFINE n0 == config.queues[i].name
    <2>1. /\ n0 \in Name /\ pc = "queues" /\ Len(queue) \in Nat
          /\ Queues' = [Queues EXCEPT ![n0] = Len(queue) + 1]
        BY <1>2, AddQueueStep, FileType DEF AddQueue
    <2>2. /\ Len(queue') = Len(queue) + 1
          /\ \A k \in 1..Len(queue) : queue'[k] = queue[k]
          /\ queue'[Len(queue) + 1].target = 0
        BY <1>2, AddQueueStep, MoreQueues DEF NewQueue
    <2>3. \A k \in 1..Len(queue') : queue'[k].target = 0
        <3>1. \A k \in 1..(Len(queue) + 1) : k \in 1..Len(queue) \/ k = Len(queue) + 1
            BY <2>1
        <3> QED BY <2>1, <2>2, <3>1 DEF TargetInv
    <2>4. \A n \in Name : Queues[n] \in 0..Len(queue)
        BY DEF TypeOK
    <2>5. \A n \in Name : Queues'[n] = IF n = n0 THEN Len(queue) + 1 ELSE Queues[n]
        BY <2>1 DEF TypeOK
    <2> HIDE DEF n0
    <2>6. Injective'
        BY <2>1, <2>4, <2>5 DEF TargetInv, Injective
    <2> QED BY <2>3, <2>6 DEF TargetInv
<1>3. CASE SetQueueRedrivePolicy
    <2>1. pc = "policies" /\ pc' \in {"policies", "main"} /\ UNCHANGED Queues
        BY <1>3 DEF SetQueueRedrivePolicy, ReturnEarly, Goto
    <2>2. Injective'
        BY <2>1 DEF TargetInv, Injective
    <2> DEFINE e == config.queues[i]
    <2>3. CASE UNCHANGED queue
        BY <2>1, <2>2, <2>3 DEF TargetInv, InTable
    <2>4. CASE /\ PolicyOK(e.policy) /\ e.policy.target \in Name /\ e.policy.count \in Nat
               /\ queue' = [queue EXCEPT ![Queues[e.name]] =
                    [@ EXCEPT !.target = Queues[e.policy.target], !.count = e.policy.count]]
        <3>1. queue \in Seq(Queue) /\ \A k \in 1..Len(queue) : queue[k] \in Queue
            BY ElementOfSeq DEF TypeOK
        <3>2. Len(queue') = Len(queue)
            BY <1>3, PolicyQueue
        <3>3. \A k \in 1..Len(queue) : queue'[k].target \in {queue[k].target, Queues[e.policy.target]}
            BY <2>4, <3>1, LenProperties DEF Queue
        <3>4. InTable(Queues[e.policy.target])
            BY <2>4 DEF InTable
        <3> QED BY <2>1, <2>2, <3>2, <3>3, <3>4 DEF TargetInv, InTable
    <2> QED BY <1>3, <2>3, <2>4, PolicyStep
<1>4. CASE AddSubscription
    <2>1. pc = "topics" /\ pc' \in {"topics", "main"}
        BY <1>4 DEF AddSubscription, InTopic, ReturnEarly, Goto
    <2>2. Kept /\ Injective' /\ \A k \in (Len(queue) + 1)..Len(queue') : queue'[k].target = 0
        BY <1>4, SubscriptionKeeps DEF TargetInv
    <2>3. ASSUME NEW k \in 1..Len(queue'), queue'[k].target # 0
          PROVE  InTable(queue[k].target)'
        <3>1. Len(queue) \in Nat /\ Len(queue') \in Nat
            BY TypeStep, FileType DEF TypeOK
        <3>2. k \in 1..Len(queue)
            BY <2>2, <2>3, <3>1
        <3>3. queue'[k] = queue[k] /\ InTable(queue[k].target)
            BY <2>2, <2>3, <3>2 DEF Kept, TargetInv
        <3> QED BY <2>2, <2>3, <3>3 DEF Kept, InTable
    <2> QED BY <2>1, <2>2, <2>3 DEF TargetInv
<1> QED BY <1>1, <1>2, <1>3, <1>4 DEF Next, Main, LoadYamlConfig

LEMMA TargetInvCorrect == Spec => []TargetInv
<1>1. Init => TargetInv
    <2> SUFFICES ASSUME Init
                 PROVE  TargetInv
        OBVIOUS
    <2>1. Len(queue) = 0 /\ \A n \in Name : Queues[n] = 0
        BY DEF Init
    <2> QED BY <2>1 DEF TargetInv, Injective
<1> QED BY <1>1, TargetStep, StartTypeCorrect, PTL DEF Spec

\* Whatever the file, redrive policies point to queues of the table.
THEOREM TargetsInTableCorrect == Spec => []TargetsInTable
<1>1. TargetInv => TargetsInTable
    BY DEF TargetInv, TargetsInTable
<1> QED BY <1>1, TargetInvCorrect, PTL

-----------------------------------------------------------------------------
(* What the loops of LoadYamlConfig have done after b entries.              *)

QueuesDone(b) ==
    \A k \in 1..b :
        LET e == config.queues[k]
        IN  /\ Queues[e.name] # 0
            /\ (\A l \in (k + 1)..b : config.queues[l].name # e.name) =>
                queue[Queues[e.name]].timeout = Timeout(e.timeout)

PoliciesDone(b) ==
    \A k \in 1..b :
        LET e == config.queues[k]
        IN  /\ e.policy.kind = "given"
            /\ \A l \in (k + 1)..b :
                  config.queues[l].name = e.name => config.queues[l].policy.kind = "none"
            => /\ e.policy.target \in Name /\ Queues[e.policy.target] # 0
               /\ queue[Queues[e.name]].target = Queues[e.policy.target]
               /\ queue[Queues[e.name]].count = e.policy.count

\* The first b subscriptions of a topic have their queues.
Reachable(subscriptions, b) ==
    \A l \in 1..b : subscriptions[l].protocol = "sqs" => Queues[subscriptions[l].queue] # 0

TopicsDone(b) ==
    \A k \in 1..b :
        LET e == config.topics[k]
        IN  /\ (\A l \in (k + 1)..b : config.topics[l].name # e.name) =>
                Topics[e.name].subscriptions = e.subscriptions
            /\ Reachable(e.subscriptions, Len(e.subscriptions))

\* The topic that is being made.
TopicSoFar ==
    LET subscriptions == config.topics[i].subscriptions
    IN  /\ j <= Len(subscriptions) + 1 /\ Len(newTopic) = j - 1
        /\ \A l \in 1..(j - 1) : newTopic[l] = subscriptions[l]
        /\ Reachable(subscriptions, j - 1)

\* LoadYamlConfig is over, and there was nothing to stop it.
Finished == pc \in {"main", "listening"} /\ config.readable /\ Sound(config)

QueuesInv ==
    /\ pc = "queues" => i <= Len(config.queues) + 1 /\ QueuesDone(i - 1)
    /\ pc \in {"policies", "topics"} \/ Finished => QueuesDone(Len(config.queues))

PoliciesInv ==
    /\ pc = "policies" => i <= Len(config.queues) + 1 /\ PoliciesDone(i - 1)
    /\ pc = "topics" \/ Finished => PoliciesDone(Len(config.queues))

TopicsInv ==
    /\ pc = "topics" =>
        /\ i <= Len(config.topics) + 1 /\ TopicsDone(i - 1)
        /\ i <= Len(config.topics) => TopicSoFar
    /\ Finished => TopicsDone(Len(config.topics))

LEMMA DoneKept ==
    ASSUME TypeOK, Kept, UNCHANGED config
    PROVE  /\ \A b \in 0..Len(config.queues) :
                /\ QueuesDone(b) => QueuesDone(b)'
                /\ PoliciesDone(b) /\ QueuesDone(Len(config.queues)) => PoliciesDone(b)'
           /\ \A subscriptions \in Seq(Subscription) : \A b \in 0..Len(subscriptions) :
                Reachable(subscriptions, b) => Reachable(subscriptions, b)'
<1>1. ASSUME NEW n \in Name, Queues[n] # 0
      PROVE  Queues'[n] # 0 /\ queue'[Queues'[n]] = queue[Queues[n]]
    BY <1>1, FileType DEF Kept, TypeOK
<1>2. ASSUME NEW b \in 0..Len(config.queues), QueuesDone(b)
      PROVE  QueuesDone(b)'
    <2>1. ASSUME NEW k \in 1..b
          PROVE  LET e == config.queues[k]
                 IN  /\ Queues'[e.name] # 0
                     /\ (\A l \in (k + 1)..b : config.queues[l].name # e.name) =>
                         queue'[Queues'[e.name]].timeout = Timeout(e.timeout)
        <3> DEFINE e == config.queues[k]
        <3>1. e.name \in Name
            BY <1>2, FileType, EntryType
        <3>2. /\ Queues[e.name] # 0
              /\ (\A l \in (k + 1)..b : config.queues[l].name # e.name) =>
                    queue[Queues[e.name]].timeout = Timeout(e.timeout)
            BY <1>2 DEF QueuesDone
        <3>3. Queues'[e.name] # 0 /\ queue'[Queues'[e.name]] = queue[Queues[e.name]]
            BY <1>1, <3>1, <3>2
        <3> QED BY <3>2, <3>3
    <2> QED BY <2>1 DEF QueuesDone, Timeout, DefaultTimeout
<1>3. ASSUME NEW b \in 0..Len(config.queues), PoliciesDone(b), QueuesDone(Len(config.queues))
      PROVE  PoliciesDone(b)'
    <2> SUFFICES ASSUME NEW k \in 1..b,
                        config.queues[k].policy.kind = "given",
                        \A l \in (k + 1)..b : config.queues[l].name = config.queues[k].name =>
                            config.queues[l].policy.kind = "none"
                 PROVE  LET e == config.queues[k]
                        IN  /\ e.policy.target \in Name /\ Queues'[e.policy.target] # 0
                            /\ queue'[Queues'[e.name]].target = Queues'[e.policy.target]
                            /\ queue'[Queues'[e.name]].count = e.policy.count
        BY DEF PoliciesDone
    <2> DEFINE e == config.queues[k]
    <2>1. k \in 1..Len(config.queues) /\ e.name \in Name
        BY <1>3, FileType, EntryType
    <2>2. Queues[e.name] # 0
        BY <1>3, <2>1 DEF QueuesDone
    <2>3. /\ e.policy.target \in Name /\ Queues[e.policy.target] # 0
          /\ queue[Queues[e.name]].target = Queues[e.policy.target]
          /\ queue[Queues[e.name]].count = e.policy.count
        BY <1>3 DEF PoliciesDone
    <2>4. Queues'[e.name] # 0 /\ queue'[Queues'[e.name]] = queue[Queues[e.name]]
        BY <1>1, <2>1, <2>2
    <2>5. Queues'[e.policy.target] = Queues[e.policy.target]
        BY <2>3 DEF Kept
    <2> HIDE DEF e
    <2> QED BY <2>3, <2>4, <2>5 DEF e
<1>4. ASSUME NEW subscriptions \in Seq(Subscription), NEW b \in 0..Len(subscriptions),
             Reachable(subscriptions, b)
      PROVE  Reachable(subscriptions, b)'
    <2>1. ASSUME NEW l \in 1..b, subscriptions[l].protocol = "sqs"
          PROVE  Queues'[subscriptions[l].queue] # 0
        <3>1. l \in 1..Len(subscriptions)
            BY LenProperties
        <3>2. subscriptions[l] \in Subscription
            BY <3>1, ElementOfSeq
        <3>3. subscriptions[l].queue \in Name
            BY <3>2 DEF Subscription
        <3> QED BY <1>1, <1>4, <2>1, <3>3 DEF Reachable
    <2> QED BY <2>1 DEF Reachable
<1> QED BY <1>2, <1>3, <1>4

\* The queues are not touched, nor is the table of them.
LEMMA DoneSame ==
    ASSUME UNCHANGED <<config, Queues, queue>>
    PROVE  /\ \A b : (QueuesDone(b) <=> QueuesDone(b)') /\ (PoliciesDone(b) <=> PoliciesDone(b)')
           /\ \A subscriptions, b : Reachable(subscriptions, b) <=> Reachable(subscriptions, b)'
BY DEF QueuesDone, PoliciesDone, Reachable, Timeout, DefaultTimeout

\* The steps that touch neither.
LEMMA OtherSteps ==
    ASSUME TypeOK, [Next]_vars, ~AddQueue, ~SetQueueRedrivePolicy, ~AddSubscription
    PROVE  /\ UNCHANGED <<config, Queues, queue>>
           /\ \/ ReadFile \/ QueuesEnd \/ PoliciesEnd \/ AddTopic \/ Unlock
              \/ pc = "main" /\ pc' = "listening" /\ UNCHANGED Topics
              \/ UNCHANGED <<pc, i, j, newTopic, Topics>>
BY DEF Next, Main, LoadYamlConfig, ReadFile, QueuesEnd, PoliciesEnd, AddTopic, Unlock, Listen,
   PeriodicTasks, Goto, vars, tables, locals

\* Nothing but Unlock ends the loading of a sound file.
LEMMA FinishedFrom ==
    ASSUME TypeOK, [Next]_vars, Finished'
    PROVE  /\ UNCHANGED config
           /\ Sound(config) /\ config.readable
           /\ \/ Finished
              \/ Unlock
              \/ pc' = "main" /\ (SetQueueRedrivePolicy \/ AddSubscription)
<1>1. UNCHANGED config
    BY DEF Next, Main, LoadYamlConfig, ReadFile, AddQueue, QueuesEnd, SetQueueRedrivePolicy,
       PoliciesEnd, AddSubscription, AddTopic, Unlock, Listen, PeriodicTasks, vars
<1>2. Sound(config) /\ config.readable /\ pc' \in {"main", "listening"}
    BY <1>1, SMTT(30) DEF Finished, Sound
<1>3. \/ pc \in {"main", "listening"}
      \/ Unlock
      \/ pc' = "main" /\ (SetQueueRedrivePolicy \/ AddSubscription)
    BY <1>2
    DEF Next, Main, LoadYamlConfig, ReadFile, AddQueue, QueuesEnd, SetQueueRedrivePolicy,
        PoliciesEnd, AddSubscription, AddTopic, InTopic, Unlock, Listen, PeriodicTasks, Goto,
        ReturnEarly, vars
<1> QED BY <1>1, <1>2, <1>3 DEF Finished

LEMMA QueuesStep ==
    ASSUME TypeOK, QueuesInv, [Next]_vars
    PROVE  QueuesInv'
<1>1. CASE AddQueue
    <2> DEFINE n0 == config.queues[i].name
               t0 == Timeout(config.queues[i].timeout)
    <2>1. /\ i \in 1..Len(config.queues) /\ n0 \in Name /\ t0 \in Nat \ {0}
          /\ Queues' = [Queues EXCEPT ![n0] = Len(queue) + 1]
          /\ queue' = Append(queue, NewQueue(t0))
          /\ Len(queue) \in Nat /\ Len(config.queues) \in Nat
        BY <1>1, AddQueueStep, FileType
    <2>2. /\ pc = "queues" /\ pc' = "queues" /\ i' = i + 1 /\ UNCHANGED config
          /\ QueuesDone(i - 1)
        BY <1>1 DEF AddQueue, QueuesInv
    <2>3. /\ \A k \in 1..Len(queue) : queue'[k] = queue[k]
          /\ queue'[Len(queue) + 1].timeout = t0
        BY <2>1, MoreQueues DEF NewQueue
    <2>4. ASSUME NEW k \in 1..i
          PROVE  LET e == config.queues[k]
                 IN  /\ Queues'[e.name] # 0
                     /\ (\A l \in (k + 1)..i : config.queues[l].name # e.name) =>
                         queue'[Queues'[e.name]].timeout = Timeout(e.timeout)
        <3> DEFINE e == config.queues[k]
        <3>1. k \in 1..Len(config.queues) /\ e.name \in Name
            BY <2>1, EntryType
        <3>2. CASE k = i
            BY <2>1, <2>3, <3>2 DEF TypeOK
        <3>3. CASE k # i
            <4>1. k \in 1..(i - 1) /\ i \in (k + 1)..i
                BY <2>1, <3>3
            <4>2. /\ Queues[e.name] # 0 /\ Queues[e.name] \in 0..Len(queue)
                  /\ (\A l \in (k + 1)..(i - 1) : config.queues[l].name # e.name) =>
                        queue[Queues[e.name]].timeout = Timeout(e.timeout)
                BY <2>2, <3>1, <4>1 DEF QueuesDone, TypeOK
            <4>3. Queues'[e.name] = IF e.name = n0 THEN Len(queue) + 1 ELSE Queues[e.name]
                BY <2>1, <3>1 DEF TypeOK
            <4>4. Queues'[e.name] # 0
                BY <2>1, <4>2, <4>3
            <4>5. ASSUME \A l \in (k + 1)..i : config.queues[l].name # e.name
                  PROVE  queue'[Queues'[e.name]].timeout = Timeout(e.timeout)
                <5>1. e.name # n0
                    BY <4>1, <4>5
                <5>2. \A l \in (k + 1)..(i - 1) : l \in (k + 1)..i
                    BY <2>1
                <5>3. Queues[e.name] \in 1..Len(queue)
                    BY <2>1, <4>2
                <5> HIDE DEF e
                <5> QED BY <2>3, <4>2, <4>3, <4>5, <5>1, <5>2, <5>3
            <4> QED BY <4>4, <4>5
        <3> QED BY <3>2, <3>3
    <2>5. QueuesDone(i - 1)'
        <3>1. i' - 1 = i
            BY <2>1, <2>2
        <3> QED BY <2>2, <2>4, <3>1 DEF QueuesDone, Timeout, DefaultTimeout
    <2> QED BY <2>1, <2>2, <2>5 DEF QueuesInv, Finished
<1>2. CASE SetQueueRedrivePolicy
    <2>1. pc = "policies" /\ pc' \in {"policies", "main"} /\ UNCHANGED <<config, Queues>>
        BY <1>2 DEF SetQueueRedrivePolicy, ReturnEarly, Goto
    <2>2. QueuesDone(Len(config.queues))
        BY <2>1 DEF QueuesInv
    <2>3. \A k \in 1..Len(queue) : queue'[k].timeout = queue[k].timeout
        BY <1>2, PolicyQueue
    <2>4. ASSUME NEW k \in 1..Len(config.queues)
          PROVE  LET e == config.queues[k]
                 IN  /\ Queues[e.name] # 0
                     /\ (\A l \in (k + 1)..Len(config.queues) : config.queues[l].name # e.name) =>
                         queue'[Queues[e.name]].timeout = Timeout(e.timeout)
        <3>1. config.queues[k].name \in Name
            BY EntryType
        <3>2. Queues[config.queues[k].name] # 0
            BY <2>2 DEF QueuesDone
        <3>3. Queues[config.queues[k].name] \in 1..Len(queue)
            BY <3>1, <3>2, FileType DEF TypeOK
        <3> QED BY <2>2, <2>3, <3>2, <3>3 DEF QueuesDone
    <2>5. QueuesDone(Len(config.queues))'
        BY <2>1, <2>4 DEF QueuesDone, Timeout, DefaultTimeout
    <2> QED BY <2>1, <2>5 DEF QueuesInv
<1>3. CASE AddSubscription
    <2>1. pc = "topics" /\ pc' \in {"topics", "main"} /\ UNCHANGED config
        BY <1>3 DEF AddSubscription, InTopic, ReturnEarly, Goto
    <2>2. QueuesDone(Len(config.queues))'
        BY <1>3, <2>1, SubscriptionKeeps, DoneKept, FileType DEF QueuesInv
    <2> QED BY <2>1, <2>2 DEF QueuesInv
<1>4. CASE ~AddQueue /\ ~SetQueueRedrivePolicy /\ ~AddSubscription
    <2>1. UNCHANGED <<config, Queues, queue>> /\ \A b : QueuesDone(b) <=> QueuesDone(b)'
        BY <1>4, OtherSteps, DoneSame
    <2>2. Len(config.queues) \in Nat /\ i \in Nat
        BY FileType DEF TypeOK
    <2>3. CASE ReadFile
        <3>1. \A k \in 1..0 : FALSE
            OBVIOUS
        <3>2. QueuesDone(0)'
            BY <3>1 DEF QueuesDone
        <3>3. pc = "open" /\ ((pc' = "queues" /\ i' = 1) \/ (pc' = "main" /\ ~config.readable))
            BY <2>3 DEF ReadFile, Goto, ReturnEarly
        <3> QED BY <2>1, <2>2, <3>2, <3>3 DEF QueuesInv, Finished
    <2>4. CASE QueuesEnd
        <3>1. pc = "queues" /\ i > Len(config.queues) /\ pc' = "policies"
            BY <2>4 DEF QueuesEnd, Goto
        <3>2. i - 1 = Len(config.queues)
            BY <2>2, <3>1 DEF QueuesInv
        <3>3. QueuesDone(Len(config.queues))'
            BY <2>1, <3>1, <3>2 DEF QueuesInv
        <3> QED BY <2>1, <3>1, <3>3 DEF QueuesInv
    <2>5. CASE PoliciesEnd \/ AddTopic \/ Unlock
        <3>1. pc \in {"policies", "topics"} /\ pc' \notin {"open", "queues"}
            BY <2>5 DEF PoliciesEnd, AddTopic, InTopic, Unlock, Goto
        <3> QED BY <2>1, <3>1 DEF QueuesInv
    <2>6. CASE pc = "main" /\ pc' = "listening"
        BY <2>1, <2>6 DEF QueuesInv, Finished, Sound
    <2>7. CASE UNCHANGED <<pc, i>>
        BY <2>1, <2>7 DEF QueuesInv, Finished, Sound
    <2> QED BY <1>4, <2>3, <2>4, <2>5, <2>6, <2>7, OtherSteps
<1> QED BY <1>1, <1>2, <1>3, <1>4

\* No policy of a sound file is refused.
LEMMA SoundPolicy ==
    ASSUME TypeOK, QueuesInv, SetQueueRedrivePolicy, Sound(config)
    PROVE  config.queues[i].policy.kind = "none" \/ PolicyOK(config.queues[i].policy)
<1> DEFINE p == config.queues[i].policy
<1>1. i \in 1..Len(config.queues) /\ pc = "policies"
    BY PolicyStep DEF SetQueueRedrivePolicy
<1>2. \/ p.kind = "none"
      \/ /\ p.kind = "given" /\ p.count > 0
         /\ \E l \in 1..Len(config.queues) : config.queues[l].name = p.target
    BY <1>1 DEF Sound
<1>3. ASSUME NEW l \in 1..Len(config.queues), config.queues[l].name = p.target
      PROVE  p.target # NoName /\ Queues[p.target] # 0
    <2>1. p.target \in Name
        BY <1>3, EntryType
    <2> QED BY <1>1, <1>3, <2>1, StartAssumption DEF QueuesInv, QueuesDone
<1>4. p.count > 0 => p.count # 0
    <2>1. p \in Policy
        BY <1>1, EntryType
    <2> QED BY <2>1 DEF Policy
<1> QED BY <1>2, <1>3, <1>4 DEF PolicyOK

LEMMA PoliciesStep ==
    ASSUME TypeOK, Injective, QueuesInv, PoliciesInv, [Next]_vars
    PROVE  PoliciesInv'
<1>0. Len(config.queues) \in Nat /\ i \in Nat
    BY FileType DEF TypeOK
<1>1. CASE AddQueue
    BY <1>1 DEF AddQueue, PoliciesInv, Finished
<1>2. CASE SetQueueRedrivePolicy
    <2> DEFINE p == config.queues[i].policy
               q == Queues[config.queues[i].name]
    <2>1. /\ i \in 1..Len(config.queues) /\ pc = "policies" /\ UNCHANGED <<config, Queues>>
          /\ PoliciesDone(i - 1) /\ QueuesDone(Len(config.queues))
        BY <1>2, PolicyStep DEF SetQueueRedrivePolicy, QueuesInv, PoliciesInv
    <2>2. CASE p.kind # "none" /\ ~PolicyOK(p)
        <3>1. ~Sound(config) /\ pc' = "main"
            BY <1>2, <2>2, SoundPolicy DEF SetQueueRedrivePolicy, ReturnEarly, Goto
        <3> QED BY <2>1, <3>1 DEF PoliciesInv, Finished, Sound
    <2>3. CASE p.kind = "none" \/ PolicyOK(p)
        <3>1. /\ i' = i + 1 /\ UNCHANGED pc
              /\ queue' = IF p.kind = "none" THEN queue ELSE SetPolicy(p)
            BY <1>2, <2>3 DEF SetQueueRedrivePolicy
        <3>2. q \in 1..Len(queue)
            BY <2>1, EntryType, FileType DEF QueuesDone, TypeOK
        <3>3. queue \in Seq(Queue) /\ \A k \in 1..Len(queue) : queue[k] \in Queue
            BY ElementOfSeq DEF TypeOK
        <3>4. \A k \in 1..Len(queue) : k # q => queue'[k] = queue[k]
            BY <3>1, <3>3, LenProperties DEF SetPolicy
        <3>5. p.kind # "none" =>
                 /\ p.target \in Name /\ Queues[p.target] # 0
                 /\ queue'[q].target = Queues[p.target] /\ queue'[q].count = p.count
            <4> SUFFICES ASSUME PolicyOK(p), p.kind # "none"
                         PROVE  /\ p.target \in Name /\ Queues[p.target] # 0
                                /\ queue'[q].target = Queues[p.target]
                                /\ queue'[q].count = p.count
                BY <2>3
            <4>1. p.target \in Name
                <5>1. p \in Policy
                    BY <2>1, EntryType
                <5> QED BY <5>1 DEF Policy, PolicyOK
            <4>2. queue[q] \in Queue
                BY <3>2, <3>3
            <4>3. queue'[q] = [queue[q] EXCEPT !.target = Queues[p.target], !.count = p.count]
                BY <3>1, <3>2, <3>3, LenProperties DEF SetPolicy
            <4> QED BY <4>1, <4>2, <4>3 DEF PolicyOK, Queue
        <3>6. ASSUME NEW k \in 1..i, config.queues[k].policy.kind = "given",
                     \A l \in (k + 1)..i : config.queues[l].name = config.queues[k].name =>
                        config.queues[l].policy.kind = "none"
              PROVE  LET e == config.queues[k]
                     IN  /\ e.policy.target \in Name /\ Queues[e.policy.target] # 0
                         /\ queue'[Queues[e.name]].target = Queues[e.policy.target]
                         /\ queue'[Queues[e.name]].count = e.policy.count
            <4> DEFINE e == config.queues[k]
            <4>1. CASE k = i
                BY <3>5, <3>6, <4>1
            <4>2. CASE k # i
                <5>1. k \in 1..(i - 1) /\ i \in (k + 1)..i /\ k \in 1..Len(config.queues)
                    BY <2>1, <1>0, <4>2
                <5>2. \A l \in (k + 1)..(i - 1) : l \in (k + 1)..i
                    BY <1>0
                <5>3. /\ e.policy.target \in Name /\ Queues[e.policy.target] # 0
                      /\ queue[Queues[e.name]].target = Queues[e.policy.target]
                      /\ queue[Queues[e.name]].count = e.policy.count
                    BY <2>1, <3>6, <5>1, <5>2 DEF PoliciesDone
                <5>4. Queues[e.name] \in 1..Len(queue)
                    BY <2>1, <5>1, EntryType, FileType DEF QueuesDone, TypeOK
                <5>5. CASE e.name = config.queues[i].name
                    <6>1. p.kind = "none"
                        BY <3>6, <5>1, <5>5
                    <6> QED BY <3>1, <5>3, <6>1
                <5>6. CASE e.name # config.queues[i].name
                    <6>1. e.name \in Name /\ config.queues[i].name \in Name
                        BY <2>1, <5>1, EntryType
                    <6>2. Queues[e.name] # q
                        BY <5>4, <5>6, <6>1 DEF Injective
                    <6>3. queue'[Queues[e.name]] = queue[Queues[e.name]]
                        BY <3>4, <5>4, <6>2
                    <6> QED BY <5>3, <6>3
                <5> QED BY <5>5, <5>6
            <4> QED BY <4>1, <4>2
        <3>7. PoliciesDone(i - 1)'
            <4>1. i' - 1 = i
                BY <1>0, <3>1
            <4> QED BY <2>1, <3>6, <4>1 DEF PoliciesDone
        <3> QED BY <1>0, <2>1, <3>1, <3>7 DEF PoliciesInv, Finished
    <2> QED BY <2>2, <2>3
<1>3. CASE AddSubscription
    <2>1. pc = "topics" /\ pc' \in {"topics", "main"} /\ UNCHANGED config
        BY <1>3 DEF AddSubscription, InTopic, ReturnEarly, Goto
    <2>2. PoliciesDone(Len(config.queues))'
        BY <1>0, <1>3, <2>1, SubscriptionKeeps, DoneKept DEF QueuesInv, PoliciesInv
    <2> QED BY <2>1, <2>2 DEF PoliciesInv
<1>4. CASE ~AddQueue /\ ~SetQueueRedrivePolicy /\ ~AddSubscription
    <2>1. UNCHANGED <<config, Queues, queue>> /\ \A b : PoliciesDone(b) <=> PoliciesDone(b)'
        BY <1>4, OtherSteps, DoneSame
    <2>2. CASE ReadFile
        <3>1. pc' = "queues" \/ (pc' = "main" /\ ~config.readable)
            BY <2>2 DEF ReadFile, Goto, ReturnEarly
        <3> QED BY <2>1, <3>1 DEF PoliciesInv, Finished
    <2>3. CASE QueuesEnd
        <3>1. \A k \in 1..0 : FALSE
            OBVIOUS
        <3>2. PoliciesDone(0)'
            BY <3>1 DEF PoliciesDone
        <3>3. pc' = "policies" /\ i' = 1
            BY <2>3 DEF QueuesEnd, Goto
        <3> QED BY <1>0, <2>1, <3>2, <3>3 DEF PoliciesInv, Finished
    <2>4. CASE PoliciesEnd
        <3>1. pc = "policies" /\ i > Len(config.queues) /\ pc' = "topics"
            BY <2>4 DEF PoliciesEnd, Goto
        <3>2. i - 1 = Len(config.queues)
            BY <1>0, <3>1 DEF PoliciesInv
        <3>3. PoliciesDone(Len(config.queues))'
            BY <2>1, <3>1, <3>2 DEF PoliciesInv
        <3> QED BY <2>1, <3>1, <3>3 DEF PoliciesInv
    <2>5. CASE AddTopic \/ Unlock
        <3>1. pc = "topics" /\ pc' \in {"topics", "main"}
            BY <2>5 DEF AddTopic, InTopic, Unlock, Goto
        <3> QED BY <2>1, <3>1 DEF PoliciesInv
    <2>6. CASE pc = "main" /\ pc' = "listening"
        BY <2>1, <2>6 DEF PoliciesInv, Finished, Sound
    <2>7. CASE UNCHANGED <<pc, i>>
        BY <2>1, <2>7 DEF PoliciesInv, Finished, Sound
    <2> QED BY <1>4, <2>2, <2>3, <2>4, <2>5, <2>6, <2>7, OtherSteps
<1> QED BY <1>1, <1>2, <1>3, <1>4

\* The topics made so far stay when queues are added.
LEMMA TopicsKept ==
    ASSUME TypeOK, UNCHANGED <<config, Topics>>, Kept \/ UNCHANGED <<Queues, queue>>,
           NEW b \in 0..Len(config.topics), TopicsDone(b)
    PROVE  TopicsDone(b)'
<1>1. ASSUME NEW k \in 1..b
      PROVE  LET e == config.topics[k]
             IN  Reachable(e.subscriptions, Len(e.subscriptions))'
    <2> DEFINE t == config.topics[k].subscriptions
    <2>1. config.topics[k] \in TopicEntry
        BY FileType, ElementOfSeq
    <2>2. t \in Seq(Subscription) /\ Len(t) \in Nat
        BY <2>1 DEF TopicEntry
    <2>3. Reachable(t, Len(t))
        BY DEF TopicsDone
    <2>4. CASE Kept
        <3>1. \A subscriptions \in Seq(Subscription) : \A a \in 0..Len(subscriptions) :
                Reachable(subscriptions, a) => Reachable(subscriptions, a)'
            BY <2>4, DoneKept
        <3>2. Len(t) \in 0..Len(t)
            BY <2>2
        <3> HIDE DEF t
        <3>3. \A l \in 1..Len(t) : t[l].protocol = "sqs" => Queues'[t[l].queue] # 0
            BY <2>2, <2>3, <3>1, <3>2 DEF Reachable
        <3> QED BY <3>3 DEF Reachable, t
    <2>5. CASE UNCHANGED <<Queues, queue>>
        BY <2>3, <2>5 DEF Reachable
    <2> QED BY <2>4, <2>5
<1> QED BY <1>1 DEF TopicsDone

LEMMA SubscriptionsStep ==
    ASSUME TypeOK, TopicsInv, AddSubscription
    PROVE  TopicsInv'
<1> DEFINE t == config.topics[i].subscriptions
           s == t[j]
<1>1. /\ InTopic /\ j \in 1..Len(t) /\ t \in Seq(Subscription) /\ s \in Subscription
      /\ UNCHANGED <<config, Topics>> /\ Kept
      /\ (s.protocol = "sqs" => Queues'[s.queue] # 0)
      /\ i \in 1..Len(config.topics) /\ Len(config.topics) \in Nat /\ Len(t) \in Nat
      /\ i \in Nat /\ j \in Nat
    BY SubscriptionStep, SubscriptionKeeps, TopicType, FileType DEF AddSubscription, TypeOK
<1>2. pc = "topics" /\ TopicsDone(i - 1) /\ TopicSoFar
    BY <1>1 DEF InTopic, TopicsInv
<1>3. CASE ReturnEarly /\ s.filter = "malformed"
    <2>1. ~Sound(config)
        BY <1>1, <1>3 DEF Sound
    <2>2. pc' = "main" /\ ~Sound(config)'
        BY <1>1, <1>3, <2>1 DEF ReturnEarly, Goto, Sound
    <2> QED BY <2>2 DEF TopicsInv, Finished
<1>4. CASE newTopic' = Append(newTopic, s) /\ j' = j + 1 /\ UNCHANGED <<pc, i>>
    <2>1. i - 1 \in 0..Len(config.topics)
        BY <1>1
    <2>2. TopicsDone(i - 1)'
        <3>1. \A b \in 0..Len(config.topics) : TopicsDone(b) => TopicsDone(b)'
            BY <1>1, TopicsKept
        <3> QED BY <1>2, <1>4, <2>1, <3>1 DEF TopicsDone
    <2>3. /\ Len(newTopic) = j - 1 /\ \A l \in 1..(j - 1) : newTopic[l] = t[l]
          /\ Reachable(t, j - 1)
        BY <1>2 DEF TopicSoFar
    <2>4. /\ Len(newTopic') = Len(newTopic) + 1
          /\ \A l \in 1..Len(newTopic) : newTopic'[l] = newTopic[l]
          /\ newTopic'[Len(newTopic) + 1] = s
        BY <1>1, <1>4, AppendProperties DEF TypeOK
    <2>5. \A l \in 1..j : l \in 1..(j - 1) \/ l = j
        BY <1>1
    <2>6. \A l \in 1..j : newTopic'[l] = t[l]
        <3>1. newTopic'[j] = t[j]
            BY <1>1, <2>3, <2>4
        <3>2. \A l \in 1..(j - 1) : newTopic'[l] = t[l]
            BY <1>1, <2>3, <2>4
        <3> HIDE DEF t
        <3> QED BY <2>5, <3>1, <3>2
    <2>7. \A l \in 1..j : t[l].protocol = "sqs" => Queues'[t[l].queue] # 0
        <3>1. j - 1 \in 0..Len(t)
            BY <1>1
        <3>2. \A subscriptions \in Seq(Subscription) : \A a \in 0..Len(subscriptions) :
                Reachable(subscriptions, a) => Reachable(subscriptions, a)'
            BY <1>1, DoneKept
        <3>3. \A l \in 1..(j - 1) : t[l].protocol = "sqs" => Queues'[t[l].queue] # 0
            BY <1>1, <2>3, <3>1, <3>2 DEF Reachable
        <3> QED BY <1>1, <2>5, <3>3
    <2>8. j' - 1 = j /\ j' <= Len(t) + 1 /\ Len(newTopic') = j
        BY <1>1, <1>4, <2>3, <2>4, SMTT(30)
    <2>9. TopicSoFar'
        BY <1>1, <1>4, <2>6, <2>7, <2>8 DEF TopicSoFar, Reachable
    <2> QED BY <1>1, <1>2, <1>4, <2>2, <2>9 DEF TopicsInv, Finished
<1> QED BY <1>3, <1>4, SubscriptionStep, SMTT(30)

LEMMA AddTopicStep ==
    ASSUME TypeOK, TopicsInv, AddTopic
    PROVE  TopicsInv'
<1> DEFINE e == config.topics[i]
           t == e.subscriptions
<1>1. /\ InTopic /\ j > Len(t) /\ t \in Seq(Subscription) /\ e.name \in TopicName
      /\ UNCHANGED <<config, Queues, queue, pc>> /\ i' = i + 1 /\ j' = 1 /\ newTopic' = <<>>
      /\ Topics' = [Topics EXCEPT ![e.name] = [exists |-> TRUE, subscriptions |-> newTopic]]
      /\ i \in 1..Len(config.topics) /\ Len(config.topics) \in Nat /\ Len(t) \in Nat
      /\ i \in Nat /\ j \in Nat
    BY TopicType, FileType DEF AddTopic, TypeOK
<1>2. pc = "topics" /\ TopicsDone(i - 1) /\ TopicSoFar
    BY <1>1 DEF InTopic, TopicsInv
<1>3. newTopic = t /\ Reachable(t, Len(t))
    <2>1. j - 1 = Len(t)
        BY <1>1, <1>2 DEF TopicSoFar
    <2>2. /\ newTopic \in Seq(Subscription) /\ Len(newTopic) = Len(t)
          /\ \A l \in 1..Len(newTopic) : newTopic[l] = t[l]
        BY <1>1, <1>2, <2>1 DEF TopicSoFar, TypeOK
    <2>3. newTopic = t
        BY <1>1, <2>2, SeqEqual
    <2> QED BY <1>2, <2>1, <2>3 DEF TopicSoFar
<1>4. ASSUME NEW k \in 1..i
      PROVE  LET f == config.topics[k]
             IN  /\ (\A l \in (k + 1)..i : config.topics[l].name # f.name) =>
                        Topics'[f.name].subscriptions = f.subscriptions
                 /\ Reachable(f.subscriptions, Len(f.subscriptions))
    <2> DEFINE f == config.topics[k]
    <2>1. CASE k = i
        BY <1>1, <1>3, <2>1 DEF TypeOK
    <2>2. CASE k # i
        <3>1. k \in 1..(i - 1) /\ i \in (k + 1)..i /\ k \in 1..Len(config.topics)
            BY <1>1, <2>2
        <3>2. \A l \in (k + 1)..(i - 1) : l \in (k + 1)..i
            BY <1>1
        <3>3. config.topics[k] \in TopicEntry
            BY <3>1, FileType, ElementOfSeq
        <3>4. f.name \in TopicName
            BY <3>3 DEF TopicEntry
        <3>5. /\ (\A l \in (k + 1)..(i - 1) : config.topics[l].name # f.name) =>
                    Topics[f.name].subscriptions = f.subscriptions
              /\ Reachable(f.subscriptions, Len(f.subscriptions))
            BY <1>2, <3>1 DEF TopicsDone
        <3>6. f.name # e.name => Topics'[f.name] = Topics[f.name]
            BY <1>1, <3>4 DEF TypeOK
        <3> HIDE DEF f, e
        <3>7. (\A l \in (k + 1)..i : config.topics[l].name # f.name) => f.name # e.name
            BY <3>1 DEF e
        <3> QED BY <3>2, <3>5, <3>6, <3>7 DEF f
    <2> QED BY <2>1, <2>2
<1>5. TopicsDone(i - 1)'
    <2>1. i' - 1 = i
        BY <1>1
    <2> QED BY <1>1, <1>4, <2>1 DEF TopicsDone, Reachable
<1>6. i' <= Len(config.topics) => TopicSoFar'
    <2>1. i' <= Len(config.topics) => i' \in 1..Len(config.topics)
        BY <1>1
    <2>2. i' <= Len(config.topics) => config.topics[i'] \in TopicEntry
        BY <2>1, FileType, ElementOfSeq
    <2>3. i' <= Len(config.topics) => Len(config.topics[i'].subscriptions) \in Nat
        BY <2>2 DEF TopicEntry
    <2>4. Len(<<>>) = 0 /\ \A l \in 1..0 : FALSE
        OBVIOUS
    <2> QED BY <1>1, <2>3, <2>4 DEF TopicSoFar, Reachable
<1> QED BY <1>1, <1>2, <1>5, <1>6 DEF TopicsInv, Finished

LEMMA TopicsStep ==
    ASSUME TypeOK, QueuesInv, TopicsInv, [Next]_vars
    PROVE  TopicsInv'
<1>0. Len(config.topics) \in Nat /\ i \in Nat /\ j \in Nat \ {0}
    BY FileType DEF TypeOK
<1>1. CASE AddQueue
    BY <1>1 DEF AddQueue, TopicsInv, Finished
<1>2. CASE SetQueueRedrivePolicy
    <2>1. CASE pc' = "policies"
        BY <2>1 DEF TopicsInv, Finished
    <2>2. CASE pc' # "policies"
        <3>1. pc' = "main" /\ ~Sound(config) /\ UNCHANGED config
            BY <1>2, <2>2, SoundPolicy DEF SetQueueRedrivePolicy, ReturnEarly, Goto
        <3> QED BY <3>1 DEF TopicsInv, Finished, Sound
    <2> QED BY <2>1, <2>2
<1>3. CASE ~AddQueue /\ ~SetQueueRedrivePolicy /\ ~AddSubscription /\ ~AddTopic
    <2>1. UNCHANGED <<config, Queues, queue>>
        BY <1>3, OtherSteps
    <2>2. CASE ReadFile \/ QueuesEnd
        <3>1. pc' \in {"queues", "policies"} \/ (pc' = "main" /\ ~config.readable)
            BY <2>2 DEF ReadFile, QueuesEnd, Goto, ReturnEarly
        <3> QED BY <2>1, <3>1 DEF TopicsInv, Finished
    <2>3. CASE PoliciesEnd
        <3>1. pc' = "topics" /\ i' = 1 /\ j' = 1 /\ newTopic' = <<>>
            BY <2>3 DEF PoliciesEnd, Goto
        <3>2. Len(<<>>) = 0 /\ \A l \in 1..0 : FALSE
            OBVIOUS
        <3>3. TopicsDone(i - 1)'
            BY <3>1, <3>2 DEF TopicsDone
        <3>4. ASSUME 1 <= Len(config.topics)
              PROVE  TopicSoFar'
            <4>1. config.topics[1] \in TopicEntry
                BY <1>0, <3>4, FileType, ElementOfSeq
            <4>2. Len(config.topics[1].subscriptions) \in Nat
                BY <4>1 DEF TopicEntry
            <4> QED BY <2>1, <3>1, <3>2, <4>2 DEF TopicSoFar, Reachable
        <3> QED BY <1>0, <2>1, <3>1, <3>3, <3>4 DEF TopicsInv, Finished
    <2>4. CASE Unlock
        <3>1. pc = "topics" /\ i > Len(config.topics) /\ pc' = "main" /\ UNCHANGED Topics
            BY <2>4 DEF Unlock, Goto, tables
        <3>2. i - 1 = Len(config.topics) /\ TopicsDone(i - 1)
            BY <1>0, <3>1 DEF TopicsInv
        <3>3. TopicsDone(Len(config.topics))'
            BY <1>0, <2>1, <3>1, <3>2 DEF TopicsDone, Reachable
        <3> QED BY <3>1, <3>3 DEF TopicsInv
    <2>5. CASE pc = "main" /\ pc' = "listening" /\ UNCHANGED Topics
        <3>1. TopicsDone(Len(config.topics)) => TopicsDone(Len(config.topics))'
            BY <2>1, <2>5 DEF TopicsDone, Reachable
        <3> QED BY <2>1, <2>5, <3>1 DEF TopicsInv, Finished, Sound
    <2>6. CASE UNCHANGED <<pc, i, j, newTopic, Topics>>
        <3>1. /\ TopicsDone(Len(config.topics)) => TopicsDone(Len(config.topics))'
              /\ TopicsDone(i - 1) => TopicsDone(i - 1)'
            BY <2>1, <2>6 DEF TopicsDone, Reachable
        <3>2. TopicSoFar => TopicSoFar'
            BY <2>1, <2>6 DEF TopicSoFar, Reachable
        <3> QED BY <2>1, <2>6, <3>1, <3>2 DEF TopicsInv, Finished, Sound
    <2> QED BY <1>3, <2>2, <2>3, <2>4, <2>5, <2>6, OtherSteps
<1> QED BY <1>1, <1>2, <1>3, SubscriptionsStep, AddTopicStep

LoadInv == Injective /\ QueuesInv /\ PoliciesInv /\ TopicsInv

LEMMA LoadInvCorrect == Spec => []LoadInv
<1>1. Init => LoadInv
    <2> SUFFICES ASSUME Init
                 PROVE  LoadInv
        OBVIOUS
    <2>1. pc = "open" /\ \A n \in Name : Queues[n] = 0
        BY DEF Init
    <2> QED BY <2>1 DEF LoadInv, Injective, QueuesInv, PoliciesInv, TopicsInv, Finished
<1>2. TypeOK /\ TargetInv /\ LoadInv /\ TargetInv' /\ [Next]_vars => LoadInv'
    BY QueuesStep, PoliciesStep, TopicsStep DEF LoadInv, TargetInv
<1> QED BY <1>1, <1>2, StartTypeCorrect, TargetInvCorrect, PTL DEF Spec

\* Whatever the sound file, however often a name comes and in whatever order the
\* entries do, the loader leaves the tables that the file describes.
THEOREM TablesAsConfiguredCorrect == Spec => []TablesAsConfigured
<1>1. ASSUME TypeOK, LoadInv, pc \in {"main", "listening"}, config.readable, Sound(config)
      PROVE  /\ \A k \in 1..Len(config.queues) :
                LET e == config.queues[k]
                    q == queue[Queues[e.name]]
                IN  /\ Last(config.queues, k) => q.timeout = Timeout(e.timeout)
                    /\ LastGiven(config.queues, k) =>
                        q.count = e.policy.count /\ q.target = Queues[e.policy.target]
             /\ \A k \in 1..Len(config.topics) :
                LET e == config.topics[k]
                IN  /\ Last(config.topics, k) => Topics[e.name].subscriptions = e.subscriptions
                    /\ \A l \in 1..Len(e.subscriptions) :
                        e.subscriptions[l].protocol = "sqs" => Queues[e.subscriptions[l].queue] # 0
    <2>1. Finished
        BY <1>1 DEF Finished
    <2>2. /\ QueuesDone(Len(config.queues)) /\ PoliciesDone(Len(config.queues))
          /\ TopicsDone(Len(config.topics))
        BY <1>1, <2>1 DEF LoadInv, QueuesInv, PoliciesInv, TopicsInv
    <2>3. ASSUME NEW k \in 1..Len(config.queues)
          PROVE  LET e == config.queues[k]
                     q == queue[Queues[e.name]]
                 IN  /\ Last(config.queues, k) => q.timeout = Timeout(e.timeout)
                     /\ LastGiven(config.queues, k) =>
                         q.count = e.policy.count /\ q.target = Queues[e.policy.target]
        BY <2>2 DEF QueuesDone, PoliciesDone, Last, LastGiven
    <2>4. ASSUME NEW k \in 1..Len(config.topics)
          PROVE  LET e == config.topics[k]
                 IN  /\ Last(config.topics, k) => Topics[e.name].subscriptions = e.subscriptions
                     /\ \A l \in 1..Len(e.subscriptions) :
                         e.subscriptions[l].protocol = "sqs" => Queues[e.subscriptions[l].queue] # 0
        BY <2>2 DEF TopicsDone, Reachable, Last
    <2> QED BY <2>3, <2>4
<1>2. TypeOK /\ LoadInv => TablesAsConfigured
    BY <1>1 DEF TablesAsConfigured
<1> QED BY <1>2, LoadInvCorrect, StartTypeCorrect, PTL
=============================================================================
