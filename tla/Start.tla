------------------------------- MODULE Start --------------------------------
(***************************************************************************)
(* The start of GoAws: LoadYamlConfig fills the tables of queues and       *)
(* topics from the configuration file, with both mutexes locked, and main  *)
(* then starts PeriodicTasks and the HTTP listeners, whatever became of    *)
(* the file.  A queue is a number here, its place among the queues made:   *)
(* redrive policies point to queues, not to their names.                   *)
(***************************************************************************)
EXTENDS Naturals, Sequences

CONSTANTS
    Name,                   \* names of queues
    TopicName,              \* names of topics
    Configs,                \* the files there may be
    NoName                  \* an empty name

\* A redrive policy: its target's name and its maxReceiveCount, if it can be parsed.
Policy ==
    [kind : {"none", "malformed", "given"}, target : Name \cup {NoName}, count : Nat]

QueueEntry == [name : Name, timeout : Nat, policy : Policy]

Subscription ==
    [protocol : {"http", "sqs"}, queue : Name, filter : {"none", "malformed", "given"}]

TopicEntry == [name : TopicName, subscriptions : Seq(Subscription)]

\* A file: whether it is found and is YAML, the default VisibilityTimeout, the queues
\* and the topics.
File ==
    [readable : BOOLEAN, timeout : Nat, queues : Seq(QueueEntry), topics : Seq(TopicEntry)]

ASSUME StartAssumption == NoName \notin Name /\ Configs \subseteq File

VARIABLES
    config,                 \* the file
    Queues,                 \* name -> its queue, 0 for none
    queue,                  \* the queues made: timeout, redrive target and count
    Topics,                 \* name -> its subscriptions, and whether it exists
    queuesLocked,           \* the mutex of SyncQueues is locked
    topicsLocked,           \* the mutex of SyncTopics is locked
    pc,                     \* where the main goroutine is
    i, j,                   \* LoadYamlConfig: the entry, and the subscription in it
    newTopic,               \* LoadYamlConfig: the subscriptions of the new topic
    swept                   \* history: PeriodicTasks has had the mutex

tables == <<Queues, queue, Topics>>
locks == <<queuesLocked, topicsLocked>>
locals == <<i, j, newTopic>>
vars == <<config, tables, locks, pc, locals, swept>>

-----------------------------------------------------------------------------
(* LoadYamlConfig. *)

Goto(p) == pc' = p /\ i' = 1 /\ j' = 1 /\ newTopic' = <<>>

\* return ports: the mutexes stay as they are.
ReturnEarly == Goto("main")

\* The defaults of the defaults, and of a queue.
\* (mutant) a timeout that is not given stays unset
DefaultTimeoutUnset == config.timeout

DefaultTimeout == IF config.timeout = 0 THEN 30 ELSE config.timeout

Timeout(t) == IF t = 0 THEN DefaultTimeout ELSE t

NewQueue(t) == [timeout |-> t, target |-> 0, count |-> 0]

ReadFile ==
    /\ pc = "open"
    /\ IF config.readable
       THEN Goto("queues") /\ queuesLocked' = TRUE /\ topicsLocked' = TRUE
       ELSE ReturnEarly /\ UNCHANGED locks
    /\ UNCHANGED <<config, tables, swept>>

\* A name that comes again gets a new queue.
AddQueue ==
    /\ pc = "queues" /\ i <= Len(config.queues)
    /\ queue' = Append(queue, NewQueue(Timeout(config.queues[i].timeout)))
    /\ Queues' = [Queues EXCEPT ![config.queues[i].name] = Len(queue) + 1]
    /\ i' = i + 1
    /\ UNCHANGED <<config, Topics, locks, pc, j, newTopic, swept>>

QueuesEnd ==
    /\ pc = "queues" /\ i > Len(config.queues)
    /\ Goto("policies")
    /\ UNCHANGED <<config, tables, locks, swept>>

\* setQueueRedrivePolicy finds no fault with p.  A policy of blanks is one: there
\* is no queue without a name.
PolicyOK(p) ==
    /\ p.kind = "given"
    /\ p.target # NoName /\ p.count # 0
    /\ Queues[p.target] # 0

\* (mutant) the policy goes to the queue made for this entry
SetPolicyOf(p) == [queue EXCEPT ![i].target = Queues[p.target], ![i].count = p.count]

\* The policy goes to the queue that has the entry's name now.
SetPolicy(p) ==
    [queue EXCEPT ![Queues[config.queues[i].name]] =
        [@ EXCEPT !.target = Queues[p.target], !.count = p.count]]

SetQueueRedrivePolicy ==
    /\ pc = "policies" /\ i <= Len(config.queues)
    /\ LET p == config.queues[i].policy
       IN  IF p.kind # "none" /\ ~PolicyOK(p)
           THEN ReturnEarly /\ UNCHANGED queue
           ELSE /\ queue' = IF p.kind = "none" THEN queue ELSE SetPolicy(p)
                /\ i' = i + 1
                /\ UNCHANGED <<pc, j, newTopic>>
    /\ UNCHANGED <<config, Queues, Topics, locks, swept>>

PoliciesEnd ==
    /\ pc = "policies" /\ i > Len(config.queues)
    /\ Goto("topics")
    /\ UNCHANGED <<config, tables, locks, swept>>

InTopic == pc = "topics" /\ i <= Len(config.topics)

\* (mutant) the queue is made without a look for the one there is
NeedsQueueAlways(s) == s.protocol = "sqs"

NeedsQueue(s) == s.protocol = "sqs" /\ Queues[s.queue] = 0

\* createHttpSubscription or createSqsSubscription, which makes the queue if there
\* is none.  Then the filter policy is parsed.
AddSubscription ==
    /\ InTopic /\ j <= Len(config.topics[i].subscriptions)
    /\ LET s == config.topics[i].subscriptions[j]
       IN  /\ IF NeedsQueue(s)
              THEN /\ queue' = Append(queue, NewQueue(DefaultTimeout))
                   /\ Queues' = [Queues EXCEPT ![s.queue] = Len(queue) + 1]
              ELSE UNCHANGED <<queue, Queues>>
           /\ IF s.filter = "malformed" THEN ReturnEarly
              ELSE /\ newTopic' = Append(newTopic, s)
                   /\ j' = j + 1
                   /\ UNCHANGED <<pc, i>>
    /\ UNCHANGED <<config, Topics, locks, swept>>

\* A name that comes again gets a new topic.
AddTopic ==
    /\ InTopic /\ j > Len(config.topics[i].subscriptions)
    /\ Topics' = [Topics EXCEPT ![config.topics[i].name] =
                    [exists |-> TRUE, subscriptions |-> newTopic]]
    /\ i' = i + 1 /\ j' = 1 /\ newTopic' = <<>>
    /\ UNCHANGED <<config, Queues, queue, locks, pc, swept>>

\* (mutant) the mutex of the queues is forgotten
UnlockTopics ==
    /\ pc = "topics" /\ i > Len(config.topics)
    /\ topicsLocked' = FALSE
    /\ Goto("main")
    /\ UNCHANGED <<config, tables, queuesLocked, swept>>

Unlock ==
    /\ pc = "topics" /\ i > Len(config.topics)
    /\ queuesLocked' = FALSE /\ topicsLocked' = FALSE
    /\ Goto("main")
    /\ UNCHANGED <<config, tables, swept>>

-----------------------------------------------------------------------------
(* main, and PeriodicTasks. *)

\* PeriodicTasks and the listeners start in any case.
Listen ==
    /\ pc = "main"
    /\ Goto("listening")
    /\ UNCHANGED <<config, tables, locks, swept>>

\* The ticker fires, and PeriodicTasks gets the mutex.
PeriodicTasks ==
    /\ pc = "listening" /\ ~queuesLocked
    /\ swept' = TRUE
    /\ UNCHANGED <<config, tables, locks, pc, locals>>

Init ==
    /\ config \in Configs
    /\ Queues = [n \in Name |-> 0] /\ queue = <<>>
    /\ Topics = [t \in TopicName |-> [exists |-> FALSE, subscriptions |-> <<>>]]
    /\ queuesLocked = FALSE /\ topicsLocked = FALSE
    /\ pc = "open" /\ i = 1 /\ j = 1 /\ newTopic = <<>>
    /\ swept = FALSE

LoadYamlConfig ==
    \/ ReadFile \/ AddQueue \/ QueuesEnd \/ SetQueueRedrivePolicy \/ PoliciesEnd
    \/ AddSubscription \/ AddTopic \/ Unlock

\* The main goroutine.
Main == LoadYamlConfig \/ Listen

Next == Main \/ PeriodicTasks

\* The main goroutine runs, and PeriodicTasks is scheduled when it can have the mutex.
Spec == Init /\ [][Next]_vars /\ WF_vars(Main) /\ WF_vars(PeriodicTasks)

-----------------------------------------------------------------------------
(* What the configuration promises. *)

Queue == [timeout : Nat \ {0}, target : Nat, count : Nat]

Topic == [exists : BOOLEAN, subscriptions : Seq(Subscription)]

TypeOK ==
    /\ config \in Configs
    /\ Queues \in [Name -> 0..Len(queue)]
    /\ queue \in Seq(Queue)
    /\ \A k \in 1..Len(queue) : queue[k].target \in 0..Len(queue)
    /\ Topics \in [TopicName -> Topic] /\ newTopic \in Seq(Subscription)
    /\ queuesLocked \in BOOLEAN /\ topicsLocked \in BOOLEAN /\ swept \in BOOLEAN
    /\ pc \in {"open", "queues", "policies", "topics", "main", "listening"}
    /\ i \in Nat \ {0} /\ j \in Nat \ {0}

InTable(k) == \E n \in Name : Queues[n] = k

\* The redrive target of a queue in the table is itself in the table: no policy
\* points to a queue that an entry of the same name has replaced, or to one that
\* nobody can receive from, whatever the order of the entries ("in case dead letter
\* queue is defined first in the config", config.go:129).
TargetsInTable ==
    \A k \in 1..Len(queue) : InTable(k) /\ queue[k].target # 0 => InTable(queue[k].target)

\* The entries of a file that LoadYamlConfig can take in full: policies name
\* queues of the file, and filters are JSON.
Sound(f) ==
    /\ \A k \in 1..Len(f.queues) :
        LET p == f.queues[k].policy
        IN  \/ p.kind = "none"
            \/ /\ p.kind = "given" /\ p.count > 0
               /\ \E l \in 1..Len(f.queues) : f.queues[l].name = p.target
    /\ \A k \in 1..Len(f.topics) : \A l \in 1..Len(f.topics[k].subscriptions) :
        f.topics[k].subscriptions[l].filter # "malformed"

\* The last entry of a name, and the last that has a policy.
Last(entries, k) == \A l \in (k + 1)..Len(entries) : entries[l].name # entries[k].name

LastGiven(entries, k) ==
    /\ entries[k].policy.kind = "given"
    /\ \A l \in (k + 1)..Len(entries) :
        entries[l].name = entries[k].name => entries[l].policy.kind = "none"

\* Once a sound file is loaded the tables are what it says: a queue has the timeout
\* of the last entry of its name and the policy last given for it, a topic its
\* subscriptions in their order, and each has its queue.
TablesAsConfigured ==
    pc \in {"main", "listening"} /\ config.readable /\ Sound(config) =>
        /\ \A k \in 1..Len(config.queues) :
            LET e == config.queues[k]
                q == queue[Queues[e.name]]
            IN  /\ Last(config.queues, k) => q.timeout = Timeout(e.timeout)
                /\ LastGiven(config.queues, k) =>
                    q.count = e.policy.count /\ q.target = Queues[e.policy.target]
        /\ \A k \in 1..Len(config.topics) :
            LET e == config.topics[k]
            IN  /\ Last(config.topics, k) => Topics[e.name].subscriptions = e.subscriptions
                /\ \A l \in 1..Len(e.subscriptions) :
                    e.subscriptions[l].protocol = "sqs" => Queues[e.subscriptions[l].queue] # 0

\* The server comes up: PeriodicTasks gets its mutex, and so do the handlers, if
\* the file is sound or cannot be read at all.  With any other file the loader
\* returns with both mutexes locked, and no request that needs one is answered.
ComesUp == Sound(config) \/ ~config.readable ~> swept
=============================================================================
