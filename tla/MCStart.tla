------------------------------ MODULE MCStart -------------------------------
(* Files for model checking Start: two queues, in either order or of one      *)
(* name, with every kind of policy; one or two topics.                       *)
EXTENDS Start

CONSTANTS q1, q2, q3, t1

Policies ==
    {[kind |-> "none", target |-> NoName, count |-> 0],
     [kind |-> "malformed", target |-> NoName, count |-> 0]} \cup
    {[kind |-> "given", target |-> n, count |-> c] : n \in {q1, q2, q3, NoName}, c \in {0, 2}}

QueueEntries ==
    {[name |-> n, timeout |-> 0, policy |-> p] : n \in {q1, q2}, p \in Policies}

SubscriptionEntries ==
    {[protocol |-> "sqs", queue |-> n, filter |-> f] : n \in {q1, q3}, f \in {"none", "malformed"}}
        \cup {[protocol |-> "http", queue |-> q1, filter |-> "given"]}

TopicLists ==
    {<<>>} \cup {<<[name |-> t1, subscriptions |-> <<s>>]>> : s \in SubscriptionEntries}
        \cup {<<[name |-> t1, subscriptions |-> <<s>>],
                 [name |-> t1, subscriptions |-> <<[s EXCEPT !.protocol = "http"], s>>]>> :
                s \in SubscriptionEntries}

MCConfigs ==
    {[readable |-> TRUE, timeout |-> 5, topics |-> ts,
      queues |-> <<d, [e EXCEPT !.timeout = 7]>>] : d, e \in QueueEntries, ts \in TopicLists}
        \cup {[readable |-> r, timeout |-> 0, topics |-> ts, queues |-> <<>>] :
                r \in BOOLEAN, ts \in TopicLists}
=============================================================================
