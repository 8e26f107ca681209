------------------------------ MODULE MCTopics ------------------------------
(* Values for model checking Topics: which client asks for what, what the    *)
(* requests carry, and the tables that the server starts with.               *)
EXTENDS TopicsRefinement, TLC

CONSTANTS c1, color, red, a1

\* One client makes topics and subscriptions, the other publishes, confirms and
\* deletes topics; both remove subscriptions.
MCHandlers ==
    [c \in Client |->
        IF c = c1 THEN {"CreateTopic", "Subscribe", "Unsubscribe",
                        "SetSubscriptionAttributes", "ListTopics"}
        ELSE {"Publish", "Unsubscribe", "ConfirmSubscription", "DeleteTopic"}]

\* Both ask for HTTP subscriptions, and visit the URLs they were sent.
ConfirmHandlers ==
    [c \in Client |-> {"CreateTopic", "Subscribe", "ConfirmSubscription"}]

\* Every ARN ends in the name of the one topic.
MCTopicName == [a \in Arn |-> CHOOSE n \in Name : TRUE]

Subscribing(e, a) == [arn |-> a, endpoint |-> e, raw |-> FALSE, policy |-> <<>>]

\* Requests spell the topic's ARN otherwise than the file, a1.
MCSubscribeInputs == {Subscribing(e, a) : e \in Endpoint, a \in Arn \ {a1}}

\* A message with a Number attribute, which a filter on the attribute rejects.
MCPublishInputs ==
    {[attributes |-> color :> [DataType |-> "Number", Value |-> red], broken |-> FALSE]}

MCAttributeInputs ==
    {[attribute |-> "FilterPolicy", raw |-> FALSE, policy |-> color :> {red}]}

\* No filter, and one on the attribute.
MCPolicy == {<<>>, color :> {red}}

NoTable ==
    [topics |-> [n \in Name |-> Nil], array |-> [o \in Object |-> Nil],
     entries |-> [o \in Object |-> <<>>], subscription |-> [s \in Sub |-> Nil],
     queues |-> {}]

\* The topic, with a queue subscribed through a filter.
FileTable ==
    LET o == CHOOSE x \in Object : TRUE
        s == CHOOSE x \in Sub : TRUE
        q == CHOOSE x \in QueueEndpoint : TRUE
    IN  [topics |-> [n \in Name |-> o], array |-> [NoTable.array EXCEPT ![o] = 1],
         entries |-> [NoTable.entries EXCEPT ![o] = <<s>>],
         subscription |-> [NoTable.subscription EXCEPT ![s] =
            [Subscribing(q, a1) EXCEPT !.policy = color :> {red}]],
         queues |-> {q}]

MCLoaded == {NoTable, FileTable}

NothingLoaded == {NoTable}
=============================================================================
