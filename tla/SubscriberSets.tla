--------------------------- MODULE SubscriberSets ---------------------------
(***************************************************************************)
(* What the topics of GoAws promise of their subscribers: a topic has a    *)
(* set of subscriptions, which are joined and left one at a time, and no   *)
(* one joins with an address that the topic has.  There are no slices,     *)
(* positions, handlers or mutexes here; TopicsRefinement shows what        *)
(* Topics, which has them all, makes of these sets.                        *)
(***************************************************************************)
CONSTANTS
    Name,                   \* the names of topics
    Sub,                    \* the subscriptions there may be
    Place                   \* where they deliver to, and for which topic ARN

VARIABLES
    topics,                 \* the names that topics have
    members,                \* name -> the subscriptions of its topic
    address,                \* subscription made -> its address
    pending                 \* topic and subscription: made, and not joined yet

vars == <<topics, members, address, pending>>

Has(n, p) == \E s \in members[n] : address[s] = p

\* A new topic has no subscriptions, whatever the one that it replaces had.
Create(n) ==
    /\ topics' = topics \cup {n}
    /\ members' = [members EXCEPT ![n] = {}]
    /\ UNCHANGED <<address, pending>>

\* The subscriptions go with their topic.
Drop(n) ==
    /\ n \in topics
    /\ topics' = topics \ {n}
    /\ members' = [members EXCEPT ![n] = {}]
    /\ UNCHANGED <<address, pending>>

\* s is made for an address that n does not have.
Register(n, s, p) ==
    /\ n \in topics /\ s \notin DOMAIN address
    /\ ~Has(n, p)
    /\ address' = [x \in DOMAIN address \cup {s} |-> IF x = s THEN p ELSE address[x]]
    /\ pending' = pending \cup {<<n, s>>}
    /\ UNCHANGED <<topics, members>>

\* What was registered joins its topic, where its address is still missing.
Join(n, s) ==
    /\ <<n, s>> \in pending /\ n \in topics
    /\ ~Has(n, address[s])
    /\ members' = [members EXCEPT ![n] = @ \cup {s}]
    /\ pending' = pending \ {<<n, s>>}
    /\ UNCHANGED <<topics, address>>

\* One subscription leaves, and no other.
Leave(n, s) ==
    /\ s \in members[n]
    /\ members' = [members EXCEPT ![n] = @ \ {s}]
    /\ UNCHANGED <<topics, address, pending>>

\* The process stops before they have joined.
Abandon ==
    /\ pending' = {}
    /\ UNCHANGED <<topics, members, address>>

\* Any topics, with any subscriptions: a configuration file may list an address twice.
Init ==
    /\ topics \subseteq Name
    /\ DOMAIN address \subseteq Sub /\ address \in [DOMAIN address -> Place]
    /\ members \in [Name -> SUBSET DOMAIN address]
    /\ \A n \in Name \ topics : members[n] = {}
    /\ \A n, k \in Name : n # k => members[n] \cap members[k] = {}
    /\ pending = {}

Next ==
    \/ Abandon
    \/ \E n \in Name :
        \/ Create(n) \/ Drop(n)
        \/ \E s \in Sub : Join(n, s) \/ Leave(n, s) \/ \E p \in Place : Register(n, s, p)

Spec == Init /\ [][Next]_vars

-----------------------------------------------------------------------------
\* A subscription has at most one topic, and one that has not joined none.
Sound ==
    /\ \A n, k \in Name : n # k => members[n] \cap members[k] = {}
    /\ \A n, k \in Name, s \in Sub : <<n, s>> \in pending => s \notin members[k]
=============================================================================
