-------------------------- MODULE TopicsRefinement --------------------------
(***************************************************************************)
(* The slices of subscriptions implement SubscriberSets: appending to one, *)
(* in place or in a new array, and removing from one by a position that    *)
(* was found without the mutex, in two steps each, are steps of one member *)
(* of the set.                                                             *)
(***************************************************************************)
EXTENDS Topics

topicsOf == {n \in Name : Topics[n] # Nil}

\* What is in the slice that each topic has now, nil entries aside.
membersOf == [n \in Name |-> IF Topics[n] = Nil THEN {} ELSE Subscribers(Topics[n])]

addressOf == [s \in Allocated |-> Address(subscription[s])]

\* The nil entries that wait for their subscription.
pendingOf == {<<call[c].name, call[c].sub>> : c \in {d \in Client : pc[d] = "store"}}

Sets == INSTANCE SubscriberSets WITH
    Place <- Arn \X Endpoint,
    topics <- topicsOf, members <- membersOf, address <- addressOf, pending <- pendingOf

\* Whatever positions are stale, arrays full or handlers interleaved, a step makes,
\* joins or takes away one subscription of one topic: removals copy entries over
\* others, and appends move all of them, without losing or repeating one.  The
\* exceptions are the topic that goes, and the one that a CreateTopic replaces with
\* an empty topic, having looked for it before another made it.
Implements == Sets!Spec
=============================================================================
