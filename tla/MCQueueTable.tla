---------------------------- MODULE MCQueueTable ----------------------------
(* Values for model checking QueueTable: what is asked of the main queue n1   *)
(* and of another, and the symmetry of messages and queue objects.            *)
EXTENDS QueueTable, TLC

CONSTANT n1

\* Everything is asked of n1, while the other comes and goes.
MainHandlers ==
    [n \in Name |-> IF n = n1 THEN AllHandlers ELSE {"CreateQueue", "DeleteQueue"}]

\* No queue is deleted, and n1 is the only one.
LastingHandlers ==
    [n \in Name |-> IF n = n1 THEN AllHandlers \ {"DeleteQueue"} ELSE {}]

DeleteHandlers == [n \in Name |-> {"CreateQueue", "DeleteQueue", "ReceiveMessage"}]

Symmetric == Permutations(Msg) \cup Permutations(Object)
=============================================================================
