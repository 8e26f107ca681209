--------------------------- MODULE SQSRefinement ---------------------------
(***************************************************************************)
(* The message store implements MessageLife: each step of a handler, and   *)
(* each iteration of the loops that scan, sweep and delete by position, is *)
(* one step in the life of at most one message (PurgeQueue: of all in its  *)
(* queue), whatever the others are doing.                                  *)
(***************************************************************************)
EXTENDS SQSProperties

\* The queue that has m among its messages.
placeOf ==
    [m \in Msg |-> IF \E q \in Queue : InQueue(Messages, q, m)
                   THEN CHOOSE q \in Queue : InQueue(Messages, q, m) ELSE NoQueue]

\* The handles that ReceiveMessage has marked messages with.
usedHandles == UNION {{<<m, n>> : n \in 1..minted[m]} : m \in Msg}

Life == INSTANCE MessageLife WITH
    place <- placeOf, holder <- ReceiptHandle, count <- Retry,
    used <- usedHandles, seen <- received

\* Whatever clients ask for and however the loops interleave with their requests,
\* a message moves only along the life that MessageLife allows it: a step takes,
\* brings back, redrives or deletes the very message it means, and its neighbours
\* in the list keep their places, handles and counts.
Implements == Life!Spec
=============================================================================
