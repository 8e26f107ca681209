----------------------------- MODULE MCStandard -----------------------------
(* Values for model checking SQS on a standard queue and its dead-letter     *)
(* queue.  The queue's own delay is 1 where a run lets messages be delayed.  *)
EXTENDS SQSRefinement

CONSTANTS main, dlq, g, delay

MCDeadLetterQueue == [q \in Queue |-> IF q = main /\ dlq \in Queue THEN dlq ELSE NoQueue]
MCMaxReceiveCount == [q \in Queue |-> IF q = main THEN 1 ELSE 0]
MCTimeoutSecs == [q \in Queue |-> 1]
MCDelaySecs == [q \in Queue |-> IF q = main THEN delay ELSE 0]
\* A negative timeout is over at once.
TwoVisibility == {-1, 0, 2}
OneVisibility == {-1, 0, 1}
MCGroupID == [m \in Msg |-> g]
MCDeduplicationID == [m \in Msg |-> NoDedup]

Symmetric == Permutations(Msg)
=============================================================================
