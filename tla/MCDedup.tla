------------------------------- MODULE MCDedup ------------------------------
(* Values for model checking deduplication in a FIFO queue: every message    *)
(* carries the id x; m2 is of another group than the others.                 *)
EXTENDS SQSProperties

CONSTANTS main, dlq, g, h, m2, x

MCDeadLetterQueue == [q \in Queue |-> IF q = main /\ dlq \in Queue THEN dlq ELSE NoQueue]
MCMaxReceiveCount == [q \in Queue |-> IF q = main THEN 1 ELSE 0]
MCTimeoutSecs == [q \in Queue |-> 1]
MCDelaySecs == [q \in Queue |-> 0]
MCGroupID == [m \in Msg |-> IF m = m2 THEN h ELSE g]
MCDeduplicationID == [m \in Msg |-> x]

Symmetric == Permutations(Msg \ {m2})
=============================================================================
