------------------------------- MODULE MCFifo -------------------------------
(* Values for model checking SQS on FIFO queues: messages m1 and m3 of group *)
(* a, m2 of group b.                                                         *)
EXTENDS SQSProperties

CONSTANTS main, dlq, a, b, m1, m2, m3

MCDeadLetterQueue == [q \in Queue |-> IF q = main /\ dlq \in Queue THEN dlq ELSE NoQueue]
MCMaxReceiveCount == [q \in Queue |-> IF q = main THEN 1 ELSE 0]
MCTimeoutSecs == [q \in Queue |-> 1]
MCDelaySecs == [q \in Queue |-> 0]
MCGroupID == [m \in Msg |-> IF m = m2 THEN b ELSE a]
MCDeduplicationID == [m \in Msg |-> NoDedup]
=============================================================================
