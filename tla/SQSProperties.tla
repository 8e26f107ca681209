--------------------------- MODULE SQSProperties ---------------------------
(***************************************************************************)
(* What the message store promises: no message lost or copied, consumers   *)
(* that do not meet, a bounded number of deliveries, group locks, the      *)
(* deduplication period, and progress.                                     *)
(***************************************************************************)
EXTENDS SQS

-----------------------------------------------------------------------------
(* Messages and consumers. *)

InQueue(queues, q, m) == \E i \in 1..Len(queues[q]) : queues[q][i] = m

\* No message has two places, in one queue or in two.
Once(queues) ==
    \A q, p \in Queue : \A i \in 1..Len(queues[q]), j \in 1..Len(queues[p]) :
        queues[q][i] = queues[p][j] => q = p /\ i = j

\* A message accepted by a send is in exactly one place of one queue until it
\* is deleted or purged, and then in none: the sweep that moves messages to
\* the dead-letter queue while it walks the list it removes them from, and
\* the deletions by position, neither lose nor copy a message.
NoLossNoDuplication ==
    /\ Once(Messages)
    /\ \A m \in Msg : fate[m] = "queued" <=> \E q \in Queue : InQueue(Messages, q, m)

\* A queue that no redrive policy names as its target.
Primary(q) == \A p \in Queue : DeadLetterQueue[p] # q

HasPolicy(q) == MaxReceiveCount[q] > 0 /\ DeadLetterQueue[q] # NoQueue

\* In a queue with a redrive policy a message is returned at most
\* maxReceiveCount + 1 times, over all interleavings of receives, releases,
\* extensions and sweeps; the last return leads to the dead-letter queue.
DeliveryBound ==
    \A q \in Queue : Primary(q) /\ HasPolicy(q) =>
        \A m \in Msg : InQueue(Messages, q, m) => delivered[m] <= MaxReceiveCount[q] + 1

\* A message is not returned to a second consumer before the timeout promised
\* to the first (by the queue, or by the last ChangeMessageVisibility) is over.
LeaseRespected ==
    [][\A m \in Msg : delivered'[m] # delivered[m] => lease[m] = 0]_vars

\* Why DeliveryBound holds: every return but the current one has been followed
\* by a retry, and a message whose retries exceed maxReceiveCount is no longer
\* in the queue.
DeliveryInv ==
    /\ \A m \in Msg :
          /\ fate[m] = "unsent" =>
                Retry[m] = 0 /\ delivered[m] = 0 /\ ReceiptHandle[m] = NoHandle
          /\ fate[m] = "queued" =>
                delivered[m] <= Retry[m] + (IF ReceiptHandle[m] = NoHandle THEN 0 ELSE 1)
    /\ \A q \in Queue : Primary(q) /\ HasPolicy(q) =>
          \A m \in Msg : InQueue(Messages, q, m) => Retry[m] <= MaxReceiveCount[q]

\* Why LeaseRespected holds: the timeout the store keeps is never shorter than
\* the one it promised, and a visible message is promised to nobody.
LeaseInv ==
    \A m \in Msg :
        /\ ReceiptHandle[m] = NoHandle => lease[m] = 0
        /\ lease[m] <= VisibilityTimeout[m]

\* A message is deleted only while a client holds its current handle: a handle
\* that has expired, or was released, deletes nothing.
DeletedByHolder ==
    [][\A m \in Msg : fate[m] # "deleted" /\ fate'[m] = "deleted" =>
            ReceiptHandle[m] \in received]_vars

\* A message that moves to the dead-letter queue has been returned more than
\* maxReceiveCount times (the receives of TestDeadLetterQueue).  In a FIFO queue
\* the code does not keep this: marking a message it does not return counts too.
DeadLetterEarned ==
    [][\A q \in Queue, m \in Msg :
            /\ InQueue(Messages, q, m) /\ ~InQueue(Messages', q, m)
            /\ fate'[m] = "queued"
            => delivered[m] > MaxReceiveCount[q]]_vars

\* Only a message in flight is released by ChangeMessageVisibility ("The
\* message referred to isn't in flight.", gosqs.go:39).  The code does not keep
\* this for a request with a blank handle, which every visible message matches.
ReleasedFromFlight ==
    [][\A m \in Msg : Retry'[m] # Retry[m] => ReceiptHandle[m] # NoHandle]_vars

\* A message is not returned before its DelaySeconds are over, however the
\* random latency is drawn and redrawn.
DelayRespected ==
    [][\A m \in Msg : delivered'[m] # delivered[m] => ShowAt[m] <= 0]_vars

-----------------------------------------------------------------------------
(* Message groups and deduplication ids. *)

\* A group's lock goes only with one of its messages: when one is deleted or
\* released by the sweep, or when LockGroup replaces the lock by that of
\* another group.  No other message's end unlocks a group.
LockOwnership ==
    [][\A q \in Queue : \A g \in FIFOMessages[q] \ FIFOMessages'[q] :
            \/ \E m \in Msg : /\ GroupID[m] = g
                              /\ ReceiptHandle[m] # NoHandle /\ ReceiptHandle'[m] = NoHandle
            \/ FIFOMessages'[q] \ FIFOMessages[q] # {}]_vars

\* m is with the client it was returned to.
Held(m) == ReceiptHandle[m] \in received

\* Two messages of one group of a FIFO queue are never held at the same time
\* ("Otherwise lock messages for group ID", gosqs.go:477).  The code does not
\* keep this: LockGroup forgets the other groups.
GroupExclusive ==
    \A q \in Fifo, m, p \in Msg :
        /\ InQueue(Messages, q, m) /\ InQueue(Messages, q, p)
        /\ m # p /\ Held(m) /\ Held(p)
        => GroupID[m] # GroupID[p]

\* A deduplication id blocks a queue without redrive policy only while a
\* message that carries it is in the queue: deleting or purging the messages
\* of an id lets a producer send it again at once.
RegisteredIsQueued ==
    \A q \in Queue, d \in DedupId : Registered(q, d) /\ ~HasPolicy(q) =>
        \E m \in Msg : InQueue(Messages, q, m) /\ DeduplicationID[m] = d

\* Two messages with one deduplication id are never accepted by a queue within
\* one deduplication period while both stay in it ("duplicate message should
\* not be added to queue", gosqs_test.go:1848).  The code does not keep this:
\* deleting an older message forgets the registration of a newer one.
DedupWindow ==
    \A q \in Queue, m, p \in Msg :
        /\ InQueue(Messages, q, m) /\ InQueue(Messages, q, p)
        /\ m # p /\ DeduplicationID[m] = DeduplicationID[p]
        => window[m] = 0 \/ window[p] = 0

\* In a queue that keeps messages every registered id is released in the end.
\* In an empty queue it is not: the sweep looks at ids only while it visits
\* messages (gosqs.go:60).
DedupReleased ==
    \A q \in Queue, d \in DedupId :
        Registered(q, d) ~> ~Registered(q, d) \/ Messages[q] = <<>>

-----------------------------------------------------------------------------
(* Progress. *)

\* A message in flight becomes visible again, is moved or is deleted, when no
\* client extends its timeout: the sweep never passes over it for ever,
\* although a removal makes it skip the two messages that follow.
InFlightEnds ==
    \A m \in Msg : ReceiptHandle[m] # NoHandle ~> ReceiptHandle[m] = NoHandle

\* While consumers keep polling, every message leaves a queue with a redrive
\* policy, whatever orders of receives, releases, expiries and purges it meets:
\* if nobody deletes it, its retries lead it to the dead-letter queue.
Drains ==
    \A q \in Queue, m \in Msg : Primary(q) /\ HasPolicy(q) =>
        (InQueue(Messages, q, m) ~> ~InQueue(Messages, q, m))

\* While consumers keep polling, a group with messages does not stay locked: a
\* lock that a purge left behind ends with the timeout of the first message
\* that it hides.
LocksEnd ==
    \A q \in Fifo, g \in Group :
        IsLocked(q, g) ~>
            ~IsLocked(q, g) \/ ~(\E m \in Msg : InQueue(Messages, q, m) /\ GroupID[m] = g)
=============================================================================
