---------------------------- MODULE MessageLife ----------------------------
(***************************************************************************)
(* What the message store of GoAws promises of each message: it is sent,   *)
(* taken under a handle of its own, comes back, moves to the dead-letter   *)
(* queue when it has come back too often, and is deleted or purged.  There *)
(* are no lists, positions, loops, locks or clocks here; SQSRefinement     *)
(* shows that SQS, which has them all, does nothing else.                  *)
(***************************************************************************)
EXTENDS Integers

CONSTANTS
    Queue,                  \* the queues
    Msg,                    \* the messages
    Handle,                 \* the receipt handles there are
    DeadLetterQueue,        \* queue -> its redrive target, or NoQueue
    MaxReceiveCount,        \* queue -> maxReceiveCount of its redrive policy
    BlankHandles,           \* whether requests may carry a blank handle
    NoQueue,                \* no queue
    NoHandle                \* the blank handle, that of a visible message

VARIABLES
    fate,                   \* message -> what has become of it
    place,                  \* message -> the queue it is in, or NoQueue
    holder,                 \* message -> the handle it is in flight with
    count,                  \* message -> times it came back
    used,                   \* the handles given to messages
    seen                    \* the handles that consumers have been given

vars == <<fate, place, holder, count, used, seen>>

InPlace(m) == place[m] # NoQueue

\* m is sent to q, and accepted or dropped as a duplicate.
Accept(q, m) ==
    /\ fate[m] = "unsent"
    /\ fate' = [fate EXCEPT ![m] = "queued"]
    /\ place' = [place EXCEPT ![m] = q]
    /\ UNCHANGED <<holder, count, used, seen>>

Refuse(m) ==
    /\ fate[m] = "unsent"
    /\ fate' = [fate EXCEPT ![m] = "duplicate"]
    /\ UNCHANGED <<place, holder, count, used, seen>>

\* A visible message is in flight with a handle that no message has had.  The
\* consumer is given it, unless the message is hidden for its group.
Take(m, h) ==
    /\ InPlace(m) /\ holder[m] = NoHandle
    /\ h \in Handle \ used
    /\ holder' = [holder EXCEPT ![m] = h]
    /\ used' = used \cup {h}
    /\ seen' \in {seen, seen \cup {h}}
    /\ UNCHANGED <<fate, place, count>>

\* A message that comes back for the c-th time leaves q for good.
Exceeds(q, c) ==
    MaxReceiveCount[q] > 0 /\ DeadLetterQueue[q] # NoQueue /\ c > MaxReceiveCount[q]

\* m comes back from its consumer, in its queue or the dead-letter queue.
ComeBack(m) ==
    /\ InPlace(m)
    /\ holder[m] # NoHandle \/ BlankHandles
    /\ holder' = [holder EXCEPT ![m] = NoHandle]
    /\ count' = [count EXCEPT ![m] = @ + 1]
    /\ place' = IF Exceeds(place[m], count[m] + 1)
                THEN [place EXCEPT ![m] = DeadLetterQueue[@]] ELSE place
    /\ UNCHANGED <<fate, used, seen>>

\* A consumer that was given the handle deletes m.
Delete(m) ==
    /\ InPlace(m)
    /\ holder[m] \in seen \/ (BlankHandles /\ holder[m] = NoHandle)
    /\ fate' = [fate EXCEPT ![m] = "deleted"]
    /\ place' = [place EXCEPT ![m] = NoQueue]
    /\ holder' = [holder EXCEPT ![m] = NoHandle]
    /\ UNCHANGED <<count, used, seen>>

\* Everything in q goes, in flight or not.
Purge(q) ==
    LET gone == {m \in Msg : place[m] = q}
    IN  /\ fate' = [m \in Msg |-> IF m \in gone THEN "purged" ELSE fate[m]]
        /\ place' = [m \in Msg |-> IF m \in gone THEN NoQueue ELSE place[m]]
        /\ holder' = [m \in Msg |-> IF m \in gone THEN NoHandle ELSE holder[m]]
        /\ UNCHANGED <<count, used, seen>>

Init ==
    /\ fate = [m \in Msg |-> "unsent"]
    /\ place = [m \in Msg |-> NoQueue]
    /\ holder = [m \in Msg |-> NoHandle]
    /\ count = [m \in Msg |-> 0]
    /\ used = {} /\ seen = {}

\* Any handle will do that a step may leave a message with.
Next ==
    \/ \E q \in Queue : Purge(q) \/ \E m \in Msg : Accept(q, m)
    \/ \E m \in Msg : Refuse(m) \/ Take(m, holder'[m]) \/ ComeBack(m) \/ Delete(m)

Spec == Init /\ [][Next]_vars
=============================================================================
