-------------------------------- MODULE SQS --------------------------------
(***************************************************************************)
(* The message store of GoAws: the queues of app.SyncQueues and the SQS    *)
(* handlers that move messages through them.                               *)
(*                                                                         *)
(* Every handler works under the one mutex of app.SyncQueues.  A handler   *)
(* that visits one message is one atomic action; the three that loop under *)
(* the mutex (the scan of ReceiveMessage, the sweep of PeriodicTasks and   *)
(* the entries of DeleteMessageBatch) take one action per iteration, and   *)
(* "lock" names the loop that holds the mutex.                             *)
(*                                                                         *)
(* Clock readings are countdowns: an instant in the code is the number of  *)
(* ticks left until it, 0 once it has passed.                              *)
(***************************************************************************)
EXTENDS Integers, Sequences, FiniteSets, SequencesExt

CONSTANTS
    Queue,                  \* the queues of SyncQueues.Queues
    Msg,                    \* the messages clients may send, each at most once
    Group,                  \* MessageGroupId values
    DedupId,                \* MessageDeduplicationId values
    NoQueue,                \* a nil *Queue
    NoHandle,               \* a blank ReceiptHandle
    NoDedup                 \* a blank DeduplicationID

CONSTANTS
    Fifo,                   \* the queues whose IsFIFO is set
    DeadLetterQueue,        \* queue -> its redrive target, or NoQueue
    MaxReceiveCount,        \* queue -> maxReceiveCount of its RedrivePolicy
    TimeoutSecs,            \* queue -> VisibilityTimeout attribute
    DelaySecs,              \* queue -> DelaySeconds attribute
    EnableDuplicates,       \* EnableDuplicates of the configuration
    DeduplicationPeriod,    \* app.DeduplicationPeriod
    RandomLatency,          \* the latencies getRandomLatency may draw
    GroupID,                \* message -> its MessageGroupId
    DeduplicationID,        \* message -> its MessageDeduplicationId
    Delays,                 \* the DelaySeconds a SendMessage may carry
    Visibility,             \* the timeouts a ChangeMessageVisibility may carry
    BlankHandles            \* whether requests may carry a blank handle

CONSTANTS
    MaxHandles,             \* bound: receipt handles minted for one message
    MaxWanted,              \* bound: MaxNumberOfMessages of a receive
    MaxBatch                \* bound: entries of one DeleteMessageBatch

ASSUME NullAssumption ==
    NoQueue \notin Queue /\ NoHandle \notin Msg \X Nat /\ NoDedup \notin DedupId

ASSUME QueueAssumption ==
    /\ Fifo \subseteq Queue
    /\ DeadLetterQueue \in [Queue -> Queue \cup {NoQueue}]
    /\ MaxReceiveCount \in [Queue -> Nat]
    /\ TimeoutSecs \in [Queue -> Nat]
    /\ DelaySecs \in [Queue -> Nat]

ASSUME RequestAssumption ==
    /\ GroupID \in [Msg -> Group]
    /\ DeduplicationID \in [Msg -> DedupId \cup {NoDedup}]
    /\ Delays \subseteq Int
    /\ Visibility \subseteq Int
    /\ BlankHandles \in BOOLEAN

ASSUME EnvironmentAssumption ==
    /\ EnableDuplicates \in BOOLEAN
    /\ DeduplicationPeriod \in Nat
    /\ RandomLatency \subseteq Nat
    /\ MaxHandles \in Nat /\ MaxWanted \in Nat /\ MaxBatch \in Nat

VARIABLES
    Messages,               \* queue -> its messages, oldest first
    FIFOMessages,           \* queue -> the groups it has locked
    FIFOSequenceNumbers,    \* queue -> group -> last number given, 0 if absent
    Duplicates,             \* queue -> id -> ticks registered for, -1 if absent
    ReceiptHandle,          \* message -> current handle, NoHandle when visible
    VisibilityTimeout,      \* message -> ticks until its timeout passes
    Retry,                  \* message -> times it became visible again
    ShowAt                  \* message -> ticks until SentTime + DelaySecs

VARIABLES                   \* the loop that holds SyncQueues, and its locals
    lock,                   \* which loop, or "free"
    cur,                    \* the queue it works on
    idx,                    \* its position i (from 1)
    want,                   \* ReceiveMessage: messages still wanted
    todo,                   \* PeriodicTasks: queues not visited yet
    batch                   \* DeleteMessageBatch: handles left to delete

VARIABLES                   \* history, read by no action's code
    minted,                 \* message -> handles minted for it
    received,               \* the handles that ReceiveMessage has returned
    delivered,              \* message -> times it was returned
    lease,                  \* message -> ticks its holder was promised
    window,                 \* message -> ticks left of its dedup period
    fate                    \* message -> what has become of it

queueVars == <<Messages, FIFOMessages, FIFOSequenceNumbers, Duplicates>>
fifoVars == <<FIFOMessages, FIFOSequenceNumbers>>
messageVars == <<ReceiptHandle, VisibilityTimeout, Retry, ShowAt>>
lockVars == <<lock, cur, idx, want, todo, batch>>
historyVars == <<minted, received, delivered, lease, window, fate>>
vars == <<queueVars, messageVars, lockVars, historyVars>>

Handle == Msg \X Nat
Fates == {"unsent", "queued", "duplicate", "deleted", "purged"}
Loops == {"free", "ReceiveMessage", "PeriodicTasks", "DeleteMessageBatch"}

-----------------------------------------------------------------------------
(* Queues and their messages. *)

\* MaxLatency bounds how far below zero ShowAt has to be counted.
MaxLatency == IF RandomLatency = {} THEN 0
              ELSE CHOOSE l \in RandomLatency : \A k \in RandomLatency : k <= l

\* (mutant) the latency is taken off the delay instead of added to it
IsReadyEarly(m, l) == ShowAt[m] - l <= 0

\* IsReadyForReceipt with l as the latency drawn: SentTime + l + DelaySecs
\* has passed.
IsReadyForReceipt(m, l) == ShowAt[m] + l <= 0

\* (mutant) a handle is compared by the message it was minted for
FirstOfMessage(q, h, i) ==
    /\ i \in 1..Len(Messages[q])
    /\ h # NoHandle /\ Messages[q][i] = h[1]

\* The message at position i is the first with handle h in q.
FirstWith(q, h, i) ==
    /\ i \in 1..Len(Messages[q])
    /\ ReceiptHandle[Messages[q][i]] = h
    /\ \A j \in 1..(i - 1) : ReceiptHandle[Messages[q][j]] # h

\* Messages of q has a message with handle h.
HasHandle(q, h) == \E i \in 1..Len(Messages[q]) : FirstWith(q, h, i)

\* append(Messages[:i], Messages[i+1:]...)
Without(q, i) == RemoveAt(Messages[q], i)

\* (mutants) the comparison with maxReceiveCount is off by one, either way; a
\* policy with maxReceiveCount 1 is taken for no policy
RedriveDueEarly(q, retries) ==
    /\ MaxReceiveCount[q] > 0 /\ DeadLetterQueue[q] # NoQueue
    /\ retries >= MaxReceiveCount[q]

RedriveDueLate(q, retries) ==
    /\ MaxReceiveCount[q] > 0 /\ DeadLetterQueue[q] # NoQueue
    /\ retries > MaxReceiveCount[q] + 1

RedriveDueNotOne(q, retries) ==
    /\ MaxReceiveCount[q] > 1 /\ DeadLetterQueue[q] # NoQueue
    /\ retries > MaxReceiveCount[q]

\* The redrive condition of PeriodicTasks and ChangeMessageVisibility.
RedriveDue(q, retries) ==
    /\ MaxReceiveCount[q] > 0
    /\ DeadLetterQueue[q] # NoQueue
    /\ retries > MaxReceiveCount[q]

\* (mutant) removed first: msg, a pointer into the slice, then holds the message
\* that has moved up to position i
RedrivenMovedUp(q, i) ==
    LET msg == Messages[q][IF i < Len(Messages[q]) THEN i + 1 ELSE i]
        removed == [Messages EXCEPT ![q] = RemoveAt(@, i)]
    IN  [removed EXCEPT ![DeadLetterQueue[q]] = Append(@, msg)]

\* The message at position i of q is appended to the dead-letter queue, then
\* removed from q.
Redriven(q, i) ==
    LET appended == [Messages EXCEPT ![DeadLetterQueue[q]] =
                                        Append(@, Messages[q][i])]
    IN  [appended EXCEPT ![q] = RemoveAt(@, i)]

IsLocked(q, g) == g \in FIFOMessages[q]

\* A group that is not locked gets a map of its own: the other locks go.
LockGroup(q, g) ==
    IF IsLocked(q, g) THEN FIFOMessages
    ELSE [FIFOMessages EXCEPT ![q] = {g}]

\* (mutants) all groups are unlocked, or none
UnlockAllGroups(q, g) == [FIFOMessages EXCEPT ![q] = {}]

UnlockNoGroup(q, g) == FIFOMessages

UnlockGroup(q, g) == [FIFOMessages EXCEPT ![q] = @ \ {g}]

\* A group without a number gets a map of its own: the others start again.
NextSequenceNumber(q, g) ==
    LET numbers == FIFOSequenceNumbers[q]
    IN  [FIFOSequenceNumbers EXCEPT ![q] =
            [k \in Group |-> IF k = g THEN numbers[g] + 1
                             ELSE IF numbers[g] = 0 THEN 0 ELSE numbers[k]]]

Deduplicates(q, d) == EnableDuplicates /\ q \in Fifo /\ d # NoDedup

Registered(q, d) == d \in DedupId /\ Duplicates[q][d] >= 0

IsDuplicate(q, d) == Deduplicates(q, d) /\ Registered(q, d)

\* InitDuplicatation: the period runs from the first registration.
InitDuplicatation(q, d) ==
    IF Deduplicates(q, d) /\ ~Registered(q, d)
    THEN [Duplicates EXCEPT ![q][d] = DeduplicationPeriod]
    ELSE Duplicates

\* (mutant) the id of a deleted message stays registered
UnregisterNothing(q, d) == Duplicates

\* delete(Duplicates, id)
Unregister(q, d) ==
    [Duplicates EXCEPT ![q] = [e \in DedupId |-> IF e = d THEN -1 ELSE @[e]]]

\* (mutant) no id is ever released by the sweep
ExpireNoDuplicates(q) == Duplicates

\* The "Reset deduplication period" loop over one queue's Duplicates.
ExpireDuplicates(q) ==
    [Duplicates EXCEPT ![q] =
        [e \in DedupId |-> IF @[e] = 0 THEN -1 ELSE @[e]]]

-----------------------------------------------------------------------------
(* Sending.  The handler's checks before the mutex are on attributes that  *)
(* are constant here.                                                      *)

\* What SendMessage and each entry of SendMessageBatch do under the mutex.
\* The sequence number is spent, and the id offered, for duplicates too.
Enqueue(q, m, delay) ==
    LET d == DeduplicationID[m]
        dropped == IsDuplicate(q, d)
    IN  /\ lock = "free"
        /\ fate[m] = "unsent"
        /\ FIFOSequenceNumbers' = IF q \in Fifo THEN NextSequenceNumber(q, GroupID[m])
                                  ELSE FIFOSequenceNumbers
        /\ Messages' = IF dropped THEN Messages
                       ELSE [Messages EXCEPT ![q] = Append(@, m)]
        /\ Duplicates' = InitDuplicatation(q, d)
        /\ ShowAt' = [ShowAt EXCEPT ![m] = IF dropped THEN @ ELSE delay]
        /\ fate' = [fate EXCEPT ![m] = IF dropped THEN "duplicate" ELSE "queued"]
        /\ window' = [window EXCEPT ![m] =
                        IF Deduplicates(q, d) /\ ~dropped THEN DeduplicationPeriod ELSE @]
        /\ UNCHANGED <<FIFOMessages, ReceiptHandle, VisibilityTimeout, Retry, lockVars,
                       minted, received, delivered, lease>>

\* A request without DelaySeconds takes the queue's.
SendMessage(q, m) == \E delay \in Delays \cup {DelaySecs[q]} : Enqueue(q, m, delay)

\* The entries of a batch are sent one by one, each with a lock of its own,
\* and never delayed.
SendMessageBatchEntry(q, m) == Enqueue(q, m, 0)

-----------------------------------------------------------------------------
(* ReceiveMessage: one scan of the queue's messages. *)

\* (mutant) the scan stops one message late
InReceiveLate == lock = "ReceiveMessage" /\ want >= 0 /\ idx <= Len(Messages[cur])

InReceive == lock = "ReceiveMessage" /\ want > 0 /\ idx <= Len(Messages[cur])
Scanned == Messages[cur][idx]

\* Visible messages must have handles left (MaxHandles is the model's bound).
ReceiveMessage(q, n) ==
    /\ lock = "free"
    /\ Messages[q] # <<>>
    /\ \A i \in 1..Len(Messages[q]) :
          ReceiptHandle[Messages[q][i]] = NoHandle => minted[Messages[q][i]] < MaxHandles
    /\ lock' = "ReceiveMessage" /\ cur' = q /\ idx' = 1 /\ want' = n
    /\ UNCHANGED <<queueVars, messageVars, todo, batch, historyVars>>

\* The message is in flight.
ReceiveSkip ==
    /\ InReceive
    /\ ReceiptHandle[Scanned] # NoHandle
    /\ idx' = idx + 1
    /\ UNCHANGED <<queueVars, messageVars, lock, cur, want, todo, batch, historyVars>>

\* The message is delayed.
ReceiveNotReady ==
    /\ InReceive
    /\ ReceiptHandle[Scanned] = NoHandle
    /\ \E l \in RandomLatency : ~IsReadyForReceipt(Scanned, l)
    /\ idx' = idx + 1
    /\ UNCHANGED <<queueVars, messageVars, lock, cur, want, todo, batch, historyVars>>

\* (mutant) the timeout of the last time it was in flight is kept
MarkStale(q, m) ==
    /\ ReceiptHandle[m] = NoHandle
    /\ \E l \in RandomLatency : IsReadyForReceipt(m, l)
    /\ minted' = [minted EXCEPT ![m] = @ + 1]
    /\ ReceiptHandle' = [ReceiptHandle EXCEPT ![m] = <<m, minted[m] + 1>>]
    /\ idx' = idx + 1
    /\ UNCHANGED <<Messages, FIFOSequenceNumbers, Duplicates, VisibilityTimeout, Retry,
                   ShowAt, lock, cur, todo, batch, window, fate>>

\* A ready message gets a fresh handle and a timeout, whatever comes next.
Mark(q, m) ==
    /\ ReceiptHandle[m] = NoHandle
    /\ \E l \in RandomLatency : IsReadyForReceipt(m, l)
    /\ minted' = [minted EXCEPT ![m] = @ + 1]
    /\ ReceiptHandle' = [ReceiptHandle EXCEPT ![m] = <<m, minted[m] + 1>>]
    /\ VisibilityTimeout' = [VisibilityTimeout EXCEPT ![m] = TimeoutSecs[q]]
    /\ idx' = idx + 1
    /\ UNCHANGED <<Messages, FIFOSequenceNumbers, Duplicates, Retry, ShowAt,
                   lock, cur, todo, batch, window, fate>>

\* Its group is locked: it stays marked, and is not returned.
ReceiveHide ==
    /\ InReceive
    /\ Mark(cur, Scanned)
    /\ cur \in Fifo /\ IsLocked(cur, GroupID[Scanned])
    /\ UNCHANGED <<FIFOMessages, want, received, delivered, lease>>

\* Otherwise it is returned, and its group locked in a FIFO queue.
ReceiveReturn ==
    /\ InReceive
    /\ Mark(cur, Scanned)
    /\ ~(cur \in Fifo /\ IsLocked(cur, GroupID[Scanned]))
    /\ FIFOMessages' = IF cur \in Fifo THEN LockGroup(cur, GroupID[Scanned])
                       ELSE FIFOMessages
    /\ want' = want - 1
    /\ received' = received \cup {<<Scanned, minted[Scanned] + 1>>}
    /\ delivered' = [delivered EXCEPT ![Scanned] = @ + 1]
    /\ lease' = [lease EXCEPT ![Scanned] = TimeoutSecs[cur]]

\* A loop releases the mutex.
Unlock == lock' = "free" /\ cur' = NoQueue /\ idx' = 0 /\ want' = 0
          /\ todo' = {} /\ batch' = <<>>

ReceiveEnd ==
    /\ lock = "ReceiveMessage"
    /\ want = 0 \/ idx > Len(Messages[cur])
    /\ Unlock
    /\ UNCHANGED <<queueVars, messageVars, historyVars>>

-----------------------------------------------------------------------------
(* Deleting. *)

\* The body shared by DeleteMessage and DeleteMessageBatch for the match at
\* position i.  What is kept of a message that is gone is reset.
DeleteAt(q, i) ==
    LET m == Messages[q][i]
    IN  /\ FIFOMessages' = UnlockGroup(q, GroupID[m])
        /\ Messages' = [Messages EXCEPT ![q] = Without(q, i)]
        /\ Duplicates' = Unregister(q, DeduplicationID[m])
        /\ ReceiptHandle' = [ReceiptHandle EXCEPT ![m] = NoHandle]
        /\ VisibilityTimeout' = [VisibilityTimeout EXCEPT ![m] = 0]
        /\ lease' = [lease EXCEPT ![m] = 0]
        /\ window' = [window EXCEPT ![m] = 0]
        /\ fate' = [fate EXCEPT ![m] = "deleted"]
        /\ UNCHANGED <<FIFOSequenceNumbers, Retry, ShowAt, minted, received, delivered>>

\* The handles a request may name: one that was returned, or a blank one.
RequestHandles == received \cup (IF BlankHandles THEN {NoHandle} ELSE {})

DeleteMessage(q, h) ==
    /\ lock = "free"
    /\ \E i \in 1..Len(Messages[q]) : FirstWith(q, h, i) /\ DeleteAt(q, i)
    /\ UNCHANGED lockVars

DeleteMessageBatch(q, hs) ==
    /\ lock = "free"
    /\ lock' = "DeleteMessageBatch" /\ cur' = q /\ batch' = hs
    /\ UNCHANGED <<queueVars, messageVars, idx, want, todo, historyVars>>

InDeleteBatch == lock = "DeleteMessageBatch" /\ batch # <<>>

\* An entry that matches.
DeleteEntry ==
    /\ InDeleteBatch
    /\ \E i \in 1..Len(Messages[cur]) : FirstWith(cur, Head(batch), i) /\ DeleteAt(cur, i)
    /\ batch' = Tail(batch)
    /\ UNCHANGED <<lock, cur, idx, want, todo>>

\* An entry that matches nothing.
DeleteEntryMissing ==
    /\ InDeleteBatch
    /\ ~HasHandle(cur, Head(batch))
    /\ batch' = Tail(batch)
    /\ UNCHANGED <<queueVars, messageVars, lock, cur, idx, want, todo, historyVars>>

DeleteBatchEnd ==
    /\ lock = "DeleteMessageBatch" /\ batch = <<>>
    /\ Unlock
    /\ UNCHANGED <<queueVars, messageVars, historyVars>>

\* The messages and the deduplication ids go; the group locks stay.
PurgeQueue(q) ==
    LET gone == Range(Messages[q])
        reset(f, v) == [m \in Msg |-> IF m \in gone THEN v ELSE f[m]]
    IN  /\ lock = "free"
        /\ Messages' = [Messages EXCEPT ![q] = <<>>]
        /\ Duplicates' = [Duplicates EXCEPT ![q] = [e \in DedupId |-> -1]]
        /\ ReceiptHandle' = reset(ReceiptHandle, NoHandle)
        /\ VisibilityTimeout' = reset(VisibilityTimeout, 0)
        /\ lease' = reset(lease, 0)
        /\ window' = reset(window, 0)
        /\ fate' = reset(fate, "purged")
        /\ UNCHANGED <<fifoVars, Retry, ShowAt, lockVars, minted, received, delivered>>

-----------------------------------------------------------------------------
(* ChangeMessageVisibility. *)

\* Timeout 0: the message is visible again, one retry later, or moves to the
\* dead-letter queue.  Its group stays locked.
Release(q, i) ==
    LET m == Messages[q][i]
    IN  /\ ReceiptHandle' = [ReceiptHandle EXCEPT ![m] = NoHandle]
        /\ VisibilityTimeout' = [VisibilityTimeout EXCEPT ![m] = TimeoutSecs[q]]
        /\ Retry' = [Retry EXCEPT ![m] = @ + 1]
        /\ Messages' = IF RedriveDue(q, Retry[m] + 1) THEN Redriven(q, i) ELSE Messages
        /\ lease' = [lease EXCEPT ![m] = 0]

\* Any other timeout replaces the message's, whether or not it is in flight.  The
\* code refuses those above 43200 only: a negative one is over at once.
Extend(q, i, timeout) ==
    LET m == Messages[q][i]
        left == IF timeout < 0 THEN 0 ELSE timeout
    IN  /\ VisibilityTimeout' = [VisibilityTimeout EXCEPT ![m] = left]
        /\ lease' = [lease EXCEPT ![m] = IF ReceiptHandle[m] = NoHandle THEN @ ELSE left]
        /\ UNCHANGED <<Messages, ReceiptHandle, Retry>>

\* Retries of a message are bounded with its handles (MaxHandles).
ChangeMessageVisibility(q, h, timeout) ==
    /\ lock = "free"
    /\ \E i \in 1..Len(Messages[q]) :
          /\ FirstWith(q, h, i)
          /\ h = NoHandle => Retry[Messages[q][i]] < MaxHandles
          /\ IF timeout = 0 THEN Release(q, i) ELSE Extend(q, i, timeout)
    /\ UNCHANGED <<fifoVars, Duplicates, ShowAt, lockVars, minted, received, delivered,
                   window, fate>>

-----------------------------------------------------------------------------
(* PeriodicTasks: one sweep over all queues per tick of its timer. *)

SweepBegin ==
    /\ lock = "free"
    /\ lock' = "PeriodicTasks" /\ todo' = Queue
    /\ UNCHANGED <<queueVars, messageVars, cur, idx, want, batch, historyVars>>

\* (mutant) the first message is left out
SweepQueueFromSecond(q) ==
    /\ lock = "PeriodicTasks" /\ cur = NoQueue
    /\ q \in todo
    /\ cur' = q /\ todo' = todo \ {q} /\ idx' = 2
    /\ UNCHANGED <<queueVars, messageVars, lock, want, batch, historyVars>>

\* Go ranges over the map of queues in any order.
SweepQueue(q) ==
    /\ lock = "PeriodicTasks" /\ cur = NoQueue
    /\ q \in todo
    /\ cur' = q /\ todo' = todo \ {q} /\ idx' = 1
    /\ UNCHANGED <<queueVars, messageVars, lock, want, batch, historyVars>>

InSweep == lock = "PeriodicTasks" /\ cur # NoQueue /\ idx <= Len(Messages[cur])

\* (mutant) every message in flight is taken for expired
ExpiredAlways(m) == ReceiptHandle[m] # NoHandle

Expired(m) == ReceiptHandle[m] # NoHandle /\ VisibilityTimeout[m] = 0

\* Every iteration first drops the ids whose period is over.
SweepKeep ==
    /\ InSweep
    /\ ~Expired(Scanned)
    /\ Duplicates' = ExpireDuplicates(cur)
    /\ idx' = idx + 1
    /\ UNCHANGED <<Messages, fifoVars, messageVars, lock, cur, want, todo, batch, historyVars>>

\* What an iteration does to an expired message before the redrive check.
MakeVisible(q, m) ==
    /\ Duplicates' = ExpireDuplicates(q)
    /\ FIFOMessages' = UnlockGroup(q, GroupID[m])
    /\ ReceiptHandle' = [ReceiptHandle EXCEPT ![m] = NoHandle]
    /\ Retry' = [Retry EXCEPT ![m] = @ + 1]
    /\ UNCHANGED <<FIFOSequenceNumbers, VisibilityTimeout, ShowAt, lock, cur, want, todo,
                   batch, historyVars>>

SweepExpire ==
    /\ InSweep
    /\ Expired(Scanned)
    /\ MakeVisible(cur, Scanned)
    /\ ~RedriveDue(cur, Retry[Scanned] + 1)
    /\ idx' = idx + 1
    /\ UNCHANGED Messages

\* After a removal i is advanced twice: the two messages that follow the one
\* removed are not visited in this sweep.
SweepRedrive ==
    /\ InSweep
    /\ Expired(Scanned)
    /\ MakeVisible(cur, Scanned)
    /\ RedriveDue(cur, Retry[Scanned] + 1)
    /\ Messages' = Redriven(cur, idx)
    /\ idx' = idx + 2

SweepQueueEnd ==
    /\ lock = "PeriodicTasks" /\ cur # NoQueue
    /\ idx > Len(Messages[cur])
    /\ cur' = NoQueue /\ idx' = 0
    /\ UNCHANGED <<queueVars, messageVars, lock, want, todo, batch, historyVars>>

SweepEnd ==
    /\ lock = "PeriodicTasks" /\ cur = NoQueue /\ todo = {}
    /\ Unlock
    /\ UNCHANGED <<queueVars, messageVars, historyVars>>

-----------------------------------------------------------------------------
(* Time, and the specification. *)

CountDown(n) == IF n > 0 THEN n - 1 ELSE n

\* One unit of time passes: every instant that lies ahead comes nearer.
Tick ==
    /\ VisibilityTimeout' = [m \in Msg |-> CountDown(VisibilityTimeout[m])]
    /\ ShowAt' = [m \in Msg |-> IF ShowAt[m] > 0 - MaxLatency THEN ShowAt[m] - 1
                                ELSE ShowAt[m]]
    /\ Duplicates' = [q \in Queue |-> [d \in DedupId |-> CountDown(Duplicates[q][d])]]
    /\ lease' = [m \in Msg |-> CountDown(lease[m])]
    /\ window' = [m \in Msg |-> CountDown(window[m])]
    /\ UNCHANGED <<Messages, fifoVars, ReceiptHandle, Retry, lockVars, minted, received,
                   delivered, fate>>

Init ==
    /\ Messages = [q \in Queue |-> <<>>]
    /\ FIFOMessages = [q \in Queue |-> {}]
    /\ FIFOSequenceNumbers = [q \in Queue |-> [g \in Group |-> 0]]
    /\ Duplicates = [q \in Queue |-> [d \in DedupId |-> -1]]
    /\ ReceiptHandle = [m \in Msg |-> NoHandle]
    /\ VisibilityTimeout = [m \in Msg |-> 0]
    /\ Retry = [m \in Msg |-> 0]
    /\ ShowAt = [m \in Msg |-> 0]
    /\ lock = "free" /\ cur = NoQueue /\ idx = 0 /\ want = 0 /\ todo = {} /\ batch = <<>>
    /\ minted = [m \in Msg |-> 0]
    /\ received = {}
    /\ delivered = [m \in Msg |-> 0]
    /\ lease = [m \in Msg |-> 0]
    /\ window = [m \in Msg |-> 0]
    /\ fate = [m \in Msg |-> "unsent"]

ReceiveStep == ReceiveSkip \/ ReceiveNotReady \/ ReceiveHide \/ ReceiveReturn \/ ReceiveEnd

DeleteStep == DeleteEntry \/ DeleteEntryMissing \/ DeleteBatchEnd

SweepStep ==
    \/ \E q \in Queue : SweepQueue(q)
    \/ SweepKeep \/ SweepExpire \/ SweepRedrive
    \/ SweepQueueEnd \/ SweepEnd

\* What clients may ask for, in any order.
Request ==
    \E q \in Queue :
        \/ \E m \in Msg : SendMessage(q, m) \/ SendMessageBatchEntry(q, m)
        \/ \E n \in 1..MaxWanted : ReceiveMessage(q, n)
        \/ \E h \in RequestHandles : DeleteMessage(q, h)
        \/ \E n \in 1..MaxBatch : \E hs \in [1..n -> RequestHandles] : DeleteMessageBatch(q, hs)
        \/ \E h \in RequestHandles, t \in Visibility : ChangeMessageVisibility(q, h, t)
        \/ PurgeQueue(q)

Next == Request \/ ReceiveStep \/ DeleteStep \/ SweepBegin \/ SweepStep \/ Tick

Spec == Init /\ [][Next]_vars

\* Once a loop holds the mutex it runs to its end, time passes, and the ticker
\* of PeriodicTasks gets the mutex in its turn (a Go mutex starves no waiter).
\* No client is obliged to ask for anything.
Fairness ==
    /\ WF_vars(ReceiveStep) /\ WF_vars(DeleteStep) /\ WF_vars(SweepStep)
    /\ WF_vars(Tick)
    /\ SF_vars(SweepBegin)

FairSpec == Spec /\ Fairness

\* Consumers of every queue poll it again and again.
PollingSpec ==
    FairSpec /\ \A q \in Queue : SF_vars(\E n \in 1..MaxWanted : ReceiveMessage(q, n))

\* Every variable has the type its declaration gives it; a loop has its queue,
\* and a scan or a sweep its position in it.
StoreType ==
    /\ Messages \in [Queue -> Seq(Msg)]
    /\ FIFOMessages \in [Queue -> SUBSET Group]
    /\ FIFOSequenceNumbers \in [Queue -> [Group -> Nat]]
    /\ Duplicates \in [Queue -> [DedupId -> Nat \cup {-1}]]
    /\ ReceiptHandle \in [Msg -> Handle \cup {NoHandle}]
    /\ VisibilityTimeout \in [Msg -> Nat]
    /\ Retry \in [Msg -> Nat]
    /\ ShowAt \in [Msg -> Int]

LoopType ==
    /\ lock \in Loops
    /\ cur \in Queue \cup {NoQueue}
    /\ idx \in Nat /\ want \in Nat
    /\ todo \in SUBSET Queue
    /\ batch \in Seq(Handle \cup {NoHandle})
    /\ lock = "free" => cur = NoQueue
    /\ lock \in {"ReceiveMessage", "DeleteMessageBatch"} => cur \in Queue
    /\ lock = "ReceiveMessage" => idx > 0
    /\ lock = "PeriodicTasks" /\ cur # NoQueue => idx > 0

HistoryType ==
    /\ minted \in [Msg -> Nat]
    /\ received \in SUBSET Handle
    /\ delivered \in [Msg -> Nat]
    /\ lease \in [Msg -> Nat]
    /\ window \in [Msg -> Nat]
    /\ fate \in [Msg -> Fates]

TypeOK == StoreType /\ LoopType /\ HistoryType
=============================================================================
