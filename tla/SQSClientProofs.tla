-------------------------- MODULE SQSClientProofs --------------------------
(***************************************************************************)
(* Proofs of what the message store owes its clients step by step: what a  *)
(* receive, a deletion, a release and an unlock may never do, and when a   *)
(* deduplication id blocks.                                                *)
(***************************************************************************)
EXTENDS SQSRefinementProofs

-----------------------------------------------------------------------------
(* Which steps return, delete and retry a message, and unlock a group. *)

\* No request but an entry of a batch, and no loop but these, touches what the
\* properties below are about.
LEMMA QuietSteps ==
    ASSUME [Next]_vars
    PROVE  \/ \E q \in Queue, m \in Msg, delay \in Int : Enqueue(q, m, delay)
           \/ \E q \in Queue, h \in RequestHandles : DeleteMessage(q, h)
           \/ \E q \in Queue, h \in RequestHandles, t \in Visibility :
                 ChangeMessageVisibility(q, h, t)
           \/ \E q \in Queue : PurgeQueue(q)
           \/ ReceiveHide \/ ReceiveReturn \/ DeleteEntry
           \/ SweepKeep \/ SweepExpire \/ SweepRedrive \/ Tick
           \/ UNCHANGED <<queueVars, messageVars, historyVars>>
<1>1. CASE Request
    BY <1>1, QueueAssumption, RequestAssumption
    DEF Request, SendMessage, SendMessageBatchEntry, ReceiveMessage, DeleteMessageBatch
<1>2. CASE ReceiveStep
    BY <1>2 DEF ReceiveStep, ReceiveSkip, ReceiveNotReady, ReceiveEnd
<1>3. CASE DeleteStep
    BY <1>3 DEF DeleteStep, DeleteEntryMissing, DeleteBatchEnd
<1>4. CASE SweepBegin \/ SweepStep
    BY <1>4 DEF SweepBegin, SweepStep, SweepQueue, SweepQueueEnd, SweepEnd
<1>5. CASE Tick
    BY <1>5
<1>6. CASE UNCHANGED vars
    BY <1>6 DEF vars
<1> QED BY <1>1, <1>2, <1>3, <1>4, <1>5, <1>6 DEF Next

\* A deletion is of a message whose current handle a request named.
LEMMA DeletionStep ==
    ASSUME TypeOK, BatchInv,
           DeleteEntry \/ \E q \in Queue, h \in RequestHandles : DeleteMessage(q, h)
    PROVE  \E q \in Queue : \E i \in 1..Len(Messages[q]) :
              /\ DeleteAt(q, i) /\ Messages[q][i] \in Msg
              /\ ReceiptHandle[Messages[q][i]] \in RequestHandles
<1>1. \A q \in Queue : \A i \in 1..Len(Messages[q]) : Messages[q][i] \in Msg
    BY ElementOfSeq DEF TypeOK, StoreType
<1>2. CASE \E q \in Queue, h \in RequestHandles : DeleteMessage(q, h)
    BY <1>1, <1>2 DEF DeleteMessage, FirstWith
<1>3. CASE DeleteEntry
    <2>1. cur \in Queue /\ batch \in Seq(Handle \cup {NoHandle}) /\ batch # <<>>
        BY <1>3 DEF TypeOK, LoopType, DeleteEntry, InDeleteBatch
    <2>2. Head(batch) = batch[1] /\ 1 \in 1..Len(batch)
        BY <2>1, HeadTailProperties, LenProperties, EmptySeq
    <2>3. Head(batch) \in RequestHandles
        BY <2>2 DEF BatchInv
    <2> QED BY <1>1, <1>3, <2>1, <2>3 DEF DeleteEntry, FirstWith
<1> QED BY <1>2, <1>3

\* A message that the sweep visits is a message of its queue.
LEMMA SweptMessage ==
    ASSUME TypeOK, InSweep
    PROVE  cur \in Queue /\ idx \in 1..Len(Messages[cur]) /\ Scanned \in Msg
<1>1. cur \in Queue /\ idx \in 1..Len(Messages[cur]) /\ Messages[cur] \in Seq(Msg)
    BY DEF TypeOK, LoopType, StoreType, InSweep
<1> QED BY <1>1, ElementOfSeq DEF Scanned

\* A release is of a message with the handle that was named.
LEMMA VisibilityStep ==
    ASSUME TypeOK, NEW q \in Queue, NEW h \in RequestHandles, NEW t \in Visibility,
           ChangeMessageVisibility(q, h, t)
    PROVE  \E i \in 1..Len(Messages[q]) :
              /\ Messages[q][i] \in Msg
              /\ ReceiptHandle[Messages[q][i]] = h
              /\ IF t = 0 THEN Release(q, i) ELSE Extend(q, i, t)
<1>1. \A i \in 1..Len(Messages[q]) : Messages[q][i] \in Msg
    BY ElementOfSeq DEF TypeOK, StoreType
<1> QED BY <1>1 DEF ChangeMessageVisibility, FirstWith

LEMMA HandlesOfClients ==
    TypeOK /\ BlankHandles = FALSE => RequestHandles = received /\ NoHandle \notin received
BY NullAssumption DEF RequestHandles, TypeOK, HistoryType, Handle

-----------------------------------------------------------------------------
(* Delays. *)

\* DelaySeconds: for every latency and every delay, and however often the
\* scan looks, a message is not returned before its delay is over.
THEOREM DelayCorrect == Spec => DelayRespected
<1>1. ASSUME TypeOK, [Next]_vars, NEW m \in Msg, delivered'[m] # delivered[m]
      PROVE  ShowAt[m] <= 0
    <2>1. ReceiveReturn
        BY <1>1, QuietSteps
        DEF Enqueue, DeleteMessage, DeleteAt, ChangeMessageVisibility, PurgeQueue, ReceiveHide,
            DeleteEntry, SweepKeep, SweepExpire, SweepRedrive, MakeVisible, Tick, historyVars
    <2>2. /\ delivered' = [delivered EXCEPT ![Scanned] = @ + 1]
          /\ \E l \in RandomLatency : IsReadyForReceipt(Scanned, l)
        BY <2>1 DEF ReceiveReturn, Mark
    <2>3. m = Scanned
        BY <1>1, <2>2 DEF TypeOK, HistoryType
    <2>4. PICK l \in RandomLatency : ShowAt[m] + l <= 0
        BY <2>2, <2>3 DEF IsReadyForReceipt
    <2>5. l \in Nat /\ ShowAt[m] \in Int
        BY <1>1, EnvironmentAssumption DEF TypeOK, StoreType
    <2> QED BY <2>4, <2>5
<1>2. TypeOK /\ [Next]_vars =>
         [\A m \in Msg : delivered'[m] # delivered[m] => ShowAt[m] <= 0]_vars
    BY <1>1
<1> QED BY <1>2, TypeCorrect, PTL DEF Spec, DelayRespected

-----------------------------------------------------------------------------
(* Handles, when no request carries a blank one. *)

\* Deletions: when requests carry no blank handles, a message is deleted only
\* by the handle it is in flight with, alone or in a batch, whatever
\* happened between the request's entries.
THEOREM DeletedByHolderCorrect == BlankHandles = FALSE /\ Spec => DeletedByHolder
<1>1. ASSUME BlankHandles = FALSE, TypeOK, BatchInv, [Next]_vars,
             NEW m \in Msg, fate[m] # "deleted", fate'[m] = "deleted"
      PROVE  ReceiptHandle[m] \in received
    <2>1. DeleteEntry \/ \E q \in Queue, h \in RequestHandles : DeleteMessage(q, h)
        BY <1>1, QuietSteps
        DEF Enqueue, ChangeMessageVisibility, PurgeQueue, ReceiveHide, ReceiveReturn, Mark,
            SweepKeep, SweepExpire, SweepRedrive, MakeVisible, Tick, historyVars, TypeOK,
            HistoryType
    <2>2. PICK q \in Queue : \E i \in 1..Len(Messages[q]) :
              /\ DeleteAt(q, i) /\ Messages[q][i] \in Msg
              /\ ReceiptHandle[Messages[q][i]] \in RequestHandles
        BY <1>1, <2>1, DeletionStep
    <2>3. PICK i \in 1..Len(Messages[q]) :
              /\ DeleteAt(q, i) /\ Messages[q][i] \in Msg
              /\ ReceiptHandle[Messages[q][i]] \in RequestHandles
        BY <2>2
    <2>4. m = Messages[q][i]
        BY <1>1, <2>3 DEF DeleteAt, TypeOK, HistoryType
    <2> QED BY <1>1, <2>3, <2>4, HandlesOfClients
<1>2. BlankHandles = FALSE /\ TypeOK /\ BatchInv /\ [Next]_vars =>
         [\A m \in Msg : fate[m] # "deleted" /\ fate'[m] = "deleted" =>
              ReceiptHandle[m] \in received]_vars
    BY <1>1
<1>3. CASE BlankHandles = FALSE
    BY <1>2, <1>3, TypeCorrect, BatchCorrect, PTL DEF Spec, DeletedByHolder
<1> QED BY <1>3

\* A retry is of a message in flight.
LEMMA RetriedInFlight ==
    ASSUME BlankHandles = FALSE, TypeOK, [Next]_vars, NEW m \in Msg, Retry'[m] # Retry[m]
    PROVE  ReceiptHandle[m] # NoHandle
<1>1. CASE \E q \in Queue, h \in RequestHandles, t \in Visibility :
              ChangeMessageVisibility(q, h, t)
    <2>1. PICK q \in Queue, h \in RequestHandles, t \in Visibility :
              ChangeMessageVisibility(q, h, t)
        BY <1>1
    <2>2. PICK i \in 1..Len(Messages[q]) :
             /\ Messages[q][i] \in Msg
             /\ ReceiptHandle[Messages[q][i]] = h
             /\ IF t = 0 THEN Release(q, i) ELSE Extend(q, i, t)
        BY <2>1, VisibilityStep
    <2>3. m = Messages[q][i]
        BY <2>2 DEF Release, Extend, TypeOK, StoreType
    <2>4. h # NoHandle
        BY HandlesOfClients
    <2> QED BY <2>2, <2>3, <2>4
<1>2. CASE SweepExpire \/ SweepRedrive
    <2>1. Expired(Scanned) /\ Retry' = [Retry EXCEPT ![Scanned] = @ + 1]
        BY <1>2 DEF SweepExpire, SweepRedrive, MakeVisible
    <2>2. m = Scanned
        BY <2>1 DEF TypeOK, StoreType
    <2> QED BY <2>1, <2>2 DEF Expired
<1> QED BY <1>1, <1>2, QuietSteps
        DEF Enqueue, DeleteMessage, DeleteAt, PurgeQueue, ReceiveHide, ReceiveReturn, Mark,
            DeleteEntry, SweepKeep, Tick, messageVars

\* Releases: when requests carry no blank handles, only a message in flight
\* counts a retry, by a ChangeMessageVisibility or by the sweep.
THEOREM ReleasedCorrect == BlankHandles = FALSE /\ Spec => ReleasedFromFlight
<1>1. BlankHandles = FALSE /\ TypeOK /\ [Next]_vars =>
         [\A m \in Msg : Retry'[m] # Retry[m] => ReceiptHandle[m] # NoHandle]_vars
    BY RetriedInFlight
<1>2. CASE BlankHandles = FALSE
    BY <1>1, <1>2, TypeCorrect, PTL DEF Spec, ReleasedFromFlight
<1> QED BY <1>2

-----------------------------------------------------------------------------
(* Group locks. *)

\* What LockOwnership asks of a step.
Unlocks(q, g) ==
    \/ \E m \in Msg : /\ GroupID[m] = g
                      /\ ReceiptHandle[m] # NoHandle /\ ReceiptHandle'[m] = NoHandle
    \/ FIFOMessages'[q] \ FIFOMessages[q] # {}

\* A message that leaves its client unlocks its own group, in one queue.
LEMMA UnlockStep ==
    ASSUME TypeOK, NEW x \in Msg, NEW p \in Queue,
           FIFOMessages' = UnlockGroup(p, GroupID[x]),
           ReceiptHandle[x] # NoHandle, ReceiptHandle' = [ReceiptHandle EXCEPT ![x] = NoHandle]
    PROVE  \A q \in Queue : \A g \in FIFOMessages[q] \ FIFOMessages'[q] : Unlocks(q, g)
<1>1. ReceiptHandle'[x] = NoHandle
    BY DEF TypeOK, StoreType
<1>2. \A q \in Queue : FIFOMessages[q] \ FIFOMessages'[q] \subseteq {GroupID[x]}
    BY DEF TypeOK, StoreType, UnlockGroup
<1> QED BY <1>1, <1>2 DEF Unlocks

\* Locks: when requests carry no blank handles, a group is unlocked only by the
\* end of one of its messages, or when another group is locked.
THEOREM LockOwnershipCorrect == BlankHandles = FALSE /\ Spec => LockOwnership
<1>1. ASSUME BlankHandles = FALSE, TypeOK, BatchInv, [Next]_vars
      PROVE  \A q \in Queue : \A g \in FIFOMessages[q] \ FIFOMessages'[q] : Unlocks(q, g)
    <2>1. CASE DeleteEntry \/ \E q \in Queue, h \in RequestHandles : DeleteMessage(q, h)
        <3>1. PICK q \in Queue : \E i \in 1..Len(Messages[q]) :
                  /\ DeleteAt(q, i) /\ Messages[q][i] \in Msg
                  /\ ReceiptHandle[Messages[q][i]] \in RequestHandles
            BY <1>1, <2>1, DeletionStep
        <3>2. PICK i \in 1..Len(Messages[q]) :
                  /\ DeleteAt(q, i) /\ Messages[q][i] \in Msg
                  /\ ReceiptHandle[Messages[q][i]] \in RequestHandles
            BY <3>1
        <3>3. ReceiptHandle[Messages[q][i]] # NoHandle
            BY <1>1, <3>2, HandlesOfClients
        <3> QED BY <1>1, <3>2, <3>3, UnlockStep DEF DeleteAt
    <2>2. CASE SweepExpire \/ SweepRedrive
        <3>1. cur \in Queue /\ Scanned \in Msg
            BY <1>1, <2>2, SweptMessage DEF SweepExpire, SweepRedrive
        <3>2. Expired(Scanned) /\ MakeVisible(cur, Scanned)
            BY <2>2 DEF SweepExpire, SweepRedrive
        <3> QED BY <1>1, <3>1, <3>2, UnlockStep DEF Expired, MakeVisible
    <2>3. CASE ReceiveReturn
        <3>1. cur \in Queue
            BY <1>1, <2>3 DEF ReceiveReturn, InReceive, TypeOK, LoopType
        <3>2. \/ UNCHANGED FIFOMessages
              \/ /\ GroupID[Scanned] \notin FIFOMessages[cur]
                 /\ FIFOMessages' = [FIFOMessages EXCEPT ![cur] = {GroupID[Scanned]}]
            BY <2>3 DEF ReceiveReturn, LockGroup, IsLocked
        <3>3. \A q \in Queue : FIFOMessages[q] \ FIFOMessages'[q] # {} =>
                 q = cur /\ GroupID[Scanned] \in FIFOMessages'[q] \ FIFOMessages[q]
            BY <1>1, <3>1, <3>2 DEF TypeOK, StoreType
        <3> QED BY <3>3 DEF Unlocks
    <2>4. CASE UNCHANGED FIFOMessages
        BY <2>4
    <2> QED BY <1>1, <2>1, <2>2, <2>3, <2>4, QuietSteps
            DEF Enqueue, ChangeMessageVisibility, PurgeQueue, ReceiveHide, SweepKeep, Tick,
                queueVars, fifoVars
<1>2. BlankHandles = FALSE /\ TypeOK /\ BatchInv /\ [Next]_vars =>
         [\A q \in Queue : \A g \in FIFOMessages[q] \ FIFOMessages'[q] : Unlocks(q, g)]_vars
    BY <1>1
<1>3. CASE BlankHandles = FALSE
    BY <1>2, <1>3, TypeCorrect, BatchCorrect, PTL DEF Spec, LockOwnership, Unlocks
<1> QED BY <1>3

-----------------------------------------------------------------------------
(* Deduplication ids. *)

LEMMA RegisteredKept ==
    RegisteredIsQueued /\ UNCHANGED <<Messages, Duplicates>> => RegisteredIsQueued'
BY DEF RegisteredIsQueued, Registered, InQueue

\* Ids that are dropped or grow older, with the queues as they were.
LEMMA RegisteredFewer ==
    ASSUME RegisteredIsQueued, UNCHANGED Messages,
           \A q \in Queue, d \in DedupId : Registered(q, d)' => Registered(q, d)
    PROVE  RegisteredIsQueued'
BY DEF RegisteredIsQueued, InQueue

LEMMA EnqueueRegistered ==
    ASSUME TypeOK, NoLossNoDuplication, RegisteredIsQueued,
           NEW q \in Queue, NEW x \in Msg, NEW delay, Enqueue(q, x, delay)
    PROVE  RegisteredIsQueued'
<1> DEFINE e == DeduplicationID[x]
<1>1. /\ Messages \in [Queue -> Seq(Msg)] /\ Once(Messages)
      /\ Duplicates \in [Queue -> [DedupId -> Nat \cup {-1}]]
      /\ \A p \in Queue : ~InQueue(Messages, p, x)
    BY DEF TypeOK, StoreType, NoLossNoDuplication, Enqueue
<1>2. CASE IsDuplicate(q, e)
    <2>1. UNCHANGED <<Messages, Duplicates>>
        BY <1>2 DEF Enqueue, InitDuplicatation, IsDuplicate
    <2> QED BY <2>1, RegisteredKept
<1>3. CASE ~IsDuplicate(q, e)
    <2>1. \A p \in Queue, m \in Msg :
             InQueue(Messages', p, m) <=> InQueue(Messages, p, m) \/ (p = q /\ m = x)
        BY <1>1, <1>3, AppendPlaces DEF Enqueue, Appended
    <2>2. \A p \in Queue, d \in DedupId :
             Registered(p, d)' => Registered(p, d) \/ (p = q /\ d = e)
        BY <1>1, EnvironmentAssumption DEF Enqueue, InitDuplicatation, Registered, Deduplicates
    <2> QED BY <2>1, <2>2 DEF RegisteredIsQueued
<1> QED BY <1>2, <1>3

LEMMA DeleteRegistered ==
    ASSUME TypeOK, NoLossNoDuplication, RegisteredIsQueued,
           NEW q \in Queue, NEW i \in 1..Len(Messages[q]), DeleteAt(q, i)
    PROVE  RegisteredIsQueued'
<1> DEFINE x == Messages[q][i]
<1>1. /\ Messages \in [Queue -> Seq(Msg)] /\ Once(Messages)
      /\ Duplicates \in [Queue -> [DedupId -> Nat \cup {-1}]]
    BY DEF TypeOK, StoreType, NoLossNoDuplication
<1>2. x \in Msg /\ InQueue(Messages, q, x)
    BY <1>1, ElementOfSeq DEF InQueue
<1>3. \A p \in Queue, m \in Msg : InQueue(Messages', p, m) <=> InQueue(Messages, p, m) /\ m # x
    BY <1>1, RemovePlaces DEF DeleteAt, Without, Removed
<1>4. Duplicates' = Unregister(q, DeduplicationID[x])
    BY DEF DeleteAt
<1>5. \A p \in Queue : InQueue(Messages, p, x) => p = q
    BY <1>2 DEF NoLossNoDuplication, Once, InQueue
<1> HIDE DEF x
<1>6. \A p \in Queue, d \in DedupId :
         Registered(p, d)' => Registered(p, d) /\ ~(p = q /\ d = DeduplicationID[x])
    BY <1>1, <1>4 DEF Unregister, Registered
<1> QED BY <1>3, <1>5, <1>6 DEF RegisteredIsQueued

\* A message that is redriven leaves a queue with a policy.
LEMMA RedriveRegistered ==
    ASSUME TypeOK, NoLossNoDuplication, RegisteredIsQueued,
           NEW q \in Queue, NEW i \in 1..Len(Messages[q]),
           RedriveDue(q, Retry[Messages[q][i]] + 1), Messages' = Redriven(q, i),
           \A p \in Queue, d \in DedupId : Registered(p, d)' => Registered(p, d)
    PROVE  RegisteredIsQueued'
<1> DEFINE x == Messages[q][i]
<1>1. Messages \in [Queue -> Seq(Msg)] /\ Once(Messages)
    BY DEF TypeOK, StoreType, NoLossNoDuplication
<1>2. InQueue(Messages, q, x)
    BY DEF InQueue
<1>3. \A p \in Queue, m \in Msg : InQueue(Messages', p, m) <=>
          \/ InQueue(Messages, p, m) /\ m # x
          \/ p = DeadLetterQueue[q] /\ m = x
    BY <1>1, RedrivenPlaces DEF RedriveDue
<1>4. HasPolicy(q)
    BY DEF RedriveDue, HasPolicy
<1>5. \A p \in Queue : InQueue(Messages, p, x) => p = q
    BY <1>2 DEF NoLossNoDuplication, Once, InQueue
<1> HIDE DEF x
<1> QED BY <1>3, <1>4, <1>5 DEF RegisteredIsQueued

LEMMA PurgeRegistered ==
    ASSUME TypeOK, RegisteredIsQueued, NEW q \in Queue, PurgeQueue(q)
    PROVE  RegisteredIsQueued'
<1>1. \A p \in Queue : p # q => Messages'[p] = Messages[p] /\ Duplicates'[p] = Duplicates[p]
    BY DEF PurgeQueue, TypeOK, StoreType
<1>2. \A d \in DedupId : ~Registered(q, d)'
    BY DEF PurgeQueue, TypeOK, StoreType, Registered
<1> QED BY <1>1, <1>2 DEF RegisteredIsQueued, Registered, InQueue

LEMMA RegisteredStep ==
    TypeOK /\ NoLossNoDuplication /\ BatchInv /\ RegisteredIsQueued /\ [Next]_vars
        => RegisteredIsQueued'
<1> SUFFICES ASSUME TypeOK, NoLossNoDuplication, BatchInv, RegisteredIsQueued, [Next]_vars
             PROVE  RegisteredIsQueued'
    OBVIOUS
<1>1. Duplicates \in [Queue -> [DedupId -> Nat \cup {-1}]]
    BY DEF TypeOK, StoreType
<1>2. CASE \E q \in Queue, m \in Msg, delay \in Int : Enqueue(q, m, delay)
    BY <1>2, EnqueueRegistered
<1>3. CASE DeleteEntry \/ \E q \in Queue, h \in RequestHandles : DeleteMessage(q, h)
    BY <1>3, DeletionStep, DeleteRegistered
<1>4. CASE \E q \in Queue, h \in RequestHandles, t \in Visibility :
              ChangeMessageVisibility(q, h, t)
    <2>1. PICK q \in Queue, h \in RequestHandles, t \in Visibility :
             ChangeMessageVisibility(q, h, t)
        BY <1>4
    <2>2. PICK i \in 1..Len(Messages[q]) : IF t = 0 THEN Release(q, i) ELSE Extend(q, i, t)
        BY <2>1, VisibilityStep
    <2>3. UNCHANGED Duplicates
        BY <2>1 DEF ChangeMessageVisibility
    <2>4. \/ UNCHANGED Messages
          \/ RedriveDue(q, Retry[Messages[q][i]] + 1) /\ Messages' = Redriven(q, i)
        BY <2>2 DEF Release, Extend
    <2>5. \A p \in Queue, d \in DedupId : Registered(p, d)' => Registered(p, d)
        BY <2>3 DEF Registered
    <2> QED BY <2>3, <2>4, <2>5, RegisteredKept, RedriveRegistered
<1>5. CASE \E q \in Queue : PurgeQueue(q)
    BY <1>5, PurgeRegistered
<1>6. CASE SweepKeep \/ SweepExpire \/ SweepRedrive
    <2>1. cur \in Queue /\ idx \in 1..Len(Messages[cur])
        BY <1>6, SweptMessage DEF SweepKeep, SweepExpire, SweepRedrive
    <2>2. Duplicates' = ExpireDuplicates(cur)
        BY <1>6 DEF SweepKeep, SweepExpire, SweepRedrive, MakeVisible
    <2>3. \A p \in Queue, d \in DedupId : Registered(p, d)' => Registered(p, d)
        BY <1>1, <2>1, <2>2 DEF ExpireDuplicates, Registered
    <2>4. \/ UNCHANGED Messages
          \/ RedriveDue(cur, Retry[Messages[cur][idx]] + 1) /\ Messages' = Redriven(cur, idx)
        BY <1>6 DEF SweepKeep, SweepExpire, SweepRedrive, Scanned
    <2> QED BY <2>1, <2>3, <2>4, RegisteredFewer, RedriveRegistered
<1>7. CASE Tick
    <2>1. \A p \in Queue, d \in DedupId : Registered(p, d)' => Registered(p, d)
        BY <1>1, <1>7 DEF Tick, Registered, CountDown
    <2> QED BY <1>7, <2>1, RegisteredFewer DEF Tick
<1>8. CASE ReceiveHide \/ ReceiveReturn \/ UNCHANGED <<queueVars, messageVars, historyVars>>
    BY <1>8, RegisteredKept DEF ReceiveHide, ReceiveReturn, Mark, queueVars
<1> QED BY <1>2, <1>3, <1>4, <1>5, <1>6, <1>7, <1>8, QuietSteps

\* Deduplication: whatever ids messages carry and however they are deleted,
\* purged and expired, an id never blocks a queue without redrive policy that
\* has no message with it.
THEOREM RegisteredCorrect == Spec => []RegisteredIsQueued
<1>1. Init => RegisteredIsQueued
    BY DEF Init, RegisteredIsQueued, Registered
<1> QED BY <1>1, RegisteredStep, TypeCorrect, PlacedCorrect, BatchCorrect, PTL DEF Spec

-----------------------------------------------------------------------------
(* Dead-letter queues of standard queues. *)

\* Every retry, and the handle a message is in flight with, was a return.
EarnedInv ==
    \A m \in Msg : Retry[m] + (IF ReceiptHandle[m] = NoHandle THEN 0 ELSE 1) <= delivered[m]

\* A message whose handle goes, and with it at most one retry.
LEMMA EarnedKept ==
    ASSUME TypeOK, EarnedInv, UNCHANGED delivered,
           \A m \in Msg :
              \/ Retry'[m] = Retry[m] /\ ReceiptHandle'[m] \in {ReceiptHandle[m], NoHandle}
              \/ /\ Retry'[m] = Retry[m] + 1
                 /\ ReceiptHandle[m] # NoHandle /\ ReceiptHandle'[m] = NoHandle
    PROVE  EarnedInv'
<1>1. \A m \in Msg : Retry[m] \in Nat /\ delivered[m] \in Nat
    BY DEF TypeOK, StoreType, HistoryType
<1> QED BY <1>1 DEF EarnedInv

\* The message that a release or the sweep makes visible again.
LEMMA EarnedRetry ==
    ASSUME TypeOK, EarnedInv, UNCHANGED delivered, NEW x \in Msg, ReceiptHandle[x] # NoHandle,
           ReceiptHandle' = [ReceiptHandle EXCEPT ![x] = NoHandle],
           Retry' = [Retry EXCEPT ![x] = @ + 1]
    PROVE  EarnedInv'
BY EarnedKept DEF TypeOK, StoreType

\* A message that the scan of a standard queue marks is returned.
LEMMA EarnedReturn ==
    ASSUME TypeOK, EarnedInv, ReceiveReturn
    PROVE  EarnedInv'
<1>1. /\ delivered' = [delivered EXCEPT ![Scanned] = @ + 1] /\ UNCHANGED Retry
      /\ \E h : ReceiptHandle' = [ReceiptHandle EXCEPT ![Scanned] = h]
      /\ ReceiptHandle[Scanned] = NoHandle
    BY DEF ReceiveReturn, Mark
<1>2. \A m \in Msg : Retry[m] \in Nat /\ delivered[m] \in Nat
    BY DEF TypeOK, StoreType, HistoryType
<1>3. ASSUME NEW m \in Msg
      PROVE  Retry'[m] + (IF ReceiptHandle'[m] = NoHandle THEN 0 ELSE 1) <= delivered'[m]
    <2>1. CASE m = Scanned
        BY <1>1, <1>2, <2>1 DEF EarnedInv, TypeOK, HistoryType
    <2>2. CASE m # Scanned
        BY <1>1, <2>2 DEF EarnedInv, TypeOK, HistoryType, StoreType
    <2> QED BY <2>1, <2>2
<1> QED BY <1>3 DEF EarnedInv

LEMMA EarnedStep ==
    ASSUME Fifo = {}, BlankHandles = FALSE, TypeOK, EarnedInv, [Next]_vars
    PROVE  EarnedInv'
<1>1. CASE \E q \in Queue, h \in RequestHandles, t \in Visibility :
              ChangeMessageVisibility(q, h, t)
    <2>1. PICK q \in Queue, h \in RequestHandles, t \in Visibility :
              ChangeMessageVisibility(q, h, t)
        BY <1>1
    <2>2. PICK i \in 1..Len(Messages[q]) :
             /\ Messages[q][i] \in Msg
             /\ ReceiptHandle[Messages[q][i]] = h
             /\ IF t = 0 THEN Release(q, i) ELSE Extend(q, i, t)
        BY <2>1, VisibilityStep
    <2>3. h # NoHandle /\ UNCHANGED delivered
        BY <2>1, HandlesOfClients DEF ChangeMessageVisibility
    <2>4. CASE Release(q, i)
        BY <2>2, <2>3, <2>4, EarnedRetry DEF Release
    <2>5. CASE Extend(q, i, t)
        BY <2>3, <2>5, EarnedKept DEF Extend
    <2> QED BY <2>2, <2>4, <2>5
<1>2. CASE SweepExpire \/ SweepRedrive
    <2>1. Scanned \in Msg
        BY <1>2, SweptMessage DEF SweepExpire, SweepRedrive
    <2> QED BY <1>2, <2>1, EarnedRetry
            DEF SweepExpire, SweepRedrive, MakeVisible, Expired, historyVars
<1>3. CASE ReceiveReturn
    BY <1>3, EarnedReturn
<1>4. CASE DeleteEntry \/ \E q \in Queue, h \in RequestHandles : DeleteMessage(q, h)
    <2>1. \E x : ReceiptHandle' = [ReceiptHandle EXCEPT ![x] = NoHandle]
        BY <1>4 DEF DeleteEntry, DeleteMessage, DeleteAt
    <2>2. UNCHANGED <<Retry, delivered>>
        BY <1>4 DEF DeleteEntry, DeleteMessage, DeleteAt
    <2>3. \A m \in Msg : ReceiptHandle'[m] \in {ReceiptHandle[m], NoHandle}
        BY <2>1 DEF TypeOK, StoreType
    <2> QED BY <2>2, <2>3, EarnedKept
<1>5. CASE \E q \in Queue : PurgeQueue(q)
    BY <1>5, EarnedKept DEF PurgeQueue
<1>6. CASE UNCHANGED <<Retry, ReceiptHandle, delivered>>
    BY <1>6, EarnedKept
<1>7. ~ReceiveHide
    BY DEF ReceiveHide
<1> QED BY <1>1, <1>2, <1>3, <1>4, <1>5, <1>6, <1>7, QuietSteps
        DEF Enqueue, SweepKeep, Tick, messageVars, historyVars

LEMMA OnePlace ==
    ASSUME Once(Messages), NEW p \in Queue, NEW q \in Queue, NEW m,
           InQueue(Messages, p, m), InQueue(Messages, q, m)
    PROVE  p = q
BY DEF Once, InQueue

\* Who leaves a queue without being deleted or purged is redriven.
LEMMA RedrivenStep ==
    ASSUME TypeOK, NoLossNoDuplication, [Next]_vars, NEW q \in Queue, NEW m \in Msg,
           InQueue(Messages, q, m), ~InQueue(Messages', q, m), fate'[m] = "queued"
    PROVE  /\ Retry[m] + 1 > MaxReceiveCount[q]
           /\ Retry'[m] = Retry[m] + 1
<1>0. /\ Messages \in [Queue -> Seq(Msg)] /\ Once(Messages)
      /\ fate \in [Msg -> Fates] /\ Retry \in [Msg -> Nat]
    BY DEF TypeOK, StoreType, HistoryType, NoLossNoDuplication
<1>1. ASSUME NEW p \in Queue, NEW i \in 1..Len(Messages[p]), Messages[p][i] \in Msg,
             RedriveDue(p, Retry[Messages[p][i]] + 1), Messages' = Redriven(p, i),
             Retry' = [Retry EXCEPT ![Messages[p][i]] = @ + 1]
      PROVE  Retry[m] + 1 > MaxReceiveCount[q] /\ Retry'[m] = Retry[m] + 1
    <2> DEFINE x == Messages[p][i]
    <2>1. \A r \in Queue, k \in Msg : InQueue(Messages', r, k) <=>
              \/ InQueue(Messages, r, k) /\ k # x
              \/ r = DeadLetterQueue[p] /\ k = x
        BY <1>0, <1>1, RedrivenPlaces DEF RedriveDue
    <2>2. InQueue(Messages, p, x)
        BY DEF InQueue
    <2> HIDE DEF x
    <2>3. m = x
        BY <2>1
    <2>4. p = q
        <3>1. InQueue(Messages, p, m) /\ InQueue(Messages, q, m)
            BY <2>2, <2>3
        <3> QED BY <1>0, <3>1, OnePlace
    <2> QED BY <1>0, <1>1, <2>3, <2>4 DEF RedriveDue, x
<1>2. ASSUME NEW p \in Queue, NEW h \in RequestHandles, NEW t \in Visibility,
             ChangeMessageVisibility(p, h, t)
      PROVE  Retry[m] + 1 > MaxReceiveCount[q] /\ Retry'[m] = Retry[m] + 1
    <2>1. PICK i \in 1..Len(Messages[p]) :
             /\ Messages[p][i] \in Msg
             /\ ReceiptHandle[Messages[p][i]] = h
             /\ IF t = 0 THEN Release(p, i) ELSE Extend(p, i, t)
        BY <1>2, VisibilityStep
    <2>2. Messages' # Messages
        OBVIOUS
    <2> QED BY <1>1, <2>1, <2>2 DEF Release, Extend
<1>3. CASE SweepRedrive
    <2>1. cur \in Queue /\ idx \in 1..Len(Messages[cur]) /\ Scanned \in Msg
        BY <1>3, SweptMessage DEF SweepRedrive
    <2> QED BY <1>1, <1>3, <2>1 DEF SweepRedrive, MakeVisible, Scanned
<1>4. CASE \E p \in Queue, x \in Msg, delay \in Int : Enqueue(p, x, delay)
    <2>1. PICK p \in Queue, x \in Msg, delay \in Int : Enqueue(p, x, delay)
        BY <1>4
    <2>2. Messages' = Appended(Messages, p, x)
        BY <2>1 DEF Enqueue, Appended
    <2>3. \A r \in Queue : ~InQueue(Messages, r, x)
        BY <2>1 DEF Enqueue, NoLossNoDuplication
    <2>4. \A r \in Queue, k \in Msg :
              InQueue(Appended(Messages, p, x), r, k) <=> InQueue(Messages, r, k) \/ (r = p /\ k = x)
        BY <1>0, <2>3, AppendPlaces
    <2> QED BY <2>2, <2>4
<1>5. ASSUME NEW p \in Queue, NEW i \in 1..Len(Messages[p]), DeleteAt(p, i) PROVE FALSE
    <2>1. \A r \in Queue, k \in Msg :
              InQueue(Messages', r, k) <=> InQueue(Messages, r, k) /\ k # Messages[p][i]
        BY <1>0, <1>5, RemovePlaces DEF DeleteAt, Without, Removed
    <2>2. m = Messages[p][i]
        BY <2>1
    <2> QED BY <1>0, <1>5, <2>2 DEF DeleteAt
<1>6. ASSUME NEW p \in Queue, PurgeQueue(p) PROVE FALSE
    <2>1. CASE p = q
        <3>1. m \in Range(Messages[q])
            BY <1>0, LenProperties DEF Range, InQueue
        <3> QED BY <1>6, <2>1, <3>1 DEF PurgeQueue
    <2>2. CASE p # q
        BY <1>0, <1>6, <2>2 DEF PurgeQueue, InQueue
    <2> QED BY <2>1, <2>2
<1>7. CASE DeleteEntry \/ \E p \in Queue, h \in RequestHandles : DeleteMessage(p, h)
    BY <1>5, <1>7 DEF DeleteEntry, DeleteMessage, InDeleteBatch, TypeOK, LoopType
<1>8. ~UNCHANGED Messages
    OBVIOUS
<1> QED BY <1>2, <1>3, <1>4, <1>6, <1>7, <1>8, QuietSteps
        DEF ReceiveHide, ReceiveReturn, Mark, SweepKeep, SweepExpire, Tick, queueVars

\* In standard queues, and when requests carry no blank handles, a message reaches a
\* dead-letter queue only after more than maxReceiveCount returns, whatever releases,
\* extensions and expiries it has met on the way, and in however many queues.
THEOREM DeadLetterEarnedCorrect ==
    Fifo = {} /\ BlankHandles = FALSE /\ Spec => DeadLetterEarned
<1>1. Init => EarnedInv
    BY DEF Init, EarnedInv
<1>2. ASSUME Fifo = {}, BlankHandles = FALSE, TypeOK, NoLossNoDuplication, EarnedInv, [Next]_vars,
             NEW q \in Queue, NEW m \in Msg, InQueue(Messages, q, m),
             ~InQueue(Messages', q, m), fate'[m] = "queued"
      PROVE  delivered[m] > MaxReceiveCount[q]
    <2>1. Retry[m] + 1 > MaxReceiveCount[q] /\ Retry'[m] # Retry[m]
        BY <1>2, RedrivenStep DEF TypeOK, StoreType
    <2>2. ReceiptHandle[m] # NoHandle
        BY <1>2, <2>1, RetriedInFlight
    <2> QED BY <1>2, <2>1, <2>2, QueueAssumption DEF EarnedInv, TypeOK, StoreType, HistoryType
<1>3. CASE Fifo = {} /\ BlankHandles = FALSE
    <2>1. TypeOK /\ EarnedInv /\ [Next]_vars => EarnedInv'
        BY <1>3, EarnedStep
    <2>2. TypeOK /\ NoLossNoDuplication /\ EarnedInv /\ [Next]_vars =>
             [\A q \in Queue, m \in Msg :
                 /\ InQueue(Messages, q, m) /\ ~InQueue(Messages', q, m)
                 /\ fate'[m] = "queued"
                 => delivered[m] > MaxReceiveCount[q]]_vars
        BY <1>2, <1>3
    <2> QED BY <1>1, <2>1, <2>2, TypeCorrect, PlacedCorrect, PTL DEF Spec, DeadLetterEarned
<1> QED BY <1>3
=============================================================================
