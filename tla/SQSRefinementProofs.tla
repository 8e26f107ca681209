------------------------ MODULE SQSRefinementProofs ------------------------
(***************************************************************************)
(* The message store implements MessageLife for any queues, messages and   *)
(* policies: every step of SQS is one step of MessageLife, or none.        *)
(***************************************************************************)
EXTENDS SQSRefinement, SQSProofs

-----------------------------------------------------------------------------
(* The handles a batch still has to delete are handles that requests name. *)

BatchInv == \A i \in 1..Len(batch) : batch[i] \in RequestHandles

LEMMA RequestHandlesGrow ==
    received \subseteq received' => RequestHandles \subseteq RequestHandles'
BY DEF RequestHandles

LEMMA BatchKept ==
    BatchInv /\ UNCHANGED batch /\ received \subseteq received' => BatchInv'
BY RequestHandlesGrow DEF BatchInv

LEMMA BatchEmpty == batch' = <<>> => BatchInv'
BY EmptySeq DEF BatchInv

\* DeleteMessageBatch goes on with the entries after the first.
LEMMA BatchTail ==
    ASSUME TypeOK, BatchInv, batch # <<>>, batch' = Tail(batch), UNCHANGED received
    PROVE  BatchInv'
<1>1. batch \in Seq(Handle \cup {NoHandle})
    BY DEF TypeOK, LoopType
<1>2. /\ Len(Tail(batch)) = Len(batch) - 1
      /\ \A i \in 1..Len(Tail(batch)) : Tail(batch)[i] = batch[i + 1]
    BY <1>1, HeadTailProperties
<1>3. Len(batch) \in Nat
    BY <1>1, LenProperties
<1>4. ASSUME NEW i \in 1..Len(Tail(batch))
      PROVE  Tail(batch)[i] \in RequestHandles
    <2>1. i + 1 \in 1..Len(batch)
        BY <1>2, <1>3
    <2> QED BY <1>2, <2>1 DEF BatchInv
<1>5. RequestHandles' = RequestHandles
    BY DEF RequestHandles
<1> QED BY <1>4, <1>5 DEF BatchInv

LEMMA BatchStep == TypeOK /\ BatchInv /\ [Next]_vars => BatchInv'
<1> SUFFICES ASSUME TypeOK, BatchInv, [Next]_vars
             PROVE  BatchInv'
    OBVIOUS
<1> USE BatchKept
<1>1. CASE Request
    <2> SUFFICES ASSUME NEW q \in Queue,
                        \/ \E m \in Msg : SendMessage(q, m) \/ SendMessageBatchEntry(q, m)
                        \/ \E n \in 1..MaxWanted : ReceiveMessage(q, n)
                        \/ \E h \in RequestHandles : DeleteMessage(q, h)
                        \/ \E n \in 1..MaxBatch : \E hs \in [1..n -> RequestHandles] :
                              DeleteMessageBatch(q, hs)
                        \/ \E h \in RequestHandles, t \in Visibility :
                              ChangeMessageVisibility(q, h, t)
                        \/ PurgeQueue(q)
                 PROVE  BatchInv'
        BY <1>1 DEF Request
    <2>1. ASSUME NEW n \in 1..MaxBatch, NEW hs \in [1..n -> RequestHandles],
                 DeleteMessageBatch(q, hs)
          PROVE  BatchInv'
        <3>1. batch' = hs /\ RequestHandles' = RequestHandles
            BY <2>1 DEF DeleteMessageBatch, historyVars, RequestHandles
        <3>2. n \in Nat
            BY EnvironmentAssumption
        <3>3. Len(hs) = n
            BY <3>2
        <3> QED BY <3>1, <3>3 DEF BatchInv
    <2>2. CASE UNCHANGED <<batch, received>>
        BY <2>2
    <2>3. ASSUME NEW m \in Msg, SendMessage(q, m) \/ SendMessageBatchEntry(q, m)
          PROVE  UNCHANGED <<batch, received>>
        BY <2>3 DEF SendMessage, SendMessageBatchEntry, Enqueue, lockVars
    <2>4. ASSUME \/ \E n \in 1..MaxWanted : ReceiveMessage(q, n)
                 \/ \E h \in RequestHandles : DeleteMessage(q, h)
                 \/ \E h \in RequestHandles, t \in Visibility :
                       ChangeMessageVisibility(q, h, t)
                 \/ PurgeQueue(q)
          PROVE  UNCHANGED <<batch, received>>
        BY <2>4 DEF ReceiveMessage, DeleteMessage, DeleteAt, ChangeMessageVisibility,
                    PurgeQueue, lockVars, historyVars
    <2> QED BY <2>1, <2>2, <2>3, <2>4
<1>2. CASE ReceiveStep
    <2>1. CASE ReceiveEnd
        BY <2>1, BatchEmpty DEF ReceiveEnd, Unlock
    <2>2. CASE ReceiveSkip \/ ReceiveNotReady \/ ReceiveHide \/ ReceiveReturn
        BY <2>2 DEF ReceiveSkip, ReceiveNotReady, ReceiveHide, ReceiveReturn, Mark, historyVars
    <2> QED BY <1>2, <2>1, <2>2 DEF ReceiveStep
<1>3. CASE DeleteStep
    <2>1. CASE DeleteEntry \/ DeleteEntryMissing
        BY <2>1, BatchTail DEF DeleteEntry, DeleteEntryMissing, InDeleteBatch, DeleteAt, historyVars
    <2>2. CASE DeleteBatchEnd
        BY <2>2, BatchEmpty DEF DeleteBatchEnd, Unlock
    <2> QED BY <1>3, <2>1, <2>2 DEF DeleteStep
<1>4. CASE SweepBegin \/ SweepStep
    <2>1. CASE SweepEnd
        BY <2>1, BatchEmpty DEF SweepEnd, Unlock
    <2>2. CASE SweepBegin \/ SweepKeep \/ SweepExpire \/ SweepRedrive \/ SweepQueueEnd
        BY <2>2 DEF SweepBegin, SweepKeep, SweepExpire, SweepRedrive, SweepQueueEnd,
                    MakeVisible, historyVars
    <2>3. ASSUME NEW q \in Queue, SweepQueue(q)
          PROVE  BatchInv'
        BY <2>3 DEF SweepQueue, historyVars
    <2> QED BY <1>4, <2>1, <2>2, <2>3 DEF SweepStep
<1>5. CASE Tick
    BY <1>5 DEF Tick, lockVars
<1>6. CASE UNCHANGED vars
    BY <1>6 DEF vars, lockVars, historyVars
<1> QED BY <1>1, <1>2, <1>3, <1>4, <1>5, <1>6 DEF Next

LEMMA BatchCorrect == Spec => []BatchInv
<1>1. Init => BatchInv
    BY EmptySeq DEF Init, BatchInv
<1> QED BY <1>1, BatchStep, TypeCorrect, PTL DEF Spec

-----------------------------------------------------------------------------
(* The place of a message, as a function of the queues. *)

PlaceIn(M) ==
    [m \in Msg |-> IF \E q \in Queue : InQueue(M, q, m)
                   THEN CHOOSE q \in Queue : InQueue(M, q, m) ELSE NoQueue]

LEMMA PlaceOfIn == placeOf = PlaceIn(Messages) /\ placeOf' = PlaceIn(Messages')
BY DEF placeOf, PlaceIn

\* A message with one place is in the queue where it is.
LEMMA PlaceInQueue ==
    ASSUME NEW M, Once(M)
    PROVE  \A m \in Msg, q \in Queue : PlaceIn(M)[m] = q <=> InQueue(M, q, m)
<1> SUFFICES ASSUME NEW m \in Msg, NEW q \in Queue
             PROVE  PlaceIn(M)[m] = q <=> InQueue(M, q, m)
    OBVIOUS
<1>1. \A p \in Queue : InQueue(M, q, m) /\ InQueue(M, p, m) => p = q
    BY DEF Once, InQueue
<1>2. q # NoQueue
    BY NullAssumption
<1> QED BY <1>1, <1>2 DEF PlaceIn

LEMMA PlaceInNone ==
    ASSUME NEW M, NEW m \in Msg, \A q \in Queue : ~InQueue(M, q, m)
    PROVE  PlaceIn(M)[m] = NoQueue
BY DEF PlaceIn

\* Two states of the queues in which m has the same place.
LEMMA PlaceInSame ==
    ASSUME NEW M, NEW N, Once(M), Once(N), NEW m \in Msg,
           \A q \in Queue : InQueue(M, q, m) <=> InQueue(N, q, m)
    PROVE  PlaceIn(N)[m] = PlaceIn(M)[m]
<1>1. CASE \E q \in Queue : InQueue(M, q, m)
    BY <1>1, PlaceInQueue
<1>2. CASE \A q \in Queue : ~InQueue(M, q, m)
    BY <1>2, PlaceInNone
<1> QED BY <1>1, <1>2

\* A change of the queues that concerns one message concerns its place only.
LEMMA PlaceInMoved ==
    ASSUME NEW M, NEW N, Once(M), Once(N), NEW x \in Msg,
           \A q \in Queue, m \in Msg : m # x => (InQueue(M, q, m) <=> InQueue(N, q, m)),
           NEW p, PlaceIn(N)[x] = p
    PROVE  PlaceIn(N) = [PlaceIn(M) EXCEPT ![x] = p]
<1>1. \A m \in Msg : m # x => PlaceIn(N)[m] = PlaceIn(M)[m]
    BY PlaceInSame
<1>2. DOMAIN PlaceIn(N) = Msg /\ DOMAIN PlaceIn(M) = Msg
    BY DEF PlaceIn
<1>3. PlaceIn(N) = [m \in Msg |-> PlaceIn(N)[m]]
    BY DEF PlaceIn
<1> HIDE DEF PlaceIn
<1> QED BY <1>1, <1>2, <1>3

-----------------------------------------------------------------------------
(* Each step of the store as a step of MessageLife. *)

LEMMA LifeKept ==
    UNCHANGED <<Messages, fate, ReceiptHandle, Retry, minted, received>> => UNCHANGED Life!vars
BY PlaceOfIn DEF Life!vars, usedHandles

LEMMA AcceptLife ==
    ASSUME TypeOK, NoLossNoDuplication, NoLossNoDuplication',
           NEW q \in Queue, NEW m \in Msg, NEW delay, Enqueue(q, m, delay)
    PROVE  Life!Accept(q, m) \/ Life!Refuse(m)
<1>1. Messages \in [Queue -> Seq(Msg)] /\ Once(Messages) /\ Once(Messages')
    BY DEF TypeOK, StoreType, NoLossNoDuplication
<1>2. fate[m] = "unsent" /\ \A p \in Queue : ~InQueue(Messages, p, m)
    BY DEF NoLossNoDuplication, Enqueue
<1>3. UNCHANGED <<ReceiptHandle, Retry, usedHandles, received>>
    BY DEF Enqueue, usedHandles
<1>4. CASE Messages' = Messages /\ fate' = [fate EXCEPT ![m] = "duplicate"]
    BY <1>2, <1>3, <1>4, PlaceOfIn DEF Life!Refuse
<1>5. CASE Messages' = Appended(Messages, q, m) /\ fate' = [fate EXCEPT ![m] = "queued"]
    <2>1. \A p \in Queue, x \in Msg :
             InQueue(Messages', p, x) <=> InQueue(Messages, p, x) \/ (p = q /\ x = m)
        BY <1>1, <1>2, <1>5, AppendPlaces
    <2>2. PlaceIn(Messages')[m] = q
        BY <1>1, <2>1, PlaceInQueue
    <2>3. \A p \in Queue, x \in Msg :
             x # m => (InQueue(Messages, p, x) <=> InQueue(Messages', p, x))
        BY <2>1
    <2>4. PlaceIn(Messages') = [PlaceIn(Messages) EXCEPT ![m] = q]
        BY <1>1, <2>2, <2>3, PlaceInMoved
    <2> QED BY <1>2, <1>3, <1>5, <2>4, PlaceOfIn DEF Life!Accept
<1> QED BY <1>4, <1>5 DEF Enqueue, Appended

LEMMA TakeLife ==
    ASSUME TypeOK, NoLossNoDuplication, NEW q \in Queue, NEW m \in Msg,
           InQueue(Messages, q, m), Mark(q, m),
           \/ UNCHANGED received
           \/ received' = received \cup {<<m, minted[m] + 1>>}
    PROVE  Life!Take(m, ReceiptHandle'[m])
<1> DEFINE h == <<m, minted[m] + 1>>
<1>1. /\ minted \in [Msg -> Nat] /\ ReceiptHandle \in [Msg -> Handle \cup {NoHandle}]
      /\ Once(Messages)
    BY DEF TypeOK, StoreType, HistoryType, NoLossNoDuplication
<1>2. /\ UNCHANGED <<Messages, fate, Retry>>
      /\ ReceiptHandle[m] = NoHandle
      /\ ReceiptHandle' = [ReceiptHandle EXCEPT ![m] = h]
      /\ minted' = [minted EXCEPT ![m] = @ + 1]
    BY DEF Mark
<1>3. ReceiptHandle'[m] = h
    BY <1>1, <1>2
<1>4. h \in Handle
    BY <1>1 DEF Handle
<1>5. h \notin usedHandles
    <2>1. \A x \in Msg : \A n \in 1..minted[x] : <<x, n>> # h
        BY <1>1
    <2> QED BY <2>1 DEF usedHandles
<1>6. usedHandles' = usedHandles \cup {h}
    <2>1. \A x \in Msg : minted'[x] = IF x = m THEN minted[m] + 1 ELSE minted[x]
        BY <1>1, <1>2
    <2>2. 1..(minted[m] + 1) = (1..minted[m]) \cup {minted[m] + 1}
        BY <1>1
    <2>3. ASSUME NEW u
          PROVE  (\E x \in Msg : \E n \in 1..minted'[x] : u = <<x, n>>) <=>
                 (\E x \in Msg : \E n \in 1..minted[x] : u = <<x, n>>) \/ u = h
        <3>1. ASSUME NEW x \in Msg, NEW n \in 1..minted'[x], u = <<x, n>>
              PROVE  (\E y \in Msg : \E k \in 1..minted[y] : u = <<y, k>>) \/ u = h
            <4>1. CASE x = m
                BY <2>1, <2>2, <3>1, <4>1
            <4>2. CASE x # m
                BY <2>1, <3>1, <4>2
            <4> QED BY <4>1, <4>2
        <3>2. ASSUME NEW x \in Msg, NEW n \in 1..minted[x], u = <<x, n>>
              PROVE  \E y \in Msg : \E k \in 1..minted'[y] : u = <<y, k>>
            BY <1>1, <2>1, <2>2, <3>2
        <3>3. u = h => \E y \in Msg : \E k \in 1..minted'[y] : u = <<y, k>>
            BY <1>1, <2>1, <2>2
        <3> QED BY <3>1, <3>2, <3>3
    <2> QED BY <2>3 DEF usedHandles
<1>7. placeOf[m] # NoQueue /\ UNCHANGED placeOf
    BY <1>1, <1>2, PlaceOfIn, PlaceInQueue, NullAssumption
<1> HIDE DEF h
<1>8. received' \in {received, received \cup {h}}
    BY DEF h
<1> QED BY <1>2, <1>3, <1>4, <1>5, <1>6, <1>7, <1>8 DEF Life!Take, Life!InPlace

LEMMA ComeBackLife ==
    ASSUME TypeOK, NoLossNoDuplication, NoLossNoDuplication',
           NEW q \in Queue, NEW i \in 1..Len(Messages[q]),
           ReceiptHandle[Messages[q][i]] # NoHandle \/ BlankHandles,
           ReceiptHandle' = [ReceiptHandle EXCEPT ![Messages[q][i]] = NoHandle],
           Retry' = [Retry EXCEPT ![Messages[q][i]] = @ + 1],
           Messages' = IF RedriveDue(q, Retry[Messages[q][i]] + 1) THEN Redriven(q, i)
                       ELSE Messages,
           UNCHANGED <<fate, minted, received>>
    PROVE  Life!ComeBack(Messages[q][i])
<1> DEFINE x == Messages[q][i]
<1>1. Messages \in [Queue -> Seq(Msg)] /\ Once(Messages) /\ Once(Messages')
    BY DEF TypeOK, StoreType, NoLossNoDuplication
<1>2. x \in Msg /\ InQueue(Messages, q, x)
    BY <1>1, ElementOfSeq DEF InQueue
<1>3. /\ ReceiptHandle[x] # NoHandle \/ BlankHandles
      /\ ReceiptHandle' = [ReceiptHandle EXCEPT ![x] = NoHandle]
      /\ Retry' = [Retry EXCEPT ![x] = @ + 1]
      /\ UNCHANGED <<fate, usedHandles, received>>
    BY DEF usedHandles
<1>4. \/ /\ RedriveDue(q, Retry[x] + 1)
         /\ \A p \in Queue, m \in Msg : InQueue(Messages', p, m) <=>
               \/ InQueue(Messages, p, m) /\ m # x
               \/ p = DeadLetterQueue[q] /\ m = x
      \/ ~RedriveDue(q, Retry[x] + 1) /\ UNCHANGED Messages
    BY <1>1, RedrivenPlaces DEF RedriveDue
<1> HIDE DEF x
<1>5. placeOf[x] = q /\ q # NoQueue
    BY <1>1, <1>2, PlaceOfIn, PlaceInQueue, NullAssumption
<1>6. Life!Exceeds(q, Retry[x] + 1) <=> RedriveDue(q, Retry[x] + 1)
    BY DEF Life!Exceeds, RedriveDue
<1>7. placeOf' = IF RedriveDue(q, Retry[x] + 1) THEN [placeOf EXCEPT ![x] = DeadLetterQueue[q]]
                 ELSE placeOf
    <2>1. CASE ~RedriveDue(q, Retry[x] + 1)
        BY <1>4, <2>1, PlaceOfIn
    <2>2. CASE RedriveDue(q, Retry[x] + 1)
        <3>1. DeadLetterQueue[q] \in Queue
            BY <2>2, QueueAssumption DEF RedriveDue
        <3>2. PlaceIn(Messages')[x] = DeadLetterQueue[q]
            BY <1>1, <1>2, <1>4, <2>2, <3>1, PlaceInQueue
        <3>3. \A p \in Queue, m \in Msg :
                 m # x => (InQueue(Messages, p, m) <=> InQueue(Messages', p, m))
            BY <1>4, <2>2
        <3>4. PlaceIn(Messages') = [PlaceIn(Messages) EXCEPT ![x] = DeadLetterQueue[q]]
            BY <1>1, <1>2, <3>2, <3>3, PlaceInMoved
        <3> QED BY <2>2, <3>4, PlaceOfIn
    <2> QED BY <2>1, <2>2
<1>8. Life!ComeBack(x)
    BY <1>3, <1>5, <1>6, <1>7 DEF Life!ComeBack, Life!InPlace
<1> QED BY <1>8 DEF x

LEMMA DeleteLife ==
    ASSUME TypeOK, NoLossNoDuplication, NoLossNoDuplication',
           NEW q \in Queue, NEW i \in 1..Len(Messages[q]), NEW h \in RequestHandles,
           FirstWith(q, h, i), DeleteAt(q, i)
    PROVE  Life!Delete(Messages[q][i])
<1> DEFINE x == Messages[q][i]
<1>1. Messages \in [Queue -> Seq(Msg)] /\ Once(Messages) /\ Once(Messages')
    BY DEF TypeOK, StoreType, NoLossNoDuplication
<1>2. x \in Msg /\ InQueue(Messages, q, x)
    BY <1>1, ElementOfSeq DEF InQueue
<1>3. Messages' = Removed(Messages, q, i)
    BY DEF DeleteAt, Without, Removed
<1>4. \A p \in Queue, m \in Msg : InQueue(Messages', p, m) <=> InQueue(Messages, p, m) /\ m # x
    BY <1>1, <1>3, RemovePlaces
<1>5. /\ fate' = [fate EXCEPT ![x] = "deleted"]
      /\ ReceiptHandle' = [ReceiptHandle EXCEPT ![x] = NoHandle]
      /\ UNCHANGED <<Retry, usedHandles, received>>
    BY DEF DeleteAt, usedHandles
<1>6. ReceiptHandle[x] \in received \/ (BlankHandles /\ ReceiptHandle[x] = NoHandle)
    BY DEF FirstWith, RequestHandles
<1> HIDE DEF x
<1>7. placeOf[x] # NoQueue
    BY <1>1, <1>2, PlaceOfIn, PlaceInQueue, NullAssumption
<1>8. placeOf' = [placeOf EXCEPT ![x] = NoQueue]
    <2>1. PlaceIn(Messages')[x] = NoQueue
        BY <1>2, <1>4, PlaceInNone
    <2>2. \A p \in Queue, m \in Msg :
             m # x => (InQueue(Messages, p, m) <=> InQueue(Messages', p, m))
        BY <1>4
    <2>3. PlaceIn(Messages') = [PlaceIn(Messages) EXCEPT ![x] = NoQueue]
        BY <1>1, <1>2, <2>1, <2>2, PlaceInMoved
    <2> QED BY <2>3, PlaceOfIn
<1>9. Life!Delete(x)
    BY <1>5, <1>6, <1>7, <1>8 DEF Life!Delete, Life!InPlace
<1> QED BY <1>9 DEF x

LEMMA PurgeLife ==
    ASSUME TypeOK, NoLossNoDuplication, NoLossNoDuplication', NEW q \in Queue, PurgeQueue(q)
    PROVE  Life!Purge(q)
<1>1. Messages \in [Queue -> Seq(Msg)] /\ Once(Messages) /\ Once(Messages')
    BY DEF TypeOK, StoreType, NoLossNoDuplication
<1>2. \A m \in Msg : m \in Range(Messages[q]) <=> placeOf[m] = q
    <2>1. \A m \in Msg : m \in Range(Messages[q]) <=> InQueue(Messages, q, m)
        BY <1>1, LenProperties DEF Range, InQueue
    <2> QED BY <1>1, <2>1, PlaceOfIn, PlaceInQueue
<1>3. \A p \in Queue, m \in Msg : InQueue(Messages', p, m) <=> InQueue(Messages, p, m) /\ p # q
    <2>1. \A p \in Queue : Messages'[p] = IF p = q THEN <<>> ELSE Messages[p]
        BY <1>1 DEF PurgeQueue
    <2>2. \A p \in Queue : \A i \in 1..Len(Messages'[p]) : p # q /\ Messages'[p] = Messages[p]
        BY <2>1, EmptySeq
    <2> QED BY <2>1, <2>2 DEF InQueue
<1>4. \A m \in Msg : placeOf'[m] = IF placeOf[m] = q THEN NoQueue ELSE placeOf[m]
    <2> SUFFICES ASSUME NEW m \in Msg
                 PROVE  PlaceIn(Messages')[m] = IF PlaceIn(Messages)[m] = q THEN NoQueue
                                                ELSE PlaceIn(Messages)[m]
        BY PlaceOfIn
    <2>1. CASE PlaceIn(Messages)[m] = q
        <3>1. \A p \in Queue : InQueue(Messages, p, m) => p = q
            BY <1>1, <2>1, PlaceInQueue
        <3> QED BY <1>3, <2>1, <3>1, PlaceInNone
    <2>2. CASE PlaceIn(Messages)[m] # q
        <3>1. ~InQueue(Messages, q, m)
            BY <1>1, <2>2, PlaceInQueue
        <3>2. \A p \in Queue : InQueue(Messages, p, m) <=> InQueue(Messages', p, m)
            BY <1>3, <3>1
        <3> QED BY <1>1, <2>2, <3>2, PlaceInSame
    <2> QED BY <2>1, <2>2
<1>5. placeOf' = [m \in Msg |-> placeOf'[m]]
    BY DEF placeOf
<1>6. placeOf' = [m \in Msg |-> IF m \in {k \in Msg : placeOf[k] = q} THEN NoQueue
                                ELSE placeOf[m]]
    BY <1>4, <1>5
<1>7. /\ fate' = [m \in Msg |-> IF m \in {k \in Msg : placeOf[k] = q} THEN "purged"
                                ELSE fate[m]]
      /\ ReceiptHandle' = [m \in Msg |-> IF m \in {k \in Msg : placeOf[k] = q} THEN NoHandle
                                         ELSE ReceiptHandle[m]]
      /\ UNCHANGED <<Retry, usedHandles, received>>
    BY <1>2 DEF PurgeQueue, usedHandles
<1> QED BY <1>6, <1>7 DEF Life!Purge

-----------------------------------------------------------------------------
(* The refinement. *)

LifeInv == TypeOK /\ NoLossNoDuplication /\ BatchInv

LEMMA LifeInit == Init => Life!Init
<1> SUFFICES ASSUME Init
             PROVE  Life!Init
    OBVIOUS
<1>1. \A q \in Queue, m \in Msg : ~InQueue(Messages, q, m)
    BY EmptySeq DEF Init, InQueue
<1>2. placeOf = [m \in Msg |-> NoQueue]
    BY <1>1 DEF placeOf
<1>3. usedHandles = {}
    BY DEF Init, usedHandles
<1> QED BY <1>2, <1>3 DEF Init, Life!Init

LEMMA LifeStep == LifeInv /\ NoLossNoDuplication' /\ [Next]_vars => [Life!Next]_Life!vars
<1> SUFFICES ASSUME TypeOK, NoLossNoDuplication, BatchInv, NoLossNoDuplication', [Next]_vars
             PROVE  Life!Next \/ UNCHANGED Life!vars
    BY DEF LifeInv
<1>a. \A q \in Queue, m \in Msg : Life!Accept(q, m) => Life!Next
    BY DEF Life!Next
<1>b. \A m \in Msg : Life!Refuse(m) \/ Life!Take(m, ReceiptHandle'[m]) \/ Life!ComeBack(m)
                        \/ Life!Delete(m) => Life!Next
    BY DEF Life!Next
<1>c. \A q \in Queue : Life!Purge(q) => Life!Next
    BY DEF Life!Next
<1>d. \A q \in Queue : \A i \in 1..Len(Messages[q]) : Messages[q][i] \in Msg
    BY ElementOfSeq DEF TypeOK, StoreType
<1>1. CASE Request
    <2> SUFFICES ASSUME NEW q \in Queue,
                        \/ \E m \in Msg : SendMessage(q, m) \/ SendMessageBatchEntry(q, m)
                        \/ \E n \in 1..MaxWanted : ReceiveMessage(q, n)
                        \/ \E h \in RequestHandles : DeleteMessage(q, h)
                        \/ \E n \in 1..MaxBatch : \E hs \in [1..n -> RequestHandles] :
                              DeleteMessageBatch(q, hs)
                        \/ \E h \in RequestHandles, t \in Visibility :
                              ChangeMessageVisibility(q, h, t)
                        \/ PurgeQueue(q)
                 PROVE  Life!Next \/ UNCHANGED Life!vars
        BY <1>1 DEF Request
    <2>1. ASSUME NEW m \in Msg, SendMessage(q, m) \/ SendMessageBatchEntry(q, m)
          PROVE  Life!Next
        BY <1>a, <1>b, <2>1, AcceptLife DEF SendMessage, SendMessageBatchEntry
    <2>2. ASSUME NEW n \in 1..MaxWanted, ReceiveMessage(q, n)
          PROVE  UNCHANGED Life!vars
        BY <2>2, LifeKept DEF ReceiveMessage, queueVars, messageVars, historyVars
    <2>3. ASSUME NEW h \in RequestHandles, DeleteMessage(q, h)
          PROVE  Life!Next
        BY <1>b, <1>d, <2>3, DeleteLife DEF DeleteMessage
    <2>4. ASSUME NEW n \in 1..MaxBatch, NEW hs \in [1..n -> RequestHandles],
                 DeleteMessageBatch(q, hs)
          PROVE  UNCHANGED Life!vars
        BY <2>4, LifeKept DEF DeleteMessageBatch, queueVars, messageVars, historyVars
    <2>5. ASSUME NEW h \in RequestHandles, NEW t \in Visibility,
                 ChangeMessageVisibility(q, h, t)
          PROVE  Life!Next \/ UNCHANGED Life!vars
        <3>1. PICK i \in 1..Len(Messages[q]) :
                 FirstWith(q, h, i) /\ IF t = 0 THEN Release(q, i) ELSE Extend(q, i, t)
            BY <2>5 DEF ChangeMessageVisibility
        <3>2. UNCHANGED <<fate, minted, received>>
            BY <2>5 DEF ChangeMessageVisibility
        <3>3. ReceiptHandle[Messages[q][i]] # NoHandle \/ BlankHandles
            BY <3>1, NullAssumption DEF FirstWith, RequestHandles, TypeOK, HistoryType, Handle
        <3>4. CASE Release(q, i)
            <4>1. Life!ComeBack(Messages[q][i])
                BY <3>2, <3>3, <3>4, ComeBackLife DEF Release
            <4> QED BY <1>b, <1>d, <4>1
        <3>5. CASE Extend(q, i, t)
            BY <3>2, <3>5, LifeKept DEF Extend
        <3> QED BY <3>1, <3>4, <3>5
    <2>6. ASSUME PurgeQueue(q)
          PROVE  Life!Next
        BY <1>c, <2>6, PurgeLife
    <2> QED BY <2>1, <2>2, <2>3, <2>4, <2>5, <2>6
<1>2. CASE ReceiveStep
    <2>1. CASE ReceiveHide \/ ReceiveReturn
        <3>1. cur \in Queue /\ idx \in 1..Len(Messages[cur]) /\ Messages[cur] \in Seq(Msg)
            BY <2>1 DEF TypeOK, LoopType, StoreType, ReceiveHide, ReceiveReturn, InReceive
        <3>2. Scanned \in Msg /\ InQueue(Messages, cur, Scanned)
            BY <3>1, ElementOfSeq DEF InQueue, Scanned
        <3>3. /\ Mark(cur, Scanned)
              /\ \/ UNCHANGED received
                 \/ received' = received \cup {<<Scanned, minted[Scanned] + 1>>}
            BY <2>1 DEF ReceiveHide, ReceiveReturn
        <3>4. Life!Take(Scanned, ReceiptHandle'[Scanned])
            BY <3>1, <3>2, <3>3, TakeLife
        <3> QED BY <1>b, <3>2, <3>4
    <2>2. CASE ReceiveSkip \/ ReceiveNotReady \/ ReceiveEnd
        BY <2>2, LifeKept DEF ReceiveSkip, ReceiveNotReady, ReceiveEnd,
                              queueVars, messageVars, historyVars
    <2> QED BY <1>2, <2>1, <2>2 DEF ReceiveStep
<1>3. CASE DeleteStep
    <2>1. CASE DeleteEntry
        <3>1. cur \in Queue /\ batch \in Seq(Handle \cup {NoHandle}) /\ batch # <<>>
            BY <2>1 DEF TypeOK, LoopType, DeleteEntry, InDeleteBatch
        <3>2. Head(batch) = batch[1] /\ 1 \in 1..Len(batch)
            BY <3>1, HeadTailProperties, LenProperties, EmptySeq
        <3>3. Head(batch) \in RequestHandles
            BY <3>2 DEF BatchInv
        <3> QED BY <1>b, <1>d, <2>1, <3>1, <3>3, DeleteLife DEF DeleteEntry
    <2>2. CASE DeleteEntryMissing \/ DeleteBatchEnd
        BY <2>2, LifeKept DEF DeleteEntryMissing, DeleteBatchEnd,
                              queueVars, messageVars, historyVars
    <2> QED BY <1>3, <2>1, <2>2 DEF DeleteStep
<1>4. CASE SweepBegin \/ SweepStep
    <2>1. CASE SweepExpire \/ SweepRedrive
        <3>1. cur \in Queue /\ idx \in 1..Len(Messages[cur])
            BY <2>1 DEF TypeOK, LoopType, StoreType, SweepExpire, SweepRedrive, InSweep
        <3>2. /\ Expired(Messages[cur][idx]) /\ MakeVisible(cur, Messages[cur][idx])
              /\ Messages' = IF RedriveDue(cur, Retry[Messages[cur][idx]] + 1)
                             THEN Redriven(cur, idx) ELSE Messages
            BY <2>1 DEF SweepExpire, SweepRedrive, Scanned
        <3>3. Life!ComeBack(Messages[cur][idx])
            BY <3>1, <3>2, ComeBackLife DEF Expired, MakeVisible, historyVars
        <3> QED BY <1>b, <1>d, <3>1, <3>3
    <2>2. CASE SweepBegin \/ SweepKeep \/ SweepQueueEnd \/ SweepEnd
        BY <2>2, LifeKept DEF SweepBegin, SweepKeep, SweepQueueEnd, SweepEnd,
                              queueVars, messageVars, historyVars
    <2>3. ASSUME NEW q \in Queue, SweepQueue(q)
          PROVE  UNCHANGED Life!vars
        BY <2>3, LifeKept DEF SweepQueue, queueVars, messageVars, historyVars
    <2> QED BY <1>4, <2>1, <2>2, <2>3 DEF SweepStep
<1>5. CASE Tick
    BY <1>5, LifeKept DEF Tick
<1>6. CASE UNCHANGED vars
    BY <1>6, LifeKept DEF vars, queueVars, messageVars, historyVars
<1> QED BY <1>1, <1>2, <1>3, <1>4, <1>5, <1>6 DEF Next

\* The store implements MessageLife: for every instance, and however requests,
\* sweeps and time interleave, each message lives the life of the abstract
\* specification.
THEOREM Refines == Spec => Implements
<1>1. Spec => []LifeInv
    BY TypeCorrect, PlacedCorrect, BatchCorrect, PTL DEF LifeInv
<1>2. LifeInv /\ LifeInv' /\ [Next]_vars => [Life!Next]_Life!vars
    BY LifeStep DEF LifeInv
<1> QED BY <1>1, <1>2, LifeInit, PTL DEF Spec, Implements, Life!Spec
=============================================================================
