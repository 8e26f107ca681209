----------------------------- MODULE SQSProofs -----------------------------
(***************************************************************************)
(* Proofs about the message store, for any queues, messages and policies.  *)
(***************************************************************************)
EXTENDS SQSProperties, SequenceTheorems, TLAPS

-----------------------------------------------------------------------------
(* Removing one message from a queue, and moving one between queues. *)

LEMMA RemoveAtProperties ==
    ASSUME NEW S, NEW s \in Seq(S), NEW i \in 1..Len(s)
    PROVE  /\ RemoveAt(s, i) \in Seq(S)
           /\ Len(RemoveAt(s, i)) = Len(s) - 1
           /\ \A j \in 1..(Len(s) - 1) :
                 RemoveAt(s, i)[j] = IF j < i THEN s[j] ELSE s[j + 1]
<1>1. \A j \in 1..Len(s) : s[j] \in S
    BY ElementOfSeq
<1>2. Len(s) \in Nat
    BY LenProperties
<1> DEFINE before == SubSeq(s, 1, i - 1)
           after == SubSeq(s, i + 1, Len(s))
<1>3. /\ before \in Seq(S)
      /\ Len(before) = i - 1
      /\ \A j \in 1..(i - 1) : before[j] = s[j]
    <2>1. \A j \in 1..(i - 1) : s[j] \in S
        BY <1>1, <1>2
    <2>2. /\ before \in Seq(S)
          /\ Len(before) = IF 1 <= i - 1 THEN (i - 1) - 1 + 1 ELSE 0
          /\ \A j \in 1..((i - 1) - 1 + 1) : before[j] = s[1 + j - 1]
        BY <2>1, <1>2, SubSeqProperties
    <2> QED BY <2>2, <1>2
<1>4. /\ after \in Seq(S)
      /\ Len(after) = Len(s) - i
      /\ \A j \in 1..(Len(s) - i) : after[j] = s[i + j]
    <2>1. \A j \in (i + 1)..Len(s) : s[j] \in S
        BY <1>1, <1>2
    <2>2. /\ after \in Seq(S)
          /\ Len(after) = IF i + 1 <= Len(s) THEN Len(s) - (i + 1) + 1 ELSE 0
          /\ \A j \in 1..(Len(s) - (i + 1) + 1) : after[j] = s[(i + 1) + j - 1]
        BY <2>1, <1>2, SubSeqProperties
    <2> QED BY <2>2, <1>2
<1>5. RemoveAt(s, i) = before \o after
    BY DEF RemoveAt
<1> HIDE DEF before, after
<1>6. /\ before \o after \in Seq(S)
      /\ Len(before \o after) = Len(before) + Len(after)
      /\ \A j \in 1..(Len(before) + Len(after)) :
            (before \o after)[j] = IF j <= Len(before) THEN before[j]
                                   ELSE after[j - Len(before)]
    BY <1>3, <1>4, ConcatProperties
<1>7. \A j \in 1..(Len(s) - 1) :
            (before \o after)[j] = IF j < i THEN s[j] ELSE s[j + 1]
    <2> TAKE j \in 1..(Len(s) - 1)
    <2>1. CASE j < i
        BY <2>1, <1>2, <1>3, <1>4, <1>6
    <2>2. CASE ~(j < i)
        <3>1. (before \o after)[j] = after[j - (i - 1)]
            BY <2>2, <1>2, <1>3, <1>4, <1>6
        <3>2. j - (i - 1) \in 1..(Len(s) - i)
            BY <2>2, <1>2
        <3>3. after[j - (i - 1)] = s[i + (j - (i - 1))]
            BY <3>2, <1>4
        <3>4. i + (j - (i - 1)) = j + 1
            BY <1>2
        <3> QED BY <3>1, <3>3, <3>4, <2>2
    <2> QED BY <2>1, <2>2
<1> QED BY <1>2, <1>3, <1>4, <1>5, <1>6, <1>7

\* Positions of RemoveAt(s, i) and of s, one to one but for i.
LEMMA RemoveAtElements ==
    ASSUME NEW S, NEW s \in Seq(S), NEW i \in 1..Len(s)
    PROVE  /\ \A j \in 1..Len(s) : j # i =>
                 \E k \in 1..Len(RemoveAt(s, i)) : RemoveAt(s, i)[k] = s[j]
           /\ \A j \in 1..Len(RemoveAt(s, i)) :
                 \E k \in 1..Len(s) : k # i /\ RemoveAt(s, i)[j] = s[k]
           /\ \A j, k \in 1..Len(RemoveAt(s, i)) : j # k =>
                 \E a, b \in 1..Len(s) :
                    a # b /\ RemoveAt(s, i)[j] = s[a] /\ RemoveAt(s, i)[k] = s[b]
<1> DEFINE t == RemoveAt(s, i)
           old(j) == IF j < i THEN j ELSE j + 1
<1>1. Len(s) \in Nat
    BY LenProperties
<1>2. Len(t) = Len(s) - 1 /\ \A j \in 1..(Len(s) - 1) : t[j] = s[old(j)]
    BY RemoveAtProperties
<1> HIDE DEF t
<1>3. \A j \in 1..Len(s) : j # i => \E k \in 1..Len(t) : t[k] = s[j]
    <2> SUFFICES ASSUME NEW j \in 1..Len(s), j # i
                 PROVE  \E k \in 1..Len(t) : t[k] = s[j]
        OBVIOUS
    <2> DEFINE k == IF j < i THEN j ELSE j - 1
    <2>1. k \in 1..Len(t) /\ old(k) = j
        BY <1>1, <1>2
    <2> QED BY <1>2, <2>1
<1>4. \A j \in 1..Len(t) : old(j) \in 1..Len(s) /\ old(j) # i /\ t[j] = s[old(j)]
    BY <1>1, <1>2
<1>5. \A j, k \in 1..Len(t) : j # k => old(j) # old(k)
    BY <1>1, <1>2
<1> QED BY <1>3, <1>4, <1>5 DEF t

\* Removing before or after an append is the same.
LEMMA RemoveAtAppend ==
    ASSUME NEW S, NEW s \in Seq(S), NEW i \in 1..Len(s), NEW e \in S
    PROVE  RemoveAt(Append(s, e), i) = Append(RemoveAt(s, i), e)
<1> DEFINE longer == Append(s, e)
           shorter == RemoveAt(s, i)
           left == RemoveAt(longer, i)
           right == Append(shorter, e)
<1>1. Len(s) \in Nat
    BY LenProperties
<1>2. /\ longer \in Seq(S) /\ Len(longer) = Len(s) + 1
      /\ \A j \in 1..Len(s) : longer[j] = s[j]
      /\ longer[Len(s) + 1] = e
    BY AppendProperties
<1>3. /\ shorter \in Seq(S) /\ Len(shorter) = Len(s) - 1
      /\ \A j \in 1..(Len(s) - 1) : shorter[j] = IF j < i THEN s[j] ELSE s[j + 1]
    BY RemoveAtProperties
<1> HIDE DEF longer, shorter
<1>4. /\ left \in Seq(S) /\ Len(left) = Len(s)
      /\ \A j \in 1..Len(s) : left[j] = IF j < i THEN longer[j] ELSE longer[j + 1]
    <2>1. i \in 1..Len(longer) /\ Len(longer) - 1 = Len(s)
        BY <1>1, <1>2
    <2>2. /\ left \in Seq(S) /\ Len(left) = Len(longer) - 1
          /\ \A j \in 1..(Len(longer) - 1) : left[j] = IF j < i THEN longer[j] ELSE longer[j + 1]
        BY <1>2, <2>1, RemoveAtProperties
    <2> QED BY <2>1, <2>2
<1>5. /\ right \in Seq(S) /\ Len(right) = Len(s)
      /\ \A j \in 1..(Len(s) - 1) : right[j] = shorter[j]
      /\ right[Len(s)] = e
    <2>1. /\ right \in Seq(S) /\ Len(right) = Len(shorter) + 1
          /\ \A j \in 1..Len(shorter) : right[j] = shorter[j]
          /\ right[Len(shorter) + 1] = e
        BY <1>3, AppendProperties
    <2> QED BY <1>1, <1>3, <2>1
<1> HIDE DEF left, right
<1>6. ASSUME NEW j \in 1..Len(s)
      PROVE  left[j] = right[j]
    <2>1. CASE j = Len(s)
        BY <1>1, <1>2, <1>4, <1>5, <2>1
    <2>2. CASE j < Len(s)
        <3>1. j \in 1..(Len(s) - 1) /\ j + 1 \in 1..Len(s)
            BY <1>1, <2>2
        <3> QED BY <1>2, <1>3, <1>4, <1>5, <3>1
    <2> QED BY <1>1, <2>1, <2>2
<1>7. left = right
    BY <1>4, <1>5, <1>6, SeqEqual
<1> QED BY <1>7 DEF left, right, longer, shorter

-----------------------------------------------------------------------------
(* The same for the queues as a whole. *)

Appended(M, q, x) == [M EXCEPT ![q] = Append(M[q], x)]
Removed(M, q, i) == [M EXCEPT ![q] = RemoveAt(M[q], i)]

\* A message appended to one queue, in none before, has that place only.
LEMMA AppendPlaces ==
    ASSUME NEW M \in [Queue -> Seq(Msg)], NEW q \in Queue, NEW x \in Msg,
           Once(M), \A p \in Queue : ~InQueue(M, p, x)
    PROVE  /\ Appended(M, q, x) \in [Queue -> Seq(Msg)]
           /\ Once(Appended(M, q, x))
           /\ \A p \in Queue, m \in Msg :
                 InQueue(Appended(M, q, x), p, m) <=> InQueue(M, p, m) \/ (p = q /\ m = x)
<1> DEFINE N == Appended(M, q, x)
<1>1. \A p \in Queue : M[p] \in Seq(Msg) /\ Len(M[p]) \in Nat
    BY LenProperties
<1>2. N \in [Queue -> Seq(Msg)]
    BY <1>1, AppendProperties DEF Appended
<1>3. \A p \in Queue : p # q => N[p] = M[p]
    BY DEF Appended
<1>4. /\ Len(N[q]) = Len(M[q]) + 1
      /\ \A j \in 1..Len(M[q]) : N[q][j] = M[q][j]
      /\ N[q][Len(M[q]) + 1] = x
    BY <1>1, AppendProperties DEF Appended
<1> HIDE DEF N
<1>5. \A p \in Queue : \A j \in 1..Len(N[p]) :
         \/ j \in 1..Len(M[p]) /\ N[p][j] = M[p][j] /\ N[p][j] # x
         \/ p = q /\ j = Len(M[q]) + 1 /\ N[p][j] = x
    <2> SUFFICES ASSUME NEW p \in Queue, NEW j \in 1..Len(N[p])
                 PROVE  \/ j \in 1..Len(M[p]) /\ N[p][j] = M[p][j] /\ N[p][j] # x
                        \/ p = q /\ j = Len(M[q]) + 1 /\ N[p][j] = x
        OBVIOUS
    <2>1. CASE p = q /\ j = Len(M[q]) + 1
        BY <1>4, <2>1
    <2>2. CASE ~(p = q /\ j = Len(M[q]) + 1)
        <3>1. j \in 1..Len(M[p]) /\ N[p][j] = M[p][j]
            BY <1>1, <1>3, <1>4, <2>2
        <3> QED BY <3>1 DEF InQueue
    <2> QED BY <2>1, <2>2
<1>6. Once(N)
    BY <1>5 DEF Once
<1>7. ASSUME NEW p \in Queue, NEW m \in Msg
      PROVE  InQueue(N, p, m) <=> InQueue(M, p, m) \/ (p = q /\ m = x)
    <2>1. InQueue(N, p, m) => InQueue(M, p, m) \/ (p = q /\ m = x)
        BY <1>5 DEF InQueue
    <2>2. InQueue(M, p, m) => InQueue(N, p, m)
        <3>1. \A j \in 1..Len(M[p]) : j \in 1..Len(N[p]) /\ N[p][j] = M[p][j]
            BY <1>1, <1>3, <1>4
        <3> QED BY <3>1 DEF InQueue
    <2>3. p = q /\ m = x => InQueue(N, p, m)
        <3>1. Len(M[q]) + 1 \in 1..Len(N[q])
            BY <1>1, <1>4
        <3> QED BY <1>4, <3>1 DEF InQueue
    <2> QED BY <2>1, <2>2, <2>3
<1> QED BY <1>2, <1>6, <1>7 DEF N

\* A message removed by its position is nowhere afterwards.
LEMMA RemovePlaces ==
    ASSUME NEW M \in [Queue -> Seq(Msg)], NEW q \in Queue, NEW i \in 1..Len(M[q]), Once(M)
    PROVE  /\ Removed(M, q, i) \in [Queue -> Seq(Msg)]
           /\ Once(Removed(M, q, i))
           /\ \A p \in Queue, m \in Msg :
                 InQueue(Removed(M, q, i), p, m) <=> InQueue(M, p, m) /\ m # M[q][i]
<1> DEFINE N == Removed(M, q, i)
<1>1. M[q] \in Seq(Msg) /\ RemoveAt(M[q], i) \in Seq(Msg)
    BY RemoveAtProperties
<1>2. N \in [Queue -> Seq(Msg)] /\ N[q] = RemoveAt(M[q], i)
    BY <1>1 DEF Removed
<1>3. \A p \in Queue : p # q => N[p] = M[p]
    BY DEF Removed
<1> HIDE DEF N
<1> DEFINE s == M[q]
           t == RemoveAt(s, i)
<1>4. /\ \A j \in 1..Len(s) : j # i => \E k \in 1..Len(t) : t[k] = s[j]
      /\ \A j \in 1..Len(t) : \E k \in 1..Len(s) : k # i /\ t[j] = s[k]
      /\ \A j, k \in 1..Len(t) : j # k =>
            \E a, b \in 1..Len(s) : a # b /\ t[j] = s[a] /\ t[k] = s[b]
    <2>1. s \in Seq(Msg) /\ i \in 1..Len(s)
        BY <1>1
    <2> HIDE DEF s
    <2> QED BY <2>1, RemoveAtElements
<1>5. N[q] = t /\ M[q] = s
    BY <1>2
<1> HIDE DEF s, t
<1>6. \A p \in Queue : \A j \in 1..Len(N[p]) : \E k \in 1..Len(M[p]) : N[p][j] = M[p][k]
    <2> TAKE p \in Queue
    <2>1. CASE p = q
        <3>1. \A j \in 1..Len(t) : \E k \in 1..Len(s) : t[j] = s[k]
            BY <1>4
        <3> QED BY <1>5, <2>1, <3>1
    <2>2. CASE p # q
        BY <1>3, <2>2
    <2> QED BY <2>1, <2>2
<1>7. Once(N)
    <2> SUFFICES ASSUME NEW p1 \in Queue, NEW p2 \in Queue,
                        NEW j1 \in 1..Len(N[p1]), NEW j2 \in 1..Len(N[p2]),
                        N[p1][j1] = N[p2][j2]
                 PROVE  p1 = p2 /\ j1 = j2
        BY DEF Once
    <2>1. PICK k1 \in 1..Len(M[p1]) : N[p1][j1] = M[p1][k1]
        BY <1>6
    <2>2. PICK k2 \in 1..Len(M[p2]) : N[p2][j2] = M[p2][k2]
        BY <1>6
    <2>3. p1 = p2
        <3>1. M[p1][k1] = M[p2][k2]
            BY <2>1, <2>2
        <3> QED BY <3>1 DEF Once
    <2>4. CASE p1 = q
        <3>1. ASSUME j1 # j2
              PROVE  FALSE
            <4>1. j1 \in 1..Len(t) /\ j2 \in 1..Len(t) /\ t[j1] = t[j2]
                BY <1>5, <2>3, <2>4
            <4>2. PICK a, b \in 1..Len(s) : a # b /\ t[j1] = s[a] /\ t[j2] = s[b]
                BY <1>4, <3>1, <4>1
            <4>3. M[q][a] = M[q][b] /\ a \in 1..Len(M[q]) /\ b \in 1..Len(M[q])
                BY <1>5, <4>1, <4>2
            <4> QED BY <4>2, <4>3 DEF Once
        <3> QED BY <2>3, <3>1
    <2>5. CASE p1 # q
        BY <1>3, <2>3, <2>5 DEF Once
    <2> QED BY <2>3, <2>4, <2>5
<1>8. ASSUME NEW p \in Queue, NEW m \in Msg
      PROVE  InQueue(N, p, m) <=> InQueue(M, p, m) /\ m # M[q][i]
    <2>1. CASE p = q
        <3>1. InQueue(N, p, m) => InQueue(M, p, m) /\ m # M[q][i]
            <4> SUFFICES ASSUME NEW j \in 1..Len(t), t[j] = m
                         PROVE  InQueue(M, q, m) /\ m # M[q][i]
                BY <1>5, <2>1 DEF InQueue
            <4>1. PICK k \in 1..Len(s) : k # i /\ t[j] = s[k]
                BY <1>4
            <4> QED BY <1>5, <4>1 DEF InQueue, Once
        <3>2. InQueue(M, p, m) /\ m # M[q][i] => InQueue(N, p, m)
            <4> SUFFICES ASSUME NEW j \in 1..Len(s), s[j] = m, j # i
                         PROVE  InQueue(N, q, m)
                BY <1>5, <2>1 DEF InQueue
            <4>1. PICK k \in 1..Len(t) : t[k] = s[j]
                BY <1>4
            <4> QED BY <1>5, <4>1 DEF InQueue
        <3> QED BY <3>1, <3>2
    <2>2. CASE p # q
        BY <1>3, <2>2 DEF InQueue, Once
    <2> QED BY <2>1, <2>2
<1> QED BY <1>2, <1>7, <1>8 DEF N

\* A redrive moves one message to the dead-letter queue and no other.
LEMMA RedrivenPlaces ==
    ASSUME Messages \in [Queue -> Seq(Msg)], Once(Messages),
           NEW q \in Queue, NEW i \in 1..Len(Messages[q]), DeadLetterQueue[q] # NoQueue
    PROVE  /\ Redriven(q, i) \in [Queue -> Seq(Msg)]
           /\ Once(Redriven(q, i))
           /\ \A p \in Queue, m \in Msg : InQueue(Redriven(q, i), p, m) <=>
                 \/ InQueue(Messages, p, m) /\ m # Messages[q][i]
                 \/ p = DeadLetterQueue[q] /\ m = Messages[q][i]
<1> DEFINE x == Messages[q][i]
           dead == DeadLetterQueue[q]
           removed == Removed(Messages, q, i)
           moved == Appended(removed, dead, x)
<1>1. dead \in Queue
    BY QueueAssumption
<1>2. x \in Msg
    BY ElementOfSeq
<1>3. /\ removed \in [Queue -> Seq(Msg)]
      /\ Once(removed)
      /\ \A p \in Queue, m \in Msg : InQueue(removed, p, m) <=> InQueue(Messages, p, m) /\ m # x
    BY RemovePlaces
<1>4. /\ moved \in [Queue -> Seq(Msg)]
      /\ Once(moved)
      /\ \A p \in Queue, m \in Msg :
            InQueue(moved, p, m) <=> InQueue(removed, p, m) \/ (p = dead /\ m = x)
    <2> HIDE DEF removed, dead, x
    <2>1. \A p \in Queue : ~InQueue(removed, p, x)
        BY <1>2, <1>3
    <2>2. removed \in [Queue -> Seq(Msg)] /\ Once(removed)
        BY <1>3
    <2> QED BY <1>1, <1>2, <2>1, <2>2, AppendPlaces
<1>5. Redriven(q, i) = moved
    <2>1. CASE dead = q
        <3>1. Redriven(q, i) = [Messages EXCEPT ![q] = RemoveAt(Append(Messages[q], x), i)]
            BY <2>1 DEF Redriven
        <3>2. moved = [Messages EXCEPT ![q] = Append(RemoveAt(Messages[q], i), x)]
            BY <2>1 DEF Appended, Removed
        <3>3. RemoveAt(Append(Messages[q], x), i) = Append(RemoveAt(Messages[q], i), x)
            BY <1>2, RemoveAtAppend
        <3> HIDE DEF moved, x
        <3> QED BY <3>1, <3>2, <3>3
    <2>2. CASE dead # q
        <3> DEFINE longer == Append(Messages[dead], x)
                   shorter == RemoveAt(Messages[q], i)
        <3>1. Redriven(q, i) = [p \in Queue |-> IF p = q THEN shorter
                                               ELSE IF p = dead THEN longer ELSE Messages[p]]
            BY <1>1, <2>2 DEF Redriven
        <3>2. moved = [p \in Queue |-> IF p = q THEN shorter
                                      ELSE IF p = dead THEN longer ELSE Messages[p]]
            BY <1>1, <2>2 DEF Appended, Removed
        <3> HIDE DEF longer, shorter, dead, moved
        <3> QED BY <3>1, <3>2
    <2> QED BY <2>1, <2>2
<1> HIDE DEF removed, moved, dead
<1>6. \A p \in Queue, m \in Msg : InQueue(moved, p, m) <=>
          \/ InQueue(Messages, p, m) /\ m # x
          \/ p = dead /\ m = x
    BY <1>3, <1>4
<1> QED BY <1>4, <1>5, <1>6 DEF dead

LEMMA RedrivenType ==
    ASSUME Messages \in [Queue -> Seq(Msg)],
           NEW q \in Queue, NEW i \in 1..Len(Messages[q]), DeadLetterQueue[q] # NoQueue
    PROVE  Redriven(q, i) \in [Queue -> Seq(Msg)]
<1> DEFINE m == Messages[q][i]
           appended == [Messages EXCEPT ![DeadLetterQueue[q]] = Append(@, m)]
<1>1. DeadLetterQueue[q] \in Queue
    BY QueueAssumption
<1>2. m \in Msg
    BY ElementOfSeq
<1>3. appended \in [Queue -> Seq(Msg)]
    BY <1>1, <1>2, AppendProperties
<1>4. i \in 1..Len(appended[q])
    BY <1>1, <1>2, AppendProperties, LenProperties
<1>5. RemoveAt(appended[q], i) \in Seq(Msg)
    BY <1>3, <1>4, RemoveAtProperties
<1>6. Redriven(q, i) = [appended EXCEPT ![q] = RemoveAt(appended[q], i)]
    BY DEF Redriven
<1> QED BY <1>3, <1>5, <1>6

-----------------------------------------------------------------------------
(* Every variable keeps its type. *)

LEMMA InitType == Init => TypeOK
BY QueueAssumption, NullAssumption, EmptySeq DEF Init, TypeOK, StoreType, LoopType, HistoryType, Fates, Loops

LEMMA EnqueueType ==
    ASSUME TypeOK, NEW q \in Queue, NEW m \in Msg, NEW delay \in Int, Enqueue(q, m, delay)
    PROVE  TypeOK'
<1> DEFINE d == DeduplicationID[m]
<1>1. Messages' \in [Queue -> Seq(Msg)]
    BY AppendProperties DEF TypeOK, StoreType, LoopType, HistoryType, Enqueue
<1>2. FIFOSequenceNumbers' \in [Queue -> [Group -> Nat]]
    BY RequestAssumption, SMTT(30) DEF TypeOK, StoreType, Enqueue, NextSequenceNumber
<1>3. Duplicates' \in [Queue -> [DedupId -> Nat \cup {-1}]]
    BY RequestAssumption, EnvironmentAssumption
    DEF TypeOK, StoreType, LoopType, HistoryType, Enqueue, InitDuplicatation, Deduplicates, Registered
<1>4. ShowAt' \in [Msg -> Int]
    BY DEF TypeOK, StoreType, LoopType, HistoryType, Enqueue
<1>5. fate' \in [Msg -> Fates] /\ window' \in [Msg -> Nat]
    BY EnvironmentAssumption DEF TypeOK, StoreType, LoopType, HistoryType, Enqueue, Fates
<1> QED BY <1>1, <1>2, <1>3, <1>4, <1>5 DEF TypeOK, StoreType, LoopType, HistoryType, Enqueue, lockVars

\* A part of the state that a step leaves alone keeps its type.
LEMMA UnchangedType ==
    /\ StoreType /\ UNCHANGED <<queueVars, messageVars>> => StoreType'
    /\ LoopType /\ UNCHANGED lockVars => LoopType'
    /\ HistoryType /\ UNCHANGED historyVars => HistoryType'
<1>1. StoreType /\ UNCHANGED <<queueVars, messageVars>> => StoreType'
    BY DEF StoreType, queueVars, messageVars
<1>2. LoopType /\ UNCHANGED lockVars => LoopType'
    BY DEF LoopType, lockVars
<1>3. HistoryType /\ UNCHANGED historyVars => HistoryType'
    BY DEF HistoryType, historyVars
<1> QED BY <1>1, <1>2, <1>3

\* A loop that lets the mutex go leaves no locals.
LEMMA UnlockType == Unlock => LoopType'
BY NullAssumption, EmptySeq DEF Unlock, LoopType, Loops

LEMMA ReceiveType ==
    ASSUME TypeOK, ReceiveStep \/ \E q \in Queue, n \in 1..MaxWanted : ReceiveMessage(q, n)
    PROVE  TypeOK'
<1> USE UnchangedType DEF TypeOK
<1>1. ASSUME NEW q \in Queue, NEW n \in 1..MaxWanted, ReceiveMessage(q, n)
      PROVE  TypeOK'
    <2>1. LoopType'
        BY <1>1, EnvironmentAssumption DEF LoopType, ReceiveMessage, Loops
    <2> QED BY <1>1, <2>1 DEF ReceiveMessage
<1>2. ASSUME InReceive
      PROVE  /\ cur \in Queue /\ idx \in 1..Len(Messages[cur]) /\ Scanned \in Msg
             /\ idx' = idx + 1 /\ UNCHANGED <<lock, cur, want, todo, batch>> => LoopType'
    BY <1>2, ElementOfSeq DEF StoreType, LoopType, InReceive, Scanned
<1>3. CASE ReceiveSkip
    BY <1>2, <1>3 DEF ReceiveSkip
<1>4. CASE ReceiveNotReady
    BY <1>2, <1>4 DEF ReceiveNotReady
<1>5. ASSUME InReceive, Mark(cur, Scanned)
      PROVE  /\ ReceiptHandle' \in [Msg -> Handle \cup {NoHandle}]
             /\ VisibilityTimeout' \in [Msg -> Nat]
             /\ minted' \in [Msg -> Nat]
             /\ <<Scanned, minted[Scanned] + 1>> \in Handle
    <2>1. cur \in Queue /\ Scanned \in Msg
        BY <1>2, <1>5
    <2>2. <<Scanned, minted[Scanned] + 1>> \in Handle
        BY <2>1 DEF HistoryType, Handle
    <2>3. TimeoutSecs[cur] \in Nat
        BY <2>1, QueueAssumption
    <2> QED BY <1>5, <2>1, <2>2, <2>3, SMTT(30) DEF StoreType, HistoryType, Mark
<1>6. CASE ReceiveHide
    <2>1. InReceive /\ Mark(cur, Scanned)
        BY <1>6 DEF ReceiveHide
    <2>2. StoreType'
        BY <1>5, <1>6, <2>1 DEF StoreType, ReceiveHide, Mark
    <2>3. LoopType'
        BY <1>2, <1>6, <2>1 DEF ReceiveHide, Mark
    <2>4. HistoryType'
        BY <1>5, <1>6, <2>1 DEF HistoryType, ReceiveHide, Mark
    <2> QED BY <2>2, <2>3, <2>4
<1>7. CASE ReceiveReturn
    <2>1. InReceive /\ Mark(cur, Scanned) /\ cur \in Queue /\ Scanned \in Msg
        BY <1>2, <1>7 DEF ReceiveReturn
    <2>2. FIFOMessages' \in [Queue -> SUBSET Group]
        <3>1. GroupID[Scanned] \in Group
            BY <2>1, RequestAssumption
        <3>2. LockGroup(cur, GroupID[Scanned]) \in [Queue -> SUBSET Group]
            BY <2>1, <3>1 DEF StoreType, LockGroup
        <3> QED BY <1>7, <3>2 DEF StoreType, ReceiveReturn
    <2>3. StoreType'
        BY <1>5, <2>1, <2>2 DEF StoreType, Mark
    <2>4. LoopType'
        <3>1. want' \in Nat
            BY <1>7, <2>1 DEF LoopType, ReceiveReturn, InReceive
        <3> QED BY <2>1, <3>1 DEF LoopType, Mark
    <2>5. HistoryType'
        <3>1. TimeoutSecs[cur] \in Nat
            BY <2>1, QueueAssumption
        <3>2. received' \in SUBSET Handle
            BY <1>5, <1>7, <2>1 DEF HistoryType, ReceiveReturn
        <3>3. delivered' \in [Msg -> Nat] /\ lease' \in [Msg -> Nat]
            BY <1>7, <2>1, <3>1 DEF HistoryType, ReceiveReturn
        <3> QED BY <1>5, <2>1, <3>2, <3>3 DEF HistoryType, Mark
    <2> QED BY <2>3, <2>4, <2>5
<1>8. CASE ReceiveEnd
    BY <1>8, UnlockType DEF ReceiveEnd
<1> QED BY <1>1, <1>3, <1>4, <1>6, <1>7, <1>8 DEF ReceiveStep

\* What DeleteAt changes, whichever loop or handler deletes.
LEMMA DeleteAtType ==
    ASSUME TypeOK, NEW q \in Queue, NEW i \in 1..Len(Messages[q]), DeleteAt(q, i)
    PROVE  /\ Messages' \in [Queue -> Seq(Msg)]
           /\ FIFOMessages' \in [Queue -> SUBSET Group]
           /\ Duplicates' \in [Queue -> [DedupId -> Nat \cup {-1}]]
           /\ ReceiptHandle' \in [Msg -> Handle \cup {NoHandle}]
           /\ VisibilityTimeout' \in [Msg -> Nat]
           /\ lease' \in [Msg -> Nat]
           /\ window' \in [Msg -> Nat]
           /\ fate' \in [Msg -> Fates]
<1>1. Messages[q] \in Seq(Msg) /\ Messages[q][i] \in Msg
    BY ElementOfSeq DEF TypeOK, StoreType, LoopType, HistoryType
<1>2. Messages' \in [Queue -> Seq(Msg)]
    BY <1>1, RemoveAtProperties DEF TypeOK, StoreType, LoopType, HistoryType, DeleteAt, Without
<1>3. FIFOMessages' \in [Queue -> SUBSET Group]
    BY DEF TypeOK, StoreType, LoopType, HistoryType, DeleteAt, UnlockGroup
<1>4. Duplicates' \in [Queue -> [DedupId -> Nat \cup {-1}]]
    BY DEF TypeOK, StoreType, LoopType, HistoryType, DeleteAt, Unregister
<1>5. fate' \in [Msg -> Fates]
    BY <1>1 DEF TypeOK, StoreType, LoopType, HistoryType, DeleteAt, Fates
<1> QED BY <1>1, <1>2, <1>3, <1>4, <1>5 DEF TypeOK, StoreType, LoopType, HistoryType, DeleteAt

LEMMA DeleteType ==
    ASSUME TypeOK,
           \/ DeleteStep
           \/ \E q \in Queue, h \in RequestHandles : DeleteMessage(q, h)
           \/ \E q \in Queue, n \in 1..MaxBatch : \E hs \in [1..n -> RequestHandles] :
                 DeleteMessageBatch(q, hs)
    PROVE  TypeOK'
<1>1. ASSUME NEW q \in Queue, NEW h \in RequestHandles, DeleteMessage(q, h)
      PROVE  TypeOK'
    <2>1. PICK i \in 1..Len(Messages[q]) : DeleteAt(q, i)
        BY <1>1 DEF DeleteMessage
    <2> QED BY <1>1, <2>1, DeleteAtType DEF TypeOK, StoreType, LoopType, HistoryType, DeleteMessage, DeleteAt, lockVars
<1>2. ASSUME NEW q \in Queue, NEW n \in 1..MaxBatch, NEW hs \in [1..n -> RequestHandles],
             DeleteMessageBatch(q, hs)
      PROVE  TypeOK'
    <2>1. RequestHandles \subseteq Handle \cup {NoHandle}
        BY DEF TypeOK, StoreType, LoopType, HistoryType, RequestHandles
    <2>2. hs \in Seq(Handle \cup {NoHandle})
        BY <2>1, EnvironmentAssumption, SeqDef
    <2> QED BY <1>2, <2>2
        DEF TypeOK, StoreType, LoopType, HistoryType, DeleteMessageBatch, Loops, queueVars, messageVars, historyVars
<1>3. ASSUME InDeleteBatch
      PROVE  cur \in Queue /\ Tail(batch) \in Seq(Handle \cup {NoHandle})
    BY <1>3, HeadTailProperties, SMTT(30) DEF TypeOK, StoreType, LoopType, HistoryType, InDeleteBatch
<1>4. CASE DeleteEntry
    <2>1. InDeleteBatch
        BY <1>4 DEF DeleteEntry
    <2>2. PICK i \in 1..Len(Messages[cur]) : DeleteAt(cur, i)
        BY <1>4 DEF DeleteEntry
    <2> QED BY <1>3, <1>4, <2>1, <2>2, DeleteAtType DEF TypeOK, StoreType, LoopType, HistoryType, DeleteEntry, DeleteAt
<1>5. CASE DeleteEntryMissing
    BY <1>3, <1>5 DEF TypeOK, StoreType, LoopType, HistoryType, DeleteEntryMissing, queueVars, messageVars, historyVars
<1>6. CASE DeleteBatchEnd
    BY <1>6 DEF TypeOK, StoreType, LoopType, HistoryType, DeleteBatchEnd, Unlock, Loops, queueVars, messageVars, historyVars
<1> QED BY <1>1, <1>2, <1>4, <1>5, <1>6, SMTT(30) DEF DeleteStep

LEMMA PurgeType ==
    ASSUME TypeOK, NEW q \in Queue, PurgeQueue(q)
    PROVE  TypeOK'
<1>1. Messages' \in [Queue -> Seq(Msg)]
    BY EmptySeq DEF TypeOK, StoreType, LoopType, HistoryType, PurgeQueue
<1>2. Duplicates' \in [Queue -> [DedupId -> Nat \cup {-1}]]
    BY DEF TypeOK, StoreType, LoopType, HistoryType, PurgeQueue
<1>3. /\ ReceiptHandle' \in [Msg -> Handle \cup {NoHandle}]
      /\ VisibilityTimeout' \in [Msg -> Nat]
      /\ lease' \in [Msg -> Nat]
      /\ window' \in [Msg -> Nat]
      /\ fate' \in [Msg -> Fates]
    BY DEF TypeOK, StoreType, LoopType, HistoryType, PurgeQueue, Fates
<1> QED BY <1>1, <1>2, <1>3 DEF TypeOK, StoreType, LoopType, HistoryType, PurgeQueue, fifoVars, lockVars

LEMMA VisibilityType ==
    ASSUME TypeOK, NEW q \in Queue, NEW h \in RequestHandles, NEW timeout \in Visibility,
           ChangeMessageVisibility(q, h, timeout)
    PROVE  TypeOK'
<1>1. PICK i \in 1..Len(Messages[q]) :
         IF timeout = 0 THEN Release(q, i) ELSE Extend(q, i, timeout)
    BY DEF ChangeMessageVisibility
<1>2. Messages[q][i] \in Msg
    BY ElementOfSeq DEF TypeOK, StoreType, LoopType, HistoryType
<1>3. Messages' \in [Queue -> Seq(Msg)]
    <2>1. CASE RedriveDue(q, Retry[Messages[q][i]] + 1) /\ Messages' = Redriven(q, i)
        <3>1. DeadLetterQueue[q] # NoQueue
            BY <2>1 DEF RedriveDue
        <3> QED BY <2>1, <3>1, RedrivenType DEF TypeOK, StoreType
    <2>2. CASE UNCHANGED Messages
        BY <2>2 DEF TypeOK, StoreType
    <2> QED BY <1>1, <2>1, <2>2 DEF Release, Extend
<1>4. (timeout >= 0 => timeout \in Nat) /\ timeout \in Int /\ TimeoutSecs[q] \in Nat
    BY QueueAssumption, RequestAssumption
<1>5. /\ ReceiptHandle' \in [Msg -> Handle \cup {NoHandle}]
      /\ VisibilityTimeout' \in [Msg -> Nat]
      /\ Retry' \in [Msg -> Nat]
      /\ lease' \in [Msg -> Nat]
    <2>1. CASE Release(q, i)
        <3>1. PICK m \in Msg :
                /\ ReceiptHandle' = [ReceiptHandle EXCEPT ![m] = NoHandle]
                /\ VisibilityTimeout' = [VisibilityTimeout EXCEPT ![m] = TimeoutSecs[q]]
                /\ Retry' = [Retry EXCEPT ![m] = Retry[m] + 1]
                /\ lease' = [lease EXCEPT ![m] = 0]
            BY <1>2, <2>1 DEF Release
        <3>2. ReceiptHandle' \in [Msg -> Handle \cup {NoHandle}]
            BY <3>1 DEF TypeOK, StoreType
        <3>3. VisibilityTimeout' \in [Msg -> Nat]
            BY <1>4, <3>1 DEF TypeOK, StoreType
        <3>4. Retry \in [Msg -> Nat] /\ lease \in [Msg -> Nat]
            BY DEF TypeOK, StoreType, HistoryType
        <3>5. Retry' \in [Msg -> Nat]
            BY <3>1, <3>4
        <3>6. lease' \in [Msg -> Nat]
            BY <3>1, <3>4
        <3> QED BY <3>2, <3>3, <3>5, <3>6
    <2>2. CASE Extend(q, i, timeout)
        <3>1. \E left \in Nat :
                /\ VisibilityTimeout' = [VisibilityTimeout EXCEPT ![Messages[q][i]] = left]
                /\ lease' \in {lease, [lease EXCEPT ![Messages[q][i]] = left]}
                /\ UNCHANGED <<ReceiptHandle, Retry>>
            <4>1. (IF timeout < 0 THEN 0 ELSE timeout) \in Nat
                BY <1>4
            <4>2. lease = [lease EXCEPT ![Messages[q][i]] = @]
                BY <1>2 DEF TypeOK, HistoryType
            <4> QED BY <2>2, <4>1, <4>2 DEF Extend
        <3>2. /\ VisibilityTimeout \in [Msg -> Nat] /\ lease \in [Msg -> Nat]
              /\ Retry \in [Msg -> Nat] /\ ReceiptHandle \in [Msg -> Handle \cup {NoHandle}]
            BY DEF TypeOK, StoreType, HistoryType
        <3> QED BY <1>2, <3>1, <3>2, ZenonT(30)
    <2> QED BY <1>1, <2>1, <2>2
<1>6. StoreType'
    BY <1>3, <1>5 DEF TypeOK, StoreType, ChangeMessageVisibility, fifoVars
<1>7. LoopType' /\ HistoryType'
    BY <1>5, UnchangedType DEF TypeOK, HistoryType, ChangeMessageVisibility
<1> QED BY <1>6, <1>7 DEF TypeOK

LEMMA SweepType ==
    ASSUME TypeOK, SweepBegin \/ SweepStep
    PROVE  TypeOK'
<1> USE UnchangedType DEF TypeOK
<1>1. CASE SweepBegin
    <2>1. LoopType'
        BY <1>1 DEF LoopType, SweepBegin, Loops
    <2> QED BY <1>1, <2>1 DEF SweepBegin
<1>2. ASSUME NEW q \in Queue, SweepQueue(q)
      PROVE  TypeOK'
    <2>1. LoopType'
        BY <1>2 DEF LoopType, SweepQueue
    <2> QED BY <1>2, <2>1 DEF SweepQueue
<1>3. ASSUME InSweep
      PROVE  /\ cur \in Queue /\ idx \in 1..Len(Messages[cur]) /\ Scanned \in Msg
             /\ ExpireDuplicates(cur) \in [Queue -> [DedupId -> Nat \cup {-1}]]
             /\ \A k \in {1, 2} :
                    idx' = idx + k /\ UNCHANGED <<lock, cur, want, todo, batch>> => LoopType'
    <2>1. cur \in Queue /\ idx \in 1..Len(Messages[cur])
        BY <1>3 DEF StoreType, LoopType, InSweep
    <2>2. Scanned \in Msg
        BY <2>1, ElementOfSeq DEF StoreType, Scanned
    <2>3. ExpireDuplicates(cur) \in [Queue -> [DedupId -> Nat \cup {-1}]]
        BY <2>1 DEF StoreType, ExpireDuplicates
    <2>4. \A k \in {1, 2} :
              idx' = idx + k /\ UNCHANGED <<lock, cur, want, todo, batch>> => LoopType'
        BY DEF LoopType
    <2> QED BY <2>1, <2>2, <2>3, <2>4
<1>4. CASE SweepKeep
    <2>1. InSweep
        BY <1>4 DEF SweepKeep
    <2>2. StoreType'
        BY <1>3, <1>4, <2>1 DEF StoreType, SweepKeep, fifoVars, messageVars
    <2>3. LoopType' /\ HistoryType'
        BY <1>3, <1>4, <2>1 DEF SweepKeep
    <2> QED BY <2>2, <2>3
<1>5. ASSUME InSweep, MakeVisible(cur, Scanned), Messages' \in [Queue -> Seq(Msg)]
      PROVE  StoreType'
    <2>1. cur \in Queue /\ Scanned \in Msg
        BY <1>3, <1>5
    <2>2. Duplicates' \in [Queue -> [DedupId -> Nat \cup {-1}]]
        BY <1>3, <1>5 DEF MakeVisible
    <2>3. FIFOMessages' \in [Queue -> SUBSET Group]
        BY <1>5, <2>1 DEF StoreType, MakeVisible, UnlockGroup
    <2>4. ReceiptHandle' \in [Msg -> Handle \cup {NoHandle}] /\ Retry' \in [Msg -> Nat]
        BY <1>5, <2>1 DEF StoreType, MakeVisible
    <2> QED BY <1>5, <2>2, <2>3, <2>4 DEF StoreType, MakeVisible
<1>6. CASE SweepExpire
    <2>1. InSweep /\ MakeVisible(cur, Scanned) /\ UNCHANGED Messages /\ idx' = idx + 1
        BY <1>6 DEF SweepExpire
    <2>2. StoreType'
        BY <1>5, <2>1 DEF StoreType
    <2>3. LoopType' /\ HistoryType'
        BY <1>3, <2>1 DEF MakeVisible
    <2> QED BY <2>2, <2>3
<1>7. CASE SweepRedrive
    <2>1. /\ InSweep /\ MakeVisible(cur, Scanned) /\ idx' = idx + 2
          /\ Messages' = Redriven(cur, idx) /\ DeadLetterQueue[cur] # NoQueue
        BY <1>7 DEF SweepRedrive, RedriveDue
    <2>2. Messages' \in [Queue -> Seq(Msg)]
        BY <1>3, <2>1, RedrivenType DEF StoreType
    <2>3. LoopType' /\ HistoryType'
        BY <1>3, <2>1 DEF MakeVisible
    <2> QED BY <1>5, <2>1, <2>2, <2>3
<1>8. CASE SweepQueueEnd
    <2>1. LoopType'
        BY <1>8 DEF LoopType, SweepQueueEnd
    <2> QED BY <1>8, <2>1 DEF SweepQueueEnd
<1>9. CASE SweepEnd
    BY <1>9, UnlockType DEF SweepEnd
<1> QED BY <1>1, <1>2, <1>4, <1>6, <1>7, <1>8, <1>9 DEF SweepStep

LEMMA TickType == TypeOK /\ Tick => TypeOK'
<1> SUFFICES ASSUME TypeOK, Tick
             PROVE  TypeOK'
    OBVIOUS
<1>1. \A n \in Nat : CountDown(n) \in Nat
    BY DEF CountDown
<1>2. \A n \in Nat \cup {-1} : CountDown(n) \in Nat \cup {-1}
    BY DEF CountDown
<1>3. Duplicates' \in [Queue -> [DedupId -> Nat \cup {-1}]]
    BY <1>2 DEF TypeOK, StoreType, Tick
<1>4. VisibilityTimeout' \in [Msg -> Nat]
    BY <1>1 DEF TypeOK, StoreType, Tick
<1>5. ShowAt' \in [Msg -> Int]
    BY DEF TypeOK, StoreType, Tick
<1>6. StoreType'
    BY <1>3, <1>4, <1>5 DEF TypeOK, StoreType, Tick, fifoVars
<1>7. HistoryType'
    BY <1>1 DEF TypeOK, HistoryType, Tick
<1>8. LoopType'
    BY UnchangedType DEF TypeOK, Tick
<1> QED BY <1>6, <1>7, <1>8 DEF TypeOK

LEMMA RequestType == TypeOK /\ Request => TypeOK'
<1> SUFFICES ASSUME TypeOK, NEW q \in Queue,
                    \/ \E m \in Msg : SendMessage(q, m) \/ SendMessageBatchEntry(q, m)
                    \/ \E n \in 1..MaxWanted : ReceiveMessage(q, n)
                    \/ \E h \in RequestHandles : DeleteMessage(q, h)
                    \/ \E n \in 1..MaxBatch : \E hs \in [1..n -> RequestHandles] :
                          DeleteMessageBatch(q, hs)
                    \/ \E h \in RequestHandles, t \in Visibility :
                          ChangeMessageVisibility(q, h, t)
                    \/ PurgeQueue(q)
             PROVE  TypeOK'
    BY DEF Request
<1>1. ASSUME NEW m \in Msg, SendMessage(q, m) \/ SendMessageBatchEntry(q, m)
      PROVE  TypeOK'
    BY <1>1, EnqueueType, QueueAssumption, RequestAssumption
    DEF SendMessage, SendMessageBatchEntry
<1> QED BY <1>1, ReceiveType, DeleteType, VisibilityType, PurgeType

\* Type correctness: in every reachable state of the message store, whatever
\* clients ask for, every variable has its type and a loop its queue.
THEOREM TypeCorrect == Spec => []TypeOK
<1>1. TypeOK /\ [Next]_vars => TypeOK'
    <2> SUFFICES ASSUME TypeOK, [Next]_vars
                 PROVE  TypeOK'
        OBVIOUS
    <2>1. CASE Next
        BY <2>1, RequestType, ReceiveType, DeleteType, SweepType, TickType DEF Next
    <2>2. CASE UNCHANGED vars
        BY <2>2, UnchangedType DEF TypeOK, vars
    <2> QED BY <2>1, <2>2
<1> QED BY InitType, <1>1, PTL DEF Spec

-----------------------------------------------------------------------------
(* No message is lost or copied. *)

\* The steps that leave the queues alone.
LEMMA PlacesKept ==
    NoLossNoDuplication /\ UNCHANGED <<Messages, fate>> => NoLossNoDuplication'
BY DEF NoLossNoDuplication, Once, InQueue

LEMMA EnqueuePlaces ==
    ASSUME TypeOK, NoLossNoDuplication,
           NEW q \in Queue, NEW m \in Msg, NEW delay \in Int, Enqueue(q, m, delay)
    PROVE  NoLossNoDuplication'
<1>1. Messages \in [Queue -> Seq(Msg)] /\ fate \in [Msg -> Fates]
    BY DEF TypeOK, StoreType, HistoryType
<1>2. \A p \in Queue : ~InQueue(Messages, p, m)
    BY DEF NoLossNoDuplication, Enqueue
<1>3. CASE Messages' = Messages /\ fate' = [fate EXCEPT ![m] = "duplicate"]
    BY <1>1, <1>2, <1>3 DEF NoLossNoDuplication, Once, InQueue
<1>4. CASE /\ Messages' = Appended(Messages, q, m)
           /\ fate' = [fate EXCEPT ![m] = "queued"]
    <2>1. /\ Once(Messages')
          /\ \A p \in Queue, x \in Msg :
                InQueue(Messages', p, x) <=> InQueue(Messages, p, x) \/ (p = q /\ x = m)
        BY <1>1, <1>2, <1>4, AppendPlaces DEF NoLossNoDuplication
    <2>2. \A x \in Msg : fate'[x] = IF x = m THEN "queued" ELSE fate[x]
        BY <1>1, <1>4
    <2> QED BY <2>1, <2>2 DEF NoLossNoDuplication
<1> QED BY <1>3, <1>4 DEF Enqueue, Appended

LEMMA DeletePlaces ==
    ASSUME TypeOK, NoLossNoDuplication,
           NEW q \in Queue, NEW i \in 1..Len(Messages[q]), DeleteAt(q, i)
    PROVE  NoLossNoDuplication'
<1> DEFINE x == Messages[q][i]
<1>1. Messages \in [Queue -> Seq(Msg)] /\ fate \in [Msg -> Fates]
    BY DEF TypeOK, StoreType, HistoryType
<1>2. Messages' = Removed(Messages, q, i)
    BY DEF DeleteAt, Without, Removed
<1>3. /\ Once(Messages')
      /\ \A p \in Queue, m \in Msg : InQueue(Messages', p, m) <=> InQueue(Messages, p, m) /\ m # x
    BY <1>1, <1>2, RemovePlaces DEF NoLossNoDuplication
<1>4. fate' = [fate EXCEPT ![x] = "deleted"]
    BY DEF DeleteAt
<1> HIDE DEF x
<1>5. \A m \in Msg : fate'[m] = IF m = x THEN "deleted" ELSE fate[m]
    BY <1>1, <1>4
<1> QED BY <1>3, <1>5 DEF NoLossNoDuplication

LEMMA PurgePlaces ==
    ASSUME TypeOK, NoLossNoDuplication, NEW q \in Queue, PurgeQueue(q)
    PROVE  NoLossNoDuplication'
<1>1. Messages \in [Queue -> Seq(Msg)] /\ fate \in [Msg -> Fates]
    BY DEF TypeOK, StoreType, HistoryType
<1>2. \A m \in Msg : m \in Range(Messages[q]) <=> InQueue(Messages, q, m)
    BY <1>1, LenProperties DEF Range, InQueue
<1>3. \A m \in Msg : fate'[m] = IF InQueue(Messages, q, m) THEN "purged" ELSE fate[m]
    BY <1>2 DEF PurgeQueue
<1>4. \A p \in Queue : Messages'[p] = IF p = q THEN <<>> ELSE Messages[p]
    BY <1>1 DEF PurgeQueue
<1>5. \A p \in Queue : \A i \in 1..Len(Messages'[p]) : p # q /\ Messages'[p] = Messages[p]
    BY <1>4, EmptySeq
<1>6. Once(Messages')
    BY <1>5 DEF NoLossNoDuplication, Once
<1>7. \A p \in Queue, m \in Msg : InQueue(Messages', p, m) <=> InQueue(Messages, p, m) /\ p # q
    BY <1>4, <1>5 DEF InQueue
<1>8. \A m \in Msg : InQueue(Messages, q, m) =>
          \A p \in Queue : InQueue(Messages, p, m) => p = q
    BY DEF NoLossNoDuplication, Once, InQueue
<1> QED BY <1>3, <1>6, <1>7, <1>8 DEF NoLossNoDuplication

LEMMA RedrivePlaces ==
    ASSUME TypeOK, NoLossNoDuplication,
           NEW q \in Queue, NEW i \in 1..Len(Messages[q]), DeadLetterQueue[q] # NoQueue,
           Messages' = Redriven(q, i), UNCHANGED fate
    PROVE  NoLossNoDuplication'
<1> DEFINE x == Messages[q][i]
           dead == DeadLetterQueue[q]
<1>1. Messages \in [Queue -> Seq(Msg)] /\ dead \in Queue
    BY QueueAssumption DEF TypeOK, StoreType
<1>2. /\ Once(Messages')
      /\ \A p \in Queue, m \in Msg : InQueue(Messages', p, m) <=>
            \/ InQueue(Messages, p, m) /\ m # x
            \/ p = dead /\ m = x
    BY <1>1, RedrivenPlaces DEF NoLossNoDuplication
<1>3. x \in Msg /\ InQueue(Messages, q, x)
    BY <1>1, ElementOfSeq DEF InQueue
<1> HIDE DEF x, dead
<1>4. \A m \in Msg : (\E p \in Queue : InQueue(Messages', p, m)) <=>
                     (\E p \in Queue : InQueue(Messages, p, m))
    BY <1>1, <1>2, <1>3
<1> QED BY <1>2, <1>4 DEF NoLossNoDuplication

LEMMA PlacesStep == TypeOK /\ NoLossNoDuplication /\ [Next]_vars => NoLossNoDuplication'
<1> SUFFICES ASSUME TypeOK, NoLossNoDuplication, [Next]_vars
             PROVE  NoLossNoDuplication'
    OBVIOUS
<1> USE PlacesKept
<1>1. CASE Request
    <2> SUFFICES ASSUME NEW q \in Queue,
                        \/ \E m \in Msg : SendMessage(q, m) \/ SendMessageBatchEntry(q, m)
                        \/ \E n \in 1..MaxWanted : ReceiveMessage(q, n)
                        \/ \E h \in RequestHandles : DeleteMessage(q, h)
                        \/ \E n \in 1..MaxBatch : \E hs \in [1..n -> RequestHandles] :
                              DeleteMessageBatch(q, hs)
                        \/ \E h \in RequestHandles, t \in Visibility :
                              ChangeMessageVisibility(q, h, t)
                        \/ PurgeQueue(q)
                 PROVE  NoLossNoDuplication'
        BY <1>1 DEF Request
    <2>1. ASSUME NEW m \in Msg, SendMessage(q, m) \/ SendMessageBatchEntry(q, m)
          PROVE  NoLossNoDuplication'
        BY <2>1, EnqueuePlaces, QueueAssumption, RequestAssumption
        DEF SendMessage, SendMessageBatchEntry
    <2>2. ASSUME NEW n \in 1..MaxWanted, ReceiveMessage(q, n)
          PROVE  NoLossNoDuplication'
        BY <2>2 DEF ReceiveMessage, queueVars, historyVars
    <2>3. ASSUME NEW h \in RequestHandles, DeleteMessage(q, h)
          PROVE  NoLossNoDuplication'
        BY <2>3, DeletePlaces DEF DeleteMessage
    <2>4. ASSUME NEW n \in 1..MaxBatch, NEW hs \in [1..n -> RequestHandles],
                 DeleteMessageBatch(q, hs)
          PROVE  NoLossNoDuplication'
        BY <2>4 DEF DeleteMessageBatch, queueVars, historyVars
    <2>5. ASSUME NEW h \in RequestHandles, NEW t \in Visibility,
                 ChangeMessageVisibility(q, h, t)
          PROVE  NoLossNoDuplication'
        <3>1. PICK i \in 1..Len(Messages[q]) :
                 IF t = 0 THEN Release(q, i) ELSE Extend(q, i, t)
            BY <2>5 DEF ChangeMessageVisibility
        <3>2. UNCHANGED fate
            BY <2>5 DEF ChangeMessageVisibility
        <3>3. CASE RedriveDue(q, Retry[Messages[q][i]] + 1) /\ Messages' = Redriven(q, i)
            BY <3>2, <3>3, RedrivePlaces DEF RedriveDue
        <3>4. CASE UNCHANGED Messages
            BY <3>2, <3>4
        <3> QED BY <3>1, <3>3, <3>4 DEF Release, Extend
    <2> QED BY <2>1, <2>2, <2>3, <2>4, <2>5, PurgePlaces
<1>2. CASE ReceiveStep
    BY <1>2 DEF ReceiveStep, ReceiveSkip, ReceiveNotReady, ReceiveHide, ReceiveReturn,
                ReceiveEnd, Mark, queueVars, historyVars
<1>3. CASE DeleteStep
    <2>1. CASE DeleteEntry
        <3>1. cur \in Queue
            BY <2>1 DEF TypeOK, LoopType, DeleteEntry, InDeleteBatch
        <3> QED BY <2>1, <3>1, DeletePlaces DEF DeleteEntry
    <2>2. CASE DeleteEntryMissing \/ DeleteBatchEnd
        BY <2>2 DEF DeleteEntryMissing, DeleteBatchEnd, queueVars, historyVars
    <2> QED BY <1>3, <2>1, <2>2 DEF DeleteStep
<1>4. CASE SweepBegin \/ SweepStep
    <2>1. CASE SweepRedrive
        <3>1. cur \in Queue /\ idx \in 1..Len(Messages[cur])
            BY <2>1 DEF TypeOK, LoopType, StoreType, SweepRedrive, InSweep
        <3>2. Messages' = Redriven(cur, idx) /\ DeadLetterQueue[cur] # NoQueue /\ UNCHANGED fate
            BY <2>1 DEF SweepRedrive, RedriveDue, MakeVisible, historyVars
        <3> QED BY <3>1, <3>2, RedrivePlaces
    <2>2. CASE SweepBegin \/ SweepKeep \/ SweepExpire \/ SweepQueueEnd \/ SweepEnd
        BY <2>2 DEF SweepBegin, SweepKeep, SweepExpire, SweepQueueEnd, SweepEnd, MakeVisible,
                    queueVars, historyVars
    <2>3. ASSUME NEW q \in Queue, SweepQueue(q)
          PROVE  NoLossNoDuplication'
        BY <2>3 DEF SweepQueue, queueVars, historyVars
    <2> QED BY <1>4, <2>1, <2>2, <2>3 DEF SweepStep
<1>5. CASE Tick
    BY <1>5 DEF Tick
<1>6. CASE UNCHANGED vars
    BY <1>6 DEF vars, queueVars, historyVars
<1> QED BY <1>1, <1>2, <1>3, <1>4, <1>5, <1>6 DEF Next

\* No loss and no duplication: whatever the interleaving of sends, receives,
\* deletes, purges and sweeps, and whatever the redrive policies (chains and
\* cycles of dead-letter queues included), an accepted message is in exactly
\* one place until it is deleted or purged.
THEOREM PlacedCorrect == Spec => []NoLossNoDuplication
<1>1. Init => NoLossNoDuplication
    BY EmptySeq DEF Init, NoLossNoDuplication, Once, InQueue
<1> QED BY <1>1, PlacesStep, TypeCorrect, PTL DEF Spec

-----------------------------------------------------------------------------
(* No message is returned too often. *)

LEMMA DeliveryKept ==
    /\ DeliveryInv
    /\ UNCHANGED <<Messages, fate, Retry, delivered, ReceiptHandle>>
    => DeliveryInv'
BY DEF DeliveryInv, InQueue

LEMMA EnqueueDelivery ==
    ASSUME TypeOK, NoLossNoDuplication, DeliveryInv,
           NEW q \in Queue, NEW x \in Msg, NEW delay \in Int, Enqueue(q, x, delay)
    PROVE  DeliveryInv'
<1>1. /\ Messages \in [Queue -> Seq(Msg)] /\ fate \in [Msg -> Fates]
      /\ fate[x] = "unsent" /\ UNCHANGED <<Retry, delivered, ReceiptHandle>>
    BY DEF TypeOK, StoreType, HistoryType, Enqueue
<1>2. \A m \in Msg : m # x => fate'[m] = fate[m]
    BY <1>1 DEF Enqueue
<1>3. \A p \in Queue, m \in Msg : InQueue(Messages', p, m) => InQueue(Messages, p, m) \/ m = x
    <2>1. CASE Messages' = Messages
        BY <2>1 DEF InQueue
    <2>2. CASE Messages' = Appended(Messages, q, x)
        <3>1. \A p \in Queue : ~InQueue(Messages, p, x)
            BY <1>1 DEF NoLossNoDuplication
        <3>2. Messages \in [Queue -> Seq(Msg)] /\ Once(Messages)
            BY <1>1 DEF NoLossNoDuplication
        <3>3. \A p \in Queue, m \in Msg : InQueue(Appended(Messages, q, x), p, m)
                 <=> InQueue(Messages, p, m) \/ (p = q /\ m = x)
            BY <3>1, <3>2, AppendPlaces
        <3> QED BY <2>2, <3>3
    <2> QED BY <2>1, <2>2 DEF Enqueue, Appended
<1>4. Retry[x] = 0 /\ delivered[x] = 0 /\ ReceiptHandle[x] = NoHandle
    BY <1>1 DEF DeliveryInv
<1>5. fate'[x] # "unsent"
    BY <1>1 DEF Enqueue
<1>6. ASSUME NEW m \in Msg
      PROVE  /\ fate'[m] = "unsent" =>
                   Retry'[m] = 0 /\ delivered'[m] = 0 /\ ReceiptHandle'[m] = NoHandle
             /\ fate'[m] = "queued" =>
                   delivered'[m] <= Retry'[m] + (IF ReceiptHandle'[m] = NoHandle THEN 0 ELSE 1)
    BY <1>1, <1>2, <1>4, <1>5 DEF DeliveryInv
<1>7. ASSUME NEW p \in Queue, Primary(p), HasPolicy(p), NEW m \in Msg, InQueue(Messages', p, m)
      PROVE  Retry'[m] <= MaxReceiveCount[p]
    BY <1>1, <1>3, <1>4, <1>7, QueueAssumption DEF DeliveryInv
<1> QED BY <1>6, <1>7 DEF DeliveryInv

\* Deleting and purging only take messages out.
LEMMA RemovalDelivery ==
    ASSUME TypeOK, NoLossNoDuplication, DeliveryInv,
           \/ \E q \in Queue : \E i \in 1..Len(Messages[q]) : DeleteAt(q, i)
           \/ \E q \in Queue : PurgeQueue(q)
    PROVE  DeliveryInv'
<1>1. UNCHANGED <<Retry, delivered>>
    BY DEF DeleteAt, PurgeQueue
<1>2. /\ \A p \in Queue, m \in Msg : InQueue(Messages', p, m) => InQueue(Messages, p, m)
      /\ \A m \in Msg : fate'[m] \in {"unsent", "queued"} =>
              fate'[m] = fate[m] /\ ReceiptHandle'[m] = ReceiptHandle[m]
    <2>1. ASSUME NEW q \in Queue, NEW i \in 1..Len(Messages[q]), DeleteAt(q, i)
          PROVE  <1>2!1 /\ <1>2!2
        <3>1. Messages' = Removed(Messages, q, i)
            BY <2>1 DEF DeleteAt, Without, Removed
        <3>2. Messages \in [Queue -> Seq(Msg)] /\ Once(Messages)
            BY DEF TypeOK, StoreType, NoLossNoDuplication
        <3>3. \A p \in Queue, m \in Msg :
                 InQueue(Messages', p, m) <=> InQueue(Messages, p, m) /\ m # Messages[q][i]
            BY <3>1, <3>2, RemovePlaces
        <3>4. <1>2!2
            BY <2>1 DEF DeleteAt, TypeOK, StoreType, HistoryType
        <3> QED BY <3>3, <3>4
    <2>2. ASSUME NEW q \in Queue, PurgeQueue(q)
          PROVE  <1>2!1 /\ <1>2!2
        <3>1. \A p \in Queue : Messages'[p] = IF p = q THEN <<>> ELSE Messages[p]
            BY <2>2 DEF PurgeQueue, TypeOK, StoreType
        <3>2. \A p \in Queue : \A i \in 1..Len(Messages'[p]) : Messages'[p] = Messages[p]
            BY <3>1, EmptySeq
        <3>3. \A p \in Queue, m \in Msg : InQueue(Messages', p, m) => InQueue(Messages, p, m)
            BY <3>2 DEF InQueue
        <3>4. <1>2!2
            BY <2>2 DEF PurgeQueue
        <3> QED BY <3>3, <3>4
    <2> QED BY <2>1, <2>2
<1> QED BY <1>1, <1>2 DEF DeliveryInv

\* A message that becomes visible again counts a retry, and is redriven when
\* its retries exceed the policy: the sweep and ChangeMessageVisibility alike.
LEMMA RetryDelivery ==
    ASSUME TypeOK, NoLossNoDuplication, DeliveryInv,
           NEW q \in Queue, NEW i \in 1..Len(Messages[q]),
           ReceiptHandle' = [ReceiptHandle EXCEPT ![Messages[q][i]] = NoHandle],
           Retry' = [Retry EXCEPT ![Messages[q][i]] = @ + 1],
           Messages' = IF RedriveDue(q, Retry[Messages[q][i]] + 1) THEN Redriven(q, i)
                       ELSE Messages,
           UNCHANGED <<fate, delivered>>
    PROVE  DeliveryInv'
<1> DEFINE x == Messages[q][i]
<1>1. /\ Messages \in [Queue -> Seq(Msg)] /\ Retry \in [Msg -> Nat] /\ delivered \in [Msg -> Nat]
      /\ ReceiptHandle \in [Msg -> Handle \cup {NoHandle}]
    BY DEF TypeOK, StoreType, HistoryType
<1>2. x \in Msg /\ InQueue(Messages, q, x)
    BY <1>1, ElementOfSeq DEF InQueue
<1>3. fate[x] = "queued"
    BY <1>2 DEF NoLossNoDuplication
<1>4. \A p \in Queue : InQueue(Messages, p, x) => p = q
    BY <1>2 DEF NoLossNoDuplication, Once, InQueue
<1>5. \A m \in Msg : /\ Retry'[m] = IF m = x THEN Retry[m] + 1 ELSE Retry[m]
                     /\ ReceiptHandle'[m] = IF m = x THEN NoHandle ELSE ReceiptHandle[m]
    BY <1>1, <1>2
<1>6. \/ /\ RedriveDue(q, Retry[x] + 1)
         /\ \A p \in Queue, m \in Msg : InQueue(Messages', p, m) <=>
               \/ InQueue(Messages, p, m) /\ m # x
               \/ p = DeadLetterQueue[q] /\ m = x
      \/ ~RedriveDue(q, Retry[x] + 1) /\ UNCHANGED Messages
    BY <1>1, RedrivenPlaces, SMTT(30) DEF NoLossNoDuplication, RedriveDue
<1> HIDE DEF x
<1>7. ASSUME NEW m \in Msg
      PROVE  /\ fate'[m] = "unsent" =>
                   Retry'[m] = 0 /\ delivered'[m] = 0 /\ ReceiptHandle'[m] = NoHandle
             /\ fate'[m] = "queued" =>
                   delivered'[m] <= Retry'[m] + (IF ReceiptHandle'[m] = NoHandle THEN 0 ELSE 1)
    <2>1. CASE m = x
        <3>1. delivered[x] <= Retry[x] + 1
            BY <1>1, <1>2, <1>3, SMTT(30) DEF DeliveryInv
        <3> QED BY <1>1, <1>2, <1>3, <1>5, <2>1, <3>1
    <2>2. CASE m # x
        BY <1>5, <2>2 DEF DeliveryInv
    <2> QED BY <2>1, <2>2
<1>8. ASSUME NEW p \in Queue, Primary(p), HasPolicy(p), NEW m \in Msg, InQueue(Messages', p, m)
      PROVE  Retry'[m] <= MaxReceiveCount[p]
    <2>1. CASE m # x
        <3>1. InQueue(Messages, p, m)
            BY <1>6, <1>8, <2>1 DEF InQueue
        <3> QED BY <1>5, <1>8, <2>1, <3>1 DEF DeliveryInv
    <2>2. CASE m = x
        <3>1. ~RedriveDue(q, Retry[x] + 1) /\ UNCHANGED Messages
            BY <1>2, <1>6, <1>8, <2>2 DEF Primary
        <3>2. p = q
            BY <1>4, <1>8, <2>2, <3>1
        <3>3. Retry[x] + 1 <= MaxReceiveCount[q]
            BY <1>1, <1>2, <1>8, <3>1, <3>2, QueueAssumption DEF RedriveDue, HasPolicy
        <3> QED BY <1>5, <2>2, <3>2, <3>3
    <2> QED BY <2>1, <2>2
<1> QED BY <1>7, <1>8 DEF DeliveryInv

\* A visible message is marked, and perhaps returned.
LEMMA MarkDelivery ==
    ASSUME TypeOK, NoLossNoDuplication, DeliveryInv,
           NEW q \in Queue, NEW x \in Msg, InQueue(Messages, q, x), Mark(q, x),
           delivered' \in {delivered, [delivered EXCEPT ![x] = @ + 1]}
    PROVE  DeliveryInv'
<1>1. /\ Retry \in [Msg -> Nat] /\ delivered \in [Msg -> Nat] /\ minted \in [Msg -> Nat]
      /\ ReceiptHandle \in [Msg -> Handle \cup {NoHandle}]
    BY DEF TypeOK, StoreType, HistoryType
<1>2. fate[x] = "queued"
    BY DEF NoLossNoDuplication
<1>3. /\ UNCHANGED <<Messages, fate, Retry>>
      /\ ReceiptHandle[x] = NoHandle
      /\ \A m \in Msg : m # x => ReceiptHandle'[m] = ReceiptHandle[m]
      /\ \A m \in Msg : m # x => delivered'[m] = delivered[m]
      /\ delivered'[x] <= delivered[x] + 1
    BY <1>1 DEF Mark
<1>4. ReceiptHandle'[x] # NoHandle
    <2>1. <<x, minted[x] + 1>> \in Msg \X Nat
        BY <1>1
    <2> QED BY <1>1, <2>1, NullAssumption DEF Mark
<1>5. delivered'[x] <= Retry'[x] + 1
    <2>1. delivered[x] <= Retry[x] + 0
        BY <1>2, <1>3 DEF DeliveryInv
    <2>2. delivered'[x] \in Nat
        BY <1>1
    <2> QED BY <1>1, <1>3, <2>1, <2>2
<1>6. ASSUME NEW m \in Msg
      PROVE  /\ fate'[m] = "unsent" =>
                   Retry'[m] = 0 /\ delivered'[m] = 0 /\ ReceiptHandle'[m] = NoHandle
             /\ fate'[m] = "queued" =>
                   delivered'[m] <= Retry'[m] + (IF ReceiptHandle'[m] = NoHandle THEN 0 ELSE 1)
    BY <1>2, <1>3, <1>4, <1>5 DEF DeliveryInv
<1>7. \A p \in Queue, m \in Msg : InQueue(Messages', p, m) <=> InQueue(Messages, p, m)
    BY <1>3 DEF InQueue
<1> QED BY <1>3, <1>6, <1>7 DEF DeliveryInv

LEMMA DeliveryStep ==
    TypeOK /\ NoLossNoDuplication /\ DeliveryInv /\ [Next]_vars => DeliveryInv'
<1> SUFFICES ASSUME TypeOK, NoLossNoDuplication, DeliveryInv, [Next]_vars
             PROVE  DeliveryInv'
    OBVIOUS
<1> USE DeliveryKept
<1>1. CASE Request
    <2> SUFFICES ASSUME NEW q \in Queue,
                        \/ \E m \in Msg : SendMessage(q, m) \/ SendMessageBatchEntry(q, m)
                        \/ \E n \in 1..MaxWanted : ReceiveMessage(q, n)
                        \/ \E h \in RequestHandles : DeleteMessage(q, h)
                        \/ \E n \in 1..MaxBatch : \E hs \in [1..n -> RequestHandles] :
                              DeleteMessageBatch(q, hs)
                        \/ \E h \in RequestHandles, t \in Visibility :
                              ChangeMessageVisibility(q, h, t)
                        \/ PurgeQueue(q)
                 PROVE  DeliveryInv'
        BY <1>1 DEF Request
    <2>1. ASSUME NEW m \in Msg, SendMessage(q, m) \/ SendMessageBatchEntry(q, m)
          PROVE  DeliveryInv'
        BY <2>1, EnqueueDelivery, QueueAssumption, RequestAssumption
        DEF SendMessage, SendMessageBatchEntry
    <2>2. ASSUME NEW n \in 1..MaxWanted, ReceiveMessage(q, n)
          PROVE  DeliveryInv'
        BY <2>2 DEF ReceiveMessage, queueVars, messageVars, historyVars
    <2>3. ASSUME NEW h \in RequestHandles, DeleteMessage(q, h)
          PROVE  DeliveryInv'
        BY <2>3, RemovalDelivery DEF DeleteMessage
    <2>4. ASSUME NEW n \in 1..MaxBatch, NEW hs \in [1..n -> RequestHandles],
                 DeleteMessageBatch(q, hs)
          PROVE  DeliveryInv'
        BY <2>4 DEF DeleteMessageBatch, queueVars, messageVars, historyVars
    <2>5. ASSUME NEW h \in RequestHandles, NEW t \in Visibility,
                 ChangeMessageVisibility(q, h, t)
          PROVE  DeliveryInv'
        <3>1. PICK i \in 1..Len(Messages[q]) :
                 IF t = 0 THEN Release(q, i) ELSE Extend(q, i, t)
            BY <2>5 DEF ChangeMessageVisibility
        <3>2. UNCHANGED <<fate, delivered>>
            BY <2>5 DEF ChangeMessageVisibility
        <3>3. CASE Release(q, i)
            BY <3>2, <3>3, RetryDelivery DEF Release
        <3>4. CASE Extend(q, i, t)
            BY <3>2, <3>4 DEF Extend
        <3> QED BY <3>1, <3>3, <3>4
    <2> QED BY <2>1, <2>2, <2>3, <2>4, <2>5, RemovalDelivery
<1>2. CASE ReceiveStep
    <2>1. CASE ReceiveHide \/ ReceiveReturn
        <3>1. cur \in Queue /\ idx \in 1..Len(Messages[cur]) /\ Messages[cur] \in Seq(Msg)
            BY <2>1 DEF TypeOK, LoopType, StoreType, ReceiveHide, ReceiveReturn, InReceive
        <3>2. Scanned \in Msg /\ InQueue(Messages, cur, Scanned)
            BY <3>1, ElementOfSeq DEF InQueue, Scanned
        <3>3. /\ Mark(cur, Scanned)
              /\ delivered' \in {delivered, [delivered EXCEPT ![Scanned] = @ + 1]}
            BY <2>1 DEF ReceiveHide, ReceiveReturn
        <3> QED BY <3>1, <3>2, <3>3, MarkDelivery
    <2>2. CASE ReceiveSkip \/ ReceiveNotReady \/ ReceiveEnd
        BY <2>2 DEF ReceiveSkip, ReceiveNotReady, ReceiveEnd, queueVars, messageVars, historyVars
    <2> QED BY <1>2, <2>1, <2>2 DEF ReceiveStep
<1>3. CASE DeleteStep
    <2>1. CASE DeleteEntry
        <3>1. cur \in Queue
            BY <2>1 DEF TypeOK, LoopType, DeleteEntry, InDeleteBatch
        <3> QED BY <2>1, <3>1, RemovalDelivery DEF DeleteEntry
    <2>2. CASE DeleteEntryMissing \/ DeleteBatchEnd
        BY <2>2 DEF DeleteEntryMissing, DeleteBatchEnd, queueVars, messageVars, historyVars
    <2> QED BY <1>3, <2>1, <2>2 DEF DeleteStep
<1>4. CASE SweepBegin \/ SweepStep
    <2>1. CASE SweepExpire \/ SweepRedrive
        <3>1. cur \in Queue /\ idx \in 1..Len(Messages[cur])
            BY <2>1 DEF TypeOK, LoopType, StoreType, SweepExpire, SweepRedrive, InSweep
        <3>2. /\ MakeVisible(cur, Messages[cur][idx])
              /\ Messages' = IF RedriveDue(cur, Retry[Messages[cur][idx]] + 1)
                             THEN Redriven(cur, idx) ELSE Messages
            BY <2>1 DEF SweepExpire, SweepRedrive, Scanned
        <3> QED BY <3>1, <3>2, RetryDelivery DEF MakeVisible, historyVars
    <2>2. CASE SweepBegin \/ SweepKeep \/ SweepQueueEnd \/ SweepEnd
        BY <2>2 DEF SweepBegin, SweepKeep, SweepQueueEnd, SweepEnd,
                    queueVars, messageVars, historyVars
    <2>3. ASSUME NEW q \in Queue, SweepQueue(q)
          PROVE  DeliveryInv'
        BY <2>3 DEF SweepQueue, queueVars, messageVars, historyVars
    <2> QED BY <1>4, <2>1, <2>2, <2>3 DEF SweepStep
<1>5. CASE Tick
    BY <1>5 DEF Tick
<1>6. CASE UNCHANGED vars
    BY <1>6 DEF vars, queueVars, messageVars, historyVars
<1> QED BY <1>1, <1>2, <1>3, <1>4, <1>5, <1>6 DEF Next

LEMMA DeliveryInit == Init => DeliveryInv
BY EmptySeq DEF Init, DeliveryInv, InQueue

LEMMA DeliveryImplied == TypeOK /\ NoLossNoDuplication /\ DeliveryInv => DeliveryBound
<1> SUFFICES ASSUME TypeOK, NoLossNoDuplication, DeliveryInv,
                    NEW q \in Queue, Primary(q), HasPolicy(q),
                    NEW m \in Msg, InQueue(Messages, q, m)
             PROVE  delivered[m] <= MaxReceiveCount[q] + 1
    BY DEF DeliveryBound
<1>1. delivered[m] \in Nat /\ Retry[m] \in Nat /\ MaxReceiveCount[q] \in Nat
    BY QueueAssumption DEF TypeOK, StoreType, HistoryType
<1>2. fate[m] = "queued"
    BY DEF NoLossNoDuplication
<1>3. delivered[m] <= Retry[m] + (IF ReceiptHandle[m] = NoHandle THEN 0 ELSE 1)
    BY <1>2 DEF DeliveryInv
<1>4. Retry[m] <= MaxReceiveCount[q]
    BY DEF DeliveryInv
<1> QED BY <1>1, <1>3, <1>4

\* Retries: every return but the current one has been followed by a retry, and
\* no message stays in a queue whose maxReceiveCount its retries exceed.
THEOREM DeliveryInvCorrect == Spec => []DeliveryInv
BY DeliveryInit, DeliveryStep, TypeCorrect, PlacedCorrect, PTL DEF Spec

\* Bounded delivery: for every redrive policy and every interleaving, a message
\* of a queue with a dead-letter queue is returned at most maxReceiveCount + 1
\* times from that queue.
THEOREM DeliveryBoundCorrect == Spec => []DeliveryBound
BY DeliveryInvCorrect, DeliveryImplied, TypeCorrect, PlacedCorrect, PTL

-----------------------------------------------------------------------------
(* Consumers do not meet. *)

LEMMA LeaseKept ==
    LeaseInv /\ UNCHANGED <<ReceiptHandle, VisibilityTimeout, lease>> => LeaseInv'
BY DEF LeaseInv

\* The steps that end what was promised, for some messages, and leave the
\* other messages alone.
LEMMA LeaseCleared ==
    ASSUME TypeOK, LeaseInv, NEW S \in SUBSET Msg, VisibilityTimeout' \in [Msg -> Nat],
           \A m \in S : lease'[m] = 0,
           \A m \in Msg \ S : /\ ReceiptHandle'[m] = ReceiptHandle[m]
                              /\ VisibilityTimeout'[m] = VisibilityTimeout[m]
                              /\ lease'[m] = lease[m]
    PROVE  LeaseInv'
BY DEF LeaseInv, TypeOK, StoreType, HistoryType

LEMMA DeleteLease ==
    ASSUME TypeOK, LeaseInv, NEW q \in Queue, NEW i \in 1..Len(Messages[q]), DeleteAt(q, i)
    PROVE  LeaseInv'
<1> DEFINE x == Messages[q][i]
<1>1. /\ VisibilityTimeout \in [Msg -> Nat] /\ lease \in [Msg -> Nat]
      /\ ReceiptHandle \in [Msg -> Handle \cup {NoHandle}]
    BY DEF TypeOK, StoreType, HistoryType
<1>2. x \in Msg
    BY ElementOfSeq DEF TypeOK, StoreType
<1>3. /\ ReceiptHandle' = [ReceiptHandle EXCEPT ![x] = NoHandle]
      /\ VisibilityTimeout' = [VisibilityTimeout EXCEPT ![x] = 0]
      /\ lease' = [lease EXCEPT ![x] = 0]
    BY DEF DeleteAt
<1> HIDE DEF x
<1>4. VisibilityTimeout' \in [Msg -> Nat]
    BY <1>1, <1>3
<1>5. {x} \in SUBSET Msg /\ \A m \in {x} : lease'[m] = 0
    BY <1>1, <1>2, <1>3
<1>6. \A m \in Msg \ {x} : /\ ReceiptHandle'[m] = ReceiptHandle[m]
                           /\ VisibilityTimeout'[m] = VisibilityTimeout[m]
                           /\ lease'[m] = lease[m]
    BY <1>1, <1>3
<1> QED BY <1>4, <1>5, <1>6, LeaseCleared

LEMMA PurgeLease ==
    ASSUME TypeOK, LeaseInv, NEW q \in Queue, PurgeQueue(q)
    PROVE  LeaseInv'
<1> DEFINE gone == Range(Messages[q]) \cap Msg
<1>1. \A m \in gone : lease'[m] = 0
    BY DEF PurgeQueue
<1>2. \A m \in Msg \ gone : /\ ReceiptHandle'[m] = ReceiptHandle[m]
                            /\ VisibilityTimeout'[m] = VisibilityTimeout[m]
                            /\ lease'[m] = lease[m]
    BY DEF PurgeQueue
<1>3. VisibilityTimeout' \in [Msg -> Nat]
    BY DEF PurgeQueue, TypeOK, StoreType
<1> QED BY <1>1, <1>2, <1>3, LeaseCleared

LEMMA VisibilityLease ==
    ASSUME TypeOK, LeaseInv, NEW q \in Queue, NEW i \in 1..Len(Messages[q]),
           NEW t \in Visibility, Release(q, i) \/ Extend(q, i, t)
    PROVE  LeaseInv'
<1> DEFINE x == Messages[q][i]
<1>1. /\ VisibilityTimeout \in [Msg -> Nat] /\ lease \in [Msg -> Nat]
      /\ ReceiptHandle \in [Msg -> Handle \cup {NoHandle}]
    BY DEF TypeOK, StoreType, HistoryType
<1>2. x \in Msg /\ t \in Int /\ TimeoutSecs[q] \in Nat
    BY ElementOfSeq, QueueAssumption, RequestAssumption DEF TypeOK, StoreType
<1>3. CASE /\ ReceiptHandle' = [ReceiptHandle EXCEPT ![x] = NoHandle]
           /\ VisibilityTimeout' = [VisibilityTimeout EXCEPT ![x] = TimeoutSecs[q]]
           /\ lease' = [lease EXCEPT ![x] = 0]
    <2> HIDE DEF x
    <2>1. /\ VisibilityTimeout' \in [Msg -> Nat]
          /\ {x} \in SUBSET Msg /\ \A m \in {x} : lease'[m] = 0
        BY <1>1, <1>2, <1>3
    <2>2. \A m \in Msg \ {x} : /\ ReceiptHandle'[m] = ReceiptHandle[m]
                               /\ VisibilityTimeout'[m] = VisibilityTimeout[m]
                               /\ lease'[m] = lease[m]
        BY <1>1, <1>3
    <2> QED BY <2>1, <2>2, LeaseCleared
<1>4. ASSUME NEW k \in Nat, ReceiptHandle' = ReceiptHandle,
             VisibilityTimeout' = [VisibilityTimeout EXCEPT ![x] = k],
             lease' = [lease EXCEPT ![x] = IF ReceiptHandle[x] = NoHandle THEN @ ELSE k]
      PROVE  LeaseInv'
    <2> HIDE DEF x
    <2>1. /\ VisibilityTimeout'[x] = k
          /\ lease'[x] = IF ReceiptHandle[x] = NoHandle THEN lease[x] ELSE k
        BY <1>1, <1>2, <1>4
    <2>2. \A m \in Msg : m # x => /\ VisibilityTimeout'[m] = VisibilityTimeout[m]
                                  /\ lease'[m] = lease[m]
        BY <1>1, <1>4
    <2> QED BY <1>2, <1>4, <2>1, <2>2 DEF LeaseInv
<1>5. (IF t < 0 THEN 0 ELSE t) \in Nat
    BY <1>2
<1>6. Extend(q, i, t) => LeaseInv'
    BY <1>4, <1>5 DEF Extend
<1> QED BY <1>3, <1>6 DEF Release

LEMMA MarkLease ==
    ASSUME TypeOK, LeaseInv, NEW q \in Queue, NEW x \in Msg, Mark(q, x),
           lease' \in {lease, [lease EXCEPT ![x] = TimeoutSecs[q]]}
    PROVE  LeaseInv'
<1>1. /\ VisibilityTimeout \in [Msg -> Nat] /\ lease \in [Msg -> Nat]
      /\ ReceiptHandle \in [Msg -> Handle \cup {NoHandle}]
      /\ minted[x] + 1 \in Nat /\ TimeoutSecs[q] \in Nat
    BY QueueAssumption DEF TypeOK, StoreType, HistoryType
<1>2. lease[x] = 0
    BY DEF Mark, LeaseInv
<1>3. ReceiptHandle'[x] # NoHandle
    <2>1. <<x, minted[x] + 1>> \in Msg \X Nat
        BY <1>1
    <2> QED BY <1>1, <2>1, NullAssumption DEF Mark
<1>4. VisibilityTimeout'[x] = TimeoutSecs[q] /\ lease'[x] \in {0, TimeoutSecs[q]}
    BY <1>1, <1>2 DEF Mark
<1>5. \A m \in Msg : m # x => /\ ReceiptHandle'[m] = ReceiptHandle[m]
                              /\ VisibilityTimeout'[m] = VisibilityTimeout[m]
                              /\ lease'[m] = lease[m]
    BY <1>1 DEF Mark
<1> QED BY <1>1, <1>3, <1>4, <1>5 DEF LeaseInv

\* The sweep makes a message visible once its timeout is over, and what was
\* promised with it.
LEMMA ExpireLease ==
    ASSUME TypeOK, LeaseInv, NEW q \in Queue, NEW x \in Msg, Expired(x), MakeVisible(q, x)
    PROVE  LeaseInv'
<1>1. /\ VisibilityTimeout \in [Msg -> Nat] /\ lease \in [Msg -> Nat]
      /\ ReceiptHandle \in [Msg -> Handle \cup {NoHandle}]
    BY DEF TypeOK, StoreType, HistoryType
<1>2. lease[x] = 0
    BY <1>1 DEF LeaseInv, Expired
<1>3. UNCHANGED <<VisibilityTimeout, lease>>
    BY DEF MakeVisible, historyVars
<1>4. \A m \in Msg : m # x => ReceiptHandle'[m] = ReceiptHandle[m]
    BY <1>1 DEF MakeVisible
<1> QED BY <1>2, <1>3, <1>4 DEF LeaseInv

LEMMA TickLease == TypeOK /\ LeaseInv /\ Tick => LeaseInv'
<1> SUFFICES ASSUME TypeOK, LeaseInv, Tick, NEW m \in Msg
             PROVE  /\ ReceiptHandle'[m] = NoHandle => lease'[m] = 0
                    /\ lease'[m] <= VisibilityTimeout'[m]
    BY DEF LeaseInv
<1>1. lease[m] \in Nat /\ VisibilityTimeout[m] \in Nat
    BY DEF TypeOK, StoreType, HistoryType
<1>2. /\ lease'[m] = CountDown(lease[m])
      /\ VisibilityTimeout'[m] = CountDown(VisibilityTimeout[m])
      /\ ReceiptHandle' = ReceiptHandle
    BY DEF Tick
<1> QED BY <1>1, <1>2 DEF LeaseInv, CountDown

LEMMA LeaseStep == TypeOK /\ LeaseInv /\ [Next]_vars => LeaseInv'
<1> SUFFICES ASSUME TypeOK, LeaseInv, [Next]_vars
             PROVE  LeaseInv'
    OBVIOUS
<1> USE LeaseKept
<1>1. CASE Request
    <2> SUFFICES ASSUME NEW q \in Queue,
                        \/ \E m \in Msg : SendMessage(q, m) \/ SendMessageBatchEntry(q, m)
                        \/ \E n \in 1..MaxWanted : ReceiveMessage(q, n)
                        \/ \E h \in RequestHandles : DeleteMessage(q, h)
                        \/ \E n \in 1..MaxBatch : \E hs \in [1..n -> RequestHandles] :
                              DeleteMessageBatch(q, hs)
                        \/ \E h \in RequestHandles, t \in Visibility :
                              ChangeMessageVisibility(q, h, t)
                        \/ PurgeQueue(q)
                 PROVE  LeaseInv'
        BY <1>1 DEF Request
    <2>1. ASSUME NEW m \in Msg, SendMessage(q, m) \/ SendMessageBatchEntry(q, m)
          PROVE  LeaseInv'
        BY <2>1 DEF SendMessage, SendMessageBatchEntry, Enqueue
    <2>2. ASSUME NEW n \in 1..MaxWanted, ReceiveMessage(q, n)
          PROVE  LeaseInv'
        BY <2>2 DEF ReceiveMessage, messageVars, historyVars
    <2>3. ASSUME NEW h \in RequestHandles, DeleteMessage(q, h)
          PROVE  LeaseInv'
        BY <2>3, DeleteLease DEF DeleteMessage
    <2>4. ASSUME NEW n \in 1..MaxBatch, NEW hs \in [1..n -> RequestHandles],
                 DeleteMessageBatch(q, hs)
          PROVE  LeaseInv'
        BY <2>4 DEF DeleteMessageBatch, messageVars, historyVars
    <2>5. ASSUME NEW h \in RequestHandles, NEW t \in Visibility,
                 ChangeMessageVisibility(q, h, t)
          PROVE  LeaseInv'
        BY <2>5, VisibilityLease DEF ChangeMessageVisibility
    <2> QED BY <2>1, <2>2, <2>3, <2>4, <2>5, PurgeLease
<1>2. CASE ReceiveStep
    <2>1. CASE ReceiveHide \/ ReceiveReturn
        <3>1. cur \in Queue /\ idx \in 1..Len(Messages[cur]) /\ Messages[cur] \in Seq(Msg)
            BY <2>1 DEF TypeOK, LoopType, StoreType, ReceiveHide, ReceiveReturn, InReceive
        <3>2. Scanned \in Msg
            BY <3>1, ElementOfSeq DEF Scanned
        <3>3. Mark(cur, Scanned) /\ lease' \in {lease, [lease EXCEPT ![Scanned] = TimeoutSecs[cur]]}
            BY <2>1 DEF ReceiveHide, ReceiveReturn
        <3> QED BY <3>1, <3>2, <3>3, MarkLease
    <2>2. CASE ReceiveSkip \/ ReceiveNotReady \/ ReceiveEnd
        BY <2>2 DEF ReceiveSkip, ReceiveNotReady, ReceiveEnd, messageVars, historyVars
    <2> QED BY <1>2, <2>1, <2>2 DEF ReceiveStep
<1>3. CASE DeleteStep
    <2>1. CASE DeleteEntry
        <3>1. cur \in Queue
            BY <2>1 DEF TypeOK, LoopType, DeleteEntry, InDeleteBatch
        <3> QED BY <2>1, <3>1, DeleteLease DEF DeleteEntry
    <2>2. CASE DeleteEntryMissing \/ DeleteBatchEnd
        BY <2>2 DEF DeleteEntryMissing, DeleteBatchEnd, messageVars, historyVars
    <2> QED BY <1>3, <2>1, <2>2 DEF DeleteStep
<1>4. CASE SweepBegin \/ SweepStep
    <2>1. CASE SweepExpire \/ SweepRedrive
        <3>1. cur \in Queue /\ idx \in 1..Len(Messages[cur]) /\ Messages[cur] \in Seq(Msg)
            BY <2>1 DEF TypeOK, LoopType, StoreType, SweepExpire, SweepRedrive, InSweep
        <3>2. Scanned \in Msg
            BY <3>1, ElementOfSeq DEF Scanned
        <3>3. Expired(Scanned) /\ MakeVisible(cur, Scanned)
            BY <2>1 DEF SweepExpire, SweepRedrive
        <3> QED BY <3>1, <3>2, <3>3, ExpireLease
    <2>2. CASE SweepBegin \/ SweepKeep \/ SweepQueueEnd \/ SweepEnd
        BY <2>2 DEF SweepBegin, SweepKeep, SweepQueueEnd, SweepEnd, messageVars, historyVars
    <2>3. ASSUME NEW q \in Queue, SweepQueue(q)
          PROVE  LeaseInv'
        BY <2>3 DEF SweepQueue, messageVars, historyVars
    <2> QED BY <1>4, <2>1, <2>2, <2>3 DEF SweepStep
<1>5. CASE Tick
    BY <1>5, TickLease
<1>6. CASE UNCHANGED vars
    BY <1>6 DEF vars, messageVars, historyVars
<1> QED BY <1>1, <1>2, <1>3, <1>4, <1>5, <1>6 DEF Next

\* Timeouts: for every ChangeMessageVisibility and every sweep, the store never
\* keeps a shorter timeout than it promised.
THEOREM LeaseInvCorrect == Spec => []LeaseInv
<1>1. Init => LeaseInv
    BY DEF Init, LeaseInv
<1> QED BY <1>1, LeaseStep, TypeCorrect, PTL DEF Spec

\* A message is returned only by ReceiveReturn, and that only while it is
\* visible, hence promised to nobody.
LEMMA DeliveredStep ==
    ASSUME TypeOK, LeaseInv, [Next]_vars, NEW m \in Msg, delivered'[m] # delivered[m]
    PROVE  lease[m] = 0
<1>1. CASE ReceiveReturn
    <2>1. delivered \in [Msg -> Nat]
        BY DEF TypeOK, HistoryType
    <2>2. delivered' = [delivered EXCEPT ![Scanned] = @ + 1] /\ ReceiptHandle[Scanned] = NoHandle
        BY <1>1 DEF ReceiveReturn, Mark
    <2>3. m = Scanned
        BY <2>1, <2>2
    <2> QED BY <2>2, <2>3 DEF LeaseInv
<1>2. CASE UNCHANGED delivered
    BY <1>2
<1>3. ReceiveReturn \/ UNCHANGED delivered
    <2>1. Request => UNCHANGED delivered
        BY DEF Request, SendMessage, SendMessageBatchEntry, Enqueue, ReceiveMessage,
               DeleteMessage, DeleteAt, DeleteMessageBatch, ChangeMessageVisibility,
               PurgeQueue, historyVars
    <2>2. ReceiveStep => ReceiveReturn \/ UNCHANGED delivered
        BY DEF ReceiveStep, ReceiveSkip, ReceiveNotReady, ReceiveHide, ReceiveEnd, historyVars
    <2>3. DeleteStep \/ Tick => UNCHANGED delivered
        BY DEF DeleteStep, DeleteEntry, DeleteEntryMissing, DeleteBatchEnd, DeleteAt, Tick,
               historyVars
    <2>4. SweepBegin \/ SweepStep => UNCHANGED delivered
        BY DEF SweepBegin, SweepStep, SweepQueue, SweepKeep, SweepExpire, SweepRedrive,
               SweepQueueEnd, SweepEnd, MakeVisible, historyVars
    <2>5. UNCHANGED vars => UNCHANGED delivered
        BY DEF vars, historyVars
    <2> QED BY <2>1, <2>2, <2>3, <2>4, <2>5 DEF Next
<1> QED BY <1>1, <1>2, <1>3

\* Leases: for every timeout attribute, every ChangeMessageVisibility and every
\* interleaving with the sweep, a message is not returned to a consumer while
\* the timeout promised to another one runs.
THEOREM LeaseCorrect == Spec => LeaseRespected
<1>1. TypeOK /\ LeaseInv /\ [Next]_vars =>
         [\A m \in Msg : delivered'[m] # delivered[m] => lease[m] = 0]_vars
    BY DeliveredStep
<1> QED BY <1>1, LeaseInvCorrect, TypeCorrect, PTL DEF Spec, LeaseRespected
=============================================================================
