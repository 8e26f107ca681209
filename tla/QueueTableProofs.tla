-------------------------- MODULE QueueTableProofs --------------------------
(***************************************************************************)
(* Proofs about the table of queues and its mutex, for any clients, names  *)
(* and requests.                                                           *)
(***************************************************************************)
EXTENDS QueueTable, TLAPS

-----------------------------------------------------------------------------
(* The handlers' places and locals. *)

Writers == {"CreateQueue", "DeleteQueue"}

\* The handlers that use under the mutex the queue they found without it.
Users == {"SendMessage", "SendMessageBatch", "ReceiveMessage", "ChangeMessageVisibility"}

\* A client c at place p with call r, among the queues made: what the place says
\* about the call.
CallOK(c, p, r, made) ==
    p # "idle" =>
        /\ r.handler \in AllHandlers /\ r.name \in Name
        /\ r.handler = "CreateQueue" => c \in Creators
        /\ r.handler = "CreateQueue" /\ p \in {"lock", "write"} => r.queue \in made
        /\ r.handler # "CreateQueue" => r.queue = Nil
        /\ p = "attributes" => r.handler = "CreateQueue"
        /\ p = "write" => r.handler \in Writers
        /\ p = "read" => r.handler = "SendMessage"
        /\ p \in {"default", "poll", "wait"} => r.handler = "ReceiveMessage"
        /\ p = "wait" => r.loops > 0
        /\ p = "list" => r.handler = "ListQueues"

CallInv == \A c \in Client : CallOK(c, pc[c], call[c], allocated)

\* Client c goes to place p with call r.
Moves(c, p, r) == pc' = [pc EXCEPT ![c] = p] /\ call' = [call EXCEPT ![c] = r]

LEMMA MovesTo ==
    ASSUME ClientType, NEW c \in Client, NEW p, NEW r, Moves(c, p, r)
    PROVE  /\ pc'[c] = p /\ call'[c] = r
           /\ \A d \in Client : d # c => pc'[d] = pc[d] /\ call'[d] = call[d]
BY DEF ClientType, Moves

\* The types and the invariant of the clients, when one moves.
LEMMA MovesType ==
    ASSUME ClientType, CallInv, NEW c \in Client, NEW p \in Places, NEW r \in Calls',
           Moves(c, p, r), p = "idle" <=> r = NoCall, CallOK(c, p, r, allocated'),
           allocated \subseteq allocated'
    PROVE  ClientType' /\ CallInv'
<1>1. /\ pc'[c] = p /\ call'[c] = r
      /\ \A d \in Client : d # c => pc'[d] = pc[d] /\ call'[d] = call[d]
    BY MovesTo
<1>2. pc' \in [Client -> Places]
    BY DEF ClientType, Moves
<1>3. Calls \subseteq Calls'
    BY DEF Calls
<1>4. call' \in [Client -> Calls']
    BY <1>3 DEF ClientType, Moves
<1>5. ClientType'
    BY <1>1, <1>2, <1>4 DEF ClientType, NoCall
<1>6. ASSUME NEW d \in Client
      PROVE  CallOK(d, pc'[d], call'[d], allocated')
    <2>1. CASE d = c
        BY <1>1, <2>1 DEF CallOK
    <2>2. CASE d # c
        <3>1. CallOK(d, pc[d], call[d], allocated)
            BY DEF CallInv
        <3> QED BY <1>1, <2>2, <3>1 DEF CallOK
    <2> QED BY <2>1, <2>2
<1> QED BY <1>5, <1>6 DEF CallInv

LEMMA AnswerType ==
    ASSUME ClientType, CallInv, NEW c \in Client, Answer(c), allocated \subseteq allocated'
    PROVE  ClientType' /\ CallInv'
<1>1. Moves(c, "idle", NoCall)
    BY DEF Answer, Goto, Moves
<1>2. NoCall \in Calls' /\ "idle" \in Places
    BY DEF NoCall, Calls, Places
<1>3. CallOK(c, "idle", NoCall, allocated')
    BY DEF CallOK
<1> QED BY <1>1, <1>2, <1>3, MovesType

\* The call stays: p must suit it.
LEMMA GoesType ==
    ASSUME ClientType, CallInv, NEW c \in Client, NEW p \in Places \ {"idle"}, Goes(c, p),
           pc[c] # "idle", CallOK(c, p, call[c], allocated), UNCHANGED allocated
    PROVE  ClientType' /\ CallInv'
<1>1. Moves(c, p, call[c])
    BY DEF Goes, Goto, Moves, ClientType
<1>2. call[c] \in Calls /\ call[c] # NoCall
    BY DEF ClientType
<1>3. call[c] \in Calls' /\ CallOK(c, p, call[c], allocated')
    BY <1>2 DEF Calls
<1> HIDE DEF NoCall
<1> QED BY <1>1, <1>2, <1>3, MovesType

LEMMA ClientKept ==
    ClientType /\ CallInv /\ UNCHANGED <<pc, call, allocated>> => ClientType' /\ CallInv'
BY DEF ClientType, CallInv, CallOK, Calls, NoCall

\* An active client that stays active at p, with some fields of its call changed.
LEMMA FieldsType ==
    ASSUME ClientType, CallInv, NEW c \in Client, NEW p \in Places \ {"idle"}, NEW r \in Calls',
           Moves(c, p, r), r.handler = call[c].handler, r.handler \in AllHandlers,
           CallOK(c, p, r, allocated'), allocated \subseteq allocated'
    PROVE  ClientType' /\ CallInv'
<1>1. r # NoCall
    BY DEF NoCall, AllHandlers
<1> HIDE DEF NoCall
<1> QED BY <1>1, MovesType

-----------------------------------------------------------------------------
(* Types. *)

Inv == TypeOK /\ CallInv

LEMMA TableKept ==
    TableType /\ UNCHANGED <<tableVars, storeVars, mutexVars>> => TableType'
BY DEF TableType, tableVars, storeVars, mutexVars

LEMMA NilNotObject ==
    TableType => \A n \in Name : Queues[n] # Nil => Queues[n] \in allocated /\ Queues[n] \in Object
BY TableAssumption DEF TableType

LEMMA RequestType ==
    ASSUME Inv, NEW c \in Client, NEW n \in Name, NEW h \in Handlers[n], Request(c, h, n)
    PROVE  Inv'
<1>1. h \in AllHandlers
    BY TableAssumption
<1>2. PICK k \in Waits, S \in Items(h) :
          call' = [call EXCEPT ![c] =
                    [NoCall EXCEPT !.handler = h, !.name = n, !.loops = k, !.left = S]]
    BY TableAssumption DEF Request
<1>3. S \subseteq Msg \cup Name
    <2>1. CASE h = "SendMessage"
        BY <1>2, <2>1 DEF Items
    <2>2. CASE h = "SendMessageBatch"
        BY <1>2, <2>2 DEF Items
    <2>3. CASE h = "ListQueues"
        BY <1>2, <2>3 DEF Items
    <2>4. CASE h \notin {"SendMessage", "SendMessageBatch", "ListQueues"}
        BY <1>2, <2>4 DEF Items
    <2> QED BY <2>1, <2>2, <2>3, <2>4
<1> DEFINE r == [NoCall EXCEPT !.handler = h, !.name = n, !.loops = k, !.left = S]
<1>4. NoCall \in Calls
    BY DEF NoCall, Calls
<1>5. Moves(c, Start(h), r)
    BY <1>2 DEF Request, Goto, Moves
<1>6. Start(h) \in {"check", "list", "lock"} /\ (Start(h) = "list" <=> h = "ListQueues")
      /\ (h = "CreateQueue" => Start(h) = "check")
    BY <1>1 DEF Start, AllHandlers
<1>7. r \in Calls' /\ r.handler = h /\ r.name = n
    <2>1. k \in Nat
        BY TableAssumption
    <2> QED BY <1>1, <1>3, <1>4, <2>1 DEF Calls, NoCall
<1>8. h = "CreateQueue" => c \in Creators
    BY DEF Request
<1>9. r.queue = Nil /\ r # NoCall
    BY <1>1, <1>4, <1>7 DEF Calls, NoCall, AllHandlers
<1>10. CallOK(c, Start(h), r, allocated')
    <2> HIDE DEF r
    <2> QED BY <1>1, <1>6, <1>7, <1>8, <1>9 DEF CallOK
<1>11. UNCHANGED <<tableVars, storeVars, mutexVars>> /\ UNCHANGED allocated
    BY DEF Request, tableVars
<1>12. Start(h) \in Places /\ Start(h) # "idle"
    BY <1>6 DEF Places
<1> HIDE DEF r, NoCall
<1>13. ClientType' /\ CallInv'
    BY <1>5, <1>7, <1>9, <1>10, <1>11, <1>12, MovesType DEF Inv, TypeOK
<1> QED BY <1>11, <1>13, TableKept DEF Inv, TypeOK

LEMMA CancelType ==
    ASSUME Inv, NEW c \in Client, Cancel(c)
    PROVE  Inv'
<1> DEFINE r == [call[c] EXCEPT !.canceled = TRUE]
<1>1. /\ call[c] \in Calls /\ pc[c] \in Places
      /\ call[c].handler = "ReceiveMessage" /\ call[c] # NoCall
    BY DEF Cancel, Inv, TypeOK, ClientType, NoCall
<1>2. pc[c] # "idle" /\ CallOK(c, pc[c], call[c], allocated)
    BY <1>1 DEF Inv, TypeOK, ClientType, CallInv
<1>3. UNCHANGED <<tableVars, storeVars, mutexVars, pc, allocated>>
    BY DEF Cancel, tableVars
<1>4. Moves(c, pc[c], r)
    BY <1>3 DEF Cancel, Moves, Inv, TypeOK, ClientType
<1>5. r \in Calls' /\ r.handler = call[c].handler /\ r.handler \in AllHandlers
    BY <1>1, <1>3 DEF Calls, AllHandlers
<1>6. CallOK(c, pc[c], r, allocated')
    BY <1>1, <1>2, <1>3 DEF CallOK, Calls
<1> HIDE DEF r
<1>7. ClientType' /\ CallInv'
    BY <1>1, <1>2, <1>3, <1>4, <1>5, <1>6, FieldsType DEF Inv, TypeOK
<1> QED BY <1>3, <1>7, TableKept DEF Inv, TypeOK

\* A client that is not idle, and its call.
LEMMA Active ==
    ASSUME Inv, NEW c \in Client, pc[c] # "idle"
    PROVE  /\ call[c] \in Calls /\ call[c].handler \in AllHandlers /\ call[c].name \in Name
           /\ CallOK(c, pc[c], call[c], allocated)
BY DEF Inv, TypeOK, ClientType, CallInv, CallOK

\* The steps in which the handler of c goes to another place, or returns, with
\* the same call.
LEMMA WalkType ==
    ASSUME Inv, NEW c \in Client, pc[c] # "idle", UNCHANGED allocated, TableType',
           \/ Answer(c)
           \/ \E p \in Places \ {"idle"} : Goes(c, p) /\ CallOK(c, p, call[c], allocated)
           \/ UNCHANGED clientVars
    PROVE  Inv'
<1>1. CASE Answer(c)
    BY <1>1, AnswerType DEF Inv, TypeOK
<1>2. CASE \E p \in Places \ {"idle"} : Goes(c, p) /\ CallOK(c, p, call[c], allocated)
    BY <1>2, GoesType DEF Inv, TypeOK
<1>3. CASE UNCHANGED clientVars
    BY <1>3, ClientKept DEF Inv, TypeOK, clientVars
<1> QED BY <1>1, <1>2, <1>3

LEMMA CheckType ==
    ASSUME Inv, NEW c \in Client, Check(c)
    PROVE  Inv'
<1>1. pc[c] = "check" /\ UNCHANGED <<tableVars, storeVars, mutexVars>>
    BY DEF Check, At
<1>2. TableType' /\ UNCHANGED allocated
    BY <1>1, TableKept DEF Inv, TypeOK, tableVars
<1>3. /\ call[c].handler \in AllHandlers /\ call[c].name \in Name
      /\ call[c].handler = "CreateQueue" => c \in Creators
      /\ call[c].handler # "CreateQueue" => call[c].queue = Nil
    BY <1>1, Active DEF CallOK
<1>4. \/ Answer(c)
      \/ Goes(c, "attributes") /\ call[c].handler = "CreateQueue"
      \/ Goes(c, "read") /\ call[c].handler = "SendMessage"
      \/ \E p \in {"default", "poll"} : Goes(c, p) /\ call[c].handler = "ReceiveMessage"
      \/ Goes(c, "lock") /\ call[c].handler # "CreateQueue"
    BY DEF Check, CreateCheck, GetQueueUrl, UseCheck
<1>5. \/ Answer(c)
      \/ \E p \in Places \ {"idle"} : Goes(c, p) /\ CallOK(c, p, call[c], allocated)
    BY <1>3, <1>4 DEF CallOK, Places
<1> QED BY <1>1, <1>2, <1>5, WalkType

LEMMA AttributesType ==
    ASSUME Inv, NEW c \in Client, NEW q \in Object, NEW w \in Waits, NEW n \in Name \cup {Nil},
           CreateAttributes(c, q, w, n)
    PROVE  Inv'
<1>1. /\ pc[c] = "attributes" /\ q \in Object \ allocated /\ allocated' = allocated \cup {q}
      /\ SetAttributes(q, w, n)
      /\ UNCHANGED <<Queues, deleted, storeVars, mutexVars>>
    BY DEF CreateAttributes, At
<1>2. TableType'
    BY <1>1 DEF Inv, TypeOK, TableType, SetAttributes, storeVars, mutexVars
<1>3. call[c] \in Calls /\ CallOK(c, pc[c], call[c], allocated)
    BY <1>1, Active
<1>4. CASE Answer(c)
    BY <1>1, <1>2, <1>4, AnswerType DEF Inv, TypeOK
<1>5. CASE Goto(c, "lock") /\ call' = [call EXCEPT ![c].queue = q]
    <2> DEFINE r == [call[c] EXCEPT !.queue = q]
    <2>1. Moves(c, "lock", r)
        BY <1>5 DEF Moves, Goto
    <2>2. /\ r \in Calls' /\ r.handler = call[c].handler /\ r.name = call[c].name
          /\ r.queue = q
        BY <1>1, <1>3 DEF Calls
    <2> HIDE DEF r
    <2>3. r.handler \in AllHandlers /\ CallOK(c, "lock", r, allocated')
        BY <1>1, <1>3, <2>2 DEF CallOK
    <2>4. "lock" \in Places \ {"idle"}
        BY DEF Places
    <2> QED BY <1>1, <1>2, <2>1, <2>2, <2>3, <2>4, FieldsType DEF Inv, TypeOK
<1> QED BY <1>4, <1>5 DEF CreateAttributes

LEMMA WriteType ==
    ASSUME Inv, NEW c \in Client, WriteBegin(c) \/ WriteEnd(c)
    PROVE  Inv'
<1>1. CASE WriteBegin(c)
    <2>1. TableType' /\ UNCHANGED allocated
        BY <1>1 DEF WriteBegin, Inv, TypeOK, TableType, tableVars, storeVars
    <2>2. pc[c] = "lock" /\ Goes(c, "write") /\ call[c].handler \in Writers
        BY <1>1 DEF WriteBegin, At, Writers
    <2>3. CallOK(c, "write", call[c], allocated) /\ "write" \in Places \ {"idle"}
        BY <2>2, Active DEF CallOK, Places
    <2> QED BY <2>1, <2>2, <2>3, WalkType
<1>2. CASE WriteEnd(c)
    <2>1. pc[c] = "write" /\ UNCHANGED allocated /\ Answer(c)
        BY <1>2 DEF WriteEnd, At
    <2>2. call[c].queue \in allocated \cup {Nil} /\ call[c].name \in Name
        BY <2>1, Active DEF Calls
    <2>3. Queues' \in [Name -> allocated' \cup {Nil}]
        BY <1>2, <2>1, <2>2 DEF WriteEnd, Inv, TypeOK, TableType
    <2>4. lock' \in Client \cup {Free} /\ deleted' \in BOOLEAN
        BY <1>2 DEF WriteEnd, Inv, TypeOK, TableType
    <2>5. TableType'
        BY <1>2, <2>3, <2>4 DEF WriteEnd, Inv, TypeOK, TableType, storeVars
    <2> QED BY <2>1, <2>5, WalkType
<1> QED BY <1>1, <1>2

LEMMA ListType ==
    ASSUME Inv, NEW c \in Client,
           ListEntry(c) \/ ListEnd(c) \/ \E n \in Name : ListNext(c, n)
    PROVE  Inv'
<1>1. UNCHANGED <<tableVars, storeVars, mutexVars>>
    BY DEF ListEntry, ListEnd, ListNext
<1>2. TableType' /\ UNCHANGED allocated
    BY <1>1, TableKept DEF Inv, TypeOK, tableVars
<1>3. CASE ListEnd(c)
    BY <1>2, <1>3, WalkType DEF ListEnd, At
<1>4. CASE ListEntry(c)
    <2>1. pc[c] = "lock" /\ Goes(c, "list") /\ call[c].handler = "ListQueues"
        BY <1>4 DEF ListEntry, At
    <2>2. CallOK(c, "list", call[c], allocated) /\ "list" \in Places \ {"idle"}
        BY <2>1, Active DEF CallOK, Places
    <2> QED BY <1>2, <2>1, <2>2, WalkType
<1>5. ASSUME NEW n \in Name, ListNext(c, n)
      PROVE  Inv'
    <2> DEFINE p == IF Queues[n] = Nil THEN "list" ELSE "lock"
               r == [call[c] EXCEPT !.left = call[c].left \ {n}]
    <2>1. pc[c] = "list" /\ Moves(c, p, r)
        BY <1>5 DEF ListNext, At, Goto, Moves
    <2>2. call[c] \in Calls /\ CallOK(c, pc[c], call[c], allocated)
        BY <2>1, Active
    <2>3. /\ r \in Calls' /\ r.handler = call[c].handler /\ r.name = call[c].name
          /\ r.queue = call[c].queue
        BY <1>2, <2>2 DEF Calls
    <2>4. p \in Places \ {"idle"} /\ p \in {"list", "lock"}
        BY DEF Places
    <2> HIDE DEF r, p
    <2>5. r.handler \in AllHandlers /\ CallOK(c, p, r, allocated')
        BY <2>1, <2>2, <2>3, <2>4, <1>2 DEF CallOK
    <2> QED BY <1>2, <2>1, <2>3, <2>4, <2>5, FieldsType DEF Inv, TypeOK
<1> QED BY <1>3, <1>4, <1>5

LEMMA SendType ==
    ASSUME Inv, NEW c \in Client, SendRead(c) \/ \E m \in Msg : Send(c, m)
    PROVE  Inv'
<1>1. CASE SendRead(c)
    <2>1. TableType' /\ UNCHANGED allocated
        BY <1>1, TableKept DEF SendRead, Inv, TypeOK, tableVars
    <2>2. pc[c] = "read" /\ (Answer(c) \/ Goes(c, "lock"))
        BY <1>1 DEF SendRead, At
    <2>3. CallOK(c, "lock", call[c], allocated) /\ "lock" \in Places \ {"idle"}
        BY <2>2, Active DEF CallOK, Places
    <2> QED BY <2>1, <2>2, <2>3, WalkType
<1>2. ASSUME NEW m \in Msg, Send(c, m)
      PROVE  Inv'
    <2>1. pc[c] = "lock" /\ call[c].handler \in {"SendMessage", "SendMessageBatch"}
        BY <1>2 DEF Send, At
    <2>2. call[c] \in Calls /\ call[c].name \in Name /\ CallOK(c, pc[c], call[c], allocated)
        BY <2>1, Active
    <2>3. UNCHANGED <<tableVars, allocated>> /\ UNCHANGED <<hidden, gone>>
        BY <1>2 DEF Send, tableVars
    <2>4. CASE Found(c)
        <3>1. /\ Messages' = [Messages EXCEPT ![Queues[call[c].name]] = @ \cup {m}]
              /\ sent' = sent \cup {m} /\ delayed' \in {delayed, delayed \cup {m}}
              /\ UNCHANGED mutexVars
            BY <1>2, <2>4 DEF Send
        <3>2. Messages' \in [Object -> SUBSET sent']
            BY <3>1 DEF Inv, TypeOK, TableType
        <3>3. TableType'
            BY <2>3, <3>1, <3>2 DEF Inv, TypeOK, TableType, tableVars, mutexVars
        <3>4. CASE Answer(c)
            BY <2>1, <2>3, <3>3, <3>4, WalkType
        <3>5. CASE Goto(c, "lock") /\ call' = [call EXCEPT ![c].left = @ \ {m}]
            <4> DEFINE r == [call[c] EXCEPT !.left = call[c].left \ {m}]
            <4>1. Moves(c, "lock", r)
                BY <3>5 DEF Goto, Moves
            <4>2. /\ r \in Calls' /\ r.handler = call[c].handler /\ r.name = call[c].name
                  /\ r.queue = call[c].queue
                BY <2>2, <2>3 DEF Calls
            <4> HIDE DEF r
            <4>3. r.handler \in AllHandlers /\ CallOK(c, "lock", r, allocated')
                BY <2>1, <2>2, <2>3, <4>2 DEF CallOK
            <4>4. "lock" \in Places \ {"idle"}
                BY DEF Places
            <4> QED BY <2>3, <3>3, <4>1, <4>2, <4>3, <4>4, FieldsType DEF Inv, TypeOK
        <3> QED BY <1>2, <2>4, <3>4, <3>5 DEF Send
    <2>5. CASE ~Found(c)
        <3>1. Answer(c) /\ lock' = c /\ UNCHANGED <<readers, crashed, Messages, delayed, sent>>
            BY <1>2, <2>5 DEF Send, PanicLocked
        <3>2. TableType'
            BY <2>3, <3>1 DEF Inv, TypeOK, TableType, tableVars
        <3> QED BY <2>1, <2>3, <3>1, <3>2, WalkType
    <2> QED BY <2>4, <2>5
<1> QED BY <1>1, <1>2

LEMMA ReceiveType ==
    ASSUME Inv, NEW c \in Client,
           \/ ReceiveDefault(c) \/ ReceivePoll(c) \/ ReceiveTimer(c) \/ ReceiveGiveUp(c)
           \/ ReceiveTake(c)
    PROVE  Inv'
<1>1. CASE ReceiveDefault(c)
    <2>1. pc[c] = "default" /\ UNCHANGED <<tableVars, storeVars, allocated>>
        BY <1>1 DEF ReceiveDefault, At, tableVars
    <2>2. call[c] \in Calls /\ call[c].name \in Name /\ CallOK(c, pc[c], call[c], allocated)
        BY <2>1, Active
    <2>3. CASE ~Found(c)
        <3>1. Answer(c) /\ readers' = readers \cup {c} /\ UNCHANGED <<lock, crashed>>
            BY <1>1, <2>3 DEF ReceiveDefault, PanicRLocked
        <3>2. TableType'
            BY <2>1, <3>1 DEF Inv, TypeOK, TableType, tableVars, storeVars
        <3> QED BY <2>1, <3>1, <3>2, WalkType
    <2>4. CASE Found(c)
        <3> DEFINE k == ReceiveWaitTimeSecs[Queues[call[c].name]]
                   r == [call[c] EXCEPT !.loops = k]
        <3>1. Moves(c, "poll", r) /\ UNCHANGED mutexVars
            BY <1>1, <2>4 DEF ReceiveDefault, Goto, Moves
        <3>2. k \in Nat
            BY <2>2, <2>4, NilNotObject, TableAssumption DEF Inv, TypeOK, TableType, Found
        <3> HIDE DEF k
        <3>3. /\ r \in Calls' /\ r.handler = call[c].handler /\ r.name = call[c].name
              /\ r.queue = call[c].queue
            BY <2>1, <2>2, <3>2 DEF Calls
        <3> HIDE DEF r
        <3>4. /\ r.handler \in AllHandlers /\ CallOK(c, "poll", r, allocated')
              /\ "poll" \in Places \ {"idle"}
            BY <2>1, <2>2, <3>3 DEF CallOK, Places
        <3>5. TableType'
            BY <2>1, <3>1, TableKept DEF Inv, TypeOK
        <3> QED BY <2>1, <3>1, <3>3, <3>4, <3>5, FieldsType DEF Inv, TypeOK
    <2> QED BY <2>3, <2>4
<1>2. CASE ReceivePoll(c)
    <2>1. pc[c] = "poll" /\ UNCHANGED <<tableVars, storeVars, mutexVars, allocated>>
        BY <1>2 DEF ReceivePoll, At, tableVars
    <2>2. \/ Answer(c) \/ Goes(c, "lock")
          \/ Goes(c, "wait") /\ call[c].loops # 0
        BY <1>2 DEF ReceivePoll
    <2>3. call[c] \in Calls /\ CallOK(c, pc[c], call[c], allocated)
        BY <2>1, Active
    <2>4. call[c].loops \in Nat
        BY <2>3 DEF Calls
    <2>5. \/ Answer(c)
          \/ \E p \in Places \ {"idle"} : Goes(c, p) /\ CallOK(c, p, call[c], allocated)
        BY <2>1, <2>2, <2>3, <2>4 DEF CallOK, Places
    <2>6. TableType'
        BY <2>1, TableKept DEF Inv, TypeOK
    <2> QED BY <2>1, <2>5, <2>6, WalkType
<1>3. CASE ReceiveTimer(c)
    <2> DEFINE r == [call[c] EXCEPT !.loops = call[c].loops - 1]
    <2>1. /\ pc[c] = "wait" /\ UNCHANGED <<tableVars, storeVars, mutexVars, allocated>>
          /\ Moves(c, "poll", r)
        BY <1>3 DEF ReceiveTimer, At, Goto, Moves, tableVars
    <2>2. call[c] \in Calls /\ CallOK(c, pc[c], call[c], allocated)
        BY <2>1, Active
    <2>3. call[c].loops \in Nat /\ call[c].loops > 0
        BY <2>1, <2>2 DEF Calls, CallOK
    <2>4. /\ r \in Calls' /\ r.handler = call[c].handler /\ r.name = call[c].name
          /\ r.queue = call[c].queue
        BY <2>1, <2>2, <2>3 DEF Calls
    <2> HIDE DEF r
    <2>5. /\ r.handler \in AllHandlers /\ CallOK(c, "poll", r, allocated')
          /\ "poll" \in Places \ {"idle"}
        BY <2>1, <2>2, <2>4 DEF CallOK, Places
    <2>6. TableType'
        BY <2>1, TableKept DEF Inv, TypeOK
    <2> QED BY <2>1, <2>4, <2>5, <2>6, FieldsType DEF Inv, TypeOK
<1>4. CASE ReceiveGiveUp(c)
    <2>1. pc[c] = "wait" /\ Answer(c) /\ UNCHANGED <<tableVars, storeVars, mutexVars, allocated>>
        BY <1>4 DEF ReceiveGiveUp, At, tableVars
    <2>2. TableType'
        BY <2>1, TableKept DEF Inv, TypeOK
    <2> QED BY <2>1, <2>2, WalkType
<1>5. CASE ReceiveTake(c)
    <2>1. /\ pc[c] = "lock" /\ Answer(c)
          /\ UNCHANGED <<tableVars, Messages, delayed, sent, gone, readers, crashed, allocated>>
        BY <1>5 DEF ReceiveTake, At, PanicLocked, mutexVars, tableVars
    <2>2. lock' \in {lock, c}
        BY <1>5 DEF ReceiveTake, PanicLocked, mutexVars
    <2>3. hidden' \subseteq sent
        <3>1. CASE Found(c)
            <4>1. Queues[call[c].name] \in Object
                BY <2>1, <3>1, Active, NilNotObject DEF Inv, TypeOK, Found
            <4>2. Visible(Queues[call[c].name]) \subseteq sent
                BY <4>1 DEF Visible, Inv, TypeOK, TableType
            <4>3. \/ \E m \in Visible(Queues[call[c].name]) : hidden' = hidden \cup {m}
                  \/ UNCHANGED hidden
                BY <1>5, <3>1 DEF ReceiveTake
            <4> QED BY <4>2, <4>3 DEF Inv, TypeOK, TableType
        <3>2. CASE ~Found(c)
            BY <1>5, <3>2 DEF ReceiveTake, Inv, TypeOK, TableType
        <3> QED BY <3>1, <3>2
    <2>4. TableType'
        BY <2>1, <2>2, <2>3 DEF Inv, TypeOK, TableType, tableVars
    <2> QED BY <2>1, <2>4, WalkType
<1> QED BY <1>1, <1>2, <1>3, <1>4, <1>5

\* What redrive policies move stays among the messages that were sent.
LEMMA RedrivenType ==
    ASSUME TableType, NEW F \in SUBSET Object, NEW R
    PROVE  Redriven(F, R) \in [Object -> SUBSET sent]
BY DEF Redriven, TableType

LEMMA VisibilityType ==
    ASSUME Inv, NEW c \in Client, ChangeMessageVisibility(c)
    PROVE  Inv'
<1>1. /\ pc[c] = "lock" /\ Answer(c)
      /\ UNCHANGED <<tableVars, delayed, sent, gone, readers, crashed, allocated>>
      /\ lock' \in {lock, c}
    BY DEF ChangeMessageVisibility, At, PanicLocked, mutexVars, tableVars
<1>2. Messages' \in [Object -> SUBSET sent] /\ hidden' \subseteq sent
    <2>1. CASE Found(c)
        <3> DEFINE o == Queues[call[c].name]
        <3>1. o \in Object
            BY <1>1, <2>1, Active, NilNotObject DEF Inv, TypeOK, Found
        <3>2. \/ \E m \in Messages[o] : \E R \in SUBSET {m} :
                    /\ Messages' = Redriven({o}, R)
                    /\ hidden' \in {hidden \ {m}, hidden \ R}
              \/ UNCHANGED <<Messages, hidden>>
            BY <2>1 DEF ChangeMessageVisibility
        <3> HIDE DEF o
        <3>3. TableType
            BY DEF Inv, TypeOK
        <3>4. hidden' \subseteq hidden
            BY <3>2
        <3>5. Messages' \in [Object -> SUBSET sent]
            <4>1. UNCHANGED Messages \/ \E R : Messages' = Redriven({o}, R)
                BY <3>2
            <4> QED BY <3>1, <3>3, <4>1, RedrivenType DEF TableType
        <3> QED BY <3>3, <3>4, <3>5 DEF TableType
    <2>2. CASE ~Found(c)
        BY <2>2 DEF ChangeMessageVisibility, Inv, TypeOK, TableType
    <2> QED BY <2>1, <2>2
<1>3. TableType'
    BY <1>1, <1>2 DEF Inv, TypeOK, TableType, tableVars
<1> QED BY <1>1, <1>3, WalkType

LEMMA RemovalType ==
    ASSUME Inv, NEW c \in Client, PurgeQueue(c) \/ \E D \in SUBSET Msg : Delete(c, D)
    PROVE  Inv'
<1>1. /\ pc[c] = "lock" /\ Answer(c)
      /\ UNCHANGED <<tableVars, delayed, sent, mutexVars, allocated>>
    BY DEF PurgeQueue, Delete, At, tableVars
<1>2. /\ Messages' \in [Object -> SUBSET sent]
      /\ hidden' \subseteq sent /\ gone' \subseteq sent
    <2>1. Found(c) => Queues[call[c].name] \in Object
        BY <1>1, Active, NilNotObject DEF Inv, TypeOK, Found
    <2>2. CASE PurgeQueue(c)
        BY <2>1, <2>2 DEF PurgeQueue, Inv, TypeOK, TableType
    <2>3. CASE \E D \in SUBSET Msg : Delete(c, D)
        BY <2>1, <2>3 DEF Delete, Inv, TypeOK, TableType
    <2> QED BY <2>2, <2>3
<1>3. TableType'
    BY <1>1, <1>2 DEF Inv, TypeOK, TableType, tableVars, mutexVars
<1> QED BY <1>1, <1>3, WalkType

LEMMA QueueAttributesType ==
    ASSUME Inv, NEW c \in Client,
           \/ \E w \in Waits, n \in Name \cup {Nil} : SetQueueAttributes(c, w, n)
           \/ GetQueueAttributes(c)
    PROVE  Inv'
<1>1. CASE GetQueueAttributes(c)
    <2>1. /\ pc[c] = "lock" /\ Answer(c)
          /\ UNCHANGED <<tableVars, storeVars, mutexVars, allocated>>
        BY <1>1 DEF GetQueueAttributes, At, tableVars
    <2>2. TableType'
        BY <2>1, TableKept DEF Inv, TypeOK
    <2> QED BY <2>1, <2>2, WalkType
<1>2. ASSUME NEW w \in Waits, NEW n \in Name \cup {Nil}, SetQueueAttributes(c, w, n)
      PROVE  Inv'
    <2>1. /\ pc[c] = "lock" /\ Answer(c)
          /\ UNCHANGED <<Queues, allocated, deleted, storeVars, mutexVars>>
        BY <1>2 DEF SetQueueAttributes, At
    <2>2. /\ ReceiveWaitTimeSecs' \in [Object -> Waits]
          /\ DeadLetterQueue' \in [Object -> allocated \cup {Nil}]
        BY <1>2 DEF SetQueueAttributes, SetAttributes, Inv, TypeOK, TableType
    <2>3. TableType'
        BY <2>1, <2>2 DEF Inv, TypeOK, TableType, storeVars, mutexVars
    <2> QED BY <2>1, <2>3, WalkType
<1> QED BY <1>1, <1>2

LEMMA SweepType ==
    ASSUME Inv, NEW E \in SUBSET hidden, NEW R \in SUBSET E, Sweep(E, R)
    PROVE  Inv'
<1>1. /\ Messages' \in [Object -> SUBSET sent] /\ hidden' \subseteq sent
    BY RedrivenType DEF Sweep, Inv, TypeOK, TableType
<1>2. TableType'
    BY <1>1 DEF Sweep, Inv, TypeOK, TableType, tableVars, mutexVars
<1>3. UNCHANGED <<pc, call, allocated>>
    BY DEF Sweep, tableVars, clientVars
<1> QED BY <1>2, <1>3, ClientKept DEF Inv, TypeOK

LEMMA InvStep == Inv /\ [Next]_vars => Inv'
<1> SUFFICES ASSUME Inv, [Next]_vars
             PROVE  Inv'
    OBVIOUS
<1>1. ASSUME NEW c \in Client, Step(c)
      PROVE  Inv'
    BY <1>1, CheckType, AttributesType, WriteType, ListType, SendType, ReceiveType,
       VisibilityType, RemovalType, QueueAttributesType
    DEF Step
<1>2. CASE Crash \/ \E m \in Msg : DelayPasses(m)
    <2>1. UNCHANGED <<pc, call, allocated>>
        BY <1>2 DEF Crash, DelayPasses, tableVars, clientVars
    <2>2. TableType'
        BY <1>2 DEF Crash, DelayPasses, Inv, TypeOK, TableType, tableVars, storeVars, mutexVars
    <2> QED BY <2>1, <2>2, ClientKept DEF Inv, TypeOK
<1>3. CASE UNCHANGED vars
    <2>1. UNCHANGED <<pc, call, allocated, tableVars, storeVars, mutexVars>>
        BY <1>3 DEF vars, tableVars, clientVars
    <2> QED BY <2>1, TableKept, ClientKept DEF Inv, TypeOK
<1> QED BY <1>1, <1>2, <1>3, RequestType, CancelType, SweepType DEF Next

LEMMA InvInit == Init => Inv
<1> SUFFICES ASSUME Init
             PROVE  Inv
    OBVIOUS
<1>1. TableType
    BY TableAssumption DEF Init, TableType
<1>2. NoCall \in Calls /\ "idle" \in Places
    BY DEF NoCall, Calls, Places
<1>3. ClientType
    BY <1>2 DEF Init, ClientType
<1>4. CallInv
    BY DEF Init, CallInv, CallOK
<1> QED BY <1>1, <1>3, <1>4 DEF Inv, TypeOK

LEMMA InvCorrect == Spec => []Inv
BY InvInit, InvStep, PTL DEF Spec

\* Type correctness, with what each place of a handler says about its locals:
\* no poll waits without a look left, no writer lacks its queue.
THEOREM TableTypeCorrect == Spec => []TypeOK
BY InvCorrect, PTL DEF Inv

-----------------------------------------------------------------------------
(* The mutex.  A handler panics under it when the queue it has found without *)
(* it is gone, and only a deletion takes a queue away.                       *)

\* The client relies on the queue it has found.
LookedUp(c) ==
    \/ pc[c] \in {"read", "default", "poll", "wait"}
    \/ pc[c] = "lock" /\ call[c].handler \in Users

MutexInv ==
    ~deleted =>
        /\ readers = {}
        /\ lock \in Client => pc[lock] = "write"
        /\ \A c \in Client : pc[c] = "write" => lock = c
        /\ \A c \in Client : LookedUp(c) => Found(c)

\* A client moves between places without the mutex.
LEMMA MutexWalk ==
    ASSUME Inv, MutexInv, NEW c \in Client, NEW p, NEW r, Moves(c, p, r),
           UNCHANGED <<Queues, deleted, lock, readers>>, pc[c] # "write", p # "write",
           ~deleted /\ (p \in {"read", "default", "poll", "wait"} \/ (p = "lock" /\ r.handler \in Users))
              => Queues[r.name] # Nil
    PROVE  MutexInv'
<1>1. /\ pc'[c] = p /\ call'[c] = r
      /\ \A d \in Client : d # c => pc'[d] = pc[d] /\ call'[d] = call[d]
    BY MovesTo DEF Inv, TypeOK
<1> SUFFICES ASSUME ~deleted'
             PROVE  MutexInv'
    BY DEF MutexInv
<1>2. /\ readers = {} /\ (lock \in Client => pc[lock] = "write")
      /\ \A d \in Client : pc[d] = "write" => lock = d
      /\ \A d \in Client : LookedUp(d) => Found(d)
    BY DEF MutexInv
<1>3. lock' \in Client => pc'[lock'] = "write"
    BY <1>1, <1>2
<1>4. \A d \in Client : pc'[d] = "write" => lock' = d
    BY <1>1, <1>2
<1>5. ASSUME NEW d \in Client, LookedUp(d)'
      PROVE  Found(d)'
    BY <1>1, <1>2, <1>5 DEF LookedUp, Found
<1> QED BY <1>2, <1>3, <1>4, <1>5 DEF MutexInv

\* The handler returns, and the mutex is as it was.
LEMMA MutexAnswer ==
    ASSUME Inv, MutexInv, NEW c \in Client, Answer(c), pc[c] # "write",
           UNCHANGED <<Queues, deleted, lock, readers>>
    PROVE  MutexInv'
<1>1. Moves(c, "idle", NoCall)
    BY DEF Answer, Goto, Moves
<1> QED BY <1>1, MutexWalk

\* It goes on to p, with the same call.
LEMMA MutexGoes ==
    ASSUME Inv, MutexInv, NEW c \in Client, NEW p, Goes(c, p), p # "write", pc[c] # "write",
           UNCHANGED <<Queues, deleted, lock, readers>>,
           \/ LookedUp(c)
           \/ Found(c)
           \/ p \in {"attributes", "list"}
           \/ p = "lock" /\ call[c].handler \notin Users
    PROVE  MutexInv'
<1>1. Moves(c, p, call[c])
    BY DEF Goes, Goto, Moves, Inv, TypeOK, ClientType
<1>2. ~deleted /\ (LookedUp(c) \/ Found(c)) => Queues[call[c].name] # Nil
    BY DEF MutexInv, Found
<1>3. CASE LookedUp(c) \/ Found(c)
    BY <1>1, <1>2, <1>3, MutexWalk
<1>4. CASE p \in {"attributes", "list"} \/ (p = "lock" /\ call[c].handler \notin Users)
    BY <1>1, <1>4, MutexWalk
<1> QED BY <1>3, <1>4

LEMMA MutexRequest ==
    ASSUME Inv, MutexInv, NEW c \in Client, NEW n \in Name, NEW h \in Handlers[n], Request(c, h, n)
    PROVE  MutexInv'
<1>1. PICK k \in Waits, S \in Items(h) :
          call' = [call EXCEPT ![c] =
                    [NoCall EXCEPT !.handler = h, !.name = n, !.loops = k, !.left = S]]
    BY TableAssumption DEF Request
<1> DEFINE r == [NoCall EXCEPT !.handler = h, !.name = n, !.loops = k, !.left = S]
<1>2. /\ Moves(c, Start(h), r) /\ pc[c] = "idle"
      /\ UNCHANGED <<Queues, deleted, lock, readers>>
    BY <1>1 DEF Request, At, Goto, Moves, tableVars, mutexVars
<1>3. Start(h) \in {"check", "list", "lock"} /\ (h \in Users => Start(h) = "check")
      /\ r.handler = h
    BY DEF Start, Users, NoCall
<1> HIDE DEF r
<1> QED BY <1>2, <1>3, MutexWalk

LEMMA MutexCheck ==
    ASSUME Inv, MutexInv, NEW c \in Client, Check(c)
    PROVE  MutexInv'
<1>1. /\ pc[c] = "check" /\ UNCHANGED <<Queues, deleted, lock, readers>>
    BY DEF Check, At, tableVars, mutexVars
<1>2. \/ Answer(c)
      \/ Goes(c, "attributes")
      \/ Found(c) /\ \E p \in {"read", "default", "poll", "lock"} : Goes(c, p)
    BY DEF Check, CreateCheck, GetQueueUrl, UseCheck
<1>3. CASE Answer(c)
    BY <1>1, <1>3, MutexAnswer
<1>4. CASE Goes(c, "attributes")
    BY <1>1, <1>4, MutexGoes
<1>5. CASE Found(c) /\ \E p \in {"read", "default", "poll", "lock"} : Goes(c, p)
    BY <1>1, <1>5, MutexGoes
<1> QED BY <1>2, <1>3, <1>4, <1>5

\* The only steps that change the table: a queue leaves it by a deletion.
LEMMA WriteKeepsFound ==
    ASSUME Inv, NEW c \in Client, WriteEnd(c), ~deleted'
    PROVE  \A n \in Name : Queues[n] # Nil => Queues'[n] # Nil
<1>1. /\ pc[c] = "write" /\ Queues' = [Queues EXCEPT ![call[c].name] = call[c].queue]
      /\ call[c].handler = "DeleteQueue" => ~Found(c)
    BY DEF WriteEnd, At
<1>2. CallOK(c, "write", call[c], allocated)
    BY <1>1, Active
<1>3. CASE call[c].handler = "DeleteQueue"
    BY <1>1, <1>3 DEF Found, Inv, TypeOK, TableType
<1>4. CASE call[c].handler = "CreateQueue"
    <2>1. call[c].queue # Nil
        BY <1>2, <1>4, TableAssumption DEF CallOK, Inv, TypeOK, TableType
    <2> QED BY <1>1, <2>1 DEF Inv, TypeOK, TableType
<1> QED BY <1>2, <1>3, <1>4 DEF CallOK, Writers

LEMMA MutexWrite ==
    ASSUME Inv, MutexInv, NEW c \in Client, WriteBegin(c) \/ WriteEnd(c)
    PROVE  MutexInv'
<1> SUFFICES ASSUME ~deleted'
             PROVE  MutexInv'
    BY DEF MutexInv
<1>1. ~deleted
    BY DEF WriteBegin, WriteEnd, tableVars
<1>2. /\ readers = {} /\ (lock \in Client => pc[lock] = "write")
      /\ \A d \in Client : pc[d] = "write" => lock = d
      /\ \A d \in Client : LookedUp(d) => Found(d)
    BY <1>1 DEF MutexInv
<1>3. CASE WriteBegin(c)
    <2>1. /\ Moves(c, "write", call[c]) /\ lock = Free /\ lock' = c
          /\ UNCHANGED <<Queues, readers>>
        BY <1>3 DEF WriteBegin, CanLock, Goes, Goto, Moves, tableVars, Inv, TypeOK, ClientType
    <2>2. /\ pc'[c] = "write" /\ call' = call
          /\ \A d \in Client : d # c => pc'[d] = pc[d]
        BY <2>1, MovesTo DEF Inv, TypeOK, Goes, ClientType, Moves
    <2>3. \A d \in Client : pc'[d] = "write" => lock' = d
        BY <1>2, <2>1, <2>2, TableAssumption
    <2>4. \A d \in Client : LookedUp(d)' => Found(d)'
        BY <1>2, <2>1, <2>2 DEF LookedUp, Found
    <2> QED BY <1>2, <2>1, <2>2, <2>3, <2>4 DEF MutexInv
<1>4. CASE WriteEnd(c)
    <2>1. /\ Moves(c, "idle", NoCall) /\ lock' = Free /\ UNCHANGED readers /\ pc[c] = "write"
        BY <1>4 DEF WriteEnd, At, Answer, Goto, Moves
    <2>2. /\ pc'[c] = "idle"
          /\ \A d \in Client : d # c => pc'[d] = pc[d] /\ call'[d] = call[d]
        BY <2>1, MovesTo DEF Inv, TypeOK
    <2>3. \A d \in Client : pc'[d] # "write"
        BY <1>2, <2>1, <2>2
    <2>4. ASSUME NEW d \in Client, LookedUp(d)'
          PROVE  Found(d)'
        <3>1. LookedUp(d) /\ pc[d] # "idle" /\ call'[d] = call[d]
            BY <2>2, <2>4 DEF LookedUp
        <3>2. call[d].name \in Name
            BY <3>1, Active
        <3> QED BY <1>2, <1>4, <3>1, <3>2, WriteKeepsFound DEF Found
    <2> QED BY <1>2, <2>1, <2>3, <2>4, TableAssumption DEF MutexInv
<1> QED BY <1>3, <1>4

LEMMA MutexList ==
    ASSUME Inv, MutexInv, NEW c \in Client,
           ListEntry(c) \/ ListEnd(c) \/ \E n \in Name : ListNext(c, n)
    PROVE  MutexInv'
<1>1. UNCHANGED <<Queues, deleted, lock, readers>>
    BY DEF ListEntry, ListEnd, ListNext, tableVars, mutexVars
<1>2. CASE ListEnd(c)
    BY <1>1, <1>2, MutexAnswer DEF ListEnd, At
<1>3. CASE ListEntry(c)
    BY <1>1, <1>3, MutexGoes DEF ListEntry, At
<1>4. ASSUME NEW n \in Name, ListNext(c, n)
      PROVE  MutexInv'
    <2> DEFINE p == IF Queues[n] = Nil THEN "list" ELSE "lock"
               r == [call[c] EXCEPT !.left = call[c].left \ {n}]
    <2>1. pc[c] = "list" /\ Moves(c, p, r)
        BY <1>4 DEF ListNext, At, Goto, Moves
    <2>2. call[c] \in Calls /\ call[c].handler = "ListQueues"
        BY <2>1, Active DEF CallOK
    <2>3. r.handler = "ListQueues" /\ p \in {"list", "lock"}
        BY <2>2 DEF Calls
    <2> HIDE DEF r, p
    <2> QED BY <1>1, <2>1, <2>3, MutexWalk DEF Users
<1> QED BY <1>2, <1>3, <1>4

LEMMA MutexSend ==
    ASSUME Inv, MutexInv, NEW c \in Client, SendRead(c) \/ \E m \in Msg : Send(c, m)
    PROVE  MutexInv'
<1>1. CASE SendRead(c)
    <2>1. /\ pc[c] = "read" /\ UNCHANGED <<Queues, deleted, lock, readers>>
          /\ Answer(c) \/ (Found(c) /\ Goes(c, "lock"))
        BY <1>1 DEF SendRead, At, tableVars, mutexVars
    <2> QED BY <2>1, MutexAnswer, MutexGoes
<1>2. ASSUME NEW m \in Msg, Send(c, m)
      PROVE  MutexInv'
    <2>1. pc[c] = "lock" /\ LookedUp(c) /\ UNCHANGED <<Queues, deleted>>
        BY <1>2 DEF Send, At, LookedUp, Users, tableVars
    <2>2. call[c] \in Calls
        BY <2>1, Active
    <2> SUFFICES ASSUME ~deleted
                 PROVE  MutexInv'
        BY <2>1 DEF MutexInv
    <2>3. Found(c)
        BY <2>1 DEF MutexInv
    <2>4. /\ UNCHANGED <<lock, readers>>
          /\ \/ Answer(c)
             \/ Goto(c, "lock") /\ call' = [call EXCEPT ![c].left = @ \ {m}]
        BY <1>2, <2>3 DEF Send, mutexVars
    <2>5. CASE Answer(c)
        BY <2>1, <2>4, <2>5, MutexAnswer
    <2>6. CASE Goto(c, "lock") /\ call' = [call EXCEPT ![c].left = @ \ {m}]
        <3> DEFINE r == [call[c] EXCEPT !.left = call[c].left \ {m}]
        <3>1. Moves(c, "lock", r) /\ r.name = call[c].name
            BY <2>2, <2>6 DEF Goto, Moves, Calls
        <3> HIDE DEF r
        <3> QED BY <2>1, <2>3, <2>4, <3>1, MutexWalk DEF Found
    <2> QED BY <2>4, <2>5, <2>6
<1> QED BY <1>1, <1>2

LEMMA MutexReceive ==
    ASSUME Inv, MutexInv, NEW c \in Client,
           \/ ReceiveDefault(c) \/ ReceivePoll(c) \/ ReceiveTimer(c) \/ ReceiveGiveUp(c)
           \/ ReceiveTake(c)
    PROVE  MutexInv'
<1>1. /\ pc[c] \in {"default", "poll", "wait", "lock"} /\ LookedUp(c)
      /\ UNCHANGED <<Queues, deleted>>
    BY DEF ReceiveDefault, ReceivePoll, ReceiveTimer, ReceiveGiveUp, ReceiveTake, At,
           LookedUp, Users, tableVars
<1> SUFFICES ASSUME ~deleted
             PROVE  MutexInv'
    BY <1>1 DEF MutexInv
<1>2. Found(c) /\ call[c] \in Calls
    BY <1>1, Active DEF MutexInv
<1>3. UNCHANGED <<lock, readers>>
    BY <1>2 DEF ReceiveDefault, ReceivePoll, ReceiveTimer, ReceiveGiveUp, ReceiveTake, mutexVars
<1>4. CASE ReceiveDefault(c)
    <2> DEFINE r == [call[c] EXCEPT !.loops = ReceiveWaitTimeSecs[Queues[call[c].name]]]
    <2>1. Moves(c, "poll", r) /\ r.name = call[c].name
        BY <1>2, <1>4 DEF ReceiveDefault, Goto, Moves, Calls
    <2> HIDE DEF r
    <2> QED BY <1>1, <1>2, <1>3, <2>1, MutexWalk DEF Found
<1>5. CASE ReceivePoll(c)
    <2>1. Answer(c) \/ Goes(c, "lock") \/ Goes(c, "wait")
        BY <1>5 DEF ReceivePoll
    <2>2. CASE Answer(c)
        BY <1>1, <1>3, <2>2, MutexAnswer
    <2>3. CASE Goes(c, "lock") \/ Goes(c, "wait")
        BY <1>1, <1>3, <2>3, MutexGoes
    <2> QED BY <2>1, <2>2, <2>3
<1>6. CASE ReceiveTimer(c)
    <2> DEFINE r == [call[c] EXCEPT !.loops = call[c].loops - 1]
    <2>1. Moves(c, "poll", r) /\ r.name = call[c].name
        BY <1>2, <1>6 DEF ReceiveTimer, Goto, Moves, Calls
    <2> HIDE DEF r
    <2> QED BY <1>1, <1>2, <1>3, <2>1, MutexWalk DEF Found
<1>7. CASE ReceiveGiveUp(c) \/ ReceiveTake(c)
    <2>1. Answer(c)
        BY <1>2, <1>7 DEF ReceiveGiveUp, ReceiveTake
    <2> QED BY <1>1, <1>3, <2>1, MutexAnswer
<1> QED BY <1>4, <1>5, <1>6, <1>7

LEMMA MutexOthers ==
    ASSUME Inv, MutexInv, NEW c \in Client,
           \/ ChangeMessageVisibility(c) \/ (\E D \in SUBSET Msg : Delete(c, D))
           \/ PurgeQueue(c) \/ GetQueueAttributes(c)
           \/ \E w \in Waits, n \in Name \cup {Nil} : SetQueueAttributes(c, w, n)
    PROVE  MutexInv'
<1>1. pc[c] = "lock" /\ UNCHANGED <<Queues, deleted>> /\ Answer(c)
    BY DEF ChangeMessageVisibility, PanicLocked, Delete, PurgeQueue, GetQueueAttributes,
           SetQueueAttributes, At, tableVars
<1> SUFFICES ASSUME ~deleted
             PROVE  MutexInv'
    BY <1>1 DEF MutexInv
<1>2. call[c].handler = "ChangeMessageVisibility" => Found(c)
    BY <1>1 DEF MutexInv, LookedUp, Users
<1>3. UNCHANGED <<lock, readers>>
    BY <1>2 DEF ChangeMessageVisibility, Delete, PurgeQueue, GetQueueAttributes,
           SetQueueAttributes, mutexVars
<1> QED BY <1>1, <1>3, MutexAnswer

LEMMA MutexStep == Inv /\ MutexInv /\ [Next]_vars => MutexInv'
<1> SUFFICES ASSUME Inv, MutexInv, [Next]_vars
             PROVE  MutexInv'
    OBVIOUS
<1>1. ASSUME NEW c \in Client, Step(c)
      PROVE  MutexInv'
    <2>1. CASE \E w \in Waits, n \in Name \cup {Nil}, q \in Object : CreateAttributes(c, q, w, n)
        <3>1. PICK w \in Waits, n \in Name \cup {Nil}, q \in Object : CreateAttributes(c, q, w, n)
            BY <2>1
        <3>2. /\ pc[c] = "attributes" /\ UNCHANGED <<Queues, deleted, lock, readers>>
              /\ \/ Answer(c)
                 \/ Goto(c, "lock") /\ call' = [call EXCEPT ![c].queue = q]
            BY <3>1 DEF CreateAttributes, At, mutexVars
        <3>3. call[c] \in Calls /\ call[c].handler = "CreateQueue"
            BY <3>2, Active DEF CallOK
        <3> DEFINE r == [call[c] EXCEPT !.queue = q]
        <3>4. r.handler = "CreateQueue"
            BY <3>3 DEF Calls
        <3>5. Answer(c) \/ Moves(c, "lock", r)
            BY <3>2 DEF Goto, Moves
        <3> HIDE DEF r
        <3> QED BY <3>2, <3>4, <3>5, MutexAnswer, MutexWalk DEF Users
    <2> QED
        BY <1>1, <2>1, MutexCheck, MutexWrite, MutexList, MutexSend, MutexReceive, MutexOthers
        DEF Step
<1>2. CASE (\E c \in Client : Cancel(c)) \/ Crash \/ UNCHANGED vars
           \/ (\E m \in Msg : DelayPasses(m))
           \/ \E E \in SUBSET hidden : \E R \in SUBSET E : Sweep(E, R)
    <2>1. UNCHANGED <<Queues, deleted, lock, readers, pc>>
        BY <1>2 DEF Cancel, Crash, DelayPasses, Sweep, vars, tableVars, mutexVars, clientVars
    <2>2. \A d \in Client : call'[d].handler = call[d].handler /\ call'[d].name = call[d].name
        <3>1. CASE \E c \in Client : Cancel(c)
            BY <3>1 DEF Cancel, Inv, TypeOK, ClientType, Calls
        <3>2. CASE UNCHANGED call
            BY <3>2
        <3> QED BY <1>2, <3>1, <3>2 DEF Crash, DelayPasses, Sweep, vars, clientVars
    <2> QED BY <2>1, <2>2 DEF MutexInv, LookedUp, Found
<1> QED BY <1>1, <1>2, MutexRequest DEF Next

LEMMA MutexInvCorrect == Spec => []MutexInv
<1>1. Init => MutexInv
    BY TableAssumption DEF Init, MutexInv, LookedUp
<1> QED BY <1>1, MutexStep, InvCorrect, PTL DEF Spec

\* The mutex is held only in critical sections until a queue is deleted: whatever
\* the interleaving, the queue that a handler has found is there when it needs it.
THEOREM MutexOwnedCorrect == Spec => []MutexOwned
<1>1. MutexInv => MutexOwned
    BY DEF MutexInv, MutexOwned
<1> QED BY <1>1, MutexInvCorrect, PTL

-----------------------------------------------------------------------------
(* One creator.  Its queue is not there when it looks, and nobody else makes *)
(* it before it writes.                                                      *)

OneCreator == \A c, d \in Creators : c = d

Creating(c) == call[c].handler = "CreateQueue" /\ pc[c] \in {"attributes", "lock", "write"}

CreateInv == \A c \in Client : Creating(c) => ~Found(c)

\* What a step does to the table, when the invariant holds.
LEMMA TableStep ==
    ASSUME OneCreator, Inv, CreateInv, [Next]_vars
    PROVE  \/ UNCHANGED Queues
           \/ \E c \in Client :
                /\ WriteEnd(c) /\ call[c].name \in Name
                /\ \/ /\ call[c].handler = "CreateQueue" /\ ~Found(c)
                      /\ call[c].queue \in allocated
                   \/ call[c].handler = "DeleteQueue" /\ call[c].queue = Nil
<1>1. ASSUME NEW c \in Client, WriteEnd(c)
      PROVE  /\ call[c].name \in Name
             /\ \/ /\ call[c].handler = "CreateQueue" /\ ~Found(c)
                   /\ call[c].queue \in allocated
                \/ call[c].handler = "DeleteQueue" /\ call[c].queue = Nil
    <2>1. pc[c] = "write"
        BY <1>1 DEF WriteEnd, At
    <2>2. call[c].name \in Name /\ CallOK(c, "write", call[c], allocated)
        BY <2>1, Active, SMTT(30)
    <2> QED BY <2>1, <2>2 DEF CallOK, Writers, CreateInv, Creating
<1>2. ASSUME NEW c \in Client, Step(c), ~WriteEnd(c)
      PROVE  UNCHANGED Queues
    BY <1>2 DEF Step, Check, WriteBegin, ListEnd, ListEntry, ListNext, CreateAttributes,
       SetQueueAttributes, SendRead, Send, ReceiveDefault, ReceivePoll, ReceiveTimer,
       ReceiveGiveUp, ReceiveTake, ChangeMessageVisibility, Delete, PurgeQueue,
       GetQueueAttributes, tableVars
<1>3. CASE UNCHANGED vars \/ Crash
           \/ (\E m \in Msg : DelayPasses(m))
           \/ \E E \in SUBSET hidden : \E R \in SUBSET E : Sweep(E, R)
    BY <1>3 DEF vars, Crash, DelayPasses, Sweep, tableVars
<1>4. ASSUME NEW c \in Client,
             Cancel(c) \/ \E n \in Name : \E h \in Handlers[n] : Request(c, h, n)
      PROVE  UNCHANGED Queues
    BY <1>4 DEF Cancel, Request, tableVars
<1> QED BY <1>1, <1>2, <1>3, <1>4 DEF Next

\* A client comes to these places with CreateQueue only when it has looked.
LEMMA CreatingFrom ==
    ASSUME Inv, [Next]_vars, NEW d \in Client, Creating(d)'
    PROVE  /\ call'[d].name = call[d].name
           /\ Creating(d) \/ (~Found(d) /\ UNCHANGED Queues)
           /\ call[d].handler = "CreateQueue" /\ pc[d] # "idle"
<1>1. CASE UNCHANGED <<pc[d], call[d].handler, call[d].name>>
    BY <1>1 DEF Creating
<1>2. ASSUME NEW c \in Client, NEW p, NEW r, Moves(c, p, r),
             p \in {"attributes", "lock", "write"} /\ r.handler = "CreateQueue" =>
                /\ r.name = call[c].name /\ call[c].handler = "CreateQueue" /\ pc[c] # "idle"
                /\ Creating(c) \/ (~Found(c) /\ UNCHANGED Queues)
      PROVE  /\ call'[d].name = call[d].name
             /\ Creating(d) \/ (~Found(d) /\ UNCHANGED Queues)
             /\ call[d].handler = "CreateQueue" /\ pc[d] # "idle"
    <2>1. /\ pc'[c] = p /\ call'[c] = r
          /\ d # c => pc'[d] = pc[d] /\ call'[d] = call[d]
        BY <1>2, MovesTo DEF Inv, TypeOK
    <2>2. CASE d = c
        BY <1>2, <2>1, <2>2 DEF Creating
    <2>3. CASE d # c
        BY <2>1, <2>3 DEF Creating
    <2> QED BY <2>2, <2>3
<1>3. ASSUME NEW c \in Client, Answer(c)
      PROVE  /\ call'[d].name = call[d].name
             /\ Creating(d) \/ (~Found(d) /\ UNCHANGED Queues)
             /\ call[d].handler = "CreateQueue" /\ pc[d] # "idle"
    <2>1. Moves(c, "idle", NoCall)
        BY <1>3 DEF Answer, Goto, Moves
    <2> HIDE DEF NoCall
    <2> QED BY <1>2, <2>1
<1>4. ASSUME NEW c \in Client, NEW p, Goes(c, p), pc[c] # "idle",
             \/ p \notin {"attributes", "lock", "write"} \/ call[c].handler # "CreateQueue"
             \/ Creating(c) \/ (~Found(c) /\ UNCHANGED Queues)
      PROVE  /\ call'[d].name = call[d].name
             /\ Creating(d) \/ (~Found(d) /\ UNCHANGED Queues)
             /\ call[d].handler = "CreateQueue" /\ pc[d] # "idle"
    <2>1. Moves(c, p, call[c])
        BY <1>4 DEF Goes, Goto, Moves, Inv, TypeOK, ClientType
    <2> QED BY <1>2, <1>4, <2>1
<1>5. ASSUME NEW c \in Client, NEW p, NEW r, Moves(c, p, r), pc[c] # "idle",
             call[c].handler # "CreateQueue", r.handler = call[c].handler
      PROVE  /\ call'[d].name = call[d].name
             /\ Creating(d) \/ (~Found(d) /\ UNCHANGED Queues)
             /\ call[d].handler = "CreateQueue" /\ pc[d] # "idle"
    BY <1>2, <1>5
<1>6. ASSUME NEW c \in Client, NEW n \in Name, NEW h \in Handlers[n], Request(c, h, n)
      PROVE  /\ call'[d].name = call[d].name
             /\ Creating(d) \/ (~Found(d) /\ UNCHANGED Queues)
             /\ call[d].handler = "CreateQueue" /\ pc[d] # "idle"
    <2>1. PICK k \in Waits, S \in Items(h) :
              call' = [call EXCEPT ![c] =
                        [NoCall EXCEPT !.handler = h, !.name = n, !.loops = k, !.left = S]]
        BY <1>6, TableAssumption DEF Request
    <2> DEFINE r == [NoCall EXCEPT !.handler = h, !.name = n, !.loops = k, !.left = S]
    <2>2. Moves(c, Start(h), r) /\ r.handler = h
        BY <1>6, <2>1 DEF Request, Goto, Moves, NoCall
    <2>3. h = "CreateQueue" => Start(h) = "check"
        BY DEF Start
    <2> HIDE DEF r
    <2> QED BY <1>2, <2>2, <2>3
<1>7. ASSUME NEW c \in Client, Step(c)
      PROVE  /\ call'[d].name = call[d].name
             /\ Creating(d) \/ (~Found(d) /\ UNCHANGED Queues)
             /\ call[d].handler = "CreateQueue" /\ pc[d] # "idle"
    <2>1. CASE Check(c)
        <3>1. pc[c] = "check" /\ UNCHANGED Queues
            BY <2>1 DEF Check, At, tableVars
        <3>2. \/ Answer(c)
              \/ Goes(c, "attributes") /\ ~Found(c)
              \/ call[c].handler # "CreateQueue" /\ \E p \in Places : Goes(c, p)
            BY <2>1 DEF Check, CreateCheck, GetQueueUrl, UseCheck, Places
        <3> QED BY <1>3, <1>4, <3>1, <3>2
    <2>2. CASE WriteBegin(c)
        <3>1. Goes(c, "write") /\ pc[c] = "lock"
            BY <2>2 DEF WriteBegin, At
        <3> QED BY <1>4, <3>1 DEF Creating
    <2>3. ASSUME NEW w \in Waits, NEW n \in Name \cup {Nil}, NEW q \in Object,
                 CreateAttributes(c, q, w, n)
          PROVE  /\ call'[d].name = call[d].name
                 /\ Creating(d) \/ (~Found(d) /\ UNCHANGED Queues)
                 /\ call[d].handler = "CreateQueue" /\ pc[d] # "idle"
        <3> DEFINE r == [call[c] EXCEPT !.queue = q]
        <3>1. pc[c] = "attributes" /\ (Answer(c) \/ Moves(c, "lock", r))
            BY <2>3 DEF CreateAttributes, At, Goto, Moves
        <3>2. call[c] \in Calls /\ call[c].handler = "CreateQueue"
            BY <3>1, Active DEF CallOK
        <3>3. r.handler = "CreateQueue" /\ r.name = call[c].name
            BY <3>2 DEF Calls
        <3> HIDE DEF r
        <3> QED BY <1>2, <1>3, <3>1, <3>2, <3>3 DEF Creating
    <2>4. CASE \/ WriteEnd(c) \/ ListEnd(c) \/ ReceiveGiveUp(c)
               \/ ReceiveTake(c) \/ ChangeMessageVisibility(c) \/ (\E D \in SUBSET Msg : Delete(c, D))
               \/ PurgeQueue(c) \/ GetQueueAttributes(c)
               \/ \E w \in Waits, n \in Name \cup {Nil} : SetQueueAttributes(c, w, n)
        <3>1. Answer(c)
            BY <2>4 DEF WriteEnd, ListEnd, ReceiveGiveUp, ReceiveTake, ChangeMessageVisibility,
               PanicLocked, Delete, PurgeQueue, GetQueueAttributes, SetQueueAttributes
        <3> QED BY <1>3, <3>1
    <2>5. CASE \/ ListEntry(c) \/ (\E n \in Name : ListNext(c, n))
               \/ SendRead(c) \/ (\E m \in Msg : Send(c, m))
               \/ ReceiveDefault(c) \/ ReceivePoll(c) \/ ReceiveTimer(c)
        <3>1. pc[c] \in {"lock", "list", "read", "default", "poll", "wait"}
            BY <2>5 DEF ListEntry, ListNext, SendRead, Send, ReceiveDefault, ReceivePoll,
               ReceiveTimer, At
        <3>2. call[c] \in Calls /\ CallOK(c, pc[c], call[c], allocated)
            BY <3>1, Active
        <3>3. call[c].handler # "CreateQueue"
            BY <2>5, <3>2 DEF ListEntry, ListNext, SendRead, Send, ReceiveDefault, ReceivePoll,
               ReceiveTimer, At, CallOK
        <3>4. \/ Answer(c)
              \/ \E p \in Places : Goes(c, p)
              \/ \E p \in Places : \E S : Moves(c, p, [call[c] EXCEPT !.left = S])
              \/ \E p \in Places : \E k : Moves(c, p, [call[c] EXCEPT !.loops = k])
            <4>1. CASE ListEntry(c) \/ SendRead(c) \/ ReceivePoll(c)
                BY <4>1 DEF ListEntry, SendRead, ReceivePoll, Places
            <4>2. CASE \E n \in Name : ListNext(c, n)
                BY <4>2 DEF ListNext, Goto, Moves, Places
            <4>3. CASE \E m \in Msg : Send(c, m)
                BY <4>3 DEF Send, PanicLocked, Goto, Moves, Places
            <4>4. CASE ReceiveDefault(c)
                BY <4>4 DEF ReceiveDefault, PanicRLocked, Goto, Moves, Places
            <4>5. CASE ReceiveTimer(c)
                BY <4>5 DEF ReceiveTimer, Goto, Moves, Places
            <4> QED BY <2>5, <4>1, <4>2, <4>3, <4>4, <4>5
        <3>5. \A S : [call[c] EXCEPT !.left = S].handler = call[c].handler
            BY <3>2 DEF Calls
        <3>6. \A k : [call[c] EXCEPT !.loops = k].handler = call[c].handler
            BY <3>2 DEF Calls
        <3> QED BY <1>3, <1>4, <1>5, <3>1, <3>3, <3>4, <3>5, <3>6
    <2> QED BY <1>7, <2>1, <2>2, <2>3, <2>4, <2>5 DEF Step
<1>8. CASE (\E c \in Client : Cancel(c)) \/ Crash \/ UNCHANGED vars
           \/ (\E m \in Msg : DelayPasses(m))
           \/ \E E \in SUBSET hidden : \E R \in SUBSET E : Sweep(E, R)
    <2>1. CASE \E c \in Client : Cancel(c)
        <3>1. UNCHANGED pc /\ UNCHANGED <<call[d].handler, call[d].name>>
            BY <2>1 DEF Cancel, Inv, TypeOK, ClientType, Calls
        <3> QED BY <1>1, <3>1
    <2>2. CASE UNCHANGED clientVars
        BY <1>1, <2>2 DEF clientVars
    <2> QED BY <1>8, <2>1, <2>2 DEF Crash, DelayPasses, Sweep, vars
<1> QED BY <1>6, <1>7, <1>8 DEF Next

LEMMA CreateStep == OneCreator /\ Inv /\ CreateInv /\ [Next]_vars => CreateInv'
<1> SUFFICES ASSUME OneCreator, Inv, CreateInv, [Next]_vars,
                    NEW d \in Client, Creating(d)'
             PROVE  ~Found(d)'
    BY DEF CreateInv
<1>1. /\ call'[d].name = call[d].name
      /\ Creating(d) \/ (~Found(d) /\ UNCHANGED Queues)
      /\ call[d].handler = "CreateQueue" /\ pc[d] # "idle"
    BY CreatingFrom
<1>2. ~Found(d) /\ call[d].name \in Name
    BY <1>1, Active DEF CreateInv
<1>3. CASE UNCHANGED Queues
    BY <1>1, <1>2, <1>3 DEF Found
<1>4. ASSUME NEW c \in Client, WriteEnd(c), call[c].handler = "CreateQueue"
      PROVE  FALSE
    <2>1. pc[c] = "write" /\ Answer(c)
        BY <1>4 DEF WriteEnd, At
    <2>2. c \in Creators
        BY <1>4, <2>1, Active DEF CallOK
    <2>3. d \in Creators
        BY <1>1, Active DEF CallOK
    <2>4. c = d
        BY <2>2, <2>3 DEF OneCreator
    <2>5. pc'[d] = "idle"
        BY <2>1, <2>4 DEF Answer, Goto, Inv, TypeOK, ClientType
    <2> QED BY <2>5 DEF Creating
<1>5. ASSUME NEW c \in Client, WriteEnd(c), call[c].name \in Name, call[c].queue = Nil
      PROVE  ~Found(d)'
    BY <1>1, <1>2, <1>5 DEF WriteEnd, Found, Inv, TypeOK, TableType
<1> QED BY <1>3, <1>4, <1>5, TableStep

LEMMA CreateInvCorrect == OneCreator /\ Spec => []CreateInv
<1>1. Init => CreateInv
    BY DEF Init, CreateInv, Creating, NoCall
<1>2. CASE OneCreator
    <2>1. Inv /\ CreateInv /\ [Next]_vars => CreateInv'
        BY <1>2, CreateStep
    <2> QED BY <1>1, <2>1, InvCorrect, PTL DEF Spec
<1> QED BY <1>2

-----------------------------------------------------------------------------
(* Messages stay within reach.  The strengthening is about the policies: until *)
(* a queue is deleted their targets are in the table.                          *)

Targets == \A o \in Object : DeadLetterQueue[o] # Nil => Live(DeadLetterQueue[o])

Reached(m) == \E n \in Name : Queues[n] # Nil /\ m \in Messages[Queues[n]]

KeptInv == ~deleted => Targets /\ \A m \in sent \ gone : Reached(m)

\* The table, the policies and the messages that there are stay as they are.
LEMMA KeptSame ==
    ASSUME KeptInv, UNCHANGED <<Queues, DeadLetterQueue, Messages, sent, gone, deleted>>
    PROVE  KeptInv'
BY DEF KeptInv, Targets, Live, Reached

\* No queue leaves the table, no policy changes, and messages leave their queues
\* only for good.
LEMMA KeptMore ==
    ASSUME Inv, KeptInv, UNCHANGED <<DeadLetterQueue, deleted>>,
           \A n \in Name : Queues[n] # Nil => Queues'[n] = Queues[n],
           \A m \in sent' \ gone' : m \in sent \ gone \/ Reached(m)',
           \A n \in Name : Queues[n] # Nil => Messages[Queues[n]] \subseteq Messages'[Queues[n]] \cup gone'
    PROVE  KeptInv'
<1> SUFFICES ASSUME ~deleted
             PROVE  KeptInv'
    BY DEF KeptInv
<1>1. Targets'
    BY DEF KeptInv, Targets, Live
<1>2. ASSUME NEW m \in sent' \ gone'
      PROVE  Reached(m)'
    <2>1. CASE Reached(m)'
        BY <2>1
    <2>2. CASE m \in sent \ gone
        <3>1. PICK n \in Name : Queues[n] # Nil /\ m \in Messages[Queues[n]]
            BY <2>2 DEF KeptInv, Reached
        <3>2. Queues'[n] = Queues[n] /\ m \in Messages'[Queues[n]]
            BY <1>2, <3>1
        <3> QED BY <3>1, <3>2 DEF Reached
    <2> QED BY <1>2, <2>1, <2>2
<1> QED BY <1>1, <1>2 DEF KeptInv

\* Redrive policies take the messages from queue to queue.
LEMMA KeptRedriven ==
    ASSUME Inv, KeptInv, NEW F \in SUBSET Object, NEW R,
           UNCHANGED <<Queues, DeadLetterQueue, sent, gone, deleted>>,
           Messages' = Redriven(F, R),
           \A o \in F : R \cap Messages[o] # {} => DeadLetterQueue[o] # Nil
    PROVE  KeptInv'
<1> SUFFICES ASSUME ~deleted
             PROVE  KeptInv'
    BY DEF KeptInv
<1>1. Targets'
    BY DEF KeptInv, Targets, Live
<1>2. ASSUME NEW m \in sent' \ gone'
      PROVE  Reached(m)'
    <2>1. PICK n \in Name : Queues[n] # Nil /\ m \in Messages[Queues[n]]
        BY <1>2 DEF KeptInv, Reached
    <2>2. Queues[n] \in Object
        BY <2>1, NilNotObject DEF Inv, TypeOK
    <2>3. CASE Queues[n] \in F /\ m \in R
        <3>1. DeadLetterQueue[Queues[n]] # Nil
            BY <2>1, <2>3
        <3>2. PICK k \in Name : Queues[k] = DeadLetterQueue[Queues[n]]
            BY <2>2, <3>1 DEF KeptInv, Targets, Live
        <3>3. Queues[k] \in Object /\ Queues[k] # Nil
            BY <3>1, <3>2, NilNotObject DEF Inv, TypeOK
        <3>4. m \in Redriven(F, R)[Queues[k]]
            BY <2>1, <2>3, <3>2, <3>3 DEF Redriven
        <3> QED BY <3>3, <3>4 DEF Reached
    <2>4. CASE ~(Queues[n] \in F /\ m \in R)
        <3>1. m \in Redriven(F, R)[Queues[n]]
            BY <2>1, <2>2, <2>4 DEF Redriven
        <3> QED BY <2>1, <3>1 DEF Reached
    <2> QED BY <2>3, <2>4
<1> QED BY <1>1, <1>2 DEF KeptInv

\* A policy is set: its target is in the table.
LEMMA KeptPolicy ==
    ASSUME Inv, KeptInv, NEW q \in Object, NEW w, NEW n, SetAttributes(q, w, n),
           UNCHANGED <<Queues, Messages, sent, gone, deleted>>
    PROVE  KeptInv'
<1>1. \A o \in Object : \/ DeadLetterQueue'[o] = DeadLetterQueue[o]
                        \/ \E k \in Name : Queues[k] = DeadLetterQueue'[o]
    BY DEF SetAttributes, Inv, TypeOK, TableType
<1>2. ~deleted => Targets'
    BY <1>1 DEF KeptInv, Targets, Live
<1> QED BY <1>2 DEF KeptInv, Reached

LEMMA KeptStep ==
    ASSUME OneCreator, Inv, MutexInv, CreateInv, KeptInv, [Next]_vars
    PROVE  KeptInv'
<1> SUFFICES ASSUME ~deleted'
             PROVE  KeptInv'
    BY DEF KeptInv
<1>1. ASSUME NEW c \in Client, WriteEnd(c)
      PROVE  KeptInv'
    <2>1. UNCHANGED deleted
        BY <1>1 DEF WriteEnd, Inv, TypeOK, TableType
    <2>2. pc[c] = "write" /\ UNCHANGED <<DeadLetterQueue, Messages, sent, gone>>
        BY <1>1 DEF WriteEnd, At, storeVars
    <2>3. CallOK(c, "write", call[c], allocated) /\ call[c].name \in Name
        BY <2>2, Active
    <2>4. ~Found(c)
        BY <1>1, <2>2, <2>3 DEF CallOK, Writers, WriteEnd, CreateInv, Creating
    <2>5. \A n \in Name : Queues[n] # Nil => Queues'[n] = Queues[n]
        BY <1>1, <2>4 DEF WriteEnd, Found, Inv, TypeOK, TableType
    <2>6. \A n \in Name : Queues[n] # Nil =>
            Messages[Queues[n]] \subseteq Messages'[Queues[n]] \cup gone'
        BY <2>2
    <2> QED BY <2>1, <2>2, <2>5, <2>6, KeptMore
<1>2. ASSUME NEW c \in Client, NEW m \in Msg, Send(c, m)
      PROVE  KeptInv'
    <2>1. pc[c] = "lock" /\ LookedUp(c) /\ UNCHANGED <<tableVars, gone>>
        BY <1>2 DEF Send, At, LookedUp, Users
    <2>2. Found(c) /\ call[c].name \in Name
        BY <2>1, Active DEF MutexInv, tableVars
    <2>3. Queues[call[c].name] \in Object
        BY <2>2, NilNotObject DEF Inv, TypeOK, Found
    <2>4. /\ Messages' = [Messages EXCEPT ![Queues[call[c].name]] = @ \cup {m}]
          /\ sent' = sent \cup {m}
        BY <1>2, <2>2 DEF Send
    <2>5. Reached(m)'
        BY <2>1, <2>2, <2>3, <2>4 DEF Reached, Found, tableVars, Inv, TypeOK, TableType
    <2>6. \A o \in Object : Messages[o] \subseteq Messages'[o]
        BY <2>4 DEF Inv, TypeOK, TableType
    <2>7. \A n \in Name : Queues[n] # Nil => Messages[Queues[n]] \subseteq Messages'[Queues[n]] \cup gone'
        BY <2>6, NilNotObject DEF Inv, TypeOK
    <2> QED BY <2>1, <2>4, <2>5, <2>7, KeptMore DEF tableVars
<1>3. ASSUME NEW c \in Client, ChangeMessageVisibility(c)
      PROVE  KeptInv'
    <2>1. pc[c] = "lock" /\ UNCHANGED <<tableVars, sent, gone>>
        BY <1>3 DEF ChangeMessageVisibility, At
    <2>2. CASE UNCHANGED Messages
        BY <2>1, <2>2, KeptSame DEF tableVars
    <2>3. CASE ~UNCHANGED Messages
        <3>1. Found(c) /\ call[c].name \in Name
            BY <1>3, <2>1, <2>3, Active DEF ChangeMessageVisibility
        <3> DEFINE o == Queues[call[c].name]
        <3>2. o \in Object
            BY <3>1, NilNotObject DEF Inv, TypeOK, Found
        <3>3. PICK m \in Messages[o] : \E R \in SUBSET {m} :
                 (R # {} => DeadLetterQueue[o] # Nil) /\ Messages' = Redriven({o}, R)
            BY <1>3, <2>3, <3>1 DEF ChangeMessageVisibility
        <3> HIDE DEF o
        <3> QED BY <2>1, <3>2, <3>3, KeptRedriven DEF tableVars
    <2> QED BY <2>2, <2>3
<1>4. ASSUME NEW E \in SUBSET hidden, NEW R \in SUBSET E, Sweep(E, R)
      PROVE  KeptInv'
    BY <1>4, KeptRedriven DEF Sweep, tableVars
<1>5. ASSUME NEW c \in Client, PurgeQueue(c) \/ \E D \in SUBSET Msg : Delete(c, D)
      PROVE  KeptInv'
    <2>1. pc[c] = "lock" /\ UNCHANGED <<tableVars, sent>>
        BY <1>5 DEF PurgeQueue, Delete, At
    <2>2. Found(c) => Queues[call[c].name] \in Object
        BY <2>1, Active, NilNotObject DEF Inv, TypeOK, Found
    <2>3. gone \subseteq gone' /\ \A o \in Object : Messages[o] \subseteq Messages'[o] \cup gone'
        <3>1. CASE PurgeQueue(c)
            BY <2>2, <3>1 DEF PurgeQueue, Inv, TypeOK, TableType
        <3>2. ASSUME NEW D \in SUBSET Msg, Delete(c, D)
              PROVE  gone \subseteq gone' /\ \A o \in Object : Messages[o] \subseteq Messages'[o] \cup gone'
            BY <2>2, <3>2 DEF Delete, Inv, TypeOK, TableType
        <3> QED BY <1>5, <3>1, <3>2
    <2>4. \A n \in Name : Queues[n] # Nil => Messages[Queues[n]] \subseteq Messages'[Queues[n]] \cup gone'
        BY <2>3, NilNotObject DEF Inv, TypeOK
    <2> QED BY <2>1, <2>3, <2>4, KeptMore DEF tableVars
<1>6. ASSUME NEW c \in Client, NEW w \in Waits, NEW n \in Name \cup {Nil},
             SetQueueAttributes(c, w, n) \/ \E q \in Object : CreateAttributes(c, q, w, n)
      PROVE  KeptInv'
    <2>1. CASE SetQueueAttributes(c, w, n)
        <3>1. pc[c] = "lock" /\ UNCHANGED <<Queues, deleted, storeVars>>
            BY <2>1 DEF SetQueueAttributes, At
        <3>2. CASE Found(c)
            <4>1. Queues[call[c].name] \in Object
                BY <3>1, <3>2, Active, NilNotObject DEF Inv, TypeOK, Found
            <4>2. SetAttributes(Queues[call[c].name], w, n)
                BY <2>1, <3>2 DEF SetQueueAttributes
            <4> QED BY <3>1, <4>1, <4>2, KeptPolicy DEF storeVars
        <3>3. CASE ~Found(c)
            BY <2>1, <3>1, <3>3, KeptSame DEF SetQueueAttributes, storeVars
        <3> QED BY <3>2, <3>3
    <2>2. ASSUME NEW q \in Object, CreateAttributes(c, q, w, n)
          PROVE  KeptInv'
        BY <2>2, KeptPolicy DEF CreateAttributes, storeVars
    <2> QED BY <1>6, <2>1, <2>2
<1>7. ASSUME NEW c \in Client,
             \/ Cancel(c) \/ (\E n \in Name : \E h \in Handlers[n] : Request(c, h, n))
             \/ Check(c) \/ WriteBegin(c) \/ ListEnd(c) \/ ListEntry(c)
             \/ (\E n \in Name : ListNext(c, n)) \/ SendRead(c) \/ ReceiveDefault(c)
             \/ ReceivePoll(c) \/ ReceiveTimer(c) \/ ReceiveGiveUp(c) \/ ReceiveTake(c)
             \/ GetQueueAttributes(c)
      PROVE  KeptInv'
    <2>1. UNCHANGED <<tableVars, Messages, sent, gone>>
        BY <1>7 DEF Cancel, Request, Check, WriteBegin, ListEnd, ListEntry, ListNext, SendRead,
           ReceiveDefault, ReceivePoll, ReceiveTimer, ReceiveGiveUp, ReceiveTake,
           GetQueueAttributes, storeVars
    <2> QED BY <2>1, KeptSame, SMTT(30) DEF tableVars
<1>8. CASE Crash \/ (\E m \in Msg : DelayPasses(m)) \/ UNCHANGED vars
    BY <1>8, KeptSame DEF Crash, DelayPasses, vars, tableVars, storeVars
<1>9. ASSUME NEW c \in Client, Step(c)
      PROVE  KeptInv'
    BY <1>1, <1>2, <1>3, <1>5, <1>6, <1>7, <1>9 DEF Step
<1> QED BY <1>4, <1>7, <1>8, <1>9 DEF Next

\* With one creator, and until a queue is deleted, no interleaving of sends, redrives,
\* purges and creations puts a message out of reach.
THEOREM KeptCorrect == OneCreator /\ Spec => []Kept
<1>1. Init => KeptInv
    BY DEF Init, KeptInv, Targets
<1>2. KeptInv => Kept
    BY DEF KeptInv, Reached, Kept
<1>3. CASE OneCreator
    <2>1. Inv /\ MutexInv /\ CreateInv /\ KeptInv /\ [Next]_vars => KeptInv'
        BY <1>3, KeptStep
    <2>2. Spec => []CreateInv
        BY <1>3, CreateInvCorrect
    <2> QED BY <1>1, <1>2, <2>1, <2>2, InvCorrect, MutexInvCorrect, PTL DEF Spec
<1> QED BY <1>3
=============================================================================
