----------------------------- MODULE QueueTable -----------------------------
(***************************************************************************)
(* The table of queues of GoAws, app.SyncQueues, and the SQS handlers that *)
(* look a queue up in it while others create and delete queues.            *)
(*                                                                         *)
(* Each client has one request at a time, served by a goroutine of its     *)
(* own.  A handler reads the table at first without the mutex, then waits  *)
(* for the mutex and reads it again; a step of this module lies between    *)
(* two such points.  A handler that dereferences a nil queue panics: the   *)
(* HTTP server drops the request, and what the handler holds of the mutex  *)
(* stays held.  What the handlers do to the messages of a queue is the     *)
(* subject of SQS; here a message is delayed, visible, hidden or gone.     *)
(***************************************************************************)
EXTENDS Naturals, FiniteSets

CONSTANTS
    Client,                 \* connections of the HTTP server
    Creators,               \* the clients that create queues
    Name,                   \* names of queues
    Object,                 \* bound: the Queue objects that may be allocated
    Msg,                    \* bound: the messages that may be sent
    Handlers,               \* name -> the handlers that clients call with it
    Waits,                  \* waiting times, in looks at the queue (0 for none)
    MaxEntries,             \* bound: entries of a batch
    LatencyMayHide,         \* whether getRandomLatency may hide a message
    Free,                   \* the mutex is free
    Nil                     \* a nil *Queue

AllHandlers ==
    {"CreateQueue", "DeleteQueue", "GetQueueUrl", "ListQueues", "SendMessage",
     "SendMessageBatch", "ReceiveMessage", "ChangeMessageVisibility", "DeleteMessage",
     "DeleteMessageBatch", "PurgeQueue", "SetQueueAttributes", "GetQueueAttributes"}

ASSUME TableAssumption ==
    /\ Creators \subseteq Client
    /\ Nil \notin Object
    /\ Free \notin Client
    /\ Handlers \in [Name -> SUBSET AllHandlers]
    /\ Waits \subseteq Nat /\ 0 \in Waits
    /\ MaxEntries \in Nat
    /\ LatencyMayHide \in BOOLEAN

VARIABLES
    Queues,                 \* name -> its queue, or Nil
    Messages,               \* queue -> its messages
    DeadLetterQueue,        \* queue -> the queue its redrive policy points to
    ReceiveWaitTimeSecs,    \* queue -> its own waiting time
    allocated,              \* the queues made so far
    hidden,                 \* the messages that are in flight
    delayed,                \* the messages whose DelaySecs have not passed
    lock,                   \* who holds the mutex for writing
    readers,                \* the clients that hold it for reading
    crashed                 \* the Go runtime has stopped the process

VARIABLES
    pc,                     \* client -> where its handler is
    call,                   \* client -> its request and the handler's locals
    sent,                   \* history: the messages put in a queue by a send
    gone,                   \* history: the messages deleted or purged
    deleted                 \* history: a DeleteQueue has taken a queue away

tableVars == <<Queues, allocated, DeadLetterQueue, ReceiveWaitTimeSecs, deleted>>
storeVars == <<Messages, hidden, delayed, sent, gone>>
mutexVars == <<lock, readers, crashed>>
clientVars == <<pc, call>>
vars == <<tableVars, storeVars, mutexVars, clientVars>>

\* What a handler works on; nothing between two requests.
NoCall ==
    [handler |-> "none",
     name |-> Nil,                  \* the queue it names
     loops |-> 0,                   \* ReceiveMessage: looks that are left
     queue |-> Nil,                 \* CreateQueue: the new queue
     left |-> {},                   \* the messages to send, or the names to list
     canceled |-> FALSE]            \* the client has given up

-----------------------------------------------------------------------------
(* Helpers. *)

\* Lock and RLock: a writer waits for everybody, a reader for writers.
CanLock == lock = Free /\ readers = {} /\ ~crashed
CanRLock == lock = Free /\ ~crashed

\* The handler of c stands at place p and may go on.
At(c, p) == pc[c] = p /\ ~crashed

Goto(c, p) == pc' = [pc EXCEPT ![c] = p]

\* The handler ends, and its request with it: it writes its answer, of whatever kind,
\* and returns, or panics, as it does with the errors that have no HTTP status.
Answer(c) == Goto(c, "idle") /\ call' = [call EXCEPT ![c] = NoCall]

Goes(c, p) == Goto(c, p) /\ UNCHANGED call

Found(c) == Queues[call[c].name] # Nil

Visible(o) == Messages[o] \ (hidden \cup delayed)

\* A nil dereference while c holds the mutex for writing, or for reading.
PanicLocked(c) ==
    /\ lock' = c
    /\ Answer(c)
    /\ UNCHANGED <<readers, crashed>>

PanicRLocked(c) ==
    /\ readers' = readers \cup {c}
    /\ Answer(c)
    /\ UNCHANGED <<lock, crashed>>

-----------------------------------------------------------------------------
(* Requests. *)

\* The place where a handler touches the table for the first time.
Start(h) ==
    CASE h \in {"CreateQueue", "GetQueueUrl", "SendMessage", "SendMessageBatch",
                "ReceiveMessage", "ChangeMessageVisibility"} -> "check"
      [] h = "ListQueues" -> "list"
      [] OTHER -> "lock"

\* What a request brings: its messages, the names ListQueues starts with.
Items(h) ==
    LET fresh == Msg \ (sent \cup UNION {call[d].left : d \in Client})
    IN  CASE h = "SendMessage" -> {{m} : m \in fresh}
          [] h = "SendMessageBatch" ->
                {S \in SUBSET fresh : Cardinality(S) \in 1..MaxEntries}
          [] h = "ListQueues" -> {{n \in Name : Queues[n] # Nil}}
          [] OTHER -> {{}}

\* There is an object left for one more CreateQueue (the model's bound).
ObjectLeft ==
    LET creating == {d \in Client : /\ call[d].handler = "CreateQueue"
                                    /\ pc[d] \in {"check", "attributes"}}
    IN  Cardinality(Object \ allocated) > Cardinality(creating)

Request(c, h, n) ==
    /\ At(c, "idle")
    /\ h = "CreateQueue" => c \in Creators /\ ObjectLeft
    /\ Goto(c, Start(h))
    /\ \E k \in IF h = "ReceiveMessage" THEN Waits ELSE {0}, S \in Items(h) :
          call' = [call EXCEPT ![c] =
                    [NoCall EXCEPT !.handler = h, !.name = n, !.loops = k, !.left = S]]
    /\ UNCHANGED <<tableVars, storeVars, mutexVars>>

\* The context of the request is canceled when its client goes away.
Cancel(c) ==
    /\ ~crashed /\ call[c].handler = "ReceiveMessage" /\ ~call[c].canceled
    /\ call' = [call EXCEPT ![c].canceled = TRUE]
    /\ UNCHANGED <<tableVars, storeVars, mutexVars, pc>>

\* (mutant) a queue is made without a look for the one there is
CreateAnyway(c) == Goes(c, "attributes")

CreateCheck(c) == IF Found(c) THEN Answer(c) ELSE Goes(c, "attributes")

GetQueueUrl(c) == Answer(c)

\* The handlers that go on with the queue they have found.
UseCheck(c) ==
    IF ~Found(c) THEN Answer(c)
    ELSE Goes(c, CASE call[c].handler = "SendMessage" -> "read"
                   [] call[c].handler = "ReceiveMessage" ->
                        IF call[c].loops = 0 THEN "default" ELSE "poll"
                   [] OTHER -> "lock")

\* The look without the mutex.
Check(c) ==
    /\ At(c, "check")
    /\ CASE call[c].handler = "CreateQueue" -> CreateCheck(c)
         [] call[c].handler = "GetQueueUrl" -> GetQueueUrl(c)
         [] OTHER -> UseCheck(c)
    /\ UNCHANGED <<tableVars, storeVars, mutexVars>>

-----------------------------------------------------------------------------
(* CreateQueue, DeleteQueue and ListQueues.  A write of the table is two   *)
(* steps: others may read the table, unlocked, in the middle of it.        *)

\* validateAndSetQueueAttributes on q with waiting time w, redrive target n:
\* the waiting time is set before the target is found missing.
SetAttributes(q, w, n) ==
    /\ ReceiveWaitTimeSecs' = [ReceiveWaitTimeSecs EXCEPT ![q] = IF w = 0 THEN @ ELSE w]
    /\ DeadLetterQueue' = IF n \in Name /\ Queues[n] # Nil
                          THEN [DeadLetterQueue EXCEPT ![q] = Queues[n]]
                          ELSE DeadLetterQueue

\* The policy names no queue, or is not given at all (n = Nil).
BadPolicy(n) == n \in Name /\ Queues[n] = Nil

CreateAttributes(c, q, w, n) ==
    /\ At(c, "attributes")
    /\ q \in Object \ allocated
    /\ allocated' = allocated \cup {q}
    /\ SetAttributes(q, w, n)
    /\ IF BadPolicy(n) THEN Answer(c)
       ELSE Goto(c, "lock") /\ call' = [call EXCEPT ![c].queue = q]
    /\ UNCHANGED <<Queues, deleted, storeVars, mutexVars>>

WriteBegin(c) ==
    /\ At(c, "lock") /\ call[c].handler \in {"CreateQueue", "DeleteQueue"}
    /\ CanLock
    /\ lock' = c
    /\ Goes(c, "write")
    /\ UNCHANGED <<tableVars, storeVars, readers, crashed>>

WriteEnd(c) ==
    /\ At(c, "write")
    /\ Queues' = [Queues EXCEPT ![call[c].name] = call[c].queue]
    /\ deleted' = (deleted \/ (call[c].handler = "DeleteQueue" /\ Found(c)))
    /\ lock' = Free
    /\ Answer(c)
    /\ UNCHANGED <<allocated, DeadLetterQueue, ReceiveWaitTimeSecs, storeVars, readers, crashed>>

\* The next queue of the iteration, if it is still in the table, and the
\* critical section that looks at its name.
ListNext(c, n) ==
    /\ At(c, "list")
    /\ n \in call[c].left
    /\ call' = [call EXCEPT ![c].left = @ \ {n}]
    /\ Goto(c, IF Queues[n] = Nil THEN "list" ELSE "lock")
    /\ UNCHANGED <<tableVars, storeVars, mutexVars>>

ListEntry(c) ==
    /\ At(c, "lock") /\ call[c].handler = "ListQueues"
    /\ CanLock
    /\ Goes(c, "list")
    /\ UNCHANGED <<tableVars, storeVars, mutexVars>>

ListEnd(c) ==
    /\ At(c, "list") /\ call[c].left = {}
    /\ Answer(c)
    /\ UNCHANGED <<tableVars, storeVars, mutexVars>>

\* The runtime may find out that the table is read while it is written.
Crash ==
    /\ ~crashed
    /\ \E c, d \in Client : pc[c] = "write" /\ pc[d] \in {"check", "read", "attributes", "list"}
    /\ crashed' = TRUE
    /\ UNCHANGED <<tableVars, storeVars, lock, readers, clientVars>>

-----------------------------------------------------------------------------
(* Sending. *)

\* The attributes are read without the mutex: a panic here holds nothing.
SendRead(c) ==
    /\ At(c, "read")
    /\ IF Found(c) THEN Goes(c, "lock") ELSE Answer(c)
    /\ UNCHANGED <<tableVars, storeVars, mutexVars>>

\* SendMessage, or the next entry of SendMessageBatch.
Send(c, m) ==
    /\ At(c, "lock") /\ call[c].handler \in {"SendMessage", "SendMessageBatch"}
    /\ m \in call[c].left
    /\ CanLock
    /\ IF Found(c)
       THEN /\ Messages' = [Messages EXCEPT ![Queues[call[c].name]] = @ \cup {m}]
            /\ sent' = sent \cup {m}
            /\ delayed' \in {delayed, delayed \cup {m}}
            /\ IF call[c].left = {m} THEN Answer(c)
               ELSE Goto(c, "lock") /\ call' = [call EXCEPT ![c].left = @ \ {m}]
            /\ UNCHANGED mutexVars
       ELSE PanicLocked(c) /\ UNCHANGED <<Messages, sent, delayed>>
    /\ UNCHANGED <<tableVars, hidden, gone>>

\* The delay of the request, or of its queue, is over.
DelayPasses(m) ==
    /\ ~crashed /\ m \in delayed
    /\ delayed' = delayed \ {m}
    /\ UNCHANGED <<tableVars, Messages, hidden, sent, gone, mutexVars, clientVars>>

-----------------------------------------------------------------------------
(* ReceiveMessage. *)

\* Without a WaitTimeSeconds of its own the request takes the queue's.
ReceiveDefault(c) ==
    /\ At(c, "default")
    /\ CanRLock
    /\ IF Found(c)
       THEN /\ call' = [call EXCEPT ![c].loops = ReceiveWaitTimeSecs[Queues[call[c].name]]]
            /\ Goto(c, "poll")
            /\ UNCHANGED mutexVars
       ELSE PanicRLocked(c)
    /\ UNCHANGED <<tableVars, storeVars>>

\* (mutant) the loop does not look at its counter
ReceivePollEndless(c) ==
    /\ At(c, "poll")
    /\ CanRLock
    /\ IF ~Found(c) THEN Answer(c)
       ELSE Goes(c, IF Visible(Queues[call[c].name]) # {} THEN "lock" ELSE "wait")
    /\ UNCHANGED <<tableVars, storeVars, mutexVars>>

\* One look at the queue, while looks are left.
ReceivePoll(c) ==
    /\ At(c, "poll")
    /\ IF call[c].loops = 0 THEN Goes(c, "lock")
       ELSE /\ CanRLock
            /\ IF ~Found(c) THEN Answer(c)
               ELSE Goes(c, IF Visible(Queues[call[c].name]) # {} THEN "lock" ELSE "wait")
    /\ UNCHANGED <<tableVars, storeVars, mutexVars>>

\* (mutant) a look that found nothing is not counted
ReceiveTimerUncounted(c) ==
    /\ At(c, "wait")
    /\ Goes(c, "poll")
    /\ UNCHANGED <<tableVars, storeVars, mutexVars>>

\* The timer fires.  When the client is gone too, select takes either branch.
ReceiveTimer(c) ==
    /\ At(c, "wait")
    /\ call' = [call EXCEPT ![c].loops = @ - 1]
    /\ Goto(c, "poll")
    /\ UNCHANGED <<tableVars, storeVars, mutexVars>>

ReceiveGiveUp(c) ==
    /\ At(c, "wait") /\ call[c].canceled
    /\ Answer(c)
    /\ UNCHANGED <<tableVars, storeVars, mutexVars>>

\* The scan, for at most one message.
ReceiveTake(c) ==
    /\ At(c, "lock") /\ call[c].handler = "ReceiveMessage"
    /\ CanLock
    /\ IF Found(c)
       THEN LET visible == Visible(Queues[call[c].name])
            IN  /\ \/ \E m \in visible : hidden' = hidden \cup {m} /\ Answer(c)
                   \/ /\ visible = {} \/ LatencyMayHide
                      /\ Answer(c)
                      /\ UNCHANGED hidden
                /\ UNCHANGED mutexVars
       ELSE PanicLocked(c) /\ UNCHANGED hidden
    /\ UNCHANGED <<tableVars, Messages, delayed, sent, gone>>

-----------------------------------------------------------------------------
(* The other users of the mutex. *)

Live(o) == \E n \in Name : Queues[n] = o

\* The messages of R leave the queues of F for their dead-letter queues.
Redriven(F, R) ==
    [o \in Object |->
        (Messages[o] \ (IF o \in F THEN R ELSE {}))
            \cup UNION {R \cap Messages[p] : p \in {k \in F : DeadLetterQueue[k] = o}}]

\* A message is released, redriven or kept for longer, or none is found.
ChangeMessageVisibility(c) ==
    /\ At(c, "lock") /\ call[c].handler = "ChangeMessageVisibility"
    /\ CanLock
    /\ IF Found(c)
       THEN /\ LET o == Queues[call[c].name]
               IN  \/ \E m \in Messages[o] : \E R \in SUBSET {m} :
                         /\ R # {} => DeadLetterQueue[o] # Nil
                         /\ Messages' = Redriven({o}, R)
                         /\ hidden' \in {hidden \ {m}, hidden \ R}
                         /\ Answer(c)
                   \/ Answer(c) /\ UNCHANGED <<Messages, hidden>>
            /\ UNCHANGED mutexVars
       ELSE PanicLocked(c) /\ UNCHANGED <<Messages, hidden>>
    /\ UNCHANGED <<tableVars, delayed, sent, gone>>

\* DeleteMessage and DeleteMessageBatch, and PurgeQueue, look the queue up under
\* the mutex.  Entries that match no message are passed over.
Delete(c, D) ==
    /\ At(c, "lock") /\ call[c].handler \in {"DeleteMessage", "DeleteMessageBatch"}
    /\ CanLock
    /\ Cardinality(D) <= IF call[c].handler = "DeleteMessage" THEN 1 ELSE MaxEntries
    /\ D # {} => Found(c) /\ D \subseteq Messages[Queues[call[c].name]]
    /\ Messages' = IF D = {} THEN Messages
                   ELSE [Messages EXCEPT ![Queues[call[c].name]] = @ \ D]
    /\ hidden' = hidden \ D /\ gone' = gone \cup D
    /\ Answer(c)
    /\ UNCHANGED <<tableVars, delayed, sent, mutexVars>>

PurgeQueue(c) ==
    /\ At(c, "lock") /\ call[c].handler = "PurgeQueue"
    /\ CanLock
    /\ IF Found(c)
       THEN LET o == Queues[call[c].name]
            IN  /\ Messages' = [Messages EXCEPT ![o] = {}]
                /\ hidden' = hidden \ Messages[o] /\ gone' = gone \cup Messages[o]
                /\ Answer(c)
       ELSE Answer(c) /\ UNCHANGED <<Messages, hidden, gone>>
    /\ UNCHANGED <<tableVars, delayed, sent, mutexVars>>

\* (mutant) the error path forgets the mutex
SetQueueAttributesHolding(c, w, n) ==
    /\ At(c, "lock") /\ call[c].handler = "SetQueueAttributes"
    /\ CanLock
    /\ IF Found(c)
       THEN /\ SetAttributes(Queues[call[c].name], w, n)
            /\ Answer(c)
            /\ lock' = IF BadPolicy(n) THEN c ELSE Free
       ELSE Answer(c) /\ UNCHANGED <<ReceiveWaitTimeSecs, DeadLetterQueue, lock>>
    /\ UNCHANGED <<Queues, allocated, deleted, storeVars, readers, crashed>>

SetQueueAttributes(c, w, n) ==
    /\ At(c, "lock") /\ call[c].handler = "SetQueueAttributes"
    /\ CanLock
    /\ IF Found(c)
       THEN /\ SetAttributes(Queues[call[c].name], w, n)
            /\ Answer(c)
       ELSE Answer(c) /\ UNCHANGED <<ReceiveWaitTimeSecs, DeadLetterQueue>>
    /\ UNCHANGED <<Queues, allocated, deleted, storeVars, mutexVars>>

GetQueueAttributes(c) ==
    /\ At(c, "lock") /\ call[c].handler = "GetQueueAttributes"
    /\ CanRLock
    /\ Answer(c)
    /\ UNCHANGED <<tableVars, storeVars, mutexVars>>

\* PeriodicTasks: the messages of E are visible again, those of R redriven.
\* It follows the pointer of a redrive policy, not the table.
Sweep(E, R) ==
    /\ CanLock
    /\ \A m \in E : \E o \in Object : Live(o) /\ m \in Messages[o]
    /\ \A o \in Object : R \cap Messages[o] # {} => DeadLetterQueue[o] # Nil
    /\ Messages' = Redriven({o \in Object : Live(o)}, R)
    /\ hidden' = hidden \ E
    /\ UNCHANGED <<tableVars, delayed, sent, gone, mutexVars, clientVars>>

-----------------------------------------------------------------------------
Init ==
    /\ Queues = [n \in Name |-> Nil]
    /\ Messages = [o \in Object |-> {}]
    /\ DeadLetterQueue = [o \in Object |-> Nil]
    /\ ReceiveWaitTimeSecs = [o \in Object |-> 0]
    /\ allocated = {} /\ hidden = {} /\ delayed = {}
    /\ lock = Free /\ readers = {} /\ crashed = FALSE
    /\ pc = [c \in Client |-> "idle"]
    /\ call = [c \in Client |-> NoCall]
    /\ sent = {} /\ gone = {} /\ deleted = FALSE

\* A step of the goroutine that serves c.
Step(c) ==
    \/ Check(c) \/ WriteBegin(c) \/ WriteEnd(c) \/ ListEnd(c)
    \/ ListEntry(c) \/ \E n \in Name : ListNext(c, n)
    \/ \E w \in Waits, n \in Name \cup {Nil} :
          \/ \E q \in Object : CreateAttributes(c, q, w, n)
          \/ SetQueueAttributes(c, w, n)
    \/ SendRead(c) \/ \E m \in Msg : Send(c, m)
    \/ ReceiveDefault(c) \/ ReceivePoll(c) \/ ReceiveTimer(c) \/ ReceiveGiveUp(c)
    \/ ReceiveTake(c)
    \/ ChangeMessageVisibility(c) \/ (\E D \in SUBSET Msg : Delete(c, D))
    \/ PurgeQueue(c) \/ GetQueueAttributes(c)

Next ==
    \/ \E c \in Client :
        \/ \E n \in Name : \E h \in Handlers[n] : Request(c, h, n)
        \/ Cancel(c) \/ Step(c)
    \/ \E m \in Msg : DelayPasses(m)
    \/ \E E \in SUBSET hidden : \E R \in SUBSET E : Sweep(E, R)
    \/ Crash

Spec == Init /\ [][Next]_vars

\* A goroutine that can go on does so, and the mutex starves nobody.
FairSpec == Spec /\ \A c \in Client : SF_vars(Step(c))

-----------------------------------------------------------------------------
(* What the table and the mutex promise. *)

Places == {"idle", "check", "attributes", "read", "default", "poll", "wait", "lock", "list",
           "write"}

Calls ==
    [handler : AllHandlers \cup {"none"}, name : Name \cup {Nil}, loops : Nat,
     queue : allocated \cup {Nil}, left : SUBSET (Msg \cup Name), canceled : BOOLEAN]

TableType ==
    /\ Queues \in [Name -> allocated \cup {Nil}]
    /\ Messages \in [Object -> SUBSET sent]
    /\ DeadLetterQueue \in [Object -> allocated \cup {Nil}]
    /\ ReceiveWaitTimeSecs \in [Object -> Waits]
    /\ allocated \subseteq Object
    /\ hidden \subseteq sent /\ delayed \subseteq sent /\ gone \subseteq sent /\ sent \subseteq Msg
    /\ lock \in Client \cup {Free} /\ readers \subseteq Client /\ crashed \in BOOLEAN
    /\ deleted \in BOOLEAN

ClientType ==
    /\ pc \in [Client -> Places]
    /\ call \in [Client -> Calls]
    /\ \A c \in Client : pc[c] = "idle" <=> call[c] = NoCall

\* Every variable has its type; only queues that were made are in the table or
\* the target of a policy, and a client that is idle has no call.
TypeOK == TableType /\ ClientType

\* Every request ends, with an answer or a panic, unless the process has stopped:
\* long polls end, batches end, and nobody waits for ever for the mutex.  The code keeps this
\* as long as a queue is not deleted while a handler that has looked it up
\* waits for the mutex; TestReceiveMessage_WithConcurrentDeleteQueue
\* (gosqs_test.go:1231) wants it then, too.
Answered ==
    \A c \in Client : pc[c] # "idle" ~> pc[c] = "idle" \/ crashed

\* While no queue has been deleted, the mutex is held only by a handler that is in
\* its critical section: no handler returns, by whatever path, and leaves it locked.
MutexOwned ==
    ~deleted => (lock \in Client => pc[lock] = "write") /\ readers = {}

\* While no queue has been deleted, a message that was sent can be reached through
\* the table until it is deleted or purged, wherever redrive policies made at any
\* time take it.
Kept ==
    ~deleted => \A m \in sent \ gone : \E n \in Name : Queues[n] # Nil /\ m \in Messages[Queues[n]]
=============================================================================
