# A TLA+ development of GoAws

GoAws (`src/`) is a local stand-in for Amazon SQS and SNS: one Go process that keeps queues,
messages, topics and subscriptions in memory and serves them over HTTP. This directory models
its message store, its table of queues, its topics and its start-up, model-checks them with TLC,
shows that the store and the topics implement abstract specifications, and proves the safety
properties of all four with TLAPS, for any number of queues, messages, clients, topics, subscriptions and
files.

## 1. Inventory

| Part | Source | State | Operations |
|---|---|---|---|
| Message store | `app/gosqs/gosqs.go`, `app/sqs.go` | per queue: `Messages`, `FIFOMessages` (group locks), `FIFOSequenceNumbers`, `Duplicates`; per message: `ReceiptHandle`, `VisibilityTimeout`, `Retry`, `SentTime`/`DelaySecs` | SendMessage, SendMessageBatch, ReceiveMessage, DeleteMessage, DeleteMessageBatch, PurgeQueue, ChangeMessageVisibility, PeriodicTasks |
| Queue table | `gosqs.go`, `queue_attributes.go`, `app.SyncQueues` | the map of queues, its RWMutex, each queue's attributes | CreateQueue, DeleteQueue, ListQueues, GetQueueUrl, Get/SetQueueAttributes, and the look-ups of every other handler |
| SNS | `app/gosns/gosns.go`, `app/sns.go`, `app/sns_messages.go` | `SyncTopics` (map, mutex), subscriptions, `TOPIC_DATA` | topic and subscription operations, Publish, ConfirmSubscription |
| Configuration | `app/conf/config.go`, `app/common.go` | fills both tables at start-up, holding both mutexes | LoadYamlConfig |
| Router | `app/router/router.go` | none | dispatch by `Action` |
| Process, test server | `app/cmd/goaws.go`, `app/servertest/server.go` | none of their own | start the sweep and the listeners |
| Hashing, attributes, XML | `app/common`, `message_attributes.go`, `sqs_messages.go` | none | pure functions, structures |

**How they interact.** Every request runs in a goroutine of net/http and calls one handler of the
router's table. Handlers and the periodic sweep share the tables; `SyncQueues` has one mutex for
all queues. Publish (SNS) appends to queues through the same table. A redrive policy is a pointer
from a queue to its dead-letter queue, followed by the sweep and by ChangeMessageVisibility.

**What is hard.** Loops that remove from the list they walk (`PeriodicTasks`); a FIFO scan that
marks messages before it knows whether it may return them; maps that are replaced where an entry
was meant to be added (`LockGroup`, `NextSequenceNumber`); handles that outlive their receive;
look-ups without the mutex that are relied upon after taking it; long polls that race deletions,
other receivers, timers and canceled clients. The full list, each hazard at its line with the
properties that cover it, is `hazards` in `PROJECT.json`. The README of the repository is
`src/.github/README.md`, the sample configuration `src/app/conf/goaws.yaml`; neither states more
about the behaviour than which calls exist, so the promises below come from the code's comments,
its messages and its tests.

**What makes each part correct.** Store: no accepted message is lost or copied, a message has one
consumer at a time, stale handles do nothing, deliveries are bounded and end in the dead-letter
queue, groups are exclusive, an id blocks for its period and no longer. Table: messages
stay within reach, the mutex is always released, every request ends. SNS: a publication reaches each
subscriber once, one address is not subscribed twice, subscriptions removed are the ones named. Configuration: start-up leaves both mutexes free.

## 2. How the development is organised

| Part | Model | Model-checking module | Proofs |
|---|---|---|---|
| Store | `SQS`, `SQSProperties` | `MCStandard`, `MCFifo`, `MCDedup` | `SQSProofs`, `SQSClientProofs` |
| Store, abstractly | `MessageLife`, `SQSRefinement` | `MCStandard` | `SQSRefinementProofs` |
| Queue table | `QueueTable` | `MCQueueTable` | `QueueTableProofs` |
| SNS | `Topics` | `MCTopics` | `TopicsProofs`, `TopicsPublishProofs` |
| SNS, abstractly | `SubscriberSets`, `TopicsRefinement` | `MCTopics` | `TopicsRefinementProofs` |
| Start-up | `Start` | `MCStart` | `StartProofs` |

The parts meet at narrow places, and each model carries what it needs of its neighbours. `SQS`
takes the queues and their attributes as constants and models what happens to messages; `QueueTable`
lets queues and attributes change and keeps of messages only that they are delayed, visible, hidden or gone;
`Topics` keeps of queues only that they exist, because that is all publishSQS asks. `Start` is how the
tables come to be: requests can build whatever the loader leaves of queues, so `QueueTable` starts empty;
they cannot build every list of subscriptions that a file can bring, so `Topics` starts with any table
that a file leaves (`Loaded`). What would come next: publishSQS appending to the list of
`SQS` (it ignores the queue's group locks, deduplication and delay), and the report of
DeleteMessageBatch compared with the entries that matched.

## 3. Modules

### `SQS`: the store

Each handler that visits one message under the mutex is one action. Three loops hold the mutex for
many steps and are modelled one iteration at a time, `lock` naming the loop and `cur`, `idx`,
`want`, `todo`, `batch` its locals: the scan of ReceiveMessage (`ReceiveSkip`, `ReceiveNotReady`,
`ReceiveHide`, `ReceiveReturn`, `ReceiveEnd`), the sweep (`SweepQueue`, `SweepKeep`, `SweepExpire`,
`SweepRedrive`, `SweepQueueEnd`, `SweepEnd`; Go visits the map of queues in any order) and the batch
deletion. SendMessageBatch locks once per entry, so an entry is an action.

- An *instant* is the number of ticks until it: `VisibilityTimeout` 0 means passed. `Tick` is the
  clock; it may strike inside a loop, which reads the clock at every message.
- A *receipt handle* is the message and a number, fresh at each receive as a UUID is; `NoHandle`
  is the blank string. `received` has the handles that clients have seen: a handle given to a
  message that a FIFO scan then hides is never among them. `BlankHandles` lets requests carry a
  blank one.
- ChangeMessageVisibility refuses only timeouts above 43200, so `Visibility` has negative ones too: such
  a timeout is over at once. A delay may be negative likewise. The queues' own timeouts are natural
  numbers.
- `Messages` keeps the order and the positions, because the code deletes and redrives by position.
- `Redriven` appends before it removes, as the code does; it is right also when a queue is its own
  dead-letter queue, or when policies form a cycle.
- History variables (`minted`, `received`, `delivered`, `lease`, `window`, `fate`) are read by
  properties, by the sets that requests choose from, and by bounds. Fields of a message that has
  gone are reset, so that states do not differ in dead data.
- Queues and attributes are constants of a behaviour; changing them is the subject of `QueueTable`.
- Bodies, attributes, MD5 sums, error answers and request limits are left out: they change no state.

### `SQSProperties`: what the store promises

`NoLossNoDuplication`, `LeaseRespected`, `DeliveryBound`, `DeadLetterEarned`, `DeletedByHolder`,
`ReleasedFromFlight`, `DelayRespected`, `LockOwnership`, `GroupExclusive`, `RegisteredIsQueued`,
`DedupWindow`, and the progress properties `DedupReleased`, `InFlightEnds`, `Drains`, `LocksEnd`;
each has its reason in a comment. `DeliveryInv` and `LeaseInv` are the strengthenings that the
proofs use.

### `QueueTable`: the table, the mutex and the handlers around them

One request at a time per client; `pc` says where its handler is, `call` keeps its locals. A step
lies between two points at which another goroutine can interfere: the unlocked look-up (`check`),
SendMessage's unlocked reads (`read`), CreateQueue's unlocked attributes (`attributes`), the read
lock of a long poll (`default`, `poll`), the timer (`wait`), the critical section (`lock`), and the
middle of a write of the map (`write`). In particular:

- A nil queue dereferenced under the mutex panics; net/http recovers, the request is over for its
  client, and nothing unlocks (`PanicLocked`, `PanicRLocked`): the handlers use no `defer`.
- `Crash` is the Go runtime's "concurrent map read and map write": possible, never certain.
- `Sweep` and `Redriven` follow the pointer of the policy, even to a queue no longer in the table.
- A handler ends with an answer or a panic (`Answer`): errors without an HTTP status (gosqs.go:283, 533,
  537, 619) panic in WriteHeader, outside the mutex, and end the request no less.
- What handlers do to messages is coarser than in `SQS`: delayed (until `DelayPasses`), visible, hidden or
  gone, and ReceiveMessage takes at most one. A waiting writer also keeps new readers out of a Go RWMutex;
  that only delays them and is left out.
- Waiting times are counted in looks (`loops`); the queue's own waiting time is copied under the
  read lock, as in the code.

### `MessageLife` and `SQSRefinement`: what the store amounts to

`MessageLife` has no lists, positions, loops, locks or clocks: a message is accepted or refused,
taken under a fresh handle, comes back (to its queue, or to the dead-letter queue when it has come
back too often), is deleted by a consumer that was given its handle, or purged. `SQSRefinement` maps
the store to it: `place` is the queue whose list has the message, `holder` its `ReceiptHandle`,
`count` its `Retry`, `used` the handles minted, `seen` those returned. `Implements` says that every
step of the store is such a step of one message, or none; the code's removals by position, which
walk a list while they change it, must therefore hit the message they mean. With `BlankHandles` a
request without a handle may release or delete a visible message, in both.

### `Topics`: topics, subscriptions and publishing

One request at a time per client, as in `QueueTable`; every SNS handler is there. The table of
topics is read without the mutex (`check`, `topics`, `array`) and written with it; a write is two
steps, so that an unlocked reader can meet it (`Crash`, "concurrent map read and map write").

- Requests name a topic by an *ARN*, of which the code uses the last segment (`TopicName`), while the
  duplicate check of Subscribe compares endpoint and ARN as they are spelled (`Address`, `Duplicates`).
  Two ARNs that end in one name can so subscribe an endpoint twice.
- `Init` is any table of `Loaded`, and `LoadedAssumption` is all that is assumed of it: names do not share a
  topic, entries do not share a subscription. The loader looks neither for duplicates nor at the ARNs
  that HTTP entries bring (config.go:166 and 178).
- A topic's subscriptions are a Go slice, and are modelled as one: a *header* of two words
  (`array`, `length`), which `RangeArray` and `RangeLength` read one after the other, and arrays
  (`cell`) that outlive the header. `append` doubles a full array, so an array of a topic is named
  by its capacity. `SubscribeBegin`/`SubscribeEnd` and `UnsubscribeShift`/`UnsubscribeCut` are the
  two halves of the critical sections that a reader without the mutex can look between.
- A reader that got an old array with a newer length walks past the array's end: `RangeWild` ends
  the request or the process. A nil entry is a panic (`RangeNil`). net/http recovers panics; a mutex
  the handler held stays locked (`SubscribePanic`, `UnsubscribePanic`, `PublishAppend`).
- Publish serves one entry per round: `PublishEntry` decides by protocol and filter, `PublishPost`
  is publishHTTP, `PublishQueue` the unlocked look-up of publishSQS, `PublishAppend` its append
  under the mutex of the queues. `due` and `got` are the history that `PublishedOnce` compares: `Due`
  is taken when the range statement reads the slice, but for a last entry that is being cut off; an
  Unsubscribe releases the entries from its position on (`Moved`), which it takes away or moves, a new
  filter or the deletion of a queue releases the subscriptions it concerns.
- `TopicData` is TOPIC_DATA, one pending confirmation per topic ARN. ConfirmSubscription changes
  nothing; it answers or panics.
- Subscriptions whose protocol is neither sqs nor http(s) are ignored by Publish and left out.
  Signatures, the text of messages and the XML are left out.

### `SubscriberSets` and `TopicsRefinement`: a set per topic

What the slices stand for. A topic is created or dropped with all it has; a subscription is
registered for an *address* (endpoint and topic ARN) that its topic lacks, joins the topic, leaves it; the
process may stop while some have not joined. Any sets that do not share a subscription may be there at
the start. `Create` gives a name an empty topic, also one that has a topic, because CreateTopic looks first
and writes later (gosns.go:115 and 127). `TopicsRefinement` maps the slices to it: `members` is what lies in the slots of the
topic's slice, nil entries aside, `address` what subscriptions were made for, `pending` the nil entries
whose subscription `Subscribe` is about to store. `SubscribeBegin` is `Register`, `SubscribeEnd`
is `Join`, a crash is `Abandon`. A removal has two steps, and either may be the `Leave`: the shift
copies entries over the one to go, the cut drops the last slot, which the shift has left in the list
twice; when the position was stale, or the entry the last, it is the cut that loses one. `Implements`
says that whatever is interleaved, no step loses or repeats another subscription.

### `Start`: main and the loader

`ReadFile`, one step per entry of `queues`, of the policies and of the subscriptions of `topics`,
then `Unlock`; or `ReturnEarly` from three places, with both mutexes still locked. A queue is a
number in `queue`, the list of objects made so far, so that an entry that replaces another queue of
its name leaves the old object to the policies that point to it. `Listen` and `PeriodicTasks` follow
whatever the loader returned. Timeouts and counts are natural numbers; negative ones in a file are
not considered. That the region of the file is overwritten by its default (config.go:53-57), ports,
host and log file have no effect on the tables and are left out.

### Model-checking modules

`MCStandard`, `MCFifo`, `MCDedup` give `SQS` its queues: a main queue with `maxReceiveCount` 1 and a
dead-letter queue, FIFO or not; `MCFifo` has messages of groups a, b, a, `MCDedup` three messages of
one id in two groups. `MCQueueTable` and `MCTopics` name sets of handlers and what requests carry,
`MCStart` the files. Symmetry over messages (and queue
objects) is used in safety runs only.

## 4. Runs

Passing:

| Run | What it asks | Bounds that matter |
|---|---|---|
| `standard` | TypeOK, LeaseRespected, DeletedByHolder, ReleasedFromFlight, DeadLetterEarned, Implements | 3 messages, 3 handles each, scans of 2, timeouts of -1, 0 and 2 ticks requested over a timeout of 1 |
| `blank` | NoLossNoDuplication, DeliveryBound, DelayRespected and the two strengthenings, with blank handles, batches of 2, a queue delay of 1 and a latency of 0 or 1 | 2 messages, timeouts of -1, 0 and 1 requested |
| `dedup` | RegisteredIsQueued, DedupReleased, LocksEnd, LockOwnership | a FIFO queue, 3 messages of one id and two groups, period 1, purges, polling consumers |
| `fifo` | InFlightEnds, Drains | 2 messages of one group, FIFO dead-letter queue, releases, purges, polling consumers |
| `table_all` | TypeOK, MutexOwned, Kept | all handlers on n1, a second queue that comes and goes, 2 clients, 1 creator, 2 queue objects, 1 message, policies set at any time |
| `table_safe` | Answered | all handlers but DeleteQueue, batches of 2, 2 messages, polls of one look, canceled clients |
| `topics` | TypeOK, WellFormed, MutexOwned, SubscribedOnce, LeavesByName, PublishedOnce, Implements | 2 clients, 1 topic name with 2 ARNs, an empty table and one with a subscription, 2 subscriptions (slices of capacity 0, 1, 2), a queue that comes and goes, an HTTP endpoint, 1 deletion |
| `start` | TypeOK, TargetsInTable, TablesAsConfigured, ComesUp | 2 queue entries of equal or different names with every kind of policy, up to 2 topics with up to 2 subscriptions |

Why the bounds are enough: `maxReceiveCount` 1 needs two returns before the redrive, so three
handles per message reach the redrive, the state after it and one more receive. Three messages
are what the sweep's double advance needs (one removed, two skipped), two groups what
`LockGroup` needs to forget one, three messages of one id what an old registration, a new one and a
duplicate need. `MaxHandles` bounds receives in the guard of `ReceiveMessage`; it never stops a main
queue from draining, because a message there has been minted at most `Retry + 1 <= 2` handles when it
is visible for the last time. In the dead-letter queue the bound does stop receives, so `Drains` speaks of
queues with a redrive policy; `LocksEnd` is checked without releases, so that the first message a left-over
lock hides still has a handle. Two clients suffice in the table, since every
hazard there is between one handler and one other; so in `topics`, where one of them publishes or
deletes while the other makes and removes subscriptions. Two subscriptions make `append` grow a
slice from capacity 0 to 1 and from 1 to 2 under a reader, and give a removal an entry to move up. The file's table has the
endpoint of the queue under one ARN and requests spell another, so that an endpoint subscribed twice is among the
lists that publishers and removals meet.
GetSubscriptionAttributes, ListSubscriptions and ListSubscriptionsByTopic are not called in `topics`:
they share the iteration of SetSubscriptionAttributes and Publish and change nothing. One client
subscribes, as the critical sections of two subscribers cannot mix, and the run's attribute
is FilterPolicy. Messages without a default entry, which end a Publish, and RawMessageDelivery, which
only chooses the subscriptions that do so, are not among the run's inputs. The proofs cover all of them.

Runs that find a disagreement between code and what its tests or comments say (`findings` in
`PROJECT.json` quotes the line):

| Run | Property | What happens |
|---|---|---|
| `dedup_window` | DedupWindow | an old message's deletion forgets a newer registration |
| `fifo_groups` | GroupExclusive | locking a second group unlocks the first |
| `table_delete` | Answered | a panic under the mutex blocks the server |
| `topics_confirm` | ConfirmationWorks | the next HTTP subscription by the same ARN replaces the pending confirmation |

Behaviours of the code that the models contain and a reader should know, without a run of their own:
a DeleteMessage or ChangeMessageVisibility without ReceiptHandle acts on the first visible message
(`blank` covers the store's invariants under it; `DeletedByHolder` and `ReleasedFromFlight` then
fail); SendMessageBatch ignores the queue's DelaySeconds; a deduplication id stays registered for
ever in a queue that a redrive has emptied; two long polls that see the same message may end with
one empty answer before its time; a poll whose client has gone may still take one message for it,
when the message and the cancellation are ready together; in a FIFO queue a message that the scan
marks and does not return counts a retry when its timeout ends, so that it can reach the dead-letter
queue without a delivery (`DeadLetterEarned` is for standard queues); DeleteMessageBatch never reports
"Message not found", because it marks a copy of the entry; a file that cannot be loaded in full
leaves both mutexes locked, and the server listens all the same; a Publish of structure "json" without
a default entry panics in the middle of its subscribers; publishSQS ignores the group, deduplication
and delay of its queue; two creators of one queue both succeed, and the second queue replaces the first
with its messages (gosqs.go:129 and 147), as a topic does with its subscriptions; an endpoint is in a topic
twice, and gets publications twice, when it subscribes under two ARNs that end in the topic's name, or
when a file brings it, once more or under another ARN: so does the entry of goaws.yaml:36-38 after a
Subscribe of the same endpoint to local-topic3.

**Fairness.** `FairSpec` of the store: a loop that holds the mutex runs to its end, time passes, and
the ticker of PeriodicTasks gets the mutex in its turn (strong fairness: Go's mutex hands itself to a
waiter that has starved for a millisecond, while other requests come and go). No client has to do
anything. `Drains` and `LocksEnd` speak of consumers that keep polling, so `PollingSpec` adds strong
fairness of ReceiveMessage on each queue; `InFlightEnds` and `DedupReleased` share
their runs but need only the sweep.
`fifo` allows releases but no extensions, since a client that extends for ever keeps its
message. `FairSpec` of the table: every goroutine that can go on does, strongly, for the same
property of the mutex; requests and cancellations are not obliged to come. The table's and the
topics' runs do not check deadlock, because a crash really stops the process; the store's runs do. `Start`
needs weak fairness only: main runs, and PeriodicTasks is scheduled once the mutex is free; deadlock is not
checked there, since a file that is not sound does lock the program up. No fairness is assumed
of SNS: an HTTP endpoint may never answer, and callEndpoint has no timeout, so nothing is promised of
when a Publish ends.

**Conditions on the properties.** `Answered`, `MutexOwned` and `Kept` hold while no queue is deleted;
`table_delete` is what happens otherwise. `Kept` and `LeavesByName` hold for one creator, of queues and of
topics, since a second one may replace what the first has made. `Implements` of the topics and
`SubscribedOnce` hold without conditions: the replacement is a step of `SubscriberSets`, and the duplicates
that the code admits have two ARNs or were there at the start. In `Topics`, `MutexOwned` is
claimed until a topic or queue is deleted, and `LeavesByName` and `MutexOwned` until a removal completes
while another Unsubscribe is in progress (`overlapped`): the position that the other has found without
the mutex then is that of another subscription, or none. `PublishedOnce` speaks of the
subscriptions in the slice when Publish begins to iterate over it, but for those at or behind an entry
that is removed meanwhile, and those whose filter is set or whose queue is deleted meanwhile; a publisher
that panics or meets a wild length claims nothing. `DeadLetterEarned` holds for standard queues,
`DeletedByHolder` for requests with a handle, `RegisteredIsQueued` for queues without a redrive
policy (a redriven message leaves its registration behind).

## 5. Proofs

All theorems hold for every value of the constants that satisfies the named assumptions of the
model's module (`QueueAssumption` and the others of `SQS`, `TableAssumption`, `StartAssumption`,
`TopicsAssumption`, `LoadedAssumption`); TLC evaluates them in the runs. Bounds such as `MaxHandles`, `Capacity` or
`MaxDeletions` are constants too, so no bound of section 4 restricts a theorem.

### The store: `SQSProofs`, `SQSClientProofs`

- `TypeCorrect`: `Spec => []TypeOK`, action by action.
- `PlacedCorrect`: `Spec => []NoLossNoDuplication`. `Once` and the equivalence with `fate` are
  inductive together with `TypeOK`. The work is in what a removal by position and the
  append-then-remove of a redrive do to the places of messages (`RemovePlaces`, `AppendPlaces`,
  `RedrivenPlaces`), for every redrive graph, loops included.
- `DeliveryInvCorrect`, `DeliveryBoundCorrect`: the bound is not inductive; `DeliveryInv` adds
  that every return but the current one was followed by a retry, and that the retries of a message
  still in a queue with a policy do not exceed `maxReceiveCount` (each place that counts a retry
  redrives in the same step).
- `LeaseInvCorrect`, `LeaseCorrect`: `LeaseInv` says that the timeout the store keeps is never
  shorter than the one it promised and that a visible message is promised to nobody; a return needs
  a visible message.
- `DelayCorrect`: a return has looked at the delay in the same step, whatever the clock does between the
  iterations of the scan.
- `DeletedByHolderCorrect`, `ReleasedCorrect`, `LockOwnershipCorrect`, under `BlankHandles = FALSE`:
  they rest on `BatchInv` (what a batch still has to delete are handles that requests name). With
  blank handles the first two are false, and the code's behaviour is described in section 4.
- `DeadLetterEarnedCorrect`, for a store of standard queues (`Fifo = {}`) and `BlankHandles = FALSE`:
  `EarnedInv` says that a message was returned at least once for every retry it counts, and once more
  for the handle it is in flight with. A redrive takes a message in flight whose retries reach
  `maxReceiveCount` or pass it, so it was returned more often than that. The scan of a FIFO queue marks
  messages that it does not return, and breaks `EarnedInv`.
- `RegisteredCorrect`: the registration of an id and the list of messages change in the same step,
  at every place where a message leaves a list; it needs `NoLossNoDuplication`, so that the entry
  that is removed is the only one of the message.

### The refinement: `SQSRefinementProofs`

`Refines`: `Spec => Implements`. The initial states map to `Life!Init`; for every action one lemma says
which of `Accept`, `Refuse`, `Take`, `ComeBack`, `Delete`, `Purge` it is, or that it stutters, using
`LifeInv` (type correctness, no loss or duplication, `BatchInv`). What is hard is `placeOf`, which is
defined by a search through the lists: the lemmas on places carry over from `SQSProofs`.

### The table: `QueueTableProofs`

- `TableTypeCorrect`: with `CallInv`, what each place of a handler says about its locals.
- `MutexOwnedCorrect`: `MutexInv` adds that a client in its critical section holds the mutex and
  that whatever a handler looked up is still there (`LookedUp(c) => Found(c)`), until a queue is
  deleted.
- `KeptCorrect`, under `OneCreator`: `CreateInv` says that what CreateQueue did not find is still missing
  when it writes; `KeptInv` adds that redrive targets are in the table.

### Start-up: `StartProofs`

`StartTypeCorrect`, `TargetsInTableCorrect`, `TablesAsConfiguredCorrect`, for any files. `TargetInv` says
that names do not share a queue and that policies are set only after the last queue entry; `LoadInv`
says what each loop has built after i entries, in terms of the *last* entry of a name among them.

### Topics: `TopicsProofs`, `TopicsPublishProofs`

- `TopicsTypeCorrect`: with `CallInv` (places and locals) and `HoldInv` (who is in a critical section
  holds the mutex; the entry that `UnsubscribeCut` cuts is in the slice).
- `TopicsMutexCorrect`: `RelyOK(c)` is what the handler of c relies on under the mutex although it
  found it without: the topic, the queue, a position that is in the slice. `Mild` says what the steps
  of others leave of it: until something is deleted, or two removals overlap, all of it.
- `TopicsWellFormedCorrect`: `SliceInv` says which slices are in order in the middle of a critical
  section (`StoreOK`, `CutOK`: all but the last entry of one slice) and that arrays are empty behind
  their slices, so that a slice never grows over an old entry. Loaded lists are well formed by
  `LoadedAssumption`; the duplicates of an endpoint that they may have are different subscriptions.
- `LeavesByNameCorrect`, under `OneCreator`: `CreateInv` as for queues; `PositionInv` says that, until a
  removal meets another, what an Unsubscribe has read of its slice is still there at its place (appends
  only add behind it, in this array or in a new one), so that the entry the shift overwrites is the
  one the request names and the entry that is cut off is that one or a duplicate left by the shift.

- `PublishedOnceCorrect`. `OweInv` follows each subscription a Publish owes a message from the moment
  the range statement reads the slice: its filter lets the message pass; it lies in the array that
  Publish iterates over exactly once, and at the same position in the slice that the topic has now,
  before an entry about to be cut off (`Placed`); that position is within the length Publish has read;
  and it has been served once if the position is passed and not at all otherwise. Appends add behind
  every entry, in this array or in a new one; a removal leaves what is before its position where it is
  and releases the rest; that a topic is deleted or replaced does not touch its slice. So no creator
  and no overlap of removals is excluded.

### The refinement: `TopicsRefinementProofs`

- `TopicsRefine`: `Spec => Implements`, for any number of creators. `TableInv` says that no two names share a topic, so
  that a step on one slice changes one set. A shift and a cut each take away at most one element of the set
  of subscribers, whichever position was given, stale or not: this is why the refinement, unlike
  `LeavesByName`, holds also after two removals have met. `SubscribeEnd` joins where no subscriber has
  its address, which was looked at under the mutex in the step before (`StoreOK` of `SliceInv`).
- `SubscribersSound`: `SoundInv` is proved inductive of `SubscriberSets` alone, in a page, and holds of the
  slices through the refinement: no subscription is in two topics, and one that has not joined is in none.
- `SubscribedOnceCorrect`, through the refinement too: in `SubscriberSets` only `Join` adds a member, and
  it does so where the topic lacks the address (`OnceStep`).

Induction over sequences is avoided: `RemoveAtElements` and `RemoveAtAppend` say element by element
what `RemoveAt` does, from the definition of `SubSeq`.

**Only model-checked.** All liveness (`Drains`, `InFlightEnds`, `LocksEnd`, `DedupReleased`,
`Answered`, `ComesUp`), which is beyond the prover. Every invariant and
action property of a passing run is stated by a theorem. For the assumptions the proofs make, see above.

## 6. Not modelled

Request parsing, size limits and XML; bodies, attributes and their MD5 sums
(`message_attributes.go`, `app/common`), signatures and the certificate (gosns.go), which no property
tells apart; log files, ports and host names. The test server forwards requests to the same router
under a mutex of its own and without PeriodicTasks, so its behaviours are among those of the models.
The health page keeps no state. Nothing is persisted, so there is no recovery to model: `Crash` ends a
behaviour.
