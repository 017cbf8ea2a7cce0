# Delivery-Platform in TLA+

Specifications, model checking and proofs of Delivery-Platform: its nine services,
the transactional outbox, the Kafka consumers and the trace contexts that tie them
together. Everything here is translated from the code; paths below are relative to
the repository.

## The system

Nine FastAPI services, each with its own PostgreSQL database where it keeps
state, connected by HTTP through a gateway and by Kafka topics
(`orders.events`, `couriers.events`, `payments.events`) with one partition and
one consumer each in the deployment of `docker-compose.yml`.

| Component | State | Operations that change it | Correct when |
|---|---|---|---|
| order-service | `orders`, `order_events`, `outbox_events` | create, change status, cancel; the consumer applies `courier_assigned` and `assignment_status_changed` | the status follows the transition table; row, history and messages agree; a delivery has a courier |
| platform-common outbox | `outbox_events.status`, the topic | INSERT by requests, poll, publish, commit | committed events reach the topic, others do not; repeats and reordering only after failures; nothing starves |
| platform-common consumer | position, committed offset, attempts, dead letter topic | getone, handler, retry, dead letter, commit, restart | no message is lost, repeated or reordered without a failure; a poison message does not block |
| courier-service | `couriers`, `courier_assignments`, `outbox_events` | create, update, availability, assign, assignment status; the consumer auto-assigns on `order_created` | one assignment per order; busy exactly while working; the status follows its table |
| payment-service | `payments`, `payment_events`, `outbox_events` | create, confirm, fail, refund | one active payment per order; a final status stays; history and row agree |
| notification-service | `notifications` | create, mark read; one per event of the three topics | one notification per event in spite of redelivery; what was committed past was notified about |
| tracking-service | `tracked_orders`, `courier_locations` | location report; upsert per order event | the tracked courier becomes the order's; only that courier reports |
| auth-service | `users`, `refresh_tokens` | register, login, refresh, logout, role change, bootstrap admin | a login has one usable token or one on its way; logout ends it |
| user-service | `user_profiles`, `user_addresses` | lazy profile, address create, update, delete | one profile; at most one default address |
| api-gateway | rate limit buckets | proxy with retries, rate limit | only safe requests are repeated; the limit holds |
| admin-service | none | gathers the summaries of the others at different times | what it concludes from them has a cause in the services |
| platform-common tracing | a ContextVar per task; trace metadata in messages | start a span, inject, forward, handle, dead-letter | a trace is the tree of what caused what |
| dead letter tool | none | publishes a dead letter back to its topic | repeats nothing that was done, joins the right trace |

How they interact. A request changes a service's tables and inserts an outbox
row in one transaction; the service's outbox task publishes the row; consumers of
other services handle the message and do the same. `order_created` makes the
courier service assign a courier, whose messages move the order, whose messages
reach tracking and notification. Nothing else is shared.

What makes it hard:

- HTTP handlers are plain `def` functions on FastAPI's thread pool, so sessions
  overlap with each other and with the consumer task. They read a row, decide,
  and write it at READ COMMITTED with no `SELECT ... FOR UPDATE`, version column
  or condition on the old value. SQLAlchemy's session reads a row once and its
  UPDATE contains only the columns that changed.
- The outbox publishes before it marks a row, one commit per row, and goes on
  after a failure. It may repeat and reorder messages.
- The consumer commits its *position*, which `getone` moves whether or not the
  message was dealt with. Without a committed offset a group starts at the end.
- The replay tool puts an old message into a topic at any later time.
- Services keep copies of each other's state (tracked orders, an order's courier)
  that lag behind, and decide by them; the admin service compares numbers that
  several services counted at different times, in several statements.
- The gateway gives up an attempt that the service behind it goes on with.
- Some operations span two commits (refresh and its next token, a profile and what
  it was made for): a stop between them leaves half.

## Modules

| Module | What it is |
|---|---|
| `OrderService` | the order service: every handler as a read (`Stage`, guards included) and a `Commit` or `Rollback` |
| `OrderLifecycle` | abstract: an order is one value that takes six kinds of atomic steps and announces each |
| `OrderRefinement` | the mapping from the first to the second |
| `OrderServiceProofs` | theorems about the order service |
| `OutboxPublisher` | outbox rows and the publishing task |
| `EventRelay` | abstract: committed events, and only those, are delivered |
| `OutboxPublisherProofs` | theorems about the outbox |
| `KafkaConsumer` | one consumer task on one partition |
| `NotificationService` | extends `KafkaConsumer`: its consumer task with the notification handler, beside the HTTP handlers |
| `KafkaConsumerProofs` | theorems about the consumer, and on top of them about the notification service |
| `CourierService` | couriers and assignments: every handler as two reads and a commit |
| `CourierServiceProofs` | theorems about the courier service |
| `DeliverySaga` | instances of `OrderService` and `CourierService` with the two topics between them |
| `DeliverySagaProofs` | theorems about it, on top of those about the two services |
| `PaymentService` | payments and their events: every handler as a read and a commit |
| `PaymentLedger` | abstract: what is requested, taken and returned for each order |
| `PaymentServiceProofs` | theorems about the payment service |
| `TrackingService` | tracked orders under order events, and location reports |
| `AdminService` | extends `TrackingService`: the analytics request over two summaries |
| `AdminServiceProofs` | theorems about both |
| `ApiGateway` | the rate limit and the retries of one client's requests |
| `UserService` | extends `ApiGateway`: profiles and addresses under the attempts it sends |
| `AuthService` | accounts, roles, refresh tokens |
| `Tracing` | trace contexts of requests, messages, dead letters and replays |
| `RequestPathProofs` | theorems about the gateway and the user service, the auth service, and trace contexts |
| `MC...` | instances for TLC: symmetry sets, small data; `MCRequestPath` puts gateway with users, auth and tracing into one run |

**OrderService.** `orders`, `order_events` and `outbox` are the committed tables;
`txn[s]` is the transaction session `s` has open: the row it read and the row it
means to write. `Commit` writes the columns that differ between the two onto the
row as it is *then* (`UpdateChangedColumns`), and appends the event and the
message the session built from what it *read*. The guards of a handler are
evaluated at its read, where the code evaluates them. Role checks are left out:
an admin may make every call. `create_order` is one step because a new id has no
other writer. The consumer may receive any courier message at any time, which
covers duplicates, delays and replays. Messages of one order are in commit order
because the UPDATE of the order row, flushed before the outbox INSERT, makes the
later transaction wait.

`Spec` lets transactions overlap, as the code does. `SerialSpec` forbids two open
transactions on one order. The code does not enforce that; the two together say
which properties rest on it and which do not.

**OutboxPublisher.** A row goes from `absent` to `inserted` (its transaction is
open), then to `pending` or `rolled_back`, then to `published`. `created` is the
`created_at` order, fixed at the INSERT, so a row may become visible after a
younger one. The task is at one of four places, `pc`, and
`batch` is what remains of its batch. `Locked` are the aggregates whose rows the
service locks before it inserts the outbox row: `order_service.py` and
`payment_service.py` flush the UPDATE of the order or payment first, so another
transaction on it waits, and its rows cannot be open together. The tracking service
only inserts (`create_location`), the courier service leaves UPDATE and INSERT to one
flush of its commit in an order nothing fixes: there a younger row of an aggregate may
be visible while an older one is not, and `outrun` collects the older ones. `IsBatch` says declaratively what
`ORDER BY created_at LIMIT batch_size` returns. `publish_raises` may store the
message or not. `abandon_batch` is a database error in the task, a stop or a
crash. `Poison` rows fail every time.

**KafkaConsumer.** `position` is what `getone` reads next, `committed` the group's
offset (0: none). A handler call has one effect, appended to `applied`; it may
raise before or after it. After `total_attempts` the message goes to the dead
letter topic; if that raises, or there is none, the exception leaves
`process_message_with_retries`, the loop logs it and reads the next message.
`exhausted` and `jumped` are history variables that no action reads: the messages
whose last attempt raised, and those a start without committed offset passed over.

**CourierService.** As in OrderService, but handlers make two reads and another
session may commit between them; `txn[s].next` says which step follows.
`outbox[a]` is the sequence of statuses the messages about assignment `a` carry.
`overridden` is a history variable: couriers whose availability somebody set by
hand while they were working, or set to busy. `_find_available_courier` prefers a
courier of the order's city and then the oldest; the model takes any available
one, which covers whichever the query returns.

**PaymentService.** `payments` and `payment_events` are the committed tables; the
outbox row of an event has the same payload, so the outbox of a payment is its
`payment_events`. `Open` is the end of a handler's guards, `CommitInsert` and
`CommitUpdate` the commit. Instead of a second specification, the history variable
`overlapped` collects the orders on which two transactions were open at once; no
action reads it. Properties of what overlapping breaks speak about the other
orders, and `PaymentLedger` gets the entry `Disputed` for them.

**NotificationService.** `event[i]` is the event at offset `i` of `KafkaConsumer`'s
partition; one stands for its `event_id`. An event gets there a first time
(`publish_event`), again because the outbox could not mark its row
(`publish_again`), or from the dead letter topic (`replay`), any number of times.
The effect of the consumer's handler is `create_from_event`, before or after which
the handler may raise. `notifications` is the table. Check and insert are one step:
one consumer task is the only writer of rows with a `source_event_id`.

**DeliverySaga.** The two services are `INSTANCE`s with their own variables, so
every handler is the one of its module; added are the courier service's outbox
(`courier_outbox`, `published`), the topics, the two consumers' offsets and the dead
letters. `publish(i)` is what `OutboxPublisher` does with one row: the oldest goes
first, but a younger one goes when the publish of the older failed, and a row whose
commit failed is published and stays pending. `order_created` may be late and come
twice in the same way. A message may be handled again after a lost offset commit;
when all attempts failed it goes to the dead letter topic, or that refuses it and a
later commit passes it; a dead letter may be replayed at the end of the topic.
`disturbed` is history: the orders of which a message was published before an older
one, or given up. One transaction is open at a time in the two services together:
their races are the subject of their own modules, and a transaction of one service
touches no table of the other.

**TrackingService.** `orders[o]` is the courier in the order's row, `sent[o]` the
courier each of its messages names: `order_event` changes both, and
`order_event_stale` is an overlapped transaction, whose message names the courier its
session read while its UPDATE leaves the column that another transaction set
(`Contradicted` while this message is the newest). `passed[o]` is how far the consumer
has read, `applied[o]` the event whose upsert came last. A failure lets an event come
again, early, late (`handle_event_out_of_turn`) or never (`event_lost`). A location
report checks the tracked row (`create_location`) and commits in a later step.

**AdminService.** `GET /admin/analytics` asks the order and the tracking service at
the same time; each counts a total and then a part of it in two statements, and
everything else goes on in between. `changed` and `behind` are history variables that
say whether orders changed during the request, and whether, when the tracking service
counted, a tracked row was behind its order or the newest event of an order
contradicted its row.

**ApiGateway, UserService.** An attempt of the gateway is a handler of its own in the
service; when it times out, the gateway goes on to the next attempt or answers, and the
handler goes on too. `loaded` and `defaults` are what a handler's session keeps of the
rows it read: its flush compares with these, not with the rows. `overlapped` is
history: users for whom two handlers that set the default address were open at once.

**AuthService.** Each commit is a step; `auth_calls[s].step` says which comes next. A
refresh revokes in one transaction and stores the next token in another.
`login` says which login a token goes back to. `ended`, `lost` and `raced` are
history: logins that a logout ended, whose next token was never stored, or of which two
calls had one token open. A role change needs an access token that says admin, also
of an account that is admin no longer.

**Tracing.** `context[t]` is the ContextVar of a task, `work[t]` the unit it is in: a
request, or an attempt to handle a message. Requests are received with or without a
`traceparent`, forwarded by gateway and admin service, messages are written under the
current context, published (again), handled, retried, dead-lettered and replayed. Ids
are drawn in order.

## Runs

| Run | Configuration | Distinct states | What it shows |
|---|---|---|---|
| `order_concurrent` | `Spec`, 1 order, 2 couriers, 2 HTTP threads, the consumer, 5 events | 355 thousand | under every interleaving: status and history agree, every event is a listed transition out of a status the order had, deliveries follow assignments, messages name the courier |
| `order_serial` | `SerialSpec`, 2 orders, 2 couriers, 6 events | 72 thousand | without overlap on an order: the history is a chain, transitions are validated, courier and `cancelled_at` are consistent, the last message is the row, and the service implements `OrderLifecycle` |
| `order_race` | `Spec`, 1 order, 1 HTTP thread, the consumer | violation | README.md:44 promises validated transitions; two overlapping handlers take a cancelled order back to `courier_assigned` |
| `outbox` | `FairSpec`, 4 rows, 2 aggregates, 1 poison, batches of 2, one of the aggregates `Locked`, 2 failures | 865 thousand | nothing dropped, nothing uncommitted delivered, repeats need failures, overtaking needs a failure or, without lock, a transaction that was outrun; every other row is published |
| `consumer` | `FairNotificationSpec`, 4 messages about 2 events, 1 poison, 2 attempts, 3 failures, 1 manual notification | 545 thousand | commits pass only what was dealt with, repeats need failures, effects are in order but for exhausted messages, one notification per event, committed events were notified about, every message is dealt with |
| `consumer_dead_letter` | `Spec` of `KafkaConsumer`, 2 messages, 1 poison, 1 failure | violation | README.md:206-207 promises a dead letter for exhausted retries; when its publication fails, the next commit passes the message |
| `courier` | `SerialSpec`, 2 couriers, 2 orders, 3 assignments | 591 thousand | one assignment per order, busy exactly while working unless overridden, validated transitions, the last message is the row's status |
| `courier_race` | `Spec`, 2 couriers, 1 order, 2 assignments | violation | the 409 "Order already has an active assignment" does not hold between an administrator and the consumer |
| `payment` | `Spec`, 2 orders, 3 payments, 2 HTTP threads | 88 thousand | under every interleaving: orders without overlap have one active payment, rows that tell their events, and implement `PaymentLedger` |
| `tracking` | `FairAdminSpec`, 2 orders, 2 couriers, 3 events, 1 failure, 1 location | 1.4 million | a stranger's location is accepted only while the tracked row is behind its order, changed under the request, or the newest event contradicts the order's row; but for contradictions and old events that came last, the tracked row comes to name the order's courier; the tracking-gap alert has one of these causes and no share is above 100 percent unless orders changed |
| `request_path` | `RequestPathSpec`: 3 requests, 1 user, 1 retry, limit 2, 1 failure; 2 accounts, 2 logins, 3 tokens, 2 threads; 2 requests, 3 messages, 2 tasks | 1.4 million | one default address but for overlapping requests, a request makes one address, a lost race for the profile costs a GET one attempt, the limit holds; one token per login; traces follow causes |
| `saga` | `FairSagaSpec`, 1 order, 2 couriers, 2 assignments, at most 2 rows pending when something new begins (`MaxPending`), replays into a topic shorter than 4 (`MaxTopic`), 1 failure | 1.1 million | an order says of its courier only what the courier did; but for orders cancelled, stranded or disturbed, one that is caught up has the status its assignments stand for, and a delivery arrives |

Why the bounds are enough. The races of `OrderService` need two open transactions
on one order and a third that commits between; three sessions on one order give
all of these, and five events are one more than the longest chain without return
to a courier search, six in the serial run leave room for that return. Rows of
different orders never meet in an action, so a second order only matters to the
constraint of `SerialSpec`. For the outbox, two rows of one aggregate are what an
overtaking needs, of the aggregate with and of the one without lock, one poison row
beside them and batches of two leave one place per batch, and two failures give a repeat of a repeat. For the consumer, two attempts distinguish a
retry from the last; three failures exhaust a healthy message and restart, or repeat
a repeat; four messages about two events hold a republication and a replay beside
a poison message. In `courier`, three assignments let an order be assigned again
and a courier hold two. In `payment`, three payments let an order that paid and was
refunded, or whose payment failed, be asked again while the other order has its own;
statuses only move forward, so no other bound is needed. In `tracking`, three events
of two orders are an order that gets and changes its courier, or two that each get
one; one failure restores an old courier or loses a new one, an overlap takes three (the
creation, a courier, the stale message), and one location is what the check is about. In `request_path`, three requests are two that overlap and one
before or after them, the limit of two refuses the third, and one failure leaves one
of two attempts; three tokens are a login refreshed twice or two logins with one
refresh; three messages are an event, its dead letter and the replay. `MCRequestPath`
takes the steps of one of its three parts in a behaviour: they share no state, so
their interleavings show nothing new. In `saga`, two assignments let a courier give
up and another take over, two pending rows are what an overtaking needs, one failure
publishes one out of turn or twice, redelivers, rolls back, or gives one up, and four
messages are an assignment that was accepted and delivered and one that is replayed.

Deadlock checking is off in every run but `tracking`: the others bound events, rows,
messages or failures, and a system with nothing left to do stops. In `tracking` the
next analytics request can always come.

**Fairness.** `OutboxPublisher`, `KafkaConsumer` and `NotificationService` assume weak
fairness of the task's own steps and of nothing else: the event loop schedules the
task, and its broker and database calls return or raise. `FairAdminSpec` assumes the
same of `handle_event`, the tracking service's consumer. `FairSagaSpec` assumes that a
request once begun ends, and strong fairness of publishing and of the two consumers:
each is ready all the time while there are rows or messages, and only the rule of one
open transaction, which is the model's and not the code's, makes it wait for requests
again and again. That a row is published in the end is what `PendingIsPublished` shows
of the task. A stopped task is eventually started
again; the compose files name no restart policy, so this is the operator's part.
Requests, messages and failures are not fair; failures are finite (`MaxFaults`),
without which no retry loop can promise anything. `PendingIsPublished` needs
fewer poison rows than `batch_size` (50 in the code): with as many, the oldest
pending rows are all poison, fill every batch, and nothing else is ever published.

## Proofs

The theorems hold for every value of the constants: any number of orders,
couriers, sessions, rows, messages, retries and failures. Their only assumptions
are the named ASSUMEs of the modules: sentinels are not members of the sets they
mark the absence in, bounds and sizes are naturals, the outbox's set of rows is
finite, and the two threads of the saga are not the same. TLC evaluates them on every run.

- `OrderServiceProofs`, about `Spec`: type correctness, `StatusIsLastEvent`,
  `HistoryIsValidated`, `DeliveryFollowsAssignment`, `AssignedMessagesNameCourier`.
  None is inductive alone, because a commit writes what another session may have
  overtaken. The invariant adds what an open transaction remembers: it read a
  status the history contains, its transition is listed, and its new row names a
  courier where its status needs one. A commit then appends an event that is
  valid whatever was committed in between.
- About `SerialSpec`: `HistoryIsChain`, `DeliveryHasCourier`, `CancelledAtIsFinal`,
  `LastMessageIsRow`, `StatusTransitionsValidated` and the refinement of
  `OrderLifecycle`. The invariant adds that the row an open transaction read is
  still the committed one, which is exactly what `OneTxnPerOrder` preserves.
- `OutboxPublisherProofs`: type correctness, `PublishedIsInTopic`, the refinement
  of `EventRelay`, and `DuplicatesNeedFaults`. The invariant adds that the rows of
  a batch are distinct and pending, which only the task changes. The count of
  repeats adds the rows that are pending although the topic has their message: a
  failure was paid for each, and the next publish of it spends that failure.
  For `OvertakenOnlyAfterFailure` it says that whatever comes before a row of the
  batch in its aggregate is settled, was outrun, or is ahead of it in the batch; an
  open transaction keeps a locked aggregate to itself, so no earlier row of it appears
  behind the batch's back, and that only rows of other aggregates were outrun.
- `KafkaConsumerProofs`: type correctness, `CommittedHasEffect`, `EffectsInOrder`.
  The invariant says that while the task runs, every message it has read is dealt
  with except the one whose handler it is calling, so committing the position is
  safe wherever the code does it.
  `RepeatsNeedFaults` counts as the outbox does: a message that will be handled
  again although it took effect was paid for by a failure.
  Its second part is about the notification service: type correctness,
  `OneNotificationPerEvent` and `CommittedIsNotified`. Every step of the service is a step or a stutter of
  `KafkaConsumer`, so the consumer's invariant carries over, and applied offsets are
  those whose events were notified about.
- `CourierServiceProofs`: about `Spec`, type correctness and `LastMessageIsStatus`, so
  what the run shows under `SerialSpec` holds under every interleaving. About
  `SerialSpec`, `OneAssignmentPerOrder`, `BusyIsWorking` and
  `AssignmentTransitionsValidated`. Until it commits, a handler only changes its own
  transaction (`Goes`), which leaves three kinds of commit. The invariant adds that
  what an open transaction read is still so (`Fresh`); `NoConflict` preserves it,
  because a commit writes rows of its own courier and order only.
- `DeliverySagaProofs`: `OrderOnlyClaims` and `CaughtUpAgrees`. Every step is a step of
  each of the two services or leaves it alone, and each has one transaction open at a
  time (`SagaIsBothServices`), so the invariants of their serial executions hold in the
  saga. Five invariants stand on them.
  What a row, a message or a dead letter says was reached (`CouriersInv`), so a commit
  of the order service, which applies a message, claims nothing that was not done
  (`ClaimsInv`); this holds with any overtaking, repeat, dead letter and replay.
  What was reached has one row in the outbox, after what must come before it, and the
  rows tell of an order's assignments one after the other: a new one finds the earlier
  ones cancelled (`WrittenInv`).
  A row marked published is in the topic, a dead letter is of a disturbed order, and the
  topic has the rows of any other order in turn: each after all older ones, perhaps
  repeated, and never after a younger one (`TopicInv`, `InTurn`).
  An order that is not disturbed follows what was dealt with (`FollowsInv`): waiting, it
  has heard of no assignment that is not cancelled; assigned, it has not heard that its
  courier's assignment was cancelled; and once it heard that one was accepted or
  delivered, it got as far unless it is stranded. For a message that is ignored this
  takes `InTurn`: of two assignments of an order, the topic has the end of one before
  the other begins. `CaughtUpAgrees` is this invariant where all rows of the order are
  published and the topic is read to its end.
- `PaymentServiceProofs`: type correctness and `RefundWasConfirmed` for every order,
  `OneActivePayment`, `RowMatchesHistory` and the refinement of `PaymentLedger` for
  those without overlap. The invariant of the latter says that two open
  transactions on an order are an overlap, so what a transaction read is still
  there when it commits; then the SELECT of `create_payment` is as good as a unique
  constraint, and each commit is one step of the order's ledger.
- `AdminServiceProofs`: type correctness of both modules, `StrangerOnlyWhileBehind`,
  `GapHasCause`, `SharesAreShares`. The invariant says that a tracked row names the
  courier of the event applied last, so one that is not behind names the order's
  courier unless the newest event contradicts the order's row, and relates what has been counted so
  far to the tables, as long as no order changed.
- `RequestPathProofs`, in three parts that share no state.
  The gateway with the user service: type correctness, `AdmittedWithinLimit`,
  `CreatedOnce`, `RaceCostsOneAttempt`, `OneDefaultAddress`. The invariant says that the
  bucket has the time of every admitted request that still counts (the limit is then
  the length check of `_enforce_rate_limit`, applied to whoever was admitted last);
  that each handler belongs to an attempt that was made, and that a row was inserted by
  a handler now past its commit; that of the attempts of a GET that ended all but one
  were lost, and the one that was not left a profile behind, which nothing deletes; and
  that without an overlap one handler that sets the default is open per user, which
  before its commit knows of every default but its own.
  The auth service: type correctness and `OneTokenPerLogin`. Of a login without a race
  an open token is usable and one call has it open, so whoever revokes it is the one
  that issues the next.
  Trace contexts: type correctness and `TraceFollowsCause`. The invariant says of each
  unit at work that its context belongs to its request and is a child of its cause, as
  the context of a message must; sequences only grow, so what belonged still does.

Type correctness is proved and not also run, where there is a proof. Also proved and
not run: `RefundWasConfirmed` for every order, and `StatusTransitionsValidated` under
`SerialSpec`, which the refinement of `OrderLifecycle` contains.

Model-checked only: liveness (`PendingIsPublished`, `EveryMessageIsDealtWith`,
`TrackingConverges`, `DeliveryArrives`), which the prover does not do. Every invariant
and every safety property of a passing run is a theorem.

## What the code does that no property forbids

- An order for which no courier is available when `order_created` is consumed is never
  assigned by the consumer again; nothing in the repository promises it.
- The assignment of a cancelled order goes on, and its courier stays busy until
  somebody ends it. `CaughtUpAgrees` and `DeliveryArrives` exempt cancelled orders.
- An accepted assignment may be cancelled while its order, in delivery, may not go
  back to waiting: `Stranded` names these orders, and they stay in delivery.
- Rows of an aggregate without lock may reach the topic against `created_at` without
  any failure (`outrun`): two locations of one courier, or two updates of one
  assignment whose transactions overlap.
- A courier message that is overtaken in the outbox or given up may be ignored when it
  comes, or not come: the order stays behind its assignments (`disturbed`), also
  without a dead letter, and nothing brings it forward.
- After an overlap in the order service its last message may name a courier that the
  order's row does not (`Contradicted`): the tracking service then accepts locations
  of the wrong courier, or of any, until the next event.
- Overlapping handlers of one order may leave a row whose columns do not fit: the runs
  and theorems under `SerialSpec` do not speak of them.
- An access token says admin until it expires, whatever becomes of its account.
- Two refreshes of one token at the same time both get a successor (`raced`), and two
  requests that set the default address may leave two (`overlapped`).

## Not modelled

- Role and ownership checks of the routes, header parsing, routing: no state depends
  on them. An admin may make every call.
- Telemetry export, metrics and logs: nothing acts on them.
- Lists, statistics and the summaries other than the two that `AdminService`
  compares: they only read. The unread count of the notification summary, a difference
  of two counts that may be negative for a moment, is among them.
- Rebalancing of a consumer group and several partitions: the deployment has one
  instance per service and one partition per topic.
- A row of `outbox_events` or a message that cannot be decoded.
- Expiry of tokens, and restarts of the gateway, which empty its rate limit window.
- In `DeliverySaga`: manual changes of an order's status, and of couriers other than
  that they come online; and overlapping transactions, which in the courier service
  may also let two rows of one order become visible against `created_at`.
- Migrations and container wiring: read for constraints and numbers of instances.
