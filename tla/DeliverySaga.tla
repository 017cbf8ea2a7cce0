---------------------------- MODULE DeliverySaga ----------------------------
(***************************************************************************)
(* An order from creation to delivery, across the order service, the       *)
(* courier service and the two topics between them.  The services are the  *)
(* modules OrderService and CourierService; what is added is which message *)
(* each consumer handles next, and what becomes of it.                     *)
(*                                                                         *)
(* Both topics have one partition.  Each service publishes its outbox some *)
(* time after the commit and oldest first, but a row that fails is left    *)
(* for the next poll while younger ones are published, and is published    *)
(* again when the commit that marks it fails; module OutboxPublisher has   *)
(* the task itself.  The courier service handles order_created and ignores *)
(* every other order message: orders_topic has the order_created of each.  *)
(*                                                                         *)
(* The races inside a service are the subject of its own module: here each *)
(* has one transaction open at a time.  The services share no table, so a  *)
(* transaction of one changes nothing that a transaction of the other      *)
(* reads before it commits, and one at a time is open in the two together. *)
(*                                                                         *)
(* Left out are PATCH /orders/{id}/status, with which an admin may move an *)
(* order by hand past what its couriers do; and changes to the couriers    *)
(* other than that those who are offline come online, once.                *)
(***************************************************************************)
EXTENDS Integers, Sequences, FiniteSets

CONSTANTS
    Orders, Couriers, Assignments,
    None,         \* no courier, order or assignment
    NoTxn,        \* the session has no transaction open
    Http, Kafka,  \* of each service: a thread for requests, and the consumer
    MaxEvents,    \* bound: of an order's history
    MaxPending,   \* bound: nothing more begins while as many rows wait
    MaxTopic,     \* bound: no dead letter is replayed into a longer topic
    MaxFaults     \* bound: failed commits and publishes, redeliveries, and
                  \* messages that are given up

VARIABLES
    orders, order_events, order_outbox, order_txn,
    couriers, assignments, assignment_outbox, courier_txn, overridden,
    orders_topic,      \* Seq(Orders): the order_created messages
    orders_offset,     \* how many of them the courier service has dealt with
    courier_outbox,    \* Seq(Message): the courier service's outbox_events, in
                       \* created_at order
    published,         \* which of its rows are marked published
    couriers_topic,    \* Seq(Message)
    couriers_offset,   \* how many of them the order service has dealt with
    dead_letters,      \* SUBSET Message: in the order service's dead letter topic
    disturbed,         \* SUBSET Orders: history, the order service did not get the
                       \* messages of the order in turn: one was published before
                       \* an older one, or was given up
    faults

orderVars == <<orders, order_events, order_outbox, order_txn>>
courierVars == <<couriers, assignments, assignment_outbox, courier_txn, overridden>>
ordersTopicVars == <<orders_topic, orders_offset>>
outboxVars == <<courier_outbox, published>>
couriersTopicVars == <<couriers_topic, couriers_offset>>
topicVars == <<ordersTopicVars, outboxVars, couriersTopicVars, dead_letters, disturbed, faults>>

\* courier_assigned (status "assigned") or assignment_status_changed.
Message == [assignment : Assignments,
            status : {"assigned", "accepted", "picked_up", "delivered", "cancelled"}]

O == INSTANCE OrderService WITH
        NoCourier <- None, HttpSessions <- {Http}, ConsumerSessions <- {Kafka},
        outbox <- order_outbox, txn <- order_txn

C == INSTANCE CourierService WITH
        HttpSessions <- {Http}, ConsumerSessions <- {Kafka},
        outbox <- assignment_outbox, txn <- courier_txn

ASSUME SagaAssumption ==
    /\ None \notin Couriers \cup Orders \cup Assignments
    /\ NoTxn \notin O!Txn \cup C!Txn
    /\ Http # Kafka
    /\ MaxEvents \in Nat

SagaInit ==
    /\ O!Init
    /\ couriers = [c \in Couriers |-> [availability |-> "offline", is_active |-> TRUE]]
    /\ assignments = [a \in Assignments |-> C!NoAssignmentRow]
    /\ assignment_outbox = [a \in Assignments |-> <<>>]
    /\ courier_txn = [s \in {Http, Kafka} |-> NoTxn]
    /\ overridden = {}
    /\ orders_topic = <<>> /\ orders_offset = 0
    /\ courier_outbox = <<>> /\ published = {}
    /\ couriers_topic = <<>> /\ couriers_offset = 0
    /\ dead_letters = {} /\ disturbed = {}
    /\ faults = 0

-----------------------------------------------------------------------------

NoneOpen == \A s \in {Http, Kafka} : order_txn[s] = NoTxn /\ courier_txn[s] = NoTxn

fault == faults < MaxFaults /\ faults' = faults + 1

\* Assignment ids are interchangeable: a new row has the first that is free.
NewIds ==
    LET free == {a \in Assignments : assignments[a] = C!NoAssignmentRow}
    IN  IF free = {} THEN {} ELSE {CHOOSE a \in free : TRUE}

\* A step of the order service alone.
OrderStep ==
    UNCHANGED <<courierVars, ordersTopicVars, outboxVars, couriers_topic, dead_letters, disturbed>>

Pending == 1 .. Len(courier_outbox) \ published

\* A step of the courier service alone; what it commits has a row in its outbox.
CourierStep ==
    /\ UNCHANGED <<orderVars, orders_topic, published, couriersTopicVars, dead_letters,
                   disturbed>>
    /\ IF UNCHANGED assignment_outbox
       THEN UNCHANGED courier_outbox
       ELSE \E a \in Assignments :
               /\ assignment_outbox'[a] # assignment_outbox[a]
               /\ courier_outbox' = Append(courier_outbox,
                                           [assignment |-> a, status |-> assignments'[a].status])

\* The customer.  The delay until order_created is published is part of the
\* consumer's, unless the publish fails and other orders get ahead.
create_order(o) ==
    /\ O!create_order(o)
    /\ \/ orders_topic' = Append(orders_topic, o) /\ UNCHANGED faults
       \/ fault /\ UNCHANGED orders_topic
    /\ UNCHANGED <<courierVars, orders_offset, outboxVars, couriersTopicVars, dead_letters,
                   disturbed>>

cancel_order(o) ==
    /\ NoneOpen
    /\ O!cancel_order(Http, o)
    /\ OrderStep
    /\ UNCHANGED <<couriers_offset, faults>>

commit_cancel ==
    /\ O!Commit(Http)
    /\ OrderStep
    /\ UNCHANGED <<couriers_offset, faults>>

\* Couriers and admins.
courier_request ==
    /\ NoneOpen
    /\ Cardinality(Pending) < MaxPending
    /\ \/ \E c \in Couriers :
             couriers[c].availability = "offline" /\ C!change_availability(Http, c, "online")
       \/ \E c \in Couriers, o \in Orders :
             orders[o].status # "none" /\ C!assign_courier(Http, c, o)
       \/ \E a \in Assignments, target \in C!AssignmentStatus :
             C!update_assignment_status(Http, a, target)
    /\ CourierStep
    /\ UNCHANGED <<orders_offset, faults>>

courier_request_goes_on ==
    /\ \/ C!assign_courier_existing(Http)
       \/ C!update_assignment_status_courier(Http)
       \/ C!CommitCourier(Http)
       \/ \E a \in NewIds : C!CommitAssignment(Http, a)
       \/ C!CommitStatus(Http)
    /\ CourierStep
    /\ UNCHANGED <<orders_offset, faults>>

-----------------------------------------------------------------------------
(* The outboxes.                                                           *)

\* The order of a message of the courier service.
OrderOf(m) == assignments[m.assignment].order_id

\* The older rows of the same order that are not published.
Overtakes(i) ==
    {j \in Pending : j < i /\ OrderOf(courier_outbox[j]) = OrderOf(courier_outbox[i])}

\* The oldest row is published, or one after the publish of the older ones failed.
\* When the commit that marks it fails the row stays as it was.
publish(i) ==
    /\ NoneOpen
    /\ i \in Pending
    /\ couriers_topic' = Append(couriers_topic, courier_outbox[i])
    /\ disturbed' = IF Overtakes(i) = {} THEN disturbed
                    ELSE disturbed \cup {OrderOf(courier_outbox[i])}
    /\ \/ /\ published' = published \cup {i}
          /\ IF \A j \in Pending : i <= j THEN UNCHANGED faults ELSE fault
       \/ /\ UNCHANGED published
          /\ fault
    /\ UNCHANGED <<orderVars, courierVars, ordersTopicVars, courier_outbox, couriers_offset,
                   dead_letters>>

\* The order_created of an order is published; again when the commit after it
\* failed, or when an operator replays it.
publish_order_created(o) ==
    /\ NoneOpen
    /\ orders[o].status # "none"
    /\ orders_topic' = Append(orders_topic, o)
    /\ IF \A i \in 1 .. Len(orders_topic) : orders_topic[i] # o
       THEN UNCHANGED faults ELSE fault
    /\ UNCHANGED <<orderVars, courierVars, orders_offset, outboxVars, couriersTopicVars,
                   dead_letters, disturbed>>

-----------------------------------------------------------------------------
(* OrderEventsConsumer of the courier service.                             *)

consume_order_created ==
    /\ orders_offset < Len(orders_topic)
    /\ NoneOpen
    /\ Cardinality(Pending) < MaxPending
    /\ LET o == orders_topic[orders_offset + 1]
       IN  IF C!HasAssignment(o)
           THEN orders_offset' = orders_offset + 1 /\ UNCHANGED courierVars
           ELSE C!auto_assign_order(Kafka, o) /\ UNCHANGED orders_offset
    /\ CourierStep
    /\ UNCHANGED faults

\* The message is dealt with when its transaction ends: also when no courier
\* was available, after which nothing tries again.
order_created_goes_on ==
    /\ \/ C!find_available_courier(Kafka)
       \/ \E a \in NewIds : C!CommitAssignment(Kafka, a)
    /\ orders_offset' = IF courier_txn'[Kafka] = NoTxn
                        THEN orders_offset + 1 ELSE orders_offset
    /\ CourierStep
    /\ UNCHANGED faults

-----------------------------------------------------------------------------
(* CourierEventsConsumer of the order service.                             *)

NextMessage == couriers_topic[couriers_offset + 1]

HasNext == couriers_offset < Len(couriers_topic) /\ NoneOpen

\* The handler opens a transaction for a message it applies.
apply(m) ==
    LET a == assignments[m.assignment]
    IN  IF m.status = "assigned"
        THEN O!apply_courier_assigned(Kafka, a.order_id, a.courier_id)
        ELSE O!apply_assignment_status_changed(Kafka, a.order_id, a.courier_id, m.status)

\* The early returns of the two methods.
Ignores(m) ==
    LET a == assignments[m.assignment]
        target == O!order_status_for_assignment_status(m.status)
    IN  IF m.status = "assigned"
        THEN ~O!MayBecome(a.order_id, "courier_assigned")
        ELSE \/ orders[a.order_id].courier_id # a.courier_id
             \/ ~O!MayBecome(a.order_id, target)

apply_courier_event ==
    /\ HasNext
    /\ apply(NextMessage)
    /\ OrderStep
    /\ UNCHANGED <<couriers_offset, faults>>

ignore_courier_event ==
    /\ HasNext
    /\ Ignores(NextMessage)
    /\ couriers_offset' = couriers_offset + 1
    /\ OrderStep
    /\ UNCHANGED <<orderVars, faults>>

commit_courier_event_Skips ==
    /\ O!Commit(Kafka)
    /\ couriers_offset' = Len(couriers_topic)
    /\ OrderStep
    /\ UNCHANGED faults

commit_courier_event ==
    /\ O!Commit(Kafka)
    /\ couriers_offset' = couriers_offset + 1
    /\ OrderStep
    /\ UNCHANGED faults

-----------------------------------------------------------------------------
(* Failures.                                                               *)

\* The order service's transaction is rolled back: the message is tried again.
apply_fails ==
    /\ fault
    /\ O!Rollback(Kafka)
    /\ OrderStep
    /\ UNCHANGED couriers_offset

\* The same in the courier service.
auto_assign_fails ==
    /\ fault
    /\ C!Rollback(Kafka)
    /\ CourierStep
    /\ UNCHANGED orders_offset

\* The offset of the last message was not committed before a restart.
redeliver ==
    /\ fault
    /\ NoneOpen
    /\ \/ /\ orders_offset > 0
          /\ orders_offset' = orders_offset - 1
          /\ UNCHANGED couriers_offset
       \/ /\ couriers_offset > 0
          /\ couriers_offset' = couriers_offset - 1
          /\ UNCHANGED orders_offset
    /\ UNCHANGED <<orderVars, courierVars, orders_topic, outboxVars, couriers_topic,
                   dead_letters, disturbed>>

\* Every attempt failed: the message goes to the dead letter topic, or that
\* topic refuses it and the commit of a later message passes it.
dead_letter ==
    /\ fault
    /\ HasNext
    /\ dead_letters' \in {dead_letters, dead_letters \cup {NextMessage}}
    /\ disturbed' = disturbed \cup {OrderOf(NextMessage)}
    /\ couriers_offset' = couriers_offset + 1
    /\ UNCHANGED <<orderVars, courierVars, ordersTopicVars, outboxVars, couriers_topic>>

\* The same in the courier service: the order gets no courier of itself.
dead_letter_order_created ==
    /\ fault
    /\ NoneOpen
    /\ orders_offset < Len(orders_topic)
    /\ orders_offset' = orders_offset + 1
    /\ UNCHANGED <<orderVars, courierVars, orders_topic, outboxVars, couriersTopicVars,
                   dead_letters, disturbed>>

\* An operator sends a dead letter to the end of the topic it came from.  The
\* dead letter stays where it is.
run_replay ==
    /\ NoneOpen
    /\ Len(couriers_topic) < MaxTopic
    /\ \E m \in dead_letters : couriers_topic' = Append(couriers_topic, m)
    /\ UNCHANGED <<orderVars, courierVars, ordersTopicVars, outboxVars, couriers_offset,
                   dead_letters, disturbed, faults>>

Consumers ==
    \/ consume_order_created
    \/ order_created_goes_on
    \/ apply_courier_event
    \/ ignore_courier_event
    \/ commit_courier_event

SagaNext ==
    \/ \E o \in Orders : create_order(o) \/ cancel_order(o)
    \/ commit_cancel
    \/ courier_request
    \/ courier_request_goes_on
    \/ \E i \in Pending : publish(i)
    \/ \E o \in Orders : publish_order_created(o)
    \/ consume_order_created
    \/ order_created_goes_on
    \/ apply_courier_event
    \/ ignore_courier_event
    \/ commit_courier_event
    \/ apply_fails
    \/ auto_assign_fails
    \/ redeliver
    \/ dead_letter
    \/ dead_letter_order_created
    \/ run_replay

SagaSpec == SagaInit /\ [][SagaNext]_<<orderVars, courierVars, topicVars>>

\* A request once begun ends, and the publishing and consumer tasks run on.
\* Strong fairness for the two tasks: each is ready all the time while there are
\* rows or messages, and only the rule of one open transaction makes it wait for
\* requests here.
FairSagaSpec ==
    /\ SagaSpec
    /\ WF_<<orderVars, courierVars, topicVars>>(commit_cancel)
    /\ WF_<<orderVars, courierVars, topicVars>>(courier_request_goes_on)
    /\ SF_<<orderVars, courierVars, topicVars>>(\E i \in Pending : publish(i))
    /\ SF_<<orderVars, courierVars, topicVars>>(Consumers)

-----------------------------------------------------------------------------
(* Properties.                                                             *)

AssignmentsOf(o) == {a \in Assignments : assignments[a].order_id = o}

Reached(a, status) ==
    \E i \in 1 .. Len(assignment_outbox[a]) : assignment_outbox[a][i] = status

\* What an order says of its courier, that courier did: an order that is
\* assigned, in delivery or delivered names a courier with an assignment of the
\* order that got at least as far.  No redelivery, dead letter or late replay of
\* another assignment's message makes it say more.
OrderOnlyClaims ==
    \A o \in Orders :
        LET by == {a \in AssignmentsOf(o) : assignments[a].courier_id = orders[o].courier_id}
        IN  /\ orders[o].status = "courier_assigned" => by # {}
            /\ orders[o].status = "in_delivery" => \E a \in by : Reached(a, "accepted")
            /\ orders[o].status = "delivered" => \E a \in by : Reached(a, "delivered")

\* The order status that its assignments stand for.
Expected(o) ==
    LET current == {a \in AssignmentsOf(o) : assignments[a].status # "cancelled"}
    IN  IF AssignmentsOf(o) = {} THEN {"created"}
        ELSE IF current = {} THEN {"waiting_for_courier"}
        ELSE {IF assignments[a].status = "assigned" THEN "courier_assigned"
              ELSE O!order_status_for_assignment_status(assignments[a].status) : a \in current}

\* The tables of the two services differ: an accepted assignment can be
\* cancelled, but an order in delivery cannot go back to waiting.
Stranded(o) ==
    \E a \in AssignmentsOf(o) : Reached(a, "accepted") /\ Reached(a, "cancelled")

\* All that the couriers did for the order has come to the order service.
CaughtUp(o) ==
    /\ \A i \in Pending : OrderOf(courier_outbox[i]) # o
    /\ couriers_offset = Len(couriers_topic)

\* Once the order service has caught up with an order that was neither cancelled
\* nor stranded, the order has the status that its assignments stand for, however
\* often its messages were repeated, as long as they came in turn.
CaughtUpAgrees ==
    \A o \in Orders :
        \/ ~CaughtUp(o)
        \/ orders[o].status \in {"none", "cancelled"}
        \/ Stranded(o)
        \/ o \in disturbed
        \/ orders[o].status \in Expected(o)

\* A completed assignment completes its order, unless it was cancelled or
\* stranded, or a message of it was overtaken or given up.
DeliveryArrives ==
    \A o \in Orders :
        (\E a \in AssignmentsOf(o) : assignments[a].status = "delivered")
          ~> \/ orders[o].status \in {"delivered", "cancelled"}
             \/ Stranded(o)
             \/ o \in disturbed
=============================================================================
