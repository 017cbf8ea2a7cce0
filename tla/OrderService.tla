---------------------------- MODULE OrderService ----------------------------
(***************************************************************************)
(* services/order-service: the order rows, their event history and the     *)
(* order messages, changed by HTTP handlers and by the consumer of the     *)
(* couriers topic.                                                         *)
(*                                                                         *)
(* The HTTP handlers are plain functions, so FastAPI runs them on a pool   *)
(* of threads: several database transactions are open at once.  Each one   *)
(* reads the order row once (db.get, kept in the session's identity map),  *)
(* decides on what it read, and ends with one UPDATE, one INSERT into      *)
(* order_events and one into outbox_events.  No row is locked between the  *)
(* read and the UPDATE, so a handler is two steps here: the read with all  *)
(* its guards, which leaves the pending change in txn, and Commit.         *)
(* PostgreSQL runs them at READ COMMITTED: the UPDATE applies to the row   *)
(* as it is by then, and SQLAlchemy writes only the columns whose value    *)
(* differs from what the session read.                                     *)
(*                                                                         *)
(* Addresses, price, comment, timestamps and user_id never change after    *)
(* the INSERT and are left out; cancelled_at is whether it is set.         *)
(***************************************************************************)
EXTENDS Integers, Sequences

CONSTANTS
    Orders,            \* order ids
    Couriers,          \* courier user ids
    NoCourier,         \* courier_id IS NULL
    HttpSessions,      \* threads that serve HTTP requests
    ConsumerSessions,  \* Kafka consumer tasks of the service
    NoTxn,             \* the session has no transaction open
    MaxEvents          \* bound: no transaction opens on an order with more events

Sessions == HttpSessions \cup ConsumerSessions

OrderStatus == {"created", "waiting_for_courier", "courier_assigned",
                "in_delivery", "delivered", "cancelled"}

ALLOWED_STATUS_TRANSITIONS ==
    [s \in OrderStatus |->
        CASE s = "created" ->
                {"waiting_for_courier", "courier_assigned", "cancelled"}
          [] s = "waiting_for_courier" -> {"courier_assigned", "cancelled"}
          [] s = "courier_assigned" ->
                {"waiting_for_courier", "in_delivery", "cancelled"}
          [] s = "in_delivery" -> {"delivered"}
          [] OTHER -> {}]

EventTypes == {"order_created", "order_status_changed", "order_cancelled",
               "courier_assigned", "delivery_started", "delivery_completed"}

\* A row of the orders table.
Row == [status : OrderStatus,
        courier_id : Couriers \cup {NoCourier},
        cancelled_at : BOOLEAN]

\* Status "none" says that there is no such row.
NoRow == [status |-> "none", courier_id |-> NoCourier, cancelled_at |-> FALSE]

\* A row of order_events (previous_status "none" is NULL).
OrderEvent == [event_type : EventTypes,
               previous_status : OrderStatus \cup {"none"},
               new_status : OrderStatus]

\* The message of a row of outbox_events: the order as the session saw it.
OrderMessage == [event_type : EventTypes, order : Row]

\* An open transaction: the row it read, the row as it left it in memory.
Txn == [order : Orders, old : Row, new : Row, event_type : EventTypes]

ASSUME SentinelAssumption ==
    /\ NoCourier \notin Couriers
    /\ NoTxn \notin Txn

ASSUME BoundAssumption == MaxEvents \in Nat

VARIABLES
    orders,        \* [Orders -> Row \cup {NoRow}]: the committed rows
    order_events,  \* [Orders -> Seq(OrderEvent)]: in created_at order
    outbox,        \* [Orders -> Seq(OrderMessage)]: in created_at order
    txn            \* [Sessions -> Txn \cup {NoTxn}]

vars == <<orders, order_events, outbox, txn>>

Init ==
    /\ orders = [o \in Orders |-> NoRow]
    /\ order_events = [o \in Orders |-> <<>>]
    /\ outbox = [o \in Orders |-> <<>>]
    /\ txn = [s \in Sessions |-> NoTxn]

-----------------------------------------------------------------------------
(* Helpers of the handlers.                                                *)

event_type_for_status(status) ==
    CASE status = "courier_assigned" -> "courier_assigned"
      [] status = "in_delivery" -> "delivery_started"
      [] status = "delivered" -> "delivery_completed"
      [] OTHER -> "order_status_changed"

\* The order status an assignment status stands for; "none" for the others.
order_status_for_assignment_status(status) ==
    CASE status \in {"accepted", "picked_up"} -> "in_delivery"
      [] status = "delivered" -> "delivered"
      [] status = "cancelled" -> "waiting_for_courier"
      [] OTHER -> "none"

UpdateChangedColumns_Whole(row, t) ==
    [status |-> row.status,
     courier_id |-> t.new.courier_id,
     cancelled_at |-> t.new.cancelled_at]

\* The UPDATE of a flush: only the columns the session changed are written.
UpdateChangedColumns(row, t) ==
    [status |-> IF t.new.status # t.old.status
                THEN t.new.status ELSE row.status,
     courier_id |-> IF t.new.courier_id # t.old.courier_id
                    THEN t.new.courier_id ELSE row.courier_id,
     cancelled_at |-> IF t.new.cancelled_at # t.old.cancelled_at
                      THEN t.new.cancelled_at ELSE row.cancelled_at]

add_event_PreviousAfterChange(t) ==
    [event_type |-> t.event_type,
     previous_status |-> t.new.status,
     new_status |-> t.new.status]

add_event_Swapped(t) ==
    [event_type |-> t.event_type,
     previous_status |-> t.new.status,
     new_status |-> t.old.status]

add_event(t) ==
    [event_type |-> t.event_type,
     previous_status |-> t.old.status,
     new_status |-> t.new.status]

add_outbox_event_BeforeChange(t) ==
    [event_type |-> t.event_type, order |-> t.old]

add_outbox_event(t) ==
    [event_type |-> t.event_type, order |-> t.new]

\* The one read of a handler, and the change it means to commit.
Stage(s, o, row, event_type) ==
    /\ txn[s] = NoTxn
    /\ Len(order_events[o]) < MaxEvents
    /\ txn' = [txn EXCEPT ![s] = [order |-> o, old |-> orders[o],
                                  new |-> row, event_type |-> event_type]]
    /\ UNCHANGED <<orders, order_events, outbox>>

MayBecome_NotTerminal(o, target) ==
    /\ orders[o].status \notin {"none", "delivered", "cancelled"}
    /\ target \in OrderStatus \ {orders[o].status}

\* The handler's `target in ALLOWED_STATUS_TRANSITIONS[order.status]`, after
\* its 404.  No status allows itself, so this covers the 409 of change_status
\* for an order that already has the status, and the early returns of the
\* apply_ methods that only read an existing event back.
MayBecome(o, target) ==
    /\ orders[o].status # "none"
    /\ target \in ALLOWED_STATUS_TRANSITIONS[orders[o].status]

-----------------------------------------------------------------------------
(* HTTP handlers.  The 403 guards only narrow who may call: an admin may   *)
(* make every call below.                                                  *)

\* POST /orders: a new row has no other writer, so it is one step.
create_order(o) ==
    LET t == [order |-> o, old |-> NoRow,
              new |-> [NoRow EXCEPT !.status = "created"],
              event_type |-> "order_created"]
    IN  /\ orders[o].status = "none"
        /\ orders' = [orders EXCEPT ![o] = t.new]
        /\ order_events' = [order_events EXCEPT ![o] = Append(@, add_event(t))]
        /\ outbox' = [outbox EXCEPT ![o] = Append(@, add_outbox_event(t))]
        /\ UNCHANGED txn

NeedsCourier == {"courier_assigned", "in_delivery"}

change_status_NoCourierCheck(s, o, target, c) ==
    LET courier == IF target \in NeedsCourier /\ c # NoCourier
                   THEN c ELSE orders[o].courier_id
    IN  /\ s \in HttpSessions
        /\ MayBecome(o, target)
        /\ Stage(s, o, [orders[o] EXCEPT !.status = target,
                                         !.courier_id = courier],
                 event_type_for_status(target))

\* PATCH /orders/{id}/status with an optional courier_user_id c.
change_status(s, o, target, c) ==
    LET courier == IF target \in NeedsCourier /\ c # NoCourier
                   THEN c ELSE orders[o].courier_id
    IN  /\ s \in HttpSessions
        /\ MayBecome(o, target)
        /\ target \in NeedsCourier => courier # NoCourier
        /\ Stage(s, o, [orders[o] EXCEPT !.status = target,
                                         !.courier_id = courier],
                 event_type_for_status(target))

\* POST /orders/{id}/cancel.
cancel_order(s, o) ==
    /\ s \in HttpSessions
    /\ MayBecome(o, "cancelled")
    /\ Stage(s, o, [orders[o] EXCEPT !.status = "cancelled",
                                     !.cancelled_at = TRUE],
             "order_cancelled")

-----------------------------------------------------------------------------
(* The consumer.  Courier messages arrive at least once, and a replay from *)
(* the dead letter topic makes one arrive at any later time: every message *)
(* a courier could once have caused may be the next one.                   *)

apply_courier_assigned_Unguarded(s, o, c) ==
    /\ s \in ConsumerSessions
    /\ orders[o].status # "none"
    /\ orders[o].status # "courier_assigned"
    /\ Stage(s, o, [orders[o] EXCEPT !.status = "courier_assigned",
                                     !.courier_id = c],
             "courier_assigned")

\* courier_assigned(order o, courier c).
apply_courier_assigned(s, o, c) ==
    /\ s \in ConsumerSessions
    /\ MayBecome(o, "courier_assigned")
    /\ Stage(s, o, [orders[o] EXCEPT !.status = "courier_assigned",
                                     !.courier_id = c],
             "courier_assigned")

\* Like the method below, clearing the courier for "delivered" instead.
apply_assignment_status_changed_ClearsDelivered(s, o, c, assignment_status) ==
    LET target == order_status_for_assignment_status(assignment_status)
    IN  /\ s \in ConsumerSessions
        /\ orders[o].courier_id = c
        /\ MayBecome(o, target)
        /\ Stage(s, o, [orders[o] EXCEPT !.status = target,
                                         !.courier_id =
                           IF target = "delivered" THEN NoCourier ELSE @],
                 event_type_for_status(target))

apply_assignment_status_changed_AnyCourier(s, o, c, assignment_status) ==
    LET target == order_status_for_assignment_status(assignment_status)
    IN  /\ s \in ConsumerSessions
        /\ MayBecome(o, target)
        /\ Stage(s, o, [orders[o] EXCEPT !.status = target,
                                         !.courier_id =
                           IF target = "waiting_for_courier" THEN NoCourier
                           ELSE @],
                 event_type_for_status(target))

\* assignment_status_changed(order o, courier c, status): the assignment is
\* recognised by its courier, not by assignment_id.
apply_assignment_status_changed(s, o, c, assignment_status) ==
    LET target == order_status_for_assignment_status(assignment_status)
    IN  /\ s \in ConsumerSessions
        /\ orders[o].courier_id = c
        /\ MayBecome(o, target)
        /\ Stage(s, o, [orders[o] EXCEPT !.status = target,
                                         !.courier_id =
                           IF target = "waiting_for_courier" THEN NoCourier
                           ELSE @],
                 event_type_for_status(target))

AssignmentStatus == {"assigned", "accepted", "picked_up", "delivered", "cancelled"}

-----------------------------------------------------------------------------
(* The end of a handler.                                                   *)

\* flush and db.commit: the row, its event and its message together.
Commit(s) ==
    LET t == txn[s]
        o == t.order
    IN  /\ t # NoTxn
        /\ orders' = [orders EXCEPT ![o] = UpdateChangedColumns(@, t)]
        /\ order_events' = [order_events EXCEPT ![o] = Append(@, add_event(t))]
        /\ outbox' = [outbox EXCEPT ![o] = Append(@, add_outbox_event(t))]
        /\ txn' = [txn EXCEPT ![s] = NoTxn]

\* The database refuses the flush or the process stops: nothing is written.
Rollback(s) ==
    /\ txn[s] # NoTxn
    /\ txn' = [txn EXCEPT ![s] = NoTxn]
    /\ UNCHANGED <<orders, order_events, outbox>>

Next ==
    \/ \E o \in Orders : create_order(o)
    \/ \E s \in Sessions, o \in Orders :
        \/ \E target \in OrderStatus, c \in Couriers \cup {NoCourier} :
              change_status(s, o, target, c)
        \/ cancel_order(s, o)
        \/ \E c \in Couriers : apply_courier_assigned(s, o, c)
        \/ \E c \in Couriers, status \in AssignmentStatus :
              apply_assignment_status_changed(s, o, c, status)
    \/ \E s \in Sessions : Commit(s) \/ Rollback(s)

Spec == Init /\ [][Next]_vars

\* No two transactions are open on one order at a time.  The service does not
\* enforce this: it is what a row lock taken with the read would give.
OneTxnPerOrder ==
    \A s, t \in Sessions :
        /\ txn[s] # NoTxn
        /\ txn[t] # NoTxn
        /\ txn[s].order = txn[t].order
        => s = t

SerialSpec == Init /\ [][Next /\ OneTxnPerOrder']_vars

-----------------------------------------------------------------------------
(* Properties of Spec: they survive every interleaving of the handlers.    *)

\* Every variable stays within its type.
TypeOK ==
    /\ orders \in [Orders -> Row \cup {NoRow}]
    /\ order_events \in [Orders -> Seq(OrderEvent)]
    /\ outbox \in [Orders -> Seq(OrderMessage)]
    /\ txn \in [Sessions -> Txn \cup {NoTxn}]

LastOf(seq) == seq[Len(seq)]

\* GET /orders/{id} and GET /orders/{id}/events agree: the row's status is
\* the new_status of the order's last event, however the commits interleave.
StatusIsLastEvent ==
    \A o \in Orders :
        orders[o].status = IF order_events[o] = <<>> THEN "none"
                           ELSE LastOf(order_events[o]).new_status

\* Event i of a history is the creation, or a transition that
\* ALLOWED_STATUS_TRANSITIONS lists, out of a status reached before it.
ValidatedEvent(history, i) ==
    LET e == history[i]
    IN  IF i = 1
        THEN e.previous_status = "none" /\ e.new_status = "created"
        ELSE /\ e.previous_status \in OrderStatus
             /\ e.new_status \in ALLOWED_STATUS_TRANSITIONS[e.previous_status]
             /\ \E j \in 1 .. i-1 : history[j].new_status = e.previous_status

ValidHistory(history) ==
    \A i \in 1 .. Len(history) : ValidatedEvent(history, i)

\* Every entry of the history was validated against a status the order really
\* had: even a handler that decided on a stale row decided on a real one.
HistoryIsValidated == \A o \in Orders : ValidHistory(order_events[o])

\* An order is only ever delivered after somebody started its delivery, and
\* that only after a courier was assigned to it.
DeliveryFollowsAssignment ==
    \A o \in Orders : \A i \in 1 .. Len(order_events[o]) :
        order_events[o][i].new_status = "delivered" =>
            \E j \in 1 .. i-1 :
                /\ order_events[o][j].new_status = "in_delivery"
                /\ \E k \in 1 .. j-1 :
                      order_events[o][k].new_status = "courier_assigned"

\* A message that announces courier_assigned or in_delivery names a courier:
\* the tracking and notification services address the courier with it.
AssignedMessagesNameCourier ==
    \A o \in Orders : \A i \in 1 .. Len(outbox[o]) :
        outbox[o][i].order.status \in NeedsCourier =>
            outbox[o][i].order.courier_id \in Couriers

-----------------------------------------------------------------------------
(* Properties of SerialSpec: they need the reads and the UPDATEs of one    *)
(* order not to interleave.                                                *)

\* The status of an order only moves along ALLOWED_STATUS_TRANSITIONS.
\* README.md line 44 promises it of the service.
StatusTransitionsValidated ==
    [][\A o \in Orders :
        orders[o].status \in OrderStatus =>
            \/ orders'[o].status = orders[o].status
            \/ orders'[o].status \in ALLOWED_STATUS_TRANSITIONS[orders[o].status]
      ]_vars

\* Each event leaves the status that the event before it entered.
HistoryIsChain ==
    \A o \in Orders : \A i \in 2 .. Len(order_events[o]) :
        order_events[o][i].previous_status = order_events[o][i-1].new_status

\* An order that is assigned, under way or delivered has a courier: the
\* courier's routes and reports find the order by that column.
DeliveryHasCourier ==
    \A o \in Orders :
        orders[o].status \in {"courier_assigned", "in_delivery", "delivered"} =>
            orders[o].courier_id \in Couriers

\* cancelled_at is only ever set on an order that is, and stays, cancelled.
CancelledAtIsFinal ==
    \A o \in Orders : orders[o].cancelled_at => orders[o].status = "cancelled"

\* The last message of an order carries the row as it is: a consumer that has
\* read them all shows the order's real status and courier.
LastMessageIsRow ==
    \A o \in Orders : outbox[o] # <<>> => LastOf(outbox[o]).order = orders[o]
=============================================================================
