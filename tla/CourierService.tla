--------------------------- MODULE CourierService ----------------------------
(***************************************************************************)
(* services/courier-service: couriers, their availability, and the         *)
(* assignments of couriers to orders, changed by HTTP handlers and by the  *)
(* consumer of the orders topic.                                           *)
(*                                                                         *)
(* As in OrderService, sessions overlap and lock nothing.  Each handler    *)
(* here makes two reads and then commits, and another session may commit   *)
(* between any two of these steps; the second read is a step of its own.   *)
(* An UPDATE writes only the columns that differ from what was read.       *)
(*                                                                         *)
(* Names, phones, cities, notes and timestamps are left out, and so are    *)
(* the messages about a courier alone: only the wording of a notification  *)
(* depends on them.  Cities make _find_available_courier prefer one        *)
(* courier to another; here it takes any that is available.                *)
(***************************************************************************)
EXTENDS Integers, Sequences, FiniteSets

CONSTANTS
    Couriers,          \* courier ids
    Orders,            \* order ids
    Assignments,       \* assignment ids; bound: as many are ever made
    None,              \* no courier, order or assignment
    HttpSessions,      \* threads that serve HTTP requests
    ConsumerSessions,  \* Kafka consumer tasks of the service
    NoTxn              \* the session has no transaction open

Sessions == HttpSessions \cup ConsumerSessions

CourierAvailability == {"online", "offline", "busy"}
AssignmentStatus == {"assigned", "accepted", "picked_up", "delivered", "cancelled"}
TERMINAL_ASSIGNMENT_STATUSES == {"delivered", "cancelled"}

ALLOWED_ASSIGNMENT_TRANSITIONS ==
    [s \in AssignmentStatus |->
        CASE s = "assigned" -> {"accepted", "cancelled"}
          [] s = "accepted" -> {"picked_up", "cancelled"}
          [] s = "picked_up" -> {"delivered"}
          [] OTHER -> {}]

Courier == [availability : CourierAvailability, is_active : BOOLEAN]
NoCourierRow == [availability |-> "none", is_active |-> FALSE]

Assignment == [courier_id : Couriers, order_id : Orders, status : AssignmentStatus]
NoAssignmentRow == [courier_id |-> None, order_id |-> None, status |-> "none"]

\* An open transaction: what its handler read, and what it means to write.
\* next is the step that follows: a second read or the commit.
Txn == [next : {"existing", "available", "courier", "commit"},
        courier : Couriers \cup {None},
        order : Orders \cup {None},
        assignment : Assignments \cup {None},
        read : Courier \cup {NoCourierRow},
        write : Courier \cup {NoCourierRow},
        status : AssignmentStatus \cup {"none"}]

ASSUME SentinelAssumption ==
    /\ None \notin Couriers \cup Orders \cup Assignments
    /\ NoTxn \notin Txn

VARIABLES
    couriers,     \* [Couriers -> Courier \cup {NoCourierRow}]
    assignments,  \* [Assignments -> Assignment \cup {NoAssignmentRow}]
    outbox,       \* [Assignments -> Seq(AssignmentStatus)]: the status each
                  \* courier_assigned or assignment_status_changed message has
    txn,          \* [Sessions -> Txn \cup {NoTxn}]
    overridden    \* SUBSET Couriers: history, somebody changed the availability
                  \* of the courier at work, or set it to busy

vars == <<couriers, assignments, outbox, txn, overridden>>

Init ==
    /\ couriers = [c \in Couriers |-> NoCourierRow]
    /\ assignments = [a \in Assignments |-> NoAssignmentRow]
    /\ outbox = [a \in Assignments |-> <<>>]
    /\ txn = [s \in Sessions |-> NoTxn]
    /\ overridden = {}

-----------------------------------------------------------------------------
(* Reads.                                                                  *)

Exists(c) == couriers[c] # NoCourierRow

Available(c) ==
    /\ Exists(c)
    /\ couriers[c].is_active
    /\ couriers[c].availability = "online"

\* existing_assignment: one of the order that is not cancelled.
HasAssignment_NotFinished(o) ==
    \E a \in Assignments :
        /\ assignments[a].order_id = o
        /\ assignments[a].status \notin TERMINAL_ASSIGNMENT_STATUSES

HasAssignment(o) ==
    \E a \in Assignments :
        assignments[a].order_id = o /\ assignments[a].status # "cancelled"

Active(c) ==
    {a \in Assignments : /\ assignments[a].courier_id = c
                         /\ assignments[a].status \notin TERMINAL_ASSIGNMENT_STATUSES}

Blank == [next |-> "commit", courier |-> None, order |-> None, assignment |-> None,
          read |-> NoCourierRow, write |-> NoCourierRow, status |-> "none"]

Continue(s, t) ==
    /\ txn' = [txn EXCEPT ![s] = t]
    /\ UNCHANGED <<couriers, assignments, outbox, overridden>>

\* A 4xx or an early return: the session is closed and nothing is written.
Close(s) == Continue(s, NoTxn)

-----------------------------------------------------------------------------
(* HTTP handlers.                                                          *)

\* POST /couriers: a new row has no other writer, so it is one step.
create_courier(c) ==
    /\ ~Exists(c)
    /\ couriers' = [couriers EXCEPT ![c] = [availability |-> "offline",
                                            is_active |-> TRUE]]
    /\ UNCHANGED <<assignments, outbox, txn, overridden>>

\* PATCH /couriers/{id}: of its fields only is_active matters here.
update_courier(s, c, is_active) ==
    /\ s \in HttpSessions /\ txn[s] = NoTxn
    /\ Exists(c)
    /\ Continue(s, [Blank EXCEPT !.courier = c, !.read = couriers[c],
                    !.write = [couriers[c] EXCEPT !.is_active = is_active]])

\* PATCH /couriers/{id}/availability.
change_availability(s, c, availability) ==
    /\ s \in HttpSessions /\ txn[s] = NoTxn
    /\ Exists(c)
    /\ couriers[c].is_active
    /\ Continue(s, [Blank EXCEPT !.courier = c, !.read = couriers[c],
                    !.write = [couriers[c] EXCEPT !.availability = availability]])

\* POST /couriers/assignments: the courier is read first.
assign_courier(s, c, o) ==
    /\ s \in HttpSessions /\ txn[s] = NoTxn
    /\ Available(c)
    /\ Continue(s, [Blank EXCEPT !.next = "existing", !.courier = c, !.order = o,
                    !.read = couriers[c],
                    !.write = [couriers[c] EXCEPT !.availability = "busy"],
                    !.status = "assigned"])

\* ... and then whether the order has an assignment.
assign_courier_existing(s) ==
    /\ txn[s] # NoTxn
    /\ txn[s].next = "existing"
    /\ IF HasAssignment(txn[s].order) THEN Close(s)
       ELSE Continue(s, [txn[s] EXCEPT !.next = "commit"])

update_assignment_status_AnyTarget(s, a, target) ==
    /\ s \in HttpSessions /\ txn[s] = NoTxn
    /\ assignments[a] # NoAssignmentRow
    /\ target # assignments[a].status
    /\ Continue(s, [Blank EXCEPT !.next = "courier",
                    !.courier = assignments[a].courier_id,
                    !.order = assignments[a].order_id,
                    !.assignment = a, !.status = target])

\* PATCH /couriers/assignments/{id}/status: the assignment is read first.  No
\* status allows itself, so this covers the 409 for an unchanged status.
update_assignment_status(s, a, target) ==
    /\ s \in HttpSessions /\ txn[s] = NoTxn
    /\ assignments[a] # NoAssignmentRow
    /\ target \in ALLOWED_ASSIGNMENT_TRANSITIONS[assignments[a].status]
    /\ Continue(s, [Blank EXCEPT !.next = "courier",
                    !.courier = assignments[a].courier_id,
                    !.order = assignments[a].order_id,
                    !.assignment = a, !.status = target])

update_assignment_status_courier_KeepsBusy(s) ==
    LET t == txn[s]
    IN  /\ t # NoTxn
        /\ t.next = "courier"
        /\ Continue(s, [t EXCEPT !.next = "commit",
                                 !.read = couriers[t.courier],
                                 !.write =
              IF t.status = "delivered"
              THEN [couriers[t.courier] EXCEPT !.availability = "online"]
              ELSE couriers[t.courier]])

\* ... and then its courier, who is online again when the assignment ends.
update_assignment_status_courier(s) ==
    LET t == txn[s]
    IN  /\ t # NoTxn
        /\ t.next = "courier"
        /\ Continue(s, [t EXCEPT !.next = "commit",
                                 !.read = couriers[t.courier],
                                 !.write =
              IF t.status \in TERMINAL_ASSIGNMENT_STATUSES
              THEN [couriers[t.courier] EXCEPT !.availability = "online"]
              ELSE couriers[t.courier]])

-----------------------------------------------------------------------------
(* The consumer: order_created, at least once per order.                   *)

auto_assign_order(s, o) ==
    /\ s \in ConsumerSessions /\ txn[s] = NoTxn
    /\ ~HasAssignment(o)
    /\ Continue(s, [Blank EXCEPT !.next = "available", !.order = o,
                                 !.status = "assigned"])

\* _find_available_courier, or None and no assignment, now or ever.
find_available_courier(s) ==
    /\ txn[s] # NoTxn
    /\ txn[s].next = "available"
    /\ \/ /\ \A c \in Couriers : ~Available(c)
          /\ Close(s)
       \/ \E c \in Couriers :
             /\ Available(c)
             /\ Continue(s, [txn[s] EXCEPT !.next = "commit", !.courier = c,
                             !.read = couriers[c],
                             !.write = [couriers[c] EXCEPT !.availability = "busy"]])

-----------------------------------------------------------------------------
(* The end of a handler.                                                   *)

UpdateChangedColumns(row, t) ==
    [availability |-> IF t.write.availability # t.read.availability
                      THEN t.write.availability ELSE row.availability,
     is_active |-> IF t.write.is_active # t.read.is_active
                   THEN t.write.is_active ELSE row.is_active]

WriteCourier(t) ==
    couriers' = [couriers EXCEPT ![t.courier] = UpdateChangedColumns(@, t)]

\* Of update_courier and change_availability.
CommitCourier(s) ==
    LET t == txn[s]
    IN  /\ t # NoTxn
        /\ t.next = "commit" /\ t.status = "none"
        /\ WriteCourier(t)
        /\ overridden' = IF /\ t.write.availability # t.read.availability
                            /\ Active(t.courier) # {} \/ t.write.availability = "busy"
                         THEN overridden \cup {t.courier} ELSE overridden
        /\ txn' = [txn EXCEPT ![s] = NoTxn]
        /\ UNCHANGED <<assignments, outbox>>

\* Of assign_courier and auto_assign_order: the INSERT of a new assignment.
CommitAssignment(s, a) ==
    LET t == txn[s]
    IN  /\ t # NoTxn
        /\ t.next = "commit" /\ t.status # "none" /\ t.assignment = None
        /\ assignments[a] = NoAssignmentRow
        /\ WriteCourier(t)
        /\ assignments' = [assignments EXCEPT ![a] =
              [courier_id |-> t.courier, order_id |-> t.order, status |-> t.status]]
        /\ outbox' = [outbox EXCEPT ![a] = Append(@, t.status)]
        /\ txn' = [txn EXCEPT ![s] = NoTxn]
        /\ UNCHANGED overridden

CommitStatus_Silent(s) ==
    LET t == txn[s]
    IN  /\ t # NoTxn
        /\ t.next = "commit" /\ t.assignment # None
        /\ WriteCourier(t)
        /\ assignments' = [assignments EXCEPT ![t.assignment].status = t.status]
        /\ outbox' = IF t.status = "cancelled" THEN outbox
                     ELSE [outbox EXCEPT ![t.assignment] = Append(@, t.status)]
        /\ txn' = [txn EXCEPT ![s] = NoTxn]
        /\ UNCHANGED overridden

\* Of update_assignment_status.
CommitStatus(s) ==
    LET t == txn[s]
    IN  /\ t # NoTxn
        /\ t.next = "commit" /\ t.assignment # None
        /\ WriteCourier(t)
        /\ assignments' = [assignments EXCEPT ![t.assignment].status = t.status]
        /\ outbox' = [outbox EXCEPT ![t.assignment] = Append(@, t.status)]
        /\ txn' = [txn EXCEPT ![s] = NoTxn]
        /\ UNCHANGED overridden

\* The database refuses a statement or the process stops: nothing is written.
Rollback(s) == txn[s] # NoTxn /\ Close(s)

Next ==
    \/ \E c \in Couriers : create_courier(c)
    \/ \E s \in Sessions :
        \/ \E c \in Couriers, is_active \in BOOLEAN : update_courier(s, c, is_active)
        \/ \E c \in Couriers, availability \in CourierAvailability :
              change_availability(s, c, availability)
        \/ \E c \in Couriers, o \in Orders : assign_courier(s, c, o)
        \/ assign_courier_existing(s)
        \/ \E a \in Assignments, target \in AssignmentStatus :
              update_assignment_status(s, a, target)
        \/ update_assignment_status_courier(s)
        \/ \E o \in Orders : auto_assign_order(s, o)
        \/ find_available_courier(s)
        \/ CommitCourier(s)
        \/ \E a \in Assignments : CommitAssignment(s, a)
        \/ CommitStatus(s)
        \/ Rollback(s)

Spec == Init /\ [][Next]_vars

\* Open transactions share no courier and no order.  The service does not
\* enforce this: it is what locks on the rows a handler reads would give.
NoConflict ==
    \A s, t \in Sessions :
        /\ s # t
        /\ txn[s] # NoTxn
        /\ txn[t] # NoTxn
        => /\ txn[s].courier = txn[t].courier => txn[s].courier = None
           /\ txn[s].order = txn[t].order => txn[s].order = None

SerialSpec == Init /\ [][Next /\ NoConflict']_vars

-----------------------------------------------------------------------------
(* Properties.                                                             *)

\* Every variable stays within its type.
TypeOK ==
    /\ couriers \in [Couriers -> Courier \cup {NoCourierRow}]
    /\ assignments \in [Assignments -> Assignment \cup {NoAssignmentRow}]
    /\ outbox \in [Assignments -> Seq(AssignmentStatus)]
    /\ txn \in [Sessions -> Txn \cup {NoTxn}]
    /\ overridden \in SUBSET Couriers

\* The last message about an assignment carries its status, whatever commits
\* in whatever order.
LastMessageIsStatus ==
    \A a \in Assignments :
        assignments[a].status = IF outbox[a] = <<>> THEN "none"
                                ELSE outbox[a][Len(outbox[a])]

\* An order has at most one assignment that is not cancelled: what the 409
\* "Order already has an active assignment" says.
OneAssignmentPerOrder ==
    \A o \in Orders :
        Cardinality({a \in Assignments : /\ assignments[a].order_id = o
                                         /\ assignments[a].status # "cancelled"}) <= 1

\* An assignment only moves along ALLOWED_ASSIGNMENT_TRANSITIONS.
AssignmentTransitionsValidated ==
    [][\A a \in Assignments :
        assignments[a] # NoAssignmentRow =>
            \/ assignments'[a] = assignments[a]
            \/ assignments'[a].status
                 \in ALLOWED_ASSIGNMENT_TRANSITIONS[assignments[a].status]
      ]_vars

\* Unless somebody overrode the availability by hand, a courier is busy exactly
\* while working on an assignment, and works on one at a time.
BusyIsWorking ==
    \A c \in Couriers \ overridden :
        /\ Cardinality(Active(c)) <= 1
        /\ couriers[c].availability = "busy" <=> Active(c) # {}
=============================================================================
