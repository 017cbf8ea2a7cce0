--------------------------- MODULE PaymentService ----------------------------
(***************************************************************************)
(* services/payment-service: payments for orders and their event history,  *)
(* changed by HTTP handlers only.                                          *)
(*                                                                         *)
(* As in OrderService, sessions overlap and lock nothing: a handler is a   *)
(* read with all its guards and a commit, and the UPDATE writes only the   *)
(* columns that differ from what was read.  Amount, currency, user, method *)
(* and description never change after the INSERT, and no guard reads the   *)
(* provider's reference: they are left out.  A timestamp and failure_reason*)
(* are whether they are set.  Every event is put into outbox_events in the *)
(* same transaction with the same payload, so the outbox of a payment is   *)
(* its payment_events.                                                     *)
(***************************************************************************)
EXTENDS Integers, Sequences, FiniteSets

CONSTANTS
    Payments,  \* payment ids; bound: as many are ever made
    Orders,    \* order ids
    None,      \* no payment or order
    Sessions,  \* threads that serve HTTP requests
    NoTxn,     \* the session has no transaction open
    Disputed   \* see PaymentLedger

PaymentStatus == {"pending", "confirmed", "failed", "refunded"}
ACTIVE_PAYMENT_STATUSES == {"pending", "confirmed"}

\* A row of payments.
Row == [order_id : Orders, status : PaymentStatus, failure_reason : BOOLEAN,
        confirmed_at : BOOLEAN, failed_at : BOOLEAN, refunded_at : BOOLEAN]
UnsetRow(o, status) ==
    [order_id |-> o, status |-> status, failure_reason |-> FALSE,
     confirmed_at |-> FALSE, failed_at |-> FALSE, refunded_at |-> FALSE]
NoRow == UnsetRow(None, "none")

\* A row of payment_events: its payload is the payment as the session saw it,
\* whose status is the event's new_status and gives the event its type.
PaymentEvent == [previous_status : PaymentStatus \cup {"none"}, payment : Row]

\* An open transaction: the row as read (NoRow for a new payment) and as left.
Txn == [order : Orders, payment : Payments \cup {None},
        old : Row \cup {NoRow}, new : Row]

ASSUME SentinelAssumption ==
    /\ None \notin Payments \cup Orders
    /\ NoTxn \notin Txn
    /\ \A taken, returned, requested \in SUBSET Payments :
          Disputed # [requested |-> requested, taken |-> taken, returned |-> returned]

VARIABLES
    payments,        \* [Payments -> Row \cup {NoRow}]: the committed rows
    payment_events,  \* [Payments -> Seq(PaymentEvent)]: in created_at order
    txn,             \* [Sessions -> Txn \cup {NoTxn}]
    overlapped       \* SUBSET Orders: history, transactions on the order overlapped

vars == <<payments, payment_events, txn, overlapped>>

Init ==
    /\ payments = [p \in Payments |-> NoRow]
    /\ payment_events = [p \in Payments |-> <<>>]
    /\ txn = [s \in Sessions |-> NoTxn]
    /\ overlapped = {}

-----------------------------------------------------------------------------
(* The handlers up to their first write.                                   *)

Open(s, o, p, new) ==
    /\ txn[s] = NoTxn
    /\ txn' = [txn EXCEPT ![s] =
          [order |-> o, payment |-> p,
           old |-> IF p = None THEN NoRow ELSE payments[p], new |-> new]]
    /\ overlapped' = IF \E t \in Sessions : txn[t] # NoTxn /\ txn[t].order = o
                     THEN overlapped \cup {o} ELSE overlapped
    /\ UNCHANGED <<payments, payment_events>>

NewRow(o) == UnsetRow(o, "pending")

create_payment_IfNotPending(s, o) ==
    /\ \A p \in Payments : payments[p].order_id = o => payments[p].status # "pending"
    /\ Open(s, o, None, NewRow(o))

\* POST /payments: 409 when the order has a pending or a confirmed payment.
create_payment(s, o) ==
    /\ \A p \in Payments : payments[p].order_id = o
                              => payments[p].status \notin ACTIVE_PAYMENT_STATUSES
    /\ Open(s, o, None, NewRow(o))

\* POST /payments/{id}/confirm.
confirm_payment(s, p) ==
    /\ payments[p].status = "pending"
    /\ Open(s, payments[p].order_id, p,
            [payments[p] EXCEPT !.status = "confirmed", !.failure_reason = FALSE,
                                !.confirmed_at = TRUE])

fail_payment_IfActive(s, p) ==
    /\ payments[p].status \in ACTIVE_PAYMENT_STATUSES
    /\ Open(s, payments[p].order_id, p,
            [payments[p] EXCEPT !.status = "failed", !.failure_reason = TRUE,
                                !.failed_at = TRUE])

\* POST /payments/{id}/fail.
fail_payment(s, p) ==
    /\ payments[p].status = "pending"
    /\ Open(s, payments[p].order_id, p,
            [payments[p] EXCEPT !.status = "failed", !.failure_reason = TRUE,
                                !.failed_at = TRUE])

\* POST /payments/{id}/refund.
refund_payment(s, p) ==
    /\ payments[p].status = "confirmed"
    /\ Open(s, payments[p].order_id, p,
            [payments[p] EXCEPT !.status = "refunded", !.failure_reason = TRUE,
                                !.refunded_at = TRUE])

-----------------------------------------------------------------------------
(* The end of a handler.                                                   *)

Record(s, p) ==
    /\ payment_events' = [payment_events EXCEPT ![p] =
          Append(@, [previous_status |-> txn[s].old.status,
                     payment |-> txn[s].new])]
    /\ txn' = [txn EXCEPT ![s] = NoTxn]
    /\ UNCHANGED overlapped

\* The UPDATE of a flush: only the columns the session changed are written.
UpdateChangedColumns(row, t) ==
    [order_id |-> row.order_id,
     status |-> IF t.new.status # t.old.status THEN t.new.status ELSE row.status,
     failure_reason |-> IF t.new.failure_reason # t.old.failure_reason
                        THEN t.new.failure_reason ELSE row.failure_reason,
     confirmed_at |-> IF t.new.confirmed_at # t.old.confirmed_at
                      THEN t.new.confirmed_at ELSE row.confirmed_at,
     failed_at |-> IF t.new.failed_at # t.old.failed_at
                   THEN t.new.failed_at ELSE row.failed_at,
     refunded_at |-> IF t.new.refunded_at # t.old.refunded_at
                     THEN t.new.refunded_at ELSE row.refunded_at]

\* Of create_payment: nothing but the SELECT kept two active payments apart.
CommitInsert(s, p) ==
    /\ txn[s] # NoTxn
    /\ txn[s].payment = None
    /\ payments[p] = NoRow
    /\ payments' = [payments EXCEPT ![p] = txn[s].new]
    /\ Record(s, p)

CommitUpdate_StatusOnly(s, p) ==
    /\ txn[s] # NoTxn
    /\ txn[s].payment = p
    /\ payments' = [payments EXCEPT ![p].status = txn[s].new.status]
    /\ Record(s, p)

\* Of the other handlers.
CommitUpdate(s, p) ==
    /\ txn[s] # NoTxn
    /\ txn[s].payment = p
    /\ payments' = [payments EXCEPT ![p] = UpdateChangedColumns(@, txn[s])]
    /\ Record(s, p)

\* The database refuses a statement or the process stops: nothing is written.
Rollback(s) ==
    /\ txn[s] # NoTxn
    /\ txn' = [txn EXCEPT ![s] = NoTxn]
    /\ UNCHANGED <<payments, payment_events, overlapped>>

Next ==
    \E s \in Sessions :
        \/ \E o \in Orders : create_payment(s, o)
        \/ \E p \in Payments : \/ confirm_payment(s, p)
                               \/ fail_payment(s, p)
                               \/ refund_payment(s, p)
                               \/ CommitInsert(s, p)
                               \/ CommitUpdate(s, p)
        \/ Rollback(s)

Spec == Init /\ [][Next]_vars

-----------------------------------------------------------------------------
(* Properties.                                                             *)

\* Every variable stays within its type.
TypeOK ==
    /\ payments \in [Payments -> Row \cup {NoRow}]
    /\ payment_events \in [Payments -> Seq(PaymentEvent)]
    /\ txn \in [Sessions -> Txn \cup {NoTxn}]
    /\ overlapped \in SUBSET Orders

Has(p, status) ==
    \E i \in 1..Len(payment_events[p]) : payment_events[p][i].payment.status = status

\* Under every interleaving, money is only refunded that was confirmed before:
\* refund_payment reads a status that only a confirmation writes.
RefundWasConfirmed ==
    \A p \in Payments : \A i \in 1..Len(payment_events[p]) :
        payment_events[p][i].payment.status = "refunded" =>
            \E j \in 1..(i-1) : payment_events[p][j].payment.status = "confirmed"

\* Unless transactions on it overlapped, an order has one active payment: what
\* the 409 "Active payment for this order already exists" says.
OneActivePayment ==
    \A o \in Orders \ overlapped :
        Cardinality({p \in Payments : /\ payments[p].order_id = o
                                      /\ payments[p].status \in ACTIVE_PAYMENT_STATUSES})
          <= 1

\* Unless transactions on its order overlapped, a payment's row is the payload
\* of its last event and its columns tell which events it had: it was confirmed
\* when confirmed_at is set and so on, and of fail and refund it had one.
RowMatchesHistory ==
    \A p \in Payments : LET row == payments[p] IN
        /\ row # NoRow
        /\ row.order_id \notin overlapped
        => /\ row = payment_events[p][Len(payment_events[p])].payment
           /\ row.confirmed_at <=> Has(p, "confirmed")
           /\ row.failed_at <=> Has(p, "failed")
           /\ row.refunded_at <=> Has(p, "refunded")
           /\ row.failure_reason <=> Has(p, "failed") \/ Has(p, "refunded")
           /\ ~(row.failed_at /\ row.confirmed_at)

\* The money of each order, as its events tell it.
OfOrder(o) == {p \in Payments : payments[p].order_id = o}
Requested(o) == {p \in OfOrder(o) : payments[p].status = "pending"}
Taken(o) == {p \in OfOrder(o) : Has(p, "confirmed")}
Returned(o) == {p \in OfOrder(o) : Has(p, "refunded")}
Entry(o) == [requested |-> Requested(o), taken |-> Taken(o), returned |-> Returned(o)]
Balance == [o \in Orders |-> IF o \in overlapped THEN Disputed ELSE Entry(o)]

Ledger == INSTANCE PaymentLedger WITH ledger <- Balance

\* Unless its transactions overlap, an order is asked for money by one payment
\* at a time and not while a confirmed payment is not refunded.
ImplementsLedger == Ledger!Spec
=============================================================================
