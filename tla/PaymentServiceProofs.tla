------------------------ MODULE PaymentServiceProofs -------------------------
(***************************************************************************)
(* Proofs about the payment service, for any sets of payments, orders and  *)
(* sessions.                                                               *)
(*                                                                         *)
(* The handlers that work on an existing payment all open a transaction    *)
(* whose change of the row is one of three moves (Move).  StepKinds puts   *)
(* Next in terms of these, so that an invariant has four kinds of step:    *)
(* Opens, CommitInsert, CommitUpdate and Rollback.                         *)
(***************************************************************************)
EXTENDS PaymentService, FiniteSetTheorems, SequenceTheorems, TLAPS

-----------------------------------------------------------------------------
(* What a handler may open.                                                *)

\* A change of a row that the guards of the handlers let through.
Move(old, new) ==
    \/ /\ old.status = "pending"
       /\ new = [old EXCEPT !.status = "confirmed", !.failure_reason = FALSE,
                            !.confirmed_at = TRUE]
    \/ /\ old.status = "pending"
       /\ new = [old EXCEPT !.status = "failed", !.failure_reason = TRUE,
                            !.failed_at = TRUE]
    \/ /\ old.status = "confirmed"
       /\ new = [old EXCEPT !.status = "refunded", !.failure_reason = TRUE,
                            !.refunded_at = TRUE]

NoneActive(o) ==
    \A p \in Payments : payments[p].order_id = o
                           => payments[p].status \notin ACTIVE_PAYMENT_STATUSES

OpensNew(s, o) == NoneActive(o) /\ Open(s, o, None, NewRow(o))

OpensMove(s, o, p) ==
    /\ payments[p] \in Row /\ payments[p].order_id = o
    /\ \E new \in Row : Move(payments[p], new) /\ Open(s, o, p, new)

\* The steps of Next by what they do to the database.
StepKinds ==
    \E s \in Sessions :
        \/ \E o \in Orders : OpensNew(s, o)
        \/ \E o \in Orders, p \in Payments : OpensMove(s, o, p)
        \/ \E p \in Payments : CommitInsert(s, p)
        \/ \E p \in Payments : CommitUpdate(s, p)
        \/ Rollback(s)

\* A new payment's row, and that no row is none.
LEMMA NewRowInType ==
    ASSUME NEW o \in Orders
    PROVE  NewRow(o) \in Row /\ NoRow \notin Row
BY SentinelAssumption DEF NewRow, NoRow, UnsetRow, Row, PaymentStatus

\* The columns of a row after a move.
LEMMA MoveColumns ==
    ASSUME NEW old \in Row, NEW new, Move(old, new)
    PROVE  /\ new \in Row
           /\ new.order_id = old.order_id
           /\ \/ /\ old.status = "pending" /\ new.status = "confirmed"
                 /\ new.failure_reason = FALSE /\ new.confirmed_at = TRUE
                 /\ new.failed_at = old.failed_at
                 /\ new.refunded_at = old.refunded_at
              \/ /\ old.status = "pending" /\ new.status = "failed"
                 /\ new.failure_reason = TRUE /\ new.failed_at = TRUE
                 /\ new.confirmed_at = old.confirmed_at
                 /\ new.refunded_at = old.refunded_at
              \/ /\ old.status = "confirmed" /\ new.status = "refunded"
                 /\ new.failure_reason = TRUE /\ new.refunded_at = TRUE
                 /\ new.confirmed_at = old.confirmed_at
                 /\ new.failed_at = old.failed_at
BY DEF Move, Row, PaymentStatus

\* A row has the status of a payment; where there is none it is "none".
LEMMA RowOfPayment ==
    ASSUME TypeOK, NEW p \in Payments
    PROVE  /\ payments[p] \in Row \/ payments[p] = NoRow
           /\ payments[p] \in Row => /\ payments[p].status \in PaymentStatus
                                     /\ payments[p].order_id \in Orders
           /\ payments[p].status \in PaymentStatus => payments[p] \in Row
           /\ payments[p].order_id \in Orders => payments[p] \in Row
           /\ payments[p] # NoRow => payments[p] \in Row
BY SentinelAssumption DEF TypeOK, Row, NoRow, UnsetRow, PaymentStatus

\* Every step is of one of the kinds.
LEMMA HandlersOpen ==
    ASSUME TypeOK, Next
    PROVE  StepKinds
<1>1. ASSUME NEW s \in Sessions, NEW o \in Orders, create_payment(s, o)
      PROVE  OpensNew(s, o)
  BY <1>1 DEF create_payment, OpensNew, NoneActive
<1>2. ASSUME NEW s \in Sessions, NEW p \in Payments,
             confirm_payment(s, p) \/ fail_payment(s, p) \/ refund_payment(s, p)
      PROVE  \E o \in Orders : OpensMove(s, o, p)
  <2>1. payments[p].status \in PaymentStatus
    BY <1>2 DEF confirm_payment, fail_payment, refund_payment, PaymentStatus
  <2>2. payments[p] \in Row /\ payments[p].order_id \in Orders
    BY <2>1, RowOfPayment
  <2>3. PICK new : Move(payments[p], new) /\ Open(s, payments[p].order_id, p, new)
    BY <1>2 DEF confirm_payment, fail_payment, refund_payment, Move
  <2>4. new \in Row
    BY <2>2, <2>3, MoveColumns
  <2> QED
    BY <2>2, <2>3, <2>4 DEF OpensMove
<1> QED
  BY <1>1, <1>2 DEF Next, StepKinds

-----------------------------------------------------------------------------
(* Type correctness.                                                       *)

\* Columns written by a move leave a row a row.
LEMMA UpdateInType ==
    ASSUME NEW row \in Row, NEW t \in Txn, t.old \in Row
    PROVE  /\ UpdateChangedColumns(row, t) \in Row
           /\ UpdateChangedColumns(row, t).order_id = row.order_id
           /\ t.new.status # t.old.status
                 => UpdateChangedColumns(row, t).status = t.new.status
           /\ row = t.old /\ t.new.order_id = t.old.order_id
                 => UpdateChangedColumns(row, t) = t.new
BY DEF UpdateChangedColumns, Row, Txn

\* What an open transaction holds, whatever else commits meanwhile: the change
\* is a move of the row it read, and that row is still there.
TxnHolds(s) ==
    LET t == txn[s]
    IN  IF t.payment = None
        THEN t.old = NoRow /\ t.new = NewRow(t.order)
        ELSE /\ t.old \in Row /\ t.old.order_id = t.order
             /\ Move(t.old, t.new)
             /\ payments[t.payment] \in Row
             /\ payments[t.payment].order_id = t.order

TypeInv == TypeOK /\ \A s \in Sessions : txn[s] # NoTxn => TxnHolds(s)

\* TypeInv is inductive.
LEMMA TypeInvInductive ==
    /\ Init => TypeInv
    /\ TypeInv /\ [Next]_vars => TypeInv'
<1>1. Init => TypeInv
  BY EmptySeq DEF Init, TypeInv, TypeOK
<1>2. TypeInv /\ [Next]_vars => TypeInv'
  <2> SUFFICES ASSUME TypeInv, [Next]_vars
               PROVE  TypeInv'
    OBVIOUS
  <2>0. TypeOK
    BY DEF TypeInv
  <2>1. CASE UNCHANGED vars
    BY <2>1 DEF TypeInv, TypeOK, TxnHolds, vars
  <2>2. ASSUME NEW s \in Sessions, NEW o \in Orders, OpensNew(s, o)
        PROVE  TypeInv'
    <3> DEFINE t == [order |-> o, payment |-> None, old |-> NoRow, new |-> NewRow(o)]
    <3>1. /\ txn' = [txn EXCEPT ![s] = t]
          /\ UNCHANGED <<payments, payment_events>>
          /\ overlapped' \in {overlapped, overlapped \cup {o}}
      BY <2>2 DEF OpensNew, Open
    <3>2. t \in Txn
      BY NewRowInType DEF Txn
    <3>3. TypeOK'
      BY <2>0, <3>1, <3>2 DEF TypeOK
    <3>4. ASSUME NEW r \in Sessions, txn'[r] # NoTxn
          PROVE  TxnHolds(r)'
      BY <2>0, <3>1, <3>4 DEF TypeInv, TypeOK, TxnHolds
    <3> QED
      BY <3>3, <3>4 DEF TypeInv
  <2>3. ASSUME NEW s \in Sessions, NEW o \in Orders, NEW p \in Payments,
               OpensMove(s, o, p)
        PROVE  TypeInv'
    <3>1. PICK new \in Row : Move(payments[p], new) /\ Open(s, o, p, new)
      BY <2>3 DEF OpensMove
    <3>2. payments[p] \in Row /\ payments[p].order_id = o /\ p # None
      BY <2>3, SentinelAssumption DEF OpensMove
    <3> DEFINE t == [order |-> o, payment |-> p, old |-> payments[p], new |-> new]
    <3>3. /\ txn' = [txn EXCEPT ![s] = t]
          /\ UNCHANGED <<payments, payment_events>>
          /\ overlapped' \in {overlapped, overlapped \cup {o}}
      BY <3>1, <3>2 DEF Open
    <3>4. t \in Txn
      BY <3>2 DEF Txn
    <3>5. TypeOK'
      BY <2>0, <3>3, <3>4 DEF TypeOK
    <3>6. ASSUME NEW r \in Sessions, txn'[r] # NoTxn
          PROVE  TxnHolds(r)'
      BY <2>0, <3>1, <3>2, <3>3, <3>6 DEF TypeInv, TypeOK, TxnHolds
    <3> QED
      BY <3>5, <3>6 DEF TypeInv
  <2>4. ASSUME NEW s \in Sessions, NEW p \in Payments, NEW row \in Row,
               txn[s] # NoTxn, Record(s, p),
               payments' = [payments EXCEPT ![p] = row],
               payments[p] \in Row => row.order_id = payments[p].order_id
        PROVE  TypeInv'
    <3>1. txn[s] \in Txn /\ TxnHolds(s)
      BY <2>0, <2>4 DEF TypeOK, TypeInv
    <3> DEFINE e == [previous_status |-> txn[s].old.status, payment |-> txn[s].new]
    <3>2. e \in PaymentEvent
      BY <3>1 DEF Txn, TxnHolds, PaymentEvent, Row, NoRow, UnsetRow
    <3>3. payment_events'[p] = Append(payment_events[p], e)
          /\ payment_events' = [payment_events EXCEPT ![p] = Append(@, e)]
      BY <2>0, <2>4 DEF Record, TypeOK
    <3>4. Append(payment_events[p], e) \in Seq(PaymentEvent)
      BY <2>0, <3>2, AppendProperties DEF TypeOK
    <3>5. TypeOK'
      BY <2>0, <2>4, <3>3, <3>4 DEF TypeOK, Record
    <3>6. ASSUME NEW r \in Sessions, txn'[r] # NoTxn
          PROVE  TxnHolds(r)'
      <4>1. txn'[r] = txn[r] /\ txn[r] \in Txn /\ TxnHolds(r)
        BY <2>0, <2>4, <3>6 DEF Record, TypeInv, TypeOK
      <4>2. CASE txn[r].payment = None
        BY <4>1, <4>2 DEF TxnHolds
      <4>3. CASE txn[r].payment # None
        <5>1. txn[r].payment \in Payments
          BY <4>1, <4>3 DEF Txn
        <5> QED
          BY <2>0, <2>4, <4>1, <4>3, <5>1 DEF TxnHolds, TypeOK
      <4> QED
        BY <4>2, <4>3
    <3> QED
      BY <3>5, <3>6 DEF TypeInv
  <2>5. ASSUME NEW s \in Sessions, NEW p \in Payments, CommitInsert(s, p)
        PROVE  TypeInv'
    <3>1. txn[s] \in Txn /\ txn[s].new \in Row
      BY <2>0, <2>5 DEF CommitInsert, TypeOK, Txn
    <3>2. payments[p] \notin Row
      BY <2>5, SentinelAssumption DEF CommitInsert, NoRow, UnsetRow, Row
    <3> QED
      BY <2>4, <2>5, <3>1, <3>2 DEF CommitInsert
  <2>6. ASSUME NEW s \in Sessions, NEW p \in Payments, CommitUpdate(s, p)
        PROVE  TypeInv'
    <3>1. txn[s] \in Txn /\ txn[s].payment = p /\ p # None /\ TxnHolds(s)
      BY <2>0, <2>6, SentinelAssumption DEF CommitUpdate, TypeOK, TypeInv
    <3>2. payments[p] \in Row /\ txn[s].old \in Row
      BY <3>1 DEF TxnHolds
    <3>3. payments' = [payments EXCEPT
                         ![p] = UpdateChangedColumns(payments[p], txn[s])]
      BY <2>0, <2>6 DEF CommitUpdate, TypeOK
    <3> QED
      BY <2>4, <2>6, <3>1, <3>2, <3>3, UpdateInType DEF CommitUpdate
  <2>7. ASSUME NEW s \in Sessions, Rollback(s)
        PROVE  TypeInv'
    <3>1. TypeOK'
      BY <2>0, <2>7 DEF Rollback, TypeOK
    <3>2. ASSUME NEW r \in Sessions, txn'[r] # NoTxn
          PROVE  TxnHolds(r)'
      BY <2>0, <2>7, <3>2 DEF Rollback, TypeInv, TypeOK, TxnHolds
    <3> QED
      BY <3>1, <3>2 DEF TypeInv
  <2> QED
    BY <2>0, <2>1, <2>2, <2>3, <2>5, <2>6, <2>7, HandlersOpen DEF StepKinds
<1> QED
  BY <1>1, <1>2

\* The variables of the payment service stay within their types.
THEOREM PaymentTypeCorrect == Spec => []TypeOK
<1>1. Spec => []TypeInv
  BY TypeInvInductive, PTL DEF Spec
<1>2. TypeInv => TypeOK
  BY DEF TypeInv
<1> QED
  BY <1>1, <1>2, PTL

-----------------------------------------------------------------------------
(* Event histories under every interleaving.                               *)

\* Recording an event adds its status to those its payment had, and those of
\* the other payments stay.
LEMMA HasAfterRecord ==
    ASSUME TypeOK, NEW s \in Sessions, NEW p \in Payments, Record(s, p),
           NEW q \in Payments, NEW status
    PROVE  Has(q, status)' <=> Has(q, status) \/ (q = p /\ txn[s].new.status = status)
<1> DEFINE e == [previous_status |-> txn[s].old.status, payment |-> txn[s].new]
<1>1. payment_events' = [payment_events EXCEPT ![p] = Append(payment_events[p], e)]
  BY DEF Record
<1>2. CASE q # p
  <2>1. payment_events'[q] = payment_events[q]
    BY <1>1, <1>2 DEF TypeOK
  <2> QED
    BY <1>2, <2>1 DEF Has
<1>3. CASE q = p
  <2> DEFINE old == payment_events[p]
  <2>1. payment_events'[p] = Append(old, e) /\ old \in Seq(PaymentEvent)
    BY <1>1 DEF TypeOK
  <2>2. /\ Len(old) \in Nat /\ Len(Append(old, e)) = Len(old) + 1
        /\ \A i \in 1..Len(old) : Append(old, e)[i] = old[i]
        /\ Append(old, e)[Len(old) + 1] = e
    <3> HIDE DEF e, old
    <3> QED
      BY <2>1, LenProperties, AppendProperties
  <2>3. e.payment = txn[s].new
    OBVIOUS
  <2>4. Has(p, status)' <=> \E i \in 1..(Len(old) + 1) :
                               Append(old, e)[i].payment.status = status
    BY <2>1, <2>2 DEF Has
  <2>5. Has(p, status) <=> \E i \in 1..Len(old) : old[i].payment.status = status
    BY DEF Has
  <2> HIDE DEF e, old
  <2> QED
    BY <1>3, <2>2, <2>3, <2>4, <2>5
<1> QED
  BY <1>2, <1>3

\* A step that leaves payment_events alone leaves Has alone.
LEMMA HasUnchanged ==
    ASSUME UNCHANGED payment_events, NEW q, NEW status
    PROVE  Has(q, status)' <=> Has(q, status)
BY DEF Has

\* Where a confirmation is needed, there was one: in the history of a confirmed
\* payment, and of one that a transaction is about to refund.
Confirmed ==
    /\ \A p \in Payments : payments[p].status = "confirmed" => Has(p, "confirmed")
    /\ \A s \in Sessions : txn[s] # NoTxn /\ txn[s].new.status = "refunded"
                              => /\ txn[s].payment \in Payments
                                 /\ Has(txn[s].payment, "confirmed")

\* RefundWasConfirmed extends to a history that gets one more event.
LEMMA RefundAfterRecord ==
    ASSUME TypeOK, NEW s \in Sessions, NEW p \in Payments, Record(s, p),
           RefundWasConfirmed,
           txn[s].new.status = "refunded" => Has(p, "confirmed")
    PROVE  RefundWasConfirmed'
<1> DEFINE e == [previous_status |-> txn[s].old.status, payment |-> txn[s].new]
<1>1. payment_events' = [payment_events EXCEPT ![p] = Append(payment_events[p], e)]
  BY DEF Record
<1> SUFFICES ASSUME NEW q \in Payments, NEW i \in 1..Len(payment_events'[q]),
                    payment_events'[q][i].payment.status = "refunded"
             PROVE  \E j \in 1..(i-1) :
                       payment_events'[q][j].payment.status = "confirmed"
  BY DEF RefundWasConfirmed
<1>2. CASE q # p
  <2>1. payment_events'[q] = payment_events[q]
    BY <1>1, <1>2 DEF TypeOK
  <2> QED
    BY <2>1 DEF RefundWasConfirmed
<1>3. CASE q = p
  <2> DEFINE old == payment_events[p]
  <2>1. payment_events'[p] = Append(old, e) /\ old \in Seq(PaymentEvent)
    BY <1>1 DEF TypeOK
  <2>2. /\ Len(old) \in Nat /\ Len(Append(old, e)) = Len(old) + 1
        /\ \A k \in 1..Len(old) : Append(old, e)[k] = old[k]
        /\ Append(old, e)[Len(old) + 1] = e
    <3> HIDE DEF e, old
    <3> QED
      BY <2>1, LenProperties, AppendProperties
  <2>3. e.payment = txn[s].new
    OBVIOUS
  <2>4. CASE i \in 1..Len(old)
    <3>1. old[i].payment.status = "refunded"
      BY <1>3, <2>1, <2>2, <2>4
    <3>2. PICK j \in 1..(i-1) : old[j].payment.status = "confirmed"
      BY <2>4, <3>1 DEF RefundWasConfirmed
    <3>3. j \in 1..Len(old)
      BY <2>2, <2>4, <3>2
    <3> QED
      BY <1>3, <2>1, <2>2, <3>2, <3>3
  <2>5. CASE i = Len(old) + 1
    <3>1. txn[s].new.status = "refunded"
      BY <1>3, <2>1, <2>2, <2>3, <2>5
    <3>2. PICK j \in 1..Len(old) : old[j].payment.status = "confirmed"
      BY <3>1 DEF Has
    <3>3. j \in 1..(i-1)
      BY <2>2, <2>5
    <3> QED
      BY <1>3, <2>1, <2>2, <3>2, <3>3
  <2> QED
    BY <1>3, <2>1, <2>2, <2>4, <2>5
<1> QED
  BY <1>2, <1>3

HistoryInv == Confirmed /\ RefundWasConfirmed

\* HistoryInv is inductive relative to TypeInv.
LEMMA HistoryInvInductive ==
    /\ Init => HistoryInv
    /\ TypeInv /\ HistoryInv /\ [Next]_vars => HistoryInv'
<1>1. Init => HistoryInv
  BY DEF Init, HistoryInv, Confirmed, RefundWasConfirmed, NoRow, UnsetRow
<1>2. TypeInv /\ HistoryInv /\ [Next]_vars => HistoryInv'
  <2> SUFFICES ASSUME TypeInv, HistoryInv, [Next]_vars
               PROVE  HistoryInv'
    OBVIOUS
  <2>0. TypeOK /\ Confirmed /\ RefundWasConfirmed
    BY DEF TypeInv, HistoryInv
  <2>1. CASE UNCHANGED vars
    BY <2>1 DEF HistoryInv, Confirmed, RefundWasConfirmed, Has, vars
  <2>2. ASSUME NEW s \in Sessions, NEW t,
               txn' = [txn EXCEPT ![s] = t],
               UNCHANGED <<payments, payment_events>>,
               t # NoTxn /\ t.new.status = "refunded" =>
                   t.payment \in Payments /\ Has(t.payment, "confirmed")
        PROVE  HistoryInv'
    <3>1. \A q \in Payments : Has(q, "confirmed")' <=> Has(q, "confirmed")
      BY <2>2 DEF Has
    <3>2. RefundWasConfirmed'
      BY <2>0, <2>2 DEF RefundWasConfirmed
    <3>3. Confirmed'
      BY <2>0, <2>2, <3>1 DEF Confirmed, TypeOK
    <3> QED
      BY <3>2, <3>3 DEF HistoryInv
  <2>3. ASSUME NEW s \in Sessions, NEW o \in Orders, OpensNew(s, o)
        PROVE  HistoryInv'
    <3> DEFINE t == [order |-> o, payment |-> None, old |-> NoRow, new |-> NewRow(o)]
    <3>1. txn' = [txn EXCEPT ![s] = t] /\ UNCHANGED <<payments, payment_events>>
      BY <2>3 DEF OpensNew, Open
    <3>2. t.new.status = "pending"
      BY DEF NewRow, UnsetRow
    <3> HIDE DEF t
    <3> QED
      BY <2>2, <3>1, <3>2
  <2>4. ASSUME NEW s \in Sessions, NEW o \in Orders, NEW p \in Payments,
               OpensMove(s, o, p)
        PROVE  HistoryInv'
    <3>1. PICK new \in Row : Move(payments[p], new) /\ Open(s, o, p, new)
      BY <2>4 DEF OpensMove
    <3> DEFINE t == [order |-> o, payment |-> p, old |-> payments[p], new |-> new]
    <3>2. txn' = [txn EXCEPT ![s] = t] /\ UNCHANGED <<payments, payment_events>>
      BY <3>1, SentinelAssumption DEF Open
    <3>3. t.payment = p /\ t.new = new
      OBVIOUS
    <3>4. new.status = "refunded" => payments[p].status = "confirmed"
      BY <2>4, <3>1, MoveColumns DEF OpensMove
    <3> HIDE DEF t
    <3> QED
      BY <2>0, <2>2, <3>2, <3>3, <3>4 DEF Confirmed
  <2>5. ASSUME NEW s \in Sessions, NEW p \in Payments, NEW row,
               txn[s] # NoTxn, Record(s, p),
               payments' = [payments EXCEPT ![p] = row],
               row.status = txn[s].new.status,
               txn[s].payment = p \/ txn[s].new.status # "refunded"
        PROVE  HistoryInv'
    <3>1. \A q \in Payments : Has(q, "confirmed")' <=>
              Has(q, "confirmed") \/ (q = p /\ txn[s].new.status = "confirmed")
      BY <2>0, <2>5, HasAfterRecord
    <3>2. RefundWasConfirmed'
      BY <2>0, <2>5, RefundAfterRecord DEF Confirmed
    <3>3. \A q \in Payments : payments'[q].status = "confirmed" => Has(q, "confirmed")'
      BY <2>0, <2>5, <3>1 DEF Confirmed, TypeOK
    <3>4. txn' = [txn EXCEPT ![s] = NoTxn]
      BY <2>5 DEF Record
    <3>5. Confirmed'
      BY <2>0, <3>1, <3>3, <3>4 DEF Confirmed, TypeOK
    <3> QED
      BY <3>2, <3>5 DEF HistoryInv
  <2>6. ASSUME NEW s \in Sessions, NEW p \in Payments, CommitInsert(s, p)
        PROVE  HistoryInv'
    <3>1. TxnHolds(s) /\ txn[s].payment = None
      BY <2>6 DEF CommitInsert, TypeInv
    <3>2. txn[s].new.status = "pending"
      BY <3>1 DEF TxnHolds, NewRow, UnsetRow
    <3> QED
      BY <2>5, <2>6, <3>2 DEF CommitInsert
  <2>7. ASSUME NEW s \in Sessions, NEW p \in Payments, CommitUpdate(s, p)
        PROVE  HistoryInv'
    <3>1. txn[s] \in Txn /\ txn[s].payment = p /\ p # None /\ TxnHolds(s)
      BY <2>0, <2>7, SentinelAssumption DEF CommitUpdate, TypeOK, TypeInv
    <3>2. /\ payments[p] \in Row /\ txn[s].old \in Row
          /\ Move(txn[s].old, txn[s].new)
      BY <3>1 DEF TxnHolds
    <3>3. txn[s].new.status # txn[s].old.status
      BY <3>2, MoveColumns
    <3>4. payments' = [payments EXCEPT
                         ![p] = UpdateChangedColumns(payments[p], txn[s])]
      BY <2>0, <2>7 DEF CommitUpdate, TypeOK
    <3> QED
      BY <2>5, <2>7, <3>1, <3>2, <3>3, <3>4, UpdateInType DEF CommitUpdate
  <2>8. ASSUME NEW s \in Sessions, Rollback(s)
        PROVE  HistoryInv'
    BY <2>2, <2>8 DEF Rollback
  <2> QED
    BY <2>0, <2>1, <2>3, <2>4, <2>6, <2>7, <2>8, HandlersOpen DEF StepKinds
<1> QED
  BY <1>1, <1>2

\* Under every interleaving, a refund comes after a confirmation.
THEOREM RefundsFollowConfirmations == Spec => []RefundWasConfirmed
<1>1. Spec => [](TypeInv /\ HistoryInv)
  BY TypeInvInductive, HistoryInvInductive, PTL DEF Spec
<1>2. HistoryInv => RefundWasConfirmed
  BY DEF HistoryInv
<1> QED
  BY <1>1, <1>2, PTL

-----------------------------------------------------------------------------
(* Orders whose transactions never overlapped.                             *)

\* Two open transactions on one order are an overlap.
Apart ==
    \A s, t \in Sessions :
        s # t /\ txn[s] # NoTxn /\ txn[t] # NoTxn /\ txn[s].order = txn[t].order
          => txn[s].order \in overlapped

\* What a transaction read is what is there when it commits.
Current ==
    \A s \in Sessions :
        /\ txn[s] # NoTxn
        /\ txn[s].order \notin overlapped
        => IF txn[s].payment = None THEN NoneActive(txn[s].order)
           ELSE payments[txn[s].payment] = txn[s].old

\* At most one payment of an order is active.
Exclusive ==
    \A p, q \in Payments :
        /\ payments[p].order_id = payments[q].order_id
        /\ payments[p].order_id \in Orders \ overlapped
        /\ payments[p].status \in ACTIVE_PAYMENT_STATUSES
        /\ payments[q].status \in ACTIVE_PAYMENT_STATUSES
        => p = q

\* The columns that go with a status.
Shape(row) ==
    /\ row.confirmed_at <=> row.status \in {"confirmed", "refunded"}
    /\ row.failed_at <=> row.status = "failed"
    /\ row.refunded_at <=> row.status = "refunded"
    /\ row.failure_reason <=> row.status \in {"failed", "refunded"}

\* The events that go with the columns; without a row there are none.
Story(p) ==
    LET row == payments[p]
    IN  /\ row = NoRow => payment_events[p] = <<>>
        /\ row # NoRow /\ row.order_id \notin overlapped
              => /\ payment_events[p] # <<>>
                 /\ row = payment_events[p][Len(payment_events[p])].payment
                 /\ Shape(row)
                 /\ row.confirmed_at <=> Has(p, "confirmed")
                 /\ row.failed_at <=> Has(p, "failed")
                 /\ row.refunded_at <=> Has(p, "refunded")

SerialInv == Apart /\ Current /\ Exclusive /\ \A p \in Payments : Story(p)

\* What a commit on an order without overlap writes: the row of a new payment
\* while none is active, or the move of the row that is there.
CommitsNew(s, p) ==
    /\ payments[p] = NoRow
    /\ NoneActive(txn[s].order)
    /\ txn[s].new = NewRow(txn[s].order)

CommitsMove(s, p) ==
    /\ payments[p] \in Row /\ payments[p].order_id = txn[s].order
    /\ Move(payments[p], txn[s].new)

Commits(s, p) ==
    /\ txn[s] # NoTxn
    /\ txn[s].order \notin overlapped => CommitsNew(s, p) \/ CommitsMove(s, p)
    /\ Record(s, p)
    /\ \E row \in Row :
          /\ row.order_id = txn[s].order
          /\ txn[s].order \notin overlapped => row = txn[s].new
          /\ payments' = [payments EXCEPT ![p] = row]

\* Both commits are of this form, on a payment of no other order.
LEMMA CommitForm ==
    ASSUME TypeInv, Current, NEW s \in Sessions, NEW p \in Payments,
           CommitInsert(s, p) \/ CommitUpdate(s, p)
    PROVE  /\ Commits(s, p)
           /\ txn[s].order \in Orders
           /\ payments[p] = NoRow \/ payments[p].order_id = txn[s].order
<1>0. txn[s] \in Txn /\ txn[s] # NoTxn /\ TxnHolds(s) /\ TypeOK
  BY DEF TypeInv, TypeOK, CommitInsert, CommitUpdate
<1>1. txn[s].order \in Orders /\ txn[s].new \in Row
  BY <1>0 DEF Txn
<1>2. CASE CommitInsert(s, p)
  <2>1. /\ txn[s].payment = None /\ payments[p] = NoRow /\ Record(s, p)
        /\ payments' = [payments EXCEPT ![p] = txn[s].new]
    BY <1>2 DEF CommitInsert
  <2>2. txn[s].new = NewRow(txn[s].order)
    BY <1>0, <2>1 DEF TxnHolds
  <2>3. txn[s].new.order_id = txn[s].order
    BY <2>2 DEF NewRow, UnsetRow
  <2>4. txn[s].order \notin overlapped => NoneActive(txn[s].order)
    BY <1>0, <2>1 DEF Current
  <2> QED
    BY <1>0, <1>1, <2>1, <2>2, <2>3, <2>4 DEF Commits, CommitsNew
<1>3. CASE CommitUpdate(s, p)
  <2>1. txn[s].payment = p /\ p # None /\ Record(s, p)
    BY <1>3, SentinelAssumption DEF CommitUpdate
  <2>2. /\ payments[p] \in Row /\ payments[p].order_id = txn[s].order
        /\ txn[s].old \in Row /\ txn[s].old.order_id = txn[s].order
        /\ Move(txn[s].old, txn[s].new)
    BY <1>0, <2>1 DEF TxnHolds
  <2>3. payments' = [payments EXCEPT ![p] = UpdateChangedColumns(payments[p], txn[s])]
    BY <1>0, <1>3 DEF CommitUpdate, TypeOK
  <2>4. txn[s].order \notin overlapped => payments[p] = txn[s].old
    BY <1>0, <2>1 DEF Current
  <2>5. txn[s].new.order_id = txn[s].old.order_id
    BY <2>2, MoveColumns
  <2> DEFINE row == UpdateChangedColumns(payments[p], txn[s])
  <2>6. /\ row \in Row /\ row.order_id = txn[s].order
        /\ txn[s].order \notin overlapped => row = txn[s].new
    BY <1>0, <2>2, <2>4, <2>5, UpdateInType
  <2>7. payments' = [payments EXCEPT ![p] = row]
    BY <2>3
  <2> HIDE DEF row
  <2>8. txn[s].order \notin overlapped => CommitsMove(s, p)
    BY <2>2, <2>4 DEF CommitsMove
  <2>9. Commits(s, p)
    BY <1>0, <2>1, <2>6, <2>7, <2>8 DEF Commits
  <2> QED
    BY <1>1, <2>2, <2>9
<1> QED
  BY <1>2, <1>3

\* Every step opens a transaction, commits one or closes one.
LEMMA SerialSteps ==
    ASSUME TypeInv, Current, [Next]_vars
    PROVE  \/ UNCHANGED vars
           \/ \E s \in Sessions, o \in Orders : OpensNew(s, o)
           \/ \E s \in Sessions, o \in Orders, p \in Payments : OpensMove(s, o, p)
           \/ \E s \in Sessions, p \in Payments :
                 /\ Commits(s, p)
                 /\ txn[s].order \in Orders
                 /\ payments[p] = NoRow \/ payments[p].order_id = txn[s].order
           \/ \E s \in Sessions : Rollback(s)
BY HandlersOpen, CommitForm DEF StepKinds, TypeInv

\* The row a commit leaves, where its order had no overlap.
LEMMA CommittedRow ==
    ASSUME TypeOK, NEW s \in Sessions, NEW p \in Payments, Story(p),
           Commits(s, p), txn[s].order \in Orders \ overlapped
    PROVE  /\ payments'[p] = txn[s].new
           /\ txn[s].new \in Row /\ txn[s].new.order_id = txn[s].order
           /\ Shape(txn[s].new)
<1>1. /\ payments'[p] = txn[s].new
      /\ txn[s].new \in Row /\ txn[s].new.order_id = txn[s].order
  BY DEF Commits, TypeOK
<1>2. CASE CommitsNew(s, p)
  BY <1>1, <1>2 DEF CommitsNew, NewRow, UnsetRow, Shape
<1>3. CASE CommitsMove(s, p)
  <2>1. Shape(payments[p])
    BY <1>3, NewRowInType DEF CommitsMove, Story
  <2>2. payments[p] \in Row /\ Move(payments[p], txn[s].new)
    BY <1>3 DEF CommitsMove
  <2> DEFINE old == payments[p]
             new == txn[s].new
  <2>3. \/ /\ old.status = "pending" /\ new.status = "confirmed"
           /\ new.failure_reason = FALSE /\ new.confirmed_at = TRUE
           /\ new.failed_at = old.failed_at
           /\ new.refunded_at = old.refunded_at
        \/ /\ old.status = "pending" /\ new.status = "failed"
           /\ new.failure_reason = TRUE /\ new.failed_at = TRUE
           /\ new.confirmed_at = old.confirmed_at
           /\ new.refunded_at = old.refunded_at
        \/ /\ old.status = "confirmed" /\ new.status = "refunded"
           /\ new.failure_reason = TRUE /\ new.refunded_at = TRUE
           /\ new.confirmed_at = old.confirmed_at
           /\ new.failed_at = old.failed_at
    BY <2>2, MoveColumns
  <2>4. Shape(old)
    BY <2>1
  <2> HIDE DEF old, new
  <2>5. Shape(new)
    BY <2>3, <2>4 DEF Shape
  <2> QED
    BY <1>1, <2>5 DEF new
<1> QED
  BY <1>1, <1>2, <1>3 DEF Commits

\* A commit lets the story of every payment go on.
LEMMA StoryAfterCommit ==
    ASSUME TypeInv, \A q \in Payments : Story(q), NEW s \in Sessions,
           NEW p \in Payments, Commits(s, p), txn[s].order \in Orders,
           NEW q \in Payments
    PROVE  Story(q)'
<1>0. TypeOK /\ Story(p) /\ Story(q)
  BY DEF TypeInv
<1>1. PICK row \in Row : /\ row.order_id = txn[s].order
                         /\ payments' = [payments EXCEPT ![p] = row]
  BY DEF Commits
<1> DEFINE e == [previous_status |-> txn[s].old.status, payment |-> txn[s].new]
<1>2. /\ payment_events' = [payment_events EXCEPT ![p] = Append(payment_events[p], e)]
      /\ overlapped' = overlapped /\ Record(s, p)
  BY DEF Commits, Record
<1>3. \A status : Has(q, status)' <=>
                     Has(q, status) \/ (q = p /\ txn[s].new.status = status)
  BY <1>0, <1>2, HasAfterRecord
<1>4. CASE q # p
  <2>1. payments'[q] = payments[q] /\ payment_events'[q] = payment_events[q]
    BY <1>0, <1>1, <1>2, <1>4 DEF TypeOK
  <2>2. \A status : Has(q, status)' <=> Has(q, status)
    BY <1>3, <1>4
  <2> QED
    BY <1>0, <1>2, <2>1, <2>2 DEF Story
<1>5. CASE q = p
  <2>1. payments'[p] = row /\ row # NoRow
    BY <1>0, <1>1, NewRowInType DEF TypeOK
  <2>2. CASE txn[s].order \in overlapped
    BY <1>1, <1>2, <1>5, <2>1, <2>2 DEF Story
  <2>3. CASE txn[s].order \notin overlapped
    <3>1. row = txn[s].new /\ Shape(row)
      BY <1>0, <2>1, <2>3, CommittedRow
    <3>2. /\ payment_events'[p] # <<>>
          /\ payment_events'[p][Len(payment_events'[p])].payment = row
      <4>1. payment_events'[p] = Append(payment_events[p], e)
            /\ payment_events[p] \in Seq(PaymentEvent)
        BY <1>0, <1>2 DEF TypeOK
      <4>2. e.payment = row
        BY <3>1
      <4> HIDE DEF e
      <4>3. /\ Len(payment_events'[p]) = Len(payment_events[p]) + 1
            /\ Len(payment_events[p]) \in Nat
            /\ payment_events'[p][Len(payment_events[p]) + 1] = e
        BY <4>1, LenProperties, AppendProperties
      <4>4. payment_events'[p] # <<>>
        BY <4>1, <4>3
      <4> QED
        BY <4>2, <4>3, <4>4
    <3>3. /\ row.confirmed_at <=> Has(p, "confirmed")'
          /\ row.failed_at <=> Has(p, "failed")'
          /\ row.refunded_at <=> Has(p, "refunded")'
      <4>1. CASE CommitsNew(s, p)
        <5>1. payment_events[p] = <<>>
          BY <1>0, <4>1 DEF CommitsNew, Story
        <5>2. \A status : ~Has(p, status)
          BY <5>1 DEF Has
        <5>3. /\ row.status = "pending" /\ row.confirmed_at = FALSE
              /\ row.failed_at = FALSE /\ row.refunded_at = FALSE
          BY <3>1, <4>1 DEF CommitsNew, NewRow, UnsetRow
        <5> QED
          BY <1>3, <1>5, <3>1, <5>2, <5>3
      <4>2. CASE CommitsMove(s, p)
        <5> DEFINE old == payments[p]
        <5>1. /\ old \in Row /\ old # NoRow /\ old.order_id \notin overlapped
              /\ Move(old, row)
          BY <2>3, <3>1, <4>2, NewRowInType DEF CommitsMove
        <5>2. /\ old.confirmed_at <=> Has(p, "confirmed")
              /\ old.failed_at <=> Has(p, "failed")
              /\ old.refunded_at <=> Has(p, "refunded")
          BY <1>0, <5>1 DEF Story
        <5> HIDE DEF old
        <5>3. \/ /\ row.status = "confirmed" /\ row.confirmed_at = TRUE
                 /\ row.failed_at = old.failed_at
                 /\ row.refunded_at = old.refunded_at
              \/ /\ row.status = "failed" /\ row.failed_at = TRUE
                 /\ row.confirmed_at = old.confirmed_at
                 /\ row.refunded_at = old.refunded_at
              \/ /\ row.status = "refunded" /\ row.refunded_at = TRUE
                 /\ row.confirmed_at = old.confirmed_at
                 /\ row.failed_at = old.failed_at
          BY <5>1, MoveColumns
        <5>4. \A status : Has(p, status)' <=> Has(p, status) \/ row.status = status
          BY <1>3, <1>5, <3>1
        <5> QED
          BY <5>2, <5>3, <5>4
      <4> QED
        BY <2>3, <4>1, <4>2 DEF Commits
    <3> QED
      BY <1>5, <2>1, <3>1, <3>2, <3>3 DEF Story
  <2> QED
    BY <2>2, <2>3
<1> QED
  BY <1>4, <1>5

\* SerialInv is inductive relative to TypeInv.
LEMMA SerialInvInductive ==
    /\ Init => SerialInv
    /\ TypeInv /\ SerialInv /\ [Next]_vars => SerialInv'
<1>1. Init => SerialInv
  BY SentinelAssumption
  DEF Init, SerialInv, Apart, Current, Exclusive, Story, NoRow, UnsetRow
<1>2. TypeInv /\ SerialInv /\ [Next]_vars => SerialInv'
  <2> SUFFICES ASSUME TypeInv, SerialInv, [Next]_vars
               PROVE  SerialInv'
    OBVIOUS
  <2>0. TypeOK /\ Apart /\ Current /\ Exclusive /\ \A p \in Payments : Story(p)
    BY DEF TypeInv, SerialInv
  <2>1. CASE UNCHANGED vars
    BY <2>1 DEF SerialInv, Apart, Current, NoneActive, Exclusive, Story, Has, vars
  <2>2. ASSUME UNCHANGED <<payments, payment_events>>, overlapped \subseteq overlapped'
        PROVE  Exclusive' /\ \A p \in Payments : Story(p)'
    <3>1. \A p \in Payments : \A status : Has(p, status)' <=> Has(p, status)
      BY <2>2 DEF Has
    <3>2. Exclusive'
      BY <2>0, <2>2 DEF Exclusive
    <3>3. ASSUME NEW p \in Payments
          PROVE  Story(p)'
      BY <2>0, <2>2, <3>1 DEF Story
    <3> QED
      BY <3>2, <3>3
  <2>3. ASSUME NEW s \in Sessions, NEW o, NEW p, NEW new, Open(s, o, p, new),
               IF p = None THEN NoneActive(o) ELSE TRUE
        PROVE  SerialInv'
    <3> DEFINE t == [order |-> o, payment |-> p,
                     old |-> IF p = None THEN NoRow ELSE payments[p], new |-> new]
    <3>1. /\ txn[s] = NoTxn /\ txn' = [txn EXCEPT ![s] = t]
          /\ UNCHANGED <<payments, payment_events>>
          /\ overlapped' = IF \E r \in Sessions : txn[r] # NoTxn /\ txn[r].order = o
                           THEN overlapped \cup {o} ELSE overlapped
      BY <2>3 DEF Open
    <3>2. /\ t.order = o /\ t.payment = p
          /\ p # None => t.old = payments[p]
      OBVIOUS
    <3> HIDE DEF t
    <3>3. overlapped \subseteq overlapped'
      BY <3>1
    <3>4. ASSUME NEW r \in Sessions, NEW q \in Sessions, r # q,
                 txn'[r] # NoTxn, txn'[q] # NoTxn, txn'[r].order = txn'[q].order
          PROVE  txn'[r].order \in overlapped'
      <4>1. CASE r = s \/ q = s
        BY <2>0, <3>1, <3>2, <3>4, <4>1 DEF TypeOK
      <4>2. CASE r # s /\ q # s
        BY <2>0, <3>1, <3>3, <3>4, <4>2 DEF TypeOK, Apart
      <4> QED
        BY <4>1, <4>2
    <3>5. Apart'
      BY <3>4 DEF Apart
    <3>6. NoneActive(o)' <=> NoneActive(o)
      BY <3>1 DEF NoneActive
    <3>7. ASSUME NEW r \in Sessions, txn'[r] # NoTxn, txn'[r].order \notin overlapped'
          PROVE  IF txn'[r].payment = None THEN NoneActive(txn[r].order)'
                 ELSE payments'[txn'[r].payment] = txn'[r].old
      <4>1. CASE r = s
        BY <2>0, <2>3, <3>1, <3>2, <3>7, <4>1 DEF TypeOK, NoneActive
      <4>2. CASE r # s
        BY <2>0, <3>1, <3>3, <3>7, <4>2 DEF TypeOK, Current, NoneActive
      <4> QED
        BY <4>1, <4>2
    <3>8. Current'
      BY <3>7 DEF Current
    <3> QED
      BY <2>2, <3>1, <3>3, <3>5, <3>8 DEF SerialInv
  <2>4. ASSUME NEW s \in Sessions, NEW o \in Orders, OpensNew(s, o)
        PROVE  SerialInv'
    BY <2>3, <2>4 DEF OpensNew
  <2>5. ASSUME NEW s \in Sessions, NEW o \in Orders, NEW p \in Payments,
               OpensMove(s, o, p)
        PROVE  SerialInv'
    <3>1. PICK new \in Row : Open(s, o, p, new)
      BY <2>5 DEF OpensMove
    <3>2. p # None
      BY SentinelAssumption
    <3> QED
      BY <2>3, <3>1, <3>2
  <2>6. ASSUME NEW s \in Sessions, NEW p \in Payments, Commits(s, p),
               txn[s].order \in Orders,
               payments[p] = NoRow \/ payments[p].order_id = txn[s].order
        PROVE  SerialInv'
    <3> DEFINE o == txn[s].order
    <3>1. /\ txn' = [txn EXCEPT ![s] = NoTxn] /\ overlapped' = overlapped
          /\ txn[s] # NoTxn
      BY <2>6 DEF Commits, Record
    <3>2. PICK row \in Row : /\ row.order_id = o
                             /\ payments' = [payments EXCEPT ![p] = row]
      BY <2>6 DEF Commits
    <3>3. Apart'
      BY <2>0, <3>1 DEF Apart, TypeOK
    <3>4. \A q \in Payments : payments'[q] = IF q = p THEN row ELSE payments[q]
      BY <2>0, <3>2 DEF TypeOK
    <3>5. payments[p].order_id \in {None, o}
      BY <2>6 DEF NoRow, UnsetRow
    <3>6. ASSUME NEW r \in Sessions, txn'[r] # NoTxn, txn'[r].order \notin overlapped'
          PROVE  IF txn'[r].payment = None THEN NoneActive(txn[r].order)'
                 ELSE payments'[txn'[r].payment] = txn'[r].old
      <4>1. r # s /\ txn'[r] = txn[r]
        BY <2>0, <3>1, <3>6 DEF TypeOK
      <4>2. txn[r].order # o
        BY <2>0, <3>1, <3>6, <4>1 DEF Apart
      <4>3. txn[r] \in Txn /\ TxnHolds(r)
        BY <2>0, <3>6, <4>1 DEF TypeInv, TypeOK
      <4>4. CASE txn[r].payment = None
        <5>1. NoneActive(txn[r].order)
          BY <2>0, <3>1, <3>6, <4>1, <4>4 DEF Current
        <5>2. NoneActive(txn[r].order)'
          BY <3>2, <3>4, <4>1, <4>2, <5>1 DEF NoneActive
        <5> QED
          BY <4>1, <4>4, <5>2
      <4>5. CASE txn[r].payment # None
        <5>1. txn[r].payment \in Payments
          BY <4>3, <4>5 DEF Txn
        <5>2. payments[txn[r].payment].order_id = txn[r].order
          BY <4>3, <4>5 DEF TxnHolds
        <5>3. txn[r].order \in Orders
          BY <4>3 DEF Txn
        <5>4. txn[r].payment # p
          BY <3>5, <4>2, <5>2, <5>3, SentinelAssumption
        <5>5. payments[txn[r].payment] = txn[r].old
          BY <2>0, <3>1, <3>6, <4>1, <4>5 DEF Current
        <5> QED
          BY <3>4, <4>1, <4>5, <5>1, <5>4, <5>5
      <4> QED
        BY <4>4, <4>5
    <3>7. Current'
      BY <3>1, <3>6 DEF Current
    <3>8. ASSUME NEW q \in Payments, q # p, o \notin overlapped,
                 payments[q].order_id = o,
                 payments[q].status \in ACTIVE_PAYMENT_STATUSES,
                 row.status \in ACTIVE_PAYMENT_STATUSES
          PROVE  FALSE
      <4>1. CASE CommitsNew(s, p)
        BY <3>8, <4>1 DEF CommitsNew, NoneActive
      <4>2. CASE CommitsMove(s, p)
        <5>1. row = txn[s].new
          BY <2>0, <2>6, <3>2, <3>4, <3>8, CommittedRow
        <5>2. payments[p] \in Row /\ Move(payments[p], row) /\ payments[p].order_id = o
          BY <4>2, <5>1 DEF CommitsMove
        <5>3. payments[p].status \in ACTIVE_PAYMENT_STATUSES
          BY <5>2, MoveColumns DEF ACTIVE_PAYMENT_STATUSES
        <5> QED
          BY <2>0, <2>6, <3>8, <5>2, <5>3 DEF Exclusive
      <4> QED
        BY <2>6, <3>8, <4>1, <4>2 DEF Commits
    <3>9. Exclusive'
      BY <2>0, <3>1, <3>2, <3>4, <3>8 DEF Exclusive
    <3>10. \A q \in Payments : Story(q)'
      BY <2>0, <2>6, StoryAfterCommit
    <3> QED
      BY <3>3, <3>7, <3>9, <3>10 DEF SerialInv
  <2>7. ASSUME NEW s \in Sessions, Rollback(s)
        PROVE  SerialInv'
    <3>1. /\ txn' = [txn EXCEPT ![s] = NoTxn]
          /\ UNCHANGED <<payments, payment_events, overlapped>>
      BY <2>7 DEF Rollback
    <3>2. Apart' /\ Current'
      BY <2>0, <3>1 DEF Apart, Current, NoneActive, TypeOK
    <3> QED
      BY <2>2, <3>1, <3>2 DEF SerialInv
  <2> QED
    BY <2>0, <2>1, <2>4, <2>5, <2>6, <2>7, SerialSteps
<1> QED
  BY <1>1, <1>2

\* Unless its transactions overlap, an order has at most one active payment.
THEOREM OnePaymentIsActive == Spec => []OneActivePayment
<1>1. Spec => [](TypeInv /\ SerialInv)
  BY TypeInvInductive, SerialInvInductive, PTL DEF Spec
<1>2. TypeInv /\ SerialInv => OneActivePayment
  <2> SUFFICES ASSUME TypeInv, SerialInv, NEW o \in Orders \ overlapped
               PROVE  Cardinality({p \in Payments :
                         /\ payments[p].order_id = o
                         /\ payments[p].status \in ACTIVE_PAYMENT_STATUSES}) <= 1
    BY DEF OneActivePayment
  <2> DEFINE A == {p \in Payments : /\ payments[p].order_id = o
                                    /\ payments[p].status \in ACTIVE_PAYMENT_STATUSES}
  <2>1. \A p, q \in A : p = q
    BY DEF SerialInv, Exclusive
  <2> HIDE DEF A
  <2>2. A = {} \/ \E p : A = {p}
    <3> SUFFICES ASSUME NEW p \in A
                 PROVE  A = {p}
      OBVIOUS
    <3> QED
      BY <2>1
  <2>3. Cardinality(A) \in {0, 1}
    BY <2>2, FS_EmptySet, FS_Singleton
  <2> QED
    BY <2>3 DEF A
<1> QED
  BY <1>1, <1>2, PTL

\* Unless transactions on its order overlapped, a payment's row tells its events.
THEOREM RowsMatchHistories == Spec => []RowMatchesHistory
<1>1. Spec => [](TypeInv /\ SerialInv)
  BY TypeInvInductive, SerialInvInductive, PTL DEF Spec
<1>2. TypeInv /\ SerialInv => RowMatchesHistory
  <2> SUFFICES ASSUME TypeInv, SerialInv, NEW p \in Payments,
                      payments[p] # NoRow, payments[p].order_id \notin overlapped
               PROVE  LET row == payments[p] IN
                        /\ row = payment_events[p][Len(payment_events[p])].payment
                        /\ row.confirmed_at <=> Has(p, "confirmed")
                        /\ row.failed_at <=> Has(p, "failed")
                        /\ row.refunded_at <=> Has(p, "refunded")
                        /\ row.failure_reason
                              <=> Has(p, "failed") \/ Has(p, "refunded")
                        /\ ~(row.failed_at /\ row.confirmed_at)
    BY DEF RowMatchesHistory
  <2> DEFINE row == payments[p]
  <2>1. /\ row = payment_events[p][Len(payment_events[p])].payment
        /\ Shape(row)
        /\ row.confirmed_at <=> Has(p, "confirmed")
        /\ row.failed_at <=> Has(p, "failed")
        /\ row.refunded_at <=> Has(p, "refunded")
    BY DEF SerialInv, Story
  <2>2. /\ row.failure_reason <=> row.failed_at \/ row.refunded_at
        /\ ~(row.failed_at /\ row.confirmed_at)
    BY <2>1 DEF Shape
  <2> QED
    BY <2>1, <2>2
<1> QED
  BY <1>1, <1>2, PTL

-----------------------------------------------------------------------------
(* The service implements PaymentLedger.                                   *)

\* An entry is one of the records that Disputed is not.
LEMMA EntryIsNotDisputed ==
    ASSUME NEW o \in Orders
    PROVE  Entry(o) # Disputed
<1>1. /\ Requested(o) \in SUBSET Payments
      /\ Taken(o) \in SUBSET Payments
      /\ Returned(o) \in SUBSET Payments
  BY DEF Requested, Taken, Returned, OfOrder
<1> QED
  BY <1>1, SentinelAssumption DEF Entry

\* A commit on one order leaves the entries of the others.
LEMMA OtherEntries ==
    ASSUME TypeOK, NEW s \in Sessions, NEW p \in Payments, Commits(s, p),
           payments[p] = NoRow \/ payments[p].order_id = txn[s].order,
           NEW o \in Orders, o # txn[s].order
    PROVE  Entry(o)' = Entry(o)
<1>1. PICK row \in Row : /\ row.order_id = txn[s].order
                         /\ payments' = [payments EXCEPT ![p] = row]
  BY DEF Commits
<1>2. p \notin OfOrder(o) /\ payments'[p].order_id # o
  BY <1>1, SentinelAssumption DEF OfOrder, NoRow, UnsetRow, TypeOK
<1>3. \A q \in Payments : q # p => payments'[q] = payments[q]
  BY <1>1 DEF TypeOK
<1>4. OfOrder(o)' = OfOrder(o) /\ \A q \in OfOrder(o) : q # p
  BY <1>2, <1>3 DEF OfOrder
<1>5. \A q \in Payments : \A status : q # p => (Has(q, status)' <=> Has(q, status))
  BY HasAfterRecord DEF Commits
<1>6. Requested(o)' = Requested(o)
  BY <1>3, <1>4 DEF Requested, OfOrder
<1>7. Taken(o)' = Taken(o) /\ Returned(o)' = Returned(o)
  BY <1>4, <1>5 DEF Taken, Returned, OfOrder
<1> QED
  BY <1>6, <1>7 DEF Entry

\* A commit on an order without overlap is a step of its entry.
EntrySteps(o, p) ==
    \/ /\ Requested(o) = {} /\ Taken(o) \subseteq Returned(o) /\ p \notin Taken(o)
       /\ Requested(o)' = {p}
       /\ Taken(o)' = Taken(o) /\ Returned(o)' = Returned(o)
    \/ /\ Requested(o) # {} /\ Requested(o)' = {}
       /\ Taken(o)' = Taken(o) /\ Returned(o)' = Returned(o)
    \/ /\ Requested(o) # {} /\ Requested(o)' = {}
       /\ Taken(o)' = Taken(o) \cup Requested(o) /\ Returned(o)' = Returned(o)
    \/ /\ p \in Taken(o) \ Returned(o) /\ Requested(o)' = Requested(o)
       /\ Taken(o)' = Taken(o) /\ Returned(o)' = Returned(o) \cup {p}

LEMMA EntryOfCommit ==
    ASSUME TypeInv, SerialInv, NEW s \in Sessions, NEW p \in Payments,
           Commits(s, p), NEW o \in Orders \ overlapped, txn[s].order = o
    PROVE  EntrySteps(o, p)
<1>0. /\ TypeOK /\ Exclusive /\ Story(p) /\ \A q \in Payments : Story(q)
      /\ o # None
  BY SentinelAssumption DEF TypeInv, SerialInv
<1> DEFINE new == txn[s].new
<1>1. /\ payments'[p] = new /\ new \in Row /\ new.order_id = o
  BY <1>0, CommittedRow
<1>2. \A q \in Payments : q # p => payments'[q] = payments[q]
  BY <1>0 DEF Commits, TypeOK
<1>3. \A q \in Payments : \A status : Has(q, status)' <=>
                     Has(q, status) \/ (q = p /\ new.status = status)
  BY <1>0, HasAfterRecord DEF Commits
<1> HIDE DEF new
<1>4. OfOrder(o)' = OfOrder(o) \cup {p}
  BY <1>1, <1>2 DEF OfOrder
<1>5. CASE CommitsNew(s, p)
  <2>1. /\ payments[p] = NoRow /\ NoneActive(o) /\ new.status = "pending"
        /\ payments[p].order_id = None
    BY <1>5 DEF CommitsNew, NewRow, NoRow, UnsetRow, new
  <2>2. p \notin OfOrder(o)
    BY <1>0, <2>1 DEF OfOrder
  <2>3. Requested(o) = {}
    BY <2>1 DEF Requested, OfOrder, NoneActive, ACTIVE_PAYMENT_STATUSES
  <2>4. ASSUME NEW q \in Taken(o)
        PROVE  q \in Returned(o)
    <3>1. /\ q \in OfOrder(o) /\ Has(q, "confirmed")
          /\ q \in Payments /\ payments[q].order_id = o
      BY <2>4 DEF Taken, OfOrder
    <3>2. payments[q] # NoRow
      BY <1>0, <3>1 DEF NoRow, UnsetRow
    <3>3. /\ Shape(payments[q])
          /\ payments[q].confirmed_at <=> Has(q, "confirmed")
          /\ payments[q].refunded_at <=> Has(q, "refunded")
      BY <1>0, <3>1, <3>2 DEF Story
    <3>4. payments[q].status \in {"confirmed", "refunded"}
      BY <3>1, <3>3 DEF Shape
    <3>5. payments[q].status # "confirmed"
      BY <2>1, <3>1 DEF NoneActive, ACTIVE_PAYMENT_STATUSES
    <3>6. payments[q].refunded_at
      BY <3>3, <3>4, <3>5 DEF Shape
    <3> QED
      BY <3>1, <3>3, <3>6 DEF Returned
  <2>5. p \notin Taken(o)
    BY <2>2 DEF Taken
  <2>6. \A q \in Payments : (Has(q, "confirmed")' <=> Has(q, "confirmed"))
    BY <1>3, <2>1
  <2>10. \A q \in Payments : (Has(q, "refunded")' <=> Has(q, "refunded"))
    BY <1>3, <2>1
  <2>7. ~Has(p, "confirmed") /\ ~Has(p, "refunded")
    BY <1>0, <2>1 DEF Story, Has
  <2>8. Requested(o)' = {p}
    <3>1. p \in Requested(o)'
      BY <1>1, <1>4, <2>1 DEF Requested
    <3>2. ASSUME NEW q \in Requested(o)', q # p
          PROVE  FALSE
      <4>1. q \in OfOrder(o) /\ q \in Payments /\ payments'[q].status = "pending"
        BY <1>4, <3>2 DEF Requested, OfOrder
      <4> QED
        BY <1>2, <2>3, <3>2, <4>1 DEF Requested
    <3> QED
      BY <3>1, <3>2
  <2>9. Taken(o)' = Taken(o) /\ Returned(o)' = Returned(o)
    <3>1. OfOrder(o) \subseteq Payments
      BY DEF OfOrder
    <3> QED
      BY <1>4, <2>6, <2>10, <2>7, <3>1 DEF Taken, Returned
  <2> QED
    BY <2>3, <2>4, <2>5, <2>8, <2>9 DEF EntrySteps
<1>6. CASE CommitsMove(s, p)
  <2>1. payments[p] \in Row /\ payments[p].order_id = o /\ Move(payments[p], new)
    BY <1>6 DEF CommitsMove, new
  <2>2. p \in OfOrder(o) /\ OfOrder(o)' = OfOrder(o) /\ OfOrder(o) \subseteq Payments
    BY <1>4, <2>1 DEF OfOrder
  <2>3. CASE payments[p].status = "pending"
    <3>1. p \in Requested(o)
      BY <2>2, <2>3 DEF Requested
    <3>2. \A q \in Requested(o) : q = p
      BY <1>0, <2>1, <2>3 DEF Requested, OfOrder, Exclusive, ACTIVE_PAYMENT_STATUSES
    <3>3. new.status \in {"confirmed", "failed"}
      BY <2>1, <2>3, MoveColumns
    <3>4. Requested(o)' = {}
      BY <1>1, <1>2, <2>2, <3>2, <3>3 DEF Requested
    <3>5. Returned(o)' = Returned(o)
      BY <1>3, <2>2, <3>3 DEF Returned
    <3>6. CASE new.status = "confirmed"
      <4>1. Taken(o)' = Taken(o) \cup {p}
        BY <1>3, <2>2, <3>6 DEF Taken
      <4>2. Requested(o) = {p}
        BY <3>1, <3>2
      <4> QED
        BY <3>4, <3>5, <4>1, <4>2 DEF EntrySteps
    <3>7. CASE new.status = "failed"
      <4>1. Taken(o)' = Taken(o)
        BY <1>3, <2>2, <3>7 DEF Taken
      <4> QED
        BY <3>1, <3>4, <3>5, <4>1 DEF EntrySteps
    <3> QED
      BY <3>3, <3>6, <3>7
  <2>4. CASE payments[p].status = "confirmed"
    <3>1. new.status = "refunded"
      BY <2>1, <2>4, MoveColumns
    <3>2. Has(p, "confirmed") /\ ~Has(p, "refunded")
      BY <1>0, <2>1, <2>4, NewRowInType DEF Story, Shape
    <3>3. p \in Taken(o) \ Returned(o)
      BY <2>2, <3>2 DEF Taken, Returned
    <3>4. Requested(o)' = Requested(o)
      BY <1>1, <1>2, <2>2, <2>4, <3>1 DEF Requested
    <3>5. Taken(o)' = Taken(o) /\ Returned(o)' = Returned(o) \cup {p}
      BY <1>3, <2>2, <3>1 DEF Taken, Returned
    <3> QED
      BY <3>3, <3>4, <3>5 DEF EntrySteps
  <2> QED
    BY <2>1, <2>3, <2>4, MoveColumns
<1> QED
  BY <1>5, <1>6 DEF Commits

\* The payment service implements PaymentLedger.
THEOREM ServiceImplementsLedger == Spec => ImplementsLedger
<1>1. Init => Ledger!Init
  <2> SUFFICES ASSUME Init
               PROVE  Balance = [o \in Orders |-> Ledger!Nothing]
    BY DEF Ledger!Init
  <2>1. ASSUME NEW o \in Orders
        PROVE  o \notin overlapped /\ Entry(o) = Ledger!Nothing
    <3>1. OfOrder(o) = {}
      BY SentinelAssumption DEF Init, OfOrder, NoRow, UnsetRow
    <3> QED
      BY <3>1 DEF Init, Entry, Requested, Taken, Returned, Ledger!Nothing
  <2> QED
    BY <2>1 DEF Balance
<1>2. TypeInv /\ SerialInv /\ [Next]_vars => [Ledger!Next]_Balance
  <2> SUFFICES ASSUME TypeInv, SerialInv, [Next]_vars
               PROVE  [Ledger!Next]_Balance
    OBVIOUS
  <2>0. TypeOK /\ Current
    BY DEF TypeInv, SerialInv
  <2>1. ASSUME UNCHANGED <<payments, payment_events>>
        PROVE  \A o \in Orders : Entry(o)' = Entry(o)
    BY <2>1 DEF Entry, Requested, Taken, Returned, OfOrder, Has
  <2>2. CASE UNCHANGED vars
    BY <2>1, <2>2 DEF Balance, vars
  <2>3. ASSUME NEW s \in Sessions, NEW o \in Orders, NEW p, NEW new, Open(s, o, p, new)
        PROVE  [Ledger!Next]_Balance
    <3>1. /\ UNCHANGED <<payments, payment_events>>
          /\ overlapped' \in {overlapped, overlapped \cup {o}}
      BY <2>3 DEF Open
    <3>2. CASE overlapped' = overlapped
      BY <2>1, <3>1, <3>2 DEF Balance
    <3>3. CASE overlapped' = overlapped \cup {o}
      <4>1. Balance' = [Balance EXCEPT ![o] = Disputed]
        BY <2>1, <3>1, <3>3 DEF Balance
      <4> QED
        BY <4>1 DEF Ledger!Next, Ledger!Dispute
    <3> QED
      BY <3>1, <3>2, <3>3
  <2>4. ASSUME NEW s \in Sessions, NEW p \in Payments, Commits(s, p),
               txn[s].order \in Orders,
               payments[p] = NoRow \/ payments[p].order_id = txn[s].order
        PROVE  [Ledger!Next]_Balance
    <3>1. PICK o \in Orders : o = txn[s].order
      BY <2>4
    <3>2. \A x \in Orders : x # o => Entry(x)' = Entry(x)
      BY <2>0, <2>4, <3>1, OtherEntries
    <3>3. overlapped' = overlapped
      BY <2>4 DEF Commits, Record
    <3>4. CASE o \in overlapped
      BY <3>2, <3>3, <3>4 DEF Balance
    <3>5. CASE o \notin overlapped
      <4>1. /\ Balance[o] = Entry(o) /\ Entry(o) # Disputed
            /\ Balance' = [Balance EXCEPT ![o] = Entry(o)']
        BY <3>2, <3>3, <3>5, EntryIsNotDisputed DEF Balance
      <4>2. /\ Balance[o].requested = Requested(o)
            /\ Balance[o].taken = Taken(o) /\ Balance[o].returned = Returned(o)
        BY <4>1 DEF Entry
      <4>3. Entry(o)' = [requested |-> Requested(o)', taken |-> Taken(o)',
                         returned |-> Returned(o)']
        BY DEF Entry
      <4>4. EntrySteps(o, p)
        BY <2>4, <3>1, <3>5, EntryOfCommit
      <4>5. Ledger!Becomes(o, Requested(o)', Taken(o)', Returned(o)')
        BY <4>1, <4>3 DEF Ledger!Becomes
      <4>6. \/ Ledger!Request(o, p) \/ Ledger!Decline(o)
            \/ Ledger!Take(o) \/ Ledger!Return(o, p)
        BY <4>2, <4>4, <4>5
        DEF EntrySteps, Ledger!Request, Ledger!Decline, Ledger!Take, Ledger!Return
      <4> QED
        BY <4>1, <4>6 DEF Ledger!Next
    <3> QED
      BY <3>4, <3>5
  <2>5. ASSUME NEW s \in Sessions, Rollback(s)
        PROVE  [Ledger!Next]_Balance
    BY <2>1, <2>5 DEF Rollback, Balance
  <2> QED
    BY <2>0, <2>2, <2>3, <2>4, <2>5, SerialSteps DEF OpensNew, OpensMove
<1> QED
  BY <1>1, <1>2, TypeInvInductive, SerialInvInductive, PTL
  DEF Spec, ImplementsLedger, Ledger!Spec
=============================================================================
