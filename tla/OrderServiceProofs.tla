------------------------- MODULE OrderServiceProofs -------------------------
(***************************************************************************)
(* Proofs about the order service, for any sets of orders, couriers and    *)
(* sessions and any bound on the history.                                  *)
(*                                                                         *)
(* The four handlers that open a transaction all end in Stage.  The lemma  *)
(* HandlersStage says once what they may stage (ValidChange), so that the  *)
(* invariants have four kinds of step to go through instead of seven:      *)
(* create_order, a staging, Commit and Rollback.                           *)
(***************************************************************************)
EXTENDS OrderRefinement, SequenceTheorems, TLAPS

-----------------------------------------------------------------------------
(* The transition table.                                                   *)

\* What ALLOWED_STATUS_TRANSITIONS lists: the one source each later status
\* has, and that no status allows itself or "created".
LEMMA TransitionTable ==
    \A s \in OrderStatus :
        /\ ALLOWED_STATUS_TRANSITIONS[s] \subseteq OrderStatus
        /\ s \notin ALLOWED_STATUS_TRANSITIONS[s]
        /\ "created" \notin ALLOWED_STATUS_TRANSITIONS[s]
        /\ "waiting_for_courier" \in ALLOWED_STATUS_TRANSITIONS[s]
              => s \in {"created", "courier_assigned"}
        /\ "courier_assigned" \in ALLOWED_STATUS_TRANSITIONS[s]
              => s \in {"created", "waiting_for_courier"}
        /\ "in_delivery" \in ALLOWED_STATUS_TRANSITIONS[s]
              => s = "courier_assigned"
        /\ "delivered" \in ALLOWED_STATUS_TRANSITIONS[s] => s = "in_delivery"
        /\ "cancelled" \in ALLOWED_STATUS_TRANSITIONS[s]
              => s \in {"created", "waiting_for_courier", "courier_assigned"}
BY DEF OrderStatus, ALLOWED_STATUS_TRANSITIONS

-----------------------------------------------------------------------------
(* What a handler may stage.                                               *)

\* A change of a row that the guards of the handlers let through.
ValidChange(old, new) ==
    /\ old.status \in OrderStatus
    /\ new.status \in ALLOWED_STATUS_TRANSITIONS[old.status]
    /\ new.status \in NeedsCourier => new.courier_id \in Couriers
    /\ new.status = "waiting_for_courier" =>
          new.courier_id \in {old.courier_id, NoCourier}
    /\ new.status \in {"delivered", "cancelled"} =>
          new.courier_id = old.courier_id
    /\ new.cancelled_at # old.cancelled_at => new.status = "cancelled"

ValidStage ==
    \E s \in Sessions, o \in Orders, row \in Row, event_type \in EventTypes :
        /\ ValidChange(orders[o], row)
        /\ Stage(s, o, row, event_type)

\* The steps of Next by what they do to the database.
StepKinds ==
    \/ \E o \in Orders : create_order(o)
    \/ ValidStage
    \/ \E s \in Sessions : Commit(s) \/ Rollback(s)

\* The event type of a status is one the service publishes.
LEMMA EventTypeInType ==
    \A status : event_type_for_status(status) \in EventTypes
BY DEF event_type_for_status, EventTypes

\* Every handler that opens a transaction stages a valid change.
LEMMA HandlersStage ==
    ASSUME TypeOK, Next
    PROVE  StepKinds
<1>1. ASSUME NEW s \in Sessions, NEW o \in Orders, NEW target \in OrderStatus,
             NEW c \in Couriers \cup {NoCourier},
             change_status(s, o, target, c)
      PROVE  ValidStage
  <2> DEFINE courier == IF target \in NeedsCourier /\ c # NoCourier
                        THEN c ELSE orders[o].courier_id
             row == [orders[o] EXCEPT !.status = target,
                                      !.courier_id = courier]
  <2>1. /\ MayBecome(o, target)
        /\ target \in NeedsCourier => courier # NoCourier
        /\ Stage(s, o, row, event_type_for_status(target))
    BY <1>1 DEF change_status
  <2>2. orders[o] \in Row
    BY <2>1 DEF TypeOK, MayBecome, NoRow
  <2>3. courier \in Couriers \cup {NoCourier}
    BY <2>2 DEF Row
  <2>4. /\ row \in Row
        /\ row.status = target
        /\ row.courier_id = courier
        /\ row.cancelled_at = orders[o].cancelled_at
    BY <2>2, <2>3 DEF Row
  <2>5. orders[o].status \in OrderStatus
    BY <2>1, <2>2 DEF MayBecome, Row
  <2>6. ValidChange(orders[o], row)
    BY <2>1, <2>3, <2>4, <2>5 DEF ValidChange, MayBecome, NeedsCourier
  <2> QED
    BY <2>1, <2>4, <2>6, EventTypeInType DEF ValidStage
<1>2. ASSUME NEW s \in Sessions, NEW o \in Orders, cancel_order(s, o)
      PROVE  ValidStage
  <2> DEFINE row == [orders[o] EXCEPT !.status = "cancelled",
                                      !.cancelled_at = TRUE]
  <2>1. MayBecome(o, "cancelled") /\ Stage(s, o, row, "order_cancelled")
    BY <1>2 DEF cancel_order
  <2>2. orders[o] \in Row
    BY <2>1 DEF TypeOK, MayBecome, NoRow
  <2>3. /\ row \in Row
        /\ row.status = "cancelled"
        /\ row.courier_id = orders[o].courier_id
    BY <2>2 DEF Row, OrderStatus
  <2>4. ValidChange(orders[o], row)
    BY <2>1, <2>2, <2>3 DEF ValidChange, MayBecome, NeedsCourier, Row
  <2> QED
    BY <2>1, <2>3, <2>4 DEF ValidStage, EventTypes
<1>3. ASSUME NEW s \in Sessions, NEW o \in Orders, NEW c \in Couriers,
             apply_courier_assigned(s, o, c)
      PROVE  ValidStage
  <2> DEFINE row == [orders[o] EXCEPT !.status = "courier_assigned",
                                      !.courier_id = c]
  <2>1. MayBecome(o, "courier_assigned") /\ Stage(s, o, row, "courier_assigned")
    BY <1>3 DEF apply_courier_assigned
  <2>2. orders[o] \in Row
    BY <2>1 DEF TypeOK, MayBecome, NoRow
  <2>3. /\ row \in Row
        /\ row.status = "courier_assigned"
        /\ row.courier_id = c
        /\ row.cancelled_at = orders[o].cancelled_at
    BY <2>2 DEF Row, OrderStatus
  <2>4. ValidChange(orders[o], row)
    BY <2>1, <2>2, <2>3 DEF ValidChange, MayBecome, Row
  <2> QED
    BY <2>1, <2>3, <2>4 DEF ValidStage, EventTypes
<1>4. ASSUME NEW s \in Sessions, NEW o \in Orders, NEW c \in Couriers,
             NEW status \in AssignmentStatus,
             apply_assignment_status_changed(s, o, c, status)
      PROVE  ValidStage
  <2> DEFINE target == order_status_for_assignment_status(status)
             row == [orders[o] EXCEPT !.status = target,
                                      !.courier_id =
                       IF target = "waiting_for_courier" THEN NoCourier ELSE @]
  <2>1. /\ orders[o].courier_id = c
        /\ MayBecome(o, target)
        /\ Stage(s, o, row, event_type_for_status(target))
    BY <1>4 DEF apply_assignment_status_changed
  <2>2. orders[o] \in Row
    BY <2>1 DEF TypeOK, MayBecome, NoRow
  <2>3. orders[o].status \in OrderStatus
    BY <2>1, <2>2 DEF MayBecome, Row
  <2>4. target \in OrderStatus
    BY <2>1, <2>3, TransitionTable DEF MayBecome
  <2>5. target # "courier_assigned"
    BY DEF order_status_for_assignment_status
  <2> HIDE DEF target
  <2>6. /\ row \in Row
        /\ row.status = target
        /\ row.courier_id = IF target = "waiting_for_courier"
                            THEN NoCourier ELSE c
        /\ row.cancelled_at = orders[o].cancelled_at
    BY <2>1, <2>2, <2>4 DEF Row
  <2>7. ValidChange(orders[o], row)
    BY <2>1, <2>3, <2>6 DEF ValidChange, MayBecome, NeedsCourier
  <2> QED
    BY <2>1, <2>6, <2>7, EventTypeInType DEF ValidStage
<1> QED
  BY <1>1, <1>2, <1>3, <1>4 DEF Next, StepKinds

-----------------------------------------------------------------------------
(* Type correctness.                                                       *)

\* Every open transaction holds a change that the guards let through.
StagedChangesValid ==
    \A s \in Sessions : txn[s] # NoTxn => ValidChange(txn[s].old, txn[s].new)

TypeInv == TypeOK /\ StagedChangesValid

\* A valid change really changes the status, so the UPDATE writes it: the row
\* of a commit is a row of the table, whatever was committed since the read.
LEMMA CommitWrites ==
    ASSUME NEW t \in Txn, NEW row \in Row \cup {NoRow}, ValidChange(t.old, t.new)
    PROVE  /\ add_event(t) \in OrderEvent
           /\ add_event(t).previous_status = t.old.status
           /\ add_event(t).new_status = t.new.status
           /\ add_outbox_event(t) \in OrderMessage
           /\ add_outbox_event(t).order = t.new
           /\ UpdateChangedColumns(row, t) \in Row
           /\ UpdateChangedColumns(row, t).status = t.new.status
<1>1. t.old.status # t.new.status
  BY TransitionTable DEF ValidChange
<1>2. t.old \in Row /\ t.new \in Row /\ t.event_type \in EventTypes
  BY DEF Txn
<1>3. /\ add_event(t) \in OrderEvent
      /\ add_event(t).previous_status = t.old.status
      /\ add_event(t).new_status = t.new.status
  BY <1>2 DEF Row, OrderEvent, add_event
<1>4. /\ add_outbox_event(t) \in OrderMessage
      /\ add_outbox_event(t).order = t.new
  BY <1>2 DEF OrderMessage, add_outbox_event
<1>5. /\ UpdateChangedColumns(row, t) \in Row
      /\ UpdateChangedColumns(row, t).status = t.new.status
  <2>1. CASE row \in Row
    BY <1>1, <1>2, <2>1 DEF Row, UpdateChangedColumns
  <2>2. CASE row = NoRow
    BY <1>1, <1>2, <2>2 DEF Row, NoRow, UpdateChangedColumns
  <2> QED
    BY <2>1, <2>2
<1> QED
  BY <1>3, <1>4, <1>5

\* create_order writes a row "created", the event and the message of it.
LEMMA CreateOrderWrites ==
    ASSUME NEW o \in Orders, create_order(o)
    PROVE  \E row \in Row, e \in OrderEvent, m \in OrderMessage :
             /\ row.status = "created" /\ ~row.cancelled_at
             /\ e.previous_status = "none" /\ e.new_status = "created"
             /\ m.order = row
             /\ orders[o].status = "none"
             /\ orders' = [orders EXCEPT ![o] = row]
             /\ order_events' = [order_events EXCEPT ![o] = Append(@, e)]
             /\ outbox' = [outbox EXCEPT ![o] = Append(@, m)]
             /\ UNCHANGED txn
<1> DEFINE row == [NoRow EXCEPT !.status = "created"]
           t == [order |-> o, old |-> NoRow, new |-> row,
                 event_type |-> "order_created"]
<1>1. row \in Row /\ row.status = "created" /\ ~row.cancelled_at
  BY DEF NoRow, Row, OrderStatus
<1>2. /\ add_event(t) \in OrderEvent
      /\ add_event(t).previous_status = "none"
      /\ add_event(t).new_status = "created"
  BY <1>1 DEF add_event, OrderEvent, NoRow, OrderStatus, EventTypes
<1>3. /\ add_outbox_event(t) \in OrderMessage
      /\ add_outbox_event(t).order = row
  BY <1>1 DEF add_outbox_event, OrderMessage, EventTypes
<1>4. /\ orders[o].status = "none"
      /\ orders' = [orders EXCEPT ![o] = row]
      /\ order_events' = [order_events EXCEPT ![o] = Append(@, add_event(t))]
      /\ outbox' = [outbox EXCEPT ![o] = Append(@, add_outbox_event(t))]
      /\ UNCHANGED txn
  BY DEF create_order
<1> QED
  BY <1>1, <1>2, <1>3, <1>4

\* The type invariant is inductive together with StagedChangesValid: the type
\* of a committed row depends on what the transaction staged.
LEMMA TypeInvariant == Spec => []TypeInv
<1>1. Init => TypeInv
  BY DEF Init, TypeInv, TypeOK, StagedChangesValid
<1>2. TypeInv /\ [Next]_vars => TypeInv'
  <2> SUFFICES ASSUME TypeInv, [Next]_vars
               PROVE  TypeInv'
    OBVIOUS
  <2> USE DEF TypeInv
  <2>1. ASSUME NEW o \in Orders, create_order(o)
        PROVE  TypeInv'
    <3>1. PICK row \in Row, e \in OrderEvent, m \in OrderMessage :
            /\ orders' = [orders EXCEPT ![o] = row]
            /\ order_events' = [order_events EXCEPT ![o] = Append(@, e)]
            /\ outbox' = [outbox EXCEPT ![o] = Append(@, m)]
            /\ UNCHANGED txn
      BY <2>1, CreateOrderWrites
    <3> QED
      BY <3>1 DEF TypeOK, StagedChangesValid
  <2>2. ASSUME ValidStage
        PROVE  TypeInv'
    <3>1. PICK s \in Sessions, o \in Orders, row \in Row, type \in EventTypes :
            /\ ValidChange(orders[o], row)
            /\ Stage(s, o, row, type)
      BY <2>2 DEF ValidStage
    <3> DEFINE t == [order |-> o, old |-> orders[o], new |-> row,
                     event_type |-> type]
    <3>2. orders[o] \in Row
      BY <3>1 DEF TypeOK, ValidChange, NoRow, OrderStatus
    <3>3. t \in Txn /\ ValidChange(t.old, t.new)
      BY <3>1, <3>2 DEF Txn
    <3>4. txn' = [txn EXCEPT ![s] = t] /\ UNCHANGED <<orders, order_events, outbox>>
      BY <3>1 DEF Stage
    <3> HIDE DEF t
    <3> QED
      BY <3>3, <3>4 DEF TypeOK, StagedChangesValid
  <2>3. ASSUME NEW s \in Sessions, Commit(s)
        PROVE  TypeInv'
    <3> DEFINE t == txn[s]
    <3>1. /\ t \in Txn /\ ValidChange(t.old, t.new)
          /\ t.order \in Orders
      BY <2>3 DEF Commit, TypeOK, StagedChangesValid, Txn
    <3>2. /\ add_event(t) \in OrderEvent
          /\ add_outbox_event(t) \in OrderMessage
          /\ UpdateChangedColumns(orders[t.order], t) \in Row
      BY <3>1, CommitWrites DEF TypeOK
    <3> QED
      BY <2>3, <3>1, <3>2 DEF Commit, TypeOK, StagedChangesValid
  <2>4. ASSUME NEW s \in Sessions, Rollback(s)
        PROVE  TypeInv'
    BY <2>4 DEF Rollback, TypeOK, StagedChangesValid
  <2>5. CASE UNCHANGED vars
    BY <2>5 DEF vars, TypeOK, StagedChangesValid
  <2> QED
    BY <2>1, <2>2, <2>3, <2>4, <2>5, HandlersStage DEF StepKinds
<1> QED
  BY <1>1, <1>2, PTL DEF Spec

\* Every variable of the service stays within its type.
THEOREM TypeCorrect == Spec => []TypeOK
<1>1. TypeInv => TypeOK
  BY DEF TypeInv
<1> QED
  BY <1>1, TypeInvariant, PTL

-----------------------------------------------------------------------------
(* The history, whatever the interleaving.                                 *)

\* The status that a session read is one that the order has had.
SnapshotsWereReal ==
    \A s \in Sessions : txn[s] # NoTxn =>
        \E j \in 1 .. Len(order_events[txn[s].order]) :
            order_events[txn[s].order][j].new_status = txn[s].old.status

HistoryInv ==
    /\ TypeInv
    /\ StatusIsLastEvent
    /\ HistoryIsValidated
    /\ SnapshotsWereReal

\* A first event "created", or a listed transition out of a status that the
\* history has reached, keeps the history valid.
LEMMA AppendKeepsValid ==
    ASSUME NEW h \in Seq(OrderEvent), ValidHistory(h), NEW e \in OrderEvent,
           IF h = <<>>
           THEN e.previous_status = "none" /\ e.new_status = "created"
           ELSE /\ e.previous_status \in OrderStatus
                /\ e.new_status \in ALLOWED_STATUS_TRANSITIONS[e.previous_status]
                /\ \E j \in 1 .. Len(h) : h[j].new_status = e.previous_status
    PROVE  /\ ValidHistory(Append(h, e))
           /\ Append(h, e) # <<>>
           /\ LastOf(Append(h, e)) = e
           /\ \A j \in 1 .. Len(h) :
                 j \in 1 .. Len(Append(h, e)) /\ Append(h, e)[j] = h[j]
<1> DEFINE g == Append(h, e)
<1>1. /\ Len(g) = Len(h) + 1
      /\ g[Len(h) + 1] = e
      /\ \A j \in 1 .. Len(h) : g[j] = h[j]
  OBVIOUS
<1>2. Len(h) \in Nat /\ (h = <<>> <=> Len(h) = 0)
  OBVIOUS
<1> HIDE DEF g
<1>3. ASSUME NEW i \in 1 .. Len(g)
      PROVE  ValidatedEvent(g, i)
  <2>1. CASE i \in 1 .. Len(h)
    <3>1. ValidatedEvent(h, i)
      BY <2>1 DEF ValidHistory
    <3>2. \A j \in 1 .. i-1 : g[j] = h[j]
      BY <1>1, <2>1
    <3> QED
      BY <1>1, <2>1, <3>1, <3>2 DEF ValidatedEvent
  <2>2. CASE i = Len(h) + 1
    BY <1>1, <1>2, <2>2 DEF ValidatedEvent
  <2> QED
    BY <1>1, <1>2, <2>1, <2>2
<1>4. ValidHistory(g)
  BY <1>3 DEF ValidHistory
<1>5. g # <<>> /\ LastOf(g) = e
  BY <1>1, <1>2 DEF LastOf, g
<1> QED
  BY <1>1, <1>2, <1>4, <1>5 DEF g

LEMMA HistoryInvariant == Spec => []HistoryInv
<1>1. Init => HistoryInv
  BY DEF Init, HistoryInv, TypeInv, TypeOK, StagedChangesValid,
         StatusIsLastEvent, HistoryIsValidated, ValidHistory,
         SnapshotsWereReal, NoRow
<1>2. HistoryInv /\ TypeInv' /\ [Next]_vars => HistoryInv'
  <2> SUFFICES ASSUME HistoryInv, TypeInv', [Next]_vars
               PROVE  HistoryInv'
    OBVIOUS
  <2> USE DEF HistoryInv
  <2>0. TypeOK /\ StagedChangesValid
    BY DEF TypeInv
  <2>1. ASSUME NEW o \in Orders, create_order(o)
        PROVE  HistoryInv'
    <3>1. PICK row \in Row, e \in OrderEvent :
            /\ row.status = "created"
            /\ e.previous_status = "none" /\ e.new_status = "created"
            /\ orders[o].status = "none"
            /\ orders' = [orders EXCEPT ![o] = row]
            /\ order_events' = [order_events EXCEPT ![o] = Append(@, e)]
            /\ UNCHANGED txn
      BY <2>1, CreateOrderWrites
    <3>2. order_events[o] \in Seq(OrderEvent)
      BY <2>0 DEF TypeOK
    <3>3. order_events[o] = <<>>
      <4>1. ASSUME order_events[o] # <<>>
            PROVE  LastOf(order_events[o]) \in OrderEvent
        BY <3>2, <4>1 DEF LastOf
      <4> QED
        BY <3>1, <4>1 DEF StatusIsLastEvent, OrderEvent, OrderStatus
    <3>4. /\ ValidHistory(order_events'[o])
          /\ order_events'[o] # <<>>
          /\ LastOf(order_events'[o]) = e
          /\ orders'[o] = row
      BY <2>0, <3>1, <3>2, <3>3, AppendKeepsValid DEF HistoryIsValidated, TypeOK
    <3>5. \A p \in Orders \ {o} :
            order_events'[p] = order_events[p] /\ orders'[p] = orders[p]
      BY <2>0, <3>1 DEF TypeOK
    <3>6. \A s \in Sessions : txn[s] # NoTxn => txn[s].order # o
      BY <2>0, <3>3 DEF SnapshotsWereReal
    <3>7. SnapshotsWereReal'
      BY <2>0, <3>1, <3>5, <3>6 DEF SnapshotsWereReal, TypeOK, Txn
    <3> QED
      BY <3>1, <3>4, <3>5, <3>7 DEF StatusIsLastEvent, HistoryIsValidated
  <2>2. ASSUME ValidStage
        PROVE  HistoryInv'
    <3>1. PICK s \in Sessions, o \in Orders, row \in Row, type \in EventTypes :
            /\ ValidChange(orders[o], row)
            /\ Stage(s, o, row, type)
      BY <2>2 DEF ValidStage
    <3>2. /\ txn' = [txn EXCEPT ![s] = [order |-> o, old |-> orders[o],
                                        new |-> row, event_type |-> type]]
          /\ UNCHANGED <<orders, order_events, outbox>>
      BY <3>1 DEF Stage
    <3>3. orders[o].status \in OrderStatus
      BY <3>1 DEF ValidChange
    <3>4. order_events[o] # <<>> /\ order_events[o] \in Seq(OrderEvent)
      BY <2>0, <3>3 DEF StatusIsLastEvent, OrderStatus, TypeOK
    <3>5. /\ Len(order_events[o]) \in 1 .. Len(order_events[o])
          /\ order_events[o][Len(order_events[o])].new_status = orders[o].status
      BY <3>4 DEF StatusIsLastEvent, LastOf
    <3>6. SnapshotsWereReal'
      <4> SUFFICES ASSUME NEW u \in Sessions, txn'[u] # NoTxn
                   PROVE  \E j \in 1 .. Len(order_events[txn'[u].order]) :
                            order_events[txn'[u].order][j].new_status
                               = txn'[u].old.status
        BY <3>2 DEF SnapshotsWereReal
      <4>1. CASE u = s
        BY <2>0, <3>2, <3>5, <4>1 DEF TypeOK
      <4>2. CASE u # s
        BY <2>0, <3>2, <4>2 DEF TypeOK, SnapshotsWereReal
      <4> QED
        BY <4>1, <4>2
    <3> QED
      BY <3>2, <3>6 DEF StatusIsLastEvent, HistoryIsValidated
  <2>3. ASSUME NEW s \in Sessions, Commit(s)
        PROVE  HistoryInv'
    <3> DEFINE t == txn[s]
               o == t.order
               e == add_event(t)
    <3>1. t # NoTxn /\ t \in Txn /\ o \in Orders /\ ValidChange(t.old, t.new)
      BY <2>0, <2>3 DEF Commit, TypeOK, StagedChangesValid, Txn
    <3>2. /\ e \in OrderEvent
          /\ e.previous_status = t.old.status
          /\ e.new_status = t.new.status
          /\ UpdateChangedColumns(orders[o], t).status = t.new.status
      BY <2>0, <3>1, CommitWrites DEF TypeOK
    <3>3. /\ orders' = [orders EXCEPT ![o] = UpdateChangedColumns(orders[o], t)]
          /\ order_events' = [order_events EXCEPT ![o] = Append(order_events[o], e)]
          /\ txn' = [txn EXCEPT ![s] = NoTxn]
      BY <2>3 DEF Commit
    <3>4. /\ order_events[o] \in Seq(OrderEvent)
          /\ ValidHistory(order_events[o])
          /\ \E j \in 1 .. Len(order_events[o]) :
                order_events[o][j].new_status = t.old.status
      BY <2>0, <3>1 DEF TypeOK, HistoryIsValidated, SnapshotsWereReal
    <3> HIDE DEF e, o, t
    <3>5. order_events[o] # <<>>
      BY <3>4
    <3>6. /\ ValidHistory(Append(order_events[o], e))
          /\ Append(order_events[o], e) # <<>>
          /\ LastOf(Append(order_events[o], e)) = e
          /\ \A j \in 1 .. Len(order_events[o]) :
                /\ j \in 1 .. Len(Append(order_events[o], e))
                /\ Append(order_events[o], e)[j] = order_events[o][j]
      BY <3>1, <3>2, <3>4, <3>5, AppendKeepsValid DEF ValidChange
    <3>7. /\ order_events'[o] = Append(order_events[o], e)
          /\ orders'[o].status = e.new_status
          /\ \A p \in Orders \ {o} :
                order_events'[p] = order_events[p] /\ orders'[p] = orders[p]
      BY <2>0, <3>1, <3>2, <3>3 DEF TypeOK
    <3>8. SnapshotsWereReal'
      <4> SUFFICES ASSUME NEW u \in Sessions, txn'[u] # NoTxn
                   PROVE  \E j \in 1 .. Len(order_events'[txn'[u].order]) :
                            order_events'[txn'[u].order][j].new_status
                               = txn'[u].old.status
        BY DEF SnapshotsWereReal
      <4>1. txn'[u] = txn[u] /\ txn[u] # NoTxn /\ txn[u].order \in Orders
        BY <2>0, <3>3 DEF TypeOK, Txn
      <4>2. PICK j \in 1 .. Len(order_events[txn[u].order]) :
              order_events[txn[u].order][j].new_status = txn[u].old.status
        BY <4>1 DEF SnapshotsWereReal
      <4>3. CASE txn[u].order = o
        BY <3>6, <3>7, <4>1, <4>2, <4>3
      <4>4. CASE txn[u].order # o
        BY <3>7, <4>1, <4>2, <4>4
      <4> QED
        BY <4>3, <4>4
    <3> QED
      BY <3>6, <3>7, <3>8 DEF StatusIsLastEvent, HistoryIsValidated
  <2>4. ASSUME NEW s \in Sessions, Rollback(s)
        PROVE  HistoryInv'
    BY <2>0, <2>4 DEF Rollback, TypeOK, StatusIsLastEvent, HistoryIsValidated,
                      SnapshotsWereReal
  <2>5. CASE UNCHANGED vars
    BY <2>5 DEF vars, StatusIsLastEvent, HistoryIsValidated, ValidHistory,
                ValidatedEvent, SnapshotsWereReal
  <2> QED
    BY <2>0, <2>1, <2>2, <2>3, <2>4, <2>5, HandlersStage DEF StepKinds
<1> QED
  BY <1>1, <1>2, TypeInvariant, PTL DEF Spec

\* However handlers interleave, the row's status is the last event's.
THEOREM StatusMatchesHistory == Spec => []StatusIsLastEvent
<1>1. HistoryInv => StatusIsLastEvent
  BY DEF HistoryInv
<1> QED
  BY <1>1, HistoryInvariant, PTL

\* However handlers interleave, every event is a listed transition out of a
\* status that the order had reached.
THEOREM HistoryValidated == Spec => []HistoryIsValidated
<1>1. HistoryInv => HistoryIsValidated
  BY DEF HistoryInv
<1> QED
  BY <1>1, HistoryInvariant, PTL

\* However handlers interleave, a delivery was started, after an assignment.
THEOREM DeliveredWasAssigned == Spec => []DeliveryFollowsAssignment
<1>1. HistoryInv => DeliveryFollowsAssignment
  <2> SUFFICES ASSUME HistoryInv, NEW o \in Orders,
                      NEW i \in 1 .. Len(order_events[o]),
                      order_events[o][i].new_status = "delivered"
               PROVE  \E j \in 1 .. i-1 :
                        /\ order_events[o][j].new_status = "in_delivery"
                        /\ \E k \in 1 .. j-1 :
                             order_events[o][k].new_status = "courier_assigned"
    BY DEF DeliveryFollowsAssignment
  <2> DEFINE h == order_events[o]
  <2>1. h \in Seq(OrderEvent) /\ ValidHistory(h)
    BY DEF HistoryInv, TypeInv, TypeOK, HistoryIsValidated
  <2>2. \A n \in 1 .. Len(h) : \A s \in OrderStatus :
          h[n].new_status = s /\ s # "created" =>
             /\ h[n].previous_status \in OrderStatus
             /\ s \in ALLOWED_STATUS_TRANSITIONS[h[n].previous_status]
             /\ \E j \in 1 .. n-1 : h[j].new_status = h[n].previous_status
    BY <2>1 DEF ValidHistory, ValidatedEvent
  <2>3. Len(h) \in Nat
    BY <2>1
  <2>4. PICK j \in 1 .. i-1 : h[j].new_status = "in_delivery"
    BY <2>2, TransitionTable DEF OrderStatus
  <2>5. j \in 1 .. Len(h)
    BY <2>3
  <2>6. PICK k \in 1 .. j-1 : h[k].new_status = "courier_assigned"
    BY <2>2, <2>4, <2>5, TransitionTable DEF OrderStatus
  <2> QED
    BY <2>4, <2>6
<1> QED
  BY <1>1, HistoryInvariant, PTL

-----------------------------------------------------------------------------
(* The messages, whatever the interleaving.                                *)

MessageInv == TypeInv /\ AssignedMessagesNameCourier

\* A message of an assigned or started order names its courier: the handler
\* checked the row that the message is built from.
THEOREM MessagesNameCourier == Spec => []AssignedMessagesNameCourier
<1>1. Init => MessageInv
  BY DEF Init, MessageInv, TypeInv, TypeOK, StagedChangesValid,
         AssignedMessagesNameCourier
<1>2. MessageInv /\ TypeInv' /\ [Next]_vars => MessageInv'
  <2> SUFFICES ASSUME MessageInv, TypeInv', [Next]_vars
               PROVE  AssignedMessagesNameCourier'
    BY DEF MessageInv
  <2> USE DEF MessageInv
  <2>0. TypeOK /\ StagedChangesValid
    BY DEF TypeInv
  <2>1. ASSUME NEW o \in Orders, NEW m \in OrderMessage,
               m.order.status \in NeedsCourier => m.order.courier_id \in Couriers,
               outbox' = [outbox EXCEPT ![o] = Append(@, m)]
        PROVE  AssignedMessagesNameCourier'
    <3> SUFFICES ASSUME NEW p \in Orders, NEW i \in 1 .. Len(outbox'[p]),
                        outbox'[p][i].order.status \in NeedsCourier
                 PROVE  outbox'[p][i].order.courier_id \in Couriers
      BY DEF AssignedMessagesNameCourier
    <3>1. outbox[o] \in Seq(OrderMessage)
      BY <2>0 DEF TypeOK
    <3>2. CASE p = o /\ i = Len(outbox[o]) + 1
      BY <2>0, <2>1, <3>1, <3>2 DEF TypeOK
    <3>3. CASE p = o /\ i # Len(outbox[o]) + 1
      <4>1. i \in 1 .. Len(outbox[o]) /\ outbox'[o][i] = outbox[o][i]
        BY <2>0, <2>1, <3>1, <3>3 DEF TypeOK
      <4> QED
        BY <3>3, <4>1 DEF AssignedMessagesNameCourier
    <3>4. CASE p # o
      BY <2>0, <2>1, <3>4 DEF TypeOK, AssignedMessagesNameCourier
    <3> QED
      BY <3>2, <3>3, <3>4
  <2>2. ASSUME NEW o \in Orders, create_order(o)
        PROVE  AssignedMessagesNameCourier'
    <3>1. PICK row \in Row, m \in OrderMessage :
            /\ row.status = "created" /\ m.order = row
            /\ outbox' = [outbox EXCEPT ![o] = Append(@, m)]
      BY <2>2, CreateOrderWrites
    <3>2. m.order.status \notin NeedsCourier
      BY <3>1 DEF NeedsCourier
    <3> QED
      BY <2>1, <3>1, <3>2
  <2>3. ASSUME NEW s \in Sessions, Commit(s)
        PROVE  AssignedMessagesNameCourier'
    <3> DEFINE t == txn[s]
    <3>1. t \in Txn /\ t.order \in Orders /\ ValidChange(t.old, t.new)
      BY <2>0, <2>3 DEF Commit, TypeOK, StagedChangesValid, Txn
    <3>2. add_outbox_event(t) \in OrderMessage /\ add_outbox_event(t).order = t.new
      BY <2>0, <3>1, CommitWrites DEF TypeOK
    <3>3. outbox' = [outbox EXCEPT ![t.order] = Append(@, add_outbox_event(t))]
      BY <2>3 DEF Commit
    <3> HIDE DEF t
    <3>4. t.new.status \in NeedsCourier => t.new.courier_id \in Couriers
      BY <3>1 DEF ValidChange
    <3> QED
      BY <2>1, <3>1, <3>2, <3>3, <3>4
  <2>4. CASE UNCHANGED outbox
    BY <2>4 DEF AssignedMessagesNameCourier
  <2>5. CASE ValidStage \/ (\E s \in Sessions : Rollback(s)) \/ UNCHANGED vars
    BY <2>4, <2>5 DEF ValidStage, Stage, Rollback, vars
  <2> QED
    BY <2>0, <2>2, <2>3, <2>5, HandlersStage DEF StepKinds
<1>3. MessageInv => AssignedMessagesNameCourier
  BY DEF MessageInv
<1> QED
  BY <1>1, <1>2, <1>3, TypeInvariant, PTL DEF Spec

-----------------------------------------------------------------------------
(* One transaction per order.                                              *)

\* What a session read is still what the row holds.
SnapshotIsCurrent ==
    \A s \in Sessions : txn[s] # NoTxn => txn[s].old = orders[txn[s].order]

SerialInv ==
    /\ OneTxnPerOrder
    /\ SnapshotIsCurrent
    /\ HistoryIsChain
    /\ DeliveryHasCourier
    /\ CancelledAtIsFinal
    /\ LastMessageIsRow

\* A serial execution is one of the service's executions.
LEMMA SerialIsSpec == SerialSpec => Spec
<1>1. [Next /\ OneTxnPerOrder']_vars => [Next]_vars
  OBVIOUS
<1> QED
  BY <1>1, PTL DEF SerialSpec, Spec

\* A transaction that read the current row leaves exactly what it staged.
LEMMA UpdateOfCurrentRow ==
    ASSUME NEW t \in Txn
    PROVE  UpdateChangedColumns(t.old, t) = t.new
BY DEF Txn, Row, UpdateChangedColumns

\* The facts of a commit when its snapshot is current.
LEMMA SerialCommit ==
    ASSUME HistoryInv, SnapshotIsCurrent, NEW s \in Sessions, Commit(s)
    PROVE  \E o \in Orders, row \in Row, e \in OrderEvent, m \in OrderMessage :
             /\ txn[s] # NoTxn /\ txn[s].order = o
             /\ orders[o] \in Row
             /\ ValidChange(orders[o], row)
             /\ e.previous_status = orders[o].status
             /\ e.new_status = row.status
             /\ m.order = row
             /\ orders' = [orders EXCEPT ![o] = row]
             /\ order_events' = [order_events EXCEPT ![o] = Append(@, e)]
             /\ outbox' = [outbox EXCEPT ![o] = Append(@, m)]
             /\ txn' = [txn EXCEPT ![s] = NoTxn]
<1> DEFINE t == txn[s]
<1>0. TypeOK /\ StagedChangesValid
  BY DEF HistoryInv, TypeInv
<1>1. /\ t # NoTxn /\ t \in Txn /\ t.order \in Orders /\ ValidChange(t.old, t.new)
      /\ t.old = orders[t.order] /\ t.old \in Row /\ t.new \in Row
  BY <1>0 DEF Commit, TypeOK, StagedChangesValid, Txn, SnapshotIsCurrent
<1>2. /\ add_event(t) \in OrderEvent
      /\ add_event(t).previous_status = t.old.status
      /\ add_event(t).new_status = t.new.status
      /\ add_outbox_event(t) \in OrderMessage
      /\ add_outbox_event(t).order = t.new
  BY <1>1, CommitWrites
<1>3. UpdateChangedColumns(orders[t.order], t) = t.new
  BY <1>1, UpdateOfCurrentRow
<1>4. /\ orders' = [orders EXCEPT ![t.order] = t.new]
      /\ order_events' = [order_events EXCEPT ![t.order] = Append(@, add_event(t))]
      /\ outbox' = [outbox EXCEPT ![t.order] = Append(@, add_outbox_event(t))]
      /\ txn' = [txn EXCEPT ![s] = NoTxn]
  BY <1>3 DEF Commit
<1> QED
  BY <1>1, <1>2, <1>4

LEMMA SerialInvariant == SerialSpec => [](HistoryInv /\ SerialInv)
<1>1. Init => SerialInv
  BY DEF Init, SerialInv, OneTxnPerOrder, SnapshotIsCurrent, HistoryIsChain,
         DeliveryHasCourier, CancelledAtIsFinal, LastMessageIsRow, NoRow
<1>2. HistoryInv /\ HistoryInv' /\ SerialInv /\ [Next /\ OneTxnPerOrder']_vars
        => SerialInv'
  <2> SUFFICES ASSUME HistoryInv, HistoryInv', SerialInv,
                      [Next /\ OneTxnPerOrder']_vars
               PROVE  SerialInv'
    OBVIOUS
  <2>0. TypeOK /\ TypeOK' /\ StagedChangesValid
    BY DEF HistoryInv, TypeInv
  <2>1. OneTxnPerOrder'
    BY DEF vars, SerialInv, OneTxnPerOrder
  \* The three tables after a step that gives order o a new row.
  <2>2. ASSUME NEW o \in Orders, NEW row \in Row, NEW e \in OrderEvent,
               NEW m \in OrderMessage,
               e.previous_status = orders[o].status,
               e.new_status = row.status,
               m.order = row,
               orders' = [orders EXCEPT ![o] = row],
               order_events' = [order_events EXCEPT ![o] = Append(@, e)],
               outbox' = [outbox EXCEPT ![o] = Append(@, m)],
               row.status \in {"courier_assigned", "in_delivery", "delivered"}
                  => row.courier_id \in Couriers,
               row.cancelled_at => row.status = "cancelled"
        PROVE  /\ HistoryIsChain'
               /\ DeliveryHasCourier'
               /\ CancelledAtIsFinal'
               /\ LastMessageIsRow'
    <3>1. /\ orders'[o] = row
          /\ \A p \in Orders \ {o} : orders'[p] = orders[p]
      BY <2>0, <2>2 DEF TypeOK
    <3>2. /\ outbox'[o] = Append(outbox[o], m)
          /\ \A p \in Orders \ {o} : outbox'[p] = outbox[p]
          /\ outbox[o] \in Seq(OrderMessage)
      BY <2>0, <2>2 DEF TypeOK
    <3>3. /\ order_events'[o] = Append(order_events[o], e)
          /\ \A p \in Orders \ {o} : order_events'[p] = order_events[p]
          /\ order_events[o] \in Seq(OrderEvent)
      BY <2>0, <2>2 DEF TypeOK
    <3>4. DeliveryHasCourier' /\ CancelledAtIsFinal'
      BY <2>2, <3>1 DEF SerialInv, DeliveryHasCourier, CancelledAtIsFinal
    <3>5. LastOf(Append(outbox[o], m)) = m
      BY <3>2 DEF LastOf
    <3>6. LastMessageIsRow'
      BY <2>2, <3>1, <3>2, <3>5 DEF SerialInv, LastMessageIsRow
    <3>7. HistoryIsChain'
      <4> SUFFICES ASSUME NEW p \in Orders, NEW i \in 2 .. Len(order_events'[p])
                   PROVE  order_events'[p][i].previous_status
                             = order_events'[p][i-1].new_status
        BY DEF HistoryIsChain
      <4>1. CASE p # o
        BY <3>3, <4>1 DEF SerialInv, HistoryIsChain
      <4>2. CASE p = o /\ i = Len(order_events[o]) + 1
        <5>1. /\ order_events[o] # <<>>
              /\ order_events'[o][i] = e
              /\ order_events'[o][i-1] = LastOf(order_events[o])
          BY <3>3, <4>2 DEF LastOf
        <5>2. orders[o].status = LastOf(order_events[o]).new_status
          BY <5>1 DEF HistoryInv, StatusIsLastEvent
        <5> QED
          BY <2>2, <4>2, <5>1, <5>2
      <4>3. CASE p = o /\ i # Len(order_events[o]) + 1
        <5>1. /\ i \in 2 .. Len(order_events[o])
              /\ order_events'[o][i] = order_events[o][i]
              /\ order_events'[o][i-1] = order_events[o][i-1]
          BY <3>3, <4>3
        <5> QED
          BY <4>3, <5>1 DEF SerialInv, HistoryIsChain
      <4> QED
        BY <4>1, <4>2, <4>3
    <3> QED
      BY <3>4, <3>6, <3>7
  <2>3. ASSUME NEW o \in Orders, create_order(o)
        PROVE  SerialInv'
    <3>1. PICK row \in Row, e \in OrderEvent, m \in OrderMessage :
             /\ row.status = "created" /\ ~row.cancelled_at
             /\ e.previous_status = "none" /\ e.new_status = "created"
             /\ m.order = row
             /\ orders[o].status = "none"
             /\ orders' = [orders EXCEPT ![o] = row]
             /\ order_events' = [order_events EXCEPT ![o] = Append(@, e)]
             /\ outbox' = [outbox EXCEPT ![o] = Append(@, m)]
             /\ UNCHANGED txn
      BY <2>3, CreateOrderWrites
    <3>2. \A s \in Sessions : txn[s] # NoTxn => txn[s].order # o
      BY <2>0, <3>1 DEF SerialInv, SnapshotIsCurrent, TypeOK, StagedChangesValid,
                        ValidChange, OrderStatus
    <3>3. SnapshotIsCurrent'
      BY <2>0, <3>1, <3>2 DEF SerialInv, SnapshotIsCurrent, TypeOK, Txn
    <3> QED
      BY <2>1, <2>2, <3>1, <3>3 DEF SerialInv
  <2>4. ASSUME ValidStage
        PROVE  SerialInv'
    <3>1. PICK s \in Sessions, o \in Orders, row \in Row, type \in EventTypes :
            Stage(s, o, row, type)
      BY <2>4 DEF ValidStage
    <3>2. /\ txn' = [txn EXCEPT ![s] = [order |-> o, old |-> orders[o],
                                        new |-> row, event_type |-> type]]
          /\ UNCHANGED <<orders, order_events, outbox>>
      BY <3>1 DEF Stage
    <3>3. SnapshotIsCurrent'
      BY <2>0, <3>2 DEF SerialInv, SnapshotIsCurrent, TypeOK
    <3> QED
      BY <2>1, <3>2, <3>3 DEF SerialInv, HistoryIsChain, DeliveryHasCourier,
                              CancelledAtIsFinal, LastMessageIsRow
  <2>5. ASSUME NEW s \in Sessions, Commit(s)
        PROVE  SerialInv'
    <3>1. PICK o \in Orders, row \in Row, e \in OrderEvent, m \in OrderMessage :
             /\ txn[s] # NoTxn /\ txn[s].order = o
             /\ orders[o] \in Row
             /\ ValidChange(orders[o], row)
             /\ e.previous_status = orders[o].status
             /\ e.new_status = row.status
             /\ m.order = row
             /\ orders' = [orders EXCEPT ![o] = row]
             /\ order_events' = [order_events EXCEPT ![o] = Append(@, e)]
             /\ outbox' = [outbox EXCEPT ![o] = Append(@, m)]
             /\ txn' = [txn EXCEPT ![s] = NoTxn]
      BY <2>5, SerialCommit DEF SerialInv
    <3>2. row.status \in {"courier_assigned", "in_delivery", "delivered"}
             => row.courier_id \in Couriers
      <4>1. CASE row.status \in NeedsCourier
        BY <3>1, <4>1 DEF ValidChange
      <4>2. CASE row.status = "delivered"
        BY <3>1, <4>2, TransitionTable DEF ValidChange, SerialInv, DeliveryHasCourier
      <4> QED
        BY <4>1, <4>2 DEF NeedsCourier
    <3>3. row.cancelled_at => row.status = "cancelled"
      <4>1. CASE row.cancelled_at = orders[o].cancelled_at /\ row.cancelled_at
        <5>1. orders[o].status = "cancelled"
          BY <4>1 DEF SerialInv, CancelledAtIsFinal
        <5>2. ALLOWED_STATUS_TRANSITIONS["cancelled"] = {}
          BY DEF ALLOWED_STATUS_TRANSITIONS, OrderStatus
        <5> QED
          BY <3>1, <5>1, <5>2 DEF ValidChange
      <4>2. CASE row.cancelled_at # orders[o].cancelled_at
        BY <3>1, <4>2 DEF ValidChange
      <4> QED
        BY <4>1, <4>2
    <3>4. \A u \in Sessions \ {s} : txn[u] # NoTxn => txn[u].order # o
      BY <3>1 DEF SerialInv, OneTxnPerOrder
    <3>5. SnapshotIsCurrent'
      BY <2>0, <3>1, <3>4 DEF SerialInv, SnapshotIsCurrent, TypeOK, Txn
    <3> QED
      BY <2>1, <2>2, <3>1, <3>2, <3>3, <3>5 DEF SerialInv
  <2>6. ASSUME NEW s \in Sessions, Rollback(s)
        PROVE  SerialInv'
    BY <2>0, <2>1, <2>6 DEF Rollback, TypeOK, SerialInv, SnapshotIsCurrent,
           HistoryIsChain, DeliveryHasCourier, CancelledAtIsFinal, LastMessageIsRow
  <2>7. CASE UNCHANGED vars
    BY <2>1, <2>7 DEF vars, SerialInv, SnapshotIsCurrent, HistoryIsChain,
           DeliveryHasCourier, CancelledAtIsFinal, LastMessageIsRow
  <2> QED
    BY <2>0, <2>3, <2>4, <2>5, <2>6, <2>7, HandlersStage DEF StepKinds
<1> QED
  BY <1>1, <1>2, SerialIsSpec, HistoryInvariant, PTL DEF SerialSpec

\* With one transaction per order the history is a chain, a delivery has its
\* courier, cancelled_at is final and the last message carries the row.
THEOREM SerialHistoryIsChain == SerialSpec => []HistoryIsChain
<1>1. SerialInv => HistoryIsChain
  BY DEF SerialInv
<1> QED
  BY <1>1, SerialInvariant, PTL

\* An order that is assigned, under way or delivered has a courier.
THEOREM SerialDeliveryHasCourier == SerialSpec => []DeliveryHasCourier
<1>1. SerialInv => DeliveryHasCourier
  BY DEF SerialInv
<1> QED
  BY <1>1, SerialInvariant, PTL

\* Nothing revives an order whose cancelled_at is set.
THEOREM SerialCancelledAtIsFinal == SerialSpec => []CancelledAtIsFinal
<1>1. SerialInv => CancelledAtIsFinal
  BY DEF SerialInv
<1> QED
  BY <1>1, SerialInvariant, PTL

\* The last message of an order carries its row.
THEOREM SerialLastMessageIsRow == SerialSpec => []LastMessageIsRow
<1>1. SerialInv => LastMessageIsRow
  BY DEF SerialInv
<1> QED
  BY <1>1, SerialInvariant, PTL

\* The rows that a list of messages carries.
RowsOf(messages) == [i \in 1 .. Len(messages) |-> messages[i].order]

\* One more message is one more row.
LEMMA RowsOfAppend ==
    ASSUME NEW q \in Seq(OrderMessage), NEW m \in OrderMessage
    PROVE  RowsOf(Append(q, m)) = Append(RowsOf(q), m.order)
<1>1. /\ Len(q) \in Nat
      /\ Len(Append(q, m)) = Len(q) + 1
      /\ Append(q, m)[Len(q) + 1] = m
      /\ \A i \in 1 .. Len(q) : Append(q, m)[i] = q[i]
  BY LenProperties, AppendProperties
<1>2. RowsOf(q) \in Seq(Row) /\ Len(RowsOf(q)) = Len(q)
  <2>0. \A i \in 1 .. Len(q) : q[i] \in OrderMessage
    BY ElementOfSeq
  <2>1. \A i \in 1 .. Len(q) : q[i].order \in Row
    BY <2>0 DEF OrderMessage
  <2>2. RowsOf(q) \in [1 .. Len(q) -> Row]
    BY <2>1 DEF RowsOf
  <2>3. RowsOf(q) \in Seq(Row)
    BY <1>1, <2>2, SeqDef
  <2>4. DOMAIN RowsOf(q) = 1 .. Len(q) /\ DOMAIN RowsOf(q) = 1 .. Len(RowsOf(q))
    BY <2>2, <2>3, LenProperties
  <2>5. Len(RowsOf(q)) \in Nat
    BY <2>3, LenProperties
  <2> QED
    BY <1>1, <2>3, <2>4, <2>5
<1>3. m.order \in Row
  BY DEF OrderMessage
<1>4. /\ Append(RowsOf(q), m.order) \in Seq(Row)
      /\ Len(Append(RowsOf(q), m.order)) = Len(q) + 1
      /\ \A i \in 1 .. Len(q) : Append(RowsOf(q), m.order)[i] = q[i].order
      /\ Append(RowsOf(q), m.order)[Len(q) + 1] = m.order
  <2>1. \A i \in 1 .. Len(q) : RowsOf(q)[i] = q[i].order
    BY DEF RowsOf
  <2> QED
    BY <1>2, <1>3, <2>1, AppendProperties
<1>5. RowsOf(Append(q, m)) \in Seq(Row)
  <2>1. \A i \in 1 .. Len(q) + 1 : Append(q, m)[i].order \in Row
    <3>1. \A i \in 1 .. Len(q) + 1 : Append(q, m)[i] \in OrderMessage
      BY <1>1, AppendProperties, ElementOfSeq
    <3> QED
      BY <3>1 DEF OrderMessage
  <2>2. RowsOf(Append(q, m)) \in [1 .. Len(q) + 1 -> Row]
    BY <1>1, <2>1 DEF RowsOf
  <2> QED
    BY <1>1, <2>2, SeqDef
<1>6. /\ Len(RowsOf(Append(q, m))) = Len(q) + 1
      /\ \A i \in 1 .. Len(q) + 1 :
            RowsOf(Append(q, m))[i] = Append(RowsOf(q), m.order)[i]
  <2>1. DOMAIN RowsOf(Append(q, m)) = 1 .. Len(q) + 1
    BY <1>1 DEF RowsOf
  <2>2. /\ DOMAIN RowsOf(Append(q, m)) = 1 .. Len(RowsOf(Append(q, m)))
        /\ Len(RowsOf(Append(q, m))) \in Nat
    BY <1>5, LenProperties
  <2>3. Len(RowsOf(Append(q, m))) = Len(q) + 1
    BY <1>1, <2>1, <2>2
  <2>4. \A i \in 1 .. Len(q) + 1 : RowsOf(Append(q, m))[i] = Append(q, m)[i].order
    BY <1>1 DEF RowsOf
  <2>5. \A i \in 1 .. Len(q) + 1 : i \in 1 .. Len(q) \/ i = Len(q) + 1
    BY <1>1
  <2> QED
    BY <1>1, <1>4, <2>3, <2>4, <2>5
<1> QED
  BY <1>4, <1>5, <1>6, SeqEqual

\* The step that gives o the row `row` is a step of the order's life.
LEMMA CommitIsLifecycleStep ==
    ASSUME HistoryInv, SerialInv, NEW o \in Orders, NEW row \in Row,
           NEW m \in OrderMessage, m.order = row,
           IF orders[o].status = "none"
           THEN row = [NoRow EXCEPT !.status = "created"]
           ELSE ValidChange(orders[o], row),
           orders' = [orders EXCEPT ![o] = row],
           outbox' = [outbox EXCEPT ![o] = Append(@, m)]
    PROVE  Lifecycle!LifecycleNext
<1>0. TypeOK
  BY DEF HistoryInv, TypeInv
<1>1. outbox[o] \in Seq(OrderMessage)
  BY <1>0 DEF TypeOK
<1>2. AnnouncedRows = [p \in Orders |-> RowsOf(outbox[p])]
      /\ AnnouncedRows' = [p \in Orders |-> RowsOf(outbox'[p])]
  BY DEF AnnouncedRows, RowsOf
<1>3. AnnouncedRows' = [AnnouncedRows EXCEPT ![o] = Append(@, row)]
  <2>1. RowsOf(outbox'[o]) = Append(RowsOf(outbox[o]), row)
    BY <1>0, <1>1, RowsOfAppend DEF TypeOK
  <2>2. \A p \in Orders \ {o} : outbox'[p] = outbox[p]
    BY <1>0 DEF TypeOK
  <2>3. AnnouncedRows[o] = RowsOf(outbox[o])
    BY <1>2
  <2>4. \A p \in Orders : RowsOf(outbox'[p]) =
           IF p = o THEN Append(RowsOf(outbox[o]), row) ELSE RowsOf(outbox[p])
    <3> TAKE p \in Orders
    <3>1. CASE p = o
      BY <2>1, <3>1, Zenon
    <3>2. CASE p # o
      <4>1. outbox'[p] = outbox[p]
        BY <2>2, <3>2
      <4>2. RowsOf(outbox'[p]) = RowsOf(outbox[p])
        BY <4>1, Zenon
      <4> QED
        BY <3>2, <4>2
    <3> QED
      BY <3>1, <3>2
  <2>5. [AnnouncedRows EXCEPT ![o] = Append(@, row)] =
           [p \in Orders |-> IF p = o THEN Append(RowsOf(outbox[o]), row)
                            ELSE RowsOf(outbox[p])]
    BY <1>2, <2>3
  <2> QED
    BY <1>2, <2>4, <2>5
<1>4. Lifecycle!Announce(o, row)
  BY <1>3 DEF Lifecycle!Announce
<1>5. CASE orders[o].status = "none"
  BY <1>4, <1>5 DEF Lifecycle!LifecycleNext, Lifecycle!Place, Lifecycle!Unplaced, NoRow
<1>6. CASE orders[o].status # "none"
  <2>1. ValidChange(orders[o], row) /\ orders[o] \in Row
    BY <1>0, <1>6 DEF TypeOK, NoRow
  <2>2. row.status \in OrderStatus \ {"created"}
    BY <2>1, TransitionTable DEF ValidChange
  <2>3. CASE row.status = "waiting_for_courier"
    <3>1. /\ orders[o].status \in {"created", "courier_assigned"}
          /\ row.courier_id \in {orders[o].courier_id, NoCourier}
          /\ row = [orders[o] EXCEPT !.status = "waiting_for_courier",
                                     !.courier_id = row.courier_id]
      BY <2>1, <2>3, TransitionTable DEF ValidChange, Row
    <3> QED
      BY <1>4, <3>1 DEF Lifecycle!LifecycleNext, Lifecycle!Wait
  <2>4. CASE row.status = "courier_assigned"
    <3>1. /\ orders[o].status \in {"created", "waiting_for_courier"}
          /\ row.courier_id \in Couriers
          /\ row = [orders[o] EXCEPT !.status = "courier_assigned",
                                     !.courier_id = row.courier_id]
      BY <2>1, <2>4, TransitionTable DEF ValidChange, NeedsCourier, Row
    <3> QED
      BY <1>4, <3>1 DEF Lifecycle!LifecycleNext, Lifecycle!Assign
  <2>5. CASE row.status = "in_delivery"
    <3>1. /\ orders[o].status = "courier_assigned"
          /\ row.courier_id \in Couriers
          /\ row = [orders[o] EXCEPT !.status = "in_delivery",
                                     !.courier_id = row.courier_id]
      BY <2>1, <2>5, TransitionTable DEF ValidChange, NeedsCourier, Row
    <3> QED
      BY <1>4, <3>1 DEF Lifecycle!LifecycleNext, Lifecycle!Start
  <2>6. CASE row.status = "delivered"
    <3>1. /\ orders[o].status = "in_delivery"
          /\ row = [orders[o] EXCEPT !.status = "delivered"]
      BY <2>1, <2>6, TransitionTable DEF ValidChange, Row
    <3> QED
      BY <1>4, <3>1 DEF Lifecycle!LifecycleNext, Lifecycle!Deliver
  <2>7. CASE row.status = "cancelled"
    <3>1. /\ orders[o].status \in
                {"created", "waiting_for_courier", "courier_assigned"}
          /\ row.cancelled_at \in BOOLEAN
          /\ row = [orders[o] EXCEPT !.status = "cancelled",
                                     !.cancelled_at = row.cancelled_at]
      BY <2>1, <2>7, TransitionTable DEF ValidChange, Row
    <3>2. \E at \in BOOLEAN :
            row = [orders[o] EXCEPT !.status = "cancelled", !.cancelled_at = at]
      BY <3>1
    <3>3. Lifecycle!Cancel(o)
      BY <1>4, <3>1, <3>2 DEF Lifecycle!Cancel
    <3> QED
      BY <3>3 DEF Lifecycle!LifecycleNext
  <2> QED
    BY <2>2, <2>3, <2>4, <2>5, <2>6, <2>7 DEF OrderStatus
<1> QED
  BY <1>5, <1>6

\* With one transaction per order the service is the life cycle that the
\* readers of its topic rely on.
THEOREM ServiceImplementsLifecycle == SerialSpec => ImplementsLifecycle
<1>1. Init => Lifecycle!LifecycleInit
  BY DEF Init, Lifecycle!LifecycleInit, Lifecycle!Unplaced, AnnouncedRows, NoRow
<1>2. HistoryInv /\ SerialInv /\ [Next /\ OneTxnPerOrder']_vars
        => [Lifecycle!LifecycleNext]_<<orders, AnnouncedRows>>
  <2> SUFFICES ASSUME HistoryInv, SerialInv, [Next]_vars
               PROVE  [Lifecycle!LifecycleNext]_<<orders, AnnouncedRows>>
    OBVIOUS
  <2>0. TypeOK
    BY DEF HistoryInv, TypeInv
  <2>1. ASSUME NEW o \in Orders, create_order(o)
        PROVE  Lifecycle!LifecycleNext
    <3> DEFINE row == [NoRow EXCEPT !.status = "created"]
               m == [event_type |-> "order_created", order |-> row]
    <3>1. row \in Row /\ m \in OrderMessage /\ m.order = row
      BY DEF NoRow, Row, OrderStatus, OrderMessage, EventTypes
    <3>2. /\ orders[o].status = "none"
          /\ orders' = [orders EXCEPT ![o] = row]
          /\ outbox' = [outbox EXCEPT ![o] = Append(@, m)]
      BY <2>1 DEF create_order, add_outbox_event
    <3> HIDE DEF m
    <3> QED
      BY <3>1, <3>2, CommitIsLifecycleStep
  <2>2. ASSUME NEW s \in Sessions, Commit(s)
        PROVE  Lifecycle!LifecycleNext
    <3>1. PICK o \in Orders, row \in Row, m \in OrderMessage :
             /\ ValidChange(orders[o], row)
             /\ m.order = row
             /\ orders' = [orders EXCEPT ![o] = row]
             /\ outbox' = [outbox EXCEPT ![o] = Append(@, m)]
      BY <2>2, SerialCommit DEF SerialInv
    <3>2. orders[o].status # "none"
      BY <3>1 DEF ValidChange, OrderStatus
    <3> QED
      BY <3>1, <3>2, CommitIsLifecycleStep
  <2>3. CASE UNCHANGED <<orders, outbox>>
    BY <2>3 DEF AnnouncedRows
  <2>4. CASE ValidStage \/ (\E s \in Sessions : Rollback(s)) \/ UNCHANGED vars
    BY <2>3, <2>4 DEF ValidStage, Stage, Rollback, vars
  <2> QED
    BY <2>0, <2>1, <2>2, <2>4, HandlersStage DEF StepKinds
<1> QED
  BY <1>1, <1>2, SerialInvariant, PTL
     DEF SerialSpec, ImplementsLifecycle, Lifecycle!LifecycleSpec

\* With one transaction per order the status moves along the table only.
THEOREM SerialTransitionsValidated == SerialSpec => StatusTransitionsValidated
<1>1. HistoryInv /\ SerialInv /\ [Next /\ OneTxnPerOrder']_vars
        => [\A o \in Orders :
              orders[o].status \in OrderStatus =>
                 \/ orders'[o].status = orders[o].status
                 \/ orders'[o].status
                       \in ALLOWED_STATUS_TRANSITIONS[orders[o].status]]_vars
  <2> SUFFICES ASSUME HistoryInv, SerialInv, [Next]_vars, NEW p \in Orders,
                      orders[p].status \in OrderStatus
               PROVE  \/ orders'[p].status = orders[p].status
                      \/ orders'[p].status
                            \in ALLOWED_STATUS_TRANSITIONS[orders[p].status]
    BY DEF vars
  <2>0. TypeOK
    BY DEF HistoryInv, TypeInv
  <2>1. ASSUME NEW o \in Orders, create_order(o)
        PROVE  orders'[p] = orders[p]
    <3>1. PICK row \in Row : /\ orders[o].status = "none"
                             /\ orders' = [orders EXCEPT ![o] = row]
      BY <2>1, CreateOrderWrites
    <3> QED
      BY <2>0, <3>1 DEF TypeOK, OrderStatus
  <2>2. ASSUME NEW s \in Sessions, Commit(s)
        PROVE  \/ orders'[p] = orders[p]
               \/ orders'[p].status
                     \in ALLOWED_STATUS_TRANSITIONS[orders[p].status]
    <3>1. PICK o \in Orders, row \in Row :
             /\ ValidChange(orders[o], row)
             /\ orders' = [orders EXCEPT ![o] = row]
      BY <2>2, SerialCommit DEF SerialInv
    <3> QED
      BY <2>0, <3>1 DEF TypeOK, ValidChange
  <2>3. CASE ValidStage \/ (\E s \in Sessions : Rollback(s)) \/ UNCHANGED vars
    BY <2>3 DEF ValidStage, Stage, Rollback, vars
  <2> QED
    BY <2>0, <2>1, <2>2, <2>3, HandlersStage DEF StepKinds
<1> QED
  BY <1>1, SerialInvariant, PTL DEF SerialSpec, StatusTransitionsValidated
=============================================================================
