------------------------- MODULE CourierServiceProofs -------------------------
(***************************************************************************)
(* Proofs about the courier service, for any sets of couriers, orders,     *)
(* assignments and sessions.                                               *)
(*                                                                         *)
(* Until it commits, a handler only changes its own transaction.  StepKinds*)
(* puts Next in terms of this, so that an invariant has five kinds of step:*)
(* create_courier, Goes, and the three commits.                            *)
(***************************************************************************)
EXTENDS CourierService, FiniteSetTheorems, SequenceTheorems, TLAPS

-----------------------------------------------------------------------------
(* What an open transaction holds.                                         *)

\* t changes a courier by hand, is to assign one, or moves an assignment.
ByHand(t) == t.next = "commit" /\ t.status = "none" /\ t.assignment = None

Assigns(t) ==
    /\ t.next \in {"available", "existing", "commit"}
    /\ t.status = "assigned" /\ t.assignment = None /\ t.order \in Orders
    /\ t.next = "available" <=> t.courier = None
    /\ t.next # "available" => /\ t.read.availability = "online"
                               /\ t.write.availability = "busy"
                               /\ t.write.is_active = t.read.is_active

Moves(t) ==
    /\ t.next \in {"courier", "commit"}
    /\ t.status \in AssignmentStatus /\ t.assignment \in Assignments
    /\ t.order \in Orders /\ t.courier \in Couriers
    /\ t.next = "commit" =>
          /\ t.write.availability = IF t.status \in TERMINAL_ASSIGNMENT_STATUSES
                                    THEN "online" ELSE t.read.availability
          /\ t.write.is_active = t.read.is_active

\* Whatever commits meanwhile: the rows that t names are there, and an
\* assignment keeps its courier and its order.
Holds(t) ==
    /\ ByHand(t) \/ Assigns(t) \/ Moves(t)
    /\ t.next \in {"existing", "commit"} =>
          t.courier \in Couriers /\ t.read \in Courier /\ t.write \in Courier
    /\ t.courier # None => couriers[t.courier] \in Courier
    /\ t.assignment # None =>
          /\ assignments[t.assignment] \in Assignment
          /\ assignments[t.assignment].courier_id = t.courier
          /\ assignments[t.assignment].order_id = t.order

\* Only if nothing relevant commits meanwhile: what t read is still so.
Fresh(t) ==
    /\ t.next \in {"existing", "commit"} => t.read = couriers[t.courier]
    /\ t.next \in {"available", "commit"} /\ t.status # "none" /\ t.assignment = None
          => ~HasAssignment(t.order)
    /\ t.assignment # None =>
          t.status \in ALLOWED_ASSIGNMENT_TRANSITIONS[assignments[t.assignment].status]

\* A handler begins, goes on or gives up.
Goes(s, t) ==
    /\ Continue(s, t)
    /\ \/ t = NoTxn
       \/ /\ t \in Txn
          /\ Holds(t)
          /\ (txn[s] = NoTxn \/ Fresh(txn[s])) => Fresh(t)

StepKinds ==
    \/ \E c \in Couriers : create_courier(c)
    \/ \E s \in Sessions :
          \/ \E t : Goes(s, t)
          \/ CommitCourier(s)
          \/ \E a \in Assignments : CommitAssignment(s, a)
          \/ CommitStatus(s)

TypeInv ==
    /\ TypeOK
    /\ \A s \in Sessions : txn[s] # NoTxn => Holds(txn[s])
    /\ \A a \in Assignments :
          assignments[a] # NoAssignmentRow => couriers[assignments[a].courier_id] \in Courier

\* Rows are there or they are not.
LEMMA Rows ==
    ASSUME TypeOK
    PROVE  /\ NoCourierRow \notin Courier
           /\ \A c \in Couriers : /\ couriers[c] \in Courier \/ couriers[c] = NoCourierRow
                                  /\ Exists(c) <=> couriers[c] \in Courier
           /\ \A a \in Assignments :
                 /\ assignments[a] \in Assignment \/ assignments[a] = NoAssignmentRow
                 /\ assignments[a] # NoAssignmentRow <=> assignments[a] \in Assignment
                 /\ assignments[a].order_id \in Orders => assignments[a] \in Assignment
                 /\ assignments[a].courier_id \in Couriers => assignments[a] \in Assignment
                 /\ assignments[a].status \in AssignmentStatus => assignments[a] \in Assignment
           /\ \A s \in Sessions : txn[s] # NoTxn => txn[s] \in Txn
BY SentinelAssumption
DEF TypeOK, Exists, Courier, NoCourierRow, CourierAvailability, Assignment,
    NoAssignmentRow, AssignmentStatus

\* Every step of a handler before its commit is one of Goes.
LEMMA HandlersGo ==
    ASSUME TypeInv, Next
    PROVE  StepKinds
<1> USE Rows, SentinelAssumption DEF TypeInv
<1>1. ASSUME NEW s \in Sessions, NEW c \in Couriers, NEW b \in BOOLEAN,
             update_courier(s, c, b)
      PROVE  \E t : Goes(s, t)
  <2> DEFINE t == [Blank EXCEPT !.courier = c, !.read = couriers[c],
                                !.write = [couriers[c] EXCEPT !.is_active = b]]
  <2>1. couriers[c] \in Courier /\ t.write \in Courier
    BY <1>1 DEF update_courier, Courier, Blank
  <2>2. /\ t.next = "commit" /\ t.status = "none" /\ t.assignment = None
        /\ t.courier = c /\ t.read = couriers[c] /\ t.order = None
    BY DEF Blank
  <2>3. t \in Txn
    BY <2>1, <2>2 DEF Txn, Blank
  <2>4. Holds(t) /\ Fresh(t)
    BY <2>1, <2>2 DEF Holds, Fresh, ByHand
  <2> QED
    BY <1>1, <2>3, <2>4 DEF update_courier, Goes
<1>2. ASSUME NEW s \in Sessions, NEW c \in Couriers, NEW v \in CourierAvailability,
             change_availability(s, c, v)
      PROVE  \E t : Goes(s, t)
  <2> DEFINE t == [Blank EXCEPT !.courier = c, !.read = couriers[c],
                                !.write = [couriers[c] EXCEPT !.availability = v]]
  <2>1. couriers[c] \in Courier /\ t.write \in Courier
    BY <1>2 DEF change_availability, Courier, Blank
  <2>2. /\ t.next = "commit" /\ t.status = "none" /\ t.assignment = None
        /\ t.courier = c /\ t.read = couriers[c] /\ t.order = None
    BY DEF Blank
  <2>3. t \in Txn
    BY <2>1, <2>2 DEF Txn, Blank
  <2>4. Holds(t) /\ Fresh(t)
    BY <2>1, <2>2 DEF Holds, Fresh, ByHand
  <2> QED
    BY <1>2, <2>3, <2>4 DEF change_availability, Goes
<1>3. ASSUME NEW s \in Sessions, NEW c \in Couriers, NEW o \in Orders,
             assign_courier(s, c, o)
      PROVE  \E t : Goes(s, t)
  <2> DEFINE t == [Blank EXCEPT !.next = "existing", !.courier = c, !.order = o,
                    !.read = couriers[c],
                    !.write = [couriers[c] EXCEPT !.availability = "busy"],
                    !.status = "assigned"]
  <2>1. /\ couriers[c] \in Courier /\ t.write \in Courier
        /\ couriers[c].availability = "online"
        /\ t.write.availability = "busy" /\ t.write.is_active = couriers[c].is_active
    BY <1>3 DEF assign_courier, Available, Courier, CourierAvailability, Blank
  <2>2. /\ t.next = "existing" /\ t.status = "assigned" /\ t.assignment = None
        /\ t.courier = c /\ t.read = couriers[c] /\ t.order = o
    BY DEF Blank
  <2>3. t \in Txn
    BY <2>1, <2>2 DEF Txn, Blank, AssignmentStatus
  <2>4. Holds(t) /\ Fresh(t)
    BY <2>1, <2>2 DEF Holds, Fresh, Assigns
  <2> QED
    BY <1>3, <2>3, <2>4 DEF assign_courier, Goes
<1>4. ASSUME NEW s \in Sessions, assign_courier_existing(s)
      PROVE  \E t : Goes(s, t)
  <2>1. CASE HasAssignment(txn[s].order)
    BY <1>4, <2>1 DEF assign_courier_existing, Close, Goes
  <2>2. CASE ~HasAssignment(txn[s].order)
    <3> DEFINE t == [txn[s] EXCEPT !.next = "commit"]
    <3>1. txn[s] \in Txn /\ Holds(txn[s]) /\ txn[s].next = "existing" /\ Continue(s, t)
      BY <1>4, <2>2 DEF assign_courier_existing
    <3>2. /\ t \in Txn /\ t.next = "commit" /\ t.status = txn[s].status
          /\ t.assignment = txn[s].assignment /\ t.courier = txn[s].courier
          /\ t.order = txn[s].order /\ t.read = txn[s].read /\ t.write = txn[s].write
      BY <3>1 DEF Txn
    <3> HIDE DEF t
    <3>3. Holds(t)
      BY <3>1, <3>2 DEF Holds, ByHand, Assigns, Moves
    <3>4. Fresh(txn[s]) => Fresh(t)
      BY <2>2, <3>1, <3>2 DEF Fresh
    <3> QED
      BY <1>4, <3>1, <3>2, <3>3, <3>4 DEF Goes, assign_courier_existing
  <2> QED
    BY <2>1, <2>2
<1>5. ASSUME NEW s \in Sessions, NEW a \in Assignments, NEW target \in AssignmentStatus,
             update_assignment_status(s, a, target)
      PROVE  \E t : Goes(s, t)
  <2> DEFINE t == [Blank EXCEPT !.next = "courier",
                    !.courier = assignments[a].courier_id,
                    !.order = assignments[a].order_id,
                    !.assignment = a, !.status = target]
  <2>1. /\ assignments[a] \in Assignment
        /\ assignments[a].courier_id \in Couriers /\ assignments[a].order_id \in Orders
        /\ couriers[assignments[a].courier_id] \in Courier
        /\ target \in ALLOWED_ASSIGNMENT_TRANSITIONS[assignments[a].status]
    BY <1>5 DEF update_assignment_status, Assignment
  <2>2. /\ t.next = "courier" /\ t.status = target /\ t.assignment = a
        /\ t.courier = assignments[a].courier_id /\ t.order = assignments[a].order_id
    BY DEF Blank
  <2>3. t \in Txn
    BY <2>1, <2>2 DEF Txn, Blank
  <2>4. Holds(t) /\ Fresh(t)
    BY <2>1, <2>2 DEF Holds, Fresh, Moves
  <2> QED
    BY <1>5, <2>3, <2>4 DEF update_assignment_status, Goes
<1>6. ASSUME NEW s \in Sessions, update_assignment_status_courier(s)
      PROVE  \E t : Goes(s, t)
  <2> DEFINE u == txn[s]
             row == couriers[u.courier]
             w == IF u.status \in TERMINAL_ASSIGNMENT_STATUSES
                  THEN [row EXCEPT !.availability = "online"] ELSE row
             t == [u EXCEPT !.next = "commit", !.read = row, !.write = w]
  <2>1. u \in Txn /\ Holds(u) /\ u.next = "courier" /\ Continue(s, t)
    BY <1>6 DEF update_assignment_status_courier
  <2>2. Moves(u) /\ row \in Courier
    BY <2>1 DEF Holds, ByHand, Assigns, Moves
  <2>3. /\ w \in Courier /\ w.is_active = row.is_active
        /\ w.availability = IF u.status \in TERMINAL_ASSIGNMENT_STATUSES
                            THEN "online" ELSE row.availability
    BY <2>2 DEF Courier, CourierAvailability
  <2> HIDE DEF row, w
  <2>4. /\ t \in Txn /\ t.next = "commit" /\ t.status = u.status
        /\ t.assignment = u.assignment /\ t.courier = u.courier
        /\ t.order = u.order /\ t.read = row /\ t.write = w
    BY <2>1, <2>2, <2>3 DEF Txn
  <2> HIDE DEF t
  <2>5. Holds(t)
    BY <2>1, <2>2, <2>3, <2>4 DEF Holds, Moves
  <2>6. Fresh(u) => Fresh(t)
    BY <2>1, <2>2, <2>4 DEF Fresh, Moves, row
  <2> QED
    BY <1>6, <2>1, <2>4, <2>5, <2>6 DEF Goes, update_assignment_status_courier
<1>7. ASSUME NEW s \in Sessions, NEW o \in Orders, auto_assign_order(s, o)
      PROVE  \E t : Goes(s, t)
  <2> DEFINE t == [Blank EXCEPT !.next = "available", !.order = o, !.status = "assigned"]
  <2>1. /\ t.next = "available" /\ t.status = "assigned" /\ t.assignment = None
        /\ t.courier = None /\ t.order = o
    BY DEF Blank
  <2>2. t \in Txn
    BY <2>1 DEF Txn, Blank, AssignmentStatus
  <2>3. Holds(t) /\ Fresh(t)
    BY <1>7, <2>1 DEF Holds, Fresh, Assigns, auto_assign_order
  <2> QED
    BY <1>7, <2>2, <2>3 DEF auto_assign_order, Goes
<1>8. ASSUME NEW s \in Sessions, find_available_courier(s)
      PROVE  \E t : Goes(s, t)
  <2>1. CASE Close(s)
    BY <2>1 DEF Close, Goes
  <2>2. ASSUME NEW c \in Couriers, Available(c),
               Continue(s, [txn[s] EXCEPT !.next = "commit", !.courier = c,
                               !.read = couriers[c],
                               !.write = [couriers[c] EXCEPT !.availability = "busy"]])
        PROVE  \E t : Goes(s, t)
    <3> DEFINE u == txn[s]
               w == [couriers[c] EXCEPT !.availability = "busy"]
               t == [u EXCEPT !.next = "commit", !.courier = c,
                              !.read = couriers[c], !.write = w]
    <3>1. u \in Txn /\ Holds(u) /\ u.next = "available" /\ Continue(s, t)
      BY <1>8, <2>2 DEF find_available_courier
    <3>2. Assigns(u)
      BY <3>1 DEF Holds, ByHand, Assigns, Moves
    <3>3. /\ couriers[c] \in Courier /\ couriers[c].availability = "online"
          /\ w \in Courier /\ w.availability = "busy" /\ w.is_active = couriers[c].is_active
      BY <2>2 DEF Available, Courier, CourierAvailability
    <3> HIDE DEF w
    <3>4. /\ t \in Txn /\ t.next = "commit" /\ t.status = u.status
          /\ t.assignment = u.assignment /\ t.courier = c
          /\ t.order = u.order /\ t.read = couriers[c] /\ t.write = w
      BY <3>1, <3>3 DEF Txn
    <3> HIDE DEF t
    <3>5. Holds(t)
      BY <3>2, <3>3, <3>4 DEF Holds, Assigns
    <3>6. Fresh(u) => Fresh(t)
      BY <3>1, <3>2, <3>4 DEF Fresh, Assigns
    <3> QED
      BY <1>8, <3>1, <3>4, <3>5, <3>6 DEF Goes, find_available_courier
  <2> QED
    BY <1>8, <2>1, <2>2 DEF find_available_courier
<1>9. ASSUME NEW s \in Sessions, Rollback(s)
      PROVE  \E t : Goes(s, t)
  BY <1>9 DEF Rollback, Close, Goes
<1> QED
  BY <1>1, <1>2, <1>3, <1>4, <1>5, <1>6, <1>7, <1>8, <1>9 DEF Next, StepKinds

-----------------------------------------------------------------------------
(* Type correctness.                                                       *)

\* Columns written by a transaction leave a row a row; without interference
\* they make it the row that the transaction means to write.
LEMMA UpdateInType ==
    ASSUME NEW row \in Courier, NEW t, t.read \in Courier, t.write \in Courier
    PROVE  /\ UpdateChangedColumns(row, t) \in Courier
           /\ row = t.read => UpdateChangedColumns(row, t) = t.write
BY DEF UpdateChangedColumns, Courier

\* A commit writes one courier, and those who are there stay there.
LEMMA WriteInType ==
    ASSUME TypeOK, NEW t \in Txn, Holds(t), t.next = "commit", WriteCourier(t)
    PROVE  /\ t.courier \in Couriers
           /\ couriers[t.courier] \in Courier
           /\ couriers' \in [Couriers -> Courier \cup {NoCourierRow}]
           /\ \A c \in Couriers : couriers[c] \in Courier => couriers'[c] \in Courier
           /\ \A c \in Couriers : c # t.courier => couriers'[c] = couriers[c]
           /\ couriers'[t.courier] = UpdateChangedColumns(couriers[t.courier], t)
<1>1. /\ t.courier \in Couriers /\ t.read \in Courier /\ t.write \in Courier
      /\ couriers[t.courier] \in Courier
  BY SentinelAssumption DEF Holds
<1>2. UpdateChangedColumns(couriers[t.courier], t) \in Courier
  BY <1>1, UpdateInType
<1>3. couriers' = [couriers EXCEPT ![t.courier] =
                      UpdateChangedColumns(couriers[t.courier], t)]
  BY DEF WriteCourier
<1> HIDE DEF WriteCourier
<1> QED
  BY <1>1, <1>2, <1>3 DEF TypeOK

\* The shapes of transactions that a commit finds.
LEMMA Commits ==
    ASSUME TypeInv, NEW s \in Sessions
    PROVE  /\ CommitCourier(s) => /\ txn[s] \in Txn /\ Holds(txn[s])
                                  /\ txn[s].next = "commit" /\ ByHand(txn[s])
           /\ \A a \in Assignments :
                 CommitAssignment(s, a) => /\ txn[s] \in Txn /\ Holds(txn[s])
                                           /\ txn[s].next = "commit" /\ Assigns(txn[s])
           /\ CommitStatus(s) => /\ txn[s] \in Txn /\ Holds(txn[s])
                                 /\ txn[s].next = "commit" /\ Moves(txn[s])
BY Rows, SentinelAssumption
DEF TypeInv, Holds, CommitCourier, CommitAssignment, CommitStatus, ByHand, Assigns, Moves,
    AssignmentStatus

\* What a transaction holds, it holds while the rows it names are there.
LEMMA HoldsOn ==
    ASSUME NEW t, Holds(t), t.courier \in Couriers \cup {None},
           t.assignment \in Assignments \cup {None},
           \A c \in Couriers : couriers[c] \in Courier => couriers'[c] \in Courier,
           \A a \in Assignments : assignments[a] \in Assignment
              => /\ assignments'[a] \in Assignment
                 /\ assignments'[a].courier_id = assignments[a].courier_id
                 /\ assignments'[a].order_id = assignments[a].order_id
    PROVE  Holds(t)'
<1>1. t.courier # None => couriers'[t.courier] \in Courier
  BY DEF Holds
<1>2. t.assignment # None =>
         /\ assignments'[t.assignment] \in Assignment
         /\ assignments'[t.assignment].courier_id = t.courier
         /\ assignments'[t.assignment].order_id = t.order
  BY DEF Holds
<1> QED
  BY <1>1, <1>2 DEF Holds, ByHand, Assigns, Moves

\* TypeInv is inductive.
LEMMA TypeInvInductive ==
    /\ Init => TypeInv
    /\ TypeInv /\ [Next]_vars => TypeInv'
<1>1. Init => TypeInv
  BY EmptySeq DEF Init, TypeInv, TypeOK
<1>2. TypeInv /\ [Next]_vars => TypeInv'
  <2> SUFFICES ASSUME TypeInv, [Next]_vars
               PROVE  TypeInv'
    OBVIOUS
  <2> USE SentinelAssumption
  <2>t. TypeOK
    BY DEF TypeInv
  <2> DEFINE CouriersStay == \A c \in Couriers :
                                couriers[c] \in Courier => couriers'[c] \in Courier
             AssignmentsStay == \A a \in Assignments : assignments[a] \in Assignment
                => /\ assignments'[a] \in Assignment
                   /\ assignments'[a].courier_id = assignments[a].courier_id
                   /\ assignments'[a].order_id = assignments[a].order_id
             Others(s) == /\ txn'[s] = NoTxn
                          /\ \A q \in Sessions : q # s => txn'[q] = txn[q]
  <2>h. ASSUME NEW q \in Sessions, txn'[q] = txn[q], CouriersStay, AssignmentsStay,
               txn'[q] # NoTxn
        PROVE  Holds(txn[q])'
    <3>1. \A t : t = txn[q] /\ t \in Txn /\ Holds(t) => Holds(t)'
      BY <2>h, HoldsOn DEF Txn
    <3>2. txn[q] \in Txn /\ Holds(txn[q])
      BY <2>h, <2>t DEF TypeInv, TypeOK
    <3>3. \A t : t = txn'[q] => Holds(t)'
      BY <3>1, <3>2, <2>h
    <3> QED
      BY <3>3
  <2>1. ASSUME NEW c \in Couriers, create_courier(c)
        PROVE  TypeInv'
    <3>1. /\ couriers' \in [Couriers -> Courier \cup {NoCourierRow}]
          /\ CouriersStay /\ AssignmentsStay
          /\ UNCHANGED <<assignments, outbox, txn, overridden>>
      BY <2>1, <2>t DEF create_courier, TypeOK, Exists, Courier, CourierAvailability
    <3>2. TypeOK'
      BY <3>1, <2>t DEF TypeOK
    <3>3. \A s \in Sessions : txn'[s] # NoTxn => Holds(txn[s])'
      BY <3>1, <2>h
    <3>4. \A a \in Assignments : assignments'[a] # NoAssignmentRow =>
              couriers'[assignments'[a].courier_id] \in Courier
      BY <3>1, <2>t, Rows DEF TypeInv, Assignment
    <3> QED
      BY <3>2, <3>3, <3>4 DEF TypeInv
  <2>2. ASSUME NEW s \in Sessions, NEW t, Goes(s, t)
        PROVE  TypeInv'
    <3>1. /\ txn' = [txn EXCEPT ![s] = t] /\ t \in Txn \cup {NoTxn}
          /\ UNCHANGED <<couriers, assignments, outbox, overridden>>
          /\ t # NoTxn => Holds(t)
      BY <2>2 DEF Goes, Continue
    <3>2. TypeOK' /\ txn'[s] = t
      BY <3>1, <2>t DEF TypeOK
    <3>3. ASSUME NEW q \in Sessions, txn'[q] # NoTxn
          PROVE  Holds(txn[q])'
      <4>1. CASE q = s
        <5>1. \A u : u = txn'[q] => Holds(u)'
          BY <3>1, <3>2, <3>3, <4>1 DEF Holds, ByHand, Assigns, Moves
        <5> QED
          BY <5>1
      <4>2. CASE q # s
        BY <3>1, <3>3, <4>2, <2>t, <2>h DEF TypeOK
      <4> QED
        BY <4>1, <4>2
    <3>4. \A a \in Assignments : assignments'[a] # NoAssignmentRow =>
              couriers'[assignments'[a].courier_id] \in Courier
      BY <3>1 DEF TypeInv
    <3> QED
      BY <3>2, <3>3, <3>4 DEF TypeInv
  <2>3. ASSUME NEW s \in Sessions, CommitCourier(s)
        PROVE  TypeInv'
    <3>1. /\ txn[s] \in Txn /\ Holds(txn[s]) /\ txn[s].next = "commit"
          /\ WriteCourier(txn[s])
          /\ UNCHANGED <<assignments, outbox>> /\ txn' = [txn EXCEPT ![s] = NoTxn]
          /\ overridden' \in {overridden, overridden \cup {txn[s].courier}}
      BY <2>3, Commits DEF CommitCourier
    <3>2. /\ couriers' \in [Couriers -> Courier \cup {NoCourierRow}]
          /\ CouriersStay /\ AssignmentsStay /\ txn[s].courier \in Couriers
      BY <3>1, <2>t, WriteInType
    <3>3. Others(s)
      BY <3>1, <2>t DEF TypeOK
    <3>4. TypeOK'
      BY <3>1, <3>2, <2>t DEF TypeOK
    <3>5. \A q \in Sessions : txn'[q] # NoTxn => Holds(txn[q])'
      BY <3>2, <3>3, <2>h
    <3>6. \A a \in Assignments : assignments'[a] # NoAssignmentRow =>
              couriers'[assignments'[a].courier_id] \in Courier
      BY <3>1, <3>2, <2>t, Rows DEF TypeInv, Assignment
    <3> QED
      BY <3>4, <3>5, <3>6 DEF TypeInv
  <2>4. ASSUME NEW s \in Sessions, NEW a \in Assignments, CommitAssignment(s, a)
        PROVE  TypeInv'
    <3> DEFINE row == [courier_id |-> txn[s].courier, order_id |-> txn[s].order,
                       status |-> txn[s].status]
    <3>1. /\ txn[s] \in Txn /\ Holds(txn[s]) /\ txn[s].next = "commit" /\ Assigns(txn[s])
          /\ WriteCourier(txn[s]) /\ assignments[a] = NoAssignmentRow
          /\ assignments' = [assignments EXCEPT ![a] = row]
          /\ outbox' = [outbox EXCEPT ![a] = Append(@, txn[s].status)]
          /\ txn' = [txn EXCEPT ![s] = NoTxn] /\ UNCHANGED overridden
      BY <2>4, Commits DEF CommitAssignment
    <3>2. /\ couriers' \in [Couriers -> Courier \cup {NoCourierRow}]
          /\ CouriersStay /\ txn[s].courier \in Couriers
          /\ couriers[txn[s].courier] \in Courier
      BY <3>1, <2>t, WriteInType
    <3>3. Others(s)
      BY <3>1, <2>t DEF TypeOK
    <3>4. row \in Assignment /\ txn[s].status \in AssignmentStatus
      BY <3>1, <3>2 DEF Assigns, Assignment, AssignmentStatus
    <3> HIDE DEF row
    <3>5. AssignmentsStay
      BY <3>1, <2>t, Rows DEF TypeOK
    <3>6. TypeOK'
      <4>1. Append(outbox[a], txn[s].status) \in Seq(AssignmentStatus)
        BY <3>4, <2>t, AppendProperties DEF TypeOK
      <4> QED
        BY <3>1, <3>2, <3>4, <4>1, <2>t DEF TypeOK
    <3>7. \A q \in Sessions : txn'[q] # NoTxn => Holds(txn[q])'
      BY <3>2, <3>3, <3>5, <2>h
    <3>8. \A b \in Assignments : assignments'[b] # NoAssignmentRow =>
              couriers'[assignments'[b].courier_id] \in Courier
      <4>1. couriers'[row.courier_id] \in Courier
        BY <3>2 DEF row
      <4> QED
        BY <3>1, <3>2, <4>1, <2>t, Rows DEF TypeInv, TypeOK, Assignment
    <3> QED
      BY <3>6, <3>7, <3>8 DEF TypeInv
  <2>5. ASSUME NEW s \in Sessions, CommitStatus(s)
        PROVE  TypeInv'
    <3> DEFINE a == txn[s].assignment
               row == [assignments[a] EXCEPT !.status = txn[s].status]
    <3>1. /\ txn[s] \in Txn /\ Holds(txn[s]) /\ txn[s].next = "commit" /\ Moves(txn[s])
          /\ WriteCourier(txn[s])
          /\ assignments' = [assignments EXCEPT ![a] = row]
          /\ outbox' = [outbox EXCEPT ![a] = Append(@, txn[s].status)]
          /\ txn' = [txn EXCEPT ![s] = NoTxn] /\ UNCHANGED overridden
      BY <2>5, Commits DEF CommitStatus
    <3>2. /\ couriers' \in [Couriers -> Courier \cup {NoCourierRow}]
          /\ CouriersStay
      BY <3>1, <2>t, WriteInType
    <3>3. Others(s)
      BY <3>1, <2>t DEF TypeOK
    <3>4. /\ a \in Assignments /\ txn[s].status \in AssignmentStatus
          /\ assignments[a] \in Assignment
      BY <3>1 DEF Moves, Holds
    <3>5. /\ row \in Assignment /\ row.courier_id = assignments[a].courier_id
          /\ row.order_id = assignments[a].order_id
      BY <3>4 DEF Assignment
    <3> HIDE DEF row, a
    <3>6. AssignmentsStay
      BY <3>1, <3>4, <3>5, <2>t DEF TypeOK
    <3>7. TypeOK'
      <4>1. Append(outbox[a], txn[s].status) \in Seq(AssignmentStatus)
        BY <3>4, <2>t, AppendProperties DEF TypeOK
      <4> QED
        BY <3>1, <3>2, <3>4, <3>5, <4>1, <2>t DEF TypeOK
    <3>8. \A q \in Sessions : txn'[q] # NoTxn => Holds(txn[q])'
      BY <3>2, <3>3, <3>6, <2>h
    <3>9. \A b \in Assignments : assignments'[b] # NoAssignmentRow =>
              couriers'[assignments'[b].courier_id] \in Courier
      BY <3>1, <3>2, <3>4, <3>5, <2>t, Rows DEF TypeInv, TypeOK, Assignment
    <3> QED
      BY <3>7, <3>8, <3>9 DEF TypeInv
  <2>6. CASE UNCHANGED vars
    <3>1. \A q \in Sessions : txn'[q] # NoTxn => Holds(txn[q])'
      BY <2>6, <2>h DEF vars
    <3>2. TypeOK'
      BY <2>6, <2>t DEF vars, TypeOK
    <3> QED
      BY <2>6, <3>1, <3>2 DEF vars, TypeInv
  <2> QED
    BY <2>1, <2>2, <2>3, <2>4, <2>5, <2>6, HandlersGo DEF StepKinds
<1> QED
  BY <1>1, <1>2

\* Every variable of the courier service stays within its type, under every
\* interleaving of its handlers.
THEOREM TypeCorrect == Spec => []TypeOK
<1>1. TypeInv => TypeOK
  BY DEF TypeInv
<1> QED
  BY <1>1, TypeInvInductive, PTL DEF Spec

-----------------------------------------------------------------------------
(* Messages and rows.                                                      *)

\* A commit writes the status into the row and into a new last message.
LEMMA AnnouncedStatus ==
    ASSUME TypeOK, NEW a \in Assignments, NEW v \in AssignmentStatus,
           outbox' = [outbox EXCEPT ![a] = Append(@, v)],
           \E row : assignments' = [assignments EXCEPT ![a] = row] /\ row.status = v,
           LastMessageIsStatus
    PROVE  LastMessageIsStatus'
<1>1. /\ outbox'[a] = Append(outbox[a], v)
      /\ assignments'[a].status = v
      /\ \A b \in Assignments : b # a =>
            outbox'[b] = outbox[b] /\ assignments'[b] = assignments[b]
  BY DEF TypeOK
<1>2. /\ outbox'[a] # <<>>
      /\ outbox'[a][Len(outbox'[a])] = v
  BY <1>1, AppendProperties, LenProperties, EmptySeq DEF TypeOK
<1> QED
  BY <1>1, <1>2 DEF LastMessageIsStatus

\* Under every interleaving the last message about an assignment carries its
\* status: CommitAssignment and CommitStatus write both from the same transaction.
THEOREM StatusIsAnnounced == Spec => []LastMessageIsStatus
<1>1. Init => LastMessageIsStatus
  BY DEF Init, LastMessageIsStatus, NoAssignmentRow
<1>2. TypeInv /\ LastMessageIsStatus /\ [Next]_vars => LastMessageIsStatus'
  <2> SUFFICES ASSUME TypeInv, LastMessageIsStatus, [Next]_vars
               PROVE  LastMessageIsStatus'
    OBVIOUS
  <2>t. TypeOK
    BY DEF TypeInv
  <2>1. CASE UNCHANGED <<assignments, outbox>>
    BY <2>1 DEF LastMessageIsStatus
  <2>2. ASSUME NEW s \in Sessions, NEW a \in Assignments, CommitAssignment(s, a)
        PROVE  LastMessageIsStatus'
    <3> DEFINE v == txn[s].status
               row == [courier_id |-> txn[s].courier, order_id |-> txn[s].order,
                       status |-> v]
    <3>1. v \in AssignmentStatus /\ row.status = v
      BY <2>2, Commits DEF Assigns, AssignmentStatus
    <3>2. /\ assignments' = [assignments EXCEPT ![a] = row]
          /\ outbox' = [outbox EXCEPT ![a] = Append(@, v)]
      BY <2>2 DEF CommitAssignment
    <3> HIDE DEF row, v
    <3> QED
      BY <2>t, <3>1, <3>2, AnnouncedStatus
  <2>3. ASSUME NEW s \in Sessions, CommitStatus(s)
        PROVE  LastMessageIsStatus'
    <3> DEFINE a == txn[s].assignment
               row == [assignments[a] EXCEPT !.status = txn[s].status]
    <3>1. /\ a \in Assignments /\ txn[s].status \in AssignmentStatus
          /\ assignments[a] \in Assignment
      BY <2>3, Commits, SentinelAssumption DEF Moves, Holds
    <3>2. row.status = txn[s].status
      BY <3>1 DEF Assignment
    <3>3. /\ assignments' = [assignments EXCEPT ![a] = row]
          /\ outbox' = [outbox EXCEPT ![a] = Append(@, txn[s].status)]
      BY <2>3 DEF CommitStatus
    <3> HIDE DEF row, a
    <3> QED
      BY <2>t, <3>1, <3>2, <3>3, AnnouncedStatus
  <2>4. CASE UNCHANGED vars
    BY <2>1, <2>4 DEF vars
  <2> QED
    BY <2>1, <2>2, <2>3, <2>4, HandlersGo
    DEF StepKinds, create_courier, Goes, Continue, CommitCourier
<1> QED
  BY <1>1, <1>2, TypeInvInductive, PTL DEF Spec

-----------------------------------------------------------------------------
(* Transactions that share no courier and no order.                        *)

OneEach ==
    \A a, b \in Assignments :
        /\ assignments[a] # NoAssignmentRow /\ assignments[a].status # "cancelled"
        /\ assignments[b] # NoAssignmentRow /\ assignments[b].status # "cancelled"
        /\ assignments[a].order_id = assignments[b].order_id
        => a = b

BusyExactly ==
    \A c \in Couriers \ overridden :
        /\ \A a, b \in Active(c) : a = b
        /\ couriers[c].availability = "busy" <=> Active(c) # {}

SerialInv ==
    /\ TypeInv
    /\ NoConflict
    /\ \A s \in Sessions : txn[s] # NoTxn => Fresh(txn[s])
    /\ OneEach
    /\ BusyExactly

\* The assignments a courier works on are rows of the courier.
LEMMA ActiveRows ==
    ASSUME TypeOK, NEW c \in Couriers, NEW a
    PROVE  a \in Active(c) <=>
              /\ a \in Assignments
              /\ assignments[a] \in Assignment
              /\ assignments[a].courier_id = c
              /\ assignments[a].status \notin TERMINAL_ASSIGNMENT_STATUSES
BY Rows DEF Active

\* A commit of rows of its own courier and order leaves what every other open
\* transaction read as it was.
LEMMA OthersStayFresh ==
    ASSUME SerialInv, NEW s \in Sessions, txn[s] # NoTxn,
           txn[s].courier \in Couriers,
           txn' = [txn EXCEPT ![s] = NoTxn],
           \A c \in Couriers : c # txn[s].courier => couriers'[c] = couriers[c],
           \A a \in Assignments : assignments'[a] = assignments[a]
              \/ /\ txn[s].order \in Orders
                 /\ assignments'[a].order_id = txn[s].order
                 /\ assignments[a] \in Assignment => assignments[a].order_id = txn[s].order
    PROVE  \A q \in Sessions : txn'[q] # NoTxn => Fresh(txn[q])'
<1> USE SentinelAssumption
<1>t. TypeOK
  BY DEF SerialInv, TypeInv
<1> SUFFICES ASSUME NEW q \in Sessions, txn'[q] # NoTxn
             PROVE  Fresh(txn[q])'
  OBVIOUS
<1>1. /\ q # s /\ txn'[q] = txn[q] /\ txn[q] \in Txn
      /\ Holds(txn[q]) /\ Fresh(txn[q])
  BY <1>t DEF SerialInv, TypeInv, TypeOK
<1>2. /\ txn[q].courier # txn[s].courier
      /\ txn[s].order \in Orders => txn[q].order # txn[s].order
  BY <1>1 DEF SerialInv, NoConflict
<1>3. \A t : t = txn[q] => Fresh(t)'
  <2> SUFFICES ASSUME NEW t, t = txn[q]
               PROVE  Fresh(t)'
    OBVIOUS
  <2>1. t.next \in {"existing", "commit"} => t.read = couriers'[t.courier]
    BY <1>1, <1>2 DEF Holds, Fresh
  <2>2. ASSUME t.next \in {"available", "commit"}, t.status # "none", t.assignment = None
        PROVE  ~HasAssignment(t.order)'
    <3>1. t.order \in Orders /\ ~HasAssignment(t.order)
      BY <1>1, <2>2 DEF Holds, Fresh, ByHand, Assigns, Moves
    <3> QED
      BY <3>1, <1>2 DEF HasAssignment
  <2>3. t.assignment # None => assignments'[t.assignment] = assignments[t.assignment]
    BY <1>1, <1>2 DEF Holds, ByHand, Assigns, Moves
  <2> QED
    BY <1>1, <2>1, <2>2, <2>3 DEF Fresh
<1>4. \A t : t = txn'[q] => Fresh(t)'
  BY <1>1, <1>3
<1> QED
  BY <1>4

\* A commit of one assignment changes the work of its courier only.
LEMMA OthersKeepWork ==
    ASSUME TypeOK, NEW a \in Assignments, NEW row, NEW c \in Couriers,
           assignments' = [assignments EXCEPT ![a] = row],
           c # row.courier_id, c # assignments[a].courier_id
    PROVE  Active(c)' = Active(c)
<1>1. /\ assignments'[a] = row
      /\ \A b \in Assignments : b # a => assignments'[b] = assignments[b]
  BY DEF TypeOK
<1>2. \A b \in Assignments : assignments'[b].courier_id = c <=> assignments[b].courier_id = c
  BY <1>1
<1>3. \A b \in Assignments : assignments[b].courier_id = c => assignments'[b] = assignments[b]
  BY <1>1
<1> QED
  BY <1>2, <1>3 DEF Active

LEMMA SerialByHand ==
    ASSUME SerialInv, TypeInv', NoConflict', NEW s \in Sessions, CommitCourier(s)
    PROVE  SerialInv'
<1> DEFINE t == txn[s]
           c == t.courier
<1>t. TypeOK
  BY DEF SerialInv, TypeInv
<1>1. /\ t \in Txn /\ t # NoTxn /\ Holds(t) /\ t.next = "commit" /\ ByHand(t) /\ Fresh(t)
      /\ WriteCourier(t) /\ txn' = [txn EXCEPT ![s] = NoTxn]
      /\ UNCHANGED <<assignments, outbox>>
  BY Commits, SentinelAssumption DEF SerialInv, CommitCourier
<1>2. /\ c \in Couriers /\ couriers[c] = t.read /\ t.read \in Courier /\ t.write \in Courier
      /\ couriers'[c] = t.write
      /\ \A d \in Couriers : d # c => couriers'[d] = couriers[d]
  <2>1. /\ c \in Couriers /\ t.read \in Courier /\ t.write \in Courier
        /\ couriers[c] = t.read
    BY <1>1 DEF Holds, Fresh
  <2>2. UpdateChangedColumns(couriers[c], t) = t.write
    BY <2>1, UpdateInType
  <2> QED
    BY <1>t, <1>1, <2>1, <2>2, WriteInType
<1>3. \A q \in Sessions : txn'[q] # NoTxn => Fresh(txn[q])'
  BY <1>1, <1>2, OthersStayFresh
<1>4. OneEach'
  BY <1>1 DEF SerialInv, OneEach
<1>5. \A d : Active(d)' = Active(d)
  BY <1>1 DEF Active
<1>6. BusyExactly'
  <2> SUFFICES ASSUME NEW d \in Couriers \ overridden'
               PROVE  /\ \A a, b \in Active(d)' : a = b
                      /\ couriers'[d].availability = "busy" <=> Active(d)' # {}
    BY DEF BusyExactly
  <2>1. d \notin overridden
    BY DEF CommitCourier
  <2>2. CASE d # c
    BY <1>2, <1>5, <2>1, <2>2 DEF SerialInv, BusyExactly
  <2>3. CASE d = c /\ t.write.availability = t.read.availability
    BY <1>2, <1>5, <2>1, <2>3 DEF SerialInv, BusyExactly
  <2>4. CASE d = c /\ t.write.availability # t.read.availability
    <3>1. Active(c) = {} /\ t.write.availability # "busy"
      BY <2>4 DEF CommitCourier
    <3> QED
      BY <1>2, <1>5, <2>4, <3>1
  <2> QED
    BY <2>2, <2>3, <2>4
<1> QED
  BY <1>3, <1>4, <1>6 DEF SerialInv

LEMMA SerialAssigns ==
    ASSUME SerialInv, TypeInv', NoConflict', NEW s \in Sessions, NEW a \in Assignments,
           CommitAssignment(s, a)
    PROVE  SerialInv'
<1> USE SentinelAssumption
<1> DEFINE t == txn[s]
           c == t.courier
           row == [courier_id |-> c, order_id |-> t.order, status |-> t.status]
<1>t. TypeOK
  BY DEF SerialInv, TypeInv
<1>1. /\ t \in Txn /\ t # NoTxn /\ Holds(t) /\ t.next = "commit" /\ Assigns(t) /\ Fresh(t)
      /\ WriteCourier(t) /\ txn' = [txn EXCEPT ![s] = NoTxn]
      /\ assignments[a] = NoAssignmentRow
      /\ assignments' = [assignments EXCEPT ![a] = row]
      /\ overridden' = overridden
  BY Commits DEF SerialInv, CommitAssignment
<1>2. /\ c \in Couriers /\ t.order \in Orders /\ couriers[c] = t.read
      /\ couriers[c].availability = "online"
      /\ couriers'[c].availability = "busy"
      /\ \A d \in Couriers : d # c => couriers'[d] = couriers[d]
  <2>1. /\ c \in Couriers /\ t.read \in Courier /\ t.write \in Courier
        /\ couriers[c] = t.read /\ t.read.availability = "online"
        /\ t.write.availability = "busy" /\ t.order \in Orders
    BY <1>1 DEF Holds, Fresh, Assigns
  <2>2. UpdateChangedColumns(couriers[c], t) = t.write
    BY <2>1, UpdateInType
  <2> QED
    BY <1>t, <1>1, <2>1, <2>2, WriteInType
<1>3. /\ row.courier_id = c /\ row.order_id = t.order /\ row.status = "assigned"
      /\ row # NoAssignmentRow
      /\ assignments'[a] = row
      /\ \A b \in Assignments : b # a => assignments'[b] = assignments[b]
  BY <1>t, <1>1, <1>2 DEF TypeOK, Assigns, NoAssignmentRow
<1> HIDE DEF row
<1>4. \A q \in Sessions : txn'[q] # NoTxn => Fresh(txn[q])'
  <2>1. assignments[a] \notin Assignment
    BY <1>1 DEF Assignment, NoAssignmentRow
  <2>2. \A b \in Assignments : assignments'[b] = assignments[b]
           \/ /\ t.order \in Orders
              /\ assignments'[b].order_id = t.order
              /\ assignments[b] \in Assignment => assignments[b].order_id = t.order
    BY <1>2, <1>3, <2>1
  <2> QED
    BY <1>1, <1>2, <2>2, OthersStayFresh
<1>5. OneEach'
  <2>1. \A b \in Assignments : assignments[b].order_id = t.order =>
                                  assignments[b].status = "cancelled"
    BY <1>1 DEF Fresh, Assigns, HasAssignment
  <2> QED
    BY <1>3, <2>1 DEF SerialInv, OneEach
<1>6. BusyExactly'
  <2> SUFFICES ASSUME NEW d \in Couriers \ overridden
               PROVE  /\ \A x, y \in Active(d)' : x = y
                      /\ couriers'[d].availability = "busy" <=> Active(d)' # {}
    BY <1>1 DEF BusyExactly
  <2>1. CASE d # c
    <3>1. d # row.courier_id /\ d # assignments[a].courier_id
      BY <1>1, <1>3, <2>1 DEF NoAssignmentRow
    <3>2. Active(d)' = Active(d)
      BY <1>t, <1>1, <3>1, OthersKeepWork
    <3> QED
      BY <1>2, <2>1, <3>2 DEF SerialInv, BusyExactly
  <2>2. CASE d = c
    <3>1. Active(d) = {}
      BY <1>2, <2>2 DEF SerialInv, BusyExactly
    <3>2. Active(d)' = {a}
      BY <1>3, <2>2, <3>1 DEF Active, TERMINAL_ASSIGNMENT_STATUSES
    <3> QED
      BY <1>2, <2>2, <3>2
  <2> QED
    BY <2>1, <2>2
<1> QED
  BY <1>4, <1>5, <1>6 DEF SerialInv

LEMMA SerialMoves ==
    ASSUME SerialInv, TypeInv', NoConflict', NEW s \in Sessions, CommitStatus(s)
    PROVE  /\ SerialInv'
           /\ \A a \in Assignments : a # txn[s].assignment => assignments'[a] = assignments[a]
           /\ assignments'[txn[s].assignment].status = txn[s].status
<1> USE SentinelAssumption
<1> DEFINE t == txn[s]
           c == t.courier
           a == t.assignment
           row == [assignments[a] EXCEPT !.status = t.status]
<1>t. TypeOK
  BY DEF SerialInv, TypeInv
<1>1. /\ t \in Txn /\ t # NoTxn /\ Holds(t) /\ t.next = "commit" /\ Moves(t) /\ Fresh(t)
      /\ WriteCourier(t) /\ txn' = [txn EXCEPT ![s] = NoTxn]
      /\ assignments' = [assignments EXCEPT ![a] = row]
      /\ overridden' = overridden
  <2>1. t # NoTxn /\ assignments' = [assignments EXCEPT ![a].status = t.status]
    BY DEF CommitStatus
  <2> QED
    BY <2>1, Commits DEF SerialInv, CommitStatus
<1>2. /\ c \in Couriers /\ a \in Assignments /\ t.order \in Orders
      /\ t.status \in AssignmentStatus
      /\ assignments[a] \in Assignment /\ assignments[a].courier_id = c
      /\ assignments[a].order_id = t.order
      /\ assignments[a].status \in AssignmentStatus
      /\ t.status \in ALLOWED_ASSIGNMENT_TRANSITIONS[assignments[a].status]
  BY <1>1 DEF Holds, Moves, Fresh, Assignment
<1>3. assignments[a].status \notin TERMINAL_ASSIGNMENT_STATUSES
  BY <1>2 DEF ALLOWED_ASSIGNMENT_TRANSITIONS, TERMINAL_ASSIGNMENT_STATUSES
<1>4. /\ couriers'[c].availability = IF t.status \in TERMINAL_ASSIGNMENT_STATUSES
                                     THEN "online" ELSE couriers[c].availability
      /\ \A d \in Couriers : d # c => couriers'[d] = couriers[d]
  <2>1. /\ t.read \in Courier /\ t.write \in Courier
        /\ couriers[c] = t.read
        /\ t.write.availability = IF t.status \in TERMINAL_ASSIGNMENT_STATUSES
                                  THEN "online" ELSE t.read.availability
    BY <1>1 DEF Holds, Fresh, Moves
  <2>2. UpdateChangedColumns(couriers[c], t) = t.write
    BY <2>1, UpdateInType
  <2> QED
    BY <1>t, <1>1, <2>1, <2>2, WriteInType
<1>5. /\ row.courier_id = c /\ row.order_id = t.order /\ row.status = t.status
      /\ assignments'[a] = row
      /\ \A b \in Assignments : b # a => assignments'[b] = assignments[b]
  BY <1>t, <1>1, <1>2 DEF TypeOK, Assignment
<1> HIDE DEF row
<1>6. \A q \in Sessions : txn'[q] # NoTxn => Fresh(txn[q])'
  <2>1. \A b \in Assignments : assignments'[b] = assignments[b]
           \/ /\ t.order \in Orders
              /\ assignments'[b].order_id = t.order
              /\ assignments[b] \in Assignment => assignments[b].order_id = t.order
    BY <1>2, <1>5
  <2> QED
    BY <1>1, <1>2, <1>4, <2>1, OthersStayFresh
<1>7. OneEach'
  <2>1. assignments[a] # NoAssignmentRow /\ assignments[a].status # "cancelled"
    BY <1>2, <1>3, <1>t, Rows DEF TERMINAL_ASSIGNMENT_STATUSES
  <2> SUFFICES ASSUME NEW x \in Assignments, NEW y \in Assignments,
                      assignments'[x] # NoAssignmentRow, assignments'[x].status # "cancelled",
                      assignments'[y] # NoAssignmentRow, assignments'[y].status # "cancelled",
                      assignments'[x].order_id = assignments'[y].order_id
               PROVE  x = y
    BY DEF OneEach
  <2>2. \A z \in Assignments : z = x \/ z = y =>
           /\ assignments[z] # NoAssignmentRow /\ assignments[z].status # "cancelled"
           /\ assignments[z].order_id = assignments'[z].order_id
    BY <1>2, <1>5, <2>1
  <2> QED
    BY <2>2 DEF SerialInv, OneEach
<1>8. BusyExactly'
  <2> SUFFICES ASSUME NEW d \in Couriers \ overridden
               PROVE  /\ \A x, y \in Active(d)' : x = y
                      /\ couriers'[d].availability = "busy" <=> Active(d)' # {}
    BY <1>1 DEF BusyExactly
  <2>1. CASE d # c
    <3>1. d # row.courier_id /\ d # assignments[a].courier_id
      BY <1>2, <1>5, <2>1
    <3>2. Active(d)' = Active(d)
      BY <1>t, <1>1, <1>2, <3>1, OthersKeepWork
    <3> QED
      BY <1>4, <2>1, <3>2 DEF SerialInv, BusyExactly
  <2>2. CASE d = c
    <3>1. a \in Active(d)
      BY <1>2, <1>3, <2>2 DEF Active
    <3>2. Active(d) = {a} /\ couriers[d].availability = "busy"
      BY <3>1 DEF SerialInv, BusyExactly
    <3>3. \A b \in Assignments : b # a =>
             (assignments[b].courier_id # d
              \/ assignments[b].status \in TERMINAL_ASSIGNMENT_STATUSES)
      BY <3>2 DEF Active
    <3>4. CASE t.status \in TERMINAL_ASSIGNMENT_STATUSES
      <4>1. Active(d)' = {}
        BY <1>5, <3>3, <3>4 DEF Active
      <4> QED
        BY <1>4, <2>2, <3>4, <4>1
    <3>5. CASE t.status \notin TERMINAL_ASSIGNMENT_STATUSES
      <4>1. \A b : b \in Active(d)' <=> b = a
        BY <1>2, <1>5, <2>2, <3>3, <3>5 DEF Active
      <4> QED
        BY <1>4, <2>2, <3>2, <3>5, <4>1
    <3> QED
      BY <3>4, <3>5
  <2> QED
    BY <2>1, <2>2
<1> QED
  BY <1>2, <1>5, <1>6, <1>7, <1>8 DEF SerialInv

LEMMA SerialInvInductive ==
    /\ Init => SerialInv
    /\ SerialInv /\ [Next /\ NoConflict']_vars => SerialInv'
<1> USE SentinelAssumption
<1>1. Init => SerialInv
  <2> SUFFICES ASSUME Init
               PROVE  SerialInv
    OBVIOUS
  <2>1. \A c \in Couriers : Active(c) = {} /\ couriers[c].availability # "busy"
    BY DEF Init, Active, NoAssignmentRow, NoCourierRow
  <2> QED
    BY <2>1, TypeInvInductive DEF SerialInv, NoConflict, OneEach, BusyExactly, Init
<1>2. SerialInv /\ [Next /\ NoConflict']_vars => SerialInv'
  <2> SUFFICES ASSUME SerialInv, [Next /\ NoConflict']_vars
               PROVE  SerialInv'
    OBVIOUS
  <2>t. TypeInv /\ TypeOK
    BY DEF SerialInv, TypeInv
  <2>i. TypeInv'
    BY <2>t, TypeInvInductive
  <2>1. ASSUME NEW c \in Couriers, create_courier(c), NoConflict'
        PROVE  SerialInv'
    <3>1. /\ couriers[c] \notin Courier
          /\ couriers'[c].availability = "offline"
          /\ \A d \in Couriers : d # c => couriers'[d] = couriers[d]
          /\ UNCHANGED <<assignments, outbox, txn, overridden>>
      BY <2>1, <2>t, Rows DEF create_courier, TypeOK
    <3>2. \A q \in Sessions : txn'[q] # NoTxn => Fresh(txn[q])'
      <4> SUFFICES ASSUME NEW q \in Sessions, txn[q] # NoTxn
                   PROVE  Fresh(txn[q])'
        BY <3>1
      <4>1. \A t : t = txn[q] => Fresh(t)'
        <5> SUFFICES ASSUME NEW t, t = txn[q]
                     PROVE  Fresh(t)'
          OBVIOUS
        <5>1. Holds(t) /\ Fresh(t)
          BY <2>t DEF SerialInv, TypeInv
        <5>2. t.next \in {"existing", "commit"} => t.read = couriers'[t.courier]
          BY <3>1, <5>1 DEF Holds, Fresh
        <5>3. HasAssignment(t.order)' <=> HasAssignment(t.order)
          BY <3>1 DEF HasAssignment
        <5> QED
          BY <3>1, <5>1, <5>2, <5>3 DEF Fresh
      <4>2. \A t : t = txn'[q] => Fresh(t)'
        BY <3>1, <4>1
      <4> QED
        BY <4>2
    <3>3. OneEach'
      BY <3>1 DEF SerialInv, OneEach
    <3>4. \A d : Active(d)' = Active(d)
      BY <3>1 DEF Active
    <3>5. Active(c) = {}
      BY <2>t, <3>1, ActiveRows, Rows DEF TypeInv
    <3>6. BusyExactly'
      BY <3>1, <3>4, <3>5 DEF SerialInv, BusyExactly
    <3> QED
      BY <2>1, <2>i, <3>2, <3>3, <3>6 DEF SerialInv
  <2>2. ASSUME NEW s \in Sessions, NEW t, Goes(s, t), NoConflict'
        PROVE  SerialInv'
    <3>1. /\ txn' = [txn EXCEPT ![s] = t]
          /\ UNCHANGED <<couriers, assignments, outbox, overridden>>
          /\ t # NoTxn => Fresh(t)
      BY <2>2 DEF Goes, Continue, SerialInv
    <3>2. \A u : Fresh(u)' <=> Fresh(u)
      BY <3>1 DEF Fresh, HasAssignment
    <3>3. \A q \in Sessions : txn'[q] # NoTxn => Fresh(txn'[q])
      BY <2>t, <3>1 DEF SerialInv, TypeOK
    <3>4. \A q \in Sessions : \A u : u = txn'[q] /\ u # NoTxn => Fresh(u)'
      BY <3>2, <3>3
    <3>5. \A q \in Sessions : txn'[q] # NoTxn => Fresh(txn[q])'
      BY <3>4
    <3>6. \A d : Active(d)' = Active(d)
      BY <3>1 DEF Active
    <3>7. OneEach' /\ BusyExactly'
      BY <3>1, <3>6 DEF SerialInv, OneEach, BusyExactly
    <3> QED
      BY <2>2, <2>i, <3>5, <3>7 DEF SerialInv
  <2>3. CASE UNCHANGED vars
    <3>1. \A q \in Sessions : txn'[q] # NoTxn => Fresh(txn[q])'
      BY <2>3 DEF vars, SerialInv, Fresh, HasAssignment
    <3>2. NoConflict'
      BY <2>3 DEF vars, SerialInv, NoConflict
    <3>3. \A d : Active(d)' = Active(d)
      BY <2>3 DEF vars, Active
    <3>4. OneEach' /\ BusyExactly'
      BY <2>3, <3>3 DEF vars, SerialInv, OneEach, BusyExactly
    <3> QED
      BY <2>i, <3>1, <3>2, <3>4 DEF SerialInv
  <2> QED
    BY <2>t, <2>i, <2>1, <2>2, <2>3, HandlersGo, SerialByHand, SerialAssigns, SerialMoves
    DEF StepKinds
<1> QED
  BY <1>1, <1>2

\* A set whose members are equal has at most one.
LEMMA AtMostOne ==
    ASSUME NEW S, \A a, b \in S : a = b
    PROVE  Cardinality(S) <= 1
<1>1. CASE S = {}
  BY <1>1, FS_EmptySet
<1>2. ASSUME NEW a \in S
      PROVE  Cardinality(S) <= 1
  <2>1. S = {a}
    OBVIOUS
  <2>2. Cardinality({a}) = 1
    BY FS_Singleton
  <2> QED
    BY <2>1, <2>2
<1> QED
  BY <1>1, <1>2

\* Without overlap an order has one assignment that is not cancelled: the SELECT
\* of assign_courier and auto_assign_order is as good as a unique constraint.
THEOREM SerialOneAssignmentPerOrder == SerialSpec => []OneAssignmentPerOrder
<1>1. SerialInv => OneAssignmentPerOrder
  <2> SUFFICES ASSUME SerialInv, NEW o \in Orders
               PROVE  Cardinality({a \in Assignments :
                                      /\ assignments[a].order_id = o
                                      /\ assignments[a].status # "cancelled"}) <= 1
    BY DEF OneAssignmentPerOrder
  <2> DEFINE S == {a \in Assignments : /\ assignments[a].order_id = o
                                       /\ assignments[a].status # "cancelled"}
  <2>1. \A a, b \in S : a = b
    BY Rows DEF SerialInv, TypeInv, OneEach
  <2>2. Cardinality(S) <= 1
    <3> HIDE DEF S
    <3> QED
      BY <2>1, AtMostOne
  <2> QED
    BY <2>2
<1> QED
  BY <1>1, SerialInvInductive, PTL DEF SerialSpec

\* Without overlap a courier whose availability nobody overrode is busy exactly
\* while working on an assignment, the only one.
THEOREM SerialBusyIsWorking == SerialSpec => []BusyIsWorking
<1>1. SerialInv => BusyIsWorking
  <2> SUFFICES ASSUME SerialInv, NEW c \in Couriers \ overridden
               PROVE  /\ Cardinality(Active(c)) <= 1
                      /\ couriers[c].availability = "busy" <=> Active(c) # {}
    BY DEF BusyIsWorking
  <2>1. /\ \A a, b \in Active(c) : a = b
        /\ couriers[c].availability = "busy" <=> Active(c) # {}
    BY DEF SerialInv, BusyExactly
  <2>2. Cardinality(Active(c)) <= 1
    BY <2>1, AtMostOne
  <2> QED
    BY <2>1, <2>2
<1> QED
  BY <1>1, SerialInvInductive, PTL DEF SerialSpec

\* Without overlap an assignment only moves along its transitions: the status
\* update_assignment_status validated against is still there when it commits.
THEOREM SerialTransitions == SerialSpec => AssignmentTransitionsValidated
<1> DEFINE Moved(a) ==
             assignments[a] # NoAssignmentRow =>
                \/ assignments'[a] = assignments[a]
                \/ assignments'[a].status
                     \in ALLOWED_ASSIGNMENT_TRANSITIONS[assignments[a].status]
<1>1. SerialInv /\ SerialInv' /\ [Next /\ NoConflict']_vars
         => [\A a \in Assignments : Moved(a)]_vars
  <2> SUFFICES ASSUME SerialInv, SerialInv', Next, NoConflict', NEW a \in Assignments
               PROVE  Moved(a)
    OBVIOUS
  <2>t. TypeInv /\ TypeOK /\ TypeInv'
    BY DEF SerialInv, TypeInv
  <2>1. CASE UNCHANGED assignments
    BY <2>1
  <2>2. ASSUME NEW s \in Sessions, NEW b \in Assignments, CommitAssignment(s, b)
        PROVE  Moved(a)
    BY <2>2, <2>t DEF CommitAssignment, TypeOK
  <2>3. ASSUME NEW s \in Sessions, CommitStatus(s)
        PROVE  Moved(a)
    <3>1. Fresh(txn[s]) /\ txn[s].assignment # None
      BY <2>3 DEF SerialInv, CommitStatus
    <3> QED
      BY <2>3, <2>t, <3>1, SerialMoves DEF Fresh
  <2> QED
    BY <2>t, <2>1, <2>2, <2>3, HandlersGo
    DEF StepKinds, create_courier, Goes, Continue, CommitCourier
<1> QED
  BY <1>1, SerialInvInductive, PTL DEF SerialSpec, AssignmentTransitionsValidated

===============================================================================
