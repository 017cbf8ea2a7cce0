------------------------- MODULE DeliverySagaProofs -------------------------
(***************************************************************************)
(* Proofs about an order across the two services, for any orders, couriers *)
(* and assignments, and any number of faults and replays.                  *)
(*                                                                         *)
(* Each step of the saga is a step of each service or leaves it alone, and *)
(* one transaction is open in each, so what OrderServiceProofs and         *)
(* CourierServiceProofs show of serial executions holds here.  On it stand *)
(* CouriersInv: what a message says was reached; ClaimsInv: what an order  *)
(* claims was reached; WrittenInv: the outbox says everything that was     *)
(* reached, once, in an order in which it can have happened; TopicInv: the *)
(* topic says what was published, of an undisturbed order in turn; and     *)
(* FollowsInv: what an order may be after the messages dealt with.         *)
(***************************************************************************)
EXTENDS DeliverySaga, SequenceTheorems, FiniteSetTheorems, TLAPS

\* The two services of DeliverySaga, with the theorems about them.
OP == INSTANCE OrderServiceProofs WITH
        NoCourier <- None, HttpSessions <- {Http}, ConsumerSessions <- {Kafka},
        outbox <- order_outbox, txn <- order_txn

CP == INSTANCE CourierServiceProofs WITH
        HttpSessions <- {Http}, ConsumerSessions <- {Kafka},
        outbox <- assignment_outbox, txn <- courier_txn

sagaVars == <<orderVars, courierVars, topicVars>>

\* What the courier service's theorems assume of the constants.
LEMMA CourierSentinels == CP!SentinelAssumption
BY SagaAssumption
DEF CP!SentinelAssumption, C!Txn, CP!Txn, C!Courier, CP!Courier, C!AssignmentStatus,
    CP!AssignmentStatus, C!NoCourierRow, CP!NoCourierRow, C!CourierAvailability,
    CP!CourierAvailability

\* What the order service's theorems assume of the constants.
LEMMA OrderSentinels == OP!SentinelAssumption /\ OP!BoundAssumption
BY SagaAssumption
DEF OP!SentinelAssumption, OP!BoundAssumption, O!Txn, OP!Txn, O!Row, OP!Row,
    O!OrderStatus, OP!OrderStatus, O!EventTypes, OP!EventTypes

Threads == {Http, Kafka}

\* The outbox, the topics, what was dealt with of them, and the dead letters.
TopicsInType ==
    /\ orders_topic \in Seq(Orders)
    /\ orders_offset \in Nat
    /\ courier_outbox \in Seq(Message)
    /\ couriers_topic \in Seq(Message)
    /\ couriers_offset \in Nat
    /\ dead_letters \in SUBSET Message

\* C and CP are two instances of one module: a request of the one is that of the
\* other.
LEMMA SameCourierRequests ==
    /\ \A s, c, v : C!change_availability(s, c, v) => CP!change_availability(s, c, v)
    /\ \A s, c, o : C!assign_courier(s, c, o) => CP!assign_courier(s, c, o)
    /\ \A s, a, v : C!update_assignment_status(s, a, v) => CP!update_assignment_status(s, a, v)
    /\ \A s, o : C!auto_assign_order(s, o) => CP!auto_assign_order(s, o)
<1>1. \A s, c, v : C!change_availability(s, c, v) => CP!change_availability(s, c, v)
  BY DEF C!change_availability, CP!change_availability, C!Exists, CP!Exists, C!Continue,
     CP!Continue, C!Blank, CP!Blank, C!NoCourierRow, CP!NoCourierRow
<1>2. \A s, c, o : C!assign_courier(s, c, o) => CP!assign_courier(s, c, o)
  BY DEF C!assign_courier, CP!assign_courier, C!Available, CP!Available, C!Exists, CP!Exists,
     C!Continue, CP!Continue, C!Blank, CP!Blank, C!NoCourierRow, CP!NoCourierRow
<1>3. \A s, a, v : C!update_assignment_status(s, a, v) => CP!update_assignment_status(s, a, v)
  BY DEF C!update_assignment_status, CP!update_assignment_status, C!Continue, CP!Continue,
     C!Blank, CP!Blank, C!NoCourierRow, CP!NoCourierRow, C!NoAssignmentRow, CP!NoAssignmentRow,
     C!ALLOWED_ASSIGNMENT_TRANSITIONS, CP!ALLOWED_ASSIGNMENT_TRANSITIONS,
     C!AssignmentStatus, CP!AssignmentStatus
<1>4. \A s, o : C!auto_assign_order(s, o) => CP!auto_assign_order(s, o)
  BY DEF C!auto_assign_order, CP!auto_assign_order, C!Continue, CP!Continue, C!Blank, CP!Blank,
     C!NoCourierRow, CP!NoCourierRow, C!HasAssignment, CP!HasAssignment
<1> QED
  BY <1>1, <1>2, <1>3, <1>4

\* ... and so is what a request or the consumer goes on with.
LEMMA SameCourierSteps ==
    \A s : /\ C!assign_courier_existing(s) => CP!assign_courier_existing(s)
           /\ C!update_assignment_status_courier(s) => CP!update_assignment_status_courier(s)
           /\ C!find_available_courier(s) => CP!find_available_courier(s)
           /\ C!CommitCourier(s) => CP!CommitCourier(s)
           /\ \A a : C!CommitAssignment(s, a) => CP!CommitAssignment(s, a)
           /\ C!CommitStatus(s) => CP!CommitStatus(s)
           /\ C!Rollback(s) => CP!Rollback(s)
<1> SUFFICES ASSUME NEW s
             PROVE  /\ C!assign_courier_existing(s) => CP!assign_courier_existing(s)
                    /\ C!update_assignment_status_courier(s) => CP!update_assignment_status_courier(s)
                    /\ C!find_available_courier(s) => CP!find_available_courier(s)
                    /\ C!CommitCourier(s) => CP!CommitCourier(s)
                    /\ \A a : C!CommitAssignment(s, a) => CP!CommitAssignment(s, a)
                    /\ C!CommitStatus(s) => CP!CommitStatus(s)
                    /\ C!Rollback(s) => CP!Rollback(s)
  OBVIOUS
<1> USE DEF C!Continue, CP!Continue, C!Close, CP!Close, C!WriteCourier, CP!WriteCourier,
            C!UpdateChangedColumns, CP!UpdateChangedColumns
<1>1. C!assign_courier_existing(s) => CP!assign_courier_existing(s)
  BY DEF C!assign_courier_existing, CP!assign_courier_existing, C!HasAssignment, CP!HasAssignment
<1>2. C!update_assignment_status_courier(s) => CP!update_assignment_status_courier(s)
  BY DEF C!update_assignment_status_courier, CP!update_assignment_status_courier,
     C!TERMINAL_ASSIGNMENT_STATUSES, CP!TERMINAL_ASSIGNMENT_STATUSES
<1>3. C!find_available_courier(s) => CP!find_available_courier(s)
  BY DEF C!find_available_courier, CP!find_available_courier, C!Available, CP!Available,
     C!Exists, CP!Exists, C!NoCourierRow, CP!NoCourierRow
<1>4. C!CommitCourier(s) => CP!CommitCourier(s)
  BY DEF C!CommitCourier, CP!CommitCourier, C!Active, CP!Active,
     C!TERMINAL_ASSIGNMENT_STATUSES, CP!TERMINAL_ASSIGNMENT_STATUSES
<1>5. \A a : C!CommitAssignment(s, a) => CP!CommitAssignment(s, a)
  BY DEF C!CommitAssignment, CP!CommitAssignment, C!NoAssignmentRow, CP!NoAssignmentRow
<1>6. C!CommitStatus(s) => CP!CommitStatus(s)
  BY DEF C!CommitStatus, CP!CommitStatus
<1>7. C!Rollback(s) => CP!Rollback(s)
  BY DEF C!Rollback, CP!Rollback
<1> QED
  BY <1>1, <1>2, <1>3, <1>4, <1>5, <1>6, <1>7

\* The same of O and OP.
LEMMA SameOrderSteps ==
    /\ \A o : O!create_order(o) => OP!create_order(o)
    /\ \A s, o : O!cancel_order(s, o) => OP!cancel_order(s, o)
    /\ \A s, o, c : O!apply_courier_assigned(s, o, c) => OP!apply_courier_assigned(s, o, c)
    /\ \A s, o, c, v : O!apply_assignment_status_changed(s, o, c, v)
                          => OP!apply_assignment_status_changed(s, o, c, v)
    /\ \A s : (O!Commit(s) => OP!Commit(s)) /\ (O!Rollback(s) => OP!Rollback(s))
<1> USE DEF O!Stage, OP!Stage, O!MayBecome, OP!MayBecome, O!ALLOWED_STATUS_TRANSITIONS,
            OP!ALLOWED_STATUS_TRANSITIONS, O!OrderStatus, OP!OrderStatus
<1>1. \A o : O!create_order(o) => OP!create_order(o)
  BY DEF O!create_order, OP!create_order, O!NoRow, OP!NoRow, O!add_event, OP!add_event,
     O!add_outbox_event, OP!add_outbox_event
<1>2. \A s, o : O!cancel_order(s, o) => OP!cancel_order(s, o)
  BY DEF O!cancel_order, OP!cancel_order
<1>3. \A s, o, c : O!apply_courier_assigned(s, o, c) => OP!apply_courier_assigned(s, o, c)
  BY DEF O!apply_courier_assigned, OP!apply_courier_assigned
<1>4. \A s, o, c, v : O!apply_assignment_status_changed(s, o, c, v)
                          => OP!apply_assignment_status_changed(s, o, c, v)
  BY DEF O!apply_assignment_status_changed, OP!apply_assignment_status_changed,
     O!order_status_for_assignment_status, OP!order_status_for_assignment_status,
     O!event_type_for_status, OP!event_type_for_status
<1>5. \A s : O!Commit(s) => OP!Commit(s)
  BY DEF O!Commit, OP!Commit, O!UpdateChangedColumns, OP!UpdateChangedColumns,
     O!add_event, OP!add_event, O!add_outbox_event, OP!add_outbox_event
<1>6. \A s : O!Rollback(s) => OP!Rollback(s)
  BY DEF O!Rollback, OP!Rollback
<1> QED
  BY <1>1, <1>2, <1>3, <1>4, <1>5, <1>6

-----------------------------------------------------------------------------

\* The courier service has one transaction open at a time.
OneCourierTxn ==
    \A s, t \in Threads : courier_txn[s] # NoTxn /\ courier_txn[t] # NoTxn => s = t

\* The steps of SagaNext are steps of the courier service, which opens one
\* transaction at a time.
LEMMA StepsOfTheCourierService ==
    ASSUME TopicsInType, SagaNext
    PROVE  /\ CP!Next \/ UNCHANGED courierVars
           /\ CP!TypeOK /\ OneCourierTxn => OneCourierTxn'
<1> USE SameCourierRequests, SameCourierSteps
<1> DEFINE Starts == \E s \in Threads :
                        NoneOpen /\ \E t : courier_txn' = [courier_txn EXCEPT ![s] = t]
           Goes == \E s \in Threads : /\ courier_txn[s] # NoTxn
                                      /\ \E t : courier_txn' = [courier_txn EXCEPT ![s] = t]
<1>0. CP!Sessions = Threads /\ C!AssignmentStatus = CP!AssignmentStatus
      /\ "online" \in CP!CourierAvailability
  BY DEF CP!Sessions, Threads, C!AssignmentStatus, CP!AssignmentStatus, CP!CourierAvailability
<1>1. CASE courier_request
  <2>1. \/ \E c \in Couriers : C!change_availability(Http, c, "online")
        \/ \E c \in Couriers, o \in Orders : C!assign_courier(Http, c, o)
        \/ \E a \in Assignments, v \in C!AssignmentStatus : C!update_assignment_status(Http, a, v)
    BY <1>1 DEF courier_request
  <2>2. CP!Next
    BY <1>0, <2>1 DEF CP!Next, Threads
  <2>3. Starts
    BY <1>1, <2>1
    DEF courier_request, Threads, C!change_availability, C!assign_courier,
        C!update_assignment_status, C!Continue
  <2> QED
    BY <2>2, <2>3 DEF OneCourierTxn, NoneOpen, Threads, CP!TypeOK, CP!Sessions
<1>2. CASE courier_request_goes_on \/ order_created_goes_on \/ auto_assign_fails
  <2>0. NewIds \subseteq Assignments
    BY DEF NewIds
  <2>1. \E s \in Threads :
           \/ C!assign_courier_existing(s) \/ C!update_assignment_status_courier(s)
           \/ C!CommitCourier(s) \/ \E a \in Assignments : C!CommitAssignment(s, a)
           \/ C!CommitStatus(s) \/ C!find_available_courier(s) \/ C!Rollback(s)
    BY <1>2, <2>0 DEF courier_request_goes_on, order_created_goes_on, auto_assign_fails, Threads
  <2>2. CP!Next
    BY <1>0, <2>1 DEF CP!Next
  <2>3. Goes
    BY <2>1
    DEF C!assign_courier_existing, C!update_assignment_status_courier, C!CommitCourier,
        C!CommitAssignment, C!CommitStatus, C!find_available_courier, C!Rollback,
        C!Continue, C!Close
  <2> QED
    BY <2>2, <2>3 DEF OneCourierTxn, Threads, CP!TypeOK, CP!Sessions
<1>3. CASE consume_order_created
  <2> DEFINE o == orders_topic[orders_offset + 1]
  <2>1. o \in Orders
    BY <1>3, ElementOfSeq DEF consume_order_created, TopicsInType
  <2> HIDE DEF o
  <2>2. NoneOpen /\ (C!auto_assign_order(Kafka, o) \/ UNCHANGED courierVars)
    BY <1>3 DEF consume_order_created, o
  <2>3. CASE UNCHANGED courierVars
    BY <2>3 DEF courierVars, OneCourierTxn
  <2>4. CASE C!auto_assign_order(Kafka, o)
    <3>1. CP!Next
      BY <1>0, <2>1, <2>4 DEF CP!Next, Threads
    <3>2. Starts
      BY <2>2, <2>4 DEF Threads, C!auto_assign_order, C!Continue
    <3> QED
      BY <3>1, <3>2 DEF OneCourierTxn, NoneOpen, Threads, CP!TypeOK, CP!Sessions
  <2> QED
    BY <2>2, <2>3, <2>4
<1>4. ASSUME UNCHANGED courierVars
      PROVE  /\ CP!Next \/ UNCHANGED courierVars
             /\ CP!TypeOK /\ OneCourierTxn => OneCourierTxn'
  BY <1>4 DEF courierVars, OneCourierTxn
<1>5. CASE \E o \in Orders : create_order(o) \/ cancel_order(o)
  BY <1>4, <1>5 DEF create_order, cancel_order, OrderStep
<1>6. CASE commit_cancel \/ apply_courier_event \/ ignore_courier_event
           \/ commit_courier_event \/ apply_fails \/ redeliver \/ dead_letter \/ run_replay
  BY <1>4, <1>6 DEF commit_cancel, apply_courier_event, ignore_courier_event,
     commit_courier_event, apply_fails, redeliver, dead_letter, run_replay, OrderStep
<1>7. CASE \/ dead_letter_order_created
           \/ \E i \in Pending : publish(i)
           \/ \E o \in Orders : publish_order_created(o)
  BY <1>4, <1>7 DEF publish, publish_order_created, dead_letter_order_created
<1> QED
  BY <1>1, <1>2, <1>3, <1>5, <1>6, <1>7 DEF SagaNext

-----------------------------------------------------------------------------
(* What a step says of an assignment, and what it announces.               *)

\* A new assignment, of the order that a transaction is open for.
Assigned(a, c, o) ==
    /\ \E s \in Threads : courier_txn[s] # NoTxn /\ courier_txn[s].order = o
    /\ assignments[a] = CP!NoAssignmentRow
    /\ ~CP!HasAssignment(o)
    /\ assignments' = [assignments EXCEPT ![a] =
          [courier_id |-> c, order_id |-> o, status |-> "assigned"]]
    /\ assignment_outbox' = [assignment_outbox EXCEPT ![a] = Append(@, "assigned")]
    /\ courier_outbox' = Append(courier_outbox, [assignment |-> a, status |-> "assigned"])
    /\ UNCHANGED <<couriers_topic, published>>

\* An assignment moves on.
Moved(a, v) ==
    /\ assignments[a] \in CP!Assignment
    /\ v \in CP!ALLOWED_ASSIGNMENT_TRANSITIONS[assignments[a].status]
    /\ assignments' = [assignments EXCEPT ![a].status = v]
    /\ assignment_outbox' = [assignment_outbox EXCEPT ![a] = Append(@, v)]
    /\ courier_outbox' = Append(courier_outbox, [assignment |-> a, status |-> v])
    /\ UNCHANGED <<couriers_topic, published>>

\* No assignment changes.
Quiet == UNCHANGED <<assignments, assignment_outbox, courier_outbox>>

\* Row i of the outbox is published, in turn or not.
Publishes(i) ==
    /\ Quiet
    /\ couriers_topic' = Append(couriers_topic, courier_outbox[i])
    /\ published' \in {published, published \cup {i}}
    /\ Overtakes(i) = {} \/ OrderOf(courier_outbox[i]) \in disturbed'

\* A dead letter is sent again.
Replays ==
    /\ Quiet
    /\ \E m \in dead_letters : couriers_topic' = Append(couriers_topic, m)
    /\ UNCHANGED published

\* What an assignment's outbox gets is a row of the service's.
LEMMA OneIsWritten ==
    ASSUME CP!TypeOK, NEW a \in Assignments, NEW v \in CP!AssignmentStatus, CourierStep,
           assignment_outbox' = [assignment_outbox EXCEPT ![a] = Append(@, v)]
    PROVE  courier_outbox' = Append(courier_outbox,
                                    [assignment |-> a, status |-> assignments'[a].status])
<1>1. assignment_outbox[a] \in Seq(CP!AssignmentStatus)
  BY DEF CP!TypeOK
<1>2. Append(assignment_outbox[a], v) # assignment_outbox[a]
  BY <1>1, AppendProperties, LenProperties
<1>3. assignment_outbox'[a] # assignment_outbox[a]
  BY <1>2 DEF CP!TypeOK
<1>4. \A b \in Assignments : assignment_outbox'[b] # assignment_outbox[b] => b = a
  BY DEF CP!TypeOK
<1> QED
  BY <1>3, <1>4 DEF CourierStep

\* What the steps do to the assignments, the outbox and the topic of the couriers.
LEMMA AssignmentSteps ==
    ASSUME CP!SerialInv, SagaNext
    PROVE  \/ Quiet /\ UNCHANGED <<couriers_topic, published>>
           \/ \E i \in Pending : Publishes(i)
           \/ Replays
           \/ \E a \in Assignments, c \in Couriers, o \in Orders : Assigned(a, c, o)
           \/ \E a \in Assignments, v \in CP!AssignmentStatus : Moved(a, v)
<1> USE SameCourierRequests, SameCourierSteps
<1>0. CP!TypeInv /\ CP!TypeOK
  BY DEF CP!SerialInv, CP!TypeInv
<1>1. ASSUME CourierStep, UNCHANGED <<assignments, assignment_outbox>>
      PROVE  Quiet /\ UNCHANGED <<couriers_topic, published>>
  BY <1>1 DEF CourierStep, Quiet, couriersTopicVars
<1>2. ASSUME CourierStep, NEW s \in Threads,
             \/ C!assign_courier_existing(s) \/ C!update_assignment_status_courier(s)
             \/ C!CommitCourier(s) \/ \E a \in NewIds : C!CommitAssignment(s, a)
             \/ C!CommitStatus(s) \/ C!find_available_courier(s) \/ C!Rollback(s)
      PROVE  \/ Quiet /\ UNCHANGED <<couriers_topic, published>>
             \/ \E a \in Assignments, c \in Couriers, o \in Orders : Assigned(a, c, o)
             \/ \E a \in Assignments, v \in CP!AssignmentStatus : Moved(a, v)
  <2> DEFINE t == courier_txn[s]
  <2>0. s \in CP!Sessions
    BY DEF CP!Sessions, Threads
  <2>1. CASE C!assign_courier_existing(s) \/ C!update_assignment_status_courier(s)
             \/ C!find_available_courier(s) \/ C!Rollback(s) \/ C!CommitCourier(s)
    <3>1. UNCHANGED <<assignments, assignment_outbox>>
      BY <2>1 DEF C!assign_courier_existing, C!update_assignment_status_courier,
         C!find_available_courier, C!Rollback, C!CommitCourier, C!Continue, C!Close
    <3> QED
      BY <1>1, <1>2, <3>1
  <2>2. CASE \E a \in NewIds : C!CommitAssignment(s, a)
    <3>1. PICK a \in NewIds : C!CommitAssignment(s, a)
      BY <2>2
    <3>2. a \in Assignments /\ CP!CommitAssignment(s, a)
      BY <3>1 DEF NewIds
    <3>3. /\ t # NoTxn /\ t \in CP!Txn /\ CP!Holds(t) /\ CP!Assigns(t) /\ t.next = "commit"
          /\ CP!Fresh(t)
      BY <2>0, <3>2, <1>0, CP!Commits, CourierSentinels DEF CP!SerialInv, CP!CommitAssignment
    <3>4. /\ t.courier \in Couriers /\ t.order \in Orders /\ t.status = "assigned"
          /\ ~CP!HasAssignment(t.order)
      BY <3>3 DEF CP!Holds, CP!Assigns, CP!Fresh
    <3>5. /\ assignments[a] = CP!NoAssignmentRow
          /\ assignments' = [assignments EXCEPT ![a] =
                [courier_id |-> t.courier, order_id |-> t.order, status |-> "assigned"]]
          /\ assignment_outbox' = [assignment_outbox EXCEPT ![a] = Append(@, "assigned")]
      BY <3>2, <3>4 DEF CP!CommitAssignment
    <3>8. \E q \in Threads : courier_txn[q] # NoTxn /\ courier_txn[q].order = t.order
      BY <3>3
    <3> HIDE DEF t
    <3>6. assignments'[a].status = "assigned"
      BY <3>2, <3>5, <1>0 DEF CP!TypeOK
    <3>7. /\ courier_outbox' = Append(courier_outbox, [assignment |-> a, status |-> "assigned"])
          /\ UNCHANGED <<couriers_topic, published>>
      BY <1>0, <1>2, <3>2, <3>5, <3>6, OneIsWritten
      DEF CP!AssignmentStatus, CourierStep, couriersTopicVars
    <3> QED
      BY <3>2, <3>4, <3>5, <3>7, <3>8 DEF Assigned
  <2>3. CASE C!CommitStatus(s)
    <3>1. CP!CommitStatus(s)
      BY <2>3
    <3>2. /\ t # NoTxn /\ t \in CP!Txn /\ CP!Holds(t) /\ CP!Moves(t) /\ t.next = "commit"
          /\ CP!Fresh(t)
      BY <2>0, <3>1, <1>0, CP!Commits, CourierSentinels DEF CP!SerialInv, CP!CommitStatus
    <3>3. t.assignment \in Assignments /\ t.assignment # None
      BY <3>2, SagaAssumption DEF CP!Moves
    <3>4. /\ t.status \in CP!AssignmentStatus
          /\ assignments[t.assignment] \in CP!Assignment
          /\ t.status \in CP!ALLOWED_ASSIGNMENT_TRANSITIONS[assignments[t.assignment].status]
      BY <3>2, <3>3 DEF CP!Holds, CP!Moves, CP!Fresh
    <3>5. /\ assignments' = [assignments EXCEPT ![t.assignment].status = t.status]
          /\ assignment_outbox' = [assignment_outbox EXCEPT ![t.assignment] = Append(@, t.status)]
      BY <3>1 DEF CP!CommitStatus
    <3> HIDE DEF t
    <3>6. assignments'[t.assignment].status = t.status
      BY <3>3, <3>4, <3>5, <1>0 DEF CP!TypeOK, CP!Assignment
    <3>7. /\ courier_outbox' = Append(courier_outbox,
                                      [assignment |-> t.assignment, status |-> t.status])
          /\ UNCHANGED <<couriers_topic, published>>
      BY <1>0, <1>2, <3>3, <3>4, <3>5, <3>6, OneIsWritten DEF CourierStep, couriersTopicVars
    <3> QED
      BY <3>3, <3>4, <3>5, <3>7 DEF Moved
  <2> QED
    BY <1>2, <2>1, <2>2, <2>3
<1>3. CASE courier_request_goes_on \/ order_created_goes_on \/ auto_assign_fails
  BY <1>2, <1>3 DEF courier_request_goes_on, order_created_goes_on, auto_assign_fails, Threads
<1>4. CASE courier_request
  <2>1. UNCHANGED <<assignments, assignment_outbox>> /\ CourierStep
    BY <1>4 DEF courier_request, C!change_availability, C!assign_courier,
       C!update_assignment_status, C!Continue
  <2> QED
    BY <1>1, <2>1
<1>5. CASE consume_order_created
  <2>1. UNCHANGED <<assignments, assignment_outbox>> /\ CourierStep
    BY <1>5 DEF consume_order_created, C!auto_assign_order, C!Continue, courierVars
  <2> QED
    BY <1>1, <2>1
<1>6. CASE run_replay
  BY <1>6 DEF run_replay, courierVars, outboxVars, Quiet, Replays
<1>7. ASSUME NEW i \in Pending, publish(i) PROVE Publishes(i)
  BY <1>7 DEF publish, courierVars, Quiet, Publishes
<1>8. CASE \E o \in Orders : create_order(o) \/ cancel_order(o) \/ publish_order_created(o)
  BY <1>8 DEF create_order, cancel_order, publish_order_created, OrderStep, courierVars,
     outboxVars, couriersTopicVars, Quiet
<1>9. CASE commit_cancel \/ apply_courier_event \/ ignore_courier_event
           \/ commit_courier_event \/ apply_fails
  BY <1>9 DEF commit_cancel, apply_courier_event, ignore_courier_event,
     commit_courier_event, apply_fails, OrderStep, courierVars, outboxVars, Quiet
<1>10. CASE redeliver \/ dead_letter \/ dead_letter_order_created
  BY <1>10 DEF redeliver, dead_letter, dead_letter_order_created, courierVars, outboxVars,
     couriersTopicVars, Quiet
<1> QED
  BY <1>3, <1>4, <1>5, <1>6, <1>7, <1>8, <1>9, <1>10 DEF SagaNext

-----------------------------------------------------------------------------
(* The couriers' side.                                                     *)

\* The statuses an assignment that reached status v may have by now.
Later(v) ==
    CASE v = "assigned" -> CP!AssignmentStatus
      [] v = "accepted" -> CP!AssignmentStatus \ {"assigned"}
      [] v = "picked_up" -> {"picked_up", "delivered"}
      [] OTHER -> {v}

\* An assignment reached its status and what comes before it, and nothing that
\* only comes after it.
StatusesReached ==
    \A a \in Assignments :
        /\ \A v \in CP!AssignmentStatus : Reached(a, v) => assignments[a].status \in Later(v)
        /\ assignments[a].status # "none" =>
              Reached(a, "assigned") /\ Reached(a, assignments[a].status)
        /\ assignments[a].status \in {"picked_up", "delivered"} => Reached(a, "accepted")

\* What the outbox, the topic and the dead letters say was done.
Announced ==
    /\ \A i \in 1 .. Len(courier_outbox) :
          Reached(courier_outbox[i].assignment, courier_outbox[i].status)
    /\ \A i \in 1 .. Len(couriers_topic) :
          Reached(couriers_topic[i].assignment, couriers_topic[i].status)
    /\ \A m \in dead_letters : Reached(m.assignment, m.status)

\* The invariant of the couriers' side.
CouriersInv ==
    /\ TopicsInType
    /\ CP!SerialInv
    /\ OneCourierTxn
    /\ StatusesReached
    /\ Announced

\* An assignment that is written to its outbox reached one status more.
LEMMA ReachedGrows ==
    ASSUME CP!TypeOK, NEW a \in Assignments, NEW v \in CP!AssignmentStatus,
           assignment_outbox' = [assignment_outbox EXCEPT ![a] = Append(@, v)]
    PROVE  \A b \in Assignments : \A w : Reached(b, w)' <=> Reached(b, w) \/ (b = a /\ w = v)
<1> SUFFICES ASSUME NEW b \in Assignments, NEW w
             PROVE  Reached(b, w)' <=> Reached(b, w) \/ (b = a /\ w = v)
  OBVIOUS
<1>1. CASE b # a
  BY <1>1 DEF CP!TypeOK, Reached
<1>2. CASE b = a
  <2> DEFINE q == assignment_outbox[a]
  <2>1. q \in Seq(CP!AssignmentStatus) /\ assignment_outbox'[a] = Append(q, v)
    BY DEF CP!TypeOK
  <2>2. /\ Len(q) \in Nat
        /\ Len(Append(q, v)) = Len(q) + 1
        /\ Append(q, v)[Len(q) + 1] = v
        /\ \A i \in 1 .. Len(q) : Append(q, v)[i] = q[i]
    BY <2>1, AppendProperties, LenProperties
  <2>3. Reached(a, w)' <=> \E i \in 1 .. Len(Append(q, v)) : Append(q, v)[i] = w
    BY <2>1 DEF Reached
  <2>4. Reached(a, w) <=> \E i \in 1 .. Len(q) : q[i] = w
    BY DEF Reached
  <2> HIDE DEF q
  <2>5. (\E i \in 1 .. Len(Append(q, v)) : Append(q, v)[i] = w)
           <=> (\E i \in 1 .. Len(q) : q[i] = w) \/ w = v
    <3>1. \A i \in 1 .. Len(Append(q, v)) : i \in 1 .. Len(q) \/ i = Len(q) + 1
      BY <2>2
    <3>2. Len(q) + 1 \in 1 .. Len(Append(q, v)) /\ 1 .. Len(q) \subseteq 1 .. Len(Append(q, v))
      BY <2>2
    <3> QED
      BY <2>2, <3>1, <3>2
  <2> QED
    BY <1>2, <2>3, <2>4, <2>5
<1> QED
  BY <1>1, <1>2

\* A message appended to the topic is its last.
LEMMA TopicGrows ==
    ASSUME TopicsInType, NEW m \in Message, couriers_topic' = Append(couriers_topic, m)
    PROVE  /\ couriers_topic' \in Seq(Message)
           /\ Len(couriers_topic) \in Nat
           /\ Len(couriers_topic') = Len(couriers_topic) + 1
           /\ couriers_topic'[Len(couriers_topic) + 1] = m
           /\ \A i \in 1 .. Len(couriers_topic) : couriers_topic'[i] = couriers_topic[i]
           /\ \A i \in 1 .. Len(couriers_topic') :
                 i \in 1 .. Len(couriers_topic) \/ i = Len(couriers_topic) + 1
BY AppendProperties, LenProperties DEF TopicsInType

\* A row appended to the outbox is its last.
LEMMA OutboxGrows ==
    ASSUME TopicsInType, NEW m \in Message, courier_outbox' = Append(courier_outbox, m)
    PROVE  /\ courier_outbox' \in Seq(Message)
           /\ Len(courier_outbox) \in Nat
           /\ Len(courier_outbox') = Len(courier_outbox) + 1
           /\ courier_outbox'[Len(courier_outbox) + 1] = m
           /\ \A i \in 1 .. Len(courier_outbox) : courier_outbox'[i] = courier_outbox[i]
           /\ \A i \in 1 .. Len(courier_outbox') :
                 i \in 1 .. Len(courier_outbox) \/ i = Len(courier_outbox) + 1
BY AppendProperties, LenProperties DEF TopicsInType

\* What a new assignment and a move leave behind.
LEMMA AssignedRow ==
    ASSUME CP!TypeOK, NEW a \in Assignments, NEW c \in Couriers, NEW o \in Orders,
           Assigned(a, c, o)
    PROVE  /\ assignments'[a].courier_id = c
           /\ assignments'[a].order_id = o
           /\ assignments'[a].status = "assigned"
           /\ \A b \in Assignments : b # a => assignments'[b] = assignments[b]
           /\ \A b \in Assignments : \A w : Reached(b, w)' <=> Reached(b, w) \/ (b = a /\ w = "assigned")
<1>1. "assigned" \in CP!AssignmentStatus
  BY DEF CP!AssignmentStatus
<1> QED
  BY <1>1, ReachedGrows DEF Assigned, CP!TypeOK

\* ... and what an assignment is that moved on.
LEMMA MovedRow ==
    ASSUME CP!TypeOK, NEW a \in Assignments, NEW v \in CP!AssignmentStatus, Moved(a, v)
    PROVE  /\ assignments'[a].status = v
           /\ assignments'[a].order_id = assignments[a].order_id
           /\ assignments'[a].courier_id = assignments[a].courier_id
           /\ \A b \in Assignments : b # a => assignments'[b] = assignments[b]
           /\ \A b \in Assignments : \A w : Reached(b, w)' <=> Reached(b, w) \/ (b = a /\ w = v)
           /\ assignments[a].status \in CP!AssignmentStatus
           /\ v \in CP!ALLOWED_ASSIGNMENT_TRANSITIONS[assignments[a].status]
BY ReachedGrows DEF Moved, CP!TypeOK, CP!Assignment

\* A new assignment and a listed transition keep StatusesReached.
LEMMA StatusesReachedOn ==
    ASSUME CP!TypeOK, StatusesReached,
           \/ \E a \in Assignments, c \in Couriers, o \in Orders : Assigned(a, c, o)
           \/ \E a \in Assignments, v \in CP!AssignmentStatus : Moved(a, v)
    PROVE  StatusesReached'
<1> SUFFICES ASSUME NEW b \in Assignments
             PROVE  /\ \A w \in CP!AssignmentStatus :
                          Reached(b, w)' => assignments'[b].status \in Later(w)
                    /\ assignments'[b].status # "none" =>
                          Reached(b, "assigned")' /\ Reached(b, assignments[b].status)'
                    /\ assignments'[b].status \in {"picked_up", "delivered"}
                          => Reached(b, "accepted")'
  BY DEF StatusesReached, Later, CP!AssignmentStatus
<1>1. ASSUME NEW a \in Assignments, NEW c \in Couriers, NEW o \in Orders, Assigned(a, c, o)
      PROVE  /\ \A w \in CP!AssignmentStatus :
                   Reached(b, w)' => assignments'[b].status \in Later(w)
             /\ assignments'[b].status # "none" =>
                   Reached(b, "assigned")' /\ Reached(b, assignments[b].status)'
             /\ assignments'[b].status \in {"picked_up", "delivered"} => Reached(b, "accepted")'
  <2> PICK n : n = assignments'[b].status
    OBVIOUS
  <2>1. CASE b # a
    <3>1. n = assignments[b].status /\ \A w : Reached(b, w)' <=> Reached(b, w)
      BY <1>1, <2>1, AssignedRow
    <3>2. Reached(b, assignments[b].status)' <=> Reached(b, n)
      BY <3>1, <2>1, <1>1, AssignedRow
    <3> QED
      BY <3>1, <3>2 DEF StatusesReached
  <2>2. CASE b = a
    <3>1. n = "assigned" /\ \A w : Reached(a, w)' <=> Reached(a, w) \/ w = "assigned"
      BY <1>1, <2>2, AssignedRow
    <3>2. \A w \in CP!AssignmentStatus : ~Reached(a, w)
      BY <1>1 DEF StatusesReached, Assigned, CP!NoAssignmentRow, Later, CP!AssignmentStatus
    <3>3. Reached(b, assignments[b].status)' <=> Reached(b, n)'
      OBVIOUS
    <3> QED
      BY <2>2, <3>1, <3>2, <3>3 DEF Later, CP!AssignmentStatus
  <2> QED
    BY <2>1, <2>2
<1>2. ASSUME NEW a \in Assignments, NEW v \in CP!AssignmentStatus, Moved(a, v)
      PROVE  /\ \A w \in CP!AssignmentStatus :
                   Reached(b, w)' => assignments'[b].status \in Later(w)
             /\ assignments'[b].status # "none" =>
                   Reached(b, "assigned")' /\ Reached(b, assignments[b].status)'
             /\ assignments'[b].status \in {"picked_up", "delivered"} => Reached(b, "accepted")'
  <2> PICK n : n = assignments'[b].status
    OBVIOUS
  <2>1. CASE b # a
    <3>1. n = assignments[b].status /\ \A w : Reached(b, w)' <=> Reached(b, w)
      BY <1>2, <2>1, MovedRow
    <3>2. Reached(b, assignments[b].status)' <=> Reached(b, n)
      BY <3>1, <2>1, <1>2, MovedRow
    <3> QED
      BY <3>1, <3>2 DEF StatusesReached
  <2>2. CASE b = a
    <3> PICK p : p = assignments[a].status
      OBVIOUS
    <3>1. /\ n = v /\ p \in CP!AssignmentStatus
          /\ v \in CP!ALLOWED_ASSIGNMENT_TRANSITIONS[p]
          /\ \A w : Reached(a, w)' <=> Reached(a, w) \/ w = v
      BY <1>2, <2>2, MovedRow
    <3>2. /\ \A w \in CP!AssignmentStatus : Reached(a, w) => p \in Later(w)
          /\ Reached(a, "assigned") /\ Reached(a, p)
          /\ p \in {"picked_up", "delivered"} => Reached(a, "accepted")
      BY <3>1 DEF StatusesReached, CP!AssignmentStatus
    <3>3. /\ v \in Later(v)
          /\ \A w \in CP!AssignmentStatus : p \in Later(w) => v \in Later(w)
          /\ v = "picked_up" => p = "accepted"
          /\ v = "delivered" => p = "picked_up"
      BY <3>1 DEF Later, CP!AssignmentStatus, CP!ALLOWED_ASSIGNMENT_TRANSITIONS
    <3>4. Reached(b, assignments[b].status)' <=> Reached(b, n)'
      OBVIOUS
    <3> QED
      BY <2>2, <3>1, <3>2, <3>3, <3>4
  <2> QED
    BY <2>1, <2>2
<1> QED
  BY <1>1, <1>2

\* What is announced was reached, so its assignment is there.
LEMMA AnnouncedRow ==
    ASSUME CP!TypeOK, StatusesReached, NEW m \in Message, Reached(m.assignment, m.status)
    PROVE  assignments[m.assignment] \in CP!Assignment
<1>1. m.assignment \in Assignments /\ m.status \in CP!AssignmentStatus
  BY DEF Message, CP!AssignmentStatus
<1>2. assignments[m.assignment].status \in Later(m.status)
  BY <1>1 DEF StatusesReached
<1>3. assignments[m.assignment].status \in CP!AssignmentStatus
  BY <1>1, <1>2 DEF Later, CP!AssignmentStatus
<1> QED
  BY <1>1, <1>3, CP!Rows, CourierSentinels

\* The next message is one of the topic's.
LEMMA NextMessageInTopic ==
    ASSUME TopicsInType, HasNext
    PROVE  /\ couriers_offset + 1 \in 1 .. Len(couriers_topic)
           /\ NextMessage \in Message
<1>1. couriers_offset + 1 \in 1 .. Len(couriers_topic)
  BY LenProperties DEF TopicsInType, HasNext
<1> QED
  BY <1>1, ElementOfSeq DEF TopicsInType, NextMessage

\* Every step keeps what is read from the topics within its type.
LEMMA OffsetsInType ==
    ASSUME TopicsInType, SagaNext
    PROVE  orders_topic' \in Seq(Orders) /\ orders_offset' \in Nat /\ couriers_offset' \in Nat
<1> USE DEF TopicsInType, ordersTopicVars, couriersTopicVars
<1>0. Len(couriers_topic) \in Nat
  BY LenProperties
<1>1. CASE \E o \in Orders : create_order(o) \/ cancel_order(o)
  BY <1>1, AppendProperties DEF create_order, cancel_order, OrderStep
<1>2. CASE commit_cancel \/ apply_courier_event \/ ignore_courier_event
           \/ commit_courier_event \/ apply_fails \/ dead_letter \/ run_replay
  BY <1>2 DEF commit_cancel, apply_courier_event, ignore_courier_event,
     commit_courier_event, apply_fails, dead_letter, run_replay, OrderStep
<1>3. CASE courier_request \/ courier_request_goes_on \/ auto_assign_fails
  BY <1>3 DEF courier_request, courier_request_goes_on, auto_assign_fails, CourierStep
<1>4. CASE consume_order_created \/ order_created_goes_on
  <2>1. CASE consume_order_created
    BY <2>1 DEF consume_order_created, CourierStep
  <2>2. CASE order_created_goes_on
    BY <2>2 DEF order_created_goes_on, CourierStep
  <2> QED
    BY <1>4, <2>1, <2>2
<1>5. CASE redeliver
  BY <1>5 DEF redeliver
<1>6. CASE dead_letter_order_created \/ \E i \in Pending : publish(i)
  BY <1>6 DEF publish, dead_letter_order_created
<1>7. ASSUME NEW o \in Orders, publish_order_created(o)
      PROVE  orders_topic' \in Seq(Orders) /\ UNCHANGED <<orders_offset, couriers_offset>>
  BY <1>7, AppendProperties DEF publish_order_created
<1> QED
  BY <1>1, <1>2, <1>3, <1>4, <1>5, <1>6, <1>7 DEF SagaNext

\* A message is dead-lettered when it is the next, and stays; its order is
\* disturbed from then on.
LEMMA DeadLettersGrow ==
    ASSUME SagaNext
    PROVE  /\ disturbed \subseteq disturbed'
           /\ \/ UNCHANGED dead_letters
              \/ /\ HasNext
                 /\ dead_letters' = dead_letters \cup {NextMessage}
                 /\ OrderOf(NextMessage) \in disturbed'
<1>1. CASE dead_letter
  BY <1>1 DEF dead_letter
<1>2. CASE \E o \in Orders : create_order(o) \/ cancel_order(o) \/ publish_order_created(o)
  BY <1>2 DEF create_order, cancel_order, publish_order_created, OrderStep
<1>3. CASE commit_cancel \/ apply_courier_event \/ ignore_courier_event
           \/ commit_courier_event \/ apply_fails \/ redeliver \/ run_replay
           \/ dead_letter_order_created
  BY <1>3 DEF commit_cancel, apply_courier_event, ignore_courier_event, commit_courier_event,
     apply_fails, redeliver, run_replay, dead_letter_order_created, OrderStep
<1>4. CASE courier_request \/ courier_request_goes_on \/ auto_assign_fails
           \/ consume_order_created \/ order_created_goes_on
  BY <1>4 DEF courier_request, courier_request_goes_on, auto_assign_fails,
     consume_order_created, order_created_goes_on, CourierStep
<1>5. CASE \E i \in Pending : publish(i)
  BY <1>5 DEF publish
<1> QED
  BY <1>1, <1>2, <1>3, <1>4, <1>5 DEF SagaNext

\* What was sent stays announced, and what is written or sent is.
LEMMA AnnouncedGrows ==
    ASSUME TopicsInType, Announced,
           \A a \in Assignments : \A v : Reached(a, v) => Reached(a, v)',
           \/ UNCHANGED courier_outbox
           \/ \E m \in Message : /\ courier_outbox' = Append(courier_outbox, m)
                                  /\ Reached(m.assignment, m.status)',
           \/ UNCHANGED couriers_topic
           \/ \E m \in Message : /\ couriers_topic' = Append(couriers_topic, m)
                                  /\ Reached(m.assignment, m.status)',
           \A m \in dead_letters' : m \in Message /\ Reached(m.assignment, m.status)
    PROVE  courier_outbox' \in Seq(Message) /\ couriers_topic' \in Seq(Message) /\ Announced'
<1>1. courier_outbox' \in Seq(Message) /\ couriers_topic' \in Seq(Message)
  BY OutboxGrows, TopicGrows DEF TopicsInType
<1>2. \A m \in dead_letters' : Reached(m.assignment, m.status)'
  BY DEF Message
<1>3. ASSUME NEW i \in 1 .. Len(couriers_topic')
      PROVE  Reached(couriers_topic[i].assignment, couriers_topic[i].status)'
  <2> PICK m : m = couriers_topic'[i]
    OBVIOUS
  <2>1. ASSUME i \in 1 .. Len(couriers_topic), m = couriers_topic[i]
        PROVE  Reached(m.assignment, m.status)'
    <3>1. m \in Message /\ Reached(m.assignment, m.status)
      BY <2>1, ElementOfSeq DEF TopicsInType, Announced
    <3> QED
      BY <3>1 DEF Message
  <2>2. \/ i \in 1 .. Len(couriers_topic) /\ m = couriers_topic[i]
        \/ Reached(m.assignment, m.status)'
    BY TopicGrows
  <2> QED
    BY <2>1, <2>2 DEF Reached
<1>4. ASSUME NEW i \in 1 .. Len(courier_outbox')
      PROVE  Reached(courier_outbox[i].assignment, courier_outbox[i].status)'
  <2> PICK m : m = courier_outbox'[i]
    OBVIOUS
  <2>1. ASSUME i \in 1 .. Len(courier_outbox), m = courier_outbox[i]
        PROVE  Reached(m.assignment, m.status)'
    <3>1. m \in Message /\ Reached(m.assignment, m.status)
      BY <2>1, ElementOfSeq DEF TopicsInType, Announced
    <3> QED
      BY <3>1 DEF Message
  <2>2. \/ i \in 1 .. Len(courier_outbox) /\ m = courier_outbox[i]
        \/ Reached(m.assignment, m.status)'
    BY OutboxGrows
  <2> QED
    BY <2>1, <2>2 DEF Reached
<1> QED
  BY <1>1, <1>2, <1>3, <1>4 DEF Announced

\* Nothing was announced at first.
LEMMA CouriersInvInit == SagaInit => CouriersInv
<1> SUFFICES ASSUME SagaInit PROVE CouriersInv
  OBVIOUS
<1> USE CourierSentinels
<1>1. TopicsInType
  BY EmptySeq DEF SagaInit, TopicsInType
<1>2. \A s \in Threads : courier_txn[s] = NoTxn
  BY DEF SagaInit, Threads
<1>3. \A a \in Assignments : /\ assignments[a] = CP!NoAssignmentRow
                             /\ assignments[a].status = "none"
                             /\ assignments[a].courier_id = None
  BY DEF SagaInit, C!NoAssignmentRow, CP!NoAssignmentRow
<1>4. CP!TypeOK
  <2>1. couriers \in [Couriers -> CP!Courier]
    BY DEF SagaInit, CP!Courier, CP!CourierAvailability
  <2>2. assignment_outbox \in [Assignments -> Seq(CP!AssignmentStatus)]
    BY EmptySeq DEF SagaInit
  <2>3. courier_txn \in [CP!Sessions -> {NoTxn}]
    BY DEF SagaInit, CP!Sessions
  <2>4. assignments \in [Assignments -> {CP!NoAssignmentRow}]
    BY DEF SagaInit, C!NoAssignmentRow, CP!NoAssignmentRow
  <2> QED
    BY <2>1, <2>2, <2>3, <2>4 DEF CP!TypeOK, SagaInit
<1>5. CP!SerialInv
  <2>1. \A s \in CP!Sessions : courier_txn[s] = NoTxn
    BY <1>2 DEF CP!Sessions, Threads
  <2>2. CP!TypeInv /\ CP!NoConflict /\ CP!OneEach
    BY <1>3, <1>4, <2>1 DEF CP!TypeInv, CP!NoConflict, CP!OneEach
  <2>3. \A c \in Couriers : CP!Active(c) = {} /\ couriers[c].availability = "offline"
    BY <1>3, CourierSentinels DEF CP!Active, SagaInit, CP!SentinelAssumption
  <2> QED
    BY <2>1, <2>2, <2>3 DEF CP!SerialInv, CP!BusyExactly
<1>6. OneCourierTxn
  BY <1>2 DEF OneCourierTxn
<1>7. \A a \in Assignments : \A v : ~Reached(a, v)
  BY EmptySeq DEF Reached, SagaInit
<1>8. StatusesReached
  BY <1>3, <1>7 DEF StatusesReached
<1>9. Announced
  BY EmptySeq DEF Announced, SagaInit
<1> QED
  BY <1>1, <1>5, <1>6, <1>8, <1>9 DEF CouriersInv

\* CouriersInv is inductive: what a step announces it reached.
LEMMA CouriersInvNext == CouriersInv /\ [SagaNext]_sagaVars => CouriersInv'
<1> SUFFICES ASSUME CouriersInv, [SagaNext]_sagaVars PROVE CouriersInv'
  OBVIOUS
<1>0. TopicsInType /\ CP!SerialInv /\ OneCourierTxn /\ StatusesReached /\ Announced
      /\ CP!TypeInv /\ CP!TypeOK
  BY DEF CouriersInv, CP!SerialInv, CP!TypeInv
<1>1. CASE UNCHANGED sagaVars
  <2>1. CP!SerialInv'
    BY <1>0, <1>1, CP!SerialInvInductive, CourierSentinels
    DEF sagaVars, courierVars, CP!vars
  <2>2. TopicsInType' /\ OneCourierTxn' /\ StatusesReached' /\ Announced'
    BY <1>0, <1>1 DEF sagaVars, topicVars, ordersTopicVars, outboxVars, couriersTopicVars,
       courierVars, TopicsInType, OneCourierTxn, StatusesReached, Announced, Reached, Later, CP!AssignmentStatus
  <2> QED
    BY <2>1, <2>2 DEF CouriersInv
<1>2. CASE SagaNext
  <2>1. OneCourierTxn' /\ (CP!Next \/ UNCHANGED courierVars)
    BY <1>0, <1>2, StepsOfTheCourierService
  <2>2. CP!SerialInv'
    <3>1. CP!NoConflict'
      BY <2>1 DEF OneCourierTxn, CP!NoConflict, CP!Sessions, Threads
    <3>2. [CP!Next /\ CP!NoConflict']_(CP!vars)
      BY <2>1, <3>1 DEF courierVars, CP!vars
    <3> QED
      BY <1>0, <3>2, CP!SerialInvInductive, CourierSentinels
  <2>3. orders_topic' \in Seq(Orders) /\ orders_offset' \in Nat /\ couriers_offset' \in Nat
    BY <1>0, <1>2, OffsetsInType
  <2>4. \/ UNCHANGED dead_letters
        \/ HasNext /\ dead_letters' = dead_letters \cup {NextMessage}
    BY <1>2, DeadLettersGrow
  <2>5. dead_letters' \subseteq Message /\ \A m \in dead_letters' : Reached(m.assignment, m.status)
    BY <1>0, <2>4, NextMessageInTopic DEF TopicsInType, Announced, NextMessage
  <2>6. \/ Quiet /\ UNCHANGED <<couriers_topic, published>>
        \/ \E i \in Pending : Publishes(i)
        \/ Replays
        \/ \E a \in Assignments, c \in Couriers, o \in Orders : Assigned(a, c, o)
        \/ \E a \in Assignments, v \in CP!AssignmentStatus : Moved(a, v)
    BY <1>0, <1>2, AssignmentSteps
  <2>7. /\ StatusesReached'
        /\ \A a \in Assignments : \A v : Reached(a, v) => Reached(a, v)'
    <3>1. CASE Quiet
      BY <1>0, <3>1 DEF Quiet, StatusesReached, Reached, Later, CP!AssignmentStatus
    <3>2. CASE \/ \E a \in Assignments, c \in Couriers, o \in Orders : Assigned(a, c, o)
               \/ \E a \in Assignments, v \in CP!AssignmentStatus : Moved(a, v)
      BY <1>0, <3>2, StatusesReachedOn, AssignedRow, MovedRow
    <3> QED
      BY <2>6, <3>1, <3>2 DEF Publishes, Replays
  <2>8. \/ UNCHANGED couriers_topic
        \/ \E m \in Message : /\ couriers_topic' = Append(couriers_topic, m)
                               /\ Reached(m.assignment, m.status)'
    <3>1. ASSUME NEW m \in dead_letters, couriers_topic' = Append(couriers_topic, m)
          PROVE  m \in Message /\ Reached(m.assignment, m.status)'
      BY <1>0, <2>7 DEF Announced, TopicsInType, Message
    <3>2. ASSUME NEW i \in Pending, Publishes(i)
          PROVE  \E m \in Message : /\ couriers_topic' = Append(couriers_topic, m)
                                    /\ Reached(m.assignment, m.status)'
      <4>1. i \in 1 .. Len(courier_outbox) /\ courier_outbox[i] \in Message
        BY <1>0, ElementOfSeq DEF Pending, TopicsInType
      <4> QED
        BY <1>0, <2>7, <3>2, <4>1 DEF Publishes, Announced, Message
    <3> QED
      BY <2>6, <3>1, <3>2 DEF Assigned, Moved, Replays
  <2>9. \/ UNCHANGED courier_outbox
        \/ \E m \in Message : /\ courier_outbox' = Append(courier_outbox, m)
                               /\ Reached(m.assignment, m.status)'
    <3>2. ASSUME NEW a \in Assignments, NEW c \in Couriers, NEW o \in Orders, Assigned(a, c, o)
          PROVE  \E m \in Message : /\ courier_outbox' = Append(courier_outbox, m)
                                    /\ Reached(m.assignment, m.status)'
      <4> DEFINE m == [assignment |-> a, status |-> "assigned"]
      <4>1. m \in Message /\ courier_outbox' = Append(courier_outbox, m)
        BY <3>2 DEF Assigned, Message
      <4>2. Reached(a, "assigned")' /\ m.assignment = a /\ m.status = "assigned"
        BY <1>0, <3>2, AssignedRow
      <4> HIDE DEF m
      <4> QED
        BY <4>1, <4>2
    <3>3. ASSUME NEW a \in Assignments, NEW v \in CP!AssignmentStatus, Moved(a, v)
          PROVE  \E m \in Message : /\ courier_outbox' = Append(courier_outbox, m)
                                    /\ Reached(m.assignment, m.status)'
      <4> DEFINE m == [assignment |-> a, status |-> v]
      <4>1. m \in Message /\ courier_outbox' = Append(courier_outbox, m)
        BY <3>3 DEF Moved, Message, CP!AssignmentStatus
      <4>2. Reached(a, v)' /\ m.assignment = a /\ m.status = v
        BY <1>0, <3>3, MovedRow
      <4> HIDE DEF m
      <4> QED
        BY <4>1, <4>2
    <3> QED
      BY <2>6, <3>2, <3>3 DEF Quiet, Publishes, Replays
  <2>10. courier_outbox' \in Seq(Message) /\ couriers_topic' \in Seq(Message) /\ Announced'
    BY <1>0, <2>5, <2>7, <2>8, <2>9, AnnouncedGrows
  <2>11. TopicsInType'
    BY <2>3, <2>5, <2>10 DEF TopicsInType
  <2> QED
    BY <2>1, <2>2, <2>7, <2>10, <2>11 DEF CouriersInv
<1> QED
  BY <1>1, <1>2

\* What the messages say was done, in every state.
LEMMA CouriersInvariant == SagaSpec => []CouriersInv
BY CouriersInvInit, CouriersInvNext, PTL DEF SagaSpec, sagaVars

-----------------------------------------------------------------------------
(* The orders' side: its steps are those of the order service.             *)

\* The order service has one transaction open at a time.
OneOrderTxn ==
    \A s, t \in Threads : order_txn[s] # NoTxn /\ order_txn[t] # NoTxn => s = t

\* The steps of SagaNext are steps of the order service, which opens one
\* transaction at a time.
LEMMA StepsOfTheOrderService ==
    ASSUME CouriersInv, SagaNext
    PROVE  /\ OP!Next \/ UNCHANGED orderVars
           /\ OP!TypeOK /\ OneOrderTxn => OneOrderTxn'
<1> USE SameOrderSteps
<1>0. OP!Sessions = Threads
  BY DEF OP!Sessions, Threads
<1>1. ASSUME UNCHANGED orderVars
      PROVE  /\ OP!Next \/ UNCHANGED orderVars
             /\ OP!TypeOK /\ OneOrderTxn => OneOrderTxn'
  BY <1>1 DEF orderVars, OneOrderTxn
<1>2. ASSUME NEW o \in Orders, create_order(o)
      PROVE  /\ OP!Next
             /\ OneOrderTxn => OneOrderTxn'
  BY <1>2 DEF create_order, OP!Next, O!create_order, OneOrderTxn
<1>3. ASSUME NEW o \in Orders, cancel_order(o)
      PROVE  /\ OP!Next
             /\ OP!TypeOK /\ OneOrderTxn => OneOrderTxn'
  <2>1. OP!Next
    BY <1>0, <1>3 DEF cancel_order, OP!Next, Threads
  <2>2. NoneOpen /\ \E t : order_txn' = [order_txn EXCEPT ![Http] = t]
    BY <1>3 DEF cancel_order, O!cancel_order, O!Stage
  <2> QED
    BY <2>1, <2>2 DEF NoneOpen, OneOrderTxn, Threads, OP!TypeOK, OP!Sessions
<1>4. CASE apply_courier_event
  <2> DEFINE a == assignments[NextMessage.assignment]
  <2>1. HasNext /\ apply(NextMessage)
    BY <1>4 DEF apply_courier_event
  <2>2. NextMessage \in Message /\ Reached(NextMessage.assignment, NextMessage.status)
    BY <2>1, NextMessageInTopic DEF CouriersInv, Announced, NextMessage
  <2>3. a \in CP!Assignment
    BY <2>2, AnnouncedRow DEF CouriersInv, CP!SerialInv, CP!TypeInv
  <2>4. a.order_id \in Orders /\ a.courier_id \in Couriers
        /\ NextMessage.status \in OP!AssignmentStatus
    BY <2>2, <2>3 DEF CP!Assignment, Message, OP!AssignmentStatus
  <2>5. \/ O!apply_courier_assigned(Kafka, a.order_id, a.courier_id)
        \/ O!apply_assignment_status_changed(Kafka, a.order_id, a.courier_id, NextMessage.status)
    BY <2>1 DEF apply
  <2> HIDE DEF a
  <2>6. OP!Next
    BY <1>0, <2>4, <2>5 DEF OP!Next, Threads
  <2>7. NoneOpen /\ \E t : order_txn' = [order_txn EXCEPT ![Kafka] = t]
    BY <2>1, <2>5 DEF HasNext, O!apply_courier_assigned, O!apply_assignment_status_changed, O!Stage
  <2> QED
    BY <2>6, <2>7 DEF NoneOpen, OneOrderTxn, Threads, OP!TypeOK, OP!Sessions
<1>5. CASE commit_cancel \/ commit_courier_event \/ apply_fails
  <2>1. \E s \in Threads : O!Commit(s) \/ O!Rollback(s)
    BY <1>5 DEF commit_cancel, commit_courier_event, apply_fails, Threads
  <2>2. OP!Next
    BY <1>0, <2>1 DEF OP!Next
  <2>3. \E s \in Threads : order_txn' = [order_txn EXCEPT ![s] = NoTxn]
    BY <2>1 DEF O!Commit, O!Rollback
  <2> QED
    BY <2>2, <2>3 DEF OneOrderTxn, Threads, OP!TypeOK, OP!Sessions
<1>6. CASE courier_request \/ courier_request_goes_on \/ auto_assign_fails
           \/ consume_order_created \/ order_created_goes_on
  BY <1>1, <1>6 DEF courier_request, courier_request_goes_on, auto_assign_fails,
     consume_order_created, order_created_goes_on, CourierStep
<1>7. CASE \/ ignore_courier_event \/ redeliver \/ dead_letter \/ run_replay
           \/ dead_letter_order_created
           \/ \E i \in Pending : publish(i)
           \/ \E o \in Orders : publish_order_created(o)
  BY <1>1, <1>7 DEF ignore_courier_event, redeliver, dead_letter, run_replay,
     dead_letter_order_created, publish, publish_order_created
<1> QED
  BY <1>2, <1>3, <1>4, <1>5, <1>6, <1>7 DEF SagaNext

\* The saga implements the order service ...
LEMMA SagaIsOrderSpec == SagaSpec => OP!Spec
<1>1. SagaInit => OP!Init
  BY DEF SagaInit, O!Init, OP!Init, O!NoRow, OP!NoRow, O!Sessions, OP!Sessions
<1>2. CouriersInv /\ [SagaNext]_sagaVars => [OP!Next]_(OP!vars)
  BY StepsOfTheOrderService DEF sagaVars, orderVars, OP!vars
<1> QED
  BY <1>1, <1>2, CouriersInvariant, PTL DEF SagaSpec, sagaVars, OP!Spec

\* ... in its serial executions.
LEMMA SagaIsOrderSerialSpec == SagaSpec => []OneOrderTxn /\ OP!SerialSpec
<1>1. SagaInit => OneOrderTxn /\ OP!Init
  BY DEF SagaInit, O!Init, OP!Init, O!NoRow, OP!NoRow, O!Sessions, OP!Sessions, OneOrderTxn, Threads
<1>2. OP!TypeOK /\ CouriersInv /\ OneOrderTxn /\ [SagaNext]_sagaVars
        => OneOrderTxn' /\ [OP!Next /\ OP!OneTxnPerOrder']_(OP!vars)
  <2> SUFFICES ASSUME OP!TypeOK, CouriersInv, OneOrderTxn, [SagaNext]_sagaVars
               PROVE  OneOrderTxn' /\ [OP!Next /\ OP!OneTxnPerOrder']_(OP!vars)
    OBVIOUS
  <2>1. OneOrderTxn'
    BY StepsOfTheOrderService DEF OneOrderTxn, sagaVars, orderVars
  <2>2. OP!OneTxnPerOrder'
    BY <2>1 DEF OneOrderTxn, OP!OneTxnPerOrder, OP!Sessions, Threads
  <2> QED
    BY <2>1, <2>2, StepsOfTheOrderService DEF sagaVars, orderVars, OP!vars
<1>3. OP!Spec => []OP!TypeOK
  BY OrderSentinels, OP!TypeCorrect
<1> QED
  BY <1>1, <1>2, <1>3, CouriersInvariant, SagaIsOrderSpec, PTL DEF SagaSpec, sagaVars, OP!SerialSpec

\* The invariant of the orders' side.
OrderServiceInv == OP!HistoryInv /\ OP!SerialInv /\ OneOrderTxn

\* What OrderServiceProofs shows of serial executions, here.
LEMMA OrderServiceInvariant == SagaSpec => []OrderServiceInv
<1>1. OP!SerialSpec => [](OP!HistoryInv /\ OP!SerialInv)
  BY OrderSentinels, OP!SerialInvariant
<1>2. OP!HistoryInv /\ OP!SerialInv /\ OneOrderTxn => OrderServiceInv
  BY DEF OrderServiceInv
<1> QED
  BY <1>1, <1>2, SagaIsOrderSerialSpec, PTL

-----------------------------------------------------------------------------
(* What the steps do to the orders and the messages dealt with.            *)

\* The message that transaction t is for.
Applies(t, m) ==
    LET a == assignments[m.assignment]
        target == OP!order_status_for_assignment_status(m.status)
    IN  /\ t.order = a.order_id
        /\ IF m.status = "assigned"
           THEN t.new.status = "courier_assigned" /\ t.new.courier_id = a.courier_id
           ELSE /\ t.old.courier_id = a.courier_id
                /\ t.new.status = target
                /\ t.new.courier_id = IF target = "waiting_for_courier" THEN None
                                      ELSE t.old.courier_id

\* A new order.
Created(o) ==
    /\ orders[o].status = "none"
    /\ orders' = [orders EXCEPT ![o] = [status |-> "created", courier_id |-> None,
                                        cancelled_at |-> FALSE]]
    /\ UNCHANGED <<order_txn, couriers_offset>>

\* The customer's transaction opens.
CancelBegins ==
    /\ \E t : /\ t # NoTxn
              /\ t.new.status = "cancelled"
              /\ order_txn' = [order_txn EXCEPT ![Http] = t]
    /\ UNCHANGED <<orders, couriers_offset>>

\* The consumer's transaction opens, for the next message.
ApplyBegins ==
    /\ HasNext
    /\ \E t : /\ Applies(t, NextMessage)
              /\ order_txn' = [order_txn EXCEPT ![Kafka] = t]
    /\ UNCHANGED <<orders, couriers_offset>>

\* The consumer's transaction is rolled back.
Abandoned ==
    /\ order_txn' = [order_txn EXCEPT ![Kafka] = NoTxn]
    /\ UNCHANGED <<orders, couriers_offset>>

\* Passed without effect, or given up.
Passed ==
    /\ HasNext
    /\ Ignores(NextMessage) \/ OrderOf(NextMessage) \in disturbed'
    /\ couriers_offset' = couriers_offset + 1
    /\ UNCHANGED <<orders, order_txn>>

\* The last message comes again.
Returned ==
    /\ NoneOpen
    /\ couriers_offset > 0
    /\ couriers_offset' = couriers_offset - 1
    /\ UNCHANGED <<orders, order_txn>>

\* Nothing but the offset, and perhaps an order, changes.
Still == UNCHANGED <<assignments, assignment_outbox, couriers_topic>>

\* What a step does to the orders and to what was dealt with: only the couriers' own
\* steps, publishing and a replay change an assignment or the topic.
LEMMA OrderSteps ==
    ASSUME CouriersInv, OrderServiceInv, SagaNext
    PROVE  \/ UNCHANGED <<orders, order_txn, couriers_offset>>
           \/ /\ Still
              /\ \/ \E o \in Orders : Created(o)
                 \/ CancelBegins
                 \/ ApplyBegins
                 \/ Abandoned
                 \/ Passed
                 \/ Returned
                 \/ OP!Commit(Http) /\ UNCHANGED couriers_offset
                 \/ OP!Commit(Kafka) /\ couriers_offset' = couriers_offset + 1
<1> USE SameOrderSteps
<1>0. OP!TypeOK
  BY DEF OrderServiceInv, OP!HistoryInv, OP!TypeInv
<1> USE DEF Still
<1>1. ASSUME NEW o \in Orders, create_order(o)
      PROVE  Still /\ Created(o)
  BY <1>1 DEF create_order, courierVars, couriersTopicVars, Created, O!create_order, O!NoRow
<1>2. ASSUME NEW o \in Orders, cancel_order(o)
      PROVE  Still /\ CancelBegins
  <2> DEFINE row == [orders[o] EXCEPT !.status = "cancelled", !.cancelled_at = TRUE]
             t == [order |-> o, old |-> orders[o], new |-> row, event_type |-> "order_cancelled"]
  <2>1. /\ orders[o].status # "none" /\ order_txn' = [order_txn EXCEPT ![Http] = t]
        /\ UNCHANGED <<orders, couriers_offset>> /\ Still
    BY <1>2 DEF cancel_order, O!cancel_order, O!Stage, O!MayBecome, OrderStep, courierVars
  <2>2. orders[o] \in OP!Row
    BY <1>0, <2>1 DEF OP!TypeOK, OP!NoRow
  <2>3. t.new.status = "cancelled" /\ t \in OP!Txn
    BY <2>2 DEF OP!Row, OP!Txn, OP!OrderStatus, OP!EventTypes
  <2>4. t # NoTxn
    BY <2>3, OrderSentinels DEF OP!SentinelAssumption
  <2> QED
    BY <2>1, <2>3, <2>4 DEF CancelBegins
<1>3. CASE apply_courier_event
  <2> DEFINE m == NextMessage
             a == assignments[m.assignment]
  <2>1. HasNext /\ apply(m) /\ UNCHANGED <<orders, couriers_offset>> /\ Still
    BY <1>3 DEF apply_courier_event, OrderStep, courierVars, apply, O!apply_courier_assigned,
       O!apply_assignment_status_changed, O!Stage
  <2>2. CASE m.status = "assigned"
    <3> DEFINE row == [orders[a.order_id] EXCEPT !.status = "courier_assigned",
                                                 !.courier_id = a.courier_id]
               t == [order |-> a.order_id, old |-> orders[a.order_id], new |-> row,
                     event_type |-> "courier_assigned"]
    <3>1. /\ OP!apply_courier_assigned(Kafka, a.order_id, a.courier_id)
      BY <2>1, <2>2 DEF apply
    <3>2. /\ orders[a.order_id].status # "none"
          /\ order_txn' = [order_txn EXCEPT ![Kafka] = t]
      BY <3>1 DEF OP!apply_courier_assigned, OP!Stage, OP!MayBecome
    <3>3. a.order_id \in Orders
      <4>1. m \in Message /\ Reached(m.assignment, m.status)
        BY <2>1, NextMessageInTopic DEF CouriersInv, Announced, NextMessage
      <4> QED
        BY <4>1, AnnouncedRow DEF CouriersInv, CP!SerialInv, CP!TypeInv, CP!Assignment
    <3>4. orders[a.order_id] \in OP!Row
      BY <1>0, <3>2, <3>3 DEF OP!TypeOK, OP!NoRow
    <3>5. row.status = "courier_assigned" /\ row.courier_id = a.courier_id
      BY <3>4 DEF OP!Row
    <3> HIDE DEF row
    <3>6. Applies(t, m)
      BY <2>2, <3>5 DEF Applies
    <3> QED
      BY <2>1, <3>2, <3>6 DEF ApplyBegins
  <2>3. CASE m.status # "assigned"
    <3> DEFINE target == OP!order_status_for_assignment_status(m.status)
               row == [orders[a.order_id] EXCEPT !.status = target,
                         !.courier_id = IF target = "waiting_for_courier" THEN None ELSE @]
               t == [order |-> a.order_id, old |-> orders[a.order_id], new |-> row,
                     event_type |-> OP!event_type_for_status(target)]
    <3>1. OP!apply_assignment_status_changed(Kafka, a.order_id, a.courier_id, m.status)
      BY <2>1, <2>3 DEF apply
    <3>2. /\ orders[a.order_id].status # "none"
          /\ orders[a.order_id].courier_id = a.courier_id
          /\ order_txn' = [order_txn EXCEPT ![Kafka] = t]
      BY <3>1 DEF OP!apply_assignment_status_changed, OP!Stage, OP!MayBecome
    <3>3. a.order_id \in Orders
      <4>1. m \in Message /\ Reached(m.assignment, m.status)
        BY <2>1, NextMessageInTopic DEF CouriersInv, Announced, NextMessage
      <4> QED
        BY <4>1, AnnouncedRow DEF CouriersInv, CP!SerialInv, CP!TypeInv, CP!Assignment
    <3>4. orders[a.order_id] \in OP!Row
      BY <1>0, <3>2, <3>3 DEF OP!TypeOK, OP!NoRow
    <3> HIDE DEF target
    <3>5. /\ row.status = target
          /\ row.courier_id = IF target = "waiting_for_courier" THEN None
                              ELSE orders[a.order_id].courier_id
      BY <3>4 DEF OP!Row
    <3> HIDE DEF row
    <3>6. Applies(t, m)
      BY <2>3, <3>2, <3>5 DEF Applies, target
    <3> QED
      BY <2>1, <3>2, <3>6 DEF ApplyBegins
  <2> QED
    BY <2>2, <2>3
<1>4. CASE commit_cancel
  BY <1>4 DEF commit_cancel, OrderStep, courierVars
<1>5. CASE commit_courier_event
  BY <1>5 DEF commit_courier_event, OrderStep, courierVars
<1>6. CASE apply_fails
  BY <1>6 DEF apply_fails, O!Rollback, OrderStep, courierVars, Abandoned
<1>7. CASE ignore_courier_event
  BY <1>7 DEF ignore_courier_event, OrderStep, orderVars, courierVars, Passed
<1>8. CASE dead_letter
  BY <1>8 DEF dead_letter, orderVars, courierVars, Passed
<1>9. CASE redeliver
  BY <1>9 DEF redeliver, orderVars, courierVars, Returned
<1>10. CASE courier_request \/ courier_request_goes_on \/ auto_assign_fails
            \/ consume_order_created \/ order_created_goes_on
  BY <1>10 DEF courier_request, courier_request_goes_on, auto_assign_fails,
     consume_order_created, order_created_goes_on, CourierStep, orderVars, couriersTopicVars
<1>11. CASE \/ run_replay \/ dead_letter_order_created
            \/ \E i \in Pending : publish(i)
            \/ \E o \in Orders : publish_order_created(o)
  BY <1>11 DEF run_replay, dead_letter_order_created, publish, publish_order_created,
     orderVars, couriersTopicVars
<1> QED
  BY <1>1, <1>2, <1>3, <1>4, <1>5, <1>6, <1>7, <1>8, <1>9, <1>10, <1>11 DEF SagaNext

-----------------------------------------------------------------------------
(* What orders claim.                                                      *)

\* What row claims of order o is so.
Claims(o, row) ==
    LET by == {a \in AssignmentsOf(o) : assignments[a].courier_id = row.courier_id}
    IN  /\ row.status = "courier_assigned" => by # {}
        /\ row.status = "in_delivery" => \E a \in by : Reached(a, "accepted")
        /\ row.status = "delivered" => \E a \in by : Reached(a, "delivered")
        /\ row.status = "waiting_for_courier" => AssignmentsOf(o) # {}

\* An open transaction cancels, or applies the next message.
InHand ==
    /\ couriers_offset <= Len(couriers_topic)
    /\ order_txn[Http] # NoTxn => order_txn[Http].new.status = "cancelled"
    /\ order_txn[Kafka] # NoTxn =>
          couriers_offset < Len(couriers_topic) /\ Applies(order_txn[Kafka], NextMessage)

\* Every open transaction and every order is as the couriers are.
ClaimsInv == InHand /\ \A o \in Orders : Claims(o, orders[o])

\* An assignment keeps its order and courier and what it reached, and the topic
\* its messages.
LEMMA Growth ==
    ASSUME CouriersInv, SagaNext
    PROVE  /\ \A a \in Assignments : assignments[a] \in CP!Assignment =>
                 /\ assignments'[a].order_id = assignments[a].order_id
                 /\ assignments'[a].courier_id = assignments[a].courier_id
           /\ \A a \in Assignments : \A v : Reached(a, v) => Reached(a, v)'
           /\ Len(couriers_topic) \in Nat /\ Len(couriers_topic') \in Nat
           /\ Len(couriers_topic) <= Len(couriers_topic')
           /\ \A i \in 1 .. Len(couriers_topic) : couriers_topic'[i] = couriers_topic[i]
<1>0. TopicsInType /\ CP!SerialInv /\ CP!TypeOK /\ Announced
  BY DEF CouriersInv, CP!SerialInv, CP!TypeInv
<1>1. ASSUME Quiet
      PROVE  /\ \A a \in Assignments : assignments'[a] = assignments[a]
             /\ \A a \in Assignments : \A v : Reached(a, v) => Reached(a, v)'
  BY <1>1 DEF Quiet, Reached
<1>2. ASSUME NEW a \in Assignments, NEW c \in Couriers, NEW o \in Orders, Assigned(a, c, o)
      PROVE  /\ \A b \in Assignments : assignments[b] \in CP!Assignment =>
                   assignments'[b] = assignments[b]
             /\ \A b \in Assignments : \A v : Reached(b, v) => Reached(b, v)'
  <2>1. assignments[a] \notin CP!Assignment
    BY <1>2, CourierSentinels
    DEF Assigned, CP!NoAssignmentRow, CP!Assignment, CP!AssignmentStatus
  <2> QED
    BY <1>0, <1>2, <2>1, AssignedRow
<1>3. ASSUME NEW a \in Assignments, NEW v \in CP!AssignmentStatus, Moved(a, v)
      PROVE  /\ \A b \in Assignments : /\ assignments'[b].order_id = assignments[b].order_id
                                       /\ assignments'[b].courier_id = assignments[b].courier_id
             /\ \A b \in Assignments : \A w : Reached(b, w) => Reached(b, w)'
  BY <1>0, <1>3, MovedRow
<1>4. \/ UNCHANGED couriers_topic
      \/ \E m \in Message : couriers_topic' = Append(couriers_topic, m)
  <2>1. \A i \in Pending : courier_outbox[i] \in Message
    BY <1>0, ElementOfSeq DEF Pending, TopicsInType
  <2> QED
    BY <1>0, <2>1, AssignmentSteps DEF Publishes, Replays, Assigned, Moved, TopicsInType
<1>5. /\ Len(couriers_topic) \in Nat /\ Len(couriers_topic') \in Nat
      /\ Len(couriers_topic) <= Len(couriers_topic')
      /\ \A i \in 1 .. Len(couriers_topic) : couriers_topic'[i] = couriers_topic[i]
  BY <1>0, <1>4, TopicGrows, LenProperties DEF TopicsInType
<1> QED
  BY <1>0, <1>1, <1>2, <1>3, <1>5, AssignmentSteps DEF Publishes, Replays

\* The assignments of an order.
LEMMA AssignmentRows ==
    ASSUME CP!TypeOK, NEW o \in Orders, NEW a \in AssignmentsOf(o)
    PROVE  a \in Assignments /\ assignments[a] \in CP!Assignment /\ assignments[a].order_id = o
BY CP!Rows, CourierSentinels DEF AssignmentsOf

\* What a row claims stays so ...
LEMMA ClaimsStay ==
    ASSUME CouriersInv, SagaNext, NEW o \in Orders, NEW row, Claims(o, row)
    PROVE  Claims(o, row)'
<1>1. CP!TypeOK
  BY DEF CouriersInv, CP!SerialInv, CP!TypeInv
<1>2. ASSUME NEW a \in AssignmentsOf(o)
      PROVE  /\ a \in AssignmentsOf(o)'
             /\ assignments'[a].courier_id = assignments[a].courier_id
             /\ \A v : Reached(a, v) => Reached(a, v)'
  BY <1>1, <1>2, AssignmentRows, Growth DEF AssignmentsOf
<1> QED
  BY <1>2 DEF Claims

\* ... and a transaction stays the one of its message.
LEMMA AppliesOn ==
    ASSUME CouriersInv, SagaNext, NEW t, NEW m \in Message, Applies(t, m),
           Reached(m.assignment, m.status)
    PROVE  Applies(t, m)'
<1>1. assignments[m.assignment] \in CP!Assignment /\ m.assignment \in Assignments
  BY AnnouncedRow DEF CouriersInv, CP!SerialInv, CP!TypeInv, Message
<1>2. /\ assignments'[m.assignment].order_id = assignments[m.assignment].order_id
      /\ assignments'[m.assignment].courier_id = assignments[m.assignment].courier_id
  BY <1>1, Growth
<1> QED
  BY <1>2 DEF Applies, OP!order_status_for_assignment_status

\* A message that is applied makes no claim that is not so.
LEMMA AppliedClaims ==
    ASSUME CouriersInv, NEW m \in Message, Reached(m.assignment, m.status),
           NEW t, Applies(t, m)
    PROVE  Claims(t.order, t.new)
<1> DEFINE a == m.assignment
           o == t.order
<1>0. CP!TypeOK /\ StatusesReached
  BY DEF CouriersInv, CP!SerialInv, CP!TypeInv
<1>1. a \in Assignments /\ assignments[a] \in CP!Assignment /\ m.status \in CP!AssignmentStatus
  BY <1>0, AnnouncedRow DEF Message, CP!AssignmentStatus
<1>2. a \in AssignmentsOf(o)
  BY <1>1 DEF AssignmentsOf, Applies
<1>3. m.status = "assigned" =>
         t.new.status = "courier_assigned" /\ t.new.courier_id = assignments[a].courier_id
  BY DEF Applies
<1>4. m.status \in {"accepted", "picked_up"} =>
         t.new.status = "in_delivery" /\ t.new.courier_id = assignments[a].courier_id
  BY DEF Applies, OP!order_status_for_assignment_status
<1>5. m.status = "delivered" =>
         t.new.status = "delivered" /\ t.new.courier_id = assignments[a].courier_id
  BY DEF Applies, OP!order_status_for_assignment_status
<1>6. m.status = "cancelled" => t.new.status = "waiting_for_courier"
  BY DEF Applies, OP!order_status_for_assignment_status
<1>7. m.status = "picked_up" => Reached(a, "accepted")
  BY <1>0, <1>1 DEF StatusesReached, Later
<1> HIDE DEF a, o
<1> QED
  BY <1>1, <1>2, <1>3, <1>4, <1>5, <1>6, <1>7 DEF Claims, CP!AssignmentStatus, a, o

\* A commit leaves the order as the transaction meant to.
LEMMA CommitLeaves ==
    ASSUME OrderServiceInv, NEW s \in Threads, OP!Commit(s)
    PROVE  LET t == order_txn[s]
           IN  /\ t # NoTxn /\ t \in OP!Txn /\ t.order \in Orders
               /\ t.old = orders[t.order]
               /\ OP!ValidChange(t.old, t.new)
               /\ orders' = [orders EXCEPT ![t.order] = t.new]
               /\ orders'[t.order] = t.new
               /\ \A o \in Orders : o # t.order => orders'[o] = orders[o]
               /\ order_txn' = [order_txn EXCEPT ![s] = NoTxn]
<1> DEFINE t == order_txn[s]
<1>0. OP!TypeOK /\ OP!StagedChangesValid /\ OP!SnapshotIsCurrent /\ s \in OP!Sessions
  BY DEF OrderServiceInv, OP!HistoryInv, OP!SerialInv, OP!TypeInv, OP!Sessions, Threads
<1>1. /\ t # NoTxn /\ t \in OP!Txn /\ t.order \in Orders
      /\ t.old = orders[t.order] /\ OP!ValidChange(t.old, t.new)
  BY <1>0 DEF OP!Commit, OP!TypeOK, OP!Txn, OP!StagedChangesValid, OP!SnapshotIsCurrent
<1>2. OP!UpdateChangedColumns(orders[t.order], t) = t.new
  BY <1>1, OP!UpdateOfCurrentRow, OrderSentinels
<1>3. /\ orders' = [orders EXCEPT ![t.order] = t.new]
      /\ order_txn' = [order_txn EXCEPT ![s] = NoTxn]
  BY <1>2 DEF OP!Commit
<1> QED
  BY <1>0, <1>1, <1>3 DEF OP!TypeOK

\* ClaimsInv is inductive: a commit cancels, or applies a message that says what
\* was reached.
LEMMA ClaimsInvNext ==
    ASSUME CouriersInv, CouriersInv', OrderServiceInv, ClaimsInv, [SagaNext]_sagaVars
    PROVE  ClaimsInv'
<1>1. CASE UNCHANGED sagaVars
  BY <1>1 DEF sagaVars, orderVars, courierVars, topicVars, couriersTopicVars, ClaimsInv, InHand,
     Claims, Applies,
     NextMessage, AssignmentsOf, Reached, OP!order_status_for_assignment_status
<1>2. CASE SagaNext
  <2> USE <1>2
  <2>0. /\ CP!TypeOK /\ TopicsInType /\ StatusesReached /\ Announced
        /\ OP!TypeOK /\ couriers_offset \in Nat
    BY DEF CouriersInv, CP!SerialInv, CP!TypeInv, OrderServiceInv, OP!HistoryInv,
       OP!TypeInv, TopicsInType
  <2>1. order_txn \in [Threads -> OP!Txn \cup {NoTxn}] /\ Http \in Threads /\ Kafka \in Threads
        /\ Http # Kafka
    BY <2>0, SagaAssumption DEF OP!TypeOK, OP!Sessions, Threads
  <2>2. ASSUME couriers_offset < Len(couriers_topic)
        PROVE  /\ NextMessage \in Message
               /\ Reached(NextMessage.assignment, NextMessage.status)
               /\ couriers_topic'[couriers_offset + 1] = NextMessage
    <3>1. couriers_offset + 1 \in 1 .. Len(couriers_topic)
      BY <2>0, <2>2, LenProperties DEF TopicsInType
    <3> QED
      BY <2>0, <3>1, ElementOfSeq, Growth DEF TopicsInType, Announced, NextMessage
  <2>3. ASSUME NEW t, Applies(t, NextMessage), couriers_offset < Len(couriers_topic),
               couriers_offset' = couriers_offset, order_txn'[Kafka] = t
        PROVE  couriers_offset' < Len(couriers_topic')
               /\ Applies(order_txn[Kafka], NextMessage)'
    <3> PICK m : m = NextMessage
      OBVIOUS
    <3>1. Applies(t, m)'
      BY <2>2, <2>3, AppliesOn
    <3>2. m = NextMessage'
      BY <2>2, <2>3 DEF NextMessage
    <3> PICK u : u = order_txn'[Kafka]
      OBVIOUS
    <3>3. Applies(order_txn[Kafka], NextMessage)' <=> Applies(u, m)'
      BY <3>2 DEF Applies, OP!order_status_for_assignment_status
    <3>4. couriers_offset < Len(couriers_topic')
      BY <2>0, <2>3, Growth
    <3> QED
      BY <2>3, <3>1, <3>3, <3>4
  <2>4. ASSUME NEW o \in Orders, NEW row, Claims(o, row), orders'[o] = row
        PROVE  Claims(o, orders[o])'
    BY <2>4, ClaimsStay DEF Claims
  <2>5. ASSUME UNCHANGED orders PROVE \A o \in Orders : Claims(o, orders[o])'
    BY <2>4, <2>5 DEF ClaimsInv
  <2>6. CASE UNCHANGED <<orders, order_txn, couriers_offset>>
    <3>1. InHand'
      BY <2>0, <2>3, <2>6, Growth DEF ClaimsInv, InHand
    <3> QED
      BY <2>5, <2>6, <3>1 DEF ClaimsInv
  <2> USE DEF Still
  <2>7. ASSUME NEW o \in Orders, Created(o), Still
        PROVE  ClaimsInv'
    <3>1. InHand'
      BY <2>0, <2>3, <2>7, Growth DEF ClaimsInv, InHand, Created
    <3>2. ASSUME NEW p \in Orders PROVE Claims(p, orders[p])'
      <4>1. CASE p # o
        BY <2>0, <2>4, <2>7, <4>1 DEF Created, ClaimsInv, OP!TypeOK
      <4>2. CASE p = o
        <5> PICK row : row = orders'[o]
          OBVIOUS
        <5>1. row.status = "created"
          BY <2>0, <2>7 DEF Created, OP!TypeOK
        <5>2. Claims(o, row)
          BY <5>1 DEF Claims
        <5> QED
          BY <2>4, <4>2, <5>2
      <4> QED
        BY <4>1, <4>2
    <3> QED
      BY <3>1, <3>2 DEF ClaimsInv
  <2>8. CASE CancelBegins /\ Still
    <3>1. InHand'
      BY <2>0, <2>1, <2>3, <2>8, Growth DEF ClaimsInv, InHand, CancelBegins
    <3> QED
      BY <2>5, <2>8, <3>1 DEF ClaimsInv, CancelBegins
  <2>9. CASE ApplyBegins /\ Still
    <3>1. InHand'
      BY <2>0, <2>1, <2>3, <2>9, Growth DEF ClaimsInv, InHand, ApplyBegins, HasNext
    <3> QED
      BY <2>5, <2>9, <3>1 DEF ClaimsInv, ApplyBegins
  <2>10. CASE Abandoned /\ Still
    <3>1. InHand'
      BY <2>0, <2>1, <2>10 DEF ClaimsInv, InHand, Abandoned
    <3> QED
      BY <2>5, <2>10, <3>1 DEF ClaimsInv, Abandoned
  <2>11. CASE (Passed \/ Returned) /\ Still
    <3>1. order_txn[Kafka] = NoTxn
      BY <2>11 DEF Passed, Returned, HasNext, NoneOpen
    <3>2. InHand'
      BY <2>0, <2>1, <2>11, <3>1, Growth DEF ClaimsInv, InHand, Passed, Returned, HasNext
    <3> QED
      BY <2>5, <2>11, <3>2 DEF ClaimsInv, Passed, Returned
  <2>12. ASSUME NEW s \in Threads, OP!Commit(s), Still,
                \/ s = Http /\ UNCHANGED couriers_offset
                \/ s = Kafka /\ couriers_offset' = couriers_offset + 1
         PROVE  ClaimsInv'
    <3> PICK t : t = order_txn[s]
      OBVIOUS
    <3>1. /\ t # NoTxn /\ t.order \in Orders
          /\ orders'[t.order] = t.new
          /\ \A o \in Orders : o # t.order => orders'[o] = orders[o]
          /\ order_txn' = [order_txn EXCEPT ![s] = NoTxn]
      BY <2>12, CommitLeaves
    <3>2. InHand'
      BY <2>0, <2>1, <2>3, <2>12, <3>1, Growth DEF ClaimsInv, InHand
    <3>3. Claims(t.order, t.new)
      <4>1. CASE s = Http
        BY <3>1, <4>1 DEF ClaimsInv, InHand, Claims
      <4>2. CASE s = Kafka
        BY <2>2, <3>1, <4>2, AppliedClaims DEF ClaimsInv, InHand
      <4> QED
        BY <2>12, <4>1, <4>2
    <3>4. \A o \in Orders : Claims(o, orders[o])'
      BY <2>4, <3>1, <3>3 DEF ClaimsInv
    <3> QED
      BY <3>2, <3>4 DEF ClaimsInv
  <2> QED
    BY <2>1, <2>6, <2>7, <2>8, <2>9, <2>10, <2>11, <2>12, OrderSteps
<1> QED
  BY <1>1, <1>2 DEF sagaVars

\* What an order claims was done, in every state.
LEMMA ClaimsInvariant == SagaSpec => []ClaimsInv
<1>1. SagaInit => ClaimsInv
  <2> SUFFICES ASSUME SagaInit PROVE ClaimsInv
    OBVIOUS
  <2>1. InHand
    BY EmptySeq DEF SagaInit, O!Init, O!Sessions, InHand
  <2>2. \A o \in Orders : orders[o].status = "none"
    BY DEF SagaInit, O!Init, O!NoRow
  <2> QED
    BY <2>1, <2>2 DEF ClaimsInv, Claims
<1> QED
  BY <1>1, ClaimsInvNext, CouriersInvariant, OrderServiceInvariant, PTL DEF SagaSpec, sagaVars

\* An order that is assigned, in delivery or delivered has a courier whose
\* assignment got at least as far, whatever was redelivered, dead-lettered or
\* replayed: each commit applies a message that was sent, of the order's courier.
THEOREM OrdersOnlyClaim == SagaSpec => []OrderOnlyClaims
<1>1. ClaimsInv => OrderOnlyClaims
  BY DEF ClaimsInv, Claims, OrderOnlyClaims
<1> QED
  BY <1>1, ClaimsInvariant, PTL

-----------------------------------------------------------------------------
(* What the courier service works on is an order that was created.         *)

\* An order in the topic, of an assignment or of an open transaction was created.
OrdersExist ==
    /\ \A i \in 1 .. Len(orders_topic) : orders[orders_topic[i]].status # "none"
    /\ \A a \in Assignments : \A o \in Orders :
          assignments[a].order_id = o => orders[o].status # "none"
    /\ \A s \in Threads : \A o \in Orders :
          courier_txn[s] # NoTxn /\ courier_txn[s].order = o => orders[o].status # "none"

\* An order that was created stays.
LEMMA OrdersStay ==
    ASSUME CouriersInv, OrderServiceInv, SagaNext, NEW o \in Orders,
           orders[o].status # "none"
    PROVE  orders'[o].status # "none"
<1>0. orders \in [Orders -> OP!Row \cup {OP!NoRow}]
  BY DEF OrderServiceInv, OP!HistoryInv, OP!TypeInv, OP!TypeOK
<1>1. CASE UNCHANGED orders
  BY <1>1
<1>2. CASE \E p \in Orders : Created(p)
  BY <1>0, <1>2 DEF Created
<1>3. ASSUME NEW s \in Threads, OP!Commit(s)
      PROVE  orders'[o].status # "none"
  <2> PICK t : t = order_txn[s]
    OBVIOUS
  <2>1. /\ OP!ValidChange(t.old, t.new)
        /\ orders'[t.order] = t.new
        /\ o # t.order => orders'[o] = orders[o]
    BY <1>3, CommitLeaves
  <2>2. t.new.status \in OP!OrderStatus
    BY <2>1, OP!TransitionTable, OrderSentinels DEF OP!ValidChange
  <2> QED
    BY <2>1, <2>2 DEF OP!OrderStatus
<1> QED
  BY <1>1, <1>2, <1>3, OrderSteps
  DEF CancelBegins, ApplyBegins, Abandoned, Passed, Returned, Threads

\* Where the order of an open transaction of the courier service comes from.
LEMMA OrdersOfTransactions ==
    ASSUME CouriersInv, OrderServiceInv, OrdersExist, SagaNext, NEW s \in Threads, NEW o \in Orders,
           courier_txn'[s] # NoTxn, courier_txn'[s].order = o
    PROVE  orders[o].status # "none"
<1>0. /\ courier_txn \in [Threads -> CP!Txn \cup {NoTxn}]
      /\ None \notin Orders
      /\ orders_topic \in Seq(Orders)
      /\ orders_offset \in Nat
      /\ \A a \in Assignments : /\ assignments[a] = CP!NoAssignmentRow
                                   \/ assignments[a] \in CP!Assignment
  BY SagaAssumption, CP!Rows, CourierSentinels
  DEF CouriersInv, TopicsInType, CP!SerialInv, CP!TypeInv, CP!TypeOK, CP!Sessions, Threads
<1>1. CASE courier_txn'[s] = courier_txn[s]
  BY <1>1 DEF OrdersExist
<1>2. CASE courier_request
  <2>1. CASE \E c \in Couriers : C!change_availability(Http, c, "online")
    <3>1. courier_txn'[Http].order = None
      BY <1>0, <2>1 DEF C!change_availability, C!Continue, C!Blank, Threads
    <3> QED
      BY <1>0, <1>1, <2>1, <3>1 DEF C!change_availability, C!Continue
  <2>2. CASE \E c \in Couriers, p \in Orders :
                orders[p].status # "none" /\ C!assign_courier(Http, c, p)
    <3>1. PICK c \in Couriers, p \in Orders :
             orders[p].status # "none" /\ C!assign_courier(Http, c, p)
      BY <2>2
    <3>2. courier_txn'[Http].order = p
      BY <1>0, <3>1 DEF C!assign_courier, C!Continue, C!Blank, Threads
    <3> QED
      BY <1>0, <1>1, <3>1, <3>2 DEF C!assign_courier, C!Continue
  <2>3. CASE \E a \in Assignments, v \in C!AssignmentStatus :
                C!update_assignment_status(Http, a, v)
    <3>1. PICK a \in Assignments, v \in C!AssignmentStatus : C!update_assignment_status(Http, a, v)
      BY <2>3
    <3>2. courier_txn'[Http].order = assignments[a].order_id
      BY <1>0, <3>1 DEF C!update_assignment_status, C!Continue, C!Blank, Threads
    <3> QED
      BY <1>0, <1>1, <3>1, <3>2 DEF C!update_assignment_status, C!Continue, OrdersExist
  <2> QED
    BY <1>2, <2>1, <2>2, <2>3 DEF courier_request
<1>3. CASE consume_order_created
  <2>1. CASE UNCHANGED courierVars
    BY <1>1, <2>1 DEF courierVars
  <2>2. CASE C!auto_assign_order(Kafka, orders_topic[orders_offset + 1])
    <3> PICK p : p = orders_topic[orders_offset + 1]
      OBVIOUS
    <3>1. orders_offset + 1 \in 1 .. Len(orders_topic)
      BY <1>0, <1>3, LenProperties DEF consume_order_created
    <3>2. orders[p].status # "none"
      BY <3>1 DEF OrdersExist
    <3>3. courier_txn'[Kafka].order = p
      BY <1>0, <2>2 DEF C!auto_assign_order, C!Continue, C!Blank, Threads
    <3> QED
      BY <1>0, <1>1, <2>2, <3>2, <3>3 DEF C!auto_assign_order, C!Continue
  <2> QED
    BY <1>3, <2>1, <2>2 DEF consume_order_created
<1>4. CASE courier_request_goes_on \/ order_created_goes_on \/ auto_assign_fails
  <2>1. PICK q \in Threads :
           \/ C!assign_courier_existing(q) \/ C!update_assignment_status_courier(q)
           \/ C!CommitCourier(q) \/ (\E a \in NewIds : C!CommitAssignment(q, a))
           \/ C!CommitStatus(q) \/ C!find_available_courier(q) \/ C!Rollback(q)
    BY <1>4 DEF courier_request_goes_on, order_created_goes_on, auto_assign_fails, Threads
  <2>2. courier_txn[q] # NoTxn /\ \E t : courier_txn' = [courier_txn EXCEPT ![q] = t]
    BY <2>1 DEF C!assign_courier_existing, C!update_assignment_status_courier, C!CommitCourier,
       C!CommitAssignment, C!CommitStatus, C!find_available_courier, C!Rollback, C!Continue, C!Close
  <2>3. courier_txn[q] \in CP!Txn
    BY <1>0, <2>2
  <2>4. courier_txn'[q] = NoTxn \/ courier_txn'[q].order = courier_txn[q].order
    <3>1. CASE C!assign_courier_existing(q)
      BY <1>0, <2>3, <3>1 DEF C!assign_courier_existing, C!Continue, C!Close, CP!Txn
    <3>2. CASE C!update_assignment_status_courier(q)
      BY <1>0, <2>3, <3>2 DEF C!update_assignment_status_courier, C!Continue, CP!Txn
    <3>3. CASE C!find_available_courier(q)
      <4>1. CASE C!Close(q)
        BY <1>0, <4>1 DEF C!Close, C!Continue
      <4>2. ASSUME NEW c \in Couriers,
                   C!Continue(q, [courier_txn[q] EXCEPT !.next = "commit", !.courier = c,
                                  !.read = couriers[c],
                                  !.write = [couriers[c] EXCEPT !.availability = "busy"]])
            PROVE  courier_txn'[q].order = courier_txn[q].order
        <5> DEFINE u == [courier_txn[q] EXCEPT !.next = "commit", !.courier = c,
                         !.read = couriers[c],
                         !.write = [couriers[c] EXCEPT !.availability = "busy"]]
        <5>1. courier_txn'[q] = u
          BY <1>0, <4>2 DEF C!Continue
        <5>2. u.order = courier_txn[q].order
          BY <2>3 DEF CP!Txn
        <5> QED
          BY <5>1, <5>2
      <4> QED
        BY <3>3, <4>1, <4>2 DEF C!find_available_courier
    <3>4. CASE C!CommitCourier(q) \/ (\E a \in NewIds : C!CommitAssignment(q, a))
               \/ C!CommitStatus(q) \/ C!Rollback(q)
      BY <1>0, <3>4 DEF C!CommitCourier, C!CommitAssignment, C!CommitStatus, C!Rollback,
         C!Continue, C!Close
    <3> QED
      BY <2>1, <3>1, <3>2, <3>3, <3>4
  <2> QED
    BY <1>0, <1>1, <2>2, <2>4 DEF OrdersExist
<1>5. CASE \E p \in Orders : create_order(p) \/ cancel_order(p)
  BY <1>1, <1>5 DEF create_order, cancel_order, OrderStep, courierVars
<1>6. CASE commit_cancel \/ apply_courier_event \/ ignore_courier_event
           \/ commit_courier_event \/ apply_fails \/ redeliver \/ dead_letter \/ run_replay
  BY <1>1, <1>6 DEF commit_cancel, apply_courier_event, ignore_courier_event,
     commit_courier_event, apply_fails, redeliver, dead_letter, run_replay, OrderStep, courierVars
<1>7. CASE \/ dead_letter_order_created
           \/ \E i \in Pending : publish(i)
           \/ \E p \in Orders : publish_order_created(p)
  BY <1>1, <1>7 DEF dead_letter_order_created, publish, publish_order_created, courierVars
<1> QED
  BY <1>2, <1>3, <1>4, <1>5, <1>6, <1>7 DEF SagaNext

\* What is appended to the topic is the order that was created.
LEMMA OrdersTopicGrows ==
    ASSUME CouriersInv, OrderServiceInv, OrdersExist, SagaNext,
           NEW i \in 1 .. Len(orders_topic')
    PROVE  orders'[orders_topic'[i]].status # "none"
<1>0. orders_topic \in Seq(Orders) /\ Len(orders_topic) \in Nat
  BY LenProperties DEF CouriersInv, TopicsInType
<1>1. CASE UNCHANGED orders_topic
  <2>1. orders_topic[i] \in Orders
    BY <1>0, <1>1, ElementOfSeq
  <2> QED
    BY <1>1, <2>1, OrdersStay DEF OrdersExist
<1>2. ASSUME NEW o \in Orders, orders_topic' = Append(orders_topic, o),
             orders'[o].status # "none"
      PROVE  orders'[orders_topic'[i]].status # "none"
  <2>1. \/ orders_topic'[i] = o
        \/ i \in 1 .. Len(orders_topic) /\ orders_topic'[i] = orders_topic[i]
    <3>1. /\ Len(Append(orders_topic, o)) = Len(orders_topic) + 1
          /\ Append(orders_topic, o)[Len(orders_topic) + 1] = o
          /\ \A j \in 1 .. Len(orders_topic) : Append(orders_topic, o)[j] = orders_topic[j]
      BY <1>0, AppendProperties
    <3>2. i \in 1 .. Len(orders_topic) \/ i = Len(orders_topic) + 1
      BY <1>0, <1>2, <3>1
    <3> QED
      BY <1>2, <3>1, <3>2
  <2>2. i \in 1 .. Len(orders_topic) => orders_topic[i] \in Orders
    BY <1>0, ElementOfSeq
  <2> QED
    BY <1>2, <2>1, <2>2, OrdersStay DEF OrdersExist
<1>3. ASSUME NEW o \in Orders, create_order(o)
      PROVE  /\ UNCHANGED orders_topic \/ orders_topic' = Append(orders_topic, o)
             /\ orders'[o].status # "none"
  BY <1>3 DEF create_order, O!create_order, O!NoRow, OrderServiceInv, OP!HistoryInv, OP!TypeInv,
     OP!TypeOK
<1>4. ASSUME NEW o \in Orders, publish_order_created(o)
      PROVE  orders_topic' = Append(orders_topic, o) /\ orders'[o].status # "none"
  BY <1>4 DEF publish_order_created, orderVars
<1>5. CASE courier_request \/ courier_request_goes_on \/ auto_assign_fails
           \/ consume_order_created \/ order_created_goes_on
  BY <1>1, <1>5 DEF courier_request, courier_request_goes_on, auto_assign_fails,
     consume_order_created, order_created_goes_on, CourierStep
<1>6. CASE \/ commit_cancel \/ apply_courier_event \/ ignore_courier_event
           \/ commit_courier_event \/ apply_fails \/ redeliver \/ dead_letter \/ run_replay
           \/ dead_letter_order_created
           \/ \E o \in Orders : cancel_order(o)
           \/ \E j \in Pending : publish(j)
  BY <1>1, <1>6 DEF commit_cancel, apply_courier_event, ignore_courier_event, cancel_order,
     commit_courier_event, apply_fails, redeliver, dead_letter, run_replay,
     dead_letter_order_created, publish, OrderStep, ordersTopicVars
<1> QED
  BY <1>1, <1>2, <1>3, <1>4, <1>5, <1>6 DEF SagaNext

\* OrdersExist is inductive.
LEMMA OrdersExistNext ==
    ASSUME CouriersInv, OrderServiceInv, OrdersExist, [SagaNext]_sagaVars
    PROVE  OrdersExist'
<1>1. CASE UNCHANGED sagaVars
  BY <1>1 DEF sagaVars, orderVars, courierVars, topicVars, ordersTopicVars, OrdersExist
<1>2. CASE SagaNext
  <2> USE <1>2
  <2>0. CP!TypeOK
    BY DEF CouriersInv, CP!SerialInv, CP!TypeInv
  <2>1. \A i \in 1 .. Len(orders_topic') : orders'[orders_topic'[i]].status # "none"
    BY OrdersTopicGrows
  <2>2. \A s \in Threads : \A o \in Orders :
           courier_txn'[s] # NoTxn /\ courier_txn'[s].order = o => orders'[o].status # "none"
    BY OrdersOfTransactions, OrdersStay
  <2>3. ASSUME NEW a \in Assignments, NEW o \in Orders, assignments'[a].order_id = o
        PROVE  orders'[o].status # "none"
    <3>1. CASE assignments'[a].order_id = assignments[a].order_id
      BY <2>3, <3>1, OrdersStay DEF OrdersExist
    <3>2. ASSUME NEW b \in Assignments, NEW c \in Couriers, NEW p \in Orders, Assigned(b, c, p)
          PROVE  orders'[o].status # "none"
      <4>1. b # a => assignments'[a] = assignments[a]
        BY <2>0, <3>2, AssignedRow
      <4>2. b = a => o = p
        BY <2>0, <2>3, <3>2, AssignedRow
      <4>3. orders[p].status # "none"
        BY <3>2 DEF Assigned, OrdersExist
      <4> QED
        BY <3>1, <4>1, <4>2, <4>3, OrdersStay
    <3>3. ASSUME NEW b \in Assignments, NEW v \in CP!AssignmentStatus, Moved(b, v)
          PROVE  assignments'[a].order_id = assignments[a].order_id
      BY <2>0, <3>3, MovedRow
    <3> QED
      BY <3>1, <3>2, <3>3, AssignmentSteps DEF CouriersInv, Quiet, Publishes, Replays
  <2> QED
    BY <2>1, <2>2, <2>3 DEF OrdersExist
<1> QED
  BY <1>1, <1>2 DEF sagaVars

-----------------------------------------------------------------------------
(* The outbox tells all that the couriers did, in an order in which they   *)
(* could do it.                                                            *)

\* Row i of the outbox says that assignment a got to status v.
Writes(i, a, v) == courier_outbox[i].assignment = a /\ courier_outbox[i].status = v

\* Some row says so.
Written(a, v) == \E i \in 1 .. Len(courier_outbox) : Writes(i, a, v)

\* What was reached is written, and after what must come before it.
EverythingIsWritten ==
    /\ \A a \in Assignments, v \in CP!AssignmentStatus : Reached(a, v) => Written(a, v)
    /\ \A i \in 1 .. Len(courier_outbox), a \in Assignments, v \in CP!AssignmentStatus :
          Writes(i, a, v) /\ v # "assigned" => \E j \in 1 .. i - 1 : Writes(j, a, "assigned")
    /\ \A i \in 1 .. Len(courier_outbox), a \in Assignments :
          Writes(i, a, "delivered") => \E j \in 1 .. i - 1 : Writes(j, a, "accepted")

\* Everything is written once, and an order's assignments follow one another: the
\* later one when the earlier is cancelled.
WrittenOnce ==
    /\ \A i, j \in 1 .. Len(courier_outbox) : courier_outbox[i] = courier_outbox[j] => i = j
    /\ \A i, j \in 1 .. Len(courier_outbox), a, b \in Assignments :
          /\ i < j /\ Writes(i, a, "assigned") /\ Writes(j, b, "assigned")
          /\ assignments[a].order_id = assignments[b].order_id
          => \E k \in i + 1 .. j - 1 : Writes(k, a, "cancelled")

\* What the outbox tells.
WrittenInv == EverythingIsWritten /\ WrittenOnce

\* What was announced was reached.
LEMMA AnnouncedWasReached ==
    ASSUME CouriersInv, NEW m \in Message, Reached(m.assignment, m.status)
    PROVE  /\ m.assignment \in Assignments /\ m.status \in CP!AssignmentStatus
           /\ assignments[m.assignment] \in CP!Assignment
           /\ assignments[m.assignment].status \in Later(m.status)
<1>1. m.assignment \in Assignments /\ m.status \in CP!AssignmentStatus
  BY DEF Message, CP!AssignmentStatus
<1>2. assignments[m.assignment] \in CP!Assignment
  BY AnnouncedRow DEF CouriersInv, CP!SerialInv, CP!TypeInv
<1> QED
  BY <1>1, <1>2 DEF CouriersInv, StatusesReached

\* What the outbox says was reached.
LEMMA WrittenWasReached ==
    ASSUME CouriersInv, NEW i \in 1 .. Len(courier_outbox), NEW a, NEW v, Writes(i, a, v)
    PROVE  /\ a \in Assignments /\ v \in CP!AssignmentStatus
           /\ courier_outbox[i] \in Message
           /\ Reached(a, v)
           /\ assignments[a] \in CP!Assignment
           /\ assignments[a].status \in Later(v)
<1>1. courier_outbox[i] \in Message
  BY ElementOfSeq DEF CouriersInv, TopicsInType
<1>2. Reached(courier_outbox[i].assignment, courier_outbox[i].status)
  BY DEF CouriersInv, Announced
<1> QED
  BY <1>1, <1>2, AnnouncedWasReached DEF Writes

\* Rows that say the same are the same row.
LEMMA SameRow ==
    ASSUME CouriersInv, WrittenInv, NEW i \in 1 .. Len(courier_outbox),
           NEW j \in 1 .. Len(courier_outbox), NEW a, NEW v, Writes(i, a, v), Writes(j, a, v)
    PROVE  i = j
<1>1. courier_outbox[i] \in Message /\ courier_outbox[j] \in Message
  BY ElementOfSeq DEF CouriersInv, TopicsInType
<1>2. courier_outbox[i] = courier_outbox[j]
  BY <1>1 DEF Writes, Message
<1> QED
  BY <1>2 DEF WrittenInv, WrittenOnce

\* The rows after one is appended.
LEMMA WritesAfter ==
    ASSUME CouriersInv, NEW m \in Message, courier_outbox' = Append(courier_outbox, m),
           NEW n, n = Len(courier_outbox)
    PROVE  /\ n \in Nat
           /\ Len(courier_outbox') = n + 1
           /\ \A i \in 1 .. n : \A a, v : Writes(i, a, v)' <=> Writes(i, a, v)
           /\ \A a, v : Writes(n + 1, a, v)' <=> (m.assignment = a /\ m.status = v)
           /\ \A i \in 1 .. Len(courier_outbox') : i \in 1 .. n \/ i = n + 1
BY OutboxGrows DEF CouriersInv, Writes

\* A row m at the end: it says what was reached, after what must come before.
LEMMA EverythingIsStillWritten ==
    ASSUME CouriersInv, EverythingIsWritten, NEW m \in Message,
           courier_outbox' = Append(courier_outbox, m),
           \A a \in Assignments, v \in CP!AssignmentStatus :
              Reached(a, v)' => Reached(a, v) \/ (m.assignment = a /\ m.status = v),
           m.status # "assigned" => Reached(m.assignment, "assigned"),
           m.status = "delivered" => Reached(m.assignment, "accepted")
    PROVE  EverythingIsWritten'
<1> PICK n : n = Len(courier_outbox)
  OBVIOUS
<1>0. /\ n \in Nat
      /\ Len(courier_outbox') = n + 1
      /\ \A i \in 1 .. n : \A a, v : Writes(i, a, v)' <=> Writes(i, a, v)
      /\ \A a, v : Writes(n + 1, a, v)' <=> (m.assignment = a /\ m.status = v)
      /\ \A i \in 1 .. Len(courier_outbox') : i \in 1 .. n \/ i = n + 1
      /\ m.assignment \in Assignments
      /\ "assigned" \in CP!AssignmentStatus /\ "accepted" \in CP!AssignmentStatus
  BY WritesAfter DEF Message, CP!AssignmentStatus
<1>1. \A a \in Assignments, v \in CP!AssignmentStatus :
         Reached(a, v) => \E j \in 1 .. n : Writes(j, a, v)
  BY DEF EverythingIsWritten, Written
<1>2. n + 1 \in 1 .. Len(courier_outbox') /\ 1 .. n \subseteq 1 .. Len(courier_outbox')
      /\ 1 .. (n + 1) - 1 = 1 .. n
  BY <1>0
<1>3. \A a \in Assignments, v \in CP!AssignmentStatus : Reached(a, v)' => Written(a, v)'
  <2> SUFFICES ASSUME NEW a \in Assignments, NEW v \in CP!AssignmentStatus, Reached(a, v)'
               PROVE  \E i \in 1 .. Len(courier_outbox') : Writes(i, a, v)'
    BY DEF Written
  <2> QED
    BY <1>0, <1>1, <1>2
<1>4. \A i \in 1 .. n : \A j \in 1 .. i - 1 : j \in 1 .. n
  BY <1>0
<1>5. ASSUME NEW i \in 1 .. Len(courier_outbox'), NEW a \in Assignments,
             NEW v \in CP!AssignmentStatus, Writes(i, a, v)', v # "assigned"
      PROVE  \E j \in 1 .. i - 1 : Writes(j, a, "assigned")'
  <2>1. CASE i \in 1 .. n
    BY <1>0, <1>4, <1>5, <2>1 DEF EverythingIsWritten
  <2>2. CASE i = n + 1
    BY <1>0, <1>1, <1>2, <1>5, <2>2
  <2> QED
    BY <1>0, <2>1, <2>2
<1>6. ASSUME NEW i \in 1 .. Len(courier_outbox'), NEW a \in Assignments, Writes(i, a, "delivered")'
      PROVE  \E j \in 1 .. i - 1 : Writes(j, a, "accepted")'
  <2>1. CASE i \in 1 .. n
    BY <1>0, <1>4, <1>6, <2>1 DEF EverythingIsWritten
  <2>2. CASE i = n + 1
    BY <1>0, <1>1, <1>2, <1>6, <2>2
  <2> QED
    BY <1>0, <2>1, <2>2
<1> QED
  BY <1>3, <1>5, <1>6 DEF EverythingIsWritten, CP!AssignmentStatus

\* It is written once if it was not reached before.
LEMMA StillWrittenOnce ==
    ASSUME CouriersInv, SagaNext, EverythingIsWritten, WrittenOnce, NEW m \in Message,
           courier_outbox' = Append(courier_outbox, m),
           ~Reached(m.assignment, m.status),
           m.status = "assigned" =>
              \A a \in Assignments :
                 /\ a # m.assignment
                 /\ assignments[a] \in CP!Assignment
                 /\ assignments[a].order_id = assignments'[m.assignment].order_id
                 => assignments[a].status = "cancelled"
    PROVE  WrittenOnce'
<1> PICK n : n = Len(courier_outbox)
  OBVIOUS
<1>0. /\ n \in Nat
      /\ Len(courier_outbox') = n + 1
      /\ \A i \in 1 .. n : \A a, v : Writes(i, a, v)' <=> Writes(i, a, v)
      /\ \A a, v : Writes(n + 1, a, v)' <=> (m.assignment = a /\ m.status = v)
      /\ \A i \in 1 .. Len(courier_outbox') : i \in 1 .. n \/ i = n + 1
  BY WritesAfter
<1>1. ASSUME NEW i \in 1 .. n PROVE courier_outbox[i] # m
  BY WrittenWasReached DEF Writes
<1>2. /\ \A i \in 1 .. n : courier_outbox'[i] = courier_outbox[i]
      /\ courier_outbox'[n + 1] = m
  BY OutboxGrows DEF CouriersInv
<1>3. ASSUME NEW i \in 1 .. Len(courier_outbox'), NEW j \in 1 .. Len(courier_outbox'),
             courier_outbox'[i] = courier_outbox'[j]
      PROVE  i = j
  BY <1>0, <1>1, <1>2, <1>3 DEF WrittenOnce
<1>4. ASSUME NEW i \in 1 .. Len(courier_outbox'), NEW j \in 1 .. Len(courier_outbox'),
             NEW a \in Assignments, NEW b \in Assignments,
             i < j, Writes(i, a, "assigned")', Writes(j, b, "assigned")',
             assignments'[a].order_id = assignments'[b].order_id
      PROVE  \E k \in i + 1 .. j - 1 : Writes(k, a, "cancelled")'
  <2>1. i \in 1 .. n /\ Writes(i, a, "assigned")
    BY <1>0, <1>4
  <2>2. assignments[a] \in CP!Assignment /\ assignments'[a].order_id = assignments[a].order_id
    BY <2>1, WrittenWasReached, Growth
  <2>3. CASE j \in 1 .. n
    <3>1. Writes(j, b, "assigned")
      BY <1>0, <1>4, <2>3
    <3>2. assignments'[b].order_id = assignments[b].order_id
      BY <2>3, <3>1, WrittenWasReached, Growth
    <3>3. \E k \in i + 1 .. j - 1 : Writes(k, a, "cancelled")
      BY <1>4, <2>1, <2>2, <2>3, <3>1, <3>2 DEF WrittenOnce
    <3>4. \A k \in i + 1 .. j - 1 : k \in 1 .. n
      BY <1>0, <2>1, <2>3
    <3> QED
      BY <1>0, <3>3, <3>4
  <2>4. CASE j = n + 1
    <3>1. m.assignment = b /\ m.status = "assigned"
      BY <1>0, <1>4, <2>4
    <3>2. a # b
      BY <2>1, <3>1, WrittenWasReached
    <3>3. assignments[a].status = "cancelled"
      BY <1>4, <2>2, <3>1, <3>2
    <3>4. Reached(a, "cancelled") /\ "cancelled" \in CP!AssignmentStatus
      BY <3>3 DEF CouriersInv, StatusesReached, CP!AssignmentStatus
    <3>5. PICK k \in 1 .. n : Writes(k, a, "cancelled")
      BY <3>4 DEF EverythingIsWritten, Written
    <3>6. PICK l \in 1 .. k - 1 : Writes(l, a, "assigned")
      BY <3>4, <3>5 DEF EverythingIsWritten
    <3>7. l \in 1 .. n
      BY <1>0, <3>5, <3>6
    <3>8. courier_outbox[l] \in Message /\ courier_outbox[i] \in Message
      BY <2>1, <3>7, ElementOfSeq DEF CouriersInv, TopicsInType
    <3>9. courier_outbox[l] = courier_outbox[i]
      BY <2>1, <3>6, <3>8 DEF Writes, Message
    <3>10. l = i
      BY <2>1, <3>7, <3>9 DEF WrittenOnce
    <3>11. k \in i + 1 .. j - 1
      BY <1>0, <2>1, <2>4, <3>5, <3>6, <3>10
    <3> QED
      BY <1>0, <3>5, <3>11
  <2> QED
    BY <1>0, <2>3, <2>4
<1> QED
  BY <1>3, <1>4 DEF WrittenOnce

\* WrittenInv is inductive: a new assignment of an order finds the others cancelled,
\* and a step that writes reached what it writes.
LEMMA WrittenInvNext ==
    ASSUME CouriersInv, WrittenInv, [SagaNext]_sagaVars
    PROVE  WrittenInv'
<1>1. CASE Quiet
  BY <1>1 DEF Quiet, WrittenInv, EverythingIsWritten, WrittenOnce, Written, Writes, Reached,
     CP!AssignmentStatus
<1>2. CASE SagaNext
  <2> USE <1>2
  <2>0. CP!TypeOK /\ StatusesReached /\ EverythingIsWritten /\ WrittenOnce
    BY DEF CouriersInv, CP!SerialInv, CP!TypeInv, WrittenInv
  <2>1. ASSUME NEW a \in Assignments, NEW c \in Couriers, NEW o \in Orders, Assigned(a, c, o)
        PROVE  WrittenInv'
    <3>0. PICK m \in Message : m.assignment = a /\ m.status = "assigned"
                               /\ courier_outbox' = Append(courier_outbox, m)
      BY <2>1 DEF Assigned, Message
    <3>1. EverythingIsWritten'
      BY <2>0, <2>1, <3>0, AssignedRow, EverythingIsStillWritten
    <3>2. ~Reached(a, "assigned")
      BY <2>0, <2>1
      DEF Assigned, StatusesReached, CP!NoAssignmentRow, Later, CP!AssignmentStatus
    <3>3. assignments'[a].order_id = o
      BY <2>0, <2>1, AssignedRow
    <3>4. \A b \in Assignments : assignments[b].order_id = o => assignments[b].status = "cancelled"
      BY <2>1 DEF Assigned, CP!HasAssignment
    <3>5. WrittenOnce'
      BY <2>0, <3>0, <3>2, <3>3, <3>4, StillWrittenOnce
    <3> QED
      BY <3>1, <3>5 DEF WrittenInv
  <2>2. ASSUME NEW a \in Assignments, NEW v \in CP!AssignmentStatus, Moved(a, v)
        PROVE  WrittenInv'
    <3>0. PICK m \in Message : m.assignment = a /\ m.status = v
                               /\ courier_outbox' = Append(courier_outbox, m)
      BY <2>2 DEF Moved, Message, CP!AssignmentStatus
    <3> PICK p : p = assignments[a].status
      OBVIOUS
    <3>1. p \in CP!AssignmentStatus /\ v \in CP!ALLOWED_ASSIGNMENT_TRANSITIONS[p]
      BY <2>0, <2>2, MovedRow
    <3>2. /\ v # "assigned"
          /\ v = "delivered" => p = "picked_up"
          /\ p \notin Later(v)
      BY <3>1 DEF CP!AssignmentStatus, CP!ALLOWED_ASSIGNMENT_TRANSITIONS, Later
    <3>3. /\ Reached(a, "assigned")
          /\ v = "delivered" => Reached(a, "accepted")
          /\ ~Reached(a, v)
      BY <2>0, <3>1, <3>2 DEF StatusesReached, CP!AssignmentStatus
    <3>4. EverythingIsWritten'
      BY <2>0, <2>2, <3>0, <3>3, MovedRow, EverythingIsStillWritten
    <3>5. WrittenOnce'
      BY <2>0, <3>0, <3>2, <3>3, StillWrittenOnce
    <3> QED
      BY <3>4, <3>5 DEF WrittenInv
  <2> QED
    BY <1>1, <2>1, <2>2, AssignmentSteps DEF CouriersInv, Publishes, Replays
<1> QED
  BY <1>1, <1>2 DEF sagaVars, courierVars, topicVars, outboxVars, Quiet

\* The order of row i.
RowOf(i, o) == i \in 1 .. Len(courier_outbox) /\ OrderOf(courier_outbox[i]) = o

\* Of two assignments of an order the one that was assigned first was cancelled
\* before the other was assigned.
LEMMA OneAfterTheOther ==
    ASSUME CouriersInv, WrittenInv, NEW o \in Orders,
           NEW a \in AssignmentsOf(o), NEW b \in AssignmentsOf(o), a # b,
           NEW i \in 1 .. Len(courier_outbox), NEW j \in 1 .. Len(courier_outbox),
           Writes(i, a, "assigned"), Writes(j, b, "assigned")
    PROVE  \/ i < j /\ \E k \in i + 1 .. j - 1 : Writes(k, a, "cancelled")
           \/ j < i /\ \E k \in j + 1 .. i - 1 : Writes(k, b, "cancelled")
<1>1. i # j
  BY DEF Writes
<1>2. i < j \/ j < i
  BY <1>1
<1>3. a \in Assignments /\ b \in Assignments /\ assignments[a].order_id = assignments[b].order_id
  BY DEF AssignmentsOf
<1>4. CASE i < j
  BY <1>3, <1>4 DEF WrittenInv, WrittenOnce
<1>5. CASE j < i
  BY <1>3, <1>5 DEF WrittenInv, WrittenOnce
<1> QED
  BY <1>2, <1>4, <1>5

\* What was reached has its row, of the assignment's order.
LEMMA RowOfReached ==
    ASSUME CouriersInv, WrittenInv, NEW o \in Orders, NEW a \in AssignmentsOf(o),
           NEW v \in CP!AssignmentStatus, Reached(a, v)
    PROVE  \E i : RowOf(i, o) /\ Writes(i, a, v)
<1>1. a \in Assignments /\ assignments[a].order_id = o
  BY DEF AssignmentsOf
<1>2. PICK i \in 1 .. Len(courier_outbox) : Writes(i, a, v)
  BY <1>1 DEF WrittenInv, EverythingIsWritten, Written
<1> QED
  BY <1>1, <1>2 DEF RowOf, OrderOf, Writes

\* At most one of an order's assignments was not cancelled.
LEMMA OneWasCancelled ==
    ASSUME CouriersInv, WrittenInv, NEW o \in Orders,
           NEW a \in AssignmentsOf(o), NEW b \in AssignmentsOf(o), a # b
    PROVE  Reached(a, "cancelled") \/ Reached(b, "cancelled")
<1>0. CP!TypeOK
  BY DEF CouriersInv, CP!SerialInv, CP!TypeInv
<1>1. ASSUME NEW x \in AssignmentsOf(o)
      PROVE  \E i \in 1 .. Len(courier_outbox) : Writes(i, x, "assigned")
  <2>1. x \in Assignments /\ assignments[x] \in CP!Assignment
    BY <1>0, AssignmentRows
  <2>2. Reached(x, "assigned") /\ "assigned" \in CP!AssignmentStatus
    BY <2>1 DEF CouriersInv, StatusesReached, CP!Assignment, CP!AssignmentStatus
  <2> QED
    BY <2>2, RowOfReached DEF RowOf
<1>2. PICK i \in 1 .. Len(courier_outbox) : Writes(i, a, "assigned")
  BY <1>1
<1>3. PICK j \in 1 .. Len(courier_outbox) : Writes(j, b, "assigned")
  BY <1>1
<1>4. PICK k \in 1 .. Len(courier_outbox) : Writes(k, a, "cancelled") \/ Writes(k, b, "cancelled")
  <2>1. \/ i < j /\ \E k \in i + 1 .. j - 1 : Writes(k, a, "cancelled")
        \/ j < i /\ \E k \in j + 1 .. i - 1 : Writes(k, b, "cancelled")
    BY <1>2, <1>3, OneAfterTheOther
  <2>2. i + 1 .. j - 1 \subseteq 1 .. Len(courier_outbox)
        /\ j + 1 .. i - 1 \subseteq 1 .. Len(courier_outbox)
    BY LenProperties DEF CouriersInv, TopicsInType
  <2> QED
    BY <2>1, <2>2
<1> QED
  BY <1>4, WrittenWasReached

-----------------------------------------------------------------------------
(* The topic tells what was published, of an undisturbed order in turn.    *)

\* Message i of the topic says that assignment a got to status v.
Says(i, a, v) == couriers_topic[i].assignment = a /\ couriers_topic[i].status = v

\* Message k of the topic is row g of the outbox.
Sends(k, g) ==
    /\ k \in 1 .. Len(couriers_topic) /\ g \in 1 .. Len(courier_outbox)
    /\ couriers_topic[k] = courier_outbox[g]

\* When the topic has a row of order o it has the older ones, and before it; the
\* younger ones only come after.
InTurn(o) ==
    \A k, f, g :
        Sends(k, g) /\ RowOf(f, o) /\ RowOf(g, o) =>
            /\ f < g => f \in published /\ \E j \in 1 .. k - 1 : Sends(j, f)
            /\ f > g => \A j \in 1 .. k - 1 : ~Sends(j, f)

\* What the topic tells.
TopicInv ==
    /\ \A f \in published : \E k : Sends(k, f)
    /\ \A m \in dead_letters : OrderOf(m) \in disturbed
    /\ \A o \in Orders \ disturbed : InTurn(o)
\* What the topic says was reached.
LEMMA SaidWasReached ==
    ASSUME CouriersInv, NEW i \in 1 .. Len(couriers_topic), NEW a, NEW v, Says(i, a, v)
    PROVE  /\ a \in Assignments /\ v \in CP!AssignmentStatus
           /\ couriers_topic[i] \in Message
           /\ Reached(a, v)
           /\ assignments[a] \in CP!Assignment
           /\ assignments[a].status \in Later(v)
<1>1. couriers_topic[i] \in Message
  BY ElementOfSeq DEF CouriersInv, TopicsInType
<1>2. a \in Assignments /\ v \in CP!AssignmentStatus
  BY <1>1 DEF Says, Message, CP!AssignmentStatus
<1>3. Reached(a, v)
  BY DEF CouriersInv, Announced, Says
<1>4. assignments[a] \in CP!Assignment
  BY <1>1, <1>3, AnnouncedRow DEF CouriersInv, CP!SerialInv, CP!TypeInv, Says
<1> QED
  BY <1>1, <1>2, <1>3, <1>4 DEF CouriersInv, StatusesReached

\* A message keeps its order.
LEMMA OrderOfStays ==
    ASSUME CouriersInv, SagaNext, NEW m \in Message, Reached(m.assignment, m.status)
    PROVE  OrderOf(m)' = OrderOf(m)
BY AnnouncedWasReached, Growth DEF OrderOf

\* What a message appended to the topic sends.
LEMMA SendsAfter ==
    ASSUME CouriersInv, NEW m \in Message, couriers_topic' = Append(couriers_topic, m),
           UNCHANGED courier_outbox
    PROVE  \A k, g : Sends(k, g)' <=>
              \/ Sends(k, g)
              \/ /\ k = Len(couriers_topic) + 1
                 /\ g \in 1 .. Len(courier_outbox) /\ courier_outbox[g] = m
<1> SUFFICES ASSUME NEW k, NEW g
             PROVE  Sends(k, g)' <=>
                       \/ Sends(k, g)
                       \/ /\ k = Len(couriers_topic) + 1
                          /\ g \in 1 .. Len(courier_outbox) /\ courier_outbox[g] = m
  OBVIOUS
<1>1. /\ Len(couriers_topic) \in Nat /\ Len(couriers_topic') = Len(couriers_topic) + 1
      /\ couriers_topic'[Len(couriers_topic) + 1] = m
      /\ \A i \in 1 .. Len(couriers_topic) : couriers_topic'[i] = couriers_topic[i]
  BY TopicGrows DEF CouriersInv
<1>2. k \in 1 .. Len(couriers_topic')
         <=> k \in 1 .. Len(couriers_topic) \/ k = Len(couriers_topic) + 1
  BY <1>1
<1>3. k \in 1 .. Len(couriers_topic) => k # Len(couriers_topic) + 1
  BY <1>1
<1> QED
  BY <1>1, <1>2, <1>3 DEF Sends

\* The topic stays in turn when row i is published: the older rows are there, and
\* no younger one.
LEMMA InTurnPublished ==
    ASSUME CouriersInv, WrittenInv, TopicInv, NEW i \in Pending, Publishes(i),
           NEW o \in Orders, o \notin disturbed, o \notin disturbed'
    PROVE  InTurn(o)'
<1>0. /\ i \in 1 .. Len(courier_outbox) /\ i \notin published
      /\ courier_outbox[i] \in Message
      /\ Len(couriers_topic) \in Nat /\ Len(courier_outbox) \in Nat
  BY ElementOfSeq, LenProperties DEF Pending, CouriersInv, TopicsInType
<1>1. UNCHANGED <<assignments, courier_outbox>> /\ published \subseteq published'
  BY DEF Publishes, Quiet
<1>2. \A f : RowOf(f, o)' <=> RowOf(f, o)
  BY <1>1 DEF RowOf, OrderOf
<1>3. \A k, g : Sends(k, g)' <=> Sends(k, g) \/ (k = Len(couriers_topic) + 1 /\ g = i)
  <2>1. \A g \in 1 .. Len(courier_outbox) : courier_outbox[g] = courier_outbox[i] <=> g = i
    BY <1>0 DEF WrittenInv, WrittenOnce
  <2> QED
    BY <1>0, <1>1, <2>1, SendsAfter DEF Publishes
<1>4. ASSUME NEW k, NEW f, NEW g, Sends(k, g)', RowOf(f, o), RowOf(g, o)
      PROVE  /\ f < g => f \in published' /\ \E j \in 1 .. k - 1 : Sends(j, f)'
             /\ f > g => \A j \in 1 .. k - 1 : ~Sends(j, f)'
  <2>1. CASE Sends(k, g)
    <3>1. k \in 1 .. Len(couriers_topic)
      BY <2>1 DEF Sends
    <3>2. \A j \in 1 .. k - 1 : j # Len(couriers_topic) + 1
      BY <1>0, <3>1
    <3>3. /\ f < g => f \in published /\ \E j \in 1 .. k - 1 : Sends(j, f)
          /\ f > g => \A j \in 1 .. k - 1 : ~Sends(j, f)
      BY <1>4, <2>1 DEF TopicInv, InTurn
    <3> QED
      BY <1>1, <1>3, <3>2, <3>3
  <2>2. CASE k = Len(couriers_topic) + 1 /\ g = i
    <3>1. OrderOf(courier_outbox[i]) = o /\ OrderOf(courier_outbox[f]) = o
          /\ f \in 1 .. Len(courier_outbox)
      BY <1>4, <2>2 DEF RowOf
    <3>2. Overtakes(i) = {}
      BY <3>1 DEF Publishes
    <3>3. ASSUME f < g
          PROVE  f \in published' /\ \E j \in 1 .. k - 1 : Sends(j, f)'
      <4>1. f \in published
        BY <2>2, <3>1, <3>2, <3>3 DEF Overtakes, Pending
      <4>2. PICK j : Sends(j, f)
        BY <4>1 DEF TopicInv
      <4>3. j \in 1 .. k - 1
        BY <1>0, <2>2, <4>2 DEF Sends
      <4> QED
        BY <1>1, <1>3, <4>1, <4>2, <4>3
    <3>4. ASSUME f > g, NEW j \in 1 .. k - 1, Sends(j, f)' PROVE FALSE
      <4>1. Sends(j, f)
        BY <1>0, <1>3, <2>2, <3>4
      <4>2. i \in published
        BY <1>4, <2>2, <3>4, <4>1, <3>1, <1>0 DEF TopicInv, InTurn
      <4> QED
        BY <1>0, <4>2
    <3> QED
      BY <3>3, <3>4
  <2> QED
    BY <1>3, <1>4, <2>1, <2>2
<1> QED
  BY <1>2, <1>4 DEF InTurn

\* ... when a dead letter, which is of a disturbed order, is sent again.
LEMMA InTurnReplayed ==
    ASSUME CouriersInv, TopicInv, Replays, NEW o \in Orders, o \notin disturbed
    PROVE  InTurn(o)'
<1>0. PICK m \in dead_letters : couriers_topic' = Append(couriers_topic, m)
  BY DEF Replays
<1>1. m \in Message /\ OrderOf(m) # o
  BY DEF CouriersInv, TopicsInType, TopicInv
<1>2. UNCHANGED <<assignments, courier_outbox, published>> /\ Len(couriers_topic) \in Nat
  BY LenProperties DEF Replays, Quiet, CouriersInv, TopicsInType
<1>3. \A f : RowOf(f, o)' <=> RowOf(f, o)
  BY <1>2 DEF RowOf, OrderOf
<1>4. \A k, g : RowOf(g, o) => (Sends(k, g)' <=> Sends(k, g))
  BY <1>0, <1>1, <1>2, SendsAfter DEF RowOf
<1> QED
  BY <1>2, <1>3, <1>4 DEF TopicInv, InTurn

\* ... and when a row is written that says what was not reached before.
LEMMA InTurnWritten ==
    ASSUME CouriersInv, TopicInv, SagaNext, NEW m \in Message,
           courier_outbox' = Append(courier_outbox, m), ~Reached(m.assignment, m.status),
           UNCHANGED <<couriers_topic, published>>
    PROVE  /\ \A k, g : Sends(k, g)' <=> Sends(k, g)
           /\ \A o \in Orders \ disturbed : InTurn(o)'
<1> PICK n : n = Len(courier_outbox)
  OBVIOUS
<1>0. /\ n \in Nat /\ Len(courier_outbox') = n + 1
      /\ courier_outbox'[n + 1] = m
      /\ \A i \in 1 .. n : courier_outbox'[i] = courier_outbox[i]
      /\ \A i : i \in 1 .. n + 1 <=> i \in 1 .. n \/ i = n + 1
      /\ n + 1 \notin 1 .. n
  <2>1. /\ n \in Nat /\ Len(courier_outbox') = n + 1
        /\ courier_outbox'[n + 1] = m
        /\ \A i \in 1 .. n : courier_outbox'[i] = courier_outbox[i]
    BY OutboxGrows DEF CouriersInv
  <2> QED
    BY <2>1
<1>1. \A k \in 1 .. Len(couriers_topic) : couriers_topic[k] # m
  BY DEF CouriersInv, Announced
<1>2. \A k, g : Sends(k, g)' <=> Sends(k, g)
  BY <1>0, <1>1 DEF Sends
<1>3. ASSUME NEW o, NEW g \in 1 .. n PROVE RowOf(g, o)' <=> RowOf(g, o)
  <2> PICK w : w = courier_outbox[g]
    OBVIOUS
  <2>1. w \in Message /\ Reached(w.assignment, w.status)
    BY ElementOfSeq DEF CouriersInv, TopicsInType, Announced
  <2>2. OrderOf(w)' = OrderOf(w)
    BY <2>1, OrderOfStays
  <2>3. courier_outbox'[g] = w
    BY <1>0
  <2>4. OrderOf(courier_outbox[g])' = OrderOf(w)'
    BY <2>3 DEF OrderOf
  <2>5. g \in 1 .. Len(courier_outbox')
    BY <1>0
  <2> QED
    BY <2>2, <2>4, <2>5 DEF RowOf
<1>4. ASSUME NEW o \in Orders \ disturbed, NEW k, NEW f, NEW g,
             Sends(k, g), RowOf(f, o)', RowOf(g, o)'
      PROVE  /\ f < g => f \in published /\ \E j \in 1 .. k - 1 : Sends(j, f)
             /\ f > g => \A j \in 1 .. k - 1 : ~Sends(j, f)
  <2>1. g \in 1 .. n /\ RowOf(g, o)
    BY <1>3, <1>4 DEF Sends
  <2>2. f \in 1 .. n \/ f = n + 1
    BY <1>0, <1>4 DEF RowOf
  <2>3. CASE f \in 1 .. n
    <3>1. RowOf(f, o)
      BY <1>3, <1>4, <2>3
    <3> QED
      BY <1>4, <2>1, <3>1 DEF TopicInv, InTurn
  <2>4. CASE f = n + 1
    <3>1. ~(f < g)
      BY <1>0, <2>1, <2>4
    <3>2. \A j : ~Sends(j, f)
      BY <1>0, <2>4 DEF Sends
    <3> QED
      BY <3>1, <3>2
  <2> QED
    BY <2>2, <2>3, <2>4
<1> QED
  BY <1>2, <1>4 DEF InTurn

\* TopicInv is inductive.
LEMMA TopicInvNext ==
    ASSUME CouriersInv, WrittenInv, TopicInv, [SagaNext]_sagaVars
    PROVE  TopicInv'
<1>1. CASE UNCHANGED sagaVars
  BY <1>1 DEF sagaVars, topicVars, outboxVars, couriersTopicVars, courierVars, TopicInv, InTurn,
     Sends, RowOf, OrderOf
<1>2. CASE SagaNext
  <2> USE <1>2
  <2>0. CP!TypeOK /\ TopicsInType /\ StatusesReached /\ Announced /\ disturbed \subseteq disturbed'
    BY DeadLettersGrow DEF CouriersInv, CP!SerialInv, CP!TypeInv
  <2>1. ASSUME NEW m \in dead_letters' PROVE OrderOf(m)' \in disturbed'
    <3>1. \/ m \in dead_letters
          \/ HasNext /\ m = NextMessage /\ OrderOf(m) \in disturbed'
      BY DeadLettersGrow
    <3>2. CASE m \in dead_letters
      <4>1. m \in Message /\ Reached(m.assignment, m.status) /\ OrderOf(m) \in disturbed
        BY <2>0, <3>2 DEF TopicsInType, Announced, TopicInv
      <4> QED
        BY <2>0, <4>1, OrderOfStays
    <3>3. CASE HasNext /\ m = NextMessage /\ OrderOf(m) \in disturbed'
      <4>1. m \in Message /\ Reached(m.assignment, m.status)
        BY <2>0, <3>3, NextMessageInTopic DEF Announced, NextMessage
      <4> QED
        BY <3>3, <4>1, OrderOfStays
    <3> QED
      BY <3>1, <3>2, <3>3
  <2>2. CASE Quiet /\ UNCHANGED <<couriers_topic, published>>
    <3>1. \A k, g : Sends(k, g)' <=> Sends(k, g)
      BY <2>2 DEF Quiet, Sends
    <3>2. \A g, o : RowOf(g, o)' <=> RowOf(g, o)
      BY <2>2 DEF Quiet, RowOf, OrderOf
    <3> QED
      BY <2>0, <2>1, <2>2, <3>1, <3>2 DEF TopicInv, InTurn
  <2>3. ASSUME NEW i \in Pending, Publishes(i) PROVE TopicInv'
    <3>1. \A o \in Orders \ disturbed' : InTurn(o)'
      BY <2>0, <2>3, InTurnPublished
    <3>2. /\ i \in 1 .. Len(courier_outbox) /\ courier_outbox[i] \in Message
          /\ UNCHANGED courier_outbox
      BY <2>0, <2>3, ElementOfSeq DEF Pending, TopicsInType, Publishes, Quiet
    <3>3. /\ \A k, g : Sends(k, g) => Sends(k, g)'
          /\ \E k : Sends(k, i)'
      <4>1. PICK m \in Message : m = courier_outbox[i] /\ couriers_topic' = Append(couriers_topic, m)
        BY <2>3, <3>2 DEF Publishes
      <4>2. \A k, g : Sends(k, g)' <=>
               \/ Sends(k, g)
               \/ /\ k = Len(couriers_topic) + 1
                  /\ g \in 1 .. Len(courier_outbox) /\ courier_outbox[g] = m
        BY <3>2, <4>1, SendsAfter
      <4> QED
        BY <3>2, <4>1, <4>2
    <3>4. \A f \in published' : f \in published \/ f = i
      BY <2>3 DEF Publishes
    <3>5. \A f \in published' : \E k : Sends(k, f)'
      BY <3>3, <3>4 DEF TopicInv
    <3> QED
      BY <2>1, <3>1, <3>5 DEF TopicInv
  <2>4. CASE Replays
    <3>1. \A o \in Orders \ disturbed' : InTurn(o)'
      BY <2>0, <2>4, InTurnReplayed
    <3>2. \A k, g : Sends(k, g) => Sends(k, g)'
      BY <2>0, <2>4, SendsAfter DEF Replays, Quiet, TopicsInType
    <3>3. \A f \in published' : \E k : Sends(k, f)'
      BY <2>4, <3>2 DEF TopicInv, Replays
    <3> QED
      BY <2>1, <3>1, <3>3 DEF TopicInv
  <2>5. ASSUME NEW m \in Message, courier_outbox' = Append(courier_outbox, m),
               ~Reached(m.assignment, m.status), UNCHANGED <<couriers_topic, published>>
        PROVE  TopicInv'
    BY <2>0, <2>1, <2>5, InTurnWritten DEF TopicInv
  <2>6. ASSUME NEW a \in Assignments, NEW c \in Couriers, NEW o \in Orders, Assigned(a, c, o)
        PROVE  TopicInv'
    <3>0. PICK m \in Message : m.assignment = a /\ m.status = "assigned"
                               /\ courier_outbox' = Append(courier_outbox, m)
      BY <2>6 DEF Assigned, Message
    <3>1. ~Reached(a, "assigned")
      BY <2>0, <2>6
      DEF Assigned, StatusesReached, CP!NoAssignmentRow, Later, CP!AssignmentStatus
    <3> QED
      BY <2>5, <2>6, <3>0, <3>1 DEF Assigned
  <2>7. ASSUME NEW a \in Assignments, NEW v \in CP!AssignmentStatus, Moved(a, v)
        PROVE  TopicInv'
    <3>0. PICK m \in Message : m.assignment = a /\ m.status = v
                               /\ courier_outbox' = Append(courier_outbox, m)
      BY <2>7 DEF Moved, Message, CP!AssignmentStatus
    <3> PICK p : p = assignments[a].status
      OBVIOUS
    <3>1. p \in CP!AssignmentStatus /\ v \in CP!ALLOWED_ASSIGNMENT_TRANSITIONS[p]
      BY <2>0, <2>7, MovedRow
    <3>2. p \notin Later(v)
      BY <3>1 DEF CP!AssignmentStatus, CP!ALLOWED_ASSIGNMENT_TRANSITIONS, Later
    <3>3. ~Reached(a, v)
      BY <2>0, <3>2 DEF StatusesReached
    <3> QED
      BY <2>5, <2>7, <3>0, <3>3 DEF Moved
  <2> QED
    BY <2>2, <2>3, <2>4, <2>6, <2>7, AssignmentSteps DEF CouriersInv
<1> QED
  BY <1>1, <1>2

-----------------------------------------------------------------------------
(* An undisturbed order follows the messages dealt with.                   *)

\* The order service dealt with a message that says so.
Heard(a, v) == \E i \in 1 .. couriers_offset : Says(i, a, v)

\* What row may be of order o after the messages that were dealt with.
Follows(o, row) ==
    /\ row.status = "created" => \A a \in AssignmentsOf(o) : ~Heard(a, "assigned")
    /\ row.status = "waiting_for_courier" =>
          \A a \in AssignmentsOf(o) : Heard(a, "assigned") => Reached(a, "cancelled")
    /\ row.status = "courier_assigned" =>
          \E a \in AssignmentsOf(o) : /\ assignments[a].courier_id = row.courier_id
                                      /\ ~Heard(a, "cancelled")
    /\ ~Stranded(o) => \A a \in AssignmentsOf(o) :
          /\ Heard(a, "accepted") => row.status \in {"in_delivery", "delivered", "cancelled"}
          /\ Heard(a, "delivered") => row.status \in {"delivered", "cancelled"}

\* Every order follows whose messages came in turn.
FollowsInv == \A o \in Orders \ disturbed : Follows(o, orders[o])

\* A row that is said by some message is sent by it.
LEMMA SaidIsSent ==
    ASSUME CouriersInv, NEW k \in 1 .. Len(couriers_topic), NEW g \in 1 .. Len(courier_outbox),
           NEW a, NEW v, Says(k, a, v), Writes(g, a, v)
    PROVE  Sends(k, g)
<1>1. couriers_topic[k] \in Message /\ courier_outbox[g] \in Message
  BY ElementOfSeq DEF CouriersInv, TopicsInType
<1> QED
  BY <1>1 DEF Says, Writes, Message, Sends

\* What is older than a message of an undisturbed order that was dealt with, or is
\* the next, was heard.
LEMMA OlderWasHeard ==
    ASSUME CouriersInv, TopicInv, NEW o \in Orders \ disturbed,
           NEW k \in 1 .. couriers_offset + 1, NEW f, NEW g,
           Sends(k, g), RowOf(f, o), RowOf(g, o), f < g, NEW a, NEW v, Writes(f, a, v)
    PROVE  Heard(a, v)
<1>1. PICK j \in 1 .. k - 1 : Sends(j, f)
  BY DEF TopicInv, InTurn
<1>2. j \in 1 .. couriers_offset
  BY DEF CouriersInv, TopicsInType
<1>3. Says(j, a, v)
  BY <1>1 DEF Sends, Says, Writes
<1> QED
  BY <1>2, <1>3 DEF Heard

\* What was heard is no younger than the next message.
LEMMA HeardIsOlder ==
    ASSUME CouriersInv, TopicInv, NEW o \in Orders \ disturbed, NEW f, NEW g,
           couriers_offset < Len(couriers_topic),
           Sends(couriers_offset + 1, g), RowOf(f, o), RowOf(g, o),
           NEW a, NEW v, Writes(f, a, v), Heard(a, v)
    PROVE  f <= g
<1>0. couriers_offset \in Nat /\ Len(couriers_topic) \in Nat
  BY LenProperties DEF CouriersInv, TopicsInType
<1>1. PICK j \in 1 .. couriers_offset : Says(j, a, v)
  BY DEF Heard
<1>2. j \in 1 .. Len(couriers_topic) /\ j \in 1 .. (couriers_offset + 1) - 1
  BY <1>0
<1>3. Sends(j, f)
  BY <1>1, <1>2, SaidIsSent DEF RowOf
<1>4. ~(f > g)
  BY <1>2, <1>3 DEF TopicInv, InTurn
<1> QED
  BY <1>4 DEF RowOf

\* The next message is of an assignment of some order, and has a row.
LEMMA NextIsOf ==
    ASSUME CouriersInv, WrittenInv, couriers_offset < Len(couriers_topic)
    PROVE  LET x == NextMessage.assignment
               v == NextMessage.status
               o == assignments[x].order_id
           IN  /\ x \in Assignments /\ v \in CP!AssignmentStatus
               /\ o \in Orders
               /\ x \in AssignmentsOf(o)
               /\ assignments[x] \in CP!Assignment
               /\ Reached(x, v)
               /\ \E g : /\ Sends(couriers_offset + 1, g) /\ RowOf(g, o)
                         /\ Writes(g, x, v)
<1> DEFINE x == NextMessage.assignment
           v == NextMessage.status
           n == couriers_offset + 1
<1>0. couriers_offset \in Nat /\ Len(couriers_topic) \in Nat
  BY LenProperties DEF CouriersInv, TopicsInType
<1>1. n \in 1 .. Len(couriers_topic) /\ Says(n, x, v)
  BY <1>0 DEF Says, NextMessage
<1>2. /\ x \in Assignments /\ v \in CP!AssignmentStatus /\ Reached(x, v)
      /\ assignments[x] \in CP!Assignment
  BY <1>1, SaidWasReached
<1>3. assignments[x].order_id \in Orders /\ x \in AssignmentsOf(assignments[x].order_id)
  BY <1>2 DEF CP!Assignment, AssignmentsOf
<1>4. PICK g : RowOf(g, assignments[x].order_id) /\ Writes(g, x, v)
  BY <1>2, <1>3, RowOfReached
<1>5. Sends(n, g)
  BY <1>1, <1>4, SaidIsSent DEF RowOf
<1> QED
  BY <1>2, <1>3, <1>4, <1>5

\* The next message of an undisturbed order comes after what it must come after.
LEMMA NextInTurn ==
    ASSUME CouriersInv, WrittenInv, TopicInv, couriers_offset < Len(couriers_topic),
           NEW o \in Orders \ disturbed, NEW x, NEW v,
           x = NextMessage.assignment, v = NextMessage.status, assignments[x].order_id = o
    PROVE  /\ v # "assigned" => Heard(x, "assigned")
           /\ v = "delivered" => Heard(x, "accepted")
           /\ v = "assigned" => ~Heard(x, "cancelled")
<1>0. /\ couriers_offset \in Nat /\ Len(courier_outbox) \in Nat
      /\ x \in Assignments /\ v \in CP!AssignmentStatus
  BY NextIsOf, LenProperties DEF CouriersInv, TopicsInType
<1>1. PICK g : Sends(couriers_offset + 1, g) /\ RowOf(g, o) /\ Writes(g, x, v)
  BY NextIsOf
<1>2. g \in 1 .. Len(courier_outbox) /\ couriers_offset + 1 \in 1 .. couriers_offset + 1
  BY <1>0, <1>1 DEF RowOf
<1>3. ASSUME NEW f \in 1 .. Len(courier_outbox), NEW w, Writes(f, x, w) PROVE RowOf(f, o)
  BY <1>3 DEF RowOf, OrderOf, Writes
<1>4. ASSUME NEW f \in 1 .. g - 1, NEW w, Writes(f, x, w) PROVE Heard(x, w)
  <2>1. f \in 1 .. Len(courier_outbox) /\ f < g
    BY <1>0, <1>2
  <2> QED
    BY <1>1, <1>2, <1>3, <1>4, <2>1, OlderWasHeard
<1>5. v # "assigned" => Heard(x, "assigned")
  <2>1. v # "assigned" => \E j \in 1 .. g - 1 : Writes(j, x, "assigned")
    BY <1>0, <1>1, <1>2 DEF WrittenInv, EverythingIsWritten
  <2> QED
    BY <1>4, <2>1
<1>6. v = "delivered" => Heard(x, "accepted")
  <2>1. v = "delivered" => \E j \in 1 .. g - 1 : Writes(j, x, "accepted")
    BY <1>0, <1>1, <1>2 DEF WrittenInv, EverythingIsWritten
  <2> QED
    BY <1>4, <2>1
<1>7. ASSUME v = "assigned", Heard(x, "cancelled") PROVE FALSE
  <2>0. "cancelled" \in CP!AssignmentStatus
    BY DEF CP!AssignmentStatus
  <2>1. PICK j \in 1 .. couriers_offset : Says(j, x, "cancelled")
    BY <1>7 DEF Heard
  <2>2. Reached(x, "cancelled")
    <3>1. j \in 1 .. Len(couriers_topic)
      BY LenProperties DEF CouriersInv, TopicsInType
    <3> QED
      BY <2>1, <3>1, SaidWasReached
  <2>3. PICK f \in 1 .. Len(courier_outbox) : Writes(f, x, "cancelled")
    BY <1>0, <2>0, <2>2 DEF WrittenInv, EverythingIsWritten, Written
  <2>4. f <= g
    BY <1>1, <1>3, <1>7, <2>3, HeardIsOlder
  <2>5. PICK l \in 1 .. f - 1 : Writes(l, x, "assigned")
    BY <1>0, <2>0, <2>3 DEF WrittenInv, EverythingIsWritten
  <2>6. l = g
    <3>1. l \in 1 .. Len(courier_outbox)
      BY <1>0, <2>5
    <3> QED
      BY <1>1, <1>2, <1>7, <2>5, <3>1, SameRow
  <2> QED
    BY <1>0, <1>2, <2>4, <2>5, <2>6
<1> QED
  BY <1>5, <1>6, <1>7

\* One message more was dealt with.
LEMMA HeardNext ==
    ASSUME CouriersInv, couriers_offset < Len(couriers_topic),
           UNCHANGED couriers_topic, couriers_offset' = couriers_offset + 1
    PROVE  \A a, v : Heard(a, v)' <=> \/ Heard(a, v)
                                      \/ NextMessage.assignment = a /\ NextMessage.status = v
<1> SUFFICES ASSUME NEW a, NEW v
             PROVE  Heard(a, v)' <=> \/ Heard(a, v)
                                     \/ NextMessage.assignment = a /\ NextMessage.status = v
  OBVIOUS
<1> PICK n : n = couriers_offset
  OBVIOUS
<1>0. n \in Nat /\ couriers_offset' = n + 1
  BY DEF CouriersInv, TopicsInType
<1>1. \A i : Says(i, a, v)' <=> Says(i, a, v)
  BY DEF Says
<1>2. Says(n + 1, a, v) <=> (NextMessage.assignment = a /\ NextMessage.status = v)
  BY DEF Says, NextMessage
<1>3. Heard(a, v)' <=> \E i \in 1 .. n + 1 : Says(i, a, v)
  BY <1>0, <1>1 DEF Heard
<1>4. Heard(a, v) <=> \E i \in 1 .. n : Says(i, a, v)
  BY DEF Heard
<1>5. \A i : i \in 1 .. n + 1 <=> i \in 1 .. n \/ i = n + 1
  BY <1>0
<1> QED
  BY <1>2, <1>3, <1>4, <1>5

\* No message more was dealt with.
LEMMA HeardStays ==
    ASSUME CouriersInv, InHand, SagaNext, couriers_offset' \in Nat,
           couriers_offset' <= couriers_offset, NEW a, NEW v, Heard(a, v)'
    PROVE  Heard(a, v)
<1>0. couriers_offset \in Nat /\ couriers_offset <= Len(couriers_topic)
  BY DEF CouriersInv, TopicsInType, InHand
<1>1. PICK i \in 1 .. couriers_offset' : Says(i, a, v)'
  BY DEF Heard
<1>2. i \in 1 .. couriers_offset /\ i \in 1 .. Len(couriers_topic)
  BY <1>0, Growth
<1>3. Says(i, a, v)
  BY <1>1, <1>2, Growth DEF Says
<1> QED
  BY <1>2, <1>3 DEF Heard

\* What the couriers do changes nothing for the messages that were dealt with.
LEMMA FollowsStays ==
    ASSUME CouriersInv, InHand, SagaNext, couriers_offset' \in Nat,
           couriers_offset' <= couriers_offset,
           NEW o \in Orders, NEW row, Follows(o, row)
    PROVE  Follows(o, row)'
<1>0. CP!TypeOK /\ couriers_offset \in Nat /\ couriers_offset <= Len(couriers_topic)
  BY DEF CouriersInv, CP!SerialInv, CP!TypeInv, TopicsInType, InHand
<1>1. \A a, v : Heard(a, v)' => Heard(a, v)
  BY HeardStays
<1>2. ASSUME NEW a \in AssignmentsOf(o)
      PROVE  /\ a \in AssignmentsOf(o)'
             /\ assignments'[a].courier_id = assignments[a].courier_id
             /\ \A v : Reached(a, v) => Reached(a, v)'
  BY <1>0, <1>2, AssignmentRows, Growth DEF AssignmentsOf
<1>3. ASSUME NEW a \in AssignmentsOf(o)', NEW v, Heard(a, v)
      PROVE  a \in AssignmentsOf(o)
  <2>1. PICK i \in 1 .. couriers_offset : Says(i, a, v)
    BY <1>3 DEF Heard
  <2>2. i \in 1 .. Len(couriers_topic)
    BY <1>0, Growth
  <2>3. a \in Assignments /\ assignments[a] \in CP!Assignment
    BY <2>1, <2>2, SaidWasReached
  <2> QED
    BY <2>3, Growth DEF AssignmentsOf
<1>4. Stranded(o) => Stranded(o)'
  BY <1>2 DEF Stranded
<1>5. row.status = "courier_assigned" =>
         \E a \in AssignmentsOf(o)' : /\ assignments'[a].courier_id = row.courier_id
                                      /\ ~Heard(a, "cancelled")'
  BY <1>1, <1>2 DEF Follows
<1>6. /\ row.status = "created" => \A a \in AssignmentsOf(o)' : ~Heard(a, "assigned")'
      /\ row.status = "waiting_for_courier" =>
            \A a \in AssignmentsOf(o)' : Heard(a, "assigned")' => Reached(a, "cancelled")'
  BY <1>1, <1>2, <1>3 DEF Follows
<1>7. ~Stranded(o)' => \A a \in AssignmentsOf(o)' :
         /\ Heard(a, "accepted")' => row.status \in {"in_delivery", "delivered", "cancelled"}
         /\ Heard(a, "delivered")' => row.status \in {"delivered", "cancelled"}
  BY <1>1, <1>3, <1>4 DEF Follows
<1> QED
  BY <1>5, <1>6, <1>7 DEF Follows

\* What is said of the assignments stays.
LEMMA StillSo ==
    ASSUME Still
    PROVE  /\ \A o : AssignmentsOf(o)' = AssignmentsOf(o)
           /\ \A a, v : Reached(a, v)' <=> Reached(a, v)
           /\ \A o : Stranded(o)' <=> Stranded(o)
           /\ \A a : assignments'[a] = assignments[a]
<1>1. \A o : AssignmentsOf(o)' = AssignmentsOf(o)
  BY DEF Still, AssignmentsOf
<1>2. \A a, v : Reached(a, v)' <=> Reached(a, v)
  BY DEF Still, Reached
<1> QED
  BY <1>1, <1>2 DEF Still, Stranded

\* The message is of another order.
LEMMA FollowsOther ==
    ASSUME CouriersInv, Still, couriers_offset < Len(couriers_topic),
           couriers_offset' = couriers_offset + 1,
           NEW o \in Orders, assignments[NextMessage.assignment].order_id # o,
           NEW row, Follows(o, row)
    PROVE  Follows(o, row)'
<1>1. UNCHANGED couriers_topic
  BY DEF Still
<1>2. \A a \in AssignmentsOf(o) : \A v : Heard(a, v)' <=> Heard(a, v)
  BY <1>1, HeardNext DEF AssignmentsOf
<1>3. AssignmentsOf(o)' = AssignmentsOf(o)
  BY StillSo
<1> QED
  BY <1>2, <1>3, StillSo DEF Follows

\* The message is ignored: the order is as it should be already, or the
\* message is of an assignment that the order passed by.
LEMMA FollowsIgnored ==
    ASSUME CouriersInv, OrderServiceInv, ClaimsInv, WrittenInv, TopicInv, Still,
           couriers_offset < Len(couriers_topic), Ignores(NextMessage),
           couriers_offset' = couriers_offset + 1,
           NEW o \in Orders \ disturbed, o = assignments[NextMessage.assignment].order_id,
           NEW row, row = orders[o], row.status # "none", Follows(o, row)
    PROVE  Follows(o, row)'
<1> PICK x, v : x = NextMessage.assignment /\ v = NextMessage.status
  OBVIOUS
<1>0. /\ x \in AssignmentsOf(o) /\ x \in Assignments /\ v \in CP!AssignmentStatus
      /\ Reached(x, v)
      /\ v # "assigned" => Heard(x, "assigned")
      /\ v = "delivered" => Heard(x, "accepted")
  BY NextIsOf, NextInTurn
<1>1. /\ AssignmentsOf(o)' = AssignmentsOf(o)
      /\ \A a, w : Reached(a, w)' <=> Reached(a, w)
      /\ Stranded(o)' <=> Stranded(o)
      /\ \A a : assignments'[a] = assignments[a]
  BY StillSo
<1>2. \A a, w : Heard(a, w)' <=> Heard(a, w) \/ (x = a /\ v = w)
  BY HeardNext DEF Still
<1>3. \/ v = "assigned" /\ ~OP!MayBecome(o, "courier_assigned")
      \/ /\ v # "assigned"
         /\ \/ row.courier_id # assignments[x].courier_id
            \/ ~OP!MayBecome(o, OP!order_status_for_assignment_status(v))
  BY DEF Ignores, O!MayBecome, OP!MayBecome, O!ALLOWED_STATUS_TRANSITIONS,
     OP!ALLOWED_STATUS_TRANSITIONS, O!OrderStatus, OP!OrderStatus,
     O!order_status_for_assignment_status, OP!order_status_for_assignment_status
<1>4. row.status \in OP!OrderStatus
  <2>1. orders[o] \in OP!Row \cup {OP!NoRow}
    BY DEF OrderServiceInv, OP!HistoryInv, OP!TypeInv, OP!TypeOK
  <2>2. orders[o] \in OP!Row
    BY <2>1 DEF OP!NoRow
  <2> QED
    BY <2>2 DEF OP!Row
<1>5. Claims(o, row)
  BY DEF ClaimsInv
<1>6. ASSUME NEW a \in AssignmentsOf(o), a # x, Reached(a, "accepted"), Reached(x, "accepted")
      PROVE  Stranded(o)
  BY <1>0, <1>6, OneWasCancelled DEF Stranded
<1>7. Reached(x, "accepted") /\ Reached(x, "cancelled") => Stranded(o)
  BY <1>0 DEF Stranded
<1>8. row.status = "created" => \A a \in AssignmentsOf(o) : ~Heard(a, "assigned")'
  <2>1. row.status = "created" /\ v = "assigned" => OP!MayBecome(o, "courier_assigned")
    BY DEF OP!MayBecome, OP!ALLOWED_STATUS_TRANSITIONS, OP!OrderStatus
  <2> QED
    BY <1>2, <1>3, <2>1 DEF Follows
<1>9. row.status = "waiting_for_courier" =>
         \A a \in AssignmentsOf(o) : Heard(a, "assigned")' => Reached(a, "cancelled")
  <2>1. row.status = "waiting_for_courier" /\ v = "assigned" => OP!MayBecome(o, "courier_assigned")
    BY DEF OP!MayBecome, OP!ALLOWED_STATUS_TRANSITIONS, OP!OrderStatus
  <2> QED
    BY <1>2, <1>3, <2>1 DEF Follows
<1>10. row.status = "courier_assigned" =>
          \E a \in AssignmentsOf(o) : /\ assignments[a].courier_id = row.courier_id
                                      /\ ~Heard(a, "cancelled")'
  <2>1. row.status = "courier_assigned" /\ v = "cancelled"
           => OP!MayBecome(o, OP!order_status_for_assignment_status(v))
    BY DEF OP!MayBecome, OP!ALLOWED_STATUS_TRANSITIONS, OP!OrderStatus,
       OP!order_status_for_assignment_status
  <2>2. row.status = "courier_assigned" /\ v = "cancelled"
           => row.courier_id # assignments[x].courier_id
    BY <1>3, <2>1
  <2> QED
    BY <1>2, <2>2 DEF Follows
<1>11. ASSUME ~Stranded(o), v = "accepted"
       PROVE  row.status \in {"in_delivery", "delivered", "cancelled"}
  <2>1. Reached(x, "accepted") /\ Heard(x, "assigned")
    BY <1>0, <1>11
  <2>2. row.status # "created"
    BY <1>0, <2>1 DEF Follows
  <2>3. row.status # "waiting_for_courier"
    BY <1>0, <1>7, <1>11, <2>1 DEF Follows
  <2>4. CASE row.status = "courier_assigned"
    <3>1. OP!MayBecome(o, OP!order_status_for_assignment_status(v))
      BY <1>11, <2>4 DEF OP!MayBecome, OP!ALLOWED_STATUS_TRANSITIONS, OP!OrderStatus,
         OP!order_status_for_assignment_status
    <3>2. row.courier_id # assignments[x].courier_id
      BY <1>3, <1>11, <3>1
    <3>3. PICK a \in AssignmentsOf(o) : assignments[a].courier_id = row.courier_id
                                        /\ ~Heard(a, "cancelled")
      BY <2>4 DEF Follows
    <3>4. a # x
      BY <3>2, <3>3
    <3>5. PICK g : /\ Sends(couriers_offset + 1, g) /\ RowOf(g, o)
                   /\ Writes(g, x, "accepted")
      BY <1>11, NextIsOf
    <3>6. /\ couriers_offset \in Nat /\ Len(courier_outbox) \in Nat
          /\ g \in 1 .. Len(courier_outbox) /\ couriers_offset + 1 \in 1 .. couriers_offset + 1
      BY <3>5, LenProperties DEF CouriersInv, TopicsInType, RowOf
    <3>7. PICK j \in 1 .. g - 1 : Writes(j, x, "assigned")
      BY <1>0, <3>5, <3>6 DEF WrittenInv, EverythingIsWritten, CP!AssignmentStatus
    <3>8. a \in Assignments /\ assignments[a] \in CP!Assignment
      BY AssignmentRows DEF CouriersInv, CP!SerialInv, CP!TypeInv
    <3>9. PICK k : RowOf(k, o) /\ Writes(k, a, "assigned")
      <4>1. Reached(a, "assigned") /\ "assigned" \in CP!AssignmentStatus
        BY <3>8 DEF CouriersInv, StatusesReached, CP!Assignment, CP!AssignmentStatus
      <4> QED
        BY <4>1, RowOfReached
    <3>10. j \in 1 .. Len(courier_outbox) /\ k \in 1 .. Len(courier_outbox)
      BY <3>6, <3>9 DEF RowOf
    <3>11. \/ j < k /\ \E l \in j + 1 .. k - 1 : Writes(l, x, "cancelled")
           \/ k < j /\ \E l \in k + 1 .. j - 1 : Writes(l, a, "cancelled")
      BY <1>0, <3>4, <3>7, <3>9, <3>10, OneAfterTheOther
    <3>12. ASSUME NEW l \in j + 1 .. k - 1, Writes(l, x, "cancelled") PROVE FALSE
      <4>1. l \in 1 .. Len(courier_outbox)
        BY <3>6, <3>10
      <4> QED
        BY <1>7, <1>11, <2>1, <3>12, <4>1, WrittenWasReached
    <3>13. ASSUME NEW l \in k + 1 .. j - 1, Writes(l, a, "cancelled") PROVE FALSE
      <4>1. l \in 1 .. Len(courier_outbox) /\ l < g
        BY <3>6, <3>7, <3>10
      <4>2. RowOf(l, o)
        BY <3>13, <4>1 DEF RowOf, OrderOf, Writes, AssignmentsOf
      <4> QED
        BY <3>3, <3>5, <3>6, <3>13, <4>1, <4>2, OlderWasHeard
    <3> QED
      BY <3>11, <3>12, <3>13
  <2> QED
    BY <1>4, <2>2, <2>3, <2>4 DEF OP!OrderStatus
<1>12. ASSUME ~Stranded(o), v = "delivered"
       PROVE  row.status \in {"delivered", "cancelled"}
  <2>0. Reached(x, "accepted")
    <3>1. PICK i \in 1 .. couriers_offset : Says(i, x, "accepted")
      BY <1>0, <1>12 DEF Heard
    <3>2. i \in 1 .. Len(couriers_topic)
      BY LenProperties DEF CouriersInv, TopicsInType
    <3> QED
      BY <3>1, <3>2, SaidWasReached
  <2>1. row.status \in {"in_delivery", "delivered", "cancelled"}
    BY <1>0, <1>12 DEF Follows
  <2>2. CASE row.status = "in_delivery"
    <3>1. OP!MayBecome(o, OP!order_status_for_assignment_status(v))
      BY <1>12, <2>2 DEF OP!MayBecome, OP!ALLOWED_STATUS_TRANSITIONS, OP!OrderStatus,
         OP!order_status_for_assignment_status
    <3>2. row.courier_id # assignments[x].courier_id
      BY <1>3, <1>12, <3>1
    <3>3. PICK a \in AssignmentsOf(o) : assignments[a].courier_id = row.courier_id
                                        /\ Reached(a, "accepted")
      BY <1>5, <2>2 DEF Claims
    <3> QED
      BY <1>6, <1>12, <2>0, <3>2, <3>3
  <2> QED
    BY <2>1, <2>2
<1>13. ~Stranded(o) => \A a \in AssignmentsOf(o) :
          /\ Heard(a, "accepted")' => row.status \in {"in_delivery", "delivered", "cancelled"}
          /\ Heard(a, "delivered")' => row.status \in {"delivered", "cancelled"}
  BY <1>2, <1>11, <1>12 DEF Follows
<1> QED
  BY <1>1, <1>8, <1>9, <1>10, <1>13 DEF Follows

\* The message is applied.
LEMMA FollowsApplied ==
    ASSUME CouriersInv, WrittenInv, TopicInv, Still, couriers_offset < Len(couriers_topic),
           couriers_offset' = couriers_offset + 1,
           NEW t, Applies(t, NextMessage), OP!ValidChange(t.old, t.new),
           NEW o \in Orders \ disturbed, o = t.order, Follows(o, t.old)
    PROVE  Follows(o, t.new)'
<1> PICK x, v : x = NextMessage.assignment /\ v = NextMessage.status
  OBVIOUS
<1>0. /\ x \in Assignments /\ v \in CP!AssignmentStatus
      /\ o = assignments[x].order_id /\ x \in AssignmentsOf(o)
      /\ Reached(x, v)
      /\ v # "assigned" => Heard(x, "assigned")
      /\ v = "assigned" => ~Heard(x, "cancelled")
  BY NextIsOf, NextInTurn DEF Applies
<1>1. /\ AssignmentsOf(o)' = AssignmentsOf(o)
      /\ \A a, w : Reached(a, w)' <=> Reached(a, w)
      /\ Stranded(o)' <=> Stranded(o)
      /\ \A a : assignments'[a] = assignments[a]
  BY StillSo
<1>2. \A a, w : Heard(a, w)' <=> Heard(a, w) \/ (x = a /\ v = w)
  BY HeardNext DEF Still
<1> PICK old, new : old = t.old.status /\ new = t.new.status
  OBVIOUS
<1>3. /\ new = "courier_assigned" => old \in {"created", "waiting_for_courier"}
      /\ new = "in_delivery" => old = "courier_assigned"
      /\ new = "delivered" => old = "in_delivery"
      /\ new = "waiting_for_courier" => old \in {"created", "courier_assigned"}
  BY OP!TransitionTable, OrderSentinels DEF OP!ValidChange
<1>4. CASE v = "assigned"
  <2>1. new = "courier_assigned" /\ t.new.courier_id = assignments[x].courier_id
    BY <1>4 DEF Applies
  <2>2. ~Heard(x, "cancelled")'
    BY <1>0, <1>2, <1>4
  <2>3. \A a \in AssignmentsOf(o) : ~Stranded(o) => ~Heard(a, "accepted")' /\ ~Heard(a, "delivered")'
    BY <1>2, <1>3, <1>4, <2>1 DEF Follows
  <2> QED
    BY <1>0, <1>1, <2>1, <2>2, <2>3 DEF Follows
<1>5. CASE v \in {"accepted", "picked_up"}
  <2>1. new = "in_delivery"
    BY <1>5 DEF Applies, OP!order_status_for_assignment_status
  <2>2. \A a \in AssignmentsOf(o) : ~Stranded(o) => ~Heard(a, "delivered")'
    BY <1>2, <1>3, <1>5, <2>1 DEF Follows
  <2> QED
    BY <1>1, <2>1, <2>2 DEF Follows
<1>6. CASE v = "delivered"
  <2>1. new = "delivered"
    BY <1>6 DEF Applies, OP!order_status_for_assignment_status
  <2> QED
    BY <1>1, <2>1 DEF Follows
<1>7. CASE v = "cancelled"
  <2>1. new = "waiting_for_courier"
    BY <1>7 DEF Applies, OP!order_status_for_assignment_status
  <2>2. old = "courier_assigned"
    BY <1>0, <1>3, <1>7, <2>1 DEF Follows
  <2>3. \A a \in AssignmentsOf(o) : ~Stranded(o) => ~Heard(a, "accepted")' /\ ~Heard(a, "delivered")'
    BY <1>2, <1>7, <2>2 DEF Follows
  <2>4. ASSUME NEW a \in AssignmentsOf(o), Heard(a, "assigned")'
        PROVE  Reached(a, "cancelled")
    <3>1. CASE a = x
      BY <1>0, <1>7, <3>1
    <3>2. CASE a # x
      <4>0. Len(courier_outbox) \in Nat
            /\ "assigned" \in CP!AssignmentStatus /\ "cancelled" \in CP!AssignmentStatus
        BY LenProperties DEF CouriersInv, TopicsInType, CP!AssignmentStatus
      <4>1. Heard(a, "assigned")
        BY <1>2, <1>7, <2>4
      <4>2. PICK g : /\ Sends(couriers_offset + 1, g) /\ RowOf(g, o)
                     /\ Writes(g, x, "cancelled")
        BY <1>0, <1>7, NextIsOf
      <4>3. PICK i : RowOf(i, o) /\ Writes(i, a, "assigned")
        <5>1. PICK k \in 1 .. couriers_offset : Says(k, a, "assigned")
          BY <4>1 DEF Heard
        <5>2. k \in 1 .. Len(couriers_topic)
          BY LenProperties DEF CouriersInv, TopicsInType
        <5>3. Reached(a, "assigned")
          BY <5>1, <5>2, SaidWasReached
        <5> QED
          BY <4>0, <5>3, RowOfReached
      <4>4. i <= g
        BY <4>1, <4>2, <4>3, HeardIsOlder
      <4>5. i \in 1 .. Len(courier_outbox) /\ g \in 1 .. Len(courier_outbox)
        BY <4>2, <4>3 DEF RowOf
      <4>6. PICK j \in 1 .. g - 1 : Writes(j, x, "assigned")
        BY <1>0, <4>0, <4>2, <4>5 DEF WrittenInv, EverythingIsWritten
      <4>7. j \in 1 .. Len(courier_outbox)
        BY <4>0, <4>5
      <4>8. \/ i < j /\ \E k \in i + 1 .. j - 1 : Writes(k, a, "cancelled")
            \/ j < i /\ \E k \in j + 1 .. i - 1 : Writes(k, x, "cancelled")
        BY <1>0, <3>2, <4>3, <4>5, <4>6, <4>7, OneAfterTheOther
      <4>9. ASSUME NEW k \in j + 1 .. i - 1, Writes(k, x, "cancelled") PROVE FALSE
        <5>1. k \in 1 .. Len(courier_outbox) /\ k < g
          BY <4>0, <4>4, <4>5, <4>7
        <5> QED
          BY <4>2, <4>5, <4>9, <5>1, SameRow
      <4>10. ASSUME NEW k \in i + 1 .. j - 1, Writes(k, a, "cancelled")
             PROVE  Reached(a, "cancelled")
        <5>1. k \in 1 .. Len(courier_outbox)
          BY <4>0, <4>5, <4>7
        <5> QED
          BY <4>10, <5>1, WrittenWasReached
      <4> QED
        BY <4>8, <4>9, <4>10
    <3> QED
      BY <3>1, <3>2
  <2> QED
    BY <1>1, <2>1, <2>3, <2>4 DEF Follows
<1> QED
  BY <1>0, <1>4, <1>5, <1>6, <1>7 DEF CP!AssignmentStatus

\* FollowsInv is inductive: whether the next message is applied or ignored, its
\* order follows it, and the other orders are not concerned.
LEMMA FollowsInvNext ==
    ASSUME CouriersInv, OrderServiceInv, ClaimsInv, ClaimsInv', WrittenInv, TopicInv,
           OrdersExist, FollowsInv, [SagaNext]_sagaVars
    PROVE  FollowsInv'
<1>1. CASE UNCHANGED sagaVars
  BY <1>1 DEF sagaVars, orderVars, courierVars, topicVars, couriersTopicVars, FollowsInv, Follows,
     AssignmentsOf, Heard, Says, Reached, Stranded
<1>2. CASE SagaNext
  <2> USE <1>2
  <2> SUFFICES ASSUME NEW o \in Orders, o \notin disturbed'
               PROVE  Follows(o, orders[o])'
    BY DEF FollowsInv
  <2>0. /\ OP!TypeOK /\ InHand /\ InHand'
        /\ couriers_offset \in Nat /\ Len(couriers_topic) \in Nat
        /\ Http \in Threads /\ Kafka \in Threads
    BY LenProperties DEF CouriersInv, TopicsInType, OrderServiceInv, OP!HistoryInv, OP!TypeInv,
       ClaimsInv, Threads
  <2>1. o \in Orders \ disturbed /\ Follows(o, orders[o])
    BY DeadLettersGrow DEF FollowsInv
  <2>2. ASSUME NEW row, row = orders'[o], Follows(o, row)'
        PROVE  Follows(o, orders[o])'
    BY <2>2 DEF Follows
  <2>3. ASSUME orders'[o] = orders[o], couriers_offset' \in Nat,
               couriers_offset' <= couriers_offset
        PROVE  Follows(o, orders[o])'
    <3> PICK row : row = orders[o]
      OBVIOUS
    <3>1. Follows(o, row)
      BY <2>1
    <3>2. Follows(o, row)'
      BY <2>0, <2>3, <3>1, FollowsStays
    <3> QED
      BY <2>2, <2>3, <3>2
  <2>4. CASE UNCHANGED <<orders, order_txn, couriers_offset>>
    BY <2>0, <2>3, <2>4
  <2>5. ASSUME NEW p \in Orders, Created(p), Still
        PROVE  Follows(o, orders[o])'
    <3>1. CASE p # o
      BY <2>0, <2>3, <2>5, <3>1 DEF Created, OP!TypeOK
    <3>2. CASE p = o
      <4> PICK row : row = orders'[o]
        OBVIOUS
      <4>1. row.status = "created"
        BY <2>0, <2>5, <3>2 DEF Created, OP!TypeOK
      <4>2. AssignmentsOf(o)' = {}
        <5>1. AssignmentsOf(o) = {}
          BY <2>5, <3>2 DEF Created, OrdersExist, AssignmentsOf
        <5> QED
          BY <2>5, <5>1, StillSo
      <4>3. Follows(o, row)'
        BY <4>1, <4>2 DEF Follows
      <4> QED
        BY <2>2, <4>3
    <3> QED
      BY <3>1, <3>2
  <2>6. CASE CancelBegins \/ ApplyBegins \/ Abandoned
    BY <2>0, <2>3, <2>6 DEF CancelBegins, ApplyBegins, Abandoned
  <2>7. CASE Returned
    BY <2>0, <2>3, <2>7 DEF Returned
  <2>8. ASSUME Still, couriers_offset < Len(couriers_topic),
               couriers_offset' = couriers_offset + 1,
               assignments[NextMessage.assignment].order_id # o, orders'[o] = orders[o]
        PROVE  Follows(o, orders[o])'
    <3> PICK row : row = orders[o]
      OBVIOUS
    <3>1. Follows(o, row)
      BY <2>1
    <3>2. Follows(o, row)'
      BY <2>8, <3>1, FollowsOther
    <3> QED
      BY <2>2, <2>8, <3>2
  <2>9. CASE Passed /\ Still
    <3>0. /\ couriers_offset < Len(couriers_topic)
          /\ couriers_offset' = couriers_offset + 1
          /\ Ignores(NextMessage) \/ OrderOf(NextMessage) # o
          /\ UNCHANGED orders
      BY <2>9 DEF Passed, HasNext
    <3>1. CASE assignments[NextMessage.assignment].order_id # o
      BY <2>8, <2>9, <3>0, <3>1
    <3>2. CASE assignments[NextMessage.assignment].order_id = o
      <4> PICK row : row = orders[o]
        OBVIOUS
      <4>1. NextMessage.assignment \in Assignments
        BY <3>0, NextIsOf
      <4>2. row.status # "none"
        BY <3>2, <4>1 DEF OrdersExist
      <4>3. Follows(o, row)
        BY <2>1
      <4>4. o = assignments[NextMessage.assignment].order_id /\ Ignores(NextMessage)
        BY <3>0, <3>2 DEF OrderOf
      <4>5. Follows(o, row)'
        BY <2>1, <2>9, <3>0, <4>2, <4>3, <4>4, FollowsIgnored
      <4> QED
        BY <2>2, <3>0, <4>5
    <3> QED
      BY <3>1, <3>2
  <2>10. CASE OP!Commit(Http) /\ UNCHANGED couriers_offset /\ Still
    <3> PICK t : t = order_txn[Http]
      OBVIOUS
    <3>1. /\ t # NoTxn
          /\ orders'[t.order] = t.new
          /\ \A p \in Orders : p # t.order => orders'[p] = orders[p]
      BY <2>0, <2>10, CommitLeaves
    <3>2. t.new.status = "cancelled"
      BY <2>0, <3>1 DEF InHand
    <3>3. CASE o = t.order
      <4> PICK row : row = t.new
        OBVIOUS
      <4>1. Follows(o, row)'
        BY <3>2 DEF Follows
      <4> QED
        BY <2>2, <3>1, <3>3, <4>1
    <3>4. CASE o # t.order
      BY <2>0, <2>3, <2>10, <3>1, <3>4
    <3> QED
      BY <3>3, <3>4
  <2>11. CASE OP!Commit(Kafka) /\ couriers_offset' = couriers_offset + 1 /\ Still
    <3> PICK t : t = order_txn[Kafka]
      OBVIOUS
    <3>1. /\ t # NoTxn /\ t.old = orders[t.order] /\ OP!ValidChange(t.old, t.new)
          /\ orders'[t.order] = t.new
          /\ \A p \in Orders : p # t.order => orders'[p] = orders[p]
      BY <2>0, <2>11, CommitLeaves
    <3>2. couriers_offset < Len(couriers_topic) /\ Applies(t, NextMessage)
      BY <2>0, <3>1 DEF InHand
    <3>3. t.order = assignments[NextMessage.assignment].order_id
      BY <3>2 DEF Applies
    <3>4. CASE o = t.order
      <4> PICK row : row = t.new
        OBVIOUS
      <4>1. Follows(o, t.old)
        BY <2>1, <3>1, <3>4
      <4>2. Follows(o, t.new)'
        BY <2>1, <2>11, <3>1, <3>2, <3>4, <4>1, FollowsApplied
      <4> QED
        BY <2>2, <3>1, <3>4, <4>2
    <3>5. CASE o # t.order
      BY <2>8, <2>11, <3>1, <3>2, <3>3, <3>5
    <3> QED
      BY <3>4, <3>5
  <2> QED
    BY <2>4, <2>5, <2>6, <2>7, <2>9, <2>10, <2>11, OrderSteps DEF Still
<1> QED
  BY <1>1, <1>2 DEF sagaVars

\* The invariant of the saga.
SagaInv ==
    /\ CouriersInv /\ OrderServiceInv /\ ClaimsInv /\ OrdersExist
    /\ WrittenInv /\ TopicInv /\ FollowsInv

\* It holds in every state.
LEMMA SagaInvariant == SagaSpec => []SagaInv
<1>1. SagaInit => OrdersExist /\ WrittenInv /\ TopicInv /\ FollowsInv
  <2> SUFFICES ASSUME SagaInit PROVE OrdersExist /\ WrittenInv /\ TopicInv /\ FollowsInv
    OBVIOUS
  <2>1. /\ Len(orders_topic) = 0 /\ Len(couriers_topic) = 0 /\ couriers_offset = 0
        /\ Len(courier_outbox) = 0 /\ published = {} /\ dead_letters = {}
        /\ \A s \in Threads : courier_txn[s] = NoTxn
        /\ \A a \in Assignments : /\ assignments[a].order_id \notin Orders
                                  /\ Len(assignment_outbox[a]) = 0
        /\ \A o \in Orders : orders[o].status = "none"
    BY EmptySeq, SagaAssumption DEF SagaInit, Threads, C!NoAssignmentRow, O!Init, O!NoRow
  <2>2. OrdersExist
    BY <2>1 DEF OrdersExist
  <2>3. \A a \in Assignments : \A v : ~Reached(a, v)
    BY <2>1 DEF Reached
  <2>4. WrittenInv /\ TopicInv
    BY <2>1, <2>3 DEF WrittenInv, EverythingIsWritten, WrittenOnce, TopicInv, InTurn, Sends
  <2>5. \A o \in Orders : AssignmentsOf(o) = {}
    BY <2>1 DEF AssignmentsOf
  <2>6. FollowsInv
    BY <2>1, <2>5 DEF FollowsInv, Follows
  <2> QED
    BY <2>2, <2>4, <2>6
<1>2. /\ CouriersInv /\ OrderServiceInv /\ OrdersExist /\ [SagaNext]_sagaVars => OrdersExist'
      /\ CouriersInv /\ WrittenInv /\ [SagaNext]_sagaVars => WrittenInv'
      /\ CouriersInv /\ WrittenInv /\ TopicInv /\ [SagaNext]_sagaVars => TopicInv'
      /\ /\ CouriersInv /\ OrderServiceInv /\ ClaimsInv /\ ClaimsInv' /\ WrittenInv /\ TopicInv
         /\ OrdersExist /\ FollowsInv /\ [SagaNext]_sagaVars
         => FollowsInv'
  BY OrdersExistNext, WrittenInvNext, TopicInvNext, FollowsInvNext
<1> QED
  BY <1>1, <1>2, CouriersInvariant, OrderServiceInvariant, ClaimsInvariant, PTL
  DEF SagaSpec, sagaVars, SagaInv

\* Once the order service has caught up with an order that is neither cancelled nor
\* stranded, the order has the status that its assignments stand for, whatever was
\* repeated, unless a message of it was published before an older one or given up:
\* what was published in turn is read as the couriers did it.
THEOREM CaughtUpOrdersAgree == SagaSpec => []CaughtUpAgrees
<1>1. SagaInv => CaughtUpAgrees
  <2> SUFFICES ASSUME SagaInv, NEW o \in Orders \ disturbed, CaughtUp(o), orders[o].status \notin {"none", "cancelled"},
                      ~Stranded(o)
               PROVE  orders[o].status \in Expected(o)
    BY DEF CaughtUpAgrees
  <2> PICK row : row = orders[o]
    OBVIOUS
  <2>0. CP!TypeOK /\ OP!TypeOK /\ StatusesReached
    BY DEF SagaInv, CouriersInv, CP!SerialInv, CP!TypeInv, OrderServiceInv, OP!HistoryInv,
       OP!TypeInv
  <2>1. row.status \in {"created", "waiting_for_courier", "courier_assigned", "in_delivery",
                        "delivered"}
    <3>1. orders[o] \in OP!Row \cup {OP!NoRow}
      BY <2>0 DEF OP!TypeOK
    <3>2. orders[o] \in OP!Row
      BY <3>1 DEF OP!NoRow
    <3> QED
      BY <3>2 DEF OP!Row, OP!OrderStatus
  <2>2. Follows(o, row) /\ Claims(o, row)
    BY DEF SagaInv, FollowsInv, ClaimsInv
  <2>3. ASSUME NEW a \in AssignmentsOf(o)
        PROVE  /\ a \in Assignments /\ assignments[a].status \in CP!AssignmentStatus
               /\ Reached(a, "assigned") /\ Reached(a, assignments[a].status)
               /\ assignments[a].status \in {"picked_up", "delivered"} => Reached(a, "accepted")
               /\ \A v \in CP!AssignmentStatus :
                     Reached(a, v) => Heard(a, v) /\ assignments[a].status \in Later(v)
    <3>1. a \in Assignments /\ assignments[a] \in CP!Assignment
      BY <2>0, AssignmentRows
    <3>2. assignments[a].status \in CP!AssignmentStatus /\ assignments[a].status # "none"
      BY <3>1 DEF CP!Assignment, CP!AssignmentStatus
    <3>3. ASSUME NEW v \in CP!AssignmentStatus, Reached(a, v) PROVE Heard(a, v)
      <4>1. PICK g : RowOf(g, o) /\ Writes(g, a, v)
        BY <3>3, RowOfReached DEF SagaInv
      <4>2. g \in published
        BY <4>1 DEF CaughtUp, Pending, RowOf
      <4>3. PICK k : Sends(k, g)
        BY <4>2 DEF SagaInv, TopicInv
      <4> QED
        BY <4>1, <4>3 DEF CaughtUp, Heard, Sends, Says, Writes
    <3> QED
      BY <2>0, <3>1, <3>2, <3>3 DEF StatusesReached
  <2> DEFINE current == {a \in AssignmentsOf(o) : assignments[a].status # "cancelled"}
  <2>4. CASE row.status = "created"
    <3>1. AssignmentsOf(o) = {}
      BY <2>2, <2>3, <2>4 DEF Follows, CP!AssignmentStatus
    <3> QED
      BY <2>4, <3>1 DEF Expected
  <2>5. CASE row.status = "waiting_for_courier"
    <3>1. AssignmentsOf(o) # {}
      BY <2>2, <2>5 DEF Claims
    <3>2. \A a \in AssignmentsOf(o) : assignments[a].status \in Later("cancelled")
      BY <2>2, <2>3, <2>5 DEF Follows, CP!AssignmentStatus
    <3>3. current = {}
      BY <3>2 DEF Later
    <3> QED
      BY <2>5, <3>1, <3>3 DEF Expected
  <2>6. ASSUME NEW a \in AssignmentsOf(o), assignments[a].status # "cancelled",
               row.status = IF assignments[a].status = "assigned" THEN "courier_assigned"
                            ELSE O!order_status_for_assignment_status(assignments[a].status)
        PROVE  row.status \in Expected(o)
    <3>1. a \in current
      BY <2>6
    <3> QED
      BY <2>6, <3>1 DEF Expected
  <2>7. CASE row.status = "courier_assigned"
    <3>1. PICK a \in AssignmentsOf(o) : ~Heard(a, "cancelled")
      BY <2>2, <2>7 DEF Follows
    <3>2. ~Reached(a, "cancelled") /\ ~Reached(a, "accepted")
      BY <2>2, <2>3, <2>7, <3>1 DEF Follows, CP!AssignmentStatus
    <3>3. assignments[a].status = "assigned"
      BY <2>3, <3>2 DEF CP!AssignmentStatus
    <3> QED
      BY <2>6, <2>7, <3>3
  <2>8. CASE row.status = "in_delivery"
    <3>1. PICK a \in AssignmentsOf(o) : Reached(a, "accepted")
      BY <2>2, <2>8 DEF Claims
    <3>2. assignments[a].status \in CP!AssignmentStatus \ {"assigned"}
      BY <2>3, <3>1 DEF CP!AssignmentStatus, Later
    <3>3. assignments[a].status # "cancelled"
      BY <2>3, <3>1 DEF Stranded
    <3>4. assignments[a].status # "delivered"
      BY <2>2, <2>3, <2>8 DEF Follows
    <3>5. assignments[a].status \in {"accepted", "picked_up"}
      BY <3>2, <3>3, <3>4 DEF CP!AssignmentStatus
    <3> QED
      BY <2>6, <2>8, <3>5 DEF O!order_status_for_assignment_status
  <2>9. CASE row.status = "delivered"
    <3>1. PICK a \in AssignmentsOf(o) : Reached(a, "delivered")
      BY <2>2, <2>9 DEF Claims
    <3>2. assignments[a].status = "delivered"
      BY <2>3, <3>1 DEF CP!AssignmentStatus, Later
    <3> QED
      BY <2>6, <2>9, <3>2 DEF O!order_status_for_assignment_status
  <2> QED
    BY <2>1, <2>4, <2>5, <2>7, <2>8, <2>9
<1> QED
  BY <1>1, SagaInvariant, PTL

\* The saga is a serial execution of both services: the order service from its
\* start, and the courier service from the couriers there are, step by step.
THEOREM SagaIsBothServices ==
    SagaSpec => /\ OP!SerialSpec
                /\ [][CP!Next /\ CP!NoConflict']_(CP!vars)
<1>1. CouriersInv /\ CouriersInv' /\ [SagaNext]_sagaVars
        => [CP!Next /\ CP!NoConflict']_(CP!vars)
  <2> SUFFICES ASSUME CouriersInv, CouriersInv', [SagaNext]_sagaVars
               PROVE  [CP!Next /\ CP!NoConflict']_(CP!vars)
    OBVIOUS
  <2>1. CP!NoConflict'
    BY DEF CouriersInv, OneCourierTxn, CP!NoConflict, CP!Sessions, Threads
  <2>2. CP!Next \/ UNCHANGED courierVars
    BY StepsOfTheCourierService DEF CouriersInv, sagaVars
  <2> QED
    BY <2>1, <2>2 DEF courierVars, CP!vars
<1> QED
  BY <1>1, CouriersInvariant, SagaIsOrderSerialSpec, PTL DEF SagaSpec, sagaVars

=============================================================================
