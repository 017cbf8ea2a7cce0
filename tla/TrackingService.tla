--------------------------- MODULE TrackingService ---------------------------
(***************************************************************************)
(* services/tracking-service: which courier an order is tracked with, from *)
(* the events of the order service, and the locations couriers report.     *)
(*                                                                         *)
(* Of the order service there is the courier column of its rows, and the   *)
(* courier that each of its messages names (OrderService has the           *)
(* transitions).  The two are the same unless transactions of one order    *)
(* overlap: the message tells what the session had read.  The outbox and   *)
(* the consumer bring the messages in order (OutboxPublisher,              *)
(* KafkaConsumer) unless something fails; then an event may come again,    *)
(* come before or after its place, or not at all.  A failed attempt that   *)
(* is retried changes nothing here: the upsert is one transaction.         *)
(*                                                                         *)
(* Coordinates and times are left out, and so are the reads.               *)
(***************************************************************************)
EXTENDS Integers, Sequences, FiniteSets

CONSTANTS
    Orders,
    Couriers,
    NoCourier,   \* courier_user_id IS NULL
    NoRow,       \* the order has no row
    MaxEvents,   \* bound: events of all orders
    MaxFaults,   \* bound: events that come out of turn
    MaxLocations \* bound: locations reported that name an order

ASSUME TrackingAssumption ==
    /\ IsFiniteSet(Orders)
    /\ NoCourier \notin Couriers
    /\ NoRow \notin Couriers \cup {NoCourier}
    /\ MaxEvents \in Nat
    /\ MaxFaults \in Nat
    /\ MaxLocations \in Nat

VARIABLES
    orders,     \* [Orders -> courier or NoRow]: the order rows, courier_id of each
    sent,       \* [Orders -> Seq]: the courier that each event of the order names
    passed,     \* [Orders -> Nat]: the consumer has read the events up to this one
    applied,    \* [Orders -> Nat]: history, the event applied last, 0 for none
    tracked,    \* [Orders -> courier or NoRow]: the tracked_orders rows
    report,     \* [Couriers -> Reports \cup {Idle}]: POST /tracking/locations in flight
    locations,  \* Seq(Location): the courier_locations rows that name an order
    faults      \* how many events came out of turn (of at most MaxFaults)

tvars == <<orders, sent, passed, applied, tracked, report, locations, faults>>

Idle == [order |-> NoRow, seen |-> 0]

\* A request that has read the tracked order, when event seen was the last
\* one applied to it.
Reports == [order : Orders, seen : Nat]

Location == [courier_user_id : Couriers, order_id : Orders]

TrackingInit ==
    /\ orders = [o \in Orders |-> NoRow]
    /\ sent = [o \in Orders |-> <<>>]
    /\ passed = [o \in Orders |-> 0]
    /\ applied = [o \in Orders |-> 0]
    /\ tracked = [o \in Orders |-> NoRow]
    /\ report = [c \in Couriers |-> Idle]
    /\ locations = <<>>
    /\ faults = 0

-----------------------------------------------------------------------------

AllEvents == {e \in Orders \X (1 .. MaxEvents) : e[2] <= Len(sent[e[1]])}

\* The order service creates the order, without a courier, or changes it; the
\* message is built from the row as the session has it.
order_event(o, c) ==
    /\ Cardinality(AllEvents) < MaxEvents
    /\ sent[o] = <<>> => c = NoCourier
    /\ orders' = [orders EXCEPT ![o] = c]
    /\ sent' = [sent EXCEPT ![o] = Append(sent[o], c)]
    /\ UNCHANGED <<passed, applied, tracked, report, locations, faults>>

\* It changes an order that another transaction gave another courier since the
\* session read it.  The flush writes only the columns that it set, so the row
\* keeps the other's courier, and the message names the one that was read.
order_event_stale(o, c) ==
    /\ Cardinality(AllEvents) < MaxEvents
    /\ \E i \in 1 .. Len(sent[o]) : sent[o][i] = c
    /\ c # orders[o]
    /\ sent' = [sent EXCEPT ![o] = Append(sent[o], c)]
    /\ UNCHANGED <<orders, passed, applied, tracked, report, locations, faults>>

apply_order_event_KeepsCourier(o, k) ==
    /\ tracked' = [tracked EXCEPT ![o] =
                     IF sent[o][k] = NoCourier /\ tracked[o] # NoRow THEN tracked[o]
                     ELSE sent[o][k]]
    /\ applied' = [applied EXCEPT ![o] = k]
    /\ UNCHANGED <<orders, sent, report, locations>>

\* upsert_tracked_order: whatever the row said, it says now what the event says.
apply_order_event(o, k) ==
    /\ tracked' = [tracked EXCEPT ![o] = sent[o][k]]
    /\ applied' = [applied EXCEPT ![o] = k]
    /\ UNCHANGED <<orders, sent, report, locations>>

\* The consumer handles the next event of the order.
handle_event(o) ==
    /\ passed[o] < Len(sent[o])
    /\ apply_order_event(o, passed[o] + 1)
    /\ passed' = [passed EXCEPT ![o] = passed[o] + 1]
    /\ UNCHANGED faults

\* It handles another one: the outbox published it late, early or twice, or
\* the consumer goes on from an offset it has been past.
handle_event_out_of_turn(o, k) ==
    /\ faults < MaxFaults
    /\ k \in 1 .. Len(sent[o])
    /\ apply_order_event(o, k)
    /\ \/ UNCHANGED passed
       \/ passed' = [passed EXCEPT ![o] = k]
    /\ faults' = faults + 1

\* The next event is never handled: it went to the dead letter topic, or the
\* group started at the end of the topic.
event_lost(o) ==
    /\ faults < MaxFaults
    /\ passed[o] < Len(sent[o])
    /\ passed' = [passed EXCEPT ![o] = passed[o] + 1]
    /\ faults' = faults + 1
    /\ UNCHANGED <<orders, sent, applied, tracked, report, locations>>

create_location_AnyCourier(c, o) ==
    /\ report[c] = Idle
    /\ tracked[o] # NoRow
    /\ report' = [report EXCEPT ![c] = [order |-> o, seen |-> applied[o]]]
    /\ UNCHANGED <<orders, sent, passed, applied, tracked, locations, faults>>

\* POST /tracking/locations, by the courier or an administrator: create_location
\* reads the row.  The answer is 409 without one or with another courier in it.
create_location(c, o) ==
    /\ report[c] = Idle
    /\ tracked[o] # NoRow
    /\ tracked[o] \in {NoCourier, c}
    /\ report' = [report EXCEPT ![c] = [order |-> o, seen |-> applied[o]]]
    /\ UNCHANGED <<orders, sent, passed, applied, tracked, locations, faults>>

\* It then inserts the location and its outbox message, and commits.
create_location_commit(c) ==
    /\ report[c] # Idle
    /\ Len(locations) < MaxLocations
    /\ locations' = Append(locations,
                           [courier_user_id |-> c, order_id |-> report[c].order])
    /\ report' = [report EXCEPT ![c] = Idle]
    /\ UNCHANGED <<orders, sent, passed, applied, tracked, faults>>

Report == \E c \in Couriers : create_location_commit(c) \/ \E o \in Orders : create_location(c, o)

TrackingNext ==
    \/ \E o \in Orders, c \in Couriers \cup {NoCourier} :
          order_event(o, c) \/ order_event_stale(o, c)
    \/ \E o \in Orders : handle_event(o) \/ event_lost(o)
    \/ \E o \in Orders, k \in 1 .. MaxEvents : handle_event_out_of_turn(o, k)
    \/ Report

TrackingSpec == TrackingInit /\ [][TrackingNext]_tvars

-----------------------------------------------------------------------------
(* Properties.                                                             *)

\* Every variable stays within its type, and the consumer never reads an event
\* before it was sent.
TrackingTypeOK ==
    /\ orders \in [Orders -> Couriers \cup {NoCourier, NoRow}]
    /\ sent \in [Orders -> Seq(Couriers \cup {NoCourier})]
    /\ \A o \in Orders : orders[o] = NoRow <=> sent[o] = <<>>
    /\ passed \in [Orders -> Nat]
    /\ applied \in [Orders -> Nat]
    /\ \A o \in Orders : passed[o] <= Len(sent[o]) /\ applied[o] <= Len(sent[o])
    /\ tracked \in [Orders -> Couriers \cup {NoCourier, NoRow}]
    /\ report \in [Couriers -> Reports \cup {Idle}]
    /\ locations \in Seq(Location)
    /\ faults \in 0 .. MaxFaults

\* The event applied to the row is not the newest of the order.
Behind(o) == applied[o] # Len(sent[o])

\* The newest event of the order names another courier than its row does:
\* transactions of the order overlapped, and the later one had not read the
\* courier that the other had set.
Contradicted(o) == sent[o] # <<>> /\ sent[o][Len(sent[o])] # orders[o]

\* A location of an order is accepted from somebody else than the courier in
\* the order's row only while the tracked row is behind the order, while the
\* newest event contradicts the row, or when the tracked row changed between
\* the request's check and its commit: what the tracking service checks
\* against its own copy holds in the order service too.
StrangerOnlyWhileBehind ==
    [][\A c \in Couriers :
          LET o == report[c].order IN
          report[c] # Idle /\ report'[c] = Idle =>
              \/ orders[o] \in {NoCourier, c}
              \/ Behind(o)
              \/ Contradicted(o)
              \/ report[c].seen # applied[o]]_tvars

\* The consumer has read all events of the order, and did not apply the newest
\* one last: it was lost, or an older one came after it.
Misled(o) == passed[o] = Len(sent[o]) /\ Behind(o)

\* The tracked row comes to name the courier in the order's row again after
\* each change (or to have none, when the order lost its courier), unless an
\* event that came out of turn misled it or the newest event contradicts the
\* row.  Nothing else repairs a row.
TrackingConverges ==
    \A o \in Orders :
        sent[o] # <<>> ~> tracked[o] = orders[o] \/ Misled(o) \/ Contradicted(o)
=============================================================================
