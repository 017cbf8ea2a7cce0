--------------------------- MODULE OrderLifecycle ---------------------------
(***************************************************************************)
(* What the order service promises to the services that read its topic.    *)
(*                                                                         *)
(* An order is one value that changes in atomic steps, each step is one of *)
(* the six below, and each step announces the whole order as it then is.   *)
(* A reader that folds the announcements of an order therefore sees its    *)
(* life in the right order, and ends with its real status and courier.     *)
(***************************************************************************)
EXTENDS Sequences

CONSTANTS Orders, Couriers, NoCourier

VARIABLES
    order,      \* [Orders -> a row, see Unplaced]
    announced   \* [Orders -> Seq(row)]: what readers of the topic are told

Unplaced == [status |-> "none", courier_id |-> NoCourier, cancelled_at |-> FALSE]

LifecycleInit ==
    /\ order = [o \in Orders |-> Unplaced]
    /\ announced = [o \in Orders |-> <<>>]

\* Order o becomes row, and row is what the readers are told.
Announce(o, row) ==
    /\ order' = [order EXCEPT ![o] = row]
    /\ announced' = [announced EXCEPT ![o] = Append(@, row)]

Place(o) ==
    /\ order[o].status = "none"
    /\ Announce(o, [Unplaced EXCEPT !.status = "created"])

\* The order looks for a courier; the last one may stay named on it.
Wait(o) ==
    /\ order[o].status \in {"created", "courier_assigned"}
    /\ \E c \in {order[o].courier_id, NoCourier} :
          Announce(o, [order[o] EXCEPT !.status = "waiting_for_courier",
                                       !.courier_id = c])

Assign(o, c) ==
    /\ order[o].status \in {"created", "waiting_for_courier"}
    /\ Announce(o, [order[o] EXCEPT !.status = "courier_assigned",
                                    !.courier_id = c])

\* The delivery starts, by the assigned courier or by one an admin names.
Start(o, c) ==
    /\ order[o].status = "courier_assigned"
    /\ Announce(o, [order[o] EXCEPT !.status = "in_delivery",
                                    !.courier_id = c])

Deliver(o) ==
    /\ order[o].status = "in_delivery"
    /\ Announce(o, [order[o] EXCEPT !.status = "delivered"])

\* Cancelled, with the time of it unless it came in as a plain status change.
Cancel(o) ==
    /\ order[o].status \in {"created", "waiting_for_courier", "courier_assigned"}
    /\ \E at \in BOOLEAN :
          Announce(o, [order[o] EXCEPT !.status = "cancelled",
                                       !.cancelled_at = at])

LifecycleNext ==
    \E o \in Orders :
        \/ Place(o)
        \/ Wait(o)
        \/ \E c \in Couriers : Assign(o, c) \/ Start(o, c)
        \/ Deliver(o)
        \/ Cancel(o)

LifecycleSpec ==
    LifecycleInit /\ [][LifecycleNext]_<<order, announced>>
=============================================================================
