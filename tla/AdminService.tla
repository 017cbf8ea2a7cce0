----------------------------- MODULE AdminService -----------------------------
(***************************************************************************)
(* services/admin-service: GET /admin/analytics asks every service, at the *)
(* same time, for its summary, and compares the numbers with each other.   *)
(* No transaction spans them: a summary is a sequence of queries (READ     *)
(* COMMITTED), between which its own service and all others go on.  The    *)
(* health checks of the same request have no part in the comparison and    *)
(* are left out.                                                           *)
(*                                                                         *)
(* Only the order and the tracking service's numbers are compared across   *)
(* services, so only their summaries are here, each with the two counts    *)
(* that are: a total and then a part of it, in the order of the queries of *)
(* get_admin_summary.  The numbers of the other services pass through.     *)
(***************************************************************************)
EXTENDS TrackingService

Services == {"order-service", "tracking-service"}

VARIABLES
    request,   \* "idle", or "collecting" while the request for analytics runs
    summary,   \* [Services -> [total, part]]: as counted, Unasked before
    changed,   \* history: an order was created or changed while the request ran
    behind     \* history: some tracked row could not agree when tracking counted

avars == <<tvars, request, summary, changed, behind>>

Unasked == -1

NothingAsked == [s \in Services |-> [total |-> Unasked, part |-> Unasked]]

AdminInit ==
    /\ TrackingInit
    /\ request = "idle"
    /\ summary = NothingAsked
    /\ changed = FALSE
    /\ behind = FALSE

-----------------------------------------------------------------------------
(* The summaries: get_admin_summary of each service.                       *)

Created == {o \in Orders : orders[o] # NoRow}

WithCourier == {o \in Orders : orders[o] \notin {NoRow, NoCourier}}

Tracked == {o \in Orders : tracked[o] # NoRow}

TrackedWithCourier == {o \in Orders : tracked[o] \notin {NoRow, NoCourier}}

order_summary_OpenOnly ==
    [total |-> Cardinality(Created \ WithCourier), part |-> Cardinality(WithCourier)]

\* total_orders, orders_with_courier.
order_summary ==
    [total |-> Cardinality(Created), part |-> Cardinality(WithCourier)]

\* tracked_orders, tracked_orders_with_courier.
tracking_summary ==
    [total |-> Cardinality(Tracked), part |-> Cardinality(TrackedWithCourier)]

get_admin_summary(s) ==
    IF s = "order-service" THEN order_summary ELSE tracking_summary

-----------------------------------------------------------------------------
(* The request.                                                            *)

\* _collect_snapshot starts all requests.
get_analytics ==
    /\ request = "idle"
    /\ request' = "collecting"
    /\ UNCHANGED <<tvars, summary, changed, behind>>

\* The service runs the first query of its summary, then the second.
count_total(s) ==
    /\ request = "collecting"
    /\ summary[s].total = Unasked
    /\ summary' = [summary EXCEPT ![s].total = get_admin_summary(s).total]
    /\ UNCHANGED <<tvars, request, changed, behind>>

\* A tracked row is behind its order, or the order's newest event is not what
\* its row says.
OutOfStep == \E o \in Orders : Behind(o) \/ Contradicted(o)

count_part(s) ==
    /\ request = "collecting"
    /\ summary[s].total # Unasked
    /\ summary[s].part = Unasked
    /\ summary' = [summary EXCEPT ![s].part = get_admin_summary(s).part]
    /\ behind' = (behind \/ (s = "tracking-service" /\ OutOfStep))
    /\ UNCHANGED <<tvars, request, changed>>

Gathered == \A s \in Services : summary[s].part # Unasked

\* The request is over, and nothing of it is kept.
Forget ==
    /\ request' = "idle"
    /\ summary' = NothingAsked
    /\ changed' = FALSE
    /\ behind' = FALSE
    /\ UNCHANGED tvars

\* _fetch_summary: a service that does not give its summary ends the request.
fetch_summary_fails(s) ==
    /\ request = "collecting"
    /\ summary[s].part = Unasked
    /\ Forget

\* Everything has been gathered, and the answer is built from it.
answer == request = "collecting" /\ Gathered /\ Forget

-----------------------------------------------------------------------------
(* The answer.                                                             *)

NotNegative(n) == IF n < 0 THEN 0 ELSE n

\* _percentage, in hundredths of a percent.
Percentage(numerator, denominator) ==
    IF denominator <= 0 THEN 0
    ELSE (20000 * numerator + denominator) \div (2 * denominator)

orders_without_courier ==
    NotNegative(summary["order-service"].total - summary["order-service"].part)

tracking_gap_CountsAll ==
    NotNegative(summary["order-service"].total - summary["tracking-service"].part)

tracking_gap ==
    NotNegative(summary["order-service"].part - summary["tracking-service"].part)

\* _build_conversion: courier_assignment_pct and tracking_coverage_pct.
Conversion ==
    {Percentage(summary["order-service"].part, summary["order-service"].total),
     Percentage(summary["tracking-service"].total, summary["order-service"].total)}

\* _build_alerts.
Alerts ==
    (IF orders_without_courier > 0 THEN {"orders_waiting_courier"} ELSE {})
    \cup (IF tracking_gap > 0 THEN {"tracking_gap"} ELSE {})

-----------------------------------------------------------------------------

Collect ==
    \/ \E s \in Services : count_total(s) \/ count_part(s) \/ fetch_summary_fails(s)
    \/ answer

AdminNext ==
    \/ /\ TrackingNext
       /\ changed' = (changed \/ (request = "collecting" /\ sent' # sent))
       /\ UNCHANGED <<request, summary, behind>>
    \/ get_analytics
    \/ Collect

AdminSpec == AdminInit /\ [][AdminNext]_avars

\* The event loop of the tracking service runs its consumer, and the outbox
\* publishes what it has; nobody promises locations, orders or requests.
FairAdminSpec ==
    AdminSpec /\ \A o \in Orders : WF_tvars(handle_event(o))

-----------------------------------------------------------------------------
(* Properties.                                                             *)

Counts == [total : Nat \cup {Unasked}, part : Nat \cup {Unasked}]

\* The variables of both modules stay within their types; a service counts
\* the part after the total.
AdminTypeOK ==
    /\ TrackingTypeOK
    /\ request \in {"idle", "collecting"}
    /\ summary \in [Services -> Counts]
    /\ \A s \in Services : summary[s].part # Unasked => summary[s].total # Unasked
    /\ changed \in BOOLEAN
    /\ behind \in BOOLEAN

\* The alert that courier-linked orders are missing tracking data is no
\* artefact of asking two services at two times: some tracked row was behind
\* its order, or the order's newest event contradicted its row, when the
\* tracking service counted, unless orders changed meanwhile.
GapHasCause ==
    Gathered /\ "tracking_gap" \in Alerts => behind \/ changed

\* No share is above 100 percent, unless orders came or changed while the
\* request ran: the orders the tracking service has are orders that the order
\* service has, however the two are out of step.
SharesAreShares ==
    Gathered /\ ~changed => \A p \in Conversion : p <= 10000
=============================================================================
