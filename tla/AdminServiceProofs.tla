-------------------------- MODULE AdminServiceProofs --------------------------
(***************************************************************************)
(* Proofs about the tracking service and about the numbers of the admin    *)
(* service, for any orders, couriers, events and failures.                 *)
(***************************************************************************)
EXTENDS AdminService, SequenceTheorems, FiniteSetTheorems, TLAPS

\* The row says what the event applied last said.
RowIsApplied ==
    \A o \in Orders :
        tracked[o] = IF applied[o] = 0 THEN NoRow ELSE sent[o][applied[o]]

\* The event that a report in flight has seen lets its courier report.
ReportsSaw ==
    \A c \in Couriers : report[c] # Idle =>
        LET o == report[c].order IN
        /\ report[c].seen \in 1 .. Len(sent[o])
        /\ sent[o][report[c].seen] \in {NoCourier, c}

TrackingInv ==
    /\ TrackingTypeOK
    /\ RowIsApplied
    /\ ReportsSaw

-----------------------------------------------------------------------------

\* What was sent stays sent.
LEMMA EventsStay ==
    ASSUME TrackingTypeOK, TrackingNext
    PROVE  /\ sent' \in [Orders -> Seq(Couriers \cup {NoCourier})]
           /\ orders' \in [Orders -> Couriers \cup {NoCourier, NoRow}]
           /\ \A o \in Orders : orders'[o] = NoRow <=> sent'[o] = <<>>
           /\ \A o \in Orders :
                 /\ Len(sent[o]) \in Nat /\ Len(sent'[o]) \in Nat
                 /\ Len(sent[o]) <= Len(sent'[o])
                 /\ \A k \in 1 .. Len(sent[o]) : sent'[o][k] = sent[o][k]
<1>1. \A o \in Orders : sent[o] \in Seq(Couriers \cup {NoCourier}) /\ Len(sent[o]) \in Nat
  BY LenProperties DEF TrackingTypeOK
<1>2. CASE UNCHANGED <<orders, sent>>
  BY <1>1, <1>2 DEF TrackingTypeOK
<1>3. CASE \E o \in Orders, c \in Couriers \cup {NoCourier} :
              order_event(o, c) \/ order_event_stale(o, c)
  <2>1. PICK o \in Orders, c \in Couriers \cup {NoCourier} :
                order_event(o, c) \/ order_event_stale(o, c)
    BY <1>3
  <2> DEFINE S == Append(sent[o], c)
  <2>2. /\ S \in Seq(Couriers \cup {NoCourier})
        /\ Len(S) = Len(sent[o]) + 1
        /\ \A k \in 1 .. Len(sent[o]) : S[k] = sent[o][k]
        /\ S # <<>>
    BY <1>1, AppendProperties, EmptySeq
  <2>3. /\ sent' = [sent EXCEPT ![o] = S]
        /\ \/ orders' = [orders EXCEPT ![o] = c]
           \/ orders' = orders /\ sent[o] # <<>>
    BY <1>1, <2>1, EmptySeq DEF order_event, order_event_stale
  <2> HIDE DEF S
  <2>4. /\ orders' \in [Orders -> Couriers \cup {NoCourier, NoRow}]
        /\ \A p \in Orders : orders'[p] = NoRow <=> sent'[p] = <<>>
    BY <2>2, <2>3, TrackingAssumption DEF TrackingTypeOK
  <2>5. /\ sent' \in [Orders -> Seq(Couriers \cup {NoCourier})]
        /\ \A p \in Orders : sent'[p] = IF p = o THEN S ELSE sent[p]
    BY <2>2, <2>3 DEF TrackingTypeOK
  <2> QED
    BY <1>1, <2>2, <2>4, <2>5
<1> QED
  BY <1>2, <1>3 DEF TrackingNext, Report, handle_event, handle_event_out_of_turn,
     event_lost, apply_order_event, create_location, create_location_commit

\* Applying an event that was sent.
LEMMA AppliedKeeps ==
    ASSUME TrackingInv, NEW o \in Orders, NEW k \in 1 .. Len(sent[o]),
           apply_order_event(o, k)
    PROVE  /\ applied' \in [Orders -> Nat]
           /\ tracked' \in [Orders -> Couriers \cup {NoCourier, NoRow}]
           /\ \A p \in Orders : applied'[p] <= Len(sent[p])
           /\ RowIsApplied'
           /\ UNCHANGED <<orders, sent, report, locations>>
<1>1. /\ sent[o] \in Seq(Couriers \cup {NoCourier})
      /\ Len(sent[o]) \in Nat
  BY LenProperties DEF TrackingInv, TrackingTypeOK
<1>2. sent[o][k] \in Couriers \cup {NoCourier}
  BY <1>1, ElementOfSeq
<1>3. /\ applied' = [applied EXCEPT ![o] = k]
      /\ tracked' = [tracked EXCEPT ![o] = sent[o][k]]
      /\ UNCHANGED <<orders, sent, report, locations>>
  BY DEF apply_order_event
<1> QED
  BY <1>1, <1>2, <1>3 DEF TrackingInv, TrackingTypeOK, RowIsApplied

LEMMA TrackingStep == TrackingInv /\ [TrackingNext]_tvars => TrackingInv'
<1> SUFFICES ASSUME TrackingInv, [TrackingNext]_tvars PROVE TrackingInv'
  OBVIOUS
<1>0. /\ TrackingTypeOK /\ RowIsApplied /\ ReportsSaw
      /\ \A o \in Orders : Len(sent[o]) \in Nat /\ sent[o] \in Seq(Couriers \cup {NoCourier})
  BY LenProperties DEF TrackingInv, TrackingTypeOK
<1>1. ASSUME NEW o \in Orders, NEW k \in 1 .. Len(sent[o]), apply_order_event(o, k),
             passed' \in [Orders -> Nat], \A p \in Orders : passed'[p] <= Len(sent[p]),
             faults' \in 0 .. MaxFaults
      PROVE  TrackingInv'
  <2>1. /\ applied' \in [Orders -> Nat]
        /\ tracked' \in [Orders -> Couriers \cup {NoCourier, NoRow}]
        /\ \A p \in Orders : applied'[p] <= Len(sent[p])
        /\ RowIsApplied'
        /\ UNCHANGED <<orders, sent, report, locations>>
    BY <1>1, AppliedKeeps
  <2>2. ReportsSaw'
    BY <1>0, <2>1 DEF ReportsSaw
  <2>3. TrackingTypeOK'
    BY <1>0, <1>1, <2>1 DEF TrackingTypeOK
  <2> QED
    BY <2>1, <2>2, <2>3 DEF TrackingInv
<1>2. CASE \E o \in Orders, c \in Couriers \cup {NoCourier} :
              order_event(o, c) \/ order_event_stale(o, c)
  <2>1. /\ UNCHANGED <<passed, applied, tracked, report, locations, faults>>
        /\ TrackingNext
    BY <1>2 DEF order_event, order_event_stale, TrackingNext
  <2>2. /\ sent' \in [Orders -> Seq(Couriers \cup {NoCourier})]
        /\ orders' \in [Orders -> Couriers \cup {NoCourier, NoRow}]
        /\ \A o \in Orders : orders'[o] = NoRow <=> sent'[o] = <<>>
        /\ \A o \in Orders :
              /\ Len(sent'[o]) \in Nat
              /\ Len(sent[o]) <= Len(sent'[o])
              /\ \A k \in 1 .. Len(sent[o]) : sent'[o][k] = sent[o][k]
    BY <1>0, <2>1, EventsStay
  <2>3. TrackingTypeOK'
    BY <1>0, <2>1, <2>2 DEF TrackingTypeOK
  <2>4. RowIsApplied'
    <3> SUFFICES ASSUME NEW o \in Orders
                 PROVE  tracked[o] = IF applied[o] = 0 THEN NoRow
                                     ELSE sent'[o][applied[o]]
      BY <2>1 DEF RowIsApplied
    <3>1. applied[o] = 0 \/ applied[o] \in 1 .. Len(sent[o])
      BY <1>0 DEF TrackingTypeOK
    <3> QED
      BY <1>0, <2>2, <3>1 DEF RowIsApplied
  <2>5. ReportsSaw'
    <3> SUFFICES ASSUME NEW c \in Couriers, report[c] # Idle
                 PROVE  /\ report[c].seen \in 1 .. Len(sent'[report[c].order])
                        /\ sent'[report[c].order][report[c].seen] \in {NoCourier, c}
      BY <2>1 DEF ReportsSaw
    <3>1. report[c].order \in Orders /\ report[c].seen \in Nat
      BY <1>0 DEF TrackingTypeOK, Reports
    <3>2. /\ report[c].seen \in 1 .. Len(sent[report[c].order])
          /\ sent[report[c].order][report[c].seen] \in {NoCourier, c}
      BY <1>0 DEF ReportsSaw
    <3> QED
      BY <1>0, <2>2, <3>1, <3>2
  <2> QED
    BY <2>3, <2>4, <2>5 DEF TrackingInv
<1>3. CASE \E o \in Orders : handle_event(o)
  <2>1. PICK o \in Orders : handle_event(o)
    BY <1>3
  <2>2. /\ passed[o] \in Nat /\ passed[o] < Len(sent[o])
        /\ passed' = [passed EXCEPT ![o] = passed[o] + 1]
        /\ faults' = faults
        /\ apply_order_event(o, passed[o] + 1)
    BY <1>0, <2>1 DEF handle_event, TrackingTypeOK
  <2>3. /\ passed' \in [Orders -> Nat] /\ faults' \in 0 .. MaxFaults
        /\ \A p \in Orders : passed'[p] <= Len(sent[p])
        /\ passed[o] + 1 \in 1 .. Len(sent[o])
    BY <1>0, <2>2 DEF TrackingTypeOK
  <2> QED
    BY <1>1, <2>2, <2>3
<1>4. CASE \E o \in Orders, k \in 1 .. MaxEvents : handle_event_out_of_turn(o, k)
  <2>1. PICK o \in Orders, k \in 1 .. MaxEvents : handle_event_out_of_turn(o, k)
    BY <1>4
  <2>2. /\ k \in 1 .. Len(sent[o]) /\ faults < MaxFaults /\ faults' = faults + 1
        /\ apply_order_event(o, k)
        /\ passed' = passed \/ passed' = [passed EXCEPT ![o] = k]
    BY <2>1 DEF handle_event_out_of_turn
  <2>3. /\ passed' \in [Orders -> Nat]
        /\ \A p \in Orders : passed'[p] <= Len(sent[p])
    <3>1. k \in Nat /\ k <= Len(sent[o])
      BY <2>2
    <3>2. CASE passed' = passed
      BY <1>0, <3>2 DEF TrackingTypeOK
    <3>3. CASE passed' = [passed EXCEPT ![o] = k]
      BY <1>0, <3>1, <3>3 DEF TrackingTypeOK
    <3> QED
      BY <2>2, <3>2, <3>3
  <2>4. faults' \in 0 .. MaxFaults
    BY <1>0, <2>2, TrackingAssumption DEF TrackingTypeOK
  <2> QED
    BY <1>1, <2>2, <2>3, <2>4
<1>5. CASE \E o \in Orders : event_lost(o)
  <2>1. PICK o \in Orders : event_lost(o)
    BY <1>5
  <2>2. /\ passed[o] < Len(sent[o]) /\ faults < MaxFaults /\ faults' = faults + 1
        /\ passed' = [passed EXCEPT ![o] = passed[o] + 1]
        /\ UNCHANGED <<orders, sent, applied, tracked, report, locations>>
    BY <2>1 DEF event_lost
  <2>3. TrackingTypeOK'
    BY <1>0, <2>2, TrackingAssumption DEF TrackingTypeOK
  <2> QED
    BY <1>0, <2>2, <2>3 DEF TrackingInv, RowIsApplied, ReportsSaw
<1>6. CASE \E c \in Couriers, o \in Orders : create_location(c, o)
  <2>1. PICK c \in Couriers, o \in Orders : create_location(c, o)
    BY <1>6
  <2> DEFINE r == [order |-> o, seen |-> applied[o]]
  <2>2. /\ tracked[o] # NoRow /\ tracked[o] \in {NoCourier, c}
        /\ report' = [report EXCEPT ![c] = r]
        /\ UNCHANGED <<orders, sent, passed, applied, tracked, locations, faults>>
    BY <2>1 DEF create_location
  <2>3. r.order = o /\ r.seen = applied[o] /\ r \in Reports
    BY <1>0 DEF TrackingTypeOK, Reports
  <2>4. applied[o] \in 1 .. Len(sent[o]) /\ sent[o][applied[o]] \in {NoCourier, c}
    BY <1>0, <2>2 DEF TrackingTypeOK, RowIsApplied
  <2> HIDE DEF r
  <2>5. TrackingTypeOK'
    BY <1>0, <2>2, <2>3 DEF TrackingTypeOK
  <2>6. ReportsSaw'
    <3> SUFFICES ASSUME NEW d \in Couriers, report'[d] # Idle
                 PROVE  /\ report'[d].seen \in 1 .. Len(sent[report'[d].order])
                        /\ sent[report'[d].order][report'[d].seen] \in {NoCourier, d}
      BY <2>2 DEF ReportsSaw
    <3>1. CASE d = c
      BY <1>0, <2>2, <2>3, <2>4, <3>1 DEF TrackingTypeOK
    <3>2. CASE d # c
      BY <1>0, <2>2, <3>2 DEF TrackingTypeOK, ReportsSaw
    <3> QED
      BY <3>1, <3>2
  <2> QED
    BY <1>0, <2>2, <2>5, <2>6 DEF TrackingInv, RowIsApplied
<1>7. CASE \E c \in Couriers : create_location_commit(c)
  <2>1. PICK c \in Couriers : create_location_commit(c)
    BY <1>7
  <2> DEFINE row == [courier_user_id |-> c, order_id |-> report[c].order]
  <2>2. /\ report[c] # Idle
        /\ report' = [report EXCEPT ![c] = Idle]
        /\ locations' = Append(locations, row)
        /\ UNCHANGED <<orders, sent, passed, applied, tracked, faults>>
    BY <2>1 DEF create_location_commit
  <2>3. row \in Location
    BY <1>0, <2>2 DEF TrackingTypeOK, Reports, Location
  <2> HIDE DEF row
  <2>4. locations' \in Seq(Location)
    BY <1>0, <2>2, <2>3, AppendProperties DEF TrackingTypeOK
  <2>5. TrackingTypeOK'
    BY <1>0, <2>2, <2>4 DEF TrackingTypeOK
  <2>6. ReportsSaw'
    BY <1>0, <2>2 DEF TrackingTypeOK, ReportsSaw
  <2> QED
    BY <1>0, <2>2, <2>5, <2>6 DEF TrackingInv, RowIsApplied
<1>8. CASE UNCHANGED tvars
  BY <1>0, <1>8 DEF tvars, TrackingInv, TrackingTypeOK, RowIsApplied, ReportsSaw
<1> QED
  BY <1>2, <1>3, <1>4, <1>5, <1>6, <1>7, <1>8 DEF TrackingNext, Report

LEMMA TrackingStart == TrackingInit => TrackingInv
<1> SUFFICES ASSUME TrackingInit PROVE TrackingInv
  OBVIOUS
<1>1. /\ \A o \in Orders : sent[o] = <<>> /\ applied[o] = 0 /\ passed[o] = 0
      /\ locations = <<>> /\ Len(<<>>) = 0
      /\ <<>> \in Seq(Couriers \cup {NoCourier}) /\ <<>> \in Seq(Location)
  BY EmptySeq DEF TrackingInit
<1>2. TrackingTypeOK
  BY <1>1, TrackingAssumption DEF TrackingInit, TrackingTypeOK
<1> QED
  BY <1>1, <1>2 DEF TrackingInit, TrackingInv, RowIsApplied, ReportsSaw

-----------------------------------------------------------------------------

\* What has been counted is still so, unless orders changed since.  The number
\* of orders only grows, and every tracked order is one of them.
SummaryInv ==
    /\ summary["order-service"].total # Unasked /\ ~changed =>
          summary["order-service"].total = Cardinality(Created)
    /\ summary["order-service"].part # Unasked /\ ~changed =>
          summary["order-service"].part = Cardinality(WithCourier)
    /\ summary["tracking-service"].total <= Cardinality(Created)
    /\ summary["tracking-service"].part # Unasked /\ ~changed /\ ~behind =>
          summary["tracking-service"].part = Cardinality(WithCourier)

AdminInv ==
    /\ AdminTypeOK
    /\ TrackingInv
    /\ request = "idle" => summary = NothingAsked
    /\ SummaryInv

\* All counts are natural numbers, of finite sets.
LEMMA CountsAreFinite ==
    /\ IsFiniteSet(Created) /\ Cardinality(Created) \in Nat
    /\ IsFiniteSet(WithCourier) /\ Cardinality(WithCourier) \in Nat
    /\ IsFiniteSet(Tracked) /\ Cardinality(Tracked) \in Nat
    /\ IsFiniteSet(TrackedWithCourier) /\ Cardinality(TrackedWithCourier) \in Nat
    /\ Cardinality(WithCourier) <= Cardinality(Created)
<1>1. /\ WithCourier \subseteq Created
      /\ Created \subseteq Orders /\ Tracked \subseteq Orders
      /\ TrackedWithCourier \subseteq Orders
  BY DEF WithCourier, Created, Tracked, TrackedWithCourier
<1>2. IsFiniteSet(Orders)
  BY TrackingAssumption
<1>3. IsFiniteSet(Created) /\ IsFiniteSet(Tracked) /\ IsFiniteSet(TrackedWithCourier)
  BY <1>1, <1>2, FS_Subset
<1>4. IsFiniteSet(WithCourier) /\ Cardinality(WithCourier) <= Cardinality(Created)
  BY <1>1, <1>3, FS_Subset
<1> QED
  BY <1>3, <1>4, FS_CardinalityType

\* Only orders of the order service are tracked, and when nothing is out of step
\* a row has a courier just when its order has.
LEMMA TrackedOrdersExist ==
    ASSUME TrackingInv
    PROVE  /\ Tracked \subseteq Created
           /\ Cardinality(Tracked) <= Cardinality(Created)
           /\ ~OutOfStep => TrackedWithCourier = WithCourier
<1>1. /\ RowIsApplied
      /\ \A o \in Orders :
            /\ sent[o] \in Seq(Couriers \cup {NoCourier})
            /\ Len(sent[o]) \in Nat /\ applied[o] \in Nat
            /\ applied[o] <= Len(sent[o])
            /\ sent[o] = <<>> <=> Len(sent[o]) = 0
            /\ orders[o] = NoRow <=> sent[o] = <<>>
  BY LenProperties, EmptySeq DEF TrackingInv, TrackingTypeOK
<1>2. Tracked \subseteq Created
  BY <1>1 DEF Tracked, Created, RowIsApplied
<1>3. Cardinality(Tracked) <= Cardinality(Created)
  BY <1>2, CountsAreFinite, FS_Subset
<1>4. ASSUME ~OutOfStep
      PROVE  TrackedWithCourier = WithCourier
  <2> SUFFICES ASSUME NEW o \in Orders
               PROVE  tracked[o] = orders[o]
    BY DEF TrackedWithCourier, WithCourier
  <2>1. applied[o] = Len(sent[o]) /\ ~Contradicted(o)
    BY <1>4 DEF OutOfStep, Behind
  <2> QED
    BY <1>1, <2>1 DEF RowIsApplied, Contradicted
<1> QED
  BY <1>2, <1>3, <1>4

\* Orders are never deleted.
LEMMA CreatedGrows ==
    ASSUME TrackingTypeOK, TrackingNext
    PROVE  Cardinality(Created) <= Cardinality(Created')
<1>0. \A o \in Orders : /\ orders[o] = NoRow <=> sent[o] = <<>>
                        /\ orders'[o] = NoRow <=> sent'[o] = <<>>
  BY EventsStay DEF TrackingTypeOK
<1>1. \A o \in Orders :
         /\ sent[o] \in Seq(Couriers \cup {NoCourier})
         /\ sent'[o] \in Seq(Couriers \cup {NoCourier})
         /\ Len(sent[o]) \in Nat /\ Len(sent'[o]) \in Nat
         /\ Len(sent[o]) <= Len(sent'[o])
  BY EventsStay DEF TrackingTypeOK
<1>2. Created \subseteq Created'
  BY <1>0, <1>1, EmptySeq DEF Created
<1>3. Created' \subseteq Orders
  BY DEF Created
<1>4. IsFiniteSet(Created')
  BY <1>3, TrackingAssumption, FS_Subset
<1> QED
  BY <1>2, <1>4, FS_Subset

\* A row of an order only changes with an event of it.
LEMMA OrdersStay ==
    ASSUME TrackingTypeOK, TrackingNext, UNCHANGED sent
    PROVE  UNCHANGED orders
<1>1. ASSUME NEW o \in Orders, NEW c \in Couriers \cup {NoCourier}
      PROVE  ~order_event(o, c)
  <2>1. sent[o] \in Seq(Couriers \cup {NoCourier})
    BY DEF TrackingTypeOK
  <2>2. Append(sent[o], c) # sent[o]
    BY <2>1, AppendProperties, LenProperties
  <2> QED
    BY <2>2 DEF order_event, TrackingTypeOK
<1> QED
  BY <1>1 DEF TrackingNext, Report, order_event_stale, handle_event, event_lost,
     handle_event_out_of_turn, apply_order_event, create_location, create_location_commit

\* One query more in the summary of a service.
LEMMA CountedSummary ==
    ASSUME AdminTypeOK, NEW s \in Services, NEW n \in Nat
    PROVE  /\ LET S == [summary EXCEPT ![s].total = n] IN
              /\ S \in [Services -> Counts]
              /\ S[s].total = n /\ S[s].part = summary[s].part
              /\ \A r \in Services \ {s} : S[r] = summary[r]
           /\ LET S == [summary EXCEPT ![s].part = n] IN
              /\ S \in [Services -> Counts]
              /\ S[s].part = n /\ S[s].total = summary[s].total
              /\ \A r \in Services \ {s} : S[r] = summary[r]
<1>1. summary \in [Services -> Counts] /\ summary[s] \in Counts
  BY DEF AdminTypeOK
<1>2. /\ [summary[s] EXCEPT !.total = n] \in Counts
      /\ [summary[s] EXCEPT !.part = n] \in Counts
  BY <1>1 DEF Counts
<1> QED
  BY <1>1, <1>2 DEF Counts

LEMMA AdminStep == AdminInv /\ [AdminNext]_avars => AdminInv'
<1> SUFFICES ASSUME AdminInv, [AdminNext]_avars PROVE AdminInv'
  OBVIOUS
<1>0. /\ AdminTypeOK /\ TrackingInv /\ SummaryInv
      /\ TrackingTypeOK
      /\ "order-service" \in Services /\ "tracking-service" \in Services
  BY DEF AdminInv, TrackingInv, Services
<1>1. CASE /\ TrackingNext
           /\ changed' = (changed \/ (request = "collecting" /\ sent' # sent))
           /\ UNCHANGED <<request, summary, behind>>
  <2>1. TrackingInv'
    BY <1>0, <1>1, TrackingStep
  <2>2. AdminTypeOK'
    BY <1>0, <1>1, <2>1 DEF AdminTypeOK, TrackingInv
  <2>3. summary["tracking-service"].total <= Cardinality(Created')
    <3>1. Cardinality(Created) <= Cardinality(Created')
      BY <1>0, <1>1, CreatedGrows
    <3>2. Cardinality(Created') \in Nat
      <4>1. Created' \subseteq Orders
        BY DEF Created
      <4> QED
        BY <4>1, TrackingAssumption, FS_Subset, FS_CardinalityType
    <3>3. /\ summary["tracking-service"].total \in Int
          /\ summary["tracking-service"].total <= Cardinality(Created)
      BY <1>0 DEF AdminTypeOK, SummaryInv, Counts, Unasked
    <3> QED
      BY <3>1, <3>2, <3>3, CountsAreFinite
  <2>4. CASE sent' = sent
    <3>1. Created' = Created /\ WithCourier' = WithCourier
      BY <1>0, <1>1, <2>4, OrdersStay DEF Created, WithCourier
    <3>2. changed' = changed
      BY <1>0, <1>1, <2>4 DEF AdminTypeOK
    <3> QED
      BY <1>0, <1>1, <2>1, <2>2, <2>3, <3>1, <3>2 DEF AdminInv, SummaryInv, NothingAsked
  <2>5. CASE sent' # sent /\ request = "collecting"
    BY <1>1, <2>1, <2>2, <2>3, <2>5 DEF AdminInv, SummaryInv
  <2>6. CASE request = "idle"
    <3>1. summary' = NothingAsked /\ request' = "idle"
      BY <1>1, <2>6 DEF AdminInv
    <3>2. \A s \in Services : summary'[s].total = Unasked /\ summary'[s].part = Unasked
      BY <3>1 DEF NothingAsked
    <3> QED
      BY <1>0, <1>1, <2>1, <2>2, <2>3, <3>1, <3>2 DEF AdminInv, SummaryInv, NothingAsked
  <2> QED
    BY <1>0, <2>4, <2>5, <2>6 DEF AdminTypeOK
<1>2. CASE get_analytics
  <2>1. /\ UNCHANGED tvars /\ request = "idle" /\ request' = "collecting"
        /\ UNCHANGED <<summary, changed, behind>>
    BY <1>2 DEF get_analytics
  <2>2. TrackingInv'
    BY <1>0, <2>1, TrackingStep
  <2>3. Created' = Created /\ WithCourier' = WithCourier
    BY <2>1 DEF Created, WithCourier, tvars
  <2> QED
    BY <1>0, <2>1, <2>2, <2>3 DEF AdminInv, AdminTypeOK, TrackingInv, SummaryInv
<1>3. CASE \E s \in Services : count_total(s)
  <2>1. PICK s \in Services : count_total(s)
    BY <1>3
  <2> DEFINE n == get_admin_summary(s).total
  <2>2. /\ UNCHANGED tvars /\ UNCHANGED <<request, changed, behind>>
        /\ request = "collecting" /\ summary[s].total = Unasked
        /\ summary' = [summary EXCEPT ![s].total = n]
    BY <2>1 DEF count_total
  <2>3. /\ n \in Nat
        /\ s = "order-service" => n = Cardinality(Created)
        /\ s = "tracking-service" => n <= Cardinality(Created)
    BY <1>0, TrackedOrdersExist, CountsAreFinite
       DEF get_admin_summary, order_summary, tracking_summary, Services
  <2> HIDE DEF n
  <2>4. /\ summary' \in [Services -> Counts]
        /\ summary'[s].total = n /\ summary'[s].part = summary[s].part
        /\ \A r \in Services \ {s} : summary'[r] = summary[r]
    BY <1>0, <2>2, <2>3, CountedSummary
  <2>5. TrackingInv'
    BY <1>0, <2>2, TrackingStep
  <2>6. Created' = Created /\ WithCourier' = WithCourier
    BY <2>2 DEF Created, WithCourier, tvars
  <2>7. summary[s].part = Unasked
    BY <1>0, <2>1, <2>2 DEF AdminTypeOK
  <2>8. AdminTypeOK'
    BY <1>0, <2>2, <2>4, <2>5, <2>7 DEF AdminTypeOK, TrackingInv
  <2>9. SummaryInv'
    BY <1>0, <2>2, <2>3, <2>4, <2>6, <2>7 DEF SummaryInv, Services
  <2> QED
    BY <2>2, <2>5, <2>8, <2>9 DEF AdminInv
<1>4. CASE \E s \in Services : count_part(s)
  <2>1. PICK s \in Services : count_part(s)
    BY <1>4
  <2> DEFINE n == get_admin_summary(s).part
  <2>2. /\ UNCHANGED tvars /\ UNCHANGED <<request, changed>>
        /\ request = "collecting" /\ summary[s].total # Unasked
        /\ summary' = [summary EXCEPT ![s].part = n]
        /\ behind' = (behind \/ (s = "tracking-service" /\ OutOfStep))
    BY <2>1 DEF count_part
  <2>3. /\ n \in Nat
        /\ s = "order-service" => n = Cardinality(WithCourier)
        /\ s = "tracking-service" /\ ~behind' => n = Cardinality(WithCourier)
    <3>1. s = "order-service" \/ (s = "tracking-service" /\ s # "order-service")
      BY DEF Services
    <3>2. CASE s = "order-service"
      BY <3>2, CountsAreFinite DEF get_admin_summary, order_summary
    <3>3. CASE s = "tracking-service" /\ s # "order-service"
      <4>1. n = Cardinality(TrackedWithCourier)
        BY <3>3 DEF get_admin_summary, tracking_summary
      <4>2. ~behind' => TrackedWithCourier = WithCourier
        BY <1>0, <2>2, <3>3, TrackedOrdersExist
      <4> QED
        BY <3>3, <4>1, <4>2, CountsAreFinite
    <3> QED
      BY <3>1, <3>2, <3>3
  <2> HIDE DEF n
  <2>4. /\ summary' \in [Services -> Counts]
        /\ summary'[s].part = n /\ summary'[s].total = summary[s].total
        /\ \A r \in Services \ {s} : summary'[r] = summary[r]
    BY <1>0, <2>2, <2>3, CountedSummary
  <2>5. TrackingInv'
    BY <1>0, <2>2, TrackingStep
  <2>6. Created' = Created /\ WithCourier' = WithCourier
    BY <2>2 DEF Created, WithCourier, tvars
  <2>7. behind' \in BOOLEAN /\ (~behind' => ~behind)
    BY <1>0, <2>2 DEF AdminTypeOK
  <2>8. AdminTypeOK'
    BY <1>0, <2>2, <2>4, <2>5, <2>7 DEF AdminTypeOK, TrackingInv
  <2>9. SummaryInv'
    BY <1>0, <2>2, <2>3, <2>4, <2>6, <2>7 DEF SummaryInv, Services
  <2> QED
    BY <2>2, <2>5, <2>8, <2>9 DEF AdminInv
<1>5. CASE Forget
  <2>1. /\ UNCHANGED tvars /\ request' = "idle" /\ summary' = NothingAsked
        /\ changed' = FALSE /\ behind' = FALSE
    BY <1>5 DEF Forget
  <2>2. TrackingInv'
    BY <1>0, <2>1, TrackingStep
  <2>3. /\ \A s \in Services : summary'[s].total = -1 /\ summary'[s].part = -1
        /\ summary' \in [Services -> Counts]
    BY <2>1 DEF NothingAsked, Unasked, Counts
  <2>4. Created' = Created
    BY <2>1 DEF Created, tvars
  <2>5. AdminTypeOK'
    BY <2>1, <2>2, <2>3 DEF AdminTypeOK, TrackingInv, Unasked
  <2>6. SummaryInv'
    BY <1>0, <2>3, <2>4, CountsAreFinite DEF SummaryInv, Unasked
  <2> QED
    BY <2>1, <2>2, <2>5, <2>6 DEF AdminInv
<1>6. CASE UNCHANGED avars
  <2>1. UNCHANGED tvars /\ UNCHANGED <<request, summary, changed, behind>>
    BY <1>6 DEF avars
  <2>2. TrackingInv'
    BY <1>0, <2>1, TrackingStep
  <2>3. Created' = Created /\ WithCourier' = WithCourier
    BY <2>1 DEF Created, WithCourier, tvars
  <2> QED
    BY <1>0, <2>1, <2>2, <2>3 DEF AdminInv, AdminTypeOK, TrackingInv, SummaryInv, NothingAsked
<1> QED
  BY <1>1, <1>2, <1>3, <1>4, <1>5, <1>6
     DEF AdminNext, Collect, fetch_summary_fails, answer

LEMMA AdminInvariant == AdminSpec => []AdminInv
<1>1. AdminInit => AdminInv
  <2> SUFFICES ASSUME AdminInit PROVE AdminInv
    OBVIOUS
  <2>1. TrackingInv
    BY TrackingStart DEF AdminInit
  <2>2. /\ \A s \in Services : summary[s].total = -1 /\ summary[s].part = -1
        /\ summary \in [Services -> Counts]
    BY DEF AdminInit, NothingAsked, Unasked, Counts
  <2>3. AdminTypeOK
    BY <2>1, <2>2 DEF AdminInit, AdminTypeOK, TrackingInv, Unasked
  <2>4. SummaryInv
    BY <2>2, CountsAreFinite DEF SummaryInv, Unasked, Services
  <2> QED
    BY <2>1, <2>3, <2>4 DEF AdminInit, AdminInv
<1> QED
  BY <1>1, AdminStep, PTL DEF AdminSpec

\* The variables of the tracking and the admin service stay within their types.
THEOREM AdminTypeCorrect == AdminSpec => []AdminTypeOK
<1>1. AdminInv => AdminTypeOK
  BY DEF AdminInv
<1> QED
  BY <1>1, AdminInvariant, PTL

\* A courier whom the order's row does not name gets a location accepted only
\* while the tracked row is behind, while the newest event contradicts the
\* order's row, or when the tracked row changed under the request.
THEOREM StrangersAreLate == AdminSpec => StrangerOnlyWhileBehind
<1>1. AdminInv /\ [AdminNext]_avars =>
        [\A c \in Couriers :
          LET o == report[c].order IN
          report[c] # Idle /\ report'[c] = Idle =>
              \/ orders[o] \in {NoCourier, c}
              \/ Behind(o)
              \/ Contradicted(o)
              \/ report[c].seen # applied[o]]_tvars
  <2> SUFFICES ASSUME AdminInv, NEW c \in Couriers, report[c] # Idle,
                      ~Behind(report[c].order), ~Contradicted(report[c].order),
                      report[c].seen = applied[report[c].order]
               PROVE  orders[report[c].order] \in {NoCourier, c}
    OBVIOUS
  <2> DEFINE o == report[c].order
  <2>1. /\ o \in Orders /\ applied[o] = Len(sent[o])
        /\ report[c].seen \in 1 .. Len(sent[o])
        /\ sent[o][report[c].seen] \in {NoCourier, c}
    BY DEF AdminInv, TrackingInv, TrackingTypeOK, Reports, ReportsSaw, Behind
  <2>2. sent[o] # <<>>
    BY <2>1, EmptySeq
  <2> QED
    BY <2>1, <2>2 DEF Contradicted
<1> QED
  BY <1>1, AdminInvariant, PTL DEF AdminSpec, StrangerOnlyWhileBehind

\* The tracking gap is no artefact of the request: some row was out of step, or
\* orders changed.
THEOREM GapsAreReal == AdminSpec => []GapHasCause
<1>1. AdminInv => GapHasCause
  <2> SUFFICES ASSUME AdminInv, Gathered, ~behind, ~changed
               PROVE  "tracking_gap" \notin Alerts
    BY DEF GapHasCause
  <2>1. /\ summary["order-service"].part = Cardinality(WithCourier)
        /\ summary["tracking-service"].part = Cardinality(WithCourier)
    BY DEF AdminInv, SummaryInv, Gathered, Services
  <2>2. tracking_gap = 0
    BY <2>1, CountsAreFinite DEF tracking_gap, NotNegative
  <2> QED
    BY <2>2 DEF Alerts
<1> QED
  BY <1>1, AdminInvariant, PTL

LEMMA PercentageOfPart ==
    ASSUME NEW n \in Nat, NEW d \in Nat, n <= d
    PROVE  Percentage(n, d) <= 10000
<1>1. CASE d = 0
  BY <1>1 DEF Percentage
<1>2. CASE d > 0
  <2> DEFINE q == (20000 * n + d) \div (2 * d)
  <2>1. q \in Int /\ 2 * d * q <= 20000 * n + d
    BY <1>2
  <2>2. 2 * d * q <= 20001 * d
    BY <2>1
  <2>3. q <= 10000
    BY <1>2, <2>1, <2>2
  <2> QED
    BY <1>2, <2>3 DEF Percentage
<1> QED
  BY <1>1, <1>2

\* The shares stay below 100 percent.
THEOREM SharesAreOfTheirTotals == AdminSpec => []SharesAreShares
<1>1. AdminInv => SharesAreShares
  <2> SUFFICES ASSUME AdminInv, Gathered, ~changed, NEW p \in Conversion
               PROVE  p <= 10000
    BY DEF SharesAreShares
  <2>1. /\ summary["order-service"].total = Cardinality(Created)
        /\ summary["order-service"].part = Cardinality(WithCourier)
        /\ summary["tracking-service"].total <= Cardinality(Created)
        /\ summary["tracking-service"].total \in Nat
    BY DEF AdminInv, AdminTypeOK, SummaryInv, Gathered, Services, Counts, Unasked
  <2> QED
    BY <2>1, CountsAreFinite, PercentageOfPart DEF Conversion
<1> QED
  BY <1>1, AdminInvariant, PTL
=============================================================================
