-------------------------- MODULE OrderRefinement ---------------------------
(***************************************************************************)
(* The order service with at most one transaction open per order           *)
(* implements OrderLifecycle: the committed row is the order, and the      *)
(* orders carried by the outbox messages are what is announced.            *)
(***************************************************************************)
EXTENDS OrderService

AnnouncedRows == [o \in Orders |-> [i \in 1 .. Len(outbox[o]) |-> outbox[o][i].order]]

Lifecycle == INSTANCE OrderLifecycle
                WITH order <- orders, announced <- AnnouncedRows

\* Every commit is one legal step of the order's life and announces exactly
\* the row it leaves; opening and rolling back a transaction shows nothing.
ImplementsLifecycle == Lifecycle!LifecycleSpec
=============================================================================
