------------------------- MODULE MCOutboxPublisher --------------------------
(* Instance of OutboxPublisher for TLC. *)
EXTENDS OutboxPublisher

CONSTANTS e1, e2, e3, x1, a1, a2

\* Two events of an order, whose row is locked, and two of a courier, whose row
\* is not.  One of these is poison: with batches of two rows it leaves one place
\* in every batch.
MCEvents == {e1, e2, e3, x1}
MCAggregateOf == [e \in MCEvents |-> IF e \in {e1, e2} THEN a1 ELSE a2]
=============================================================================
