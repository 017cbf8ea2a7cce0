----------------------------- MODULE EventRelay -----------------------------
(***************************************************************************)
(* What the outbox promises to the topic it feeds: it delivers events that *)
(* the service has committed, and no others, each one any number of times. *)
(***************************************************************************)
EXTENDS Sequences

CONSTANT Events

VARIABLES
    accepted,    \* the events of committed transactions
    delivered    \* what the topic holds, in its order

RelayInit == accepted = {} /\ delivered = <<>>

Accept(e) ==
    /\ e \notin accepted
    /\ accepted' = accepted \cup {e}
    /\ UNCHANGED delivered

Deliver(e) ==
    /\ e \in accepted
    /\ delivered' = Append(delivered, e)
    /\ UNCHANGED accepted

RelayNext == \E e \in Events : Accept(e) \/ Deliver(e)

RelaySpec == RelayInit /\ [][RelayNext]_<<accepted, delivered>>
=============================================================================
