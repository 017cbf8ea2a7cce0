---------------------------- MODULE PaymentLedger ----------------------------
(* What the payments of an order promise: it is asked for money by one       *)
(* payment at a time, and never again while money it gave is not returned.   *)
CONSTANTS
    Orders,
    Payments,
    Disputed  \* the entry of an order about which nothing is promised any more

VARIABLE ledger  \* the money of each order: by payment, what is
                 \* requested, what was taken and what was returned

Nothing == [requested |-> {}, taken |-> {}, returned |-> {}]

Init == ledger = [o \in Orders |-> Nothing]

Becomes(o, requested, taken, returned) ==
    ledger' = [ledger EXCEPT ![o] =
        [requested |-> requested, taken |-> taken, returned |-> returned]]

Request(o, p) ==
    /\ ledger[o].requested = {}
    /\ ledger[o].taken \subseteq ledger[o].returned
    /\ p \notin ledger[o].taken
    /\ Becomes(o, {p}, ledger[o].taken, ledger[o].returned)

Decline(o) ==
    /\ ledger[o].requested # {}
    /\ Becomes(o, {}, ledger[o].taken, ledger[o].returned)

Take(o) ==
    /\ ledger[o].requested # {}
    /\ Becomes(o, {}, ledger[o].taken \cup ledger[o].requested, ledger[o].returned)

Return(o, p) ==
    /\ p \in ledger[o].taken \ ledger[o].returned
    /\ Becomes(o, ledger[o].requested, ledger[o].taken, ledger[o].returned \cup {p})

Dispute(o) == ledger' = [ledger EXCEPT ![o] = Disputed]

Next ==
    \E o \in Orders :
        \/ /\ ledger[o] # Disputed
           /\ \/ \E p \in Payments : Request(o, p) \/ Return(o, p)
              \/ Decline(o)
              \/ Take(o)
        \/ Dispute(o)

Spec == Init /\ [][Next]_ledger
=============================================================================
