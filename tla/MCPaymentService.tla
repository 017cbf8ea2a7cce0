-------------------------- MODULE MCPaymentService ---------------------------
(* An instance of PaymentService for TLC. *)
EXTENDS PaymentService, TLC

\* No definition names a payment, an order or a thread.
Symmetry == Permutations(Payments) \cup Permutations(Orders)
               \cup Permutations(Sessions)
=============================================================================
