--------------------------- MODULE MCOrderService ---------------------------
(* Instances of OrderService for TLC. *)
EXTENDS OrderRefinement, TLC

\* No definition names a courier, an order or a thread.
Symmetry == Permutations(Couriers) \cup Permutations(HttpSessions)
SerialSymmetry == Permutations(Couriers) \cup Permutations(Orders)
=============================================================================
