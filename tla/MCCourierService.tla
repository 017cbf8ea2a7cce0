-------------------------- MODULE MCCourierService ---------------------------
(* Instances of CourierService for TLC. *)
EXTENDS CourierService, TLC

\* No definition names a courier, an order, an assignment or a thread.
Symmetry == Permutations(Couriers) \cup Permutations(Orders)
               \cup Permutations(Assignments) \cup Permutations(HttpSessions)
=============================================================================
