------------------------ MODULE MCNotificationService ------------------------
(***************************************************************************)
(* Two events of one user: a new order, and a change of a courier's data,  *)
(* which no notification is made of.                                       *)
(***************************************************************************)
EXTENDS NotificationService

CONSTANTS e1, e2, u1

MCEvents ==
    {[event_id |-> e1, event_type |-> "order_created",
      user_id |-> u1, courier_user_id |-> NoUser],
     [event_id |-> e2, event_type |-> "courier_updated",
      user_id |-> u1, courier_user_id |-> NoUser]}
=============================================================================
