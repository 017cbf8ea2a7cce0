------------------------- MODULE NotificationService -------------------------
(***************************************************************************)
(* services/notification-service: the consumer task of KafkaConsumer with  *)
(* NotificationService.create_from_event as its handler, beside the HTTP   *)
(* handlers.  The messages of the partition are events with an identity:   *)
(* the outbox may publish an event twice, and the dead letter tool         *)
(* (scripts/kafka-dlq-tool.py) publishes one again under its event_id.     *)
(*                                                                         *)
(* create_from_event looks for a row with the event's id and then inserts  *)
(* one.  Only this handler writes rows with a source_event_id and there is *)
(* one consumer task, so no other session comes between the two: they are  *)
(* one step, as the effect of a handler is in KafkaConsumer.               *)
(*                                                                         *)
(* Titles, texts and channels are left out.  The three topics of the       *)
(* service are one partition here: the loop takes one message at a time    *)
(* from all.                                                               *)
(***************************************************************************)
EXTENDS KafkaConsumer

CONSTANTS
    Users,     \* user ids
    NoUser,    \* no user_id, or one that is no UUID
    Events,    \* the events; one stands for its event_id, which no other has
    NoEvent,   \* source_event_id IS NULL
    MaxManual  \* bound: notifications that administrators create

ASSUME EventAssumption ==
    /\ \A e \in Events : /\ DOMAIN e = {"event_id", "event_type", "user_id", "courier_user_id"}
                         /\ {e.user_id, e.courier_user_id} \subseteq Users \cup {NoUser}
    /\ \A e, f \in Events : e.event_id = f.event_id => e = f
    /\ NoEvent \notin Events
    /\ MaxManual \in Nat

VARIABLES
    event,         \* Seq(Events): the event at each offset of the partition
    notifications  \* Seq(Notification): the rows, in the order of their INSERTs

nvars == <<vars, event, notifications>>

\* A row: status READ goes with read_at, and nothing sets SENT or FAILED.
Notification == [source_event_id : Events \cup {NoEvent},
                 status : {"created", "read"}]

NotificationInit ==
    /\ Init
    /\ event = <<>>
    /\ notifications = <<>>

Sources == {notifications[n].source_event_id : n \in DOMAIN notifications}

-----------------------------------------------------------------------------
(* What comes into the topics.                                             *)

Publish(e) ==
    /\ produce
    /\ event' = Append(event, e)
    /\ UNCHANGED notifications

\* The outbox of a service publishes an event for the first time,
publish_event(e) == (\A i \in DOMAIN event : event[i] # e) /\ Publish(e)

\* or again, because the first time it could not mark the row.
publish_again(i) == i \in DOMAIN event /\ Publish(event[i])

\* An operator replays a dead letter: build_replay_message keeps the event_id.
\* Nothing marks it as replayed, so this may happen more than once.
replay(i) == i \in dlq /\ Publish(event[i])

-----------------------------------------------------------------------------
(* The handler of the consumer.                                            *)

\* The types with a title and a text.  The couriers topic also carries
\* courier_created and courier_updated, which have none.
message_for_event ==
    {"order_created", "order_cancelled", "order_status_changed", "delivery_started",
     "delivery_completed", "courier_assigned", "courier_availability_changed",
     "assignment_status_changed", "payment_created", "payment_confirmed",
     "payment_failed", "payment_refunded"}

\* The customer, or else the courier.
recipient_user_id(e) == IF e.user_id # NoUser THEN e.user_id ELSE e.courier_user_id

\* The events that _notification_from_event makes a notification of.
Notifiable == {e \in Events : /\ recipient_user_id(e) # NoUser
                              /\ e.event_type \in message_for_event}

Insert(source) ==
    notifications' = Append(notifications,
                            [source_event_id |-> source, status |-> "created"])

create_from_event_Unread(e) ==
    IF /\ e \in Notifiable
       /\ \A n \in DOMAIN notifications :
             ~ /\ notifications[n].source_event_id = e
               /\ notifications[n].status = "created"
    THEN Insert(e) ELSE UNCHANGED notifications

create_from_event_AnyRow(e) ==
    IF e \in Notifiable /\ Sources = {} THEN Insert(e) ELSE UNCHANGED notifications

\* The row with this source_event_id, or a new one if the event is to be
\* notified about.
create_from_event(e) ==
    IF e \in Notifiable \ Sources THEN Insert(e) ELSE UNCHANGED notifications

handle_message ==
    /\ handle
    /\ create_from_event(event[current])
    /\ UNCHANGED event

\* The handler raises before its transaction is committed or after, in
\* db.refresh or in closing the session.
handle_message_raises ==
    /\ handle_raises
    /\ IF applied' = applied THEN UNCHANGED notifications
       ELSE create_from_event(event[current])
    /\ UNCHANGED event

-----------------------------------------------------------------------------
(* HTTP handlers.                                                          *)

Manual == {n \in DOMAIN notifications : notifications[n].source_event_id = NoEvent}

\* POST /notifications.
create_notification ==
    /\ Cardinality(Manual) < MaxManual
    /\ Insert(NoEvent)
    /\ UNCHANGED <<vars, event>>

\* PATCH /notifications/{id}/read.  Of two that overlap, both write the same.
mark_as_read(n) ==
    /\ n \in DOMAIN notifications
    /\ notifications[n].status # "read"
    /\ notifications' = [notifications EXCEPT ![n].status = "read"]
    /\ UNCHANGED <<vars, event>>

-----------------------------------------------------------------------------

\* The steps of the loop that leave the tables of the service alone.
Loop == start \/ getone \/ handle_poison \/ dead_letter \/ commit

LoopFails == stop \/ dead_letter_raises \/ commit_raises

NotificationConsumer ==
    \/ Loop /\ UNCHANGED <<event, notifications>>
    \/ handle_message

NotificationNext ==
    \/ NotificationConsumer
    \/ LoopFails /\ UNCHANGED <<event, notifications>>
    \/ handle_message_raises
    \/ \E e \in Events : publish_event(e)
    \/ \E i \in Offsets : publish_again(i) \/ replay(i)
    \/ create_notification
    \/ \E n \in DOMAIN notifications : mark_as_read(n)

NotificationSpec == NotificationInit /\ [][NotificationNext]_nvars

\* As in KafkaConsumer: only the task's own steps are fair.
FairNotificationSpec == NotificationSpec /\ WF_nvars(NotificationConsumer)

-----------------------------------------------------------------------------
(* Properties.                                                             *)

\* The variables of this module stay within their types.
NotificationTypeOK ==
    /\ event \in Seq(Events)
    /\ Len(event) = log
    /\ notifications \in Seq(Notification)

\* A user is notified of an event once, although the outbox publishes it
\* again, the consumer reads it again after a retry, a failed commit or a
\* restart, and operators replay it, before and after the user has read it.
OneNotificationPerEvent ==
    \A n, m \in DOMAIN notifications :
        /\ notifications[n].source_event_id = notifications[m].source_event_id
        /\ notifications[n].source_event_id # NoEvent
        => n = m

IsNotified(i) ==
    i \in DOMAIN event /\ event[i] \in Sources \cup (Events \ Notifiable)

\* An event that the group has committed past was notified about, unless all
\* attempts on it failed or a start without a committed offset jumped it.
CommittedIsNotified ==
    \A i \in DOMAIN event : i < committed =>
        i \in exhausted \cup jumped \/ IsNotified(i)
=============================================================================
