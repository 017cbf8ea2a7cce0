-------------------------- MODULE OutboxPublisher ---------------------------
(***************************************************************************)
(* libs/platform-common/platform_common/outbox.py: the rows that a         *)
(* service's transactions leave in outbox_events, and the one task of the  *)
(* service that copies them to Kafka.                                      *)
(*                                                                         *)
(* A row is INSERTed by a request's transaction and becomes visible when   *)
(* that transaction commits.  created_at is stamped at the INSERT, so a    *)
(* row may become visible after one with a later created_at.  Where the    *)
(* transaction has updated the row of its aggregate before (the order and  *)
(* the payment service flush the UPDATE first) others of the aggregate     *)
(* wait for it to end, and rows of one aggregate cannot overlap like that. *)
(* The other services lock nothing before: a courier's locations are only  *)
(* inserted, and the courier service leaves UPDATE and INSERT to one flush.*)
(*                                                                         *)
(* The task polls a batch of pending rows and, row by row, publishes and   *)
(* commits.  The broker may refuse a message, or store it and fail to say  *)
(* so; a commit may fail; the process may stop anywhere.  Of attempts and  *)
(* last_error only "a publish of this row has failed" is kept: no code     *)
(* reads them.                                                             *)
(***************************************************************************)
EXTENDS Integers, Sequences, FiniteSets

CONSTANTS
    Events,        \* ids of outbox rows
    Aggregates,    \* the entities the events are about
    AggregateOf,   \* [Events -> Aggregates]
    Locked,        \* aggregates whose row a transaction locks before its INSERT
    Poison,        \* rows whose publish fails every time
    BatchSize,     \* batch_size
    MaxFaults      \* bound: failures other than those of poison rows

ASSUME OutboxAssumption ==
    /\ IsFiniteSet(Events)
    /\ AggregateOf \in [Events -> Aggregates]
    /\ Locked \subseteq Aggregates
    /\ Poison \subseteq Events
    /\ BatchSize \in Nat \ {0}
    /\ MaxFaults \in Nat

VARIABLES
    status,     \* [Events -> RowStatus]
    created,    \* Seq(Events): the inserted rows in created_at order
    outrun,     \* SUBSET Events: history, see Outrun
    failed,     \* SUBSET Events: the rows with attempts > 0
    batch,      \* Seq(Events): what the task still has to publish
    pc,         \* where the task is, see Places
    topic,      \* Seq(Events): what the broker has stored
    faults      \* how many failures there were (of at most MaxFaults)

vars == <<status, created, outrun, failed, batch, pc, topic, faults>>

\* "absent": no row yet; "inserted": in a transaction that is still open.
RowStatus == {"absent", "inserted", "rolled_back", "pending", "published"}

\* Asleep, about to publish Head(batch), or about to commit its outcome.
Places == {"sleep", "publish", "sent", "refused"}

Init ==
    /\ status = [e \in Events |-> "absent"]
    /\ created = <<>>
    /\ outrun = {}
    /\ failed = {}
    /\ batch = <<>>
    /\ pc = "sleep"
    /\ topic = <<>>
    /\ faults = 0

-----------------------------------------------------------------------------
(* The requests of the service.                                            *)

Before(e, f, seq) ==
    \E i, j \in 1 .. Len(seq) : i < j /\ seq[i] = e /\ seq[j] = f

\* The INSERT of the row, for a locked aggregate under the lock of its
\* transaction.
add_outbox_event(e) ==
    /\ status[e] = "absent"
    /\ AggregateOf[e] \in Locked =>
          \A f \in Events : status[f] = "inserted" => AggregateOf[f] # AggregateOf[e]
    /\ status' = [status EXCEPT ![e] = "inserted"]
    /\ created' = Append(created, e)
    /\ UNCHANGED <<outrun, failed, batch, pc, topic, faults>>

\* The rows still in open transactions when the younger row e of their
\* aggregate becomes visible.
Outrun(e) ==
    {f \in Events : /\ status[f] = "inserted"
                    /\ AggregateOf[f] = AggregateOf[e]
                    /\ Before(f, e, created)}

commit_request(e) ==
    /\ status[e] = "inserted"
    /\ status' = [status EXCEPT ![e] = "pending"]
    /\ outrun' = outrun \cup Outrun(e)
    /\ UNCHANGED <<created, failed, batch, pc, topic, faults>>

rollback_request(e) ==
    /\ status[e] = "inserted"
    /\ status' = [status EXCEPT ![e] = "rolled_back"]
    /\ UNCHANGED <<created, outrun, failed, batch, pc, topic, faults>>

-----------------------------------------------------------------------------
(* The publishing task.                                                    *)

Visible_Uncommitted == {e \in Events : status[e] \in {"inserted", "pending"}}

\* WHERE status = 'pending', of what is committed.
Visible == {e \in Events : status[e] = "pending"}

IsBatch_NewestFirst(rows) ==
    /\ \A i, j \in 1 .. Len(rows) : i < j => Before(rows[j], rows[i], created)
    /\ \A e \in Visible : \/ \E i \in 1 .. Len(rows) : rows[i] = e
                          \/ /\ Len(rows) = BatchSize
                             /\ Before(e, rows[Len(rows)], created)

\* ORDER BY created_at LIMIT batch_size: rows are visible ones, oldest first,
\* and a visible row that is not among them is younger than a full batch.
IsBatch(rows) ==
    /\ \A i, j \in 1 .. Len(rows) : i < j => Before(rows[i], rows[j], created)
    /\ \A e \in Visible : \/ \E i \in 1 .. Len(rows) : rows[i] = e
                          \/ /\ Len(rows) = BatchSize
                             /\ Before(rows[Len(rows)], e, created)

\* The batch of a poll; when it is empty the task sleeps again.
select_batch ==
    /\ pc = "sleep"
    /\ \E n \in 1 .. BatchSize : \E rows \in [1 .. n -> Visible] :
          IsBatch(rows) /\ batch' = rows
    /\ pc' = "publish"
    /\ UNCHANGED <<status, created, outrun, failed, topic, faults>>

\* publish returns: the broker has acknowledged the message.
publish ==
    /\ pc = "publish"
    /\ Head(batch) \notin Poison
    /\ topic' = Append(topic, Head(batch))
    /\ pc' = "sent"
    /\ UNCHANGED <<status, created, outrun, failed, batch, faults>>

\* publish raises for a poison row.
publish_poison ==
    /\ pc = "publish"
    /\ Head(batch) \in Poison
    /\ pc' = "refused"
    /\ UNCHANGED <<status, created, outrun, failed, batch, topic, faults>>

\* publish raises for another row: the broker is away, or it stored the
\* message and the acknowledgement was lost.
publish_raises ==
    /\ pc = "publish"
    /\ Head(batch) \notin Poison
    /\ faults < MaxFaults
    /\ faults' = faults + 1
    /\ topic' \in {topic, Append(topic, Head(batch))}
    /\ pc' = "refused"
    /\ UNCHANGED <<status, created, outrun, failed, batch>>

\* The loop goes on with the next row, or ends.
NextRow ==
    /\ batch' = Tail(batch)
    /\ pc' = IF Tail(batch) = <<>> THEN "sleep" ELSE "publish"

commit_event_Always ==
    /\ pc \in {"sent", "refused"}
    /\ status' = [status EXCEPT ![Head(batch)] = "published"]
    /\ failed' = IF pc = "refused" THEN failed \cup {Head(batch)} ELSE failed
    /\ NextRow
    /\ UNCHANGED <<created, outrun, topic, faults>>

commit_event_Forgets ==
    /\ pc \in {"sent", "refused"}
    /\ failed' = IF pc = "refused" THEN failed \cup {Head(batch)} ELSE failed
    /\ NextRow
    /\ UNCHANGED <<status, created, outrun, topic, faults>>

commit_event_StopsAtFailure ==
    /\ pc \in {"sent", "refused"}
    /\ status' = IF pc = "sent"
                 THEN [status EXCEPT ![Head(batch)] = "published"] ELSE status
    /\ failed' = IF pc = "refused" THEN failed \cup {Head(batch)} ELSE failed
    /\ IF pc = "refused" THEN batch' = <<>> /\ pc' = "sleep" ELSE NextRow
    /\ UNCHANGED <<created, outrun, topic, faults>>

\* db.commit of the row: published, or one more failed attempt.
commit_event ==
    /\ pc \in {"sent", "refused"}
    /\ status' = IF pc = "sent"
                 THEN [status EXCEPT ![Head(batch)] = "published"] ELSE status
    /\ failed' = IF pc = "refused" THEN failed \cup {Head(batch)} ELSE failed
    /\ NextRow
    /\ UNCHANGED <<created, outrun, topic, faults>>

\* The database fails under the task, which logs it and sleeps, or the process
\* stops and starts again: what was not committed is undone.
abandon_batch ==
    /\ pc # "sleep"
    /\ faults < MaxFaults
    /\ faults' = faults + 1
    /\ batch' = <<>>
    /\ pc' = "sleep"
    /\ UNCHANGED <<status, created, outrun, failed, topic>>

Publisher == select_batch \/ publish \/ publish_poison \/ commit_event

Next ==
    \/ \E e \in Events : \/ add_outbox_event(e)
                         \/ commit_request(e)
                         \/ rollback_request(e)
    \/ Publisher
    \/ publish_raises
    \/ abandon_batch

Spec == Init /\ [][Next]_vars

\* The event loop schedules the task; nobody promises that requests come.
FairSpec == Spec /\ WF_vars(Publisher)

-----------------------------------------------------------------------------
(* Properties.                                                             *)

\* Every variable stays within its type, and the task has rows to work on
\* exactly when it is not asleep.
TypeOK ==
    /\ status \in [Events -> RowStatus]
    /\ created \in Seq(Events)
    /\ outrun \in SUBSET Events
    /\ failed \in SUBSET Events
    /\ batch \in Seq(Events)
    /\ pc \in Places
    /\ topic \in Seq(Events)
    /\ faults \in 0 .. MaxFaults
    /\ pc = "sleep" <=> batch = <<>>

InTopic(e) == \E i \in 1 .. Len(topic) : topic[i] = e

\* A row is marked published only after the broker has stored its message: a
\* committed event is never dropped.
PublishedIsInTopic ==
    \A e \in Events : status[e] = "published" => InTopic(e)

\* Every message in the topic beyond the first of its event is paid for by a
\* failure: without one, each event is published exactly once.
DuplicatesNeedFaults ==
    Len(topic) <= Cardinality({topic[i] : i \in 1 .. Len(topic)}) + faults

\* The messages of one aggregate reach the topic in created_at order, unless a
\* publish of the earlier one failed (the loop goes on with the next row) or the
\* younger one was committed first, which the lock of its aggregate prevents.
OvertakenOnlyAfterFailure ==
    \A e, f \in Events :
        /\ AggregateOf[e] = AggregateOf[f]
        /\ Before(e, f, created)
        /\ status[e] # "rolled_back"
        /\ InTopic(f)
        => \/ e \in failed
           \/ e \in outrun /\ AggregateOf[e] \notin Locked
           \/ \E i \in 1 .. Len(topic) :
                 topic[i] = e /\ \A j \in 1 .. i : topic[j] # f

\* Every committed event is published, whatever fails finitely often, as long
\* as poison rows do not fill a whole batch.
PendingIsPublished ==
    \A e \in Events \ Poison :
        status[e] = "pending" ~> status[e] = "published"

Relay == INSTANCE EventRelay
            WITH accepted  <- {e \in Events : status[e] \in {"pending", "published"}},
                 delivered <- topic

\* The topic only ever receives events of committed transactions, and a
\* committed event stays committed.
ImplementsRelay == Relay!RelaySpec
=============================================================================
