---------------------------- MODULE KafkaConsumer ----------------------------
(***************************************************************************)
(* One consumer task of a service on one partition: the loop of            *)
(* services/order-service/app/kafka/consumer.py around                     *)
(* process_message_with_retries of platform-common.  The consumers of the  *)
(* other services are the same loop around other handlers.                 *)
(*                                                                         *)
(* Auto-commit is off.  A commit stores the position of the consumer,      *)
(* which getone has moved past the message whether or not the message was  *)
(* dealt with.  The group has no auto_offset_reset, so without a committed *)
(* offset a restart begins at the end of the partition ("latest").         *)
(*                                                                         *)
(* What a handler does to its service's tables is that service's module;   *)
(* here it is one effect, the commit of its transaction.                   *)
(***************************************************************************)
EXTENDS Integers, Sequences, FiniteSets

CONSTANTS
    MaxRetries,   \* kafka_consumer_max_retries
    DlqEnabled,   \* a dead letter topic and its publisher are configured
    Poison,       \* offsets of messages whose handler raises every time
    MaxLog,       \* bound: messages produced to the partition
    MaxFaults     \* bound: failures other than those of poison messages

ASSUME ConsumerAssumption ==
    /\ MaxRetries \in Nat
    /\ DlqEnabled \in BOOLEAN
    /\ MaxLog \in Nat
    /\ Poison \subseteq 1 .. MaxLog
    /\ MaxFaults \in Nat

total_attempts == MaxRetries + 1

Offsets == 1 .. MaxLog

VARIABLES
    log,         \* how many messages the partition has: their offsets are 1 .. log
    position,    \* the offset getone reads next
    committed,   \* the committed position of the group, 0 when there is none
    pc,          \* where the task is, see Places
    attempt,     \* which call of the handler is being made, 0 between messages
    applied,     \* Seq(Offsets): the effects of handlers, in their order
    dlq,         \* SUBSET Offsets: what the dead letter topic holds
    exhausted,   \* SUBSET Offsets: history, the last attempt of it raised
    jumped,      \* SUBSET Offsets: history, a start without an offset passed it
    faults       \* how many failures there were (of at most MaxFaults)

vars == <<log, position, committed, pc, attempt, applied, dlq, exhausted,
          jumped, faults>>

\* Not running; about to call getone, the handler, publish_dead_letter, commit.
Places == {"stopped", "getone", "handle", "dead_letter", "commit"}

\* The message in hand: getone has moved the position past it.
current == position - 1

Init ==
    /\ log = 0
    /\ position = 1
    /\ committed = 0
    /\ pc = "stopped"
    /\ attempt = 0
    /\ applied = <<>>
    /\ dlq = {}
    /\ exhausted = {}
    /\ jumped = {}
    /\ faults = 0

Fault == faults < MaxFaults /\ faults' = faults + 1

-----------------------------------------------------------------------------

\* Some service publishes to the topic.
produce ==
    /\ log < MaxLog
    /\ log' = log + 1
    /\ UNCHANGED <<position, committed, pc, attempt, applied, dlq, exhausted,
                   jumped, faults>>

\* CourierEventsConsumer.start: join the group at its committed offset, or at
\* the end of the partition.
start ==
    /\ pc = "stopped"
    /\ position' = IF committed = 0 THEN log + 1 ELSE committed
    /\ jumped' = IF committed = 0 THEN jumped \cup 1 .. log ELSE jumped
    /\ pc' = "getone"
    /\ UNCHANGED <<log, committed, attempt, applied, dlq, exhausted, faults>>

\* stop cancels the task wherever it waits, and a crash needs no place to wait.
stop ==
    /\ pc # "stopped"
    /\ Fault
    /\ pc' = "stopped"
    /\ attempt' = 0
    /\ UNCHANGED <<log, position, committed, applied, dlq, exhausted, jumped>>

getone_CommitsFirst ==
    /\ pc = "getone"
    /\ position <= log
    /\ position' = position + 1
    /\ committed' = position + 1
    /\ attempt' = 1
    /\ pc' = "handle"
    /\ UNCHANGED <<log, applied, dlq, exhausted, jumped, faults>>

getone ==
    /\ pc = "getone"
    /\ position <= log
    /\ position' = position + 1
    /\ attempt' = 1
    /\ pc' = "handle"
    /\ UNCHANGED <<log, committed, applied, dlq, exhausted, jumped, faults>>

\* The handler returns.
handle ==
    /\ pc = "handle"
    /\ current \notin Poison
    /\ applied' = Append(applied, current)
    /\ attempt' = 0
    /\ pc' = "commit"
    /\ UNCHANGED <<log, position, committed, dlq, exhausted, jumped, faults>>

AfterFailure_NoLimit == UNCHANGED <<pc, attempt, exhausted>>

AfterFailure_NextMessage ==
    /\ attempt' = 0
    /\ pc' = "getone"
    /\ UNCHANGED exhausted

\* The except branch: another attempt, then the dead letter topic, or a raise
\* out of process_message_with_retries when there is none.
AfterFailure ==
    \/ /\ attempt < total_attempts
       /\ attempt' = attempt + 1
       /\ UNCHANGED <<pc, exhausted>>
    \/ /\ attempt >= total_attempts
       /\ attempt' = 0
       /\ pc' = IF DlqEnabled THEN "dead_letter" ELSE "getone"
       /\ exhausted' = exhausted \cup {current}

\* The handler of a poison message raises, before any effect.
handle_poison ==
    /\ pc = "handle"
    /\ current \in Poison
    /\ AfterFailure
    /\ UNCHANGED <<log, position, committed, applied, dlq, jumped, faults>>

\* Another handler raises: its transaction was rolled back, or committed and
\* the answer was lost.
handle_raises ==
    /\ pc = "handle"
    /\ current \notin Poison
    /\ Fault
    /\ applied' \in {applied, Append(applied, current)}
    /\ AfterFailure
    /\ UNCHANGED <<log, position, committed, dlq, jumped>>

\* publish_dead_letter returns, and process_message_with_retries returns True.
dead_letter ==
    /\ pc = "dead_letter"
    /\ dlq' = dlq \cup {current}
    /\ pc' = "commit"
    /\ UNCHANGED <<log, position, committed, attempt, applied, exhausted,
                   jumped, faults>>

\* publish_dead_letter raises, stored or not: the loop logs it and goes on
\* with the next message.
dead_letter_raises ==
    /\ pc = "dead_letter"
    /\ Fault
    /\ dlq' \in {dlq, dlq \cup {current}}
    /\ pc' = "getone"
    /\ UNCHANGED <<log, position, committed, attempt, applied, exhausted, jumped>>

commit_OnlyFirst ==
    /\ pc = "commit"
    /\ committed' = IF committed = 0 THEN position ELSE committed
    /\ pc' = "getone"
    /\ UNCHANGED <<log, position, attempt, applied, dlq, exhausted, jumped, faults>>

commit ==
    /\ pc = "commit"
    /\ committed' = position
    /\ pc' = "getone"
    /\ UNCHANGED <<log, position, attempt, applied, dlq, exhausted, jumped, faults>>

\* commit raises, and may have been carried out: the loop goes on.
commit_raises ==
    /\ pc = "commit"
    /\ Fault
    /\ committed' \in {committed, position}
    /\ pc' = "getone"
    /\ UNCHANGED <<log, position, attempt, applied, dlq, exhausted, jumped>>

Consumer ==
    start \/ getone \/ handle \/ handle_poison \/ dead_letter \/ commit

Next == Consumer \/ produce \/ stop \/ handle_raises \/ dead_letter_raises \/ commit_raises

Spec == Init /\ [][Next]_vars

\* The event loop runs the task and somebody starts a stopped service again;
\* nobody promises that messages are produced.
FairSpec == Spec /\ WF_vars(Consumer)

-----------------------------------------------------------------------------
(* Properties.                                                             *)

\* Every variable stays within its type, and a message has at most
\* total_attempts attempts each time it is read.
TypeOK ==
    /\ log \in 0 .. MaxLog
    /\ position \in 1 .. log + 1
    /\ committed \in 0 .. log + 1
    /\ pc \in Places
    /\ attempt \in 0 .. total_attempts
    /\ attempt > 0 <=> pc = "handle"
    /\ applied \in Seq(Offsets)
    /\ dlq \in SUBSET Offsets
    /\ exhausted \in SUBSET Offsets
    /\ jumped \in SUBSET Offsets
    /\ faults \in 0 .. MaxFaults

Effects == {applied[k] : k \in 1 .. Len(applied)}

\* A message the group has committed past took effect, unless all its attempts
\* failed or a start without a committed offset jumped it: no interruption
\* between getone and commit loses a message.
CommittedHasEffect ==
    \A i \in Offsets : i < committed => i \in Effects \cup exhausted \cup jumped

\* Every effect beyond the first of its message is paid for by a failure.
RepeatsNeedFaults == Len(applied) <= Cardinality(Effects) + faults

\* Messages take effect in the order of the partition, except a message that
\* exhausted its attempts, was passed over, and came back after a restart.
EffectsInOrder ==
    \A k \in 1 .. Len(applied) : \A i \in 1 .. applied[k] - 1 :
        i \in exhausted \cup jumped \/ \E j \in 1 .. k-1 : applied[j] = i

\* Every message takes effect, exhausts its attempts or is jumped: neither a
\* poison message nor finitely many failures block the partition.
EveryMessageIsDealtWith ==
    \A i \in Offsets : i <= log ~> i \in Effects \cup exhausted \cup jumped

\* README.md lines 206-207: a message whose bounded retries are exhausted is
\* published to the dead letter topic.  Stated of what the group has committed
\* past, when nothing is left that would publish it.
ExhaustedIsDeadLettered ==
    \A i \in exhausted : i < committed => i \in dlq \cup Effects
=============================================================================
