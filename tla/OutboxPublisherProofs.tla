----------------------- MODULE OutboxPublisherProofs ------------------------
(***************************************************************************)
(* Proofs about the outbox, for any events, aggregates, poison rows, batch *)
(* size and number of failures.                                            *)
(***************************************************************************)
EXTENDS OutboxPublisher, SequenceTheorems, FiniteSetTheorems, TLAPS

\* A row is in created once, and every row there has been inserted.
CreatedOnce ==
    /\ \A i, j \in 1 .. Len(created) : created[i] = created[j] => i = j
    /\ \A i \in 1 .. Len(created) : status[created[i]] # "absent"

\* The rows of the batch are distinct and still pending: only the task itself
\* takes them out of that status.
BatchIsPending ==
    /\ \A i, j \in 1 .. Len(batch) : batch[i] = batch[j] => i = j
    /\ \A i \in 1 .. Len(batch) : status[batch[i]] = "pending"

\* What the task is about to mark published has been published.
SentIsInTopic == pc = "sent" => InTopic(Head(batch))

\* The topic holds events of committed transactions.
TopicIsCommitted ==
    \A i \in 1 .. Len(topic) : status[topic[i]] \in {"pending", "published"}

OutboxInv ==
    /\ TypeOK
    /\ CreatedOnce
    /\ BatchIsPending
    /\ SentIsInTopic
    /\ TopicIsCommitted
    /\ PublishedIsInTopic

-----------------------------------------------------------------------------
(* The sequences of the model.                                             *)

\* The topic after one more message holds what it held, and the message.
LEMMA AppendedIsInTopic ==
    ASSUME topic \in Seq(Events), NEW e \in Events, topic' = Append(topic, e)
    PROVE  /\ \A i \in 1 .. Len(topic') : topic'[i] = e \/ \E j \in 1 .. Len(topic) :
                                                              topic'[i] = topic[j]
           /\ \A f : InTopic(f) => InTopic(f)'
           /\ InTopic(e)'
BY DEF InTopic

\* The rows left after the first are rows of the batch.
LEMMA TailOfBatch ==
    ASSUME batch \in Seq(Events), batch # <<>>
    PROVE  /\ Head(batch) \in Events
           /\ Head(batch) = batch[1]
           /\ 1 \in 1 .. Len(batch)
           /\ Tail(batch) \in Seq(Events)
           /\ Len(Tail(batch)) = Len(batch) - 1
           /\ \A i \in 1 .. Len(Tail(batch)) :
                /\ i + 1 \in 1 .. Len(batch)
                /\ Tail(batch)[i] = batch[i+1]
BY HeadTailProperties

\* What a poll selects: distinct pending rows, at least one.
LEMMA SelectedBatch ==
    ASSUME TypeOK, CreatedOnce, NEW n \in 1 .. BatchSize,
           NEW rows \in [1 .. n -> Visible], IsBatch(rows)
    PROVE  /\ rows \in Seq(Events)
           /\ rows # <<>>
           /\ \A i, j \in 1 .. Len(rows) : rows[i] = rows[j] => i = j
           /\ \A i \in 1 .. Len(rows) : status[rows[i]] = "pending"
<1>0. BatchSize \in Nat /\ n \in Nat
  BY OutboxAssumption
<1>1. rows \in [1 .. n -> Events]
  BY DEF Visible
<1>2. rows \in Seq(Events)
  BY <1>0, <1>1, SeqDef
<1>3. Len(rows) = n /\ rows # <<>>
  <2>1. DOMAIN rows = 1 .. n /\ DOMAIN rows = 1 .. Len(rows) /\ Len(rows) \in Nat
    BY <1>1, <1>2, LenProperties
  <2> QED
    BY <1>0, <2>1, EmptySeq
<1>4. ASSUME NEW i \in 1 .. Len(rows), NEW j \in 1 .. Len(rows), i < j
      PROVE  rows[i] # rows[j]
  BY <1>4 DEF IsBatch, Before, CreatedOnce, TypeOK
<1>5. \A i, j \in 1 .. Len(rows) : rows[i] = rows[j] => i = j
  BY <1>0, <1>3, <1>4
<1> QED
  BY <1>2, <1>3, <1>5 DEF Visible

-----------------------------------------------------------------------------

\* The invariant behind the theorems: besides what they state, the batch holds
\* distinct pending rows, so that no row is published after it was marked.
LEMMA OutboxInvariant == Spec => []OutboxInv
<1>1. Init => OutboxInv
  BY OutboxAssumption DEF Init, OutboxInv, TypeOK, RowStatus, Places, CreatedOnce,
        BatchIsPending, SentIsInTopic, TopicIsCommitted, PublishedIsInTopic
<1>2. OutboxInv /\ [Next]_vars => OutboxInv'
  <2> SUFFICES ASSUME OutboxInv, [Next]_vars
               PROVE  OutboxInv'
    OBVIOUS
  <2> USE DEF OutboxInv
  <2>1. ASSUME NEW e \in Events, add_outbox_event(e)
        PROVE  OutboxInv'
    <3>1. /\ status[e] = "absent"
          /\ status' = [status EXCEPT ![e] = "inserted"]
          /\ created' = Append(created, e)
          /\ UNCHANGED <<outrun, failed, batch, pc, topic, faults>>
      BY <2>1 DEF add_outbox_event
    <3>2. TypeOK'
      BY <3>1 DEF TypeOK, RowStatus
    <3>3. CreatedOnce'
      <4>1. /\ Len(created') = Len(created) + 1
            /\ created'[Len(created) + 1] = e
            /\ \A i \in 1 .. Len(created) : created'[i] = created[i]
            /\ Len(created) \in Nat
        BY <3>1, AppendProperties, LenProperties DEF TypeOK
      <4>2. \A i \in 1 .. Len(created) : created[i] # e /\ created[i] \in Events
        BY <3>1, ElementOfSeq DEF TypeOK, CreatedOnce
      <4>3. status'[e] = "inserted"
        BY <3>1 DEF TypeOK
      <4>4. \A f \in Events : f # e => status'[f] = status[f]
        BY <3>1 DEF TypeOK
      <4>5. \A i \in 1 .. Len(created') : i \in 1 .. Len(created) \/ i = Len(created) + 1
        BY <4>1
      <4>6. \A i \in 1 .. Len(created') : status'[created'[i]] # "absent"
        BY <4>1, <4>2, <4>3, <4>4, <4>5 DEF CreatedOnce
      <4>7. \A i, j \in 1 .. Len(created') : created'[i] = created'[j] => i = j
        BY <4>1, <4>2, <4>5 DEF CreatedOnce
      <4> QED
        BY <4>6, <4>7 DEF CreatedOnce
    <3>4. BatchIsPending' /\ SentIsInTopic' /\ TopicIsCommitted' /\ PublishedIsInTopic'
      BY <3>1 DEF TypeOK, BatchIsPending, SentIsInTopic, TopicIsCommitted,
                  PublishedIsInTopic, InTopic
    <3> QED
      BY <3>2, <3>3, <3>4
  <2>2. ASSUME NEW e \in Events, NEW s \in {"pending", "rolled_back"},
               status[e] = "inserted",
               status' = [status EXCEPT ![e] = s],
               outrun' \in SUBSET Events,
               UNCHANGED <<created, failed, batch, pc, topic, faults>>
        PROVE  OutboxInv'
    <3>1. TypeOK'
      BY <2>2 DEF TypeOK, RowStatus
    <3>2. CreatedOnce' /\ BatchIsPending' /\ SentIsInTopic' /\ TopicIsCommitted'
      BY <2>2 DEF TypeOK, CreatedOnce, BatchIsPending, SentIsInTopic,
                  TopicIsCommitted, InTopic
    <3>3. PublishedIsInTopic'
      BY <2>2 DEF TypeOK, PublishedIsInTopic, InTopic
    <3> QED
      BY <3>1, <3>2, <3>3
  <2>3. ASSUME select_batch
        PROVE  OutboxInv'
    <3>0. PICK n \in 1 .. BatchSize :
             \E rows \in [1 .. n -> Visible] : IsBatch(rows) /\ batch' = rows
      BY <2>3 DEF select_batch
    <3>1. PICK rows \in [1 .. n -> Visible] : IsBatch(rows) /\ batch' = rows
      BY <3>0
    <3>2. pc' = "publish" /\ UNCHANGED <<status, created, outrun, failed, topic, faults>>
      BY <2>3 DEF select_batch
    <3>3. /\ rows \in Seq(Events) /\ rows # <<>>
          /\ \A i, j \in 1 .. Len(rows) : rows[i] = rows[j] => i = j
          /\ \A i \in 1 .. Len(rows) : status[rows[i]] = "pending"
      BY <3>1, SelectedBatch
    <3>4. TypeOK' /\ BatchIsPending'
      BY <3>1, <3>2, <3>3 DEF TypeOK, Places, BatchIsPending
    <3>5. CreatedOnce' /\ SentIsInTopic' /\ TopicIsCommitted' /\ PublishedIsInTopic'
      BY <3>2 DEF CreatedOnce, SentIsInTopic, TopicIsCommitted, PublishedIsInTopic, InTopic
    <3> QED
      BY <3>4, <3>5
  <2>4. ASSUME pc = "publish", pc' \in {"sent", "refused"},
               topic' \in {topic, Append(topic, Head(batch))},
               pc' = "sent" => topic' = Append(topic, Head(batch)),
               faults' \in 0 .. MaxFaults,
               UNCHANGED <<status, created, outrun, failed, batch>>
        PROVE  OutboxInv'
    <3>0. batch # <<>> /\ batch \in Seq(Events) /\ topic \in Seq(Events)
      BY <2>4 DEF TypeOK
    <3>1. Head(batch) \in Events /\ status[Head(batch)] = "pending"
      BY <3>0, TailOfBatch DEF BatchIsPending
    <3>2. TypeOK'
      <4>1. Append(topic, Head(batch)) \in Seq(Events)
        BY <3>0, <3>1, AppendProperties
      <4>2. topic' \in Seq(Events)
        BY <2>4, <3>0, <4>1
      <4> QED
        BY <2>4, <3>0, <4>2 DEF TypeOK, Places
    <3>3. CreatedOnce' /\ BatchIsPending'
      BY <2>4 DEF CreatedOnce, BatchIsPending
    <3>4. CASE topic' = topic
      BY <2>4, <3>2, <3>3, <3>4 DEF SentIsInTopic, TopicIsCommitted,
                                    PublishedIsInTopic, InTopic
    <3>5. CASE topic' = Append(topic, Head(batch))
      <4>1. SentIsInTopic' /\ PublishedIsInTopic'
        BY <2>4, <3>0, <3>1, <3>5, AppendedIsInTopic DEF SentIsInTopic, PublishedIsInTopic
      <4>2. TopicIsCommitted'
        BY <2>4, <3>0, <3>1, <3>5, AppendedIsInTopic DEF TopicIsCommitted
      <4> QED
        BY <3>2, <3>3, <4>1, <4>2
    <3> QED
      BY <2>4, <3>4, <3>5
  <2>5. ASSUME commit_event
        PROVE  OutboxInv'
    <3> DEFINE e == Head(batch)
    <3>1. /\ pc \in {"sent", "refused"}
          /\ status' = IF pc = "sent"
                       THEN [status EXCEPT ![e] = "published"] ELSE status
          /\ failed' = IF pc = "refused" THEN failed \cup {e} ELSE failed
          /\ batch' = Tail(batch)
          /\ pc' = IF Tail(batch) = <<>> THEN "sleep" ELSE "publish"
          /\ UNCHANGED <<created, outrun, topic, faults>>
      BY <2>5 DEF commit_event, NextRow
    <3>2. batch # <<>> /\ batch \in Seq(Events)
      BY <3>1 DEF TypeOK
    <3>3. /\ e \in Events /\ e = batch[1] /\ 1 \in 1 .. Len(batch)
          /\ Tail(batch) \in Seq(Events)
          /\ Len(Tail(batch)) = Len(batch) - 1
          /\ \A i \in 1 .. Len(Tail(batch)) :
               /\ i + 1 \in 1 .. Len(batch)
               /\ Tail(batch)[i] = batch[i+1]
      BY <3>2, TailOfBatch
    <3> HIDE DEF e
    <3>4. status[e] = "pending"
      BY <3>3 DEF BatchIsPending
    <3>5. \A f \in Events : f # e => status'[f] = status[f]
      BY <3>1 DEF TypeOK
    <3>6. TypeOK'
      BY <3>1, <3>3 DEF TypeOK, RowStatus, Places
    <3>7. \A f \in Events :
            /\ status[f] # "absent" => status'[f] # "absent"
            /\ status[f] \in {"pending", "published"}
                 => status'[f] \in {"pending", "published"}
            /\ status'[f] = "published" => status[f] = "published" \/ (pc = "sent" /\ f = e)
      BY <3>1, <3>3 DEF TypeOK
    <3>8. CreatedOnce'
      BY <3>1, <3>7, ElementOfSeq DEF TypeOK, CreatedOnce
    <3>9. BatchIsPending'
      <4>1. Len(batch) \in Nat
        BY <3>2, LenProperties
      <4>2. \A i \in 1 .. Len(batch') : batch'[i] = batch[i+1] /\ i + 1 \in 1 .. Len(batch)
        BY <3>1, <3>3
      <4>3. \A i \in 1 .. Len(batch') : batch'[i] # e /\ batch'[i] \in Events
        BY <3>2, <3>3, <4>1, <4>2, ElementOfSeq DEF BatchIsPending
      <4>4. \A i \in 1 .. Len(batch') : status'[batch'[i]] = "pending"
        <5> SUFFICES ASSUME NEW i \in 1 .. Len(batch')
                     PROVE  status'[batch'[i]] = "pending"
          OBVIOUS
        <5>1. status[batch[i+1]] = "pending"
          BY <4>2 DEF BatchIsPending
        <5> QED
          BY <3>5, <4>2, <4>3, <5>1
      <4>5. \A i, j \in 1 .. Len(batch') : batch'[i] = batch'[j] => i = j
        BY <3>1, <3>3, <4>1, <4>2 DEF BatchIsPending
      <4> QED
        BY <4>4, <4>5 DEF BatchIsPending
    <3>10. SentIsInTopic'
      BY <3>1 DEF SentIsInTopic
    <3>11. TopicIsCommitted'
      BY <3>1, <3>7, ElementOfSeq DEF TypeOK, TopicIsCommitted
    <3>12. PublishedIsInTopic'
      BY <3>1, <3>7 DEF PublishedIsInTopic, SentIsInTopic, InTopic, e
    <3> QED
      BY <3>6, <3>8, <3>9, <3>10, <3>11, <3>12
  <2>6. ASSUME abandon_batch
        PROVE  OutboxInv'
    BY <2>6, OutboxAssumption DEF abandon_batch, TypeOK, Places, CreatedOnce, BatchIsPending,
          SentIsInTopic, TopicIsCommitted, PublishedIsInTopic, InTopic
  <2>7. CASE UNCHANGED vars
    BY <2>7 DEF vars, TypeOK, CreatedOnce, BatchIsPending, SentIsInTopic,
          TopicIsCommitted, PublishedIsInTopic, InTopic
  <2>8. ASSUME NEW e \in Events, commit_request(e) \/ rollback_request(e)
        PROVE  OutboxInv'
    BY <2>2, <2>8 DEF commit_request, rollback_request, Outrun, TypeOK
  <2>9. ASSUME publish \/ publish_poison \/ publish_raises
        PROVE  OutboxInv'
    <3>1. faults \in 0 .. MaxFaults /\ MaxFaults \in Nat
      BY OutboxAssumption DEF TypeOK
    <3> QED
      BY <2>4, <2>9, <3>1 DEF publish, publish_poison, publish_raises
  <2> QED
    BY <2>1, <2>3, <2>5, <2>6, <2>7, <2>8, <2>9 DEF Next, Publisher
<1> QED
  BY <1>1, <1>2, PTL DEF Spec

\* Every variable of the outbox stays within its type.
THEOREM OutboxTypeCorrect == Spec => []TypeOK
<1>1. OutboxInv => TypeOK
  BY DEF OutboxInv
<1> QED
  BY <1>1, OutboxInvariant, PTL

\* No row is marked published whose message the broker has not stored.
THEOREM NothingIsDropped == Spec => []PublishedIsInTopic
<1>1. OutboxInv => PublishedIsInTopic
  BY DEF OutboxInv
<1> QED
  BY <1>1, OutboxInvariant, PTL

-----------------------------------------------------------------------------
(* The topic as an implementation of EventRelay.                           *)

Accepted == {e \in Events : status[e] \in {"pending", "published"}}

\* The topic only ever receives events of committed transactions, and a
\* committed event stays committed: every step of the outbox is a step of the
\* relay or leaves it alone.
THEOREM OutboxImplementsRelay == Spec => ImplementsRelay
<1>1. Init => Relay!RelayInit
  BY DEF Init, Relay!RelayInit
<1>2. OutboxInv /\ [Next]_vars => [Relay!RelayNext]_<<Accepted, topic>>
  <2> SUFFICES ASSUME OutboxInv, [Next]_vars
               PROVE  Relay!RelayNext \/ UNCHANGED <<Accepted, topic>>
    OBVIOUS
  <2>0. TypeOK /\ BatchIsPending
    BY DEF OutboxInv
  <2>1. ASSUME NEW e \in Events, add_outbox_event(e) \/ rollback_request(e)
        PROVE  UNCHANGED <<Accepted, topic>>
    <3>1. \A f \in Events : status'[f] \in {"pending", "published"}
                              <=> status[f] \in {"pending", "published"}
      BY <2>0, <2>1 DEF add_outbox_event, rollback_request, TypeOK
    <3> QED
      BY <2>1, <3>1 DEF add_outbox_event, rollback_request, Accepted
  <2>2. ASSUME NEW e \in Events, commit_request(e)
        PROVE  Relay!RelayNext
    <3>1. \A f \in Events : status'[f] \in {"pending", "published"}
                              <=> status[f] \in {"pending", "published"} \/ f = e
      BY <2>0, <2>2 DEF commit_request, TypeOK
    <3>2. e \notin Accepted /\ Accepted' = Accepted \cup {e} /\ topic' = topic
      BY <2>2, <3>1 DEF commit_request, Accepted
    <3> QED
      BY <3>2 DEF Relay!RelayNext, Relay!Accept, Accepted
  <2>3. ASSUME publish \/ publish_raises
        PROVE  Relay!RelayNext \/ UNCHANGED <<Accepted, topic>>
    <3>1. batch # <<>> /\ batch \in Seq(Events)
      BY <2>0, <2>3 DEF publish, publish_raises, TypeOK
    <3>2. Head(batch) \in Events /\ status[Head(batch)] = "pending"
      BY <2>0, <3>1, TailOfBatch DEF BatchIsPending
    <3>3. Accepted' = Accepted
      BY <2>3 DEF publish, publish_raises, Accepted
    <3>4. topic' = topic \/ topic' = Append(topic, Head(batch))
      BY <2>3 DEF publish, publish_raises
    <3> QED
      BY <3>2, <3>3, <3>4 DEF Relay!RelayNext, Relay!Deliver, Accepted
  <2>4. ASSUME commit_event
        PROVE  UNCHANGED <<Accepted, topic>>
    <3>1. batch # <<>> /\ batch \in Seq(Events)
      BY <2>0, <2>4 DEF commit_event, TypeOK
    <3>2. Head(batch) \in Events /\ status[Head(batch)] = "pending"
      BY <2>0, <3>1, TailOfBatch DEF BatchIsPending
    <3>3. \A f \in Events : status'[f] \in {"pending", "published"}
                              <=> status[f] \in {"pending", "published"}
      BY <2>0, <2>4, <3>2 DEF commit_event, TypeOK
    <3> QED
      BY <2>4, <3>3 DEF commit_event, Accepted
  <2>5. ASSUME select_batch \/ publish_poison \/ abandon_batch \/ UNCHANGED vars
        PROVE  UNCHANGED <<Accepted, topic>>
    BY <2>5 DEF select_batch, publish_poison, abandon_batch, vars, Accepted
  <2> QED
    BY <2>1, <2>2, <2>3, <2>4, <2>5 DEF Next, Publisher
<1> QED
  BY <1>1, <1>2, OutboxInvariant, PTL
  DEF Spec, ImplementsRelay, Relay!RelaySpec, Accepted

-----------------------------------------------------------------------------
(* Counting the messages of the topic.                                     *)

\* The events with a message in the topic, and those of them still pending.
Stored == {topic[i] : i \in 1 .. Len(topic)}
Unsettled == {e \in Stored : status[e] = "pending"}

\* A message beyond the first of its event was paid for by a failure, and for
\* each pending event that has one a failure more has happened: the next
\* publish of it may be the duplicate.  The failure of the message being
\* settled is still to come.
DuplicatesCounted ==
    Len(topic) + Cardinality(Unsettled)
       <= Cardinality(Stored) + faults + (IF pc = "sent" THEN 1 ELSE 0)

\* The counts are numbers.
LEMMA StoredIsFinite ==
    ASSUME TypeOK
    PROVE  /\ Stored \subseteq Events
           /\ IsFiniteSet(Stored) /\ Cardinality(Stored) \in Nat
           /\ IsFiniteSet(Unsettled) /\ Cardinality(Unsettled) \in Nat
           /\ Len(topic) \in Nat /\ faults \in Nat
<1>1. topic \in Seq(Events) /\ Len(topic) \in Nat
  BY LenProperties DEF TypeOK
<1>2. Stored \subseteq Events
  BY <1>1, ElementOfSeq DEF Stored
<1>3. IsFiniteSet(Stored)
  BY <1>2, OutboxAssumption, FS_Subset
<1>4. Unsettled \subseteq Stored
  BY DEF Unsettled
<1>5. IsFiniteSet(Unsettled)
  BY <1>3, <1>4, FS_Subset
<1>6. faults \in Nat
  BY OutboxAssumption DEF TypeOK
<1> QED
  BY <1>1, <1>2, <1>3, <1>5, <1>6, FS_CardinalityType

\* Storing one more message of a pending event.
LEMMA StoreOneMore ==
    ASSUME TypeOK, NEW e \in Events, status[e] = "pending",
           topic' = Append(topic, e), status' = status
    PROVE  /\ Len(topic') = Len(topic) + 1
           /\ Cardinality(Stored') \in Nat /\ Cardinality(Unsettled') \in Nat
           /\ Cardinality(Stored') - Cardinality(Stored)
                 = Cardinality(Unsettled') - Cardinality(Unsettled)
<1>1. topic \in Seq(Events)
  BY DEF TypeOK
<1>2. /\ Len(topic) \in Nat
      /\ Len(topic') = Len(topic) + 1
      /\ topic'[Len(topic) + 1] = e
      /\ \A i \in 1 .. Len(topic) : topic'[i] = topic[i]
  BY <1>1, LenProperties, AppendProperties
<1>3. Stored' = Stored \cup {e}
  <2>1. \A i \in 1 .. Len(topic') : i \in 1 .. Len(topic) \/ i = Len(topic) + 1
    BY <1>2
  <2>2. /\ 1 .. Len(topic) \subseteq 1 .. Len(topic')
        /\ Len(topic) + 1 \in 1 .. Len(topic')
    BY <1>2
  <2> QED
    BY <1>2, <2>1, <2>2 DEF Stored
<1>4. Unsettled' = Unsettled \cup {e}
  BY <1>3 DEF Unsettled
<1>5. e \in Stored <=> e \in Unsettled
  BY DEF Unsettled
<1>6. /\ Cardinality(Stored') = IF e \in Stored THEN Cardinality(Stored)
                                                 ELSE Cardinality(Stored) + 1
      /\ Cardinality(Unsettled') = IF e \in Unsettled THEN Cardinality(Unsettled)
                                                       ELSE Cardinality(Unsettled) + 1
  BY <1>3, <1>4, StoredIsFinite, FS_AddElement
<1> QED
  BY <1>2, <1>5, <1>6, StoredIsFinite

\* Every message in the topic beyond the first of its event is paid for by a
\* failure.
THEOREM DuplicatesArePaidFor == Spec => []DuplicatesNeedFaults
<1>1. Init => DuplicatesCounted
  <2> SUFFICES ASSUME Init
               PROVE  DuplicatesCounted
    OBVIOUS
  <2>1. Len(topic) = 0 /\ Stored = {} /\ Unsettled = {}
    BY DEF Init, Stored, Unsettled
  <2> QED
    BY <2>1, FS_EmptySet DEF Init, DuplicatesCounted
<1>2. OutboxInv /\ DuplicatesCounted /\ [Next]_vars => DuplicatesCounted'
  <2> SUFFICES ASSUME OutboxInv, DuplicatesCounted, [Next]_vars
               PROVE  DuplicatesCounted'
    OBVIOUS
  <2>0. TypeOK /\ BatchIsPending /\ SentIsInTopic /\ TopicIsCommitted
    BY DEF OutboxInv
  <2>1. ASSUME topic' = topic, \A e \in Stored : status'[e] = status[e],
               faults' + (IF pc' = "sent" THEN 1 ELSE 0)
                  >= faults + (IF pc = "sent" THEN 1 ELSE 0),
               faults' \in Nat
        PROVE  DuplicatesCounted'
    <3>1. Stored' = Stored /\ Unsettled' = Unsettled
      BY <2>1 DEF Stored, Unsettled
    <3> QED
      BY <2>0, <2>1, <3>1, StoredIsFinite DEF DuplicatesCounted
  <2>2. \A e \in Stored : status[e] \in {"pending", "published"}
    BY <2>0 DEF Stored, TopicIsCommitted
  <2>3. faults \in Nat /\ MaxFaults \in Nat /\ Stored \subseteq Events
    BY <2>0, StoredIsFinite, OutboxAssumption
  <2>4. ASSUME NEW e \in Events,
               add_outbox_event(e) \/ commit_request(e) \/ rollback_request(e)
        PROVE  DuplicatesCounted'
    <3>1. e \notin Stored
      BY <2>2, <2>4 DEF add_outbox_event, commit_request, rollback_request
    <3>2. \A f \in Stored : status'[f] = status[f]
      BY <2>0, <2>3, <2>4, <3>1
      DEF add_outbox_event, commit_request, rollback_request, TypeOK
    <3>3. UNCHANGED <<topic, faults, pc>>
      BY <2>4 DEF add_outbox_event, commit_request, rollback_request
    <3> QED
      BY <2>1, <2>3, <3>2, <3>3
  <2>5. ASSUME select_batch \/ publish_poison \/ abandon_batch \/ UNCHANGED vars
        PROVE  DuplicatesCounted'
    <3>1. topic' = topic /\ status' = status
      BY <2>5 DEF select_batch, publish_poison, abandon_batch, vars
    <3>2. /\ faults' \in Nat
          /\ faults' + (IF pc' = "sent" THEN 1 ELSE 0)
                >= faults + (IF pc = "sent" THEN 1 ELSE 0)
      BY <2>3, <2>5 DEF select_batch, publish_poison, abandon_batch, vars
    <3> QED
      BY <2>1, <3>1, <3>2
  <2>6. ASSUME publish \/ publish_raises
        PROVE  DuplicatesCounted'
    <3>1. batch # <<>> /\ batch \in Seq(Events)
      BY <2>0, <2>6 DEF publish, publish_raises, TypeOK
    <3>2. Head(batch) \in Events /\ status[Head(batch)] = "pending"
      BY <2>0, <3>1, TailOfBatch DEF BatchIsPending
    <3>3. /\ status' = status /\ faults' \in Nat /\ pc # "sent"
          /\ faults' + (IF pc' = "sent" THEN 1 ELSE 0) = faults + 1
          /\ topic' = topic \/ topic' = Append(topic, Head(batch))
      BY <2>3, <2>6 DEF publish, publish_raises
    <3>4. CASE topic' = topic
      <4>1. faults' + (IF pc' = "sent" THEN 1 ELSE 0)
               >= faults + (IF pc = "sent" THEN 1 ELSE 0)
        <5>1. (IF pc = "sent" THEN 1 ELSE 0) = 0
          BY <3>3
        <5>2. faults \in Nat /\ faults + 1 >= faults + 0
          BY <2>3
        <5> QED
          BY <3>3, <5>1, <5>2
      <4>2. \A e \in Stored : status'[e] = status[e]
        BY <3>3
      <4> QED
        BY <2>1, <3>3, <3>4, <4>1, <4>2
    <3>5. CASE topic' = Append(topic, Head(batch))
      <4>1. /\ Len(topic') = Len(topic) + 1
            /\ Cardinality(Stored') \in Nat /\ Cardinality(Unsettled') \in Nat
            /\ Cardinality(Stored') - Cardinality(Stored)
                  = Cardinality(Unsettled') - Cardinality(Unsettled)
        BY <2>0, <3>2, <3>3, <3>5, StoreOneMore
      <4>2. /\ Len(topic) \in Nat
            /\ Cardinality(Stored) \in Nat /\ Cardinality(Unsettled) \in Nat
        BY <2>0, StoredIsFinite, LenProperties DEF TypeOK
      <4>3. (IF pc = "sent" THEN 1 ELSE 0) = 0
        BY <3>3
      <4>4. Len(topic) + Cardinality(Unsettled) <= Cardinality(Stored) + faults
        BY <2>3, <4>2, <4>3 DEF DuplicatesCounted
      <4>5. Len(topic') + Cardinality(Unsettled')
              <= Cardinality(Stored') + (faults + 1)
        BY <2>3, <4>1, <4>2, <4>4
      <4>6. (faults + 1) = faults' + (IF pc' = "sent" THEN 1 ELSE 0)
        BY <3>3
      <4>7. (IF pc' = "sent" THEN 1 ELSE 0) \in Nat
        OBVIOUS
      <4> QED
        BY <3>3, <4>1, <4>5, <4>6, <4>7 DEF DuplicatesCounted
    <3> QED
      BY <3>3, <3>4, <3>5
  <2>7. ASSUME commit_event
        PROVE  DuplicatesCounted'
    <3> DEFINE e == Head(batch)
    <3>1. batch # <<>> /\ batch \in Seq(Events)
      BY <2>0, <2>7 DEF commit_event, TypeOK
    <3>2. e \in Events /\ status[e] = "pending"
      BY <2>0, <3>1, TailOfBatch DEF BatchIsPending
    <3>3. topic' = topic /\ faults' = faults /\ pc' # "sent" /\ Stored' = Stored
      BY <2>7 DEF commit_event, NextRow, Stored
    <3>4. CASE pc = "refused"
      BY <2>1, <2>3, <2>7, <3>3, <3>4 DEF commit_event
    <3>5. CASE pc = "sent"
      <4>1. e \in Unsettled
        BY <2>0, <3>2, <3>5 DEF SentIsInTopic, InTopic, Stored, Unsettled
      <4>2. status' = [status EXCEPT ![e] = "published"]
        BY <2>7, <3>5 DEF commit_event
      <4>3. \A f \in Events : status'[f] = "pending" <=> status[f] = "pending" /\ f # e
        BY <2>0, <3>2, <4>2 DEF TypeOK
      <4>4. Unsettled' = Unsettled \ {e}
        BY <2>3, <3>3, <4>3 DEF Unsettled
      <4> HIDE DEF e
      <4>5. Cardinality(Unsettled') = Cardinality(Unsettled) - 1
        BY <2>0, <4>1, <4>4, StoredIsFinite, FS_RemoveElement
      <4> QED
        BY <2>0, <3>3, <3>5, <4>5, StoredIsFinite DEF DuplicatesCounted
    <3> QED
      BY <2>7, <3>4, <3>5 DEF commit_event
  <2> QED
    BY <2>4, <2>5, <2>6, <2>7 DEF Next, Publisher
<1>3. OutboxInv /\ DuplicatesCounted => DuplicatesNeedFaults
  <2> SUFFICES ASSUME OutboxInv, DuplicatesCounted
               PROVE  DuplicatesNeedFaults
    OBVIOUS
  <2>0. TypeOK /\ BatchIsPending /\ SentIsInTopic
    BY DEF OutboxInv
  <2>1. CASE pc # "sent"
    BY <2>0, <2>1, StoredIsFinite DEF DuplicatesCounted, DuplicatesNeedFaults, Stored
  <2>2. CASE pc = "sent"
    <3>1. batch # <<>> /\ batch \in Seq(Events)
      BY <2>0, <2>2 DEF TypeOK
    <3>2. Head(batch) \in Unsettled
      BY <2>0, <2>2, <3>1, TailOfBatch
      DEF BatchIsPending, SentIsInTopic, InTopic, Stored, Unsettled
    <3>3. Cardinality(Unsettled) # 0
      BY <2>0, <3>2, StoredIsFinite, FS_EmptySet
    <3> QED
      BY <2>0, <2>2, <3>3, StoredIsFinite
      DEF DuplicatesCounted, DuplicatesNeedFaults, Stored
  <2> QED
    BY <2>1, <2>2
<1> QED
  BY <1>1, <1>2, <1>3, OutboxInvariant, PTL DEF Spec

-----------------------------------------------------------------------------
(* The order of an aggregate's messages.                                   *)

\* e comes before f and will be published.
Precedes(e, f) ==
    /\ AggregateOf[e] = AggregateOf[f]
    /\ Before(e, f, created)
    /\ status[e] # "rolled_back"

\* Nothing is left to do for e before f may be published.
Settled(e, f) ==
    \/ e \in failed
    \/ e \in outrun
    \/ \E i \in 1 .. Len(topic) : topic[i] = e /\ \A j \in 1 .. i : topic[j] # f

\* While a row of a locked aggregate is inserted, its transaction keeps the
\* aggregate to itself.
LockHolds ==
    /\ \A e \in outrun : AggregateOf[e] \notin Locked
    /\ \A e, f \in Events :
          Precedes(e, f) /\ AggregateOf[e] \in Locked => status[e] # "inserted"

\* What is older than a visible row is decided, or has been outrun.
OlderIsDecided ==
    \A e, f \in Events :
        Precedes(e, f) /\ status[f] \in {"pending", "published"} =>
            status[e] \in {"pending", "published"} \/ e \in outrun

TopicInOrder == \A e, f \in Events : Precedes(e, f) /\ InTopic(f) => Settled(e, f)

\* What must come before a row of the batch is settled or ahead in the batch.
BatchInOrder ==
    \A e \in Events : \A i \in 1 .. Len(batch) :
        Precedes(e, batch[i]) =>
            Settled(e, batch[i]) \/ \E j \in 1 .. Len(batch) : j < i /\ batch[j] = e

OrderInv == LockHolds /\ OlderIsDecided /\ TopicInOrder /\ BatchInOrder

\* A message once in the topic settles what is not there.
LEMMA InTopicSettles ==
    ASSUME TopicInOrder, NEW e \in Events, NEW f \in Events, Precedes(e, f), InTopic(e)
    PROVE  Settled(e, f)
<1>1. CASE InTopic(f)
  BY <1>1 DEF TopicInOrder
<1>2. CASE ~InTopic(f)
  <2>1. PICK i \in 1 .. Len(topic) : topic[i] = e
    BY DEF InTopic
  <2>2. \A j \in 1 .. i : topic[j] # f
    BY <1>2 DEF InTopic
  <2> QED
    BY <2>1, <2>2 DEF Settled
<1> QED
  BY <1>1, <1>2

\* What is settled stays so.
LEMMA SettledOn ==
    ASSUME TypeOK, NEW e \in Events, NEW f \in Events, Settled(e, f),
           failed \subseteq failed', outrun \subseteq outrun',
           topic' = topic \/ \E g \in Events : topic' = Append(topic, g)
    PROVE  Settled(e, f)'
<1>1. /\ Len(topic) \in Nat /\ Len(topic') \in Nat /\ Len(topic) <= Len(topic')
      /\ \A i \in 1 .. Len(topic) : topic'[i] = topic[i]
  BY AppendProperties, LenProperties DEF TypeOK
<1> QED
  BY <1>1 DEF Settled

\* created is an order: nobody is before itself or before and after another.
LEMMA BeforeIsOrder ==
    ASSUME TypeOK, CreatedOnce, NEW e, NEW f
    PROVE  /\ ~Before(e, e, created)
           /\ Before(e, f, created) => ~Before(f, e, created)
           /\ \A g : Before(e, f, created) /\ Before(f, g, created) => Before(e, g, created)
<1>1. Len(created) \in Nat
  BY LenProperties DEF TypeOK
<1> QED
  BY <1>1 DEF Before, CreatedOnce

LEMMA SelectInOrder ==
    ASSUME OutboxInv, OrderInv, select_batch
    PROVE  BatchInOrder'
<1> USE DEF OutboxInv
<1>1. PICK n \in 1 .. BatchSize : \E rows \in [1 .. n -> Visible] :
              IsBatch(rows) /\ batch' = rows
  BY DEF select_batch
<1>2. PICK rows \in [1 .. n -> Visible] : IsBatch(rows) /\ batch' = rows
  BY <1>1
<1>3. /\ rows \in Seq(Events) /\ Len(rows) \in Nat
      /\ \A i, j \in 1 .. Len(rows) : rows[i] = rows[j] => i = j
  BY <1>2, SelectedBatch, LenProperties
<1>4. UNCHANGED <<status, created, outrun, failed, topic>>
  BY DEF select_batch
<1>5. \A e, f : (Precedes(e, f)' <=> Precedes(e, f)) /\ (Settled(e, f)' <=> Settled(e, f))
  BY <1>4 DEF Precedes, Settled
<1> SUFFICES ASSUME NEW e \in Events, NEW i \in 1 .. Len(rows), Precedes(e, rows[i])
             PROVE  Settled(e, rows[i]) \/ \E j \in 1 .. Len(rows) : j < i /\ rows[j] = e
  <2>1. \A e \in Events : \A i \in 1 .. Len(rows) : \A f : f = rows[i] /\ Precedes(e, f)' =>
           Settled(e, f)' \/ \E j \in 1 .. Len(rows) : j < i /\ rows[j] = e
    BY <1>5
  <2> QED
    BY <1>2, <2>1 DEF BatchInOrder
<1>6. rows[i] \in Events /\ Before(e, rows[i], created)
  BY <1>3, ElementOfSeq DEF Precedes
<1>7. CASE status[e] = "published"
  BY <1>6, <1>7, InTopicSettles DEF PublishedIsInTopic, OrderInv
<1>8. CASE status[e] = "pending"
  <2>1. CASE \E k \in 1 .. Len(rows) : rows[k] = e
    <3>1. PICK k \in 1 .. Len(rows) : rows[k] = e
      BY <2>1
    <3>2. ~(i < k) /\ k # i
      BY <1>2, <1>6, <3>1, BeforeIsOrder DEF IsBatch
    <3> QED
      BY <1>3, <3>1, <3>2
  <2>2. CASE Before(rows[Len(rows)], e, created)
    <3>1. Len(rows) \in 1 .. Len(rows) /\ (i = Len(rows) \/ i < Len(rows))
      BY <1>3
    <3>2. rows[i] = rows[Len(rows)] \/ Before(rows[i], rows[Len(rows)], created)
      BY <1>2, <3>1 DEF IsBatch
    <3>3. Before(rows[i], e, created)
      BY <2>2, <3>2, BeforeIsOrder
    <3> QED
      BY <1>6, <3>3, BeforeIsOrder
  <2> QED
    BY <1>2, <1>8, <2>1, <2>2 DEF IsBatch, Visible
<1>9. status[rows[i]] = "pending"
  BY <1>2, SelectedBatch
<1>10. status[e] \in {"pending", "published"} \/ e \in outrun
  BY <1>6, <1>9 DEF OrderInv, OlderIsDecided
<1> QED
  BY <1>7, <1>8, <1>10 DEF Settled

\* Steps that leave created as it is, and decide no row but from inserted.
LEMMA OrderInvOn ==
    ASSUME OutboxInv, OrderInv, UNCHANGED created, failed \subseteq failed',
           outrun \subseteq outrun',
           \A e \in outrun' : e \in outrun \/ AggregateOf[e] \notin Locked,
           topic' = topic \/ (batch # <<>> /\ topic' = Append(topic, Head(batch))),
           \A e \in Events : \/ status'[e] = status[e]
                             \/ status'[e] = "rolled_back" /\ status[e] = "inserted"
                             \/ status'[e] = "pending" /\ status[e] = "inserted"
                                   /\ Outrun(e) \subseteq outrun'
                             \/ status'[e] = "published" /\ status[e] = "pending"
    PROVE  /\ LockHolds' /\ OlderIsDecided' /\ TopicInOrder'
           /\ UNCHANGED batch => BatchInOrder'
           /\ \A e \in Events : \A f \in Events : Precedes(e, f)' => Precedes(e, f)
<1> USE DEF OutboxInv
<1>1. \A e \in Events : status'[e] # "rolled_back" => status[e] # "rolled_back"
  OBVIOUS
<1>2. \A e \in Events : \A f \in Events : Precedes(e, f)' => Precedes(e, f)
  BY <1>1 DEF Precedes, Before
<1>3. LockHolds'
  BY <1>2 DEF LockHolds, OrderInv
<1>8. OlderIsDecided'
  <2> SUFFICES ASSUME NEW e \in Events, NEW f \in Events, Precedes(e, f)',
                      status'[f] \in {"pending", "published"}
               PROVE  status'[e] \in {"pending", "published"} \/ e \in outrun'
    BY DEF OlderIsDecided
  <2>1. Precedes(e, f) /\ status'[e] # "rolled_back"
    BY <1>2 DEF Precedes
  <2>2. CASE status[f] \in {"pending", "published"}
    BY <2>1, <2>2 DEF OrderInv, OlderIsDecided
  <2>3. CASE status[f] \notin {"pending", "published"}
    <3>1. Outrun(f) \subseteq outrun'
      BY <2>3
    <3>2. status[e] \in RowStatus /\ status[e] # "absent" /\ status[e] # "rolled_back"
      BY <2>1 DEF TypeOK, CreatedOnce, Precedes, Before
    <3>3. status[e] = "inserted" => e \in Outrun(f)
      BY <2>1 DEF Outrun, Precedes
    <3> QED
      BY <3>1, <3>2, <3>3 DEF RowStatus
  <2> QED
    BY <2>2, <2>3
<1>4. topic' = topic \/ \E g \in Events : topic' = Append(topic, g)
  BY TailOfBatch DEF TypeOK
<1>5. \A e, f \in Events : Settled(e, f) => Settled(e, f)'
  BY <1>4, SettledOn
<1>6. TopicInOrder'
  <2> SUFFICES ASSUME NEW e \in Events, NEW f \in Events, Precedes(e, f)', InTopic(f)'
               PROVE  Settled(e, f)'
    BY DEF TopicInOrder
  <2>1. Precedes(e, f)
    BY <1>2
  <2>2. CASE InTopic(f)
    BY <1>5, <2>1, <2>2 DEF OrderInv, TopicInOrder
  <2>3. CASE ~InTopic(f)
    <3>1. batch # <<>> /\ topic' = Append(topic, Head(batch)) /\ Head(batch) \in Events
      BY <2>3, TailOfBatch DEF InTopic, TypeOK
    <3>2. f = Head(batch)
      BY <2>3, <3>1, AppendedIsInTopic DEF InTopic, TypeOK
    <3>3. f = batch[1] /\ 1 \in 1 .. Len(batch)
      BY <3>1, <3>2, TailOfBatch DEF TypeOK
    <3>4. Settled(e, f)
      BY <2>1, <3>3 DEF OrderInv, BatchInOrder
    <3> QED
      BY <1>5, <3>4
  <2> QED
    BY <2>2, <2>3
<1>7. ASSUME UNCHANGED batch
      PROVE  BatchInOrder'
  <2> SUFFICES ASSUME NEW e \in Events, NEW i \in 1 .. Len(batch),
                      NEW f \in Events, f = batch[i], Precedes(e, f)'
               PROVE  Settled(e, f)' \/ \E j \in 1 .. Len(batch) : j < i /\ batch[j] = e
    <3>1. \A i \in 1 .. Len(batch) : batch[i] \in Events
      BY ElementOfSeq DEF TypeOK
    <3>2. \A e \in Events : \A i \in 1 .. Len(batch) : \A f : f = batch[i] /\ Precedes(e, f)' =>
             Settled(e, f)' \/ \E j \in 1 .. Len(batch) : j < i /\ batch[j] = e
      BY <3>1
    <3>3. \A e \in Events : \A i \in 1 .. Len(batch') : \A f : f = batch'[i] /\ Precedes(e, f)' =>
             Settled(e, f)' \/ \E j \in 1 .. Len(batch') : j < i /\ batch'[j] = e
      BY <1>7, <3>2
    <3> QED
      BY <3>3 DEF BatchInOrder
  <2> QED
    BY <1>2, <1>5 DEF OrderInv, BatchInOrder
<1> QED
  BY <1>2, <1>3, <1>6, <1>7, <1>8

\* The outcome of the first row settles it for those behind.
LEMMA CommitInOrder ==
    ASSUME OutboxInv, OrderInv, commit_event
    PROVE  OrderInv'
<1> USE DEF OutboxInv
<1> DEFINE h == Head(batch)
<1>1. /\ pc \in {"sent", "refused"} /\ batch # <<>> /\ batch' = Tail(batch)
      /\ status' = IF pc = "sent" THEN [status EXCEPT ![h] = "published"] ELSE status
      /\ failed' = IF pc = "refused" THEN failed \cup {h} ELSE failed
      /\ UNCHANGED <<created, outrun, topic>>
  BY DEF commit_event, NextRow, TypeOK
<1>2. /\ h \in Events /\ h = batch[1] /\ status[h] = "pending"
      /\ Len(batch') = Len(batch) - 1 /\ Len(batch) \in Nat
      /\ \A i \in 1 .. Len(batch') : /\ i + 1 \in 1 .. Len(batch)
                                     /\ batch'[i] = batch[i + 1]
                                     /\ batch[i + 1] \in Events
  BY <1>1, TailOfBatch, ElementOfSeq, LenProperties DEF TypeOK, BatchIsPending
<1>3. \A e \in Events : \/ status'[e] = status[e]
                        \/ status'[e] = "published" /\ status[e] = "pending"
  BY <1>1, <1>2 DEF TypeOK
<1>4. failed \subseteq failed'
  BY <1>1
<1>5. /\ LockHolds' /\ OlderIsDecided' /\ TopicInOrder'
      /\ \A e \in Events : \A f \in Events : Precedes(e, f)' => Precedes(e, f)
  BY <1>1, <1>3, <1>4, OrderInvOn
<1>6. \A e, f \in Events : Settled(e, f) => Settled(e, f)'
  BY <1>1, <1>4, SettledOn
<1>7. \A e, f \in Events : e = h /\ Precedes(e, f) => Settled(e, f)'
  <2> SUFFICES ASSUME NEW e \in Events, NEW f \in Events, e = h, Precedes(e, f)
               PROVE  Settled(e, f)'
    OBVIOUS
  <2>1. CASE pc = "sent"
    BY <1>6, <2>1, InTopicSettles DEF SentIsInTopic, OrderInv
  <2>2. CASE pc = "refused"
    <3>1. e \in failed'
      BY <1>1, <2>2
    <3> QED
      BY <3>1 DEF Settled
  <2> QED
    BY <1>1, <2>1, <2>2
<1>8. BatchInOrder'
  <2>1. ASSUME NEW e \in Events, NEW i \in 1 .. Len(batch'), NEW f \in Events,
               f = batch'[i], Precedes(e, f)'
        PROVE  Settled(e, f)' \/ \E j \in 1 .. Len(batch') : j < i /\ batch'[j] = e
    <3>1. Precedes(e, f) /\ f = batch[i + 1] /\ i + 1 \in 1 .. Len(batch)
      BY <1>2, <1>5, <2>1
    <3>2. Settled(e, f) \/ \E j \in 1 .. Len(batch) : j < i + 1 /\ batch[j] = e
      BY <3>1 DEF OrderInv, BatchInOrder
    <3>3. CASE Settled(e, f)
      BY <1>6, <3>3
    <3>4. ASSUME NEW j \in 1 .. Len(batch), j < i + 1, batch[j] = e
          PROVE  Settled(e, f)' \/ \E k \in 1 .. Len(batch') : k < i /\ batch'[k] = e
      <4>1. CASE j = 1
        BY <1>2, <1>7, <3>1, <3>4, <4>1
      <4>2. CASE j # 1
        <5>1. /\ j - 1 \in 1 .. Len(batch') /\ j - 1 < i
              /\ batch'[j - 1] = batch[(j - 1) + 1] /\ (j - 1) + 1 = j
          BY <1>2, <3>4, <4>2
        <5> QED
          BY <3>4, <5>1
      <4> QED
        BY <4>1, <4>2
    <3> QED
      BY <3>2, <3>3, <3>4
  <2>2. \A i \in 1 .. Len(batch') : batch'[i] \in Events
    BY <1>2
  <2> QED
    BY <2>1, <2>2 DEF BatchInOrder
<1> QED
  BY <1>5, <1>8 DEF OrderInv

\* A new row is the youngest, and no row of its aggregate is undecided.
LEMMA InsertInOrder ==
    ASSUME OutboxInv, OrderInv, NEW g \in Events, add_outbox_event(g)
    PROVE  OrderInv'
<1> USE DEF OutboxInv
<1>1. /\ status[g] = "absent" /\ created' = Append(created, g)
      /\ AggregateOf[g] \in Locked =>
            \A e \in Events : status[e] = "inserted" => AggregateOf[e] # AggregateOf[g]
      /\ status' = [status EXCEPT ![g] = "inserted"]
      /\ UNCHANGED <<outrun, failed, batch, topic>>
  BY DEF add_outbox_event
<1>2. /\ Len(created) \in Nat /\ Len(created') = Len(created) + 1
      /\ created'[Len(created) + 1] = g
      /\ \A i \in 1 .. Len(created) : created'[i] = created[i] /\ created[i] # g
  BY <1>1, AppendProperties, LenProperties DEF TypeOK, CreatedOnce
<1>3. \A e, f \in Events : Before(e, f, created') =>
         /\ e # g /\ status[e] # "absent"
         /\ f # g => Before(e, f, created)
  BY <1>2 DEF Before, CreatedOnce
<1>4. \A e \in Events : e # g => status'[e] = status[e]
  BY <1>1 DEF TypeOK
<1>5. \A e, f \in Events : Precedes(e, f)' =>
         \/ f # g /\ Precedes(e, f) /\ status'[e] = status[e]
         \/ f = g /\ status'[e] = status[e] /\ AggregateOf[e] = AggregateOf[g]
  BY <1>1, <1>3, <1>4 DEF Precedes
<1>6. LockHolds' /\ OlderIsDecided'
  <2>1. status'[g] = "inserted"
    BY <1>1 DEF TypeOK
  <2> QED
    BY <1>1, <1>4, <1>5, <2>1 DEF OrderInv, LockHolds, OlderIsDecided
<1>7. ~InTopic(g) /\ \A i \in 1 .. Len(batch) : batch[i] # g /\ batch[i] \in Events
  BY <1>1, ElementOfSeq DEF TopicIsCommitted, InTopic, BatchIsPending, TypeOK
<1>8. \A e, f : (Settled(e, f)' <=> Settled(e, f)) /\ (InTopic(f)' <=> InTopic(f))
  BY <1>1 DEF Settled, InTopic
<1>9. TopicInOrder'
  BY <1>5, <1>7, <1>8 DEF OrderInv, TopicInOrder
<1>10. BatchInOrder'
  <2>1. \A e \in Events : \A i \in 1 .. Len(batch) : \A f : f = batch[i] /\ Precedes(e, f)' =>
           Settled(e, f)' \/ \E j \in 1 .. Len(batch) : j < i /\ batch[j] = e
    BY <1>5, <1>7, <1>8 DEF OrderInv, BatchInOrder
  <2>2. \A e \in Events : \A i \in 1 .. Len(batch') : \A f : f = batch'[i] /\ Precedes(e, f)' =>
           Settled(e, f)' \/ \E j \in 1 .. Len(batch') : j < i /\ batch'[j] = e
    BY <1>1, <2>1
  <2> QED
    BY <2>2 DEF BatchInOrder
<1> QED
  BY <1>6, <1>9, <1>10 DEF OrderInv

\* The messages of an aggregate come in created_at order, unless a publish of the
\* earlier one failed, or the aggregate is not locked and the younger row was
\* committed first: a poll takes the oldest rows, the loop keeps their order, and
\* where a transaction locks its aggregate others cannot insert their rows.
THEOREM OvertakenAfterFailure == Spec => []OvertakenOnlyAfterFailure
<1>1. Init => OrderInv
  BY DEF Init, OrderInv, LockHolds, OlderIsDecided, TopicInOrder, BatchInOrder, Precedes, Before
<1>2. OutboxInv /\ OrderInv /\ [Next]_vars => OrderInv'
  <2> SUFFICES ASSUME OutboxInv, OrderInv, [Next]_vars
               PROVE  OrderInv'
    OBVIOUS
  <2>t. TypeOK /\ BatchIsPending /\ Len(created) \in Nat
    BY LenProperties DEF OutboxInv, TypeOK
  <2>1. ASSUME NEW e \in Events, commit_request(e) \/ rollback_request(e)
        PROVE  OrderInv'
    <3>1. CASE commit_request(e)
      <4>1. \A f \in Outrun(e) : AggregateOf[f] \notin Locked
        BY DEF Outrun, OrderInv, LockHolds, Precedes
      <4> QED
        BY <2>t, <3>1, <4>1, OrderInvOn DEF commit_request, TypeOK, OrderInv
    <3>2. CASE rollback_request(e)
      BY <2>t, <3>2, OrderInvOn DEF rollback_request, TypeOK, OrderInv
    <3> QED
      BY <2>1, <3>1, <3>2
  <2>2. CASE publish \/ publish_poison \/ publish_raises
    <3>1. batch # <<>> /\ UNCHANGED <<status, created, outrun, failed, batch>>
          /\ (topic' = topic \/ topic' = Append(topic, Head(batch)))
      BY <2>t, <2>2 DEF publish, publish_poison, publish_raises, TypeOK
    <3> QED
      BY <3>1, OrderInvOn DEF OrderInv
  <2>3. CASE select_batch
    BY <2>3, OrderInvOn, SelectInOrder DEF select_batch, OrderInv
  <2>4. CASE abandon_batch
    <3>1. /\ batch' = <<>> /\ UNCHANGED <<status, created, outrun, failed, topic>>
      BY <2>4 DEF abandon_batch
    <3>2. BatchInOrder'
      BY <3>1 DEF BatchInOrder
    <3> QED
      BY <3>1, <3>2, OrderInvOn DEF OrderInv
  <2>5. CASE UNCHANGED vars
    BY <2>5, OrderInvOn DEF vars, OrderInv
  <2> QED
    BY <2>1, <2>2, <2>3, <2>4, <2>5, InsertInOrder, CommitInOrder DEF Next, Publisher
<1>3. OrderInv => OvertakenOnlyAfterFailure
  BY DEF OrderInv, LockHolds, TopicInOrder, Precedes, Settled, OvertakenOnlyAfterFailure
<1> QED
  BY <1>1, <1>2, <1>3, OutboxInvariant, PTL DEF Spec

===============================================================================
