------------------------- MODULE KafkaConsumerProofs -------------------------
(***************************************************************************)
(* Proofs about the consumer loop, for any number of retries, messages and *)
(* failures, any poison messages, with and without a dead letter topic;    *)
(* and about the notification service, whose consumer is this loop.        *)
(***************************************************************************)
EXTENDS NotificationService, SequenceTheorems, FiniteSetTheorems, TLAPS

(***************************************************************************)
(* Part 1.  The consumer loop.  The invariant says where the task is with  *)
(* the message it read (InHand), and that what it read it dealt with.      *)
(***************************************************************************)

DealtWith(i) == i \in Effects \cup exhausted \cup jumped

\* The task works on a message it has read, and the group never commits past
\* what the task has read.
InHand ==
    /\ pc \in {"handle", "dead_letter", "commit"} => position > 1
    /\ committed <= position
    /\ pc = "handle" => committed < position

\* While the task runs, only the message whose handler it is calling is not
\* dealt with among those it has read.
ReadIsDealtWith ==
    pc # "stopped" =>
        \A i \in Offsets : i < position => DealtWith(i) \/ (i = current /\ pc = "handle")

ConsumerInv ==
    /\ TypeOK
    /\ InHand
    /\ ReadIsDealtWith
    /\ CommittedHasEffect
    /\ EffectsInOrder

-----------------------------------------------------------------------------

\* One more effect, of the message in hand, changes nothing about the others.
LEMMA AppendedEffect ==
    ASSUME TypeOK, current \in Offsets, applied' = Append(applied, current)
    PROVE  /\ applied' \in Seq(Offsets)
           /\ Len(applied) \in Nat
           /\ Len(applied') = Len(applied) + 1
           /\ applied'[Len(applied) + 1] = current
           /\ \A k \in 1 .. Len(applied) : applied'[k] = applied[k]
           /\ Effects' = Effects \cup {current}
<1>1. applied \in Seq(Offsets)
  BY DEF TypeOK
<1>2. /\ Len(applied) \in Nat
      /\ applied' \in Seq(Offsets)
      /\ Len(applied') = Len(applied) + 1
      /\ applied'[Len(applied) + 1] = current
      /\ \A k \in 1 .. Len(applied) : applied'[k] = applied[k]
  BY <1>1, LenProperties, AppendProperties
<1>3. \A k \in 1 .. Len(applied') : k \in 1 .. Len(applied) \/ k = Len(applied) + 1
  BY <1>2
<1>4. /\ 1 .. Len(applied) \subseteq 1 .. Len(applied')
      /\ Len(applied) + 1 \in 1 .. Len(applied')
  BY <1>2
<1>5. Effects' = Effects \cup {current}
  BY <1>2, <1>3, <1>4 DEF Effects
<1> QED
  BY <1>2, <1>5

\* The handler's effect comes after those of all earlier messages that are not
\* excused, because they are dealt with by then.
LEMMA AppendedInOrder ==
    ASSUME TypeOK, InHand, ReadIsDealtWith, EffectsInOrder, pc = "handle",
           applied' = Append(applied, current),
           exhausted \subseteq exhausted', jumped' = jumped
    PROVE  EffectsInOrder'
<1>1. /\ position \in Nat /\ log \in Nat /\ MaxLog \in Nat
      /\ current \in Offsets /\ current = position - 1
  BY ConsumerAssumption DEF TypeOK, InHand, current, Offsets
<1>2. /\ applied' \in Seq(Offsets)
      /\ Len(applied) \in Nat
      /\ Len(applied') = Len(applied) + 1
      /\ applied'[Len(applied) + 1] = current
      /\ \A k \in 1 .. Len(applied) : applied'[k] = applied[k]
      /\ Effects' = Effects \cup {current}
  BY <1>1, AppendedEffect
<1>3. \A i \in 1 .. current - 1 : DealtWith(i)
  BY <1>1 DEF ReadIsDealtWith, Offsets
<1> SUFFICES ASSUME NEW k \in 1 .. Len(applied'), NEW i \in 1 .. applied'[k] - 1
             PROVE  \/ i \in exhausted' \cup jumped'
                    \/ \E j \in 1 .. k-1 : applied'[j] = i
  BY DEF EffectsInOrder
<1>4. CASE k \in 1 .. Len(applied)
  <2>1. \/ i \in exhausted \cup jumped
        \/ \E j \in 1 .. k-1 : applied[j] = i
    BY <1>2, <1>4 DEF EffectsInOrder
  <2>2. \A j \in 1 .. k-1 : j \in 1 .. Len(applied)
    BY <1>2, <1>4
  <2> QED
    BY <1>2, <2>1, <2>2
<1>5. CASE k = Len(applied) + 1
  <2>1. DealtWith(i)
    BY <1>2, <1>3, <1>5
  <2>2. k - 1 = Len(applied)
    BY <1>2, <1>5
  <2>3. i \in Effects => \E j \in 1 .. k-1 : applied'[j] = i
    BY <1>2, <2>2 DEF Effects
  <2> QED
    BY <2>1, <2>3 DEF DealtWith
<1> QED
  BY <1>2, <1>4, <1>5

-----------------------------------------------------------------------------

\* The invariant behind the theorems: what the running task has read is dealt
\* with but for the message in hand, so a commit of its position is safe.
LEMMA ConsumerInvariant == Spec => []ConsumerInv
<1>1. Init => ConsumerInv
  BY ConsumerAssumption DEF Init, ConsumerInv, TypeOK, InHand, ReadIsDealtWith,
        CommittedHasEffect, EffectsInOrder, Places, Offsets, total_attempts
<1>2. ConsumerInv /\ [Next]_vars => ConsumerInv'
  <2> SUFFICES ASSUME ConsumerInv, [Next]_vars
               PROVE  ConsumerInv'
    OBVIOUS
  <2>0. /\ TypeOK /\ InHand /\ ReadIsDealtWith /\ CommittedHasEffect /\ EffectsInOrder
        /\ position \in Nat /\ log \in Nat /\ committed \in Nat
        /\ MaxLog \in Nat /\ MaxFaults \in Nat /\ MaxRetries \in Nat
        /\ faults \in Nat /\ attempt \in Nat /\ log <= MaxLog
    BY ConsumerAssumption DEF ConsumerInv, TypeOK, total_attempts
  <2>1. CASE produce
    <3>1. /\ log < MaxLog /\ log' = log + 1
          /\ UNCHANGED <<position, committed, pc, attempt, applied, dlq, exhausted,
                         jumped, faults>>
      BY <2>1 DEF produce
    <3>2. TypeOK'
      BY <2>0, <3>1 DEF TypeOK
    <3> QED
      BY <2>0, <3>1, <3>2 DEF ConsumerInv, InHand, ReadIsDealtWith, CommittedHasEffect,
            EffectsInOrder, DealtWith, Effects, current
  <2>2. CASE start
    <3>1. /\ position' = IF committed = 0 THEN log + 1 ELSE committed
          /\ jumped' = IF committed = 0 THEN jumped \cup 1 .. log ELSE jumped
          /\ pc = "stopped" /\ pc' = "getone"
          /\ UNCHANGED <<log, committed, attempt, applied, dlq, exhausted, faults>>
      BY <2>2 DEF start
    <3>2. TypeOK'
      <4>1. 1 .. log \subseteq Offsets
        BY <2>0 DEF Offsets
      <4> QED
        BY <2>0, <3>1, <4>1 DEF TypeOK, Places
    <3>3. InHand'
      BY <2>0, <3>1 DEF InHand
    <3>4. ReadIsDealtWith'
      BY <2>0, <3>1 DEF ReadIsDealtWith, CommittedHasEffect, DealtWith, Effects, Offsets
    <3>5. CommittedHasEffect' /\ EffectsInOrder'
      BY <2>0, <3>1 DEF CommittedHasEffect, EffectsInOrder, Effects
    <3> QED
      BY <3>2, <3>3, <3>4, <3>5 DEF ConsumerInv
  <2>3. CASE stop
    <3>1. /\ pc' = "stopped" /\ attempt' = 0 /\ faults' \in 0 .. MaxFaults
          /\ UNCHANGED <<log, position, committed, applied, dlq, exhausted, jumped>>
      BY <2>0, <2>3 DEF stop, Fault
    <3>2. TypeOK'
      BY <2>0, <3>1 DEF TypeOK, Places, total_attempts
    <3> QED
      BY <2>0, <3>1, <3>2 DEF ConsumerInv, InHand, ReadIsDealtWith, CommittedHasEffect,
            EffectsInOrder, Effects
  <2>4. CASE getone
    <3>1. /\ pc = "getone" /\ position <= log /\ position' = position + 1
          /\ attempt' = 1 /\ pc' = "handle"
          /\ UNCHANGED <<log, committed, applied, dlq, exhausted, jumped, faults>>
      BY <2>4 DEF getone
    <3>2. TypeOK'
      BY <2>0, <3>1 DEF TypeOK, Places, total_attempts
    <3>3. InHand' /\ ReadIsDealtWith'
      <4>1. InHand'
        BY <2>0, <3>1 DEF InHand, TypeOK
      <4>2. \A i \in Offsets : i < position => DealtWith(i)
        BY <2>0, <3>1 DEF ReadIsDealtWith
      <4>3. \A i \in Offsets : DealtWith(i) => DealtWith(i)'
        BY <3>1 DEF DealtWith, Effects
      <4>4. \A i \in Offsets : i < position' => i < position \/ i = current'
        BY <2>0, <3>1 DEF current, Offsets
      <4> QED
        BY <3>1, <4>1, <4>2, <4>3, <4>4 DEF ReadIsDealtWith
    <3> QED
      BY <2>0, <3>1, <3>2, <3>3 DEF ConsumerInv, CommittedHasEffect, EffectsInOrder, Effects
  <2>5. ASSUME pc = "handle",
               applied' \in {applied, Append(applied, current)},
               \/ /\ pc' = "commit"
                  /\ attempt' = 0
                  /\ applied' = Append(applied, current)
                  /\ UNCHANGED exhausted
               \/ AfterFailure,
               faults' \in 0 .. MaxFaults,
               UNCHANGED <<log, position, committed, dlq, jumped>>
        PROVE  ConsumerInv'
    <3>1. current \in Offsets /\ current = position - 1
      BY <2>0, <2>5 DEF InHand, TypeOK, current, Offsets
    <3>2. /\ exhausted \subseteq exhausted' /\ exhausted' \in SUBSET Offsets
          /\ pc' \in {"handle", "dead_letter", "getone", "commit"}
          /\ pc' # "handle" => current \in exhausted' \/ applied' = Append(applied, current)
          /\ attempt' \in 0 .. total_attempts
          /\ attempt' > 0 <=> pc' = "handle"
      <4>0. /\ attempt \in 1 .. total_attempts /\ total_attempts \in Nat
            /\ exhausted \in SUBSET Offsets
        BY <2>0, <2>5 DEF TypeOK, total_attempts
      <4>1. CASE pc' = "commit" /\ attempt' = 0 /\ UNCHANGED exhausted
                 /\ applied' = Append(applied, current)
        BY <4>0, <4>1
      <4>2. CASE attempt < total_attempts /\ attempt' = attempt + 1
                 /\ UNCHANGED <<pc, exhausted>>
        BY <2>5, <4>0, <4>2
      <4>3. CASE /\ attempt' = 0
                 /\ pc' = IF DlqEnabled THEN "dead_letter" ELSE "getone"
                 /\ exhausted' = exhausted \cup {current}
        <5>1. pc' \in {"dead_letter", "getone"} /\ pc' # "handle"
          BY <4>3
        <5>2. attempt' \in 0 .. total_attempts
          BY <4>0, <4>3
        <5>3. exhausted \subseteq exhausted' /\ exhausted' \in SUBSET Offsets
          BY <3>1, <4>0, <4>3
        <5> QED
          BY <4>3, <5>1, <5>2, <5>3
      <4> QED
        BY <2>5, <4>1, <4>2, <4>3 DEF AfterFailure
    <3>3. /\ applied' \in Seq(Offsets) /\ Effects \subseteq Effects'
          /\ applied' = Append(applied, current) => current \in Effects'
      <4>1. CASE applied' = applied
        <5>1. Effects' = Effects
          BY <4>1 DEF Effects
        <5>2. applied # Append(applied, current)
          BY <2>0, <3>1, AppendProperties, LenProperties DEF TypeOK
        <5> QED
          BY <2>0, <4>1, <5>1, <5>2 DEF TypeOK
      <4>2. CASE applied' = Append(applied, current)
        BY <2>0, <3>1, <4>2, AppendedEffect
      <4> QED
        BY <2>5, <4>1, <4>2
    <3>4. TypeOK'
      BY <2>0, <2>5, <3>2, <3>3 DEF TypeOK, Places
    <3>5. InHand'
      BY <2>0, <2>5 DEF InHand
    <3>6. \A i \in Offsets : DealtWith(i) => DealtWith(i)'
      BY <2>5, <3>2, <3>3 DEF DealtWith
    <3>7. pc' # "handle" => DealtWith(current)'
      BY <2>5, <3>2, <3>3 DEF DealtWith, current
    <3>8. ReadIsDealtWith'
      <4>1. position' = position /\ current' = current
        BY <2>5 DEF current
      <4>2. \A i \in Offsets : i < position => DealtWith(i) \/ i = current
        BY <2>0, <2>5 DEF ReadIsDealtWith
      <4> QED
        BY <3>6, <3>7, <4>1, <4>2 DEF ReadIsDealtWith
    <3>9. CommittedHasEffect'
      BY <2>0, <2>5, <3>6 DEF CommittedHasEffect, DealtWith
    <3>10. EffectsInOrder'
      <4>1. CASE applied' = applied
        BY <2>0, <2>5, <3>2, <4>1 DEF EffectsInOrder
      <4>2. CASE applied' = Append(applied, current)
        BY <2>0, <2>5, <3>2, <4>2, AppendedInOrder
      <4> QED
        BY <2>5, <4>1, <4>2
    <3> QED
      BY <3>4, <3>5, <3>8, <3>9, <3>10 DEF ConsumerInv
  <2>6. ASSUME pc \in {"dead_letter", "commit"}, pc' \in {"commit", "getone"},
               pc' = "commit" => pc = "dead_letter",
               committed' \in {committed, position},
               dlq' \in SUBSET Offsets, faults' \in 0 .. MaxFaults,
               UNCHANGED <<log, position, attempt, applied, exhausted, jumped>>
        PROVE  ConsumerInv'
    <3>1. TypeOK'
      BY <2>0, <2>6 DEF TypeOK, Places
    <3>2. InHand'
      BY <2>0, <2>6 DEF InHand
    <3>3. \A i \in Offsets : i < position => DealtWith(i)
      BY <2>0, <2>6 DEF ReadIsDealtWith
    <3>4. \A i \in Offsets : DealtWith(i) => DealtWith(i)'
      BY <2>6 DEF DealtWith, Effects
    <3>5. ReadIsDealtWith'
      BY <2>6, <3>3, <3>4 DEF ReadIsDealtWith
    <3>6. CommittedHasEffect'
      BY <2>0, <2>6, <3>3, <3>4 DEF CommittedHasEffect, DealtWith
    <3>7. EffectsInOrder'
      BY <2>0, <2>6 DEF EffectsInOrder
    <3> QED
      BY <3>1, <3>2, <3>5, <3>6, <3>7 DEF ConsumerInv
  <2>7. CASE handle \/ handle_poison \/ handle_raises
    BY <2>0, <2>5, <2>7 DEF handle, handle_poison, handle_raises, Fault, TypeOK
  <2>8. CASE dead_letter \/ dead_letter_raises \/ commit \/ commit_raises
    <3>1. pc \in {"dead_letter", "commit"} => current \in Offsets
      BY <2>0 DEF InHand, TypeOK, current, Offsets
    <3> QED
      BY <2>0, <2>6, <2>8, <3>1
      DEF dead_letter, dead_letter_raises, commit, commit_raises, Fault, TypeOK
  <2>9. CASE UNCHANGED vars
    BY <2>0, <2>9 DEF vars, ConsumerInv, TypeOK, InHand, ReadIsDealtWith,
          CommittedHasEffect, EffectsInOrder, DealtWith, Effects, current
  <2> QED
    BY <2>1, <2>2, <2>3, <2>4, <2>7, <2>8, <2>9 DEF Next, Consumer
<1> QED
  BY <1>1, <1>2, PTL DEF Spec

\* Every variable of the consumer stays within its type, and no message has
\* more than total_attempts attempts each time it is read.
THEOREM ConsumerTypeCorrect == Spec => []TypeOK
<1>1. ConsumerInv => TypeOK
  BY DEF ConsumerInv
<1> QED
  BY <1>1, ConsumerInvariant, PTL

\* No interruption between getone and commit loses a message.
THEOREM CommittedTookEffect == Spec => []CommittedHasEffect
<1>1. ConsumerInv => CommittedHasEffect
  BY DEF ConsumerInv
<1> QED
  BY <1>1, ConsumerInvariant, PTL

\* Messages take effect in the order of the partition, but for those that came
\* back after their attempts were exhausted.
THEOREM OrderedEffects == Spec => []EffectsInOrder
<1>1. ConsumerInv => EffectsInOrder
  BY DEF ConsumerInv
<1> QED
  BY <1>1, ConsumerInvariant, PTL

-----------------------------------------------------------------------------

\* The effects a restart would repeat: those the group has not committed past,
\* but for that of the message whose commit is the next step.
AtRisk == {i \in Effects : i >= committed /\ ~(i = current /\ pc = "commit")}

\* A failure was paid for every repeated effect, and for every effect that may
\* yet be repeated.
RepeatsCounted == Len(applied) + Cardinality(AtRisk) <= Cardinality(Effects) + faults

LEMMA EffectsAreFinite ==
    ASSUME TypeOK
    PROVE  /\ Effects \subseteq Offsets
           /\ IsFiniteSet(Effects) /\ Cardinality(Effects) \in Nat
           /\ IsFiniteSet(AtRisk) /\ Cardinality(AtRisk) \in Nat
           /\ Len(applied) \in Nat
<1>1. applied \in Seq(Offsets) /\ MaxLog \in Nat
  BY ConsumerAssumption DEF TypeOK
<1>2. Len(applied) \in Nat /\ \A k \in 1 .. Len(applied) : applied[k] \in Offsets
  BY <1>1, LenProperties, ElementOfSeq
<1>3. Effects \subseteq Offsets
  BY <1>2 DEF Effects
<1>4. IsFiniteSet(Offsets)
  BY <1>1, FS_Interval DEF Offsets
<1>5. IsFiniteSet(Effects)
  BY <1>3, <1>4, FS_Subset
<1>6. AtRisk \subseteq Effects
  BY DEF AtRisk
<1>7. IsFiniteSet(AtRisk)
  BY <1>5, <1>6, FS_Subset
<1> QED
  BY <1>2, <1>3, <1>5, <1>7, FS_CardinalityType

LEMMA AtMostOneMore ==
    ASSUME NEW S, NEW x, IsFiniteSet(S)
    PROVE  /\ IsFiniteSet(S \cup {x})
           /\ Cardinality(S) \in Nat /\ Cardinality(S \cup {x}) \in Nat
           /\ Cardinality(S \cup {x}) <= Cardinality(S) + 1
<1>1. IsFiniteSet(S \cup {x}) /\ Cardinality(S) \in Nat /\ Cardinality(S \cup {x}) \in Nat
  BY FS_AddElement, FS_CardinalityType
<1>2. CASE x \in S
  <2>1. S \cup {x} = S
    BY <1>2
  <2>2. Cardinality(S \cup {x}) = Cardinality(S)
    BY <2>1
  <2> QED
    BY <1>1, <2>2
<1>3. CASE x \notin S
  <2>1. Cardinality(S \cup {x}) = Cardinality(S) + 1
    BY <1>3, FS_AddElement
  <2> QED
    BY <1>1, <2>1
<1> QED
  BY <1>2, <1>3

\* The invariant of the count holds initially and is inductive beside the
\* other one.
LEMMA RepeatsInvariant == Spec => [](ConsumerInv /\ RepeatsCounted)
<1>1. Init => RepeatsCounted
  <2> SUFFICES ASSUME Init PROVE RepeatsCounted
    OBVIOUS
  <2>1. applied = <<>> /\ faults = 0
    BY DEF Init
  <2>2. Len(applied) = 0
    BY <2>1
  <2>3. Effects = {} /\ AtRisk = {}
    BY <2>2 DEF Effects, AtRisk
  <2> QED
    BY <2>1, <2>2, <2>3, FS_EmptySet DEF RepeatsCounted
<1>2. ConsumerInv /\ ConsumerInv' /\ RepeatsCounted /\ [Next]_vars => RepeatsCounted'
  <2> SUFFICES ASSUME ConsumerInv, ConsumerInv', RepeatsCounted, [Next]_vars
               PROVE  RepeatsCounted'
    OBVIOUS
  <2>a. TypeOK /\ TypeOK' /\ InHand /\ InHand'
    BY DEF ConsumerInv
  <2>b. /\ position \in Nat /\ log \in Nat /\ committed \in Nat /\ faults \in Nat
        /\ log <= MaxLog /\ MaxLog \in Nat /\ position <= log + 1
    BY <2>a, ConsumerAssumption DEF TypeOK
  <2>c. position' \in Nat /\ committed' \in Nat /\ faults' \in Nat
    BY <2>a, ConsumerAssumption DEF TypeOK
  <2>0. /\ TypeOK /\ TypeOK' /\ InHand /\ InHand'
        /\ position \in Nat /\ log \in Nat /\ committed \in Nat /\ faults \in Nat
        /\ log <= MaxLog /\ MaxLog \in Nat /\ position <= log + 1
        /\ position' \in Nat /\ committed' \in Nat /\ faults' \in Nat
        /\ current = position - 1
    BY <2>a, <2>b, <2>c DEF current
  <2>1. /\ Effects \subseteq Offsets
        /\ IsFiniteSet(Effects) /\ Cardinality(Effects) \in Nat
        /\ IsFiniteSet(AtRisk) /\ Cardinality(AtRisk) \in Nat
        /\ Len(applied) \in Nat
    BY <2>0, EffectsAreFinite
  <2>2. ASSUME Effects' = Effects, Len(applied') = Len(applied),
               faults <= faults', AtRisk' \subseteq AtRisk
        PROVE  RepeatsCounted'
    <3>1. Cardinality(AtRisk') <= Cardinality(AtRisk) /\ Cardinality(AtRisk') \in Nat
      BY <2>1, <2>2, FS_Subset, FS_CardinalityType
    <3> QED
      BY <2>0, <2>1, <2>2, <3>1 DEF RepeatsCounted
  <2>3. ASSUME Effects' = Effects, Len(applied') = Len(applied),
               faults' = faults + 1, AtRisk' \subseteq AtRisk \cup {current}
        PROVE  RepeatsCounted'
    <3>1. /\ IsFiniteSet(AtRisk \cup {current})
          /\ Cardinality(AtRisk \cup {current}) <= Cardinality(AtRisk) + 1
          /\ Cardinality(AtRisk \cup {current}) \in Nat
      BY <2>1, AtMostOneMore
    <3>2. Cardinality(AtRisk') <= Cardinality(AtRisk) + 1 /\ Cardinality(AtRisk') \in Nat
      BY <2>1, <2>3, <3>1, FS_Subset, FS_CardinalityType
    <3> QED
      BY <2>0, <2>1, <2>3, <3>2 DEF RepeatsCounted
  <2>4. CASE produce
    BY <2>0, <2>1, <2>2, <2>4 DEF produce, Effects, AtRisk, current
  <2>5. CASE start
    <3>1. /\ UNCHANGED <<committed, applied, faults>>
          /\ pc = "stopped" /\ pc' = "getone"
      BY <2>5 DEF start
    <3>2. Effects' = Effects
      BY <3>1 DEF Effects
    <3>3. AtRisk' \subseteq AtRisk
      BY <3>1, <3>2 DEF AtRisk
    <3> QED
      BY <2>0, <2>2, <3>1, <3>2, <3>3
  <2>6. CASE getone
    <3>1. /\ UNCHANGED <<committed, applied, faults>>
          /\ pc = "getone" /\ pc' = "handle"
      BY <2>6 DEF getone
    <3>2. Effects' = Effects
      BY <3>1 DEF Effects
    <3>3. AtRisk' \subseteq AtRisk
      BY <3>1, <3>2 DEF AtRisk
    <3> QED
      BY <2>0, <2>2, <3>1, <3>2, <3>3
  <2>7. CASE handle
    <3>1. /\ applied' = Append(applied, current)
          /\ UNCHANGED <<position, committed, faults, log>>
          /\ pc = "handle" /\ pc' = "commit"
      BY <2>7 DEF handle
    <3>2. current \in Offsets
      BY <2>0, <3>1 DEF InHand, Offsets
    <3>c. current' = current
      BY <3>1 DEF current
    <3>3. Len(applied') = Len(applied) + 1 /\ Effects' = Effects \cup {current}
      BY <2>0, <3>1, <3>2, AppendedEffect
    <3>4. CASE current \in Effects
      <4>1. current >= committed
        BY <2>0, <3>1 DEF InHand
      <4>2. current \in AtRisk
        BY <3>1, <3>4, <4>1 DEF AtRisk
      <4>3. AtRisk' = AtRisk \ {current}
        BY <3>1, <3>c, <3>3, <3>4 DEF AtRisk
      <4>4. Cardinality(AtRisk') = Cardinality(AtRisk) - 1
        BY <2>1, <4>2, <4>3, FS_RemoveElement
      <4>5. Cardinality(Effects') = Cardinality(Effects)
        BY <3>3, <3>4
      <4> QED
        BY <2>0, <2>1, <3>1, <3>3, <4>4, <4>5 DEF RepeatsCounted
    <3>5. CASE current \notin Effects
      <4>1. AtRisk' = AtRisk
        BY <3>1, <3>c, <3>3, <3>5 DEF AtRisk
      <4>2. Cardinality(Effects') = Cardinality(Effects) + 1
        BY <2>1, <3>3, <3>5, FS_AddElement
      <4> QED
        BY <2>0, <2>1, <3>1, <3>3, <4>1, <4>2 DEF RepeatsCounted
    <3> QED
      BY <3>4, <3>5
  <2>8. CASE handle_poison
    <3>1. /\ UNCHANGED <<position, committed, applied, faults>>
          /\ pc = "handle" /\ pc' # "commit"
      BY <2>8 DEF handle_poison, AfterFailure
    <3>2. Effects' = Effects
      BY <3>1 DEF Effects
    <3>3. AtRisk' \subseteq AtRisk
      BY <3>1, <3>2 DEF AtRisk
    <3> QED
      BY <2>0, <2>2, <3>1, <3>2, <3>3
  <2>9. CASE handle_raises
    <3>1. /\ UNCHANGED <<position, committed, log>>
          /\ faults' = faults + 1
          /\ applied' \in {applied, Append(applied, current)}
          /\ pc = "handle" /\ pc' # "commit"
      BY <2>9 DEF handle_raises, AfterFailure, Fault
    <3>2. current \in Offsets
      BY <2>0, <3>1 DEF InHand, Offsets
    <3>c. current' = current
      BY <3>1 DEF current
    <3>3. CASE applied' = applied
      <4>1. Effects' = Effects
        BY <3>3 DEF Effects
      <4>2. AtRisk' \subseteq AtRisk
        BY <3>1, <4>1 DEF AtRisk
      <4> QED
        BY <2>0, <2>2, <3>1, <3>3, <4>1, <4>2
    <3>4. CASE applied' = Append(applied, current)
      <4>1. Len(applied') = Len(applied) + 1 /\ Effects' = Effects \cup {current}
        BY <2>0, <3>2, <3>4, AppendedEffect
      <4>2. CASE current \in Effects
        <5>1. Effects' = Effects
          BY <4>1, <4>2
        <5>2. AtRisk' = AtRisk
          BY <3>1, <3>c, <5>1 DEF AtRisk
        <5>3. /\ Cardinality(Effects') = Cardinality(Effects)
              /\ Cardinality(AtRisk') = Cardinality(AtRisk)
          BY <5>1, <5>2
        <5> QED
          BY <2>0, <2>1, <3>1, <4>1, <5>3 DEF RepeatsCounted
      <4>3. CASE current \notin Effects
        <5>1. Cardinality(Effects') = Cardinality(Effects) + 1
          BY <2>1, <4>1, <4>3, FS_AddElement
        <5>2. AtRisk' \subseteq AtRisk \cup {current}
          BY <3>1, <4>1 DEF AtRisk
        <5>3. /\ IsFiniteSet(AtRisk \cup {current})
              /\ Cardinality(AtRisk \cup {current}) <= Cardinality(AtRisk) + 1
              /\ Cardinality(AtRisk \cup {current}) \in Nat
          BY <2>1, AtMostOneMore
        <5>4. /\ Cardinality(AtRisk') <= Cardinality(AtRisk) + 1
              /\ Cardinality(AtRisk') \in Nat
          BY <2>1, <5>2, <5>3, FS_Subset, FS_CardinalityType
        <5> QED
          BY <2>0, <2>1, <3>1, <4>1, <5>1, <5>4 DEF RepeatsCounted
      <4> QED
        BY <4>2, <4>3
    <3> QED
      BY <3>1, <3>3, <3>4
  <2>10. CASE dead_letter
    <3>1. /\ UNCHANGED <<position, committed, applied, faults>>
          /\ pc = "dead_letter" /\ pc' = "commit"
      BY <2>10 DEF dead_letter
    <3>2. Effects' = Effects
      BY <3>1 DEF Effects
    <3>3. AtRisk' \subseteq AtRisk
      BY <3>1, <3>2 DEF AtRisk
    <3> QED
      BY <2>0, <2>2, <3>1, <3>2, <3>3
  <2>11. CASE commit
    <3>1. /\ UNCHANGED <<position, applied, faults>>
          /\ committed' = position
      BY <2>11 DEF commit
    <3>2. Effects' = Effects
      BY <3>1 DEF Effects
    <3>3. \A i \in Offsets : i >= position => i >= committed /\ i # current
      BY <2>0 DEF InHand, Offsets
    <3>4. AtRisk' \subseteq AtRisk
      BY <2>1, <3>1, <3>2, <3>3 DEF AtRisk
    <3> QED
      BY <2>0, <2>2, <3>1, <3>2, <3>4
  <2>12. CASE stop \/ dead_letter_raises
    <3>1. /\ UNCHANGED <<position, committed, applied>>
          /\ faults' = faults + 1
      BY <2>12 DEF stop, dead_letter_raises, Fault
    <3>2. Effects' = Effects
      BY <3>1 DEF Effects
    <3>3. AtRisk' \subseteq AtRisk \cup {current}
      BY <3>1, <3>2 DEF AtRisk
    <3> QED
      BY <2>3, <3>1, <3>2, <3>3
  <2>13. CASE commit_raises
    <3>1. /\ UNCHANGED <<position, applied>>
          /\ committed' \in {committed, position}
          /\ faults' = faults + 1
      BY <2>13 DEF commit_raises, Fault
    <3>2. Effects' = Effects
      BY <3>1 DEF Effects
    <3>3. \A i \in Offsets : i >= position => i >= committed
      BY <2>0 DEF InHand, Offsets
    <3>4. AtRisk' \subseteq AtRisk \cup {current}
      BY <2>1, <3>1, <3>2, <3>3 DEF AtRisk
    <3> QED
      BY <2>3, <3>1, <3>2, <3>4
  <2>14. CASE UNCHANGED vars
    BY <2>0, <2>1, <2>2, <2>14 DEF vars, Effects, AtRisk, current
  <2> QED
    BY <2>4, <2>5, <2>6, <2>7, <2>8, <2>9, <2>10, <2>11, <2>12, <2>13, <2>14
       DEF Next, Consumer
<1> QED
  BY <1>1, <1>2, ConsumerInvariant, PTL DEF Spec

\* Every effect beyond the first of its message is paid for by a failure.
THEOREM RepeatsArePaidFor == Spec => []RepeatsNeedFaults
<1>1. ConsumerInv /\ RepeatsCounted => RepeatsNeedFaults
  <2> SUFFICES ASSUME ConsumerInv, RepeatsCounted PROVE RepeatsNeedFaults
    OBVIOUS
  <2>1. TypeOK /\ faults \in Nat
    BY ConsumerAssumption DEF ConsumerInv, TypeOK
  <2> QED
    BY <2>1, EffectsAreFinite DEF RepeatsCounted, RepeatsNeedFaults
<1> QED
  BY <1>1, RepeatsInvariant, PTL

(***************************************************************************)
(* Part 2.  The notification service.  Its consumer is the loop above,     *)
(* step by step, so what part 1 shows of the loop holds of the service.    *)
(***************************************************************************)

\* Whatever a handler call had an effect for was notified about.
EffectsAreNotified == \A i \in Effects : IsNotified(i)

NotificationInv ==
    /\ NotificationTypeOK
    /\ OneNotificationPerEvent
    /\ EffectsAreNotified

-----------------------------------------------------------------------------

\* Every step of the service is a step of the consumer or leaves it alone.
LEMMA StepsOfTheConsumer == [NotificationNext]_nvars => [Next]_vars
<1> SUFFICES ASSUME [NotificationNext]_nvars PROVE [Next]_vars
  OBVIOUS
<1>1. CASE NotificationConsumer
  BY <1>1 DEF NotificationConsumer, Loop, handle_message, Next, Consumer
<1>2. CASE LoopFails
  BY <1>2 DEF LoopFails, Next
<1>3. CASE handle_message_raises
  BY <1>3 DEF handle_message_raises, Next
<1>4. CASE \E e \in Events : publish_event(e)
  BY <1>4 DEF publish_event, Publish, Next
<1>5. CASE \E i \in Offsets : publish_again(i) \/ replay(i)
  BY <1>5 DEF publish_again, replay, Publish, Next
<1>6. CASE create_notification
  BY <1>6 DEF create_notification
<1>7. CASE \E n \in DOMAIN notifications : mark_as_read(n)
  BY <1>7 DEF mark_as_read
<1>8. CASE UNCHANGED nvars
  BY <1>8 DEF nvars
<1> QED
  BY <1>1, <1>2, <1>3, <1>4, <1>5, <1>6, <1>7, <1>8 DEF NotificationNext

\* The dead letter topic holds messages of the partition.
DeadLettersAreRead == dlq \subseteq 1 .. log

LEMMA DeadLettersInvariant == Spec => []DeadLettersAreRead
<1>1. Init => DeadLettersAreRead
  BY DEF Init, DeadLettersAreRead
<1>2. ConsumerInv /\ DeadLettersAreRead /\ [Next]_vars => DeadLettersAreRead'
  <2> SUFFICES ASSUME ConsumerInv, DeadLettersAreRead, [Next]_vars
               PROVE  DeadLettersAreRead'
    OBVIOUS
  <2>1. /\ log \in Nat /\ position \in 1 .. log + 1
        /\ pc = "dead_letter" => position > 1
    BY DEF ConsumerInv, TypeOK, InHand
  <2>2. CASE dlq' \subseteq dlq \cup {current} /\ pc = "dead_letter" /\ log' = log
    BY <2>1, <2>2 DEF DeadLettersAreRead, current
  <2>3. CASE dlq' = dlq /\ log' \in {log, log + 1}
    BY <2>1, <2>3 DEF DeadLettersAreRead
  <2> QED
    BY <2>2, <2>3 DEF Next, Consumer, produce, start, stop, getone, handle, handle_poison,
          handle_raises, dead_letter, dead_letter_raises, commit, commit_raises, vars
<1> QED
  BY <1>1, <1>2, ConsumerInvariant, PTL DEF Spec

LEMMA ServiceIsConsumer == NotificationSpec => Spec
<1>1. NotificationInit => Init
  BY DEF NotificationInit
<1> QED
  BY <1>1, StepsOfTheConsumer, PTL DEF NotificationSpec, Spec

-----------------------------------------------------------------------------

\* An INSERT of an event without a row, or of no event at all.
LEMMA InsertKeepsRows ==
    ASSUME NotificationTypeOK, OneNotificationPerEvent,
           NEW source \in Events \cup {NoEvent}, source \notin Sources \/ source = NoEvent,
           Insert(source)
    PROVE  /\ notifications' \in Seq(Notification)
           /\ OneNotificationPerEvent'
           /\ Sources' = Sources \cup {source}
<1> DEFINE row == [source_event_id |-> source, status |-> "created"]
<1>1. /\ notifications \in Seq(Notification)
      /\ row \in Notification
      /\ notifications' = Append(notifications, row)
  BY DEF NotificationTypeOK, Notification, Insert
<1>2. row.source_event_id = source
  OBVIOUS
<1> HIDE DEF row
<1>3. /\ Len(notifications) \in Nat
      /\ notifications' \in Seq(Notification)
      /\ Len(notifications') = Len(notifications) + 1
      /\ notifications'[Len(notifications) + 1] = row
      /\ \A k \in 1 .. Len(notifications) : notifications'[k] = notifications[k]
  BY <1>1, LenProperties, AppendProperties
<1>4. /\ DOMAIN notifications = 1 .. Len(notifications)
      /\ DOMAIN notifications' = 1 .. Len(notifications')
  BY <1>1, <1>3, LenProperties
<1>5. \A k \in DOMAIN notifications' : k \in DOMAIN notifications \/ k = Len(notifications) + 1
  BY <1>3, <1>4
<1>6. /\ DOMAIN notifications \subseteq DOMAIN notifications'
      /\ Len(notifications) + 1 \in DOMAIN notifications'
  BY <1>3, <1>4
<1>7. Sources' = Sources \cup {source}
  BY <1>2, <1>3, <1>4, <1>5, <1>6 DEF Sources
<1>8. OneNotificationPerEvent'
  <2> SUFFICES ASSUME NEW n \in DOMAIN notifications', NEW m \in DOMAIN notifications',
                      notifications'[n].source_event_id = notifications'[m].source_event_id,
                      notifications'[n].source_event_id # NoEvent
               PROVE  n = m
    BY DEF OneNotificationPerEvent
  <2>1. \A k \in DOMAIN notifications : notifications'[k].source_event_id \in Sources
    BY <1>3, <1>4 DEF Sources
  <2>2. CASE n \in DOMAIN notifications /\ m \in DOMAIN notifications
    BY <1>3, <1>4, <2>2 DEF OneNotificationPerEvent
  <2>3. CASE n = Len(notifications) + 1 /\ m \in DOMAIN notifications
    BY <1>2, <1>3, <2>1, <2>3
  <2>4. CASE m = Len(notifications) + 1 /\ n \in DOMAIN notifications
    BY <1>2, <1>3, <2>1, <2>4
  <2> QED
    BY <1>5, <2>2, <2>3, <2>4
<1> QED
  BY <1>3, <1>7, <1>8

\* After create_from_event the event has a row, or is not to be notified about.
LEMMA EventIsNotified ==
    ASSUME NotificationTypeOK, OneNotificationPerEvent, NEW e \in Events,
           create_from_event(e)
    PROVE  /\ notifications' \in Seq(Notification)
           /\ OneNotificationPerEvent'
           /\ Sources \subseteq Sources'
           /\ e \in Sources' \cup (Events \ Notifiable)
<1>1. CASE e \in Notifiable \ Sources
  <2>1. Insert(e)
    BY <1>1 DEF create_from_event
  <2> QED
    BY <1>1, <2>1, InsertKeepsRows
<1>2. CASE e \notin Notifiable \ Sources
  <2>1. notifications' = notifications
    BY <1>2 DEF create_from_event
  <2> QED
    BY <1>2, <2>1 DEF NotificationTypeOK, OneNotificationPerEvent, Sources
<1> QED
  BY <1>1, <1>2

\* Sources and events only grow, so what was notified about stays so.
LEMMA NotifiedStays ==
    ASSUME event \in Seq(Events), event' = event, Sources \subseteq Sources',
           NEW i, IsNotified(i)
    PROVE  IsNotified(i)'
BY DEF IsNotified

\* The handler of the message in hand, when it has its effect.
LEMMA HandledIsNotified ==
    ASSUME TypeOK, InHand, NotificationInv, pc = "handle",
           applied' = Append(applied, current),
           create_from_event(event[current]), event' = event, log' = log
    PROVE  NotificationInv'
<1>1. current \in Offsets /\ current \in 1 .. log
  BY ConsumerAssumption DEF TypeOK, InHand, current, Offsets
<1>2. /\ event \in Seq(Events) /\ Len(event) = log
      /\ DOMAIN event = 1 .. log
  BY LenProperties DEF NotificationInv, NotificationTypeOK
<1>3. event[current] \in Events
  BY <1>1, <1>2, ElementOfSeq
<1>4. /\ notifications' \in Seq(Notification)
      /\ OneNotificationPerEvent'
      /\ Sources \subseteq Sources'
      /\ event[current] \in Sources' \cup (Events \ Notifiable)
  BY <1>3, EventIsNotified DEF NotificationInv
<1>5. Effects' = Effects \cup {current}
  BY <1>1, AppendedEffect
<1>6. \A i \in Effects : IsNotified(i)'
  BY <1>2, <1>4 DEF NotificationInv, EffectsAreNotified, IsNotified
<1>7. \A i : i = current => IsNotified(i)'
  BY <1>1, <1>2, <1>4 DEF IsNotified
<1>8. \A i \in Effects' : IsNotified(i)'
  BY <1>5, <1>6, <1>7
<1> QED
  BY <1>2, <1>4, <1>8 DEF NotificationInv, NotificationTypeOK, EffectsAreNotified

\* A new message at the end of the partition.
LEMMA PublishedKeeps ==
    ASSUME TypeOK, NotificationInv, NEW e \in Events, Publish(e)
    PROVE  NotificationInv'
<1>1. /\ event' = Append(event, e) /\ log' = log + 1
      /\ UNCHANGED <<applied, notifications>>
  BY DEF Publish, produce
<1>2. /\ event \in Seq(Events) /\ Len(event) = log /\ log \in Nat
  BY DEF NotificationInv, NotificationTypeOK, TypeOK
<1>3. /\ event' \in Seq(Events) /\ Len(event') = log'
      /\ \A i \in 1 .. Len(event) : event'[i] = event[i]
  BY <1>1, <1>2, AppendProperties
<1>4. DOMAIN event = 1 .. Len(event) /\ DOMAIN event' = 1 .. Len(event')
  BY <1>2, <1>3, LenProperties
<1>5. \A i : IsNotified(i) => IsNotified(i)'
  BY <1>1, <1>2, <1>3, <1>4 DEF IsNotified, Sources
<1>6. Effects' = Effects
  BY <1>1 DEF Effects
<1> QED
  BY <1>1, <1>3, <1>5, <1>6
     DEF NotificationInv, NotificationTypeOK, OneNotificationPerEvent, EffectsAreNotified

-----------------------------------------------------------------------------

\* The invariant behind the theorems: rows are unique by event, and each
\* effect of the handler left one.
LEMMA NotificationInvariant == NotificationSpec => []NotificationInv
<1>1. NotificationInit => NotificationInv
  <2> SUFFICES ASSUME NotificationInit PROVE NotificationInv
    OBVIOUS
  <2>1. event = <<>> /\ notifications = <<>> /\ applied = <<>> /\ log = 0
    BY DEF NotificationInit, Init
  <2>2. Effects = {}
    BY <2>1 DEF Effects
  <2> QED
    BY <2>1, <2>2, EmptySeq DEF NotificationInv, NotificationTypeOK, OneNotificationPerEvent,
          EffectsAreNotified
<1>2. ConsumerInv /\ DeadLettersAreRead /\ NotificationInv /\ [NotificationNext]_nvars
      => NotificationInv'
  <2> SUFFICES ASSUME ConsumerInv, DeadLettersAreRead, NotificationInv,
                      [NotificationNext]_nvars
               PROVE  NotificationInv'
    OBVIOUS
  <2>0. /\ TypeOK /\ InHand /\ log \in Nat
        /\ event \in Seq(Events) /\ Len(event) = log
        /\ notifications \in Seq(Notification)
        /\ DOMAIN event = 1 .. log
    BY LenProperties DEF ConsumerInv, TypeOK, NotificationInv, NotificationTypeOK
  <2>1. ASSUME UNCHANGED <<log, applied, event, notifications>>
        PROVE  NotificationInv'
    BY <2>1 DEF NotificationInv, NotificationTypeOK, OneNotificationPerEvent,
          EffectsAreNotified, IsNotified, Sources, Effects
  <2>2. CASE NotificationConsumer
    <3>1. CASE Loop /\ UNCHANGED <<event, notifications>>
      BY <2>1, <3>1 DEF Loop, start, getone, handle_poison, dead_letter, commit
    <3>2. CASE handle_message
      BY <2>0, <3>2, HandledIsNotified DEF handle_message, handle
    <3> QED
      BY <2>2, <3>1, <3>2 DEF NotificationConsumer
  <2>3. CASE LoopFails /\ UNCHANGED <<event, notifications>>
    BY <2>1, <2>3 DEF LoopFails, stop, dead_letter_raises, commit_raises
  <2>4. CASE handle_message_raises
    <3>1. /\ pc = "handle" /\ event' = event /\ log' = log
          /\ applied' \in {applied, Append(applied, current)}
          /\ IF applied' = applied THEN UNCHANGED notifications
             ELSE create_from_event(event[current])
      BY <2>4 DEF handle_message_raises, handle_raises
    <3>2. CASE applied' = applied
      BY <2>1, <3>1, <3>2
    <3>3. CASE applied' # applied
      BY <2>0, <3>1, <3>3, HandledIsNotified
    <3> QED
      BY <3>2, <3>3
  <2>5. CASE \E e \in Events : publish_event(e)
    BY <2>0, <2>5, PublishedKeeps DEF publish_event
  <2>6. CASE \E i \in Offsets : publish_again(i) \/ replay(i)
    <3>1. PICK i \in Offsets : publish_again(i) \/ replay(i)
      BY <2>6
    <3>2. CASE publish_again(i)
      <4>1. event[i] \in Events /\ Publish(event[i])
        BY <2>0, <3>2, ElementOfSeq DEF publish_again
      <4> QED
        BY <2>0, <4>1, PublishedKeeps
    <3>3. CASE replay(i)
      <4>1. i \in DOMAIN event
        BY <3>3, <2>0, <2>0 DEF replay, DeadLettersAreRead
      <4>2. event[i] \in Events /\ Publish(event[i])
        BY <2>0, <3>3, <4>1, ElementOfSeq DEF replay
      <4> QED
        BY <2>0, <4>2, PublishedKeeps
    <3> QED
      BY <3>1, <3>2, <3>3
  <2>7. CASE create_notification
    <3>1. Insert(NoEvent) /\ UNCHANGED <<log, applied, event>>
      BY <2>7 DEF create_notification, vars
    <3>2. /\ notifications' \in Seq(Notification)
          /\ OneNotificationPerEvent'
          /\ Sources' = Sources \cup {NoEvent}
      BY <3>1, InsertKeepsRows DEF NotificationInv
    <3>3. EffectsAreNotified'
      BY <3>1, <3>2 DEF NotificationInv, EffectsAreNotified, IsNotified, Effects
    <3> QED
      BY <2>0, <3>1, <3>2, <3>3 DEF NotificationInv, NotificationTypeOK
  <2>8. CASE \E n \in DOMAIN notifications : mark_as_read(n)
    <3>1. PICK n \in DOMAIN notifications : mark_as_read(n)
      BY <2>8
    <3>2. /\ notifications' = [notifications EXCEPT ![n].status = "read"]
          /\ UNCHANGED <<log, applied, event>>
      BY <3>1 DEF mark_as_read, vars
    <3>3. /\ DOMAIN notifications' = DOMAIN notifications
          /\ \A k \in DOMAIN notifications :
                notifications'[k].source_event_id = notifications[k].source_event_id
      BY <2>0, <3>1, <3>2, ElementOfSeq, LenProperties DEF Notification
    <3>4. notifications' \in Seq(Notification)
      <4>1. notifications[n] \in Notification
        BY <2>0, <3>1, ElementOfSeq, LenProperties
      <4>2. [notifications[n] EXCEPT !.status = "read"] \in Notification
        BY <4>1 DEF Notification
      <4> QED
        BY <2>0, <3>2, <4>2, LenProperties, ExceptSeq
    <3>5. Sources' = Sources
      BY <3>3 DEF Sources
    <3> QED
      BY <2>0, <3>2, <3>3, <3>4, <3>5 DEF NotificationInv, NotificationTypeOK,
            OneNotificationPerEvent, EffectsAreNotified, IsNotified, Effects
  <2>9. CASE UNCHANGED nvars
    BY <2>1, <2>9 DEF nvars, vars
  <2> QED
    BY <2>2, <2>3, <2>4, <2>5, <2>6, <2>7, <2>8, <2>9 DEF NotificationNext
<1> QED
  BY <1>1, <1>2, ServiceIsConsumer, ConsumerInvariant, DeadLettersInvariant, PTL
     DEF NotificationSpec

\* The tables and the partition stay within their types.
THEOREM NotificationTypeCorrect == NotificationSpec => [](TypeOK /\ NotificationTypeOK)
<1>1. ConsumerInv /\ NotificationInv => TypeOK /\ NotificationTypeOK
  BY DEF ConsumerInv, NotificationInv
<1> QED
  BY <1>1, NotificationInvariant, ServiceIsConsumer, ConsumerInvariant, PTL

\* However often an event is published, read and replayed, its user is
\* notified once.
THEOREM NotifiedOnce == NotificationSpec => []OneNotificationPerEvent
<1>1. NotificationInv => OneNotificationPerEvent
  BY DEF NotificationInv
<1> QED
  BY <1>1, NotificationInvariant, PTL

\* What the group has committed past was notified about.
THEOREM CommittedWasNotified == NotificationSpec => []CommittedIsNotified
<1>1. ConsumerInv /\ NotificationInv => CommittedIsNotified
  <2> SUFFICES ASSUME ConsumerInv, NotificationInv, NEW i \in DOMAIN event,
                      i < committed, i \notin exhausted \cup jumped
               PROVE  IsNotified(i)
    BY DEF CommittedIsNotified
  <2>1. i \in Offsets
    BY ConsumerAssumption, LenProperties
       DEF ConsumerInv, TypeOK, NotificationInv, NotificationTypeOK, Offsets
  <2>2. i \in Effects
    BY <2>1 DEF ConsumerInv, CommittedHasEffect
  <2> QED
    BY <2>2 DEF NotificationInv, EffectsAreNotified
<1> QED
  BY <1>1, NotificationInvariant, ServiceIsConsumer, ConsumerInvariant, PTL
=============================================================================
