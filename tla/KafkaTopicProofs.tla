-------------------------- MODULE KafkaTopicProofs --------------------------
(***************************************************************************)
(* Lemmas about the topic and the group, for every kind of message the     *)
(* topic may carry.  The proofs about the components extend this module.   *)
(***************************************************************************)
EXTENDS ConsumerGroup, FiniteSetTheorems, TLAPS

-----------------------------------------------------------------------------
\* Appending moves no record: offsets stay valid and keep their record.
LEMMA AppendKeepsRecords ==
    ASSUME NEW Messages, LogTypeOK(Messages),
           NEW q \in Partitions, NEW rec \in Messages, AppendTo(q, rec)
    PROVE  /\ log' \in [Partitions -> Seq(Messages)]
           /\ \A p \in Partitions : Len(log'[p]) >= Len(log[p])
           /\ \A p \in Partitions : \A o \in Offset(p) :
                /\ o \in Offset(p)'
                /\ RecordAt(p, o)' = RecordAt(p, o)
           /\ Published' = Published \cup {rec}
<1>1. log' = [log EXCEPT ![q] = Append(@, rec)] /\ log \in [Partitions -> Seq(Messages)]
  BY DEF AppendTo, LogTypeOK
<1>2. log' \in [Partitions -> Seq(Messages)]
  BY <1>1
<1>3. \A p \in Partitions : p # q => log'[p] = log[p]
  BY <1>1
<1>4. /\ Len(log'[q]) = Len(log[q]) + 1
      /\ \A i \in 1 .. Len(log[q]) : log'[q][i] = log[q][i]
      /\ log'[q][Len(log[q]) + 1] = rec
      /\ Len(log[q]) \in Nat
  BY <1>1
<1>5. \A p \in Partitions : Len(log[p]) \in Nat
  BY <1>1
<1>6. \A p \in Partitions : Len(log'[p]) >= Len(log[p])
  BY <1>3, <1>4, <1>5
<1>7. ASSUME NEW p \in Partitions, NEW o \in Offset(p)
      PROVE  o \in Offset(p)' /\ RecordAt(p, o)' = RecordAt(p, o)
  <2>1. CASE p = q
    BY <2>1, <1>4, <1>7 DEF Offset, RecordAt
  <2>2. CASE p # q
    BY <2>2, <1>3, <1>7 DEF Offset, RecordAt
  <2> QED BY <2>1, <2>2
<1>8. Published' = Published \cup {rec}
  <2>1. ASSUME NEW e \in Published' PROVE e \in Published \cup {rec}
    <3>1. PICK p \in Partitions : \E o \in Offset(p)' : e = RecordAt(p, o)'
      BY <2>1 DEF Published
    <3>1a. PICK o \in Offset(p)' : e = RecordAt(p, o)'
      BY <3>1
    <3>2. CASE o \in Offset(p)
      BY <3>1a, <3>2, <1>7 DEF Published
    <3>3. CASE o \notin Offset(p)
      <4>1. p = q /\ o = Len(log[q])
        BY <3>1a, <3>3, <1>3, <1>4, <1>5 DEF Offset
      <4> QED BY <4>1, <3>1a, <1>4 DEF RecordAt
    <3> QED BY <3>2, <3>3
  <2>2. ASSUME NEW e \in Published PROVE e \in Published'
    <3>1. PICK p \in Partitions : \E o \in Offset(p) : e = RecordAt(p, o)
      BY <2>2 DEF Published
    <3>1a. PICK o \in Offset(p) : e = RecordAt(p, o)
      BY <3>1
    <3> QED BY <3>1a, <1>7 DEF Published
  <2>3. rec \in Published'
    <3>1. PICK n \in Nat : n = Len(log[q])
      BY <1>4
    <3>2. n \in Offset(q)' /\ RecordAt(q, n)' = rec
      BY <1>4, <3>1 DEF Offset, RecordAt
    <3> QED BY <3>2 DEF Published
  <2> QED BY <2>1, <2>2, <2>3
<1> QED BY <1>2, <1>6, <1>7, <1>8

\* The topic is finite, so every set of places in it has a size.
LEMMA PlacesFinite ==
    ASSUME NEW Messages, LogTypeOK(Messages),
           NEW S \in SUBSET (UNION {{p} \X Offset(p) : p \in Partitions})
    PROVE  IsFiniteSet(S) /\ Cardinality(S) \in Nat
<1> DEFINE places == [p \in Partitions |-> {p} \X Offset(p)]
<1>1. IsFiniteSet({places[p] : p \in Partitions})
  <2>1. places \in Surjection(Partitions, {places[p] : p \in Partitions})
    BY DEF Surjection
  <2> QED BY <2>1, FS_Surjection, TopicAssumption
<1>2. ASSUME NEW p \in Partitions PROVE IsFiniteSet(places[p])
  <2>1. Len(log[p]) \in Nat
    BY DEF LogTypeOK
  <2>2. IsFiniteSet(Offset(p))
    BY <2>1, FS_Interval DEF Offset
  <2>3. IsFiniteSet({p})
    BY FS_Singleton
  <2> QED BY <2>2, <2>3, FS_Product
<1>3. IsFiniteSet(UNION {places[p] : p \in Partitions})
  <2>1. \A T \in {places[p] : p \in Partitions} : IsFiniteSet(T)
    BY <1>2
  <2> HIDE DEF places
  <2> QED BY <1>1, <2>1, FS_UNION
<1>4. S \subseteq UNION {places[p] : p \in Partitions}
  OBVIOUS
<1> QED BY <1>3, <1>4, FS_Subset, FS_CardinalityType

\* A start offset is a place the consumer has already been at.
LEMMA StartOffsetBehind ==
    ASSUME NEW Messages, TopicTypeOK(Messages), OffsetsOrdered, NEW p \in Partitions
    PROVE  StartOffset(p) \in Nat /\ StartOffset(p) <= position[p] /\ committed[p] <= StartOffset(p)
BY DEF TopicTypeOK, OffsetsOrdered, StartOffset, NoOffset
=============================================================================
