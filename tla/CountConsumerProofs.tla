------------------------- MODULE CountConsumerProofs -------------------------
(***************************************************************************)
(* Theorems about CountConsumer, for every set of partitions, ads and      *)
(* clicks, every log length and any number of crashes and rebalances.      *)
(***************************************************************************)
EXTENDS CountConsumer, KafkaTopicProofs, WellFoundedInduction

-----------------------------------------------------------------------------
\* A record at a valid offset is an envelope, and is published.
LEMMA RecordsAreEnvelopes ==
    ASSUME TypeOK, NEW p \in Partitions, NEW o \in Offset(p)
    PROVE  RecordAt(p, o) \in Envelopes /\ RecordAt(p, o) \in Published
<1>1. log[p] \in Seq(Envelopes) /\ o + 1 \in 1 .. Len(log[p])
  BY DEF TypeOK, TopicTypeOK, LogTypeOK, Offset
<1>2. RecordAt(p, o) \in Envelopes
  BY <1>1 DEF RecordAt
<1> QED BY <1>2 DEF Published

-----------------------------------------------------------------------------
\* Type correctness: every variable keeps its type; the record in hand, if
\* any, is one delivery of the log.
LEMMA InitTypeOK == Init => TypeOK
BY CounterAssumption DEF Init, TopicInit, LogInit, TypeOK, TopicTypeOK, LogTypeOK, NoOffset, NoCounts, NoCredits, Offset

LEMMA StopTypeOK ==
    ASSUME TypeOK, Stop, track' = track, committed' \in [Partitions -> Nat \cup {NoOffset}]
    PROVE  TypeOK'
BY DEF Stop, TypeOK, TopicTypeOK, LogTypeOK, NoCounts, NoCredits, Offset

\* No step changes the track.
LEMMA TrackIsFixed == [Next]_vars => track' = track
BY DEF Next, Produce, Boot, Take, Record, CommitResolved, AutoCommit, CloseConsumer, Stop,
   ReadError, Rebalance, Crash, vars

LEMMA NextTypeOK == TypeOK /\ [Next]_vars => TypeOK'
<1> SUFFICES ASSUME TypeOK, [Next]_vars PROVE TypeOK'
  OBVIOUS
<1>t. track' = track
  BY TrackIsFixed
<1> USE <1>t
<1>1. ASSUME NEW c \in Clicks, NEW a \in Ads, Produce(c, a) PROVE TypeOK'
  <2> DEFINE rec == [click |-> c, ad |-> a]
  <2>1. rec \in Envelopes /\ PartitionOf[a] \in Partitions
    BY TopicAssumption DEF Envelopes
  <2>2. AppendTo(PartitionOf[a], rec) /\ UNCHANGED <<phase, inHand, memory, recorded, resumedAt>>
    BY <1>1 DEF Produce, AppendRecord
  <2>3. /\ log' \in [Partitions -> Seq(Envelopes)]
        /\ \A p \in Partitions : \A o \in Offset(p) : o \in Offset(p)'
    BY <2>1, <2>2, AppendKeepsRecords DEF TypeOK, TopicTypeOK
  <2>4. UNCHANGED <<committed, position, rebalances, crashes>>
    BY <1>1 DEF Produce, AppendRecord, groupVars
  <2>5. inHand' \subseteq {d \in Partitions \X Nat : d[2] \in Offset(d[1])'}
    BY <2>2, <2>3 DEF TypeOK
  <2> QED BY <2>2, <2>3, <2>4, <2>5 DEF TypeOK, TopicTypeOK, LogTypeOK, memory
<1>2. CASE Boot
  BY <1>2 DEF Boot, Assign, StartOffset, TypeOK, TopicTypeOK, LogTypeOK, memory, NoOffset, Offset
<1>3. ASSUME NEW p \in Partitions, Take(p) PROVE TypeOK'
  <2>1. position[p] \in Offset(p)
    BY <1>3 DEF Take, HasNext, Offset, TypeOK, TopicTypeOK, LogTypeOK
  <2>2. committed' \in [Partitions -> Nat \cup {NoOffset}]
    <3>1. position[p] + 1 \in Nat /\ committed \in [Partitions -> Nat \cup {NoOffset}]
      BY DEF TypeOK, TopicTypeOK, LogTypeOK
    <3>2. CommitOnTake(p)
      BY <1>3 DEF Take
    <3> QED BY <3>1, <3>2 DEF CommitOnTake
  <2>3. TopicTypeOK(Envelopes)'
    <3>1. position' \in [Partitions -> Nat]
      BY <1>3 DEF Take, Advance, TypeOK, TopicTypeOK, LogTypeOK
    <3>2. UNCHANGED <<log, rebalances, crashes>>
      BY <1>3 DEF Take
    <3> QED BY <2>2, <3>1, <3>2 DEF TypeOK, TopicTypeOK, LogTypeOK
  <2>4. PICK o \in Nat : o = position[p]
    BY DEF TypeOK, TopicTypeOK, LogTypeOK
  <2>5. inHand' = {<<p, o>>} /\ o \in Offset(p)'
    BY <1>3, <2>1, <2>4 DEF Take, Offset
  <2>6. /\ inHand' \subseteq {d \in Partitions \X Nat : d[2] \in Offset(d[1])'}
        /\ \A d, e \in inHand' : d = e
    BY <2>4, <2>5
  <2> QED BY <1>3, <2>3, <2>6 DEF Take, TypeOK, memory
<1>4. CASE Record
  <2>1. PICK d \in inHand :
          /\ \/ CountNew(RecordAt(d[1], d[2]))
             \/ DropDuplicate(RecordAt(d[1], d[2]))
          /\ inHand' = {}
          /\ recorded' = [recorded EXCEPT ![d[1]] = @ \cup {d[2]}]
          /\ UNCHANGED <<topicVars, phase, resumedAt>>
    BY <1>4 DEF Record
  <2>2. d \in Partitions \X Nat /\ d[2] \in Offset(d[1])
    BY <2>1 DEF TypeOK
  <2> DEFINE rec == RecordAt(d[1], d[2])
  <2>3. rec.click \in Clicks /\ rec.ad \in Ads
    BY <2>2, RecordsAreEnvelopes DEF Envelopes
  <2>4. recorded' \in [Partitions -> SUBSET Nat]
    BY <2>1, <2>2 DEF TypeOK
  <2>5. /\ seen' \subseteq Clicks /\ counts' \in [Ads -> Nat]
        /\ duplicates' \in Nat /\ credited' \in [Ads -> SUBSET Clicks]
    <3>1. CASE CountNew(rec)
      BY <2>3, <3>1 DEF CountNew, TypeOK
    <3>2. CASE DropDuplicate(rec)
      BY <3>2 DEF DropDuplicate, TypeOK
    <3> QED BY <2>1, <3>1, <3>2
  <2> HIDE DEF rec
  <2> QED BY <2>1, <2>4, <2>5 DEF TypeOK, TopicTypeOK, LogTypeOK, topicVars, Offset
<1>5. ASSUME NEW p \in Partitions, CommitResolved(p) \/ AutoCommit(p) PROVE TypeOK'
  BY <1>5 DEF CommitResolved, AutoCommit, CommitPosition, TypeOK, TopicTypeOK, LogTypeOK, memory, Offset
<1>6. CASE CloseConsumer
  BY <1>6, StopTypeOK DEF CloseConsumer, TypeOK, TopicTypeOK, LogTypeOK
<1>7. CASE ReadError
  BY <1>7 DEF ReadError, TypeOK, TopicTypeOK, LogTypeOK, topicVars, memory, Offset
<1>8. CASE Rebalance
  BY <1>8 DEF Rebalance, Assign, StartOffset, TypeOK, TopicTypeOK, LogTypeOK, memory, NoOffset, Offset
<1>9. CASE Crash
  BY <1>9, StopTypeOK DEF Crash, TypeOK, TopicTypeOK, LogTypeOK
<1>10. CASE UNCHANGED vars
  BY <1>10 DEF vars, topicVars, memory, TypeOK, TopicTypeOK, LogTypeOK, Offset
<1> QED BY <1>1, <1>2, <1>3, <1>4, <1>5, <1>6, <1>7, <1>8, <1>9, <1>10 DEF Next

\* Type correctness of the consumer in every reachable state.
THEOREM TypeCorrect == Spec => []TypeOK
BY InitTypeOK, NextTypeOK, PTL DEF Spec

-----------------------------------------------------------------------------
\* What relates the counts to the dedup index and to the log.
CountInv == TypeOK /\ CountsSplitSeen /\ CreditsArePublished

LEMMA ClicksOfFinite ==
    ASSUME TypeOK, NEW a \in Ads
    PROVE  IsFiniteSet(ClicksOf(a)) /\ IsFiniteSet(credited[a])
<1>1. ClicksOf(a) \subseteq Clicks
  <2>1. ASSUME NEW e \in Published PROVE e.click \in Clicks
    <3>1. PICK p \in Partitions : \E o \in Offset(p) : e = RecordAt(p, o)
      BY <2>1 DEF Published
    <3> QED BY <3>1, RecordsAreEnvelopes DEF Envelopes
  <2> QED BY <2>1 DEF ClicksOf
<1>2. credited[a] \subseteq Clicks
  BY DEF TypeOK
<1> QED BY <1>1, <1>2, FS_Subset, CounterAssumption

LEMMA InitCountInv == Init => CountInv
<1> SUFFICES ASSUME Init PROVE CountInv
  OBVIOUS
<1>1. CountsSplitSeen
  BY FS_EmptySet DEF Init, CountsSplitSeen, NoCounts, NoCredits
<1>2. CreditsArePublished
  BY DEF Init, CreditsArePublished, NoCredits
<1> QED BY <1>1, <1>2, InitTypeOK DEF CountInv

\* record() keeps the counts in step with the dedup index.
LEMMA RecordCountInv ==
    ASSUME CountInv, Record
    PROVE  CountsSplitSeen' /\ CreditsArePublished'
<1>1. PICK d \in inHand :
        /\ \/ CountNew(RecordAt(d[1], d[2]))
           \/ DropDuplicate(RecordAt(d[1], d[2]))
        /\ UNCHANGED topicVars
  BY DEF Record
<1>2. d[1] \in Partitions /\ d[2] \in Offset(d[1]) /\ TypeOK
  BY <1>1 DEF CountInv, TypeOK
<1>3. PICK env \in Envelopes : env = RecordAt(d[1], d[2]) /\ env \in Published
  BY <1>2, RecordsAreEnvelopes
<1>4. \A a \in Ads : ClicksOf(a)' = ClicksOf(a)
  BY <1>1 DEF ClicksOf, Published, Offset, RecordAt, topicVars
<1>5. CASE DropDuplicate(env)
  BY <1>4, <1>5 DEF DropDuplicate, CountInv, CountsSplitSeen, CreditsArePublished
<1>6. CASE CountNew(env)
  <2> DEFINE c == env.click
             a == env.ad
  <2>1. c \in Clicks /\ a \in Ads /\ c \notin seen /\ c \in ClicksOf(a)
    BY <1>3, <1>6 DEF CountNew, IsDuplicate, ClicksOf, Envelopes
  <2>2. /\ seen' = seen \cup {c}
        /\ counts' = [counts EXCEPT ![a] = @ + 1]
        /\ credited' = [credited EXCEPT ![a] = @ \cup {c}]
    BY <1>6 DEF CountNew
  <2>3. counts \in [Ads -> Nat] /\ credited \in [Ads -> SUBSET Clicks]
    BY <1>2 DEF TypeOK
  <2> HIDE DEF c, a
  <2>4. \A b \in Ads : c \notin credited[b]
    BY <2>1 DEF CountInv, CountsSplitSeen
  <2>5. \A b \in Ads : credited'[b] = IF b = a THEN credited[b] \cup {c} ELSE credited[b]
    BY <2>2, <2>3
  <2>6. Cardinality(credited'[a]) = Cardinality(credited[a]) + 1
    <3>1. IsFiniteSet(credited[a])
      BY <2>1, <1>2, ClicksOfFinite
    <3>2. Cardinality(credited[a] \cup {c}) = Cardinality(credited[a]) + 1
      BY <2>1, <2>4, <3>1, FS_AddElement
    <3> QED BY <2>1, <2>5, <3>2
  <2>7. \A b \in Ads : counts'[b] = Cardinality(credited'[b])
    BY <2>1, <2>2, <2>3, <2>5, <2>6 DEF CountInv, CountsSplitSeen
  <2>8. \A b, e \in Ads : b # e => credited'[b] \cap credited'[e] = {}
    BY <2>4, <2>5 DEF CountInv, CountsSplitSeen
  <2>9. UNION {credited'[b] : b \in Ads} = seen'
    <3>1. UNION {credited[b] : b \in Ads} = seen
      BY DEF CountInv, CountsSplitSeen
    <3>2. ASSUME NEW x \in UNION {credited'[b] : b \in Ads} PROVE x \in seen'
      <4>1. PICK b \in Ads : x \in credited'[b]
        BY <3>2
      <4>2. x \in credited[b] \/ x = c
        BY <4>1, <2>5
      <4> QED BY <4>2, <3>1, <2>2
    <3>3. ASSUME NEW x \in seen' PROVE x \in UNION {credited'[b] : b \in Ads}
      <4>1. CASE x = c
        BY <4>1, <2>1, <2>5
      <4>2. CASE x \in seen
        <5>1. PICK b \in Ads : x \in credited[b]
          BY <4>2, <3>1
        <5> QED BY <5>1, <2>5
      <4> QED BY <4>1, <4>2, <3>3, <2>2
    <3> QED BY <3>2, <3>3
  <2>10. CreditsArePublished'
    BY <2>1, <2>5, <1>4 DEF CountInv, CreditsArePublished
  <2> QED BY <2>7, <2>8, <2>9, <2>10 DEF CountsSplitSeen
<1> QED BY <1>1, <1>3, <1>5, <1>6

LEMMA NextCountInv == CountInv /\ [Next]_vars => CountInv'
<1> SUFFICES ASSUME CountInv, [Next]_vars PROVE CountsSplitSeen' /\ CreditsArePublished'
  BY NextTypeOK DEF CountInv
<1>1. ASSUME NEW c \in Clicks, NEW a \in Ads, Produce(c, a)
      PROVE  CountsSplitSeen' /\ CreditsArePublished'
  <2> DEFINE rec == [click |-> c, ad |-> a]
  <2>1. rec \in Envelopes /\ PartitionOf[a] \in Partitions
    BY TopicAssumption DEF Envelopes
  <2>2. AppendTo(PartitionOf[a], rec) /\ UNCHANGED memory
    BY <1>1 DEF Produce, AppendRecord
  <2>3. Published' = Published \cup {rec}
    BY <2>1, <2>2, AppendKeepsRecords DEF CountInv, TypeOK, TopicTypeOK
  <2>4. \A b \in Ads : ClicksOf(b) \subseteq ClicksOf(b)'
    BY <2>3 DEF ClicksOf
  <2> QED BY <2>2, <2>4 DEF memory, CountInv, CountsSplitSeen, CreditsArePublished
<1>2. CASE Record
  BY <1>2, RecordCountInv
<1>3. CASE CloseConsumer \/ Crash
  <2>1. seen' = {} /\ counts' = NoCounts /\ credited' = NoCredits
    BY <1>3 DEF CloseConsumer, Crash, Stop
  <2> QED BY <2>1, FS_EmptySet DEF CountsSplitSeen, CreditsArePublished, NoCounts, NoCredits
<1>4. CASE UNCHANGED <<log, memory>>
  <2>1. \A a \in Ads : ClicksOf(a)' = ClicksOf(a)
    BY <1>4 DEF ClicksOf, Published, Offset, RecordAt
  <2> QED BY <2>1, <1>4 DEF memory, CountInv, CountsSplitSeen, CreditsArePublished
<1>5. CASE \/ Boot \/ (\E p \in Partitions : Take(p))
           \/ (\E p \in Partitions : CommitResolved(p) \/ AutoCommit(p))
           \/ ReadError \/ Rebalance \/ UNCHANGED vars
  BY <1>4, <1>5 DEF Boot, Take, CommitResolved, AutoCommit, ReadError, Rebalance, vars, topicVars
<1> QED BY <1>1, <1>2, <1>3, <1>5 DEF Next

\* The per-ad counts always split the dedup index: each click id seen is
\* credited to exactly one ad, in every track and whatever is redelivered.
THEOREM CountsAlwaysSplitSeen == Spec => []CountsSplitSeen
<1>1. CountInv => CountsSplitSeen
  BY DEF CountInv
<1> QED BY <1>1, InitCountInv, NextCountInv, PTL DEF Spec

\* GET /counts never credits an ad with more clicks than were published for
\* it, over any number of crashes, rebalances and repeated clicks.
THEOREM CountsNeverExceedClicks == Spec => []NeverOvercounts
<1>1. CountInv => NeverOvercounts
  <2> SUFFICES ASSUME CountInv, NEW a \in Ads PROVE counts[a] <= Cardinality(ClicksOf(a))
    BY DEF NeverOvercounts
  <2>1. credited[a] \subseteq ClicksOf(a) /\ counts[a] = Cardinality(credited[a])
    BY DEF CountInv, CountsSplitSeen, CreditsArePublished
  <2>2. IsFiniteSet(ClicksOf(a))
    BY ClicksOfFinite DEF CountInv
  <2> QED BY <2>1, <2>2, FS_Subset
<1> QED BY <1>1, InitCountInv, NextCountInv, PTL DEF Spec

-----------------------------------------------------------------------------
(* The reported total.                                                      *)

\* The sum that snapshot() takes over its map.
Total(f) == FoldFunction(LAMBDA n, total : n + total, 0, f)

\* The recursion that the library's fold stands for.
LEMMA FoldIsRecursive ==
    ASSUME NEW S, NEW f \in [S -> Nat]
    PROVE  Total(f)
              = (CHOOSE h : h = [s \in SUBSET S |->
                    IF s = {} THEN 0
                    ELSE f[CHOOSE x \in s : TRUE] + h[s \ {CHOOSE x \in s : TRUE}]])[S]
<1>1. DOMAIN f = S
  OBVIOUS
<1> QED BY <1>1 DEF Total, FoldFunction, FoldFunctionOnSet, MapThenFoldSet

\* The sum of the sizes of disjoint sets is the size of their union.
LEMMA SumOfDisjointSets ==
    ASSUME NEW S, IsFiniteSet(S), NEW X, IsFiniteSet(X), NEW parts \in [S -> SUBSET X],
           \A a, b \in S : a # b => parts[a] \cap parts[b] = {},
           NEW f \in [S -> Nat], \A a \in S : f[a] = Cardinality(parts[a])
    PROVE  Total(f)
              = Cardinality(UNION {parts[a] : a \in S})
<1> DEFINE Pick(s) == CHOOSE x \in s : TRUE
           Size(s) == Cardinality(UNION {parts[a] : a \in s})
           sizes == [s \in SUBSET S |-> Size(s)]
           Sums(h) == [s \in SUBSET S |->
                          IF s = {} THEN 0 ELSE f[Pick(s)] + h[s \ {Pick(s)}]]
           sum == CHOOSE h : h = Sums(h)
<1>1. ASSUME NEW s \in SUBSET S, s # {}
      PROVE  /\ Pick(s) \in s
             /\ Size(s) = f[Pick(s)] + Size(s \ {Pick(s)})
  <2> DEFINE rest == UNION {parts[a] : a \in s \ {Pick(s)}}
  <2>1. Pick(s) \in s
    BY <1>1
  <2>2. UNION {parts[a] : a \in s} = parts[Pick(s)] \cup rest
    BY <2>1
  <2>3. parts[Pick(s)] \cap rest = {}
    BY <2>1
  <2>4. parts[Pick(s)] \in SUBSET X /\ rest \in SUBSET X
    BY <2>1
  <2>5. IsFiniteSet(parts[Pick(s)]) /\ IsFiniteSet(rest)
    BY <2>4, FS_Subset
  <2> HIDE DEF rest
  <2>6. Cardinality(parts[Pick(s)] \cup rest) = Cardinality(parts[Pick(s)]) + Cardinality(rest)
    <3>1. Cardinality(parts[Pick(s)] \cup rest)
             = Cardinality(parts[Pick(s)]) + Cardinality(rest)
                  - Cardinality(parts[Pick(s)] \cap rest)
      BY <2>5, FS_Union
    <3>2. Cardinality(parts[Pick(s)] \cap rest) = 0
      BY <2>3, FS_EmptySet
    <3>3. Cardinality(parts[Pick(s)]) \in Nat /\ Cardinality(rest) \in Nat
      BY <2>5, FS_CardinalityType
    <3> QED BY <3>1, <3>2, <3>3
  <2>7. f[Pick(s)] = Cardinality(parts[Pick(s)])
    BY <2>1
  <2> QED BY <2>1, <2>2, <2>6, <2>7 DEF rest
<1>2. Size({}) = 0
  BY FS_EmptySet
<1>3. sizes = Sums(sizes)
  <2>1. ASSUME NEW s \in SUBSET S
        PROVE  Size(s) = IF s = {} THEN 0 ELSE f[Pick(s)] + sizes[s \ {Pick(s)}]
    <3>1. s \ {Pick(s)} \in SUBSET S
      OBVIOUS
    <3>2. sizes[s \ {Pick(s)}] = Size(s \ {Pick(s)})
      BY <3>1
    <3> HIDE DEF sizes, Size, Pick
    <3> QED BY <1>1, <1>2, <3>2
  <2> HIDE DEF Size, Pick
  <2> QED BY <2>1
<1>4. sum = Sums(sum)
  BY <1>3
<1>5. sum[S] = sizes[S]
  <2> DEFINE T == {s \in SUBSET S : sum[s] # sizes[s]}
  <2> SUFFICES ASSUME T # {} PROVE FALSE
    OBVIOUS
  <2>1. /\ T \subseteq FiniteSubsetsOf(S)
        /\ IsWellFoundedOn(StrictSubsetOrdering(S), FiniteSubsetsOf(S))
    BY FS_FiniteSubsetsOfFinite, FS_StrictSubsetOrderingWellFounded
  <2>2. PICK s \in T : \A t \in T : <<t, s>> \notin StrictSubsetOrdering(S)
    BY <2>1, WFMin
  <2>3. s # {}
    BY <1>2, <1>4
  <2>4. /\ Pick(s) \in s
        /\ sizes[s] = f[Pick(s)] + sizes[s \ {Pick(s)}]
    BY <1>1, <2>3
  <2>5. sum[s] = f[Pick(s)] + sum[s \ {Pick(s)}]
    BY <1>4, <2>3
  <2>6. s \ {Pick(s)} \in T
    BY <2>4, <2>5
  <2>7. <<s \ {Pick(s)}, s>> \in StrictSubsetOrdering(S)
    BY <2>4 DEF StrictSubsetOrdering
  <2> QED BY <2>2, <2>6, <2>7
<1>6. Total(f) = sum[S]
  BY FoldIsRecursive
<1> QED BY <1>5, <1>6

\* GET /counts: the total that snapshot() adds up from the counts of the ads is
\* the number of distinct clicks in the dedup index, in every state.
THEOREM TotalIsAlwaysDistinctClicks == Spec => []TotalIsDistinctClicks
<1>1. ASSUME TypeOK, CountsSplitSeen PROVE TotalIsDistinctClicks
  <2>1. /\ credited \in [Ads -> SUBSET Clicks] /\ counts \in [Ads -> Nat]
        /\ IsFiniteSet(Ads) /\ IsFiniteSet(Clicks)
    BY <1>1, TopicAssumption, CounterAssumption DEF TypeOK
  <2>2. Total(counts) = Cardinality(UNION {credited[a] : a \in Ads})
    BY <1>1, <2>1, SumOfDisjointSets DEF CountsSplitSeen
  <2>3. TotalUnique = Total(counts)
    BY DEF TotalUnique, Total
  <2> QED BY <1>1, <2>2, <2>3 DEF CountsSplitSeen, TotalIsDistinctClicks
<1> QED BY <1>1, TypeCorrect, CountsAlwaysSplitSeen, PTL

-----------------------------------------------------------------------------
\* Where the consumer stands in the log, and what it has counted of it.
OffsetInv == TypeOK /\ OffsetsOrdered /\ InHandIsLast /\ NoGapSinceResume

LEMMA InitOffsetInv == Init => OffsetInv
BY InitTypeOK
   DEF Init, TopicInit, LogInit, OffsetInv, OffsetsOrdered, InHandIsLast, NoGapSinceResume, NoOffset

LEMMA NextOffsetInv == OffsetInv /\ [Next]_vars => OffsetInv'
<1> SUFFICES ASSUME OffsetInv, [Next]_vars
             PROVE  OffsetsOrdered' /\ InHandIsLast' /\ NoGapSinceResume'
  BY NextTypeOK DEF OffsetInv
<1> USE DEF OffsetInv
<1>a. /\ log \in [Partitions -> Seq(Envelopes)]
      /\ committed \in [Partitions -> Nat \cup {NoOffset}]
      /\ position \in [Partitions -> Nat]
      /\ resumedAt \in [Partitions -> Nat]
      /\ inHand \subseteq {d \in Partitions \X Nat : d[2] \in Offset(d[1])}
  BY DEF TypeOK, TopicTypeOK, LogTypeOK
<1>1. ASSUME NEW c \in Clicks, NEW a \in Ads, Produce(c, a)
      PROVE  OffsetsOrdered' /\ InHandIsLast' /\ NoGapSinceResume'
  <2> DEFINE rec == [click |-> c, ad |-> a]
  <2>1. rec \in Envelopes /\ PartitionOf[a] \in Partitions
    BY TopicAssumption DEF Envelopes
  <2>2. /\ AppendTo(PartitionOf[a], rec)
        /\ UNCHANGED <<committed, position, phase, inHand, seen, resumedAt>>
    BY <1>1 DEF Produce, AppendRecord, AppendTo, groupVars, memory
  <2>3. /\ log' \in [Partitions -> Seq(Envelopes)]
        /\ \A p \in Partitions : Len(log'[p]) >= Len(log[p])
        /\ \A p \in Partitions : \A o \in Offset(p) : RecordAt(p, o)' = RecordAt(p, o)
    BY <2>1, <2>2, AppendKeepsRecords DEF TypeOK, TopicTypeOK
  <2>4. OffsetsOrdered'
    BY <2>2, <2>3, <1>a DEF OffsetsOrdered
  <2>5. InHandIsLast'
    BY <2>2 DEF InHandIsLast
  <2>6. \A p \in Partitions : \A o \in resumedAt[p] .. position[p] - 1 : o \in Offset(p)
    BY <1>a DEF OffsetsOrdered, Offset
  <2>7. NoGapSinceResume'
    BY <2>2, <2>3, <2>6 DEF NoGapSinceResume
  <2> QED BY <2>4, <2>5, <2>7
<1>2. CASE Boot
  <2>1. /\ position' = [p \in Partitions |-> StartOffset(p)]
        /\ resumedAt' = position'
        /\ UNCHANGED <<log, committed, inHand>>
    BY <1>2 DEF Boot, Assign
  <2>2. OffsetsOrdered'
    BY <2>1, <1>a, StartOffsetBehind DEF OffsetsOrdered, TypeOK
  <2>3. inHand = {}
    BY <1>2 DEF Boot, InHandIsLast
  <2>4. NoGapSinceResume'
    <3>1. \A p \in Partitions : resumedAt'[p] .. position'[p] - 1 = {}
      BY <2>1, StartOffsetBehind DEF TypeOK
    <3> QED BY <3>1 DEF NoGapSinceResume
  <2> QED BY <2>1, <2>2, <2>3, <2>4 DEF InHandIsLast
<1>3. ASSUME NEW q \in Partitions, Take(q)
      PROVE  OffsetsOrdered' /\ InHandIsLast' /\ NoGapSinceResume'
  <2>1. /\ inHand = {} /\ inHand' = {<<q, position[q]>>}
        /\ phase = "consuming" /\ phase' = phase
        /\ position[q] < Len(log[q])
        /\ position' = [position EXCEPT ![q] = @ + 1]
        /\ UNCHANGED <<log, seen, resumedAt>>
    BY <1>3 DEF Take, Idle, HasNext, Advance, memory
  <2>2. \A p \in Partitions : committed'[p] <= position'[p]
    <3>1. CommitOnTake(q)
      BY <1>3 DEF Take
    <3>2. CASE track = "go"
      BY <3>1, <3>2, <2>1, <1>a DEF CommitOnTake, OffsetsOrdered, NoOffset
    <3>3. CASE track # "go"
      <4>1. committed' = committed
        BY <3>1, <3>3 DEF CommitOnTake
      <4>2. \A p \in Partitions : committed[p] <= position[p] /\ position[p] <= position'[p]
        BY <2>1, <1>a DEF OffsetsOrdered
      <4>3. \A p \in Partitions :
              committed[p] \in Int /\ position[p] \in Int /\ position'[p] \in Int
        BY <2>1, <1>a DEF NoOffset
      <4> QED BY <4>1, <4>2, <4>3
    <3> QED BY <3>2, <3>3
  <2>3. \A p \in Partitions : position'[p] <= Len(log[p])
    BY <2>1, <1>a DEF OffsetsOrdered
  <2>4. OffsetsOrdered'
    BY <2>1, <2>2, <2>3 DEF OffsetsOrdered
  <2>5. InHandIsLast'
    BY <2>1, <1>a DEF InHandIsLast
  <2>6. ASSUME NEW p \in Partitions, NEW o \in resumedAt[p] .. position'[p] - 1
        PROVE  <<p, o>> \in inHand' \/ RecordAt(p, o)'.click \in seen'
    <3>1. CASE p = q /\ o = position[q]
      BY <3>1, <2>1
    <3>2. CASE o \in resumedAt[p] .. position[p] - 1
      BY <3>2, <2>1 DEF NoGapSinceResume, RecordAt
    <3> QED BY <3>1, <3>2, <2>1, <2>6, <1>a
  <2>7. NoGapSinceResume'
    BY <2>1, <2>6 DEF NoGapSinceResume
  <2> QED BY <2>4, <2>5, <2>7
<1>4. CASE Record
  <2>1. PICK d \in inHand :
          /\ \/ CountNew(RecordAt(d[1], d[2]))
             \/ DropDuplicate(RecordAt(d[1], d[2]))
          /\ inHand' = {}
          /\ UNCHANGED <<log, committed, position, phase, resumedAt>>
    BY <1>4 DEF Record, topicVars
  <2>2. RecordAt(d[1], d[2]).click \in seen' /\ seen \subseteq seen'
    BY <2>1 DEF CountNew, DropDuplicate, IsDuplicate
  <2>3. \A e \in inHand : e = d
    BY <2>1 DEF TypeOK
  <2>4. ASSUME phase # "down",
               NEW p \in Partitions, NEW o \in resumedAt[p] .. position[p] - 1
        PROVE  RecordAt(p, o).click \in seen'
    <3>1. CASE <<p, o>> \in inHand
      BY <3>1, <2>2, <2>3
    <3>2. CASE <<p, o>> \notin inHand
      BY <3>2, <2>2, <2>4 DEF NoGapSinceResume
    <3> QED BY <3>1, <3>2
  <2>5. NoGapSinceResume'
    BY <2>1, <2>4 DEF NoGapSinceResume, RecordAt
  <2> QED BY <2>1, <2>5 DEF OffsetsOrdered, InHandIsLast
<1>5. ASSUME NEW q \in Partitions, CommitResolved(q) \/ AutoCommit(q)
      PROVE  OffsetsOrdered' /\ InHandIsLast' /\ NoGapSinceResume'
  <2>1. /\ committed' = [committed EXCEPT ![q] = position[q]]
        /\ UNCHANGED <<log, position, phase, inHand, seen, resumedAt>>
    BY <1>5 DEF CommitResolved, AutoCommit, CommitPosition, memory
  <2>2. OffsetsOrdered'
    BY <2>1, <1>a DEF OffsetsOrdered
  <2>3. InHandIsLast'
    BY <2>1 DEF InHandIsLast
  <2>4. NoGapSinceResume'
    BY <2>1 DEF NoGapSinceResume, RecordAt
  <2> QED BY <2>2, <2>3, <2>4
<1>6. CASE CloseConsumer \/ Crash
  <2>1. /\ UNCHANGED <<log, position>>
        /\ phase' = "down" /\ inHand' = {}
    BY <1>6 DEF CloseConsumer, Crash, Stop
  <2>2. \A p \in Partitions : committed'[p] <= position[p]
    <3>1. CASE Crash
      BY <3>1 DEF Crash, OffsetsOrdered
    <3>2. CASE CloseConsumer
      <4>1. committed' = [p \in Partitions |->
                IF position[p] > StartOffset(p) THEN position[p] ELSE committed[p]]
        BY <3>2 DEF CloseConsumer
      <4> QED BY <4>1, <1>a DEF OffsetsOrdered
    <3> QED BY <1>6, <3>1, <3>2
  <2> QED BY <2>1, <2>2 DEF OffsetsOrdered, InHandIsLast, NoGapSinceResume
<1>7. CASE ReadError
  <2>1. /\ UNCHANGED <<log, committed, position, inHand, seen, resumedAt>>
        /\ inHand = {} /\ phase = "consuming"
    BY <1>7 DEF ReadError, Idle, topicVars, memory
  <2> QED BY <2>1 DEF OffsetsOrdered, InHandIsLast, NoGapSinceResume, RecordAt
<1>8. CASE Rebalance
  <2>1. /\ position' = [p \in Partitions |-> StartOffset(p)]
        /\ UNCHANGED <<log, committed, phase, inHand, seen, resumedAt>>
        /\ inHand = {}
    BY <1>8 DEF Rebalance, Assign, Idle, memory
  <2>2. OffsetsOrdered'
    BY <2>1, <1>a, StartOffsetBehind DEF OffsetsOrdered, TypeOK
  <2>3. \A p \in Partitions : resumedAt[p] .. position'[p] - 1 \subseteq resumedAt[p] .. position[p] - 1
    BY <2>1, <1>a, StartOffsetBehind DEF TypeOK
  <2>4. NoGapSinceResume'
    BY <2>1, <2>3 DEF NoGapSinceResume, RecordAt
  <2> QED BY <2>1, <2>2, <2>4 DEF InHandIsLast
<1>9. CASE UNCHANGED vars
  BY <1>9 DEF vars, topicVars, memory, OffsetsOrdered, InHandIsLast, NoGapSinceResume, RecordAt
<1> QED BY <1>1, <1>2, <1>3, <1>4, <1>5, <1>6, <1>7, <1>8, <1>9 DEF Next

\* Between the offset a life resumed at and its position, every click was
\* counted (or is being counted), in every track and through rebalances.
THEOREM NoGapInAnyLife == Spec => []NoGapSinceResume
<1>1. OffsetInv => NoGapSinceResume
  BY DEF OffsetInv
<1> QED BY <1>1, InitOffsetInv, NextOffsetInv, PTL DEF Spec

-----------------------------------------------------------------------------
LEMMA StepCommitsForward ==
    OffsetInv /\ [Next]_vars => \A p \in Partitions : committed'[p] >= committed[p]
<1> SUFFICES ASSUME OffsetInv, [Next]_vars, NEW p \in Partitions
             PROVE  committed'[p] >= committed[p]
  OBVIOUS
<1>a. /\ committed \in [Partitions -> Nat \cup {NoOffset}]
      /\ position \in [Partitions -> Nat]
      /\ committed[p] <= position[p]
  BY DEF OffsetInv, TypeOK, TopicTypeOK, LogTypeOK, OffsetsOrdered
<1>b. committed[p] \in Int /\ position[p] \in Int
  BY <1>a DEF NoOffset
<1>1. CASE UNCHANGED committed
  BY <1>1, <1>b
<1>2. ASSUME NEW q \in Partitions, Take(q) PROVE committed'[p] >= committed[p]
  <2>1. CASE track = "go"
    <3>1. committed' = [committed EXCEPT ![q] = position[q] + 1]
      BY <1>2, <2>1 DEF Take, CommitOnTake
    <3> QED BY <3>1, <1>a, <1>b
  <2>2. CASE track # "go"
    BY <1>1, <1>2, <2>2 DEF Take, CommitOnTake
  <2> QED BY <2>1, <2>2
<1>3. ASSUME NEW q \in Partitions, CommitResolved(q) \/ AutoCommit(q)
      PROVE  committed'[p] >= committed[p]
  <2>1. committed' = [committed EXCEPT ![q] = position[q]]
    BY <1>3 DEF CommitResolved, AutoCommit, CommitPosition
  <2> QED BY <2>1, <1>a, <1>b
<1>4. CASE CloseConsumer
  <2>1. committed' = [r \in Partitions |->
            IF position[r] > StartOffset(r) THEN position[r] ELSE committed[r]]
    BY <1>4 DEF CloseConsumer
  <2> QED BY <2>1, <1>a, <1>b
<1>5. CASE \/ \E c \in Clicks, a \in Ads : Produce(c, a)
           \/ Boot \/ Record \/ ReadError \/ Rebalance \/ Crash \/ UNCHANGED vars
  BY <1>1, <1>5 DEF Produce, AppendRecord, AppendTo, groupVars, Boot, Record, ReadError, Rebalance,
     Crash, vars, topicVars
<1> QED BY <1>2, <1>3, <1>4, <1>5 DEF Next

\* No step moves a committed offset back: a restart never replays more than
\* what the last commit left open.
THEOREM CommittedOffsetsOnlyGrow == Spec => CommitsMoveForward
<1>1. OffsetInv /\ [Next]_vars => [\A p \in Partitions : committed'[p] >= committed[p]]_vars
  BY StepCommitsForward
<1> QED BY <1>1, InitOffsetInv, NextOffsetInv, PTL DEF Spec, CommitsMoveForward

-----------------------------------------------------------------------------
\* At-least-once, for the tracks that commit after the handler returned.
DeliveryInv ==
    /\ OffsetInv
    /\ track \in CommitsAfterRecord =>
           CommittedSurvivesCrash /\ TakenIsRecorded /\ NothingLeftOut

LEMMA InitDeliveryInv == Init => DeliveryInv
BY InitOffsetInv
   DEF Init, TopicInit, LogInit, DeliveryInv, CommittedSurvivesCrash, TakenIsRecorded,
       NothingLeftOut, NoOffset

LEMMA NextDeliveryInv == DeliveryInv /\ [Next]_vars => DeliveryInv'
<1> SUFFICES ASSUME OffsetInv, CommittedSurvivesCrash, TakenIsRecorded, NothingLeftOut,
                    [Next]_vars, track \in CommitsAfterRecord
             PROVE  CommittedSurvivesCrash' /\ TakenIsRecorded' /\ NothingLeftOut'
  BY NextOffsetInv, TrackIsFixed DEF DeliveryInv
<1>a. /\ committed \in [Partitions -> Nat \cup {NoOffset}]
      /\ position \in [Partitions -> Nat]
      /\ recorded \in [Partitions -> SUBSET Nat]
      /\ track # "go" /\ track # "csharp"
  BY DEF OffsetInv, TypeOK, TopicTypeOK, LogTypeOK, CommitsAfterRecord
<1>1. ASSUME UNCHANGED <<committed, position, phase, inHand, recorded>>
      PROVE  CommittedSurvivesCrash' /\ TakenIsRecorded' /\ NothingLeftOut'
  BY <1>1 DEF CommittedSurvivesCrash, TakenIsRecorded, NothingLeftOut
<1>2. CASE Boot \/ Rebalance
  <2>1. /\ position' = [p \in Partitions |-> StartOffset(p)]
        /\ UNCHANGED <<committed, inHand, recorded>>
    BY <1>2 DEF Boot, Rebalance, Assign
  <2>2. \A p \in Partitions : 0 .. position'[p] - 1 \subseteq recorded[p]
    BY <2>1, <1>a DEF StartOffset, NoOffset, CommittedSurvivesCrash
  <2> QED BY <2>1, <2>2 DEF CommittedSurvivesCrash, TakenIsRecorded, NothingLeftOut
<1>3. ASSUME NEW q \in Partitions, Take(q)
      PROVE  CommittedSurvivesCrash' /\ TakenIsRecorded' /\ NothingLeftOut'
  <2>1. /\ inHand = {} /\ inHand' = {<<q, position[q]>>}
        /\ phase = "consuming"
        /\ position' = [position EXCEPT ![q] = @ + 1]
        /\ UNCHANGED <<recorded, committed>>
    BY <1>3, <1>a DEF Take, Idle, Advance, CommitOnTake
  <2>2. ASSUME NEW p \in Partitions, NEW o \in 0 .. position'[p] - 1
        PROVE  o \in recorded[p] \/ <<p, o>> \in inHand'
    <3>1. CASE p = q /\ o = position[q]
      BY <3>1, <2>1
    <3>2. CASE o \in 0 .. position[p] - 1
      BY <3>2, <2>1 DEF TakenIsRecorded
    <3> QED BY <3>1, <3>2, <2>1, <2>2, <1>a
  <2> QED BY <2>1, <2>2 DEF CommittedSurvivesCrash, TakenIsRecorded, NothingLeftOut
<1>4. CASE Record
  <2>1. PICK d \in inHand :
          /\ inHand' = {}
          /\ recorded' = [recorded EXCEPT ![d[1]] = @ \cup {d[2]}]
          /\ UNCHANGED <<committed, position, phase>>
    BY <1>4 DEF Record, topicVars
  <2>2. /\ d \in Partitions \X Nat
        /\ \A e \in inHand : e = d
        /\ phase = "consuming" /\ d[2] + 1 = position[d[1]]
    BY <2>1 DEF OffsetInv, TypeOK, InHandIsLast
  <2>3. PICK q \in Partitions, n \in Nat : d = <<q, n>>
    BY <2>2
  <2>4. \A p \in Partitions :
          recorded'[p] = IF p = q THEN recorded[p] \cup {n} ELSE recorded[p]
    BY <2>1, <2>3, <1>a
  <2>5. CommittedSurvivesCrash'
    BY <2>1, <2>4 DEF CommittedSurvivesCrash
  <2>6. \A p \in Partitions : \A o \in 0 .. position[p] - 1 :
          o \in recorded[p] \/ (p = q /\ o = n)
    BY <2>2, <2>3 DEF TakenIsRecorded
  <2>7. TakenIsRecorded'
    <3>1. ASSUME NEW p \in Partitions, NEW o \in 0 .. position[p] - 1
          PROVE  o \in recorded'[p]
      <4>1. CASE p = q
        <5>1. recorded'[p] = recorded[p] \cup {n}
          BY <2>4, <4>1
        <5> QED BY <2>6, <5>1
      <4>2. CASE p # q
        BY <2>4, <2>6, <4>2
      <4> QED BY <4>1, <4>2
    <3> QED BY <2>1, <3>1 DEF TakenIsRecorded
  <2>8. 0 .. n \subseteq recorded'[q]
    <3>1. position[q] = n + 1
      BY <2>2, <2>3
    <3>2. \A o \in 0 .. n - 1 : o \in recorded[q]
      BY <2>6, <3>1, <1>a
    <3>3. recorded'[q] = recorded[q] \cup {n}
      BY <2>4
    <3>4. \A o \in 0 .. n : o \in 0 .. n - 1 \/ o = n
      OBVIOUS
    <3> QED BY <3>2, <3>3, <3>4
  <2>9. NothingLeftOut'
    BY <2>4, <2>8 DEF NothingLeftOut
  <2> QED BY <2>5, <2>7, <2>9
<1>5. ASSUME NEW q \in Partitions, CommitResolved(q)
      PROVE  CommittedSurvivesCrash' /\ TakenIsRecorded' /\ NothingLeftOut'
  <2>1. /\ committed' = [committed EXCEPT ![q] = position[q]]
        /\ inHand = {} /\ phase = "consuming"
        /\ UNCHANGED <<position, phase, inHand, recorded>>
    BY <1>5 DEF CommitResolved, CommitPosition, Resolved, Idle
  <2>2. 0 .. position[q] - 1 \subseteq recorded[q]
    BY <2>1 DEF TakenIsRecorded
  <2>3. CommittedSurvivesCrash'
    BY <2>1, <2>2, <1>a DEF CommittedSurvivesCrash
  <2> QED BY <2>1, <2>3 DEF TakenIsRecorded, NothingLeftOut
<1>6. CASE Crash
  BY <1>6 DEF Crash, Stop, CommittedSurvivesCrash, TakenIsRecorded, NothingLeftOut
<1>7. CASE (\E c \in Clicks, a \in Ads : Produce(c, a)) \/ UNCHANGED vars
  BY <1>7, <1>1 DEF Produce, AppendRecord, AppendTo, groupVars, vars, topicVars
<1> QED BY <1>a, <1>2, <1>3, <1>4, <1>5, <1>6, <1>7
        DEF Next, AutoCommit, CloseConsumer, ReadError

\* Where offsets are committed after the handler returned (TypeScript, Java),
\* no committed record was ever left uncounted, crash or not.
THEOREM CommitsOnlyWhatIsRecorded == Spec => []CommittedIsRecorded
<1>1. DeliveryInv => CommittedIsRecorded
  BY DEF DeliveryInv, CommittedSurvivesCrash, CommittedIsRecorded, AtLeastOnce
<1> QED BY <1>1, InitDeliveryInv, NextDeliveryInv, PTL DEF Spec

\* The same tracks hand the records of a partition, and so those of an ad, to
\* record() in the order they were published, leaving none out.
THEOREM RecordsInPublishedOrder == Spec => []RecordedInOrder
<1>1. DeliveryInv => RecordedInOrder
  BY DEF DeliveryInv, RecordedInOrder
<1> QED BY <1>1, InitDeliveryInv, NextDeliveryInv, PTL DEF Spec

-----------------------------------------------------------------------------
\* At most once, on the track that commits before the handler is called.
LEMMA NextRecordedIsCommitted ==
    OffsetInv /\ RecordedIsCommitted /\ [Next]_vars => RecordedIsCommitted'
<1> SUFFICES ASSUME OffsetInv, RecordedIsCommitted, [Next]_vars, track = "go"
             PROVE  /\ \A p \in Partitions : \A o \in recorded'[p] : o < committed'[p]
                    /\ \A d \in inHand' : d[2] < committed'[d[1]]
  BY TrackIsFixed DEF RecordedIsCommitted
<1>a. /\ committed \in [Partitions -> Nat \cup {NoOffset}]
      /\ position \in [Partitions -> Nat]
      /\ recorded \in [Partitions -> SUBSET Nat]
      /\ inHand \subseteq Partitions \X Nat
      /\ \A p \in Partitions : committed[p] <= position[p]
      /\ \A p \in Partitions : \A o \in recorded[p] : o < committed[p]
      /\ \A d \in inHand : d[2] < committed[d[1]]
  BY DEF OffsetInv, TypeOK, TopicTypeOK, LogTypeOK, OffsetsOrdered, RecordedIsCommitted
<1> DEFINE Goal == /\ \A p \in Partitions : \A o \in recorded'[p] : o < committed'[p]
                   /\ \A d \in inHand' : d[2] < committed'[d[1]]
<1>1. CASE UNCHANGED <<committed, recorded>> /\ inHand' \subseteq inHand
  BY <1>1, <1>a
<1>2. ASSUME NEW q \in Partitions, Take(q) PROVE Goal
  <2>1. /\ inHand' = {<<q, position[q]>>} /\ recorded' = recorded
        /\ committed' = [committed EXCEPT ![q] = position[q] + 1]
    BY <1>2 DEF Take, CommitOnTake
  <2>2. /\ committed'[q] = position[q] + 1
        /\ \A p \in Partitions : p # q => committed'[p] = committed[p]
    BY <2>1, <1>a
  <2>3. ASSUME NEW p \in Partitions, NEW o \in recorded[p] PROVE o < committed'[p]
    <3>1. /\ o < committed[p] /\ o \in Nat /\ committed[p] <= position[p] /\ position[p] \in Nat
          /\ committed[p] \in Int
      BY <1>a DEF NoOffset
    <3> QED BY <3>1, <2>2
  <2> QED BY <2>1, <2>2, <2>3, <1>a
<1>3. CASE Record
  <2>1. PICK d \in inHand : /\ inHand' = {} /\ committed' = committed
                            /\ recorded' = [recorded EXCEPT ![d[1]] = @ \cup {d[2]}]
    BY <1>3 DEF Record, topicVars
  <2>2. PICK q \in Partitions, n \in Nat : d = <<q, n>>
    BY <1>a
  <2>3. \A p \in Partitions :
          recorded'[p] = IF p = q THEN recorded[p] \cup {n} ELSE recorded[p]
    BY <2>1, <2>2, <1>a
  <2>4. n < committed[q]
    BY <2>2, <1>a
  <2> QED BY <2>1, <2>3, <2>4, <1>a
<1>4. CASE \/ \E c \in Clicks, a \in Ads : Produce(c, a)
           \/ Boot \/ ReadError \/ Rebalance \/ Crash \/ UNCHANGED vars
  BY <1>1, <1>4 DEF Produce, AppendRecord, AppendTo, groupVars, Boot, ReadError, Rebalance, Crash, Stop,
     vars, topicVars
\* The other commits are not this track's.
<1>5. ~ (CloseConsumer \/ \E p \in Partitions : CommitResolved(p) \/ AutoCommit(p))
  BY DEF CloseConsumer, CommitResolved, Resolved, CommitsAfterRecord, AutoCommit
<1> QED BY <1>2, <1>3, <1>4, <1>5 DEF Next

\* The Go track never takes a record again that record() was called for, over
\* any number of rebalances and restarts.
THEOREM RecordedIsNeverTakenAgain == Spec => NeverReplays
<1>1. Init => RecordedIsCommitted
  BY DEF Init, RecordedIsCommitted
<1>2. ASSUME OffsetInv, RecordedIsCommitted, [Next]_vars, track = "go",
             NEW d \in inHand' \ inHand
      PROVE  d[2] \notin recorded[d[1]]
  <2>1. PICK q \in Partitions : Take(q)
    BY <1>2 DEF Next, Produce, Boot, Record, CommitResolved, AutoCommit, CloseConsumer, Stop,
       ReadError, Rebalance, Crash, vars
  <2>2. d = <<q, position[q]>>
    BY <1>2, <2>1 DEF Take
  <2>3. /\ committed[q] <= position[q] /\ position[q] \in Nat
        /\ committed[q] \in Nat \cup {NoOffset}
        /\ \A o \in recorded[q] : o < committed[q]
    BY <1>2 DEF OffsetInv, TypeOK, TopicTypeOK, LogTypeOK, OffsetsOrdered, RecordedIsCommitted
  <2> QED BY <2>2, <2>3 DEF NoOffset
<1>3. OffsetInv /\ RecordedIsCommitted /\ [Next]_vars =>
          [track = "go" => \A d \in inHand' \ inHand : d[2] \notin recorded[d[1]]]_vars
  BY <1>2
<1> QED BY <1>1, <1>3, InitOffsetInv, NextOffsetInv, NextRecordedIsCommitted, PTL
        DEF Spec, NeverReplays

-----------------------------------------------------------------------------
\* Every step of the consumer is a step of the abstract counter, or none.
LEMMA StepRefines == TypeOK /\ [Next]_vars => [Abstract!Next]_(Abstract!vars)
<1> SUFFICES ASSUME TypeOK, [Next]_vars PROVE [Abstract!Next]_(Abstract!vars)
  OBVIOUS
<1> USE DEF Abstract!Next, Abstract!vars
<1>1. ASSUME NEW c \in Clicks, NEW a \in Ads, Produce(c, a) PROVE Abstract!Publish(c, a)
  <2> DEFINE rec == [click |-> c, ad |-> a]
  <2>1. rec \in Envelopes /\ PartitionOf[a] \in Partitions
    BY TopicAssumption DEF Envelopes
  <2>2. AppendTo(PartitionOf[a], rec) /\ UNCHANGED memory
    BY <1>1 DEF Produce, AppendRecord
  <2>3. Published' = Published \cup {rec}
    BY <2>1, <2>2, AppendKeepsRecords DEF TypeOK, TopicTypeOK
  <2> QED BY <2>2, <2>3 DEF Abstract!Publish, memory
<1>2. CASE Record
  <2>1. PICK d \in inHand :
          /\ \/ CountNew(RecordAt(d[1], d[2]))
             \/ DropDuplicate(RecordAt(d[1], d[2]))
          /\ UNCHANGED topicVars
    BY <1>2 DEF Record
  <2>2. d[1] \in Partitions /\ d[2] \in Offset(d[1])
    BY <2>1 DEF TypeOK
  <2>3. PICK env \in Envelopes : env = RecordAt(d[1], d[2]) /\ env \in Published
    BY <2>2, RecordsAreEnvelopes
  <2>4. Published' = Published
    BY <2>1 DEF Published, Offset, RecordAt, topicVars
  <2>5. /\ env.click \in Clicks /\ env.ad \in Ads
        /\ env = [click |-> env.click, ad |-> env.ad]
    BY <2>3 DEF Envelopes
  <2>6. CASE CountNew(env)
    <3>1. Abstract!Count(env.click, env.ad)
      BY <2>3, <2>4, <2>5, <2>6 DEF Abstract!Count, CountNew, IsDuplicate
    <3> QED BY <3>1, <2>5
  <2>7. CASE DropDuplicate(env)
    <3>1. Abstract!Reject(env.click, env.ad)
      BY <2>3, <2>4, <2>5, <2>7 DEF Abstract!Reject, DropDuplicate, IsDuplicate
    <3> QED BY <3>1, <2>5
  <2> QED BY <2>1, <2>3, <2>6, <2>7
<1>3. CASE CloseConsumer \/ Crash
  <2>1. Abstract!Forget
    <3>1. /\ seen' = {} /\ counts' = NoCounts /\ duplicates' = 0
          /\ log' = log
      BY <1>3 DEF CloseConsumer, Crash, Stop
    <3>2. Published' = Published
      BY <3>1 DEF Published, Offset, RecordAt
    <3> QED BY <3>1, <3>2 DEF Abstract!Forget, NoCounts
  <2> QED BY <2>1
<1>4. CASE UNCHANGED <<log, memory>>
  BY <1>4 DEF memory, Published, Offset, RecordAt
<1>5. CASE \/ Boot \/ (\E p \in Partitions : Take(p))
           \/ (\E p \in Partitions : CommitResolved(p) \/ AutoCommit(p))
           \/ ReadError \/ Rebalance \/ UNCHANGED vars
  BY <1>4, <1>5 DEF Boot, Take, CommitResolved, AutoCommit, ReadError, Rebalance, vars, topicVars
<1> QED BY <1>1, <1>2, <1>3, <1>5 DEF Next

\* The consumer of every track implements UniqueClickCount: while it is up a
\* published click is counted at most once and its repetitions are rejected.
THEOREM ConsumerImplementsUniqueClickCount == Spec => CountsUniqueClicks
<1>1. Init => Abstract!Init
  BY DEF Init, TopicInit, LogInit, Abstract!Init, NoCounts, Published, Offset
<1> QED BY <1>1, StepRefines, InitTypeOK, NextTypeOK, PTL DEF Spec, CountsUniqueClicks, Abstract!Spec
=============================================================================
