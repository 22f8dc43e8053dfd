------------------------ MODULE WindowPipelineProofs ------------------------
(***************************************************************************)
(* Lesson 1 from end to end: the ingest-api and the aggregator each behave *)
(* as their own module says, so that what is proved about them holds of    *)
(* the lesson; and an accepted click is on its way, kept, stored, or lost  *)
(* in one of the known ways, for any number of requests, failures,         *)
(* crashes, rebalances and overlapping flushes.                            *)
(***************************************************************************)
EXTENDS WindowPipeline, IngestApiProofs, WindowAggregatorProofs

-----------------------------------------------------------------------------
(* The two components.                                                      *)

LEMMA OnlyTypeScript == ApiTypeOK => track = "typescript"
BY WindowPipelineAssumption DEF ApiTypeOK

\* The aggregator leaves the ingest-api and the topic alone.
LEMMA AggregateIsSilent == Aggregate => UNCHANGED apiVars
<1> SUFFICES ASSUME Aggregate PROVE log' = log
  BY DEF Aggregate, apiVars, sendingVars
<1> QED BY DEF Aggregate, Boot, Initialise, Handle, CommitHandled, FlushStart, ServerApplies,
        FlushOk, FlushRefused, FlushFailed, StrayApplies, Rebalance, Crash, topicVars

LEMMA SystemIsApi == SystemSpec => ApiSpec
<1>1. SystemInit => ApiInit
  BY DEF SystemInit
<1>2. [SystemNext]_systemVars => [ApiNext]_apiVars
  BY AggregateIsSilent DEF SystemNext, Ingest, systemVars, vars, topicVars, sendingVars, apiVars
<1> QED BY <1>1, <1>2, PTL DEF SystemSpec, ApiSpec

\* A record in flight is one the aggregator expects, and on its way to the
\* partition it expects it in.
LEMMA InFlightIsExpected ==
    ASSUME RecordInv, FollowsKey, NEW i \in 1 .. Len(outbox)
    PROVE  outbox[i].record \in Messages /\ outbox[i].to = PartitionOf[outbox[i].record.ad]
<1>1. outbox[i].record \in Envelopes /\ outbox[i].record \in Records
  BY InFlightFacts DEF RecordInv, Records
<1>2. outbox[i].record.ad # Missing
  BY <1>1, OnlyTypeScript DEF RecordInv, AdsAreNamed
<1>3. outbox[i].record.ad \in Ads
  BY <1>1, <1>2 DEF Envelopes
<1> QED BY <1>1, <1>2, <1>3, WindowPipelineAssumption DEF FollowsKey

LEMMA SystemStepIsAggregatorStep ==
    ASSUME RecordInv, FollowsKey, [SystemNext]_systemVars
    PROVE  [Next]_vars
<1>1. CASE Ingest
  <2>1. [ApiNext]_apiVars /\ UNCHANGED <<groupVars, aggregatorVars>>
    BY <1>1 DEF Ingest
  <2>2. CASE log' = log
    BY <2>1, <2>2 DEF vars, topicVars, groupVars, aggregatorVars
  <2>3. ASSUME NEW i \in 1 .. Len(outbox), AppendTo(outbox[i].to, outbox[i].record)
        PROVE  Next
    <3>1. PICK click \in Messages :
             click = outbox[i].record /\ outbox[i].to = PartitionOf[click.ad]
      BY InFlightIsExpected
    <3>2. Produce(click)
      BY <2>1, <2>3, <3>1 DEF Produce, AppendRecord, aggregatorVars
    <3> QED BY <3>2 DEF Next
  <2> QED BY <2>1, <2>2, <2>3, LogSteps
<1>2. CASE Aggregate
  BY <1>2 DEF Aggregate, Next
<1> QED BY <1>1, <1>2 DEF SystemNext, systemVars

\* The ingest-api and its producer, whatever they refuse, retry, duplicate or
\* lose, do to the topic what the aggregator's own specification lets happen to
\* it: everything proved about the aggregator holds behind this ingest-api.
THEOREM PipelineImplementsAggregator == SystemSpec => ImplementsAggregator
<1>1. SystemInit => Init
  BY DEF SystemInit
<1>2. SystemSpec => [](RecordInv /\ FollowsKey)
  BY SystemIsApi, RecordInvHolds, FollowsKeyHolds, PTL
<1>3. RecordInv /\ FollowsKey /\ [SystemNext]_systemVars => [Next]_vars
  BY SystemStepIsAggregatorStep
<1> QED BY <1>1, <1>2, <1>3, PTL DEF SystemSpec, Spec, ImplementsAggregator

\* A step that takes one record out of the outbox for good leaves the others.
LEMMA StillQueued ==
    ASSUME ApiTypeOK, NEW i \in 1 .. Len(outbox), outbox' = RemoveAt(outbox, i),
           NEW r \in Requests, Queued(r), r # SenderOf(i)
    PROVE  Queued(r)'
<1>1. PICK j \in 1 .. Len(outbox) : outbox[j].record.from = r
  BY DEF Queued
<1>2. j # i
  BY <1>1 DEF SenderOf
<1>3. /\ Len(RemoveAt(outbox, i)) = Len(outbox) - 1
      /\ \A k \in 1 .. Len(outbox) - 1 :
            RemoveAt(outbox, i)[k] = outbox[IF k < i THEN k ELSE k + 1]
      /\ Len(outbox) \in Nat
  BY RemoveAtFacts DEF ApiTypeOK
<1>4. CASE j < i
  <2>1. j \in 1 .. Len(outbox') /\ outbox'[j] = outbox[j]
    BY <1>3, <1>4
  <2> QED BY <1>1, <2>1 DEF Queued
<1>5. CASE j > i
  <2>1. j - 1 \in 1 .. Len(outbox') /\ outbox'[j - 1] = outbox[j]
    BY <1>3, <1>5
  <2> QED BY <1>1, <2>1 DEF Queued
<1> QED BY <1>2, <1>4, <1>5

\* A click that is accepted is in the outbox; a record leaves the outbox by an
\* append, or by a failure.
LEMMA IngestKeepsAccepted ==
    ASSUME ApiTypeOK, AcceptedIsSent, [ApiNext]_apiVars
    PROVE  AcceptedIsSent'
<1> SUFFICES ASSUME NEW r \in Requests
             PROVE  /\ stage'[r] # "awaiting"
                    /\ answer'[r] = 202 => Queued(r)' \/ HasLanded(r)' \/ failures' > 0
  BY DEF AcceptedIsSent
<1>a. /\ stage \in [Requests -> {"unsent", "awaiting", "answered"}]
      /\ answer \in [Requests -> {0, 202, 400, 500}]
      /\ failures \in Nat
      /\ \A s \in Requests : stage[s] # "awaiting"
      /\ answer[r] = 202 => Queued(r) \/ HasLanded(r) \/ failures > 0
      /\ HasLanded(r) => HasLanded(r)'
  BY LandedGrows DEF ApiTypeOK, AcceptedIsSent
<1>1. ASSUME NEW s \in Requests, NEW body \in Bodies, Reject(s, body)
      PROVE  /\ stage'[r] # "awaiting"
             /\ answer'[r] = 202 => Queued(r)' \/ HasLanded(r)' \/ failures' > 0
  BY <1>1, <1>a DEF Reject, Respond, Queued
<1>2. ASSUME NEW s \in Requests, NEW body \in Bodies, Fire(s, body)
      PROVE  /\ stage'[r] # "awaiting"
             /\ answer'[r] = 202 => Queued(r)' \/ HasLanded(r)' \/ failures' > 0
  <2>1. /\ \A i \in 1 .. Len(outbox) : outbox'[i] = outbox[i]
        /\ Len(outbox') = Len(outbox) + 1 /\ Len(outbox) \in Nat
        /\ outbox'[Len(outbox) + 1].record = EnvelopeOf(s, body)
    <3>1. Receive(s, body) /\ Send(s, body)
      BY <1>2 DEF Fire
    <3>2. PICK p \in Routes(body.ad) :
             /\ Len(outbox') = Len(outbox) + 1 /\ Len(outbox) \in Nat
             /\ \A i \in 1 .. Len(outbox) : outbox'[i] = outbox[i]
             /\ outbox'[Len(outbox) + 1] = [record |-> EnvelopeOf(s, body), to |-> p]
      BY <3>1, SendFacts
    <3> QED BY <3>2
  <2>2. EnvelopeOf(s, body).from = s
    BY DEF EnvelopeOf
  <2>3. r = s => Queued(r)'
    BY <2>1, <2>2 DEF Queued
  <2>4. Queued(r) => Queued(r)'
    BY <2>1 DEF Queued
  <2>5. stage'[r] # "awaiting" /\ (r # s => answer'[r] = answer[r]) /\ failures' = failures
    BY <1>2, <1>a DEF Fire, Respond
  <2> QED BY <1>a, <2>3, <2>4, <2>5
<1>3. ASSUME NEW i \in 1 .. Len(outbox), Deliver(i)
      PROVE  /\ stage'[r] # "awaiting"
             /\ answer'[r] = 202 => Queued(r)' \/ HasLanded(r)' \/ failures' > 0
  <2>1. UNCHANGED <<stage, answer, failures>> /\ outbox' = RemoveAt(outbox, i)
    BY <1>3 DEF Deliver
  <2>2. r = SenderOf(i) => HasLanded(r)'
    BY <1>3, AppendLands DEF Deliver
  <2>3. Queued(r) => Queued(r)' \/ HasLanded(r)'
    BY <2>1, <2>2, StillQueued
  <2> QED BY <1>a, <2>1, <2>3
<1>4. ASSUME Fail, UNCHANGED stage
      PROVE  stage'[r] # "awaiting" /\ failures' > 0
  BY <1>4, <1>a DEF Fail
<1>5. ASSUME NEW i \in 1 .. Len(outbox), Retry(i) \/ AppendUnacked(i) \/ GiveUp(i)
      PROVE  stage'[r] # "awaiting" /\ failures' > 0
  BY <1>4, <1>5 DEF Retry, AppendUnacked, GiveUp
<1>6. CASE ApiCrash
  BY <1>6, <1>a DEF ApiCrash, Fail
<1>7. ASSUME UNCHANGED <<stage, answer, outbox, failures>>
      PROVE  /\ stage'[r] # "awaiting"
             /\ answer'[r] = 202 => Queued(r)' \/ HasLanded(r)' \/ failures' > 0
  BY <1>7, <1>a DEF Queued
<1>8. CASE Start
  BY <1>7, <1>8 DEF Start
<1>9. CASE UNCHANGED apiVars
  BY <1>7, <1>9 DEF apiVars
\* The other actions are not this track's.
<1>10. ASSUME NEW s \in Requests, NEW body \in Bodies, SendThrows(s, body) \/ Await(s, body)
       PROVE  FALSE
  BY <1>10, OnlyTypeScript DEF SendThrows, Await, AnswersAtOnce
<1>11. ASSUME NEW s \in Requests, Settle(s) PROVE FALSE
  BY <1>11, <1>a DEF Settle
<1>12. ASSUME NEW i \in 1 .. Len(outbox), Written(i) PROVE FALSE
  BY <1>12, OnlyTypeScript DEF Written
<1> QED BY <1>1, <1>2, <1>3, <1>5, <1>6, <1>8, <1>9, <1>10, <1>11, <1>12 DEF ApiNext, Transmit

-----------------------------------------------------------------------------
(* The ledger of the lesson.                                                *)

LEMMA AcceptedIsSentHolds == SystemSpec => []AcceptedIsSent
<1>1. ApiInit => AcceptedIsSent
  BY DEF ApiInit, AcceptedIsSent
<1> QED BY <1>1, IngestKeepsAccepted, ApiInitTypeOK, ApiNextTypeOK, SystemIsApi, PTL DEF ApiSpec

\* However requests, retries, flushes, crashes and rebalances interleave, a
\* click that was answered with 202 is on its way, in the topic behind the
\* committed offset, in a bucket, stored, or lost in one of the known ways.
THEOREM AcceptedStaysAccountedFor == SystemSpec => []AcceptedIsAccountedFor
<1>1. ASSUME TypeOK, AcceptedIsSent, CommittedIsAccountedFor PROVE AcceptedIsAccountedFor
  <2> SUFFICES ASSUME NEW r \in Requests, answer[r] = 202, ~ Queued(r), HasLanded(r)
               PROVE  \E p \in Partitions : \E o \in Landed(r, p) :
                         o >= committed[p] \/ <<p, o>> \in Accounted
    BY <1>1 DEF AcceptedIsAccountedFor, AcceptedIsSent
  <2>1. PICK p \in Partitions : \E o \in Landed(r, p) : TRUE
    BY DEF HasLanded
  <2>2. PICK o \in Landed(r, p) : TRUE
    BY <2>1
  <2>3. o \in Nat /\ committed[p] \in Nat \cup {NoOffset}
    BY <1>1 DEF Landed, Offset, TypeOK, TopicTypeOK, LogTypeOK
  <2>4. CASE o < committed[p]
    <3>1. o \in 0 .. committed[p] - 1
      BY <2>3, <2>4 DEF NoOffset
    <3> QED BY <1>1, <3>1 DEF CommittedIsAccountedFor, Accounted
  <2> QED BY <2>3, <2>4 DEF NoOffset
<1>2. Spec => [](TypeOK /\ CommittedIsAccountedFor)
  BY TypeCorrect, CommittedStaysAccountedFor, PTL
<1> QED BY <1>1, <1>2, AcceptedIsSentHolds, PipelineImplementsAggregator, PTL
        DEF ImplementsAggregator

-----------------------------------------------------------------------------
(* The counts of the lesson.                                                *)

\* The clicks published for a row, or counted under a key, are the copies of
\* their records.
LEMMA ClicksAreCopies ==
    ASSUME TypeOK
    PROVE  /\ \A row \in Rows : ClicksOf(row) = CopiesWithin(RecordsOf(row))
           /\ \A k \in Keys : ClicksUnder(k) = CopiesWithin(RecordsUnder(k))
<1>1. ASSUME NEW p \in Partitions, NEW o \in Offset(p) PROVE RecordAt(p, o) \in Messages
  BY RecordsAreMessages
<1>2. ASSUME NEW row \in Rows
      PROVE  \A p \in Partitions : {o \in Offset(p) : RowOf(RecordAt(p, o)) = row}
                                       = {o \in Offset(p) : RecordAt(p, o) \in RecordsOf(row)}
  BY <1>1 DEF RecordsOf
<1>3. ASSUME NEW k \in Keys
      PROVE  \A p \in Partitions : {o \in Offset(p) : Key(RecordAt(p, o)) = k}
                                       = {o \in Offset(p) : RecordAt(p, o) \in RecordsUnder(k)}
  BY <1>1 DEF RecordsUnder
<1> QED BY <1>2, <1>3 DEF ClicksOf, ClicksUnder, CopiesWithin

\* Through retries and duplicates of the producer, failed, late and overlapping
\* inserts and crashes, a stored row shows no more clicks than clients sent for
\* its ad in its window, or with one other ad id that is stored in it, and one
\* more for each failure; until a rebalance hands a record to a living process
\* twice.
THEOREM StoredIsAlwaysReceived == SystemSpec => []StoredIsReceived
<1> DEFINE Bounded == \A K \in SUBSET Envelopes : CopiesBounded(K)
<1>1. ASSUME TypeOK, ApiTypeOK, NeverOvercounts, Bounded PROVE StoredIsReceived
  <2> SUFFICES ASSUME rebalances = 0, NEW row \in Rows
               PROVE  \/ table[row] <= Cardinality(RequestsFor(RecordsOf(row))) + failures
                      \/ \E k \in ForeignKeys(row) :
                            table[row] <= Cardinality(RequestsFor(RecordsUnder(k))) + failures
    BY DEF StoredIsReceived
  <2>1. /\ table[row] \in Nat
        /\ \/ table[row] <= Cardinality(ClicksOf(row))
           \/ \E k \in ForeignKeys(row) : table[row] <= Cardinality(ClicksUnder(k))
    BY <1>1 DEF NeverOvercounts, StoredWithinPublished, TypeOK
  <2>2. ASSUME NEW K \in SUBSET Envelopes, table[row] <= Cardinality(CopiesWithin(K))
        PROVE  table[row] <= Cardinality(RequestsFor(K)) + failures
    <3>1. /\ Cardinality(CopiesWithin(K)) <= Cardinality(RequestsFor(K)) + failures
          /\ Cardinality(CopiesWithin(K)) \in Nat
          /\ Cardinality(RequestsFor(K)) \in Nat
          /\ failures \in Nat
      BY <1>1, CopiesBoundedFacts, CopiesFinite DEF ApiTypeOK
    <3> QED BY <2>1, <2>2, <3>1
  <2>3. RecordsOf(row) \in SUBSET Envelopes /\ \A k \in Keys : RecordsUnder(k) \in SUBSET Envelopes
    BY WindowPipelineAssumption DEF RecordsOf, RecordsUnder
  <2>4. CASE table[row] <= Cardinality(ClicksOf(row))
    BY <1>1, <2>2, <2>3, <2>4, ClicksAreCopies
  <2>5. ASSUME NEW k \in ForeignKeys(row), table[row] <= Cardinality(ClicksUnder(k))
        PROVE  table[row] <= Cardinality(RequestsFor(RecordsUnder(k))) + failures
    <3>1. k \in Keys
      BY DEF ForeignKeys, KeysOf
    <3> QED BY <1>1, <2>2, <2>3, <2>5, <3>1, ClicksAreCopies
  <2> QED BY <2>1, <2>4, <2>5
<1>2. Spec => [](TypeOK /\ NeverOvercounts)
  BY TypeCorrect, StoredNeverExceedsPublished, PTL
<1>3. ApiSpec => [](ApiTypeOK /\ Bounded)
  BY ApiTypeCorrect, CopiesBoundedHolds, PTL
<1> QED BY <1>1, <1>2, <1>3, SystemIsApi, PipelineImplementsAggregator, PTL
        DEF ImplementsAggregator
=============================================================================
