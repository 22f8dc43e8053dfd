------------------------- MODULE FraudPipelineProofs -------------------------
(***************************************************************************)
(* Lesson 2 from end to end: the ingest-api and the processor each behave  *)
(* as their own module says, so that what is proved about them holds of    *)
(* the lesson; no one is flagged for clicks that were never sent, and a    *)
(* click the clock stamped is late only for a cause outside of it.         *)
(***************************************************************************)
EXTENDS FraudPipeline, IngestApiProofs, WatermarkProcessorProofs

-----------------------------------------------------------------------------
(* The two components.                                                      *)

LEMMA OnlyTypeScript == ApiTypeOK => track = "typescript"
BY FraudPipelineAssumption DEF ApiTypeOK

\* The processor leaves the ingest-api and the topic alone.
LEMMA ProcessIsSilent == Process => UNCHANGED apiVars
<1> SUFFICES ASSUME Process PROVE log' = log
  BY DEF Process, apiVars, sendingVars
<1> QED BY DEF Process, Boot, Handle, HandleFails, CommitHandled, Rebalance, Crash

LEMMA SystemIsApi == SystemSpec => ApiSpec
<1>1. SystemInit => ApiInit
  BY DEF SystemInit
<1>2. [SystemNext]_systemVars => [ApiNext]_apiVars
  BY ProcessIsSilent DEF SystemNext, Ingest, systemVars, vars, topicVars, sendingVars, apiVars
<1> QED BY <1>1, <1>2, PTL DEF SystemSpec, ApiSpec

\* A record in flight is one the processor expects, and on its way to the
\* partition it expects it in.
LEMMA InFlightIsExpected ==
    ASSUME RecordInv, FollowsKey, NEW i \in 1 .. Len(outbox)
    PROVE  outbox[i].record \in Messages /\ outbox[i].to = PartitionOf[outbox[i].record.ad]
<1>1. outbox[i].record \in Envelopes /\ outbox[i].record \in Records
  BY InFlightFacts DEF RecordInv, Records
<1>2. outbox[i].record.ad # Missing
  BY <1>1, OnlyTypeScript DEF RecordInv, AdsAreNamed
<1>3. outbox[i].record.ad \in Ads
  BY <1>1, <1>2 DEF Envelopes
<1> QED BY <1>1, <1>2, <1>3, FraudPipelineAssumption DEF FollowsKey

LEMMA SystemStepIsProcessorStep ==
    ASSUME RecordInv, FollowsKey, [SystemNext]_systemVars
    PROVE  [Next]_vars
<1>1. CASE Ingest
  <2>1. [ApiNext]_apiVars /\ UNCHANGED <<groupVars, processorVars>>
    BY <1>1 DEF Ingest
  <2>2. CASE log' = log
    BY <2>1, <2>2 DEF vars, topicVars, groupVars, processorVars
  <2>3. ASSUME NEW i \in 1 .. Len(outbox), AppendTo(outbox[i].to, outbox[i].record)
        PROVE  Next
    <3>1. PICK click \in Messages :
             click = outbox[i].record /\ outbox[i].to = PartitionOf[click.ad]
      BY InFlightIsExpected
    <3>2. Produce(click)
      BY <2>1, <2>3, <3>1 DEF Produce, AppendRecord, processorVars
    <3> QED BY <3>2 DEF Next
  <2> QED BY <2>1, <2>2, <2>3, LogSteps
<1>2. CASE Process
  BY <1>2 DEF Process, Next
<1> QED BY <1>1, <1>2 DEF SystemNext, systemVars

\* The ingest-api and its producer, whatever they refuse, retry, duplicate or
\* lose, do to the topic what the processor's own specification lets happen to
\* it: everything proved about the processor holds behind this ingest-api.
THEOREM PipelineImplementsProcessor == SystemSpec => ImplementsProcessor
<1>1. SystemInit => Init
  BY DEF SystemInit
<1>2. SystemSpec => [](RecordInv /\ FollowsKey)
  BY SystemIsApi, RecordInvHolds, FollowsKeyHolds, PTL
<1>3. RecordInv /\ FollowsKey /\ [SystemNext]_systemVars => [Next]_vars
  BY SystemStepIsProcessorStep
<1> QED BY <1>1, <1>2, <1>3, PTL DEF SystemSpec, Spec, ImplementsProcessor

-----------------------------------------------------------------------------
(* What the processor's verdicts say about the clients.                     *)

\* What a result is about was received by the ingest-api.
LEMMA ResultIsOfRecord ==
    ASSUME HistoryInv, ApiTypeOK, NEW i \in 1 .. Len(processed)
    PROVE  /\ ClickOf(processed[i]) \in Records
           /\ ClickOf(processed[i]).time \in Int
           /\ RequestOf(i) \in Requests
<1>1. processed[i] \in Results
  BY DEF HistoryInv, TypeOK
<1>2. PICK p \in Partitions, o \in Nat : processed[i].from = <<p, o>>
  BY <1>1 DEF Results
<1>3. o \in Offset(p) /\ ClickOf(processed[i]) = RecordAt(p, o)
  BY <1>2 DEF HistoryInv, ResultsAreOfRecords, ClickOf
<1>4. ClickOf(processed[i]) \in Records
  BY <1>3 DEF Records, Published
<1>5. ClickOf(processed[i]).time \in Int
  BY ResultsAreReadable DEF HistoryInv
<1> QED BY <1>4, <1>5, RecordsFrom DEF RequestOf

\* A click that is stamped on its arrival is late only after a click whose
\* client chose its time, or after one that was received when the late one was
\* already answered and that came to the processor out of turn: through
\* retries, duplicates, failing handlers and crashes.
THEOREM LateIsAlwaysForACause == SystemSpec => []StampedIsLateForACause
<1>1. ASSUME ApiTypeOK, StampInv, HistoryInv, HandedOutInOrder
      PROVE  StampedIsLateForACause
  <2> SUFFICES ASSUME NEW i \in 1 .. Len(processed),
                      StatusOf(i) = "late", IsStamped(RequestOf(i))
               PROVE  \E j \in 1 .. i - 1 :
                         \/ ~ IsStamped(RequestOf(j))
                         \/ <<RequestOf(i), RequestOf(j)>> \in precedes /\ ReadAhead(j, i)
    BY DEF StampedIsLateForACause
  <2>1. PICK j \in 1 .. i - 1 :
           ClickOf(processed[i]).time < ClickOf(processed[j]).time - Tolerance
    BY <1>1 DEF HistoryInv, LateMatchesHistory
  <2>2. j \in 1 .. Len(processed)
    BY <1>1 DEF HistoryInv, TypeOK
  <2>3. ClickOf(processed[i]) \in Records /\ ClickOf(processed[j]) \in Records
    BY <1>1, <2>2, ResultIsOfRecord
  <2>4. ClickOf(processed[i]).time < ClickOf(processed[j]).time
    BY <1>1, <2>1, <2>2, ResultIsOfRecord, ProcessorAssumption
  <2>5. IsStamped(RequestOf(j)) => <<RequestOf(i), RequestOf(j)>> \in precedes
    BY <1>1, <2>3, <2>4, OnlyTypeScript
       DEF RequestOf, StampInv, StampsFollowRequests, AnswersAtOnce
  <2>6. ReadAhead(j, i)
    <3>1. rebalances \in Nat
      BY <1>1 DEF HistoryInv, TypeOK, TopicTypeOK
    <3> QED BY <1>1, <3>1 DEF HandedOutInOrder, ReadAhead
  <2> QED BY <2>5, <2>6
<1>2. Spec => [](HistoryInv /\ HandedOutInOrder)
  BY HistoryInvHolds, HandedOutInOrderHolds, PTL
<1>3. ApiSpec => [](ApiTypeOK /\ StampInv)
  BY ApiTypeCorrect, StampInvHolds, PTL
<1> QED BY <1>1, <1>2, <1>3, SystemIsApi, PipelineImplementsProcessor, PTL
        DEF ImplementsProcessor

\* The clicks published for an ip and window are the copies of the records
\* counted there.
LEMMA ClicksAreCopies ==
    ASSUME TypeOK, NEW w
    PROVE  ClicksIn(w) = CopiesWithin(RecordsIn(w))
<1>1. ASSUME NEW p \in Partitions, NEW o \in Offset(p)
      PROVE  (RecordAt(p, o).time \notin Unreadable /\ IpWindow(RecordAt(p, o)) = w)
                 <=> RecordAt(p, o) \in RecordsIn(w)
  BY RecordsAreMessages DEF RecordsIn, Readable
<1>2. \A p \in Partitions :
         {o \in Offset(p) : /\ RecordAt(p, o).time \notin Unreadable
                            /\ IpWindow(RecordAt(p, o)) = w}
             = {o \in Offset(p) : RecordAt(p, o) \in RecordsIn(w)}
  BY <1>1
<1> QED BY <1>2 DEF ClicksIn, CopiesWithin

\* Through retries and duplicates of the producer, crashes and failing handlers
\* an ip is flagged only if more requests than the threshold allows came from
\* it for the window, counting one more for each failure; until a rebalance
\* hands a record to a living process twice.
THEOREM FraudIsAlwaysRequested == SystemSpec => []FraudIsRequested
<1> DEFINE Bounded == \A K \in SUBSET Envelopes : CopiesBounded(K)
<1>1. ASSUME TypeOK, ApiTypeOK, NoFalseFraud, Bounded PROVE FraudIsRequested
  <2> SUFFICES ASSUME rebalances = 0,
                      NEW i \in 1 .. Len(processed), StatusOf(i) = "fraud",
                      NEW w, w = IpWindow(ClickOf(processed[i]))
               PROVE  Cardinality(RequestsFor(RecordsIn(w))) + failures > FraudThreshold
    BY DEF FraudIsRequested
  <2>1. Cardinality(ClicksIn(w)) > FraudThreshold
    BY <1>1 DEF NoFalseFraud
  <2>2. CopiesBounded(RecordsIn(w))
    BY <1>1, FraudPipelineAssumption DEF RecordsIn, Readable
  <2>3. /\ Cardinality(CopiesWithin(RecordsIn(w)))
               <= Cardinality(RequestsFor(RecordsIn(w))) + failures
        /\ Cardinality(CopiesWithin(RecordsIn(w))) \in Nat
        /\ Cardinality(RequestsFor(RecordsIn(w))) \in Nat
        /\ failures \in Nat
    BY <1>1, <2>2, CopiesBoundedFacts, CopiesFinite DEF ApiTypeOK
  <2> QED BY <1>1, <2>1, <2>3, ClicksAreCopies, ProcessorAssumption
<1>2. Spec => [](TypeOK /\ NoFalseFraud)
  BY TypeCorrect, FraudIsAlwaysReal, PTL
<1>3. ApiSpec => [](ApiTypeOK /\ Bounded)
  BY ApiTypeCorrect, CopiesBoundedHolds, PTL
<1> QED BY <1>1, <1>2, <1>3, SystemIsApi, PipelineImplementsProcessor, PTL
        DEF ImplementsProcessor
=============================================================================
