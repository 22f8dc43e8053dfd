---------------------- MODULE WatermarkProcessorProofs ----------------------
(***************************************************************************)
(* Theorems about WatermarkProcessor, for every set of ads, ips and event  *)
(* times, every tolerance and threshold, any number of partitions, crashes *)
(* and rebalances.                                                         *)
(***************************************************************************)
EXTENDS WatermarkProcessor, KafkaTopicProofs

-----------------------------------------------------------------------------
LEMMA RecordsAreMessages ==
    ASSUME TypeOK, NEW p \in Partitions, NEW o \in Offset(p)
    PROVE  RecordAt(p, o) \in Messages
<1>1. log[p] \in Seq(Messages) /\ o + 1 \in 1 .. Len(log[p])
  BY DEF TypeOK, TopicTypeOK, LogTypeOK, Offset
<1> QED BY <1>1 DEF RecordAt

\* Times are integers, so comparing them with a watermark is arithmetic.
LEMMA WindowsOfClicks ==
    ASSUME NEW click \in Messages, click.time \notin Unreadable
    PROVE  click.time \in Int /\ IpWindow(click) \in IpWindows
BY ProcessorAssumption DEF Readable, IpWindows

\* What one successful call of process does, in terms of the click.
LEMMA HandleFacts ==
    ASSUME TypeOK, NEW p \in Partitions, Handle(p)
    PROVE  /\ position[p] \in Offset(p)
           /\ RecordAt(p, position[p]) \in Messages
           /\ RecordAt(p, position[p]).time \notin Unreadable
           /\ processed' = Append(processed, [from |-> <<p, position[p]>>,
                                              status |-> Status(RecordAt(p, position[p]))])
           /\ position' = [position EXCEPT ![p] = @ + 1]
           /\ UNCHANGED <<log, committed, rebalances, crashes, phase, resumedAt>>
<1>1. position[p] \in Offset(p)
  BY DEF Handle, HasNext, Offset, TypeOK, TopicTypeOK, LogTypeOK
<1> QED BY <1>1, RecordsAreMessages DEF Handle, Advance, Log

LEMMA InitTypeOK == Init => TypeOK
BY DEF Init, TopicInit, LogInit, TypeOK, TopicTypeOK, LogTypeOK, NoOffset, NoClicks

LEMMA NextTypeOK == TypeOK /\ [Next]_vars => TypeOK'
<1> SUFFICES ASSUME TypeOK, [Next]_vars PROVE TypeOK'
  OBVIOUS
<1>1. ASSUME NEW click \in Messages, Produce(click) PROVE TypeOK'
  <2>1. PartitionOf[click.ad] \in Partitions
    BY TopicAssumption, ProcessorAssumption
  <2>2. /\ AppendTo(PartitionOf[click.ad], click)
        /\ UNCHANGED groupVars
        /\ UNCHANGED <<phase, memory, resumedAt>>
    BY <1>1 DEF Produce, AppendRecord
  <2>3. log' \in [Partitions -> Seq(Messages)]
    BY <2>1, <2>2, AppendKeepsRecords DEF TypeOK, TopicTypeOK
  <2> QED BY <2>2, <2>3 DEF groupVars, TypeOK, TopicTypeOK, LogTypeOK, memory
<1>2. CASE Boot \/ Rebalance
  <2>1. [p \in Partitions |-> StartOffset(p)] \in [Partitions -> Nat]
    BY DEF TypeOK, TopicTypeOK, LogTypeOK, StartOffset, NoOffset
  <2> QED BY <1>2, <2>1 DEF Boot, Rebalance, Assign, TypeOK, TopicTypeOK, LogTypeOK, memory
<1>3. ASSUME NEW p \in Partitions, Handle(p) PROVE TypeOK'
  <2> DEFINE click == RecordAt(p, position[p])
  <2>1. click \in Messages /\ click.time \notin Unreadable
    BY <1>3, HandleFacts
  <2>2. click.time \in Int /\ IpWindow(click) \in IpWindows
    BY <2>1, WindowsOfClicks
  <2>3. FlagLate(click) \/ CountIp(click)
    BY <1>3 DEF Handle
  <2> HIDE DEF click
  <2>4. watermark' \in Nat /\ ipWindowCounts' \in [IpWindows -> Nat]
    <3>1. ipWindowCounts' \in [IpWindows -> Nat]
      <4>1. PICK w \in IpWindows : w = IpWindow(click)
        BY <2>2
      <4>2. \/ ipWindowCounts' = ipWindowCounts
            \/ ipWindowCounts' = [ipWindowCounts EXCEPT ![w] = @ + 1]
        BY <2>3, <4>1 DEF FlagLate, CountIp
      <4> QED BY <4>2 DEF TypeOK
    <3>2. watermark' = watermark \/ (watermark' = click.time /\ click.time > watermark)
      BY <2>3 DEF FlagLate, CountIp
    <3>3. watermark' \in Nat
      BY <2>2, <3>2 DEF TypeOK
    <3> QED BY <3>1, <3>3
  <2>5. processed' \in Seq(Results)
    <3>1. <<p, position[p]>> \in Partitions \X Nat /\ Status(click) \in Statuses
      BY DEF Status, Verdict, Statuses, TypeOK, TopicTypeOK, LogTypeOK
    <3>2. [from |-> <<p, position[p]>>, status |-> Status(click)]
            \in Results
      BY <3>1 DEF Results
    <3>3. processed' = Append(processed, [from |-> <<p, position[p]>>, status |-> Status(click)])
      BY <1>3, HandleFacts DEF click
    <3> QED BY <3>2, <3>3 DEF TypeOK
  <2>6. position' \in [Partitions -> Nat]
    BY <1>3 DEF Handle, Advance, TypeOK, TopicTypeOK, LogTypeOK
  <2> QED BY <1>3, <2>4, <2>5, <2>6 DEF Handle, TypeOK, TopicTypeOK, LogTypeOK
<1>4. ASSUME NEW p \in Partitions, HandleFails(p) \/ CommitHandled(p) PROVE TypeOK'
  <2>1. committed' \in [Partitions -> Nat \cup {NoOffset}]
    BY <1>4 DEF HandleFails, CommitAll, CommitHandled, CommitPosition, TypeOK, TopicTypeOK, LogTypeOK
  <2> QED BY <1>4, <2>1 DEF HandleFails, CommitHandled, TypeOK, TopicTypeOK, LogTypeOK, memory
<1>5. CASE Crash
  BY <1>5 DEF Crash, NoClicks, TypeOK, TopicTypeOK, LogTypeOK
<1>6. CASE UNCHANGED vars
  BY <1>6 DEF vars, topicVars, memory, TypeOK, TopicTypeOK, LogTypeOK
<1> QED BY <1>1, <1>2, <1>3, <1>4, <1>5, <1>6 DEF Next

\* Type correctness of the processor in every reachable state.
THEOREM TypeCorrect == Spec => []TypeOK
BY InitTypeOK, NextTypeOK, PTL DEF Spec

-----------------------------------------------------------------------------
\* The results stand for the whole history of this life.
HistoryInv ==
    /\ TypeOK
    /\ ResultsAreOfRecords
    /\ WatermarkIsNewest
    /\ CountsMatchLog
    /\ LateMatchesHistory
    /\ FraudMatchesHistory

\* A result keeps its click when records are appended.
LEMMA ProduceKeepsClicks ==
    ASSUME TypeOK, ResultsAreOfRecords, NEW rec \in Messages, Produce(rec),
           NEW i \in 1 .. Len(processed)
    PROVE  /\ ClickOf(processed[i])' = ClickOf(processed[i])
           /\ processed[i].from[2] \in Offset(processed[i].from[1])'
<1>1. PartitionOf[rec.ad] \in Partitions /\ AppendTo(PartitionOf[rec.ad], rec)
  BY TopicAssumption, ProcessorAssumption DEF Produce, AppendRecord
<1>2. processed[i] \in Results
  BY DEF TypeOK
<1>3. PICK p \in Partitions, o \in Nat : processed[i].from = <<p, o>>
  BY <1>2 DEF Results
<1>4. o \in Offset(p)
  BY <1>3 DEF ResultsAreOfRecords
<1>5. o \in Offset(p)' /\ RecordAt(p, o)' = RecordAt(p, o)
  BY <1>1, <1>4, AppendKeepsRecords DEF TypeOK, TopicTypeOK
<1>6. processed' = processed
  BY DEF Produce, memory
<1> QED BY <1>3, <1>5, <1>6 DEF ClickOf

\* Handling a record appends one result and leaves the others as they are.
LEMMA HandleAppendsResult ==
    ASSUME TypeOK, NEW p \in Partitions, Handle(p),
           NEW n \in Nat, n = Len(processed),
           NEW click, click = RecordAt(p, position[p])
    PROVE  /\ Len(processed') = n + 1
           /\ \A i \in 1 .. n : /\ processed'[i] = processed[i]
                                /\ StatusOf(i)' = StatusOf(i)
                                /\ ClickOf(processed[i])' = ClickOf(processed[i])
           /\ processed'[n + 1].from = <<p, position[p]>>
           /\ StatusOf(n + 1)' = Status(click)
           /\ ClickOf(processed[n + 1])' = click
           /\ log' = log
<1> DEFINE result == [from |-> <<p, position[p]>>, status |-> Status(click)]
<1>1. processed' = Append(processed, result) /\ log' = log
  BY HandleFacts
<1>2. processed \in Seq(Results)
  BY DEF TypeOK
<1>3. /\ Len(processed') = n + 1
      /\ \A i \in 1 .. n : processed'[i] = processed[i]
      /\ processed'[n + 1] = result
  BY <1>1, <1>2
<1>4. ASSUME NEW i \in 1 .. n
      PROVE  /\ StatusOf(i)' = StatusOf(i)
             /\ ClickOf(processed[i])' = ClickOf(processed[i])
  BY <1>1, <1>3 DEF StatusOf, ClickOf, RecordAt
<1>5. StatusOf(n + 1)' = Status(click) /\ processed'[n + 1].from = <<p, position[p]>>
  BY <1>3 DEF StatusOf
<1>6. ClickOf(processed[n + 1])' = RecordAt(p, position[p])
  BY <1>1, <1>5 DEF ClickOf, RecordAt
<1> QED BY <1>1, <1>3, <1>4, <1>5, <1>6

LEMMA ResultsAreReadable ==
    ASSUME TypeOK, ResultsAreOfRecords, NEW j \in 1 .. Len(processed)
    PROVE  ClickOf(processed[j]) \in Messages /\ ClickOf(processed[j]).time \in Int
<1>1. processed[j] \in Results
  BY DEF TypeOK
<1>2. /\ processed[j].from[1] \in Partitions
      /\ processed[j].from[2] \in Offset(processed[j].from[1])
      /\ ClickOf(processed[j]).time \notin Unreadable
  BY <1>1 DEF ResultsAreOfRecords, Results
<1>3. ClickOf(processed[j]) \in Messages
  BY <1>2, RecordsAreMessages DEF ClickOf
<1> QED BY <1>2, <1>3, WindowsOfClicks

\* The newcomer compares with the watermark as with all results before it.
LEMMA LateAgrees ==
    ASSUME HistoryInv, NEW click \in Messages, click.time \notin Unreadable
    PROVE  IsLate(click) <=>
             \E j \in 1 .. Len(processed) :
                 /\ ClickOf(processed[j]).time > 0
                 /\ click.time < ClickOf(processed[j]).time - Tolerance
<1>1. \A j \in 1 .. Len(processed) : ClickOf(processed[j]).time \in Int
  BY ResultsAreReadable DEF HistoryInv
<1>2. click.time \in Int /\ watermark \in Nat /\ Tolerance \in Nat
  BY WindowsOfClicks, ProcessorAssumption DEF HistoryInv, TypeOK
<1>3. ASSUME IsLate(click)
      PROVE  \E j \in 1 .. Len(processed) :
                 /\ ClickOf(processed[j]).time > 0
                 /\ click.time < ClickOf(processed[j]).time - Tolerance
  <2>1. watermark > 0 /\ click.time < watermark - Tolerance
    BY <1>3 DEF IsLate
  <2>2. PICK j \in 1 .. Len(processed) : ClickOf(processed[j]).time = watermark
    BY <2>1 DEF HistoryInv, WatermarkIsNewest
  <2> QED BY <2>1, <2>2
<1>4. ASSUME NEW j \in 1 .. Len(processed), ClickOf(processed[j]).time > 0,
             click.time < ClickOf(processed[j]).time - Tolerance
      PROVE  IsLate(click)
  <2>1. ClickOf(processed[j]).time <= watermark
    BY DEF HistoryInv, WatermarkIsNewest
  <2>2. watermark > 0 /\ click.time < watermark - Tolerance
    BY <1>1, <1>2, <1>4, <2>1
  <2> QED BY <2>2 DEF IsLate
<1> QED BY <1>3, <1>4

LEMMA CountedFinite ==
    ASSUME TypeOK, NEW w
    PROVE  IsFiniteSet(Counted(w)) /\ Cardinality(Counted(w)) \in Nat
<1>1. Len(processed) \in Nat
  BY DEF TypeOK
<1>2. IsFiniteSet(1 .. Len(processed))
  BY <1>1, FS_Interval
<1>3. Counted(w) \subseteq 1 .. Len(processed)
  BY DEF Counted
<1> QED BY <1>2, <1>3, FS_Subset, FS_CardinalityType

LEMMA HandleKeepsHistory ==
    ASSUME HistoryInv, NEW p \in Partitions, Handle(p)
    PROVE  /\ ResultsAreOfRecords' /\ WatermarkIsNewest' /\ CountsMatchLog'
           /\ LateMatchesHistory' /\ FraudMatchesHistory'
<1> USE DEF HistoryInv
<1>1. PICK n \in Nat : n = Len(processed)
  BY DEF TypeOK
<1>2. PICK click \in Messages : click = RecordAt(p, position[p]) /\ click.time \notin Unreadable
  BY HandleFacts
<1>3. /\ click.time \in Int /\ IpWindow(click) \in IpWindows
      /\ watermark \in Nat /\ ipWindowCounts \in [IpWindows -> Nat]
      /\ FraudThreshold \in Nat
  BY <1>2, WindowsOfClicks, ProcessorAssumption DEF TypeOK
<1>4. /\ Len(processed') = n + 1
      /\ \A i \in 1 .. n : /\ processed'[i] = processed[i]
                           /\ StatusOf(i)' = StatusOf(i)
                           /\ ClickOf(processed[i])' = ClickOf(processed[i])
      /\ processed'[n + 1].from = <<p, position[p]>>
      /\ StatusOf(n + 1)' = Status(click)
      /\ ClickOf(processed[n + 1])' = click
      /\ log' = log
  BY <1>1, <1>2, HandleAppendsResult
<1>5. FlagLate(click) \/ CountIp(click)
  BY <1>2 DEF Handle
\* The results have clicks with readable times and windows.
<1>6. ASSUME NEW i \in 1 .. n PROVE ClickOf(processed[i]).time \in Int
  BY <1>1, ResultsAreReadable
<1>7. ResultsAreOfRecords'
  <2>1. ASSUME NEW i \in 1 .. n
        PROVE  /\ (processed[i].from[2] \in Offset(processed[i].from[1]))'
               /\ (ClickOf(processed[i]).time \notin Unreadable)'
    <3>1. processed[i].from[2] \in Offset(processed[i].from[1]) /\ ClickOf(processed[i]).time \notin Unreadable
      BY <1>1 DEF ResultsAreOfRecords
    <3> QED BY <1>4, <3>1 DEF Offset
  <2>2. /\ (processed[n + 1].from[2] \in Offset(processed[n + 1].from[1]))'
        /\ (ClickOf(processed[n + 1]).time \notin Unreadable)'
    <3>1. position[p] \in Offset(p)
      BY HandleFacts
    <3> QED BY <1>2, <1>4, <3>1 DEF Offset
  <2>3. \A i \in 1 .. n + 1 : i \in 1 .. n \/ i = n + 1
    OBVIOUS
  <2> QED BY <1>4, <2>1, <2>2, <2>3 DEF ResultsAreOfRecords
<1>8. WatermarkIsNewest'
  <2>1. \/ watermark' = watermark /\ click.time <= watermark
        \/ watermark' = click.time /\ click.time > watermark
    BY <1>3, <1>5, ProcessorAssumption DEF FlagLate, CountIp, IsLate
  <2>2. ASSUME NEW i \in 1 .. n + 1 PROVE (ClickOf(processed[i]).time)' <= watermark'
    <3>1. CASE i = n + 1
      BY <1>3, <1>4, <2>1, <3>1
    <3>2. CASE i \in 1 .. n
      <4>1. (ClickOf(processed[i]).time)' = ClickOf(processed[i]).time
        BY <1>4, <3>2
      <4>2. ClickOf(processed[i]).time <= watermark
        BY <1>1, <3>2 DEF WatermarkIsNewest
      <4> QED BY <1>3, <1>6, <2>1, <3>2, <4>1, <4>2
    <3> QED BY <3>1, <3>2
  <2>3. ASSUME watermark' > 0 PROVE \E i \in 1 .. n + 1 : (ClickOf(processed[i]).time)' = watermark'
    <3>1. CASE watermark' = click.time
      <4>1. (ClickOf(processed[n + 1]).time)' = watermark' /\ n + 1 \in 1 .. n + 1
        BY <1>4, <3>1
      <4> QED BY <4>1
    <3>2. CASE watermark' = watermark
      <4>1. PICK i \in 1 .. n : ClickOf(processed[i]).time = watermark
        BY <1>1, <2>3, <3>2 DEF WatermarkIsNewest
      <4>2. (ClickOf(processed[i]).time)' = watermark' /\ i \in 1 .. n + 1
        BY <1>4, <3>2, <4>1
      <4> QED BY <4>2
    <3> QED BY <2>1, <3>1, <3>2
  <2> QED BY <1>4, <2>2, <2>3 DEF WatermarkIsNewest
<1>9. LateMatchesHistory'
  <2>1. ASSUME NEW i \in 1 .. n + 1
        PROVE  StatusOf(i)' = "late" <=>
                 \E j \in 1 .. i - 1 :
                    /\ (ClickOf(processed[j]).time)' > 0
                    /\ (ClickOf(processed[i]).time)' < (ClickOf(processed[j]).time)' - Tolerance
    <3>1. \A j \in 1 .. i - 1 :
             j \in 1 .. n /\ (ClickOf(processed[j]).time)' = ClickOf(processed[j]).time
      <4>1. \A j \in 1 .. i - 1 : j \in 1 .. n
        OBVIOUS
      <4> QED BY <1>4, <4>1
    <3>2. CASE i = n + 1
      <4>1. StatusOf(i)' = "late" <=> IsLate(click)
        BY <1>4, <3>2 DEF Status, Verdict
      <4>2. (ClickOf(processed[i]).time)' = click.time /\ 1 .. i - 1 = 1 .. n
        BY <1>4, <3>2
      <4> QED BY <1>1, <1>2, <3>1, <4>1, <4>2, LateAgrees
    <3>3. CASE i \in 1 .. n
      <4>1. StatusOf(i)' = StatusOf(i) /\ (ClickOf(processed[i]).time)' = ClickOf(processed[i]).time
        BY <1>4, <3>3
      <4> QED BY <1>1, <3>1, <3>3, <4>1 DEF LateMatchesHistory
    <3> QED BY <3>2, <3>3
  <2> QED BY <1>4, <2>1 DEF LateMatchesHistory
\* The results that raised a count, before and after.
<1>10. ASSUME NEW w
       PROVE  Counted(w)' = IF Status(click) # "late" /\ IpWindow(click) = w
                            THEN Counted(w) \cup {n + 1} ELSE Counted(w)
  <2>1. \A i \in 1 .. n + 1 : i \in 1 .. n \/ i = n + 1
    OBVIOUS
  <2>2. \A i \in 1 .. n : i \in Counted(w)' <=> i \in Counted(w)
    BY <1>1, <1>4 DEF Counted, IpWindow
  <2>3. n + 1 \in Counted(w)' <=> Status(click) # "late" /\ IpWindow(click) = w
    BY <1>4 DEF Counted, IpWindow
  <2>4. Counted(w) \subseteq 1 .. n /\ Counted(w)' \subseteq 1 .. n + 1 /\ n + 1 \notin 1 .. n
    BY <1>1, <1>4 DEF Counted
  <2> QED BY <2>1, <2>2, <2>3, <2>4
<1>11. Status(click) = "late" <=> IsLate(click)
  BY DEF Status, Verdict
<1>12. CountsMatchLog'
  <2>1. CASE IsLate(click)
    <3>1. ipWindowCounts' = ipWindowCounts
      BY <1>5, <2>1 DEF FlagLate, CountIp
    <3> QED BY <1>10, <1>11, <2>1, <3>1 DEF CountsMatchLog
  <2>2. CASE ~ IsLate(click)
    <3>1. PICK v \in IpWindows : v = IpWindow(click)
      BY <1>3
    <3>2. ipWindowCounts' = [ipWindowCounts EXCEPT ![v] = @ + 1]
      BY <1>5, <2>2, <3>1 DEF FlagLate, CountIp
    <3>3. ASSUME NEW w \in IpWindows PROVE ipWindowCounts'[w] = Cardinality(Counted(w)')
      <4>1. ipWindowCounts[w] = Cardinality(Counted(w)) /\ IsFiniteSet(Counted(w))
        BY CountedFinite DEF CountsMatchLog
      <4>2. CASE w = v
        <5>1. Counted(w)' = Counted(w) \cup {n + 1}
          BY <1>10, <1>11, <2>2, <3>1, <4>2
        <5>2. n + 1 \notin Counted(w)
          BY <1>1 DEF Counted
        <5>3. Cardinality(Counted(w)') = Cardinality(Counted(w)) + 1
          BY <4>1, <5>1, <5>2, FS_AddElement
        <5> QED BY <1>3, <3>2, <4>1, <4>2, <5>3
      <4>3. CASE w # v
        <5>1. Counted(w)' = Counted(w)
          BY <1>10, <3>1, <4>3
        <5> QED BY <1>3, <3>2, <4>1, <4>3, <5>1
      <4> QED BY <4>2, <4>3
    <3> QED BY <3>3 DEF CountsMatchLog
  <2> QED BY <2>1, <2>2
<1>13. FraudMatchesHistory'
  <2>1. ASSUME NEW i \in 1 .. n
        PROVE  StatusOf(i)' = StatusOf(i) /\ CountedBefore(i)' = CountedBefore(i)
    <3>1. \A j \in 1 .. i - 1 : j \in 1 .. n
      OBVIOUS
    <3> QED BY <1>4, <3>1 DEF CountedBefore, IpWindow
  <2>2. CountedBefore(n + 1)' = Counted(IpWindow(click))
    <3>1. (n + 1) - 1 = n
      OBVIOUS
    <3>2. IpWindow(ClickOf(processed[n + 1])') = IpWindow(click)
      BY <1>4
    <3> QED BY <1>1, <1>4, <3>1, <3>2 DEF CountedBefore, Counted, IpWindow
  <2>3. Cardinality(Counted(IpWindow(click))) = ipWindowCounts[IpWindow(click)]
    BY <1>3 DEF CountsMatchLog
  <2>4. Status(click) = "fraud" <=>
          Status(click) # "late" /\ ipWindowCounts[IpWindow(click)] >= FraudThreshold
    <3>1. PICK count \in Nat : count = ipWindowCounts[IpWindow(click)]
      BY <1>3
    <3> QED BY <1>3, <3>1 DEF Status, Verdict
  <2>5. \A i \in 1 .. n + 1 : i \in 1 .. n \/ i = n + 1
    OBVIOUS
  <2>6. \A i \in 1 .. n : StatusOf(i)' = "fraud" <=>
            StatusOf(i)' # "late" /\ Cardinality(CountedBefore(i)') >= FraudThreshold
    BY <1>1, <2>1 DEF FraudMatchesHistory
  <2>7. StatusOf(n + 1)' = "fraud" <=>
            StatusOf(n + 1)' # "late" /\ Cardinality(CountedBefore(n + 1)') >= FraudThreshold
    BY <1>4, <2>2, <2>3, <2>4
  <2> QED BY <1>4, <2>5, <2>6, <2>7 DEF FraudMatchesHistory
<1> QED BY <1>7, <1>8, <1>9, <1>12, <1>13

LEMMA InitHistoryInv == Init => HistoryInv
<1> SUFFICES ASSUME Init PROVE HistoryInv
  OBVIOUS
<1>1. /\ processed = << >> /\ Len(processed) = 0 /\ watermark = 0
      /\ \A w \in IpWindows : ipWindowCounts[w] = 0
  BY DEF Init, NoClicks
<1>2. \A w : Counted(w) = {}
  BY <1>1 DEF Counted
<1> QED BY <1>1, <1>2, InitTypeOK, FS_EmptySet
        DEF HistoryInv, ResultsAreOfRecords, WatermarkIsNewest, CountsMatchLog,
            LateMatchesHistory, FraudMatchesHistory

LEMMA NextHistoryInv == HistoryInv /\ [Next]_vars => HistoryInv'
<1> SUFFICES ASSUME HistoryInv, [Next]_vars
             PROVE  /\ ResultsAreOfRecords' /\ WatermarkIsNewest' /\ CountsMatchLog'
                    /\ LateMatchesHistory' /\ FraudMatchesHistory'
  BY NextTypeOK DEF HistoryInv
<1> DEFINE Goal == /\ ResultsAreOfRecords' /\ WatermarkIsNewest' /\ CountsMatchLog'
                   /\ LateMatchesHistory' /\ FraudMatchesHistory'
<1>1. ASSUME NEW rec \in Messages, Produce(rec) PROVE Goal
  <2>1. UNCHANGED <<watermark, ipWindowCounts, processed>>
    BY <1>1 DEF Produce, memory
  <2>2. \A i \in 1 .. Len(processed) :
           /\ ClickOf(processed[i])' = ClickOf(processed[i])
           /\ processed[i].from[2] \in Offset(processed[i].from[1])'
    BY <1>1, ProduceKeepsClicks DEF HistoryInv
  <2>3. \A i \in 1 .. Len(processed) :
           StatusOf(i)' = StatusOf(i) /\ \A j \in 1 .. i - 1 : j \in 1 .. Len(processed)
    BY <2>1 DEF StatusOf
  <2>4. ResultsAreOfRecords' /\ WatermarkIsNewest'
    BY <2>1, <2>2 DEF HistoryInv, ResultsAreOfRecords, WatermarkIsNewest, Offset
  <2>5. \A w : Counted(w)' = Counted(w)
    BY <2>1, <2>2, <2>3 DEF Counted, IpWindow
  <2>6. CountsMatchLog'
    BY <2>1, <2>5 DEF HistoryInv, CountsMatchLog
  <2>7. LateMatchesHistory'
    BY <2>1, <2>2, <2>3 DEF HistoryInv, LateMatchesHistory
  <2>8. \A i \in 1 .. Len(processed) : CountedBefore(i)' = CountedBefore(i)
    BY <2>1, <2>2, <2>3 DEF CountedBefore, IpWindow
  <2>9. FraudMatchesHistory'
    BY <2>1, <2>3, <2>8 DEF HistoryInv, FraudMatchesHistory
  <2> QED BY <2>4, <2>6, <2>7, <2>9
<1>2. ASSUME NEW p \in Partitions, Handle(p) PROVE Goal
  BY <1>2, HandleKeepsHistory
<1>3. CASE UNCHANGED <<log, memory>>
  BY <1>3 DEF memory, HistoryInv, ResultsAreOfRecords, WatermarkIsNewest, CountsMatchLog,
     Counted, CountedBefore, LateMatchesHistory, FraudMatchesHistory, StatusOf, ClickOf,
     RecordAt, Offset
<1>4. CASE Crash
  <2>1. /\ processed' = << >> /\ Len(processed') = 0 /\ watermark' = 0
        /\ \A w \in IpWindows : ipWindowCounts'[w] = 0
    BY <1>4 DEF Crash, NoClicks
  <2>2. \A w : Counted(w)' = {}
    BY <2>1 DEF Counted
  <2> QED BY <2>1, <2>2, FS_EmptySet
          DEF ResultsAreOfRecords, WatermarkIsNewest, CountsMatchLog,
              LateMatchesHistory, FraudMatchesHistory
<1> QED BY <1>1, <1>2, <1>3, <1>4
        DEF Next, Boot, HandleFails, CommitHandled, Rebalance, vars, topicVars

LEMMA HistoryInvHolds == Spec => []HistoryInv
BY InitHistoryInv, NextHistoryInv, PTL DEF Spec

\* The watermark stands for the whole history: a click is flagged late exactly
\* when one processed before it was newer by more than the tolerance.
THEOREM LateAlwaysMatchesHistory == Spec => []LateMatchesHistory
<1>1. HistoryInv => LateMatchesHistory
  BY DEF HistoryInv
<1> QED BY <1>1, HistoryInvHolds, PTL

\* The counts stand for the whole history: a click is flagged as fraud exactly
\* when the clicks of its ip and window before it used up the threshold.
THEOREM FraudAlwaysMatchesHistory == Spec => []FraudMatchesHistory
<1>1. HistoryInv => FraudMatchesHistory
  BY DEF HistoryInv
<1> QED BY <1>1, HistoryInvHolds, PTL

-----------------------------------------------------------------------------
\* Where the processor stands in the log, and what it has left behind.
OffsetInv ==
    /\ TypeOK
    /\ OffsetsOrdered
    /\ ResultsAreOfRecords
    /\ NothingPassesUnreadable
    /\ UnreadableIsNeverSkipped
    /\ HandledIsLogged

LEMMA InitOffsetInv == Init => OffsetInv
<1> SUFFICES ASSUME Init PROVE OffsetInv
  OBVIOUS
<1>1. processed = << >> /\ Len(processed) = 0
  BY DEF Init
<1>2. \A p \in Partitions : Offset(p) = {}
  BY DEF Init, TopicInit, LogInit, Offset
<1> QED BY <1>1, <1>2, InitTypeOK
        DEF Init, TopicInit, LogInit, OffsetInv, OffsetsOrdered, ResultsAreOfRecords,
            NothingPassesUnreadable, UnreadableIsNeverSkipped, HandledIsLogged, NoOffset

\* No step moves a position past the log or a commit past its position.
LEMMA NextOffsetsOrdered == TypeOK /\ OffsetsOrdered /\ [Next]_vars => OffsetsOrdered'
<1> SUFFICES ASSUME TypeOK, OffsetsOrdered, [Next]_vars PROVE OffsetsOrdered'
  OBVIOUS
<1>a. /\ log \in [Partitions -> Seq(Messages)]
      /\ committed \in [Partitions -> Nat \cup {NoOffset}]
      /\ position \in [Partitions -> Nat]
  BY DEF TypeOK, TopicTypeOK, LogTypeOK
<1>1. ASSUME NEW click \in Messages, Produce(click) PROVE OffsetsOrdered'
  <2>1. PartitionOf[click.ad] \in Partitions
    BY TopicAssumption, ProcessorAssumption
  <2>2. AppendTo(PartitionOf[click.ad], click) /\ UNCHANGED groupVars
    BY <1>1 DEF Produce, AppendRecord
  <2>3. /\ \A p \in Partitions : Len(log'[p]) >= Len(log[p])
        /\ log' \in [Partitions -> Seq(Messages)]
    BY <2>1, <2>2, AppendKeepsRecords DEF TypeOK, TopicTypeOK
  <2> QED BY <1>a, <2>2, <2>3 DEF groupVars, OffsetsOrdered
<1>2. CASE Boot \/ Rebalance
  <2>1. /\ position' = [p \in Partitions |-> StartOffset(p)]
        /\ UNCHANGED <<log, committed>>
    BY <1>2 DEF Boot, Rebalance, Assign
  <2> QED BY <2>1, <1>a, StartOffsetBehind DEF OffsetsOrdered, TypeOK
<1>3. ASSUME NEW q \in Partitions, Handle(q) PROVE OffsetsOrdered'
  <2>1. /\ position' = [position EXCEPT ![q] = @ + 1]
        /\ position[q] < Len(log[q])
        /\ UNCHANGED <<log, committed>>
    BY <1>3 DEF Handle, HasNext, Advance
  <2>2. \A p \in Partitions : /\ position'[p] <= Len(log[p])
                              /\ position[p] <= position'[p]
                              /\ position[p] \in Int /\ position'[p] \in Int
                              /\ committed[p] \in Int /\ committed[p] <= position[p]
    BY <2>1, <1>a DEF OffsetsOrdered, NoOffset
  <2> QED BY <2>1, <2>2 DEF OffsetsOrdered
<1>4. ASSUME NEW q \in Partitions, HandleFails(q) \/ CommitHandled(q) PROVE OffsetsOrdered'
  <2>1. /\ \A p \in Partitions : committed'[p] = committed[p] \/ committed'[p] = position[p]
        /\ UNCHANGED <<log, position>>
    BY <1>4, <1>a DEF HandleFails, CommitAll, CommitHandled, CommitPosition
  <2>2. ASSUME NEW p \in Partitions
        PROVE  committed'[p] <= position[p] /\ position[p] <= Len(log[p])
    <3>1. /\ position[p] \in Int /\ position[p] <= position[p]
          /\ committed[p] <= position[p] /\ position[p] <= Len(log[p])
      BY <1>a DEF OffsetsOrdered
    <3> QED BY <2>1, <3>1
  <2>3. position' = position /\ log' = log
    BY <2>1
  <2> QED BY <2>2, <2>3 DEF OffsetsOrdered
<1>5. CASE UNCHANGED <<log, committed, position>>
  BY <1>5 DEF OffsetsOrdered
<1> QED BY <1>1, <1>2, <1>3, <1>4, <1>5 DEF Next, Crash, vars, topicVars

LEMMA ProduceKeepsOffsetInv ==
    ASSUME OffsetInv, NEW rec \in Messages, Produce(rec)
    PROVE  /\ ResultsAreOfRecords' /\ NothingPassesUnreadable'
           /\ UnreadableIsNeverSkipped' /\ HandledIsLogged'
<1> USE DEF OffsetInv
<1>1. PICK q \in Partitions : q = PartitionOf[rec.ad]
  BY TopicAssumption, ProcessorAssumption
<1>2. AppendTo(q, rec) /\ UNCHANGED groupVars /\ UNCHANGED <<phase, memory, resumedAt>>
  BY <1>1 DEF Produce, AppendRecord
<1>3. UNCHANGED <<phase, committed, position, processed, resumedAt>>
  BY <1>2 DEF AppendTo, groupVars, memory
<1>4. /\ log \in [Partitions -> Seq(Messages)]
      /\ position \in [Partitions -> Nat]
      /\ committed \in [Partitions -> Nat \cup {NoOffset}]
  BY DEF TypeOK, TopicTypeOK, LogTypeOK
\* A new offset is the old length, which nobody is past.
<1>5. ASSUME NEW p \in Partitions, NEW o \in Offset(p)', o \notin Offset(p)
      PROVE  o \in Nat /\ Len(log[p]) <= o
  BY <1>2, <1>4, <1>5 DEF AppendTo, groupVars, Offset
<1>6. \A p \in Partitions : \A o \in Offset(p) : RecordAt(p, o)' = RecordAt(p, o)
  BY <1>2, AppendKeepsRecords DEF TypeOK, TopicTypeOK
<1>7. ResultsAreOfRecords'
  BY <1>3, ProduceKeepsClicks DEF ResultsAreOfRecords, Offset
<1>8. \A i \in 1 .. Len(processed) :
         /\ processed[i].from[1] \in Partitions /\ processed[i].from[2] \in Nat
         /\ processed[i].from[2] < Len(log[processed[i].from[1]])
  <2> SUFFICES ASSUME NEW i \in 1 .. Len(processed)
               PROVE  /\ processed[i].from[1] \in Partitions /\ processed[i].from[2] \in Nat
                      /\ processed[i].from[2] < Len(log[processed[i].from[1]])
    OBVIOUS
  <2>1. processed[i] \in Results
    BY DEF TypeOK
  <2>2. processed[i].from[2] \in Offset(processed[i].from[1])
    BY DEF ResultsAreOfRecords
  <2>3. PICK p \in Partitions, o \in Nat : processed[i].from = <<p, o>>
    BY <2>1 DEF Results
  <2>4. o \in 0 .. Len(log[p]) - 1 /\ Len(log[p]) \in Nat
    BY <1>4, <2>2, <2>3 DEF Offset
  <2> QED BY <2>3, <2>4
<1>9. ASSUME NEW p \in Partitions, NEW o \in Offset(p)', RecordAt(p, o)'.time \in Unreadable
      PROVE  /\ position[p] <= o /\ committed[p] <= o
             /\ \A i \in 1 .. Len(processed) : processed[i].from[1] = p => processed[i].from[2] < o
  <2>1. CASE o \in Offset(p)
    <3>1. RecordAt(p, o).time \in Unreadable
      BY <1>6, <1>9, <2>1
    <3> QED BY <2>1, <3>1 DEF NothingPassesUnreadable, UnreadableIsNeverSkipped
  <2>2. CASE o \notin Offset(p)
    <3>1. o \in Nat /\ Len(log[p]) <= o /\ Len(log[p]) \in Nat
      BY <1>4, <1>5, <2>2
    <3>2. position[p] \in Int /\ committed[p] \in Int
      BY <1>4 DEF NoOffset
    <3>3. position[p] <= o /\ committed[p] <= o
      BY <3>1, <3>2 DEF OffsetsOrdered
    <3> QED BY <1>8, <3>1, <3>3
  <2> QED BY <2>1, <2>2
<1>10. NothingPassesUnreadable' /\ UnreadableIsNeverSkipped'
  BY <1>3, <1>9 DEF NothingPassesUnreadable, UnreadableIsNeverSkipped
<1>11. HandledIsLogged'
  BY <1>3 DEF HandledIsLogged
<1> QED BY <1>7, <1>10, <1>11

LEMMA HandleKeepsOffsetInv ==
    ASSUME OffsetInv, NEW q \in Partitions, Handle(q)
    PROVE  /\ ResultsAreOfRecords' /\ NothingPassesUnreadable'
           /\ UnreadableIsNeverSkipped' /\ HandledIsLogged'
<1> USE DEF OffsetInv
<1>1. PICK n \in Nat, at \in Nat : n = Len(processed) /\ at = position[q]
  BY DEF TypeOK, TopicTypeOK, LogTypeOK
<1>2. PICK click \in Messages : click = RecordAt(q, at) /\ click.time \notin Unreadable
  BY <1>1, HandleFacts
<1>3. /\ Len(processed') = n + 1
      /\ \A i \in 1 .. n : /\ processed'[i] = processed[i]
                           /\ ClickOf(processed[i])' = ClickOf(processed[i])
      /\ processed'[n + 1].from = <<q, at>>
      /\ ClickOf(processed[n + 1])' = click
      /\ UNCHANGED <<log, committed, phase, resumedAt>>
      /\ position' = [position EXCEPT ![q] = @ + 1]
  BY <1>1, <1>2, HandleAppendsResult, HandleFacts
<1>4. /\ at \in Offset(q)
      /\ position \in [Partitions -> Nat] /\ resumedAt \in [Partitions -> Nat]
      /\ \A p \in Partitions : Offset(p) \subseteq Int /\ Offset(p)' = Offset(p)
  <2>1. at \in Offset(q)
    BY <1>1, HandleFacts
  <2>2. position \in [Partitions -> Nat] /\ resumedAt \in [Partitions -> Nat]
    BY DEF TypeOK, TopicTypeOK, LogTypeOK
  <2>3. \A p \in Partitions : Offset(p) \subseteq Int /\ Offset(p)' = Offset(p)
    BY <1>3 DEF Offset
  <2> QED BY <2>1, <2>2, <2>3
<1>5. \A i \in 1 .. n + 1 : i \in 1 .. n \/ i = n + 1
  OBVIOUS
<1>6. ResultsAreOfRecords'
  <2>1. \A i \in 1 .. n :
           /\ (processed[i].from[2] \in Offset(processed[i].from[1]))'
           /\ (ClickOf(processed[i]).time \notin Unreadable)'
    BY <1>1, <1>3 DEF ResultsAreOfRecords, Offset
  <2>2. /\ (processed[n + 1].from[2] \in Offset(processed[n + 1].from[1]))'
        /\ (ClickOf(processed[n + 1]).time \notin Unreadable)'
    BY <1>2, <1>3, <1>4 DEF Offset
  <2> QED BY <1>3, <1>5, <2>1, <2>2 DEF ResultsAreOfRecords
\* The record at the position was readable, so an unreadable one is behind it.
<1>7. ASSUME NEW p \in Partitions, NEW o \in Offset(p), RecordAt(p, o).time \in Unreadable
      PROVE  position'[p] <= o /\ (p = q => at < o)
  <2>1. position[p] <= o /\ position[p] \in Int /\ o \in Int
    BY <1>4, <1>7 DEF NothingPassesUnreadable
  <2>2. CASE p = q
    <3>1. at # o
      BY <1>2, <1>7, <2>2
    <3> QED BY <1>1, <1>3, <1>4, <2>1, <2>2, <3>1
  <2>3. CASE p # q
    BY <1>3, <1>4, <2>1, <2>3
  <2> QED BY <2>2, <2>3
<1>8. \A p \in Partitions : \A o \in Offset(p) : RecordAt(p, o)' = RecordAt(p, o)
  BY <1>3 DEF RecordAt
<1>9. NothingPassesUnreadable'
  BY <1>4, <1>7, <1>8 DEF NothingPassesUnreadable
<1>10. UnreadableIsNeverSkipped'
  <2>1. ASSUME NEW p \in Partitions, NEW o \in Offset(p), RecordAt(p, o).time \in Unreadable
        PROVE  /\ committed'[p] <= o
               /\ \A i \in 1 .. n + 1 : processed'[i].from[1] = p => processed'[i].from[2] < o
    <3>1. /\ committed'[p] <= o
          /\ \A i \in 1 .. n : processed'[i].from[1] = p => processed'[i].from[2] < o
      BY <1>1, <1>3, <2>1 DEF UnreadableIsNeverSkipped
    <3>2. processed'[n + 1].from[1] = p => processed'[n + 1].from[2] < o
      BY <1>3, <1>7, <2>1
    <3> QED BY <1>5, <3>1, <3>2
  <2> QED BY <1>3, <1>4, <1>8, <2>1 DEF UnreadableIsNeverSkipped
<1>11. HandledIsLogged'
  <2>1. ASSUME phase = "up", NEW p \in Partitions, NEW o \in resumedAt[p] .. position'[p] - 1
        PROVE  \E i \in 1 .. n + 1 : processed'[i].from = <<p, o>>
    <3>1. o \in resumedAt[p] .. position[p] - 1 \/ <<p, o>> = <<q, at>>
      BY <1>1, <1>3, <1>4
    <3>2. CASE o \in resumedAt[p] .. position[p] - 1
      <4>1. PICK i \in 1 .. n : processed[i].from = <<p, o>>
        BY <1>1, <2>1, <3>2 DEF HandledIsLogged
      <4>2. processed'[i].from = <<p, o>> /\ i \in 1 .. n + 1
        BY <1>3, <4>1
      <4> QED BY <4>2
    <3>3. CASE <<p, o>> = <<q, at>>
      <4>1. processed'[n + 1].from = <<p, o>> /\ n + 1 \in 1 .. n + 1
        BY <1>3, <3>3
      <4> QED BY <4>1
    <3> QED BY <3>1, <3>2, <3>3
  <2> QED BY <1>3, <2>1 DEF HandledIsLogged
<1> QED BY <1>6, <1>9, <1>10, <1>11

LEMMA NextOffsetInv == OffsetInv /\ [Next]_vars => OffsetInv'
<1> SUFFICES ASSUME OffsetInv, [Next]_vars
             PROVE  /\ ResultsAreOfRecords' /\ NothingPassesUnreadable'
                    /\ UnreadableIsNeverSkipped' /\ HandledIsLogged'
  BY NextTypeOK, NextOffsetsOrdered DEF OffsetInv
<1> DEFINE Goal == /\ ResultsAreOfRecords' /\ NothingPassesUnreadable'
                   /\ UnreadableIsNeverSkipped' /\ HandledIsLogged'
<1> USE DEF OffsetInv
<1>a. /\ position \in [Partitions -> Nat] /\ resumedAt \in [Partitions -> Nat]
      /\ committed \in [Partitions -> Nat \cup {NoOffset}]
      /\ \A p \in Partitions : Offset(p) \subseteq Int
  BY DEF TypeOK, TopicTypeOK, LogTypeOK, Offset
<1>1. ASSUME NEW rec \in Messages, Produce(rec) PROVE Goal
  BY <1>1, ProduceKeepsOffsetInv
<1>2. ASSUME NEW p \in Partitions, Handle(p) PROVE Goal
  BY <1>2, HandleKeepsOffsetInv
<1>3. CASE Boot \/ Rebalance
  <2>1. /\ position' = [p \in Partitions |-> StartOffset(p)]
        /\ UNCHANGED <<log, committed, processed>>
    BY <1>3 DEF Boot, Rebalance, Assign, memory
  <2>2. \A p \in Partitions : /\ position'[p] = StartOffset(p)
                              /\ StartOffset(p) \in Nat /\ StartOffset(p) <= position[p]
    BY <2>1, StartOffsetBehind DEF TypeOK
  <2>3. ResultsAreOfRecords' /\ UnreadableIsNeverSkipped'
    BY <2>1 DEF ResultsAreOfRecords, UnreadableIsNeverSkipped, ClickOf, RecordAt, Offset
  <2>4. NothingPassesUnreadable'
    <3>1. ASSUME NEW p \in Partitions, NEW o \in Offset(p), RecordAt(p, o).time \in Unreadable
          PROVE  position'[p] <= o
      <4>1. position[p] <= o /\ position[p] \in Int /\ o \in Int /\ position'[p] \in Int
        BY <1>a, <2>2, <3>1 DEF NothingPassesUnreadable
      <4> QED BY <2>2, <4>1
    <3> QED BY <2>1, <3>1 DEF NothingPassesUnreadable, RecordAt, Offset
  <2>5. HandledIsLogged'
    <3>1. CASE Boot
      <4>1. \A p \in Partitions : resumedAt'[p] .. position'[p] - 1 = {}
        BY <2>2, <3>1 DEF Boot
      <4> QED BY <4>1 DEF HandledIsLogged
    <3>2. CASE Rebalance
      <4>1. UNCHANGED <<phase, resumedAt>>
        BY <3>2 DEF Rebalance
      <4>2. \A p \in Partitions :
               resumedAt[p] .. position'[p] - 1 \subseteq resumedAt[p] .. position[p] - 1
        BY <1>a, <2>2
      <4> QED BY <2>1, <4>1, <4>2 DEF HandledIsLogged
    <3> QED BY <1>3, <3>1, <3>2
  <2> QED BY <2>3, <2>4, <2>5
<1>4. ASSUME NEW q \in Partitions, HandleFails(q) \/ CommitHandled(q) PROVE Goal
  <2>1. /\ \A p \in Partitions : committed'[p] = committed[p] \/ committed'[p] = position[p]
        /\ UNCHANGED <<log, position, phase, processed, resumedAt>>
    BY <1>4, <1>a DEF HandleFails, CommitAll, CommitHandled, CommitPosition, memory
  <2>2. ResultsAreOfRecords' /\ NothingPassesUnreadable' /\ HandledIsLogged'
    BY <2>1 DEF ResultsAreOfRecords, NothingPassesUnreadable, HandledIsLogged, ClickOf,
       RecordAt, Offset
  <2>3. ASSUME NEW p \in Partitions, NEW o \in Offset(p), RecordAt(p, o).time \in Unreadable
        PROVE  committed'[p] <= o
    BY <2>1, <2>3 DEF NothingPassesUnreadable, UnreadableIsNeverSkipped
  <2>4. UnreadableIsNeverSkipped'
    BY <2>1, <2>3 DEF UnreadableIsNeverSkipped, RecordAt, Offset
  <2> QED BY <2>2, <2>4
<1>5. CASE Crash
  <2>1. /\ processed' = << >> /\ Len(processed') = 0 /\ phase' = "down"
        /\ UNCHANGED <<log, committed, position>>
    BY <1>5 DEF Crash
  <2> QED BY <2>1 DEF ResultsAreOfRecords, NothingPassesUnreadable, UnreadableIsNeverSkipped,
          HandledIsLogged, RecordAt, Offset
<1>6. CASE UNCHANGED vars
  BY <1>6 DEF vars, topicVars, memory, ResultsAreOfRecords, NothingPassesUnreadable,
     UnreadableIsNeverSkipped, HandledIsLogged, ClickOf, RecordAt, Offset
<1> QED BY <1>1, <1>2, <1>3, <1>4, <1>5, <1>6 DEF Next

\* Whatever a life of the processor has moved past has a result, late or not.
THEOREM EveryHandledIsLogged == Spec => []HandledIsLogged
<1>1. OffsetInv => HandledIsLogged
  BY DEF OffsetInv
<1> QED BY <1>1, InitOffsetInv, NextOffsetInv, PTL DEF Spec

\* A record with an unreadable time holds its partition up over all lives.
THEOREM UnreadableHoldsItsPartition == Spec => []UnreadableIsNeverSkipped
<1>1. OffsetInv => UnreadableIsNeverSkipped
  BY DEF OffsetInv
<1> QED BY <1>1, InitOffsetInv, NextOffsetInv, PTL DEF Spec

-----------------------------------------------------------------------------
\* Until the first rebalance no record is handed out twice, or out of order.
LEMMA NextHandedOutInOrder == TypeOK /\ HandedOutInOrder /\ [Next]_vars => HandedOutInOrder'
<1> SUFFICES ASSUME TypeOK, HandedOutInOrder, [Next]_vars PROVE HandedOutInOrder'
  OBVIOUS
<1>a. /\ position \in [Partitions -> Nat] /\ rebalances \in Nat
      /\ processed \in Seq(Results) /\ Len(processed) \in Nat
      /\ phase = "down" => Len(processed) = 0
      /\ \A i \in 1 .. Len(processed) :
            processed[i].from[1] \in Partitions /\ processed[i].from[2] \in Nat
  <2>1. \A i \in 1 .. Len(processed) : processed[i] \in Results
    BY DEF TypeOK
  <2> QED BY <2>1 DEF TypeOK, TopicTypeOK, LogTypeOK, HandedOutInOrder, Results
<1>1. CASE UNCHANGED <<phase, processed, position, rebalances>>
  BY <1>1 DEF HandedOutInOrder
<1>2. CASE Boot
  <2>1. processed' = << >> /\ Len(processed') = 0
    BY <1>2 DEF Boot, memory, HandedOutInOrder
  <2> QED BY <2>1 DEF HandedOutInOrder
<1>3. ASSUME NEW q \in Partitions, Handle(q) PROVE HandedOutInOrder'
  <2>1. PICK n \in Nat : n = Len(processed)
    BY <1>a
  <2>2. /\ Len(processed') = n + 1
        /\ \A i \in 1 .. n : processed'[i] = processed[i]
        /\ processed'[n + 1].from = <<q, position[q]>>
    BY <1>3, <2>1, HandleAppendsResult
  <2>3. /\ phase = "up" /\ phase' = "up" /\ rebalances' = rebalances
        /\ position' = [position EXCEPT ![q] = @ + 1]
    BY <1>3 DEF Handle, Advance
  <2> SUFFICES ASSUME rebalances = 0, NEW i \in 1 .. n + 1
               PROVE  /\ processed'[i].from[2] < position'[processed'[i].from[1]]
                      /\ \A j \in 1 .. i - 1 :
                            processed'[j].from[1] = processed'[i].from[1] =>
                                processed'[j].from[2] < processed'[i].from[2]
    BY <2>2, <2>3 DEF HandedOutInOrder
  <2>4. ASSUME NEW k \in 1 .. n
        PROVE  /\ processed'[k].from[2] < position[processed'[k].from[1]]
               /\ processed'[k].from[1] \in Partitions /\ processed'[k].from[2] \in Nat
    BY <1>a, <2>1, <2>2 DEF HandedOutInOrder
  <2>5. processed'[i].from[2] < position'[processed'[i].from[1]]
    <3>1. CASE i = n + 1
      BY <3>1, <2>2, <2>3, <1>a
    <3>2. CASE i \in 1 .. n
      <4>1. PICK p \in Partitions, o \in Nat :
               p = processed'[i].from[1] /\ o = processed'[i].from[2] /\ o < position[p]
        BY <2>4, <3>2
      <4>2. position'[p] >= position[p]
        BY <2>3, <1>a
      <4> QED BY <4>1, <4>2, <1>a, <2>3
    <3> QED BY <3>1, <3>2
  <2>6. ASSUME NEW j \in 1 .. i - 1, processed'[j].from[1] = processed'[i].from[1]
        PROVE  processed'[j].from[2] < processed'[i].from[2]
    <3>0. j \in 1 .. n
      BY <2>1
    <3>1. CASE i = n + 1
      BY <2>2, <2>4, <2>6, <3>0, <3>1
    <3>2. CASE i \in 1 .. n
      BY <2>1, <2>2, <2>6, <3>0, <3>2 DEF HandedOutInOrder
    <3> QED BY <3>1, <3>2
  <2> QED BY <2>5, <2>6
<1>4. CASE Rebalance
  <2>1. rebalances' # 0 /\ phase' = "up"
    BY <1>4, <1>a DEF Rebalance
  <2> QED BY <2>1 DEF HandedOutInOrder
<1>5. CASE Crash
  <2>1. processed' = << >> /\ Len(processed') = 0
    BY <1>5 DEF Crash
  <2> QED BY <2>1 DEF HandedOutInOrder
<1>6. CASE \/ \E click \in Messages : Produce(click)
           \/ \E p \in Partitions : HandleFails(p) \/ CommitHandled(p)
           \/ UNCHANGED vars
  BY <1>1, <1>6 DEF Produce, AppendRecord, AppendTo, groupVars, HandleFails, CommitHandled, memory, vars,
     topicVars
<1> QED BY <1>2, <1>3, <1>4, <1>5, <1>6 DEF Next

LEMMA HandedOutInOrderHolds == Spec => []HandedOutInOrder
<1>1. Init => HandedOutInOrder
  <2> SUFFICES ASSUME Init PROVE HandedOutInOrder
    OBVIOUS
  <2>1. processed = << >> /\ Len(processed) = 0
    BY DEF Init
  <2> QED BY <2>1 DEF HandedOutInOrder
<1> QED BY <1>1, InitTypeOK, NextTypeOK, NextHandedOutInOrder, PTL DEF Spec

\* The clicks of an ip in a window are finitely many.
LEMMA ClicksInFinite ==
    ASSUME TypeOK, NEW w
    PROVE  IsFiniteSet(ClicksIn(w)) /\ Cardinality(ClicksIn(w)) \in Nat
<1>1. ClicksIn(w) \in SUBSET (UNION {{p} \X Offset(p) : p \in Partitions})
  BY DEF ClicksIn
<1> QED BY <1>1, PlacesFinite DEF TypeOK, TopicTypeOK

\* Until the first rebalance an ip is flagged only if more clicks were
\* published for it in the window than the threshold allows: the count is never
\* raised by a restart, a failing handler or a late click.
THEOREM FraudIsAlwaysReal == Spec => []NoFalseFraud
<1>1. ASSUME HistoryInv, HandedOutInOrder PROVE NoFalseFraud
  <2> SUFFICES ASSUME rebalances = 0, NEW i \in 1 .. Len(processed), StatusOf(i) = "fraud"
               PROVE  Cardinality(ClicksIn(IpWindow(ClickOf(processed[i])))) > FraudThreshold
    BY DEF NoFalseFraud
  <2> DEFINE w == IpWindow(ClickOf(processed[i]))
             before == CountedBefore(i)
             flagged == before \cup {i}
             origin == [j \in flagged |-> processed[j].from]
  <2>a. Len(processed) \in Nat /\ i \in Nat /\ 1 <= i /\ i <= Len(processed)
    BY <1>1 DEF HistoryInv, TypeOK
  <2>1. /\ before \subseteq 1 .. i - 1 /\ IsFiniteSet(before)
        /\ Cardinality(before) \in Nat /\ Cardinality(before) >= FraudThreshold
    <3>1. before \subseteq 1 .. i - 1
      BY DEF CountedBefore
    <3>2. IsFiniteSet(1 .. i - 1)
      BY <2>a, FS_Interval
    <3>3. IsFiniteSet(before) /\ Cardinality(before) \in Nat
      BY <3>1, <3>2, FS_Subset, FS_CardinalityType
    <3> QED BY <1>1, <3>1, <3>3 DEF HistoryInv, FraudMatchesHistory
  <2>2. i \notin before /\ flagged \subseteq 1 .. Len(processed)
    BY <2>a, <2>1
  <2>3. Cardinality(flagged) = Cardinality(before) + 1
    BY <2>1, <2>2, FS_AddElement
  <2>4. ASSUME NEW j \in flagged PROVE processed[j].from \in ClicksIn(w)
    <3>1. j \in 1 .. Len(processed) /\ IpWindow(ClickOf(processed[j])) = w
      BY <2>2 DEF CountedBefore
    <3>2. processed[j] \in Results
      BY <1>1, <3>1 DEF HistoryInv, TypeOK
    <3>3. PICK p \in Partitions, o \in Nat : processed[j].from = <<p, o>>
      BY <3>2 DEF Results
    <3>4. o \in Offset(p) /\ ClickOf(processed[j]) = RecordAt(p, o)
      BY <1>1, <3>1, <3>3 DEF HistoryInv, ResultsAreOfRecords, ClickOf
    <3>5. RecordAt(p, o) \in Messages /\ RecordAt(p, o).time \notin Unreadable
      BY <1>1, <3>1, <3>4, ResultsAreReadable DEF HistoryInv, ResultsAreOfRecords
    <3> QED BY <3>1, <3>3, <3>4, <3>5 DEF ClicksIn
  <2>5. origin \in Injection(flagged, ClicksIn(w))
    <3>1. ASSUME NEW j \in flagged, NEW k \in flagged, j < k PROVE origin[j] # origin[k]
      <4>1. /\ j \in 1 .. k - 1 /\ k \in 1 .. Len(processed)
            /\ processed[j].from = origin[j] /\ processed[k].from = origin[k]
        BY <2>a, <2>2, <3>1
      <4>2. processed[k] \in Results
        BY <1>1, <4>1 DEF HistoryInv, TypeOK
      <4>3. processed[k].from[2] \in Nat
        BY <4>2 DEF Results
      <4>4. processed[j].from[1] = processed[k].from[1]
               => processed[j].from[2] < processed[k].from[2]
        BY <1>1, <4>1 DEF HandedOutInOrder
      <4>5. processed[j].from # processed[k].from
        BY <4>3, <4>4
      <4> QED BY <4>1, <4>5
    <3>2. ASSUME NEW j \in flagged, NEW k \in flagged, origin[j] = origin[k] PROVE j = k
      <4>1. j \in Nat /\ k \in Nat
        BY <2>a, <2>2
      <4>2. ~ j < k /\ ~ k < j
        BY <3>1, <3>2
      <4> QED BY <4>1, <4>2
    <3> QED BY <2>4, <3>2 DEF Injection, IsInjective
  <2>6. IsFiniteSet(ClicksIn(w)) /\ Cardinality(ClicksIn(w)) \in Nat
    BY <1>1, ClicksInFinite DEF HistoryInv
  <2>7. Cardinality(flagged) <= Cardinality(ClicksIn(w))
    BY <2>5, <2>6, FS_Injection
  <2> HIDE DEF before, flagged, w
  <2>8. Cardinality(ClicksIn(w)) > FraudThreshold
    BY <2>1, <2>3, <2>6, <2>7, ProcessorAssumption
  <2> QED BY <2>8 DEF w
<1> QED BY <1>1, HistoryInvHolds, HandedOutInOrderHolds, PTL

-----------------------------------------------------------------------------
(* The abstract classifier.                                                 *)

\* A sequence with one more element, as a function.
LEMMA AppendIsFunction ==
    ASSUME NEW n \in Nat, NEW f, f = [i \in 1 .. n |-> f[i]], NEW e
    PROVE  Append(f, e) = [i \in 1 .. n + 1 |-> IF i = n + 1 THEN e ELSE f[i]]
<1> DEFINE S == {f[i] : i \in 1 .. n} \cup {e}
<1>1. f \in Seq(S) /\ Len(f) = n
  OBVIOUS
<1>2. /\ Append(f, e) \in Seq(S) /\ Len(Append(f, e)) = n + 1
      /\ \A i \in 1 .. n : Append(f, e)[i] = f[i]
      /\ Append(f, e)[n + 1] = e
  BY <1>1
<1> HIDE DEF S
<1>3. Append(f, e) = [i \in 1 .. n + 1 |-> Append(f, e)[i]]
  BY <1>2
<1> QED BY <1>2, <1>3

\* Handling a record is the abstract judgement on its click: the watermark and
\* the counts decide as the verdicts do.
LEMMA HandleJudges ==
    ASSUME HistoryInv, NEW p \in Partitions, Handle(p)
    PROVE  \E c \in {AsClick(m) : m \in Readable} : Abstract!Judge(c)
<1> USE DEF HistoryInv
<1>1. PICK n \in Nat : n = Len(processed)
  BY DEF TypeOK
<1>2. PICK click \in Messages : click = RecordAt(p, position[p]) /\ click.time \notin Unreadable
  BY HandleFacts
<1>3. /\ Len(processed') = n + 1
      /\ \A i \in 1 .. n : /\ StatusOf(i)' = StatusOf(i)
                           /\ ClickOf(processed[i])' = ClickOf(processed[i])
      /\ StatusOf(n + 1)' = Status(click)
      /\ ClickOf(processed[n + 1])' = click
      /\ log' = log
  BY <1>1, <1>2, HandleAppendsResult
<1> DEFINE verdicts == [i \in 1 .. Len(processed) |-> Judged(i)]
           c == AsClick(click)
           verdict == [click |-> c, status |-> Status(click)]
<1>4. /\ Len(verdicts) = n
      /\ \A i \in 1 .. n : /\ verdicts[i] = Judged(i)
                           /\ verdicts[i].status = StatusOf(i)
                           /\ verdicts[i].click.time = ClickOf(processed[i]).time
                           /\ verdicts[i].click.window = IpWindow(ClickOf(processed[i]))
  BY <1>1 DEF Judged, AsClick
<1>5. c.time = click.time /\ c.window = IpWindow(click)
  BY DEF AsClick
<1>6. Abstract!IsStale(c) <=> IsLate(click)
  <2>1. Abstract!IsStale(c) <=> \E i \in 1 .. n : /\ ClickOf(processed[i]).time > 0
                                                  /\ click.time < ClickOf(processed[i]).time - Tolerance
    BY <1>4, <1>5 DEF Abstract!IsStale
  <2> QED BY <1>1, <1>2, <2>1, LateAgrees
<1>7. Abstract!Charged(c.window) = Counted(IpWindow(click))
  BY <1>1, <1>4, <1>5 DEF Abstract!Charged, Counted
<1>8. Abstract!VerdictOn(c) = Status(click)
  <2>1. PICK count \in Nat : count = ipWindowCounts[IpWindow(click)]
    BY <1>2, WindowsOfClicks DEF TypeOK
  <2>2. Abstract!Cardinality(Abstract!Charged(c.window)) = count
    <3>1. Cardinality(Counted(IpWindow(click))) = count
      BY <1>2, <2>1, WindowsOfClicks DEF CountsMatchLog
    <3>2. Abstract!Cardinality(Counted(IpWindow(click)))
             = Cardinality(Counted(IpWindow(click)))
      BY DEF Abstract!Cardinality, Cardinality
    <3> QED BY <1>7, <3>1, <3>2
  <2>3. count >= FraudThreshold <=> count + 1 > FraudThreshold
    BY <2>1, ProcessorAssumption
  <2> QED BY <1>6, <2>1, <2>2, <2>3 DEF Abstract!VerdictOn, Status, Verdict
<1>9. verdicts' = Append(verdicts, verdict)
  <2>1. \A i \in 1 .. n : Judged(i)' = Judged(i)
    BY <1>3 DEF Judged, AsClick, IpWindow
  <2>2. Judged(n + 1)' = verdict
    BY <1>3 DEF Judged, AsClick, IpWindow
  <2>3. verdicts' = [i \in 1 .. n + 1 |-> Judged(i)']
    BY <1>3
  <2>4. Append(verdicts, verdict)
           = [i \in 1 .. n + 1 |-> IF i = n + 1 THEN verdict ELSE verdicts[i]]
    BY <1>1, AppendIsFunction
  <2>5. \A i \in 1 .. n + 1 : Judged(i)' = IF i = n + 1 THEN verdict ELSE verdicts[i]
    <3>1. \A i \in 1 .. n + 1 : i = n + 1 \/ i \in 1 .. n
      OBVIOUS
    <3> HIDE DEF verdicts, verdict
    <3> QED BY <1>4, <2>1, <2>2, <3>1
  <2> HIDE DEF verdicts, verdict
  <2> QED BY <2>3, <2>4, <2>5
<1>10. Published' = Published /\ click \in Published /\ click \in Readable
  <2>1. position[p] \in Offset(p)
    BY HandleFacts
  <2> QED BY <1>2, <1>3, <2>1 DEF Published, Offset, RecordAt, Readable
<1>11. Abstract!Judge(c)
  BY <1>8, <1>9, <1>10 DEF Abstract!Judge
<1> QED BY <1>10, <1>11

\* Every step of the processor is a step of the abstract classifier, or none.
LEMMA StepJudges == HistoryInv /\ [Next]_vars => [Abstract!Next]_(Abstract!vars)
<1> SUFFICES ASSUME HistoryInv, [Next]_vars PROVE [Abstract!Next]_(Abstract!vars)
  OBVIOUS
<1> USE DEF Abstract!Next, Abstract!vars
<1> DEFINE verdicts == [i \in 1 .. Len(processed) |-> Judged(i)]
<1>1. ASSUME NEW rec \in Messages, Produce(rec) PROVE [Abstract!Next]_(Abstract!vars)
  <2>1. PartitionOf[rec.ad] \in Partitions /\ AppendTo(PartitionOf[rec.ad], rec)
    BY <1>1, TopicAssumption, ProcessorAssumption DEF Produce, AppendRecord
  <2>2. Published' = Published \cup {rec}
    BY <2>1, AppendKeepsRecords DEF HistoryInv, TypeOK, TopicTypeOK
  <2>3. verdicts' = verdicts
    <3>1. processed' = processed
      BY <1>1 DEF Produce, memory
    <3>2. \A i \in 1 .. Len(processed) : Judged(i)' = Judged(i)
      BY <1>1, <3>1, ProduceKeepsClicks DEF HistoryInv, Judged, AsClick, IpWindow, StatusOf
    <3> QED BY <3>1, <3>2
  <2> HIDE DEF verdicts
  <2>4. CASE rec \in Readable
    <3>1. {AsClick(m) : m \in Published' \cap Readable}
             = {AsClick(m) : m \in Published \cap Readable} \cup {AsClick(rec)}
      BY <2>2, <2>4
    <3>2. Abstract!Publish(AsClick(rec))
      BY <2>3, <3>1 DEF Abstract!Publish, verdicts
    <3> QED BY <2>4, <3>2
  <2>5. CASE rec \notin Readable
    <3>1. Published' \cap Readable = Published \cap Readable
      BY <2>2, <2>5
    <3> QED BY <2>3, <3>1 DEF verdicts
  <2> QED BY <2>4, <2>5
<1>2. ASSUME NEW p \in Partitions, Handle(p) PROVE Abstract!Next
  BY <1>2, HandleJudges
<1>3. ASSUME log' = log PROVE Published' = Published
  BY <1>3 DEF Published, Offset, RecordAt
<1>4. CASE Crash
  <2>1. Published' = Published /\ Len(processed') = 0
    BY <1>3, <1>4 DEF Crash
  <2>2. verdicts' = << >>
    BY <2>1
  <2> QED BY <2>1, <2>2 DEF Abstract!Forget
<1>5. CASE UNCHANGED <<log, memory>>
  <2>1. Published' = Published /\ verdicts' = verdicts
    BY <1>3, <1>5 DEF memory, Judged, AsClick, IpWindow, ClickOf, StatusOf, RecordAt
  <2> QED BY <2>1
<1>6. CASE \/ Boot \/ Rebalance \/ UNCHANGED vars
           \/ \E p \in Partitions : HandleFails(p) \/ CommitHandled(p)
  BY <1>5, <1>6 DEF Boot, Rebalance, HandleFails, CommitHandled, vars, topicVars
<1> QED BY <1>1, <1>2, <1>4, <1>6 DEF Next

\* The processor implements the abstract classifier: whatever is redelivered,
\* refused or forgotten, the watermark and the counts say of the past what the
\* results of this life say.
THEOREM ProcessorImplementsClickClassifier == Spec => JudgesByHistory
<1>1. Init => Abstract!Init
  BY DEF Init, TopicInit, LogInit, Abstract!Init, Published, Offset
<1> QED BY <1>1, StepJudges, InitHistoryInv, NextHistoryInv, PTL
        DEF Spec, JudgesByHistory, Abstract!Spec
=============================================================================
