----------------------- MODULE WindowAggregatorProofs -----------------------
(***************************************************************************)
(* Theorems about WindowAggregator, for every set of ads, event times and  *)
(* partitions, every window length and any number of concurrent flushes,   *)
(* failed inserts and crashes.                                             *)
(***************************************************************************)
EXTENDS WindowAggregator, KafkaTopicProofs

-----------------------------------------------------------------------------
LEMMA RecordsAreMessages ==
    ASSUME TypeOK, NEW p \in Partitions, NEW o \in Offset(p)
    PROVE  RecordAt(p, o) \in Messages /\ Key(RecordAt(p, o)) \in Keys
<1>1. log[p] \in Seq(Messages) /\ o + 1 \in 1 .. Len(log[p])
  BY DEF TypeOK, TopicTypeOK, LogTypeOK, Offset
<1> QED BY <1>1 DEF RecordAt, Keys

\* What an insert leaves in a row is what was there, or the count of a key that
\* is stored in it.
LEMMA UpsertFacts ==
    ASSUME table \in [Rows -> Nat], NEW counts \in [Keys -> Nat], NEW t \in Upsert(counts)
    PROVE  /\ t \in [Rows -> Nat]
           /\ \A r \in Rows : t[r] = table[r] \/ \E k \in KeysOf(r) : t[r] = counts[k]
<1>1. ASSUME NEW r \in Rows
      PROVE  /\ Latest(counts, r) \subseteq Nat
             /\ \A n \in Latest(counts, r) : n = table[r] \/ \E k \in KeysOf(r) : n = counts[k]
  BY DEF Latest, KeysOf
<1>2. /\ t \in [Rows -> UNION {Latest(counts, r) : r \in Rows}]
      /\ \A r \in Rows : t[r] \in Latest(counts, r)
  BY DEF Upsert
<1> QED BY <1>1, <1>2

LEMMA InitTypeOK == Init => TypeOK
BY DEF Init, TopicInit, LogInit, TypeOK, TopicTypeOK, LogTypeOK, NoOffset, EmptyBuckets, Deliveries

LEMMA NextTypeOK == TypeOK /\ [Next]_vars => TypeOK'
<1> SUFFICES ASSUME TypeOK, [Next]_vars PROVE TypeOK'
  OBVIOUS
<1>1. ASSUME NEW click \in Messages, Produce(click) PROVE TypeOK'
  <2>1. PartitionOf[click.ad] \in Partitions
    BY TopicAssumption, AggregatorAssumption
  <2>2. /\ AppendTo(PartitionOf[click.ad], click)
        /\ UNCHANGED groupVars
        /\ UNCHANGED <<phase, buckets, flush, batch, strays, table, insertFailures, aux>>
    BY <1>1 DEF Produce, AppendRecord
  <2>3. log' \in [Partitions -> Seq(Messages)]
    BY <2>1, <2>2, AppendKeepsRecords DEF TypeOK, TopicTypeOK
  <2> QED BY <2>2, <2>3 DEF groupVars, TypeOK, TopicTypeOK, LogTypeOK, aux
<1>2. CASE Boot \/ Rebalance \/ Initialise
  <2>1. [p \in Partitions |-> StartOffset(p)] \in [Partitions -> Nat]
    BY DEF TypeOK, TopicTypeOK, LogTypeOK, StartOffset, NoOffset
  <2> QED BY <1>2, <2>1 DEF Boot, Rebalance, Initialise, Assign, TypeOK, TopicTypeOK, LogTypeOK, aux,
          topicVars
<1>3. ASSUME NEW p \in Partitions, Handle(p) PROVE TypeOK'
  <2>1. position[p] \in Offset(p) /\ <<p, position[p]>> \in Deliveries
    BY <1>3 DEF Handle, HasNext, Offset, TypeOK, TopicTypeOK, LogTypeOK, Deliveries
  <2>2. PICK k \in Keys : buckets' = [buckets EXCEPT ![k] = @ + 1]
    BY <1>3, <2>1, RecordsAreMessages DEF Handle, Count
  <2>3. buckets' \in [Keys -> Nat]
    BY <2>2 DEF TypeOK
  <2>4. position' \in [Partitions -> Nat]
    BY <1>3 DEF Handle, Advance, TypeOK, TopicTypeOK, LogTypeOK
  <2>5. bucketed' \subseteq Deliveries /\ overlapped' \subseteq Deliveries
    BY <1>3, <2>1 DEF Handle, TypeOK
  <2> QED BY <1>3, <2>3, <2>4, <2>5 DEF Handle, TypeOK, TopicTypeOK, LogTypeOK
<1>4. ASSUME NEW p \in Partitions, CommitHandled(p) PROVE TypeOK'
  BY <1>4 DEF CommitHandled, CommitPosition, TypeOK, TopicTypeOK, LogTypeOK, aux
<1>5. ASSUME NEW f \in Flushers, FlushStart(f) PROVE TypeOK'
  BY <1>5 DEF FlushStart, TypeOK, TopicTypeOK, LogTypeOK, topicVars
<1>6. ASSUME NEW f \in Flushers, ServerApplies(f) PROVE TypeOK'
  <2>1. table' \in [Rows -> Nat]
    BY <1>6, UpsertFacts DEF TypeOK, ServerApplies
  <2>2. carried[f] \subseteq Deliveries
    BY DEF TypeOK
  <2> QED BY <1>6, <2>1, <2>2 DEF ServerApplies, TypeOK, TopicTypeOK, LogTypeOK, topicVars
<1>7. ASSUME NEW f \in Flushers, FlushOk(f) \/ FlushRefused(f) \/ FlushFailed(f) PROVE TypeOK'
  <2>1. EndFlush(f)
    BY <1>7 DEF FlushOk, FlushRefused, FlushFailed
  <2>2. /\ flush' \in [Flushers -> {"idle", "sent", "applied"}]
        /\ batch' \in [Flushers -> [Keys -> Nat]]
        /\ carried' \in [Flushers -> SUBSET Deliveries]
    BY <2>1 DEF EndFlush, TypeOK, EmptyBuckets
  <2>3. CASE FlushOk(f)
    BY <2>2, <2>3 DEF FlushOk, Clear, EmptyBuckets, TypeOK, TopicTypeOK, LogTypeOK, topicVars
  <2>4. CASE FlushRefused(f)
    BY <2>2, <2>4 DEF FlushRefused, TypeOK, TopicTypeOK, LogTypeOK, topicVars
  <2>5. CASE FlushFailed(f)
    <3>1. strays' \subseteq [Keys -> Nat] /\ insertFailures' \in Nat
      BY <2>5 DEF FlushFailed, TypeOK
    <3> QED BY <2>2, <2>5, <3>1 DEF FlushFailed, TypeOK, TopicTypeOK, LogTypeOK, topicVars
  <2> QED BY <1>7, <2>3, <2>4, <2>5
<1>8. ASSUME NEW b \in strays, StrayApplies(b) PROVE TypeOK'
  <2>1. table' \in [Rows -> Nat]
    BY <1>8, UpsertFacts DEF TypeOK, StrayApplies
  <2> QED BY <1>8, <2>1 DEF StrayApplies, TypeOK, TopicTypeOK, LogTypeOK, topicVars, aux
<1>9. CASE Crash
  <2>1. strays' \subseteq [Keys -> Nat] /\ abandoned' \subseteq Deliveries
    BY <1>9 DEF Crash, TypeOK
  <2> QED BY <1>9, <2>1 DEF Crash, EmptyBuckets, TypeOK, TopicTypeOK, LogTypeOK
<1>10. CASE UNCHANGED vars
  BY <1>10 DEF vars, topicVars, aux, TypeOK, TopicTypeOK, LogTypeOK
<1> QED BY <1>1, <1>2, <1>3, <1>4, <1>5, <1>6, <1>7, <1>8, <1>9, <1>10 DEF Next

\* Type correctness of the aggregator in every reachable state.
THEOREM TypeCorrect == Spec => []TypeOK
BY InitTypeOK, NextTypeOK, PTL DEF Spec

-----------------------------------------------------------------------------
\* Where the aggregator stands in the log, and where what it handled went.
LedgerInv ==
    /\ TypeOK
    /\ OffsetsOrdered
    /\ DownIsEmpty
    /\ AwaitedCarries
    /\ AppliedLanded
    /\ ClearLosesOnlyOverlapped

LEMMA InitLedgerInv == Init => LedgerInv
BY InitTypeOK
   DEF Init, TopicInit, LogInit, LedgerInv, OffsetsOrdered, DownIsEmpty, AwaitedCarries, Awaiting,
       AppliedLanded, ClearLosesOnlyOverlapped, NoOffset

\* No step moves a position past the log or a commit past its position.
LEMMA NextOffsetsOrdered == TypeOK /\ OffsetsOrdered /\ [Next]_vars => OffsetsOrdered'
<1> SUFFICES ASSUME TypeOK, OffsetsOrdered, [Next]_vars PROVE OffsetsOrdered'
  OBVIOUS
<1>a. /\ log \in [Partitions -> Seq(Messages)]
      /\ committed \in [Partitions -> Nat \cup {NoOffset}]
      /\ position \in [Partitions -> Nat]
  BY DEF TypeOK, TopicTypeOK, LogTypeOK
<1>1. ASSUME NEW click \in Messages, Produce(click) PROVE OffsetsOrdered'
  <2>1. PartitionOf[click.ad] \in Partitions
    BY TopicAssumption, AggregatorAssumption
  <2>2. AppendTo(PartitionOf[click.ad], click) /\ UNCHANGED groupVars
    BY <1>1 DEF Produce, AppendRecord
  <2>3. \A p \in Partitions : Len(log'[p]) >= Len(log[p])
    BY <2>1, <2>2, AppendKeepsRecords DEF TypeOK, TopicTypeOK
  <2>4. log' \in [Partitions -> Seq(Messages)]
    BY <2>1, <2>2, AppendKeepsRecords DEF TypeOK, TopicTypeOK
  <2> QED BY <1>a, <2>2, <2>3, <2>4 DEF groupVars, OffsetsOrdered
<1>2. CASE Boot \/ Rebalance
  <2>1. /\ position' = [p \in Partitions |-> StartOffset(p)]
        /\ UNCHANGED <<log, committed>>
    BY <1>2 DEF Boot, Rebalance, Assign
  <2> QED BY <2>1, <1>a, StartOffsetBehind DEF OffsetsOrdered, TypeOK
<1>3. ASSUME NEW q \in Partitions, Handle(q) PROVE OffsetsOrdered'
  <2>1. /\ position' = [position EXCEPT ![q] = @ + 1]
        /\ position[q] < Len(log[q])
        /\ UNCHANGED <<log, committed>>
    BY <1>3 DEF Handle, HasNext, Advance
  <2>2. \A p \in Partitions : position'[p] <= Len(log[p])
    BY <2>1, <1>a DEF OffsetsOrdered
  <2>3. \A p \in Partitions : /\ position[p] <= position'[p] /\ committed[p] <= position[p]
                              /\ position[p] \in Int /\ position'[p] \in Int /\ committed[p] \in Int
    BY <2>1, <1>a DEF OffsetsOrdered, NoOffset
  <2> QED BY <2>1, <2>2, <2>3 DEF OffsetsOrdered
<1>4. ASSUME NEW q \in Partitions, CommitHandled(q) PROVE OffsetsOrdered'
  <2>1. /\ committed' = [committed EXCEPT ![q] = position[q]]
        /\ UNCHANGED <<log, position>>
    BY <1>4 DEF CommitHandled, CommitPosition
  <2> QED BY <2>1, <1>a DEF OffsetsOrdered
<1>5. CASE UNCHANGED <<log, committed, position>>
  BY <1>5 DEF OffsetsOrdered
<1> QED BY <1>1, <1>2, <1>3, <1>4, <1>5
        DEF Next, Initialise, FlushStart, ServerApplies, FlushOk, FlushRefused, FlushFailed,
            StrayApplies, Crash, vars, topicVars

LEMMA NextLedgerInv == LedgerInv /\ [Next]_vars => LedgerInv'
<1> SUFFICES ASSUME LedgerInv, [Next]_vars
             PROVE  /\ DownIsEmpty' /\ AwaitedCarries' /\ AppliedLanded'
                    /\ ClearLosesOnlyOverlapped'
  BY NextTypeOK, NextOffsetsOrdered DEF LedgerInv
<1> USE DEF LedgerInv
<1>a. /\ position \in [Partitions -> Nat] /\ resumedAt \in [Partitions -> Nat]
      /\ flush \in [Flushers -> {"idle", "sent", "applied"}]
      /\ carried \in [Flushers -> SUBSET Deliveries]
  BY DEF TypeOK, TopicTypeOK, LogTypeOK
<1>1. CASE UNCHANGED <<position, phase, buckets, flush, aux>>
  BY <1>1 DEF aux, DownIsEmpty, AwaitedCarries, Awaiting, AppliedLanded,
     ClearLosesOnlyOverlapped, Handled
<1>2. CASE Boot
  <2>1. /\ position' = [p \in Partitions |-> StartOffset(p)]
        /\ resumedAt' = position'
        /\ phase' = "starting"
        /\ UNCHANGED <<flush, bucketed, carried, landed, overlapped>>
    BY <1>2 DEF Boot, Assign
  <2>2. \A p \in Partitions : resumedAt'[p] .. position'[p] - 1 = {}
    BY <2>1, StartOffsetBehind DEF TypeOK
  <2>3. Handled' = {}
    BY <2>2 DEF Handled
  <2> QED BY <2>1, <2>3 DEF DownIsEmpty, AwaitedCarries, Awaiting, AppliedLanded,
          ClearLosesOnlyOverlapped
<1>3. ASSUME NEW q \in Partitions, Handle(q)
      PROVE  DownIsEmpty' /\ AwaitedCarries' /\ AppliedLanded' /\ ClearLosesOnlyOverlapped'
  <2> DEFINE d == <<q, position[q]>>
  <2>1. /\ phase # "down" /\ phase' = phase
        /\ position' = [position EXCEPT ![q] = @ + 1]
        /\ bucketed' = bucketed \cup {d}
        /\ overlapped' = IF Awaiting = {} THEN overlapped ELSE overlapped \cup {d}
        /\ UNCHANGED <<flush, resumedAt, carried, landed>>
    BY <1>3 DEF Handle, Advance
  <2>2. DownIsEmpty' /\ AppliedLanded'
    BY <2>1 DEF DownIsEmpty, AppliedLanded
  <2>3. AwaitedCarries'
    BY <2>1 DEF AwaitedCarries, Awaiting
  <2>4. ASSUME NEW p \in Partitions, NEW o \in resumedAt[p] .. position'[p] - 1
        PROVE  <<p, o>> = d \/ o \in resumedAt[p] .. position[p] - 1
    BY <2>1, <1>a
  <2>5. Handled' \subseteq Handled \cup {d}
    BY <2>1, <2>4 DEF Handled
  <2>6. ClearLosesOnlyOverlapped'
    BY <2>1, <2>5 DEF ClearLosesOnlyOverlapped
  <2> QED BY <2>2, <2>3, <2>6
<1>4. ASSUME NEW f \in Flushers, FlushStart(f)
      PROVE  DownIsEmpty' /\ AwaitedCarries' /\ AppliedLanded' /\ ClearLosesOnlyOverlapped'
  <2>1. /\ phase = "up"
        /\ flush' = [flush EXCEPT ![f] = "sent"]
        /\ carried' = [carried EXCEPT ![f] = bucketed]
        /\ UNCHANGED <<position, phase, resumedAt, bucketed, landed, overlapped>>
    BY <1>4 DEF FlushStart, topicVars
  <2> QED BY <2>1, <1>a DEF DownIsEmpty, AwaitedCarries, Awaiting, AppliedLanded,
          ClearLosesOnlyOverlapped, Handled
<1>5. ASSUME NEW f \in Flushers, ServerApplies(f)
      PROVE  DownIsEmpty' /\ AwaitedCarries' /\ AppliedLanded' /\ ClearLosesOnlyOverlapped'
  <2>1. /\ flush[f] = "sent" /\ flush' = [flush EXCEPT ![f] = "applied"]
        /\ landed' = landed \cup carried[f]
        /\ UNCHANGED <<position, phase, buckets, resumedAt, bucketed, carried, overlapped>>
    BY <1>5 DEF ServerApplies, topicVars
  <2> QED BY <2>1, <1>a DEF DownIsEmpty, AwaitedCarries, Awaiting, AppliedLanded,
          ClearLosesOnlyOverlapped, Handled
<1>6. ASSUME NEW f \in Flushers, FlushOk(f)
      PROVE  DownIsEmpty' /\ AwaitedCarries' /\ AppliedLanded' /\ ClearLosesOnlyOverlapped'
  <2>1. /\ flush[f] = "applied" /\ flush' = [flush EXCEPT ![f] = "idle"]
        /\ bucketed' = {}
        /\ carried' = [carried EXCEPT ![f] = {}]
        /\ UNCHANGED <<position, phase, resumedAt, landed, overlapped>>
    BY <1>6 DEF FlushOk, Clear, EndFlush, topicVars
  <2>2. bucketed \subseteq landed \cup overlapped
    BY <2>1 DEF AwaitedCarries, Awaiting, AppliedLanded
  <2>3. phase # "down"
    BY <2>1, <1>a DEF DownIsEmpty
  <2>4. ClearLosesOnlyOverlapped'
    BY <2>1, <2>2 DEF ClearLosesOnlyOverlapped, Handled
  <2> QED BY <2>1, <2>3, <2>4, <1>a DEF DownIsEmpty, AwaitedCarries, AppliedLanded
<1>7. ASSUME NEW f \in Flushers, FlushRefused(f) \/ FlushFailed(f)
      PROVE  DownIsEmpty' /\ AwaitedCarries' /\ AppliedLanded' /\ ClearLosesOnlyOverlapped'
  <2>1. /\ flush' = [flush EXCEPT ![f] = "idle"]
        /\ carried' = [carried EXCEPT ![f] = {}]
        /\ UNCHANGED <<position, phase, buckets, resumedAt, bucketed, landed, overlapped>>
    BY <1>7 DEF FlushRefused, FlushFailed, EndFlush, topicVars
  <2> QED BY <2>1, <1>a DEF DownIsEmpty, AwaitedCarries, Awaiting, AppliedLanded,
          ClearLosesOnlyOverlapped, Handled
<1>8. CASE Rebalance
  <2>1. /\ position' = [p \in Partitions |-> StartOffset(p)]
        /\ UNCHANGED <<phase, buckets, flush, aux>>
    BY <1>8 DEF Rebalance, Assign
  <2>2. \A p \in Partitions : resumedAt[p] .. position'[p] - 1 \subseteq resumedAt[p] .. position[p] - 1
    BY <2>1, <1>a, StartOffsetBehind DEF TypeOK
  <2>3. Handled' \subseteq Handled
    BY <2>1, <2>2 DEF Handled, aux
  <2> QED BY <2>1, <2>3 DEF aux, DownIsEmpty, AwaitedCarries, Awaiting, AppliedLanded,
          ClearLosesOnlyOverlapped
<1>9. CASE Crash
  BY <1>9 DEF Crash, DownIsEmpty, AwaitedCarries, Awaiting, AppliedLanded,
     ClearLosesOnlyOverlapped
<1>11. CASE Initialise
  BY <1>11 DEF Initialise, topicVars, aux, DownIsEmpty, AwaitedCarries, Awaiting,
     AppliedLanded, ClearLosesOnlyOverlapped, Handled
<1>10. CASE \/ \E click \in Messages : Produce(click)
            \/ \E p \in Partitions : CommitHandled(p)
            \/ \E b \in strays : StrayApplies(b)
            \/ UNCHANGED vars
  BY <1>1, <1>10 DEF Produce, AppendRecord, AppendTo, groupVars, CommitHandled, StrayApplies,
     vars, topicVars
<1> QED BY <1>2, <1>3, <1>4, <1>5, <1>6, <1>7, <1>8, <1>9, <1>10, <1>11 DEF Next

\* Failed, timed-out and overlapping flushes lose no click of this life: only
\* those recorded while an insert was awaited may be neither in a bucket nor
\* in an applied insert.
THEOREM FlushesLoseOnlyOverlapped == Spec => []ClearLosesOnlyOverlapped
<1>1. LedgerInv => ClearLosesOnlyOverlapped
  BY DEF LedgerInv
<1> QED BY <1>1, InitLedgerInv, NextLedgerInv, PTL DEF Spec

-----------------------------------------------------------------------------
\* The ledger over all lives.
AccountInv == LedgerInv /\ PassedIsAccountedFor /\ CommittedIsAccountedFor

LEMMA InitAccountInv == Init => AccountInv
BY InitLedgerInv DEF Init, TopicInit, LogInit, AccountInv, PassedIsAccountedFor,
   CommittedIsAccountedFor, NoOffset

\* Where the group resumes, everything before was committed, if anything was.
LEMMA ResumeAccounted ==
    ASSUME TypeOK, CommittedIsAccountedFor, NEW p \in Partitions,
           NEW o \in 0 .. StartOffset(p) - 1
    PROVE  <<p, o>> \in bucketed \cup landed \cup overlapped \cup abandoned
<1>1. CASE committed[p] = NoOffset
  BY <1>1 DEF StartOffset
<1>2. CASE committed[p] # NoOffset
  BY <1>2 DEF StartOffset, CommittedIsAccountedFor
<1> QED BY <1>1, <1>2

LEMMA NextAccountInv == AccountInv /\ [Next]_vars => AccountInv'
<1> SUFFICES ASSUME AccountInv, [Next]_vars
             PROVE  PassedIsAccountedFor' /\ CommittedIsAccountedFor'
  BY NextLedgerInv DEF AccountInv
<1> DEFINE Accounted == bucketed \cup landed \cup overlapped \cup abandoned
           Goal == PassedIsAccountedFor' /\ CommittedIsAccountedFor'
<1>a. /\ LedgerInv /\ TypeOK /\ PassedIsAccountedFor /\ CommittedIsAccountedFor
      /\ position \in [Partitions -> Nat]
      /\ committed \in [Partitions -> Nat \cup {NoOffset}]
      /\ flush \in [Flushers -> {"idle", "sent", "applied"}]
      /\ carried \in [Flushers -> SUBSET Deliveries]
  BY DEF AccountInv, LedgerInv, TypeOK, TopicTypeOK, LogTypeOK
\* No click leaves the ledger, and neither offset moves.
<1>1. ASSUME UNCHANGED <<position, committed>>, phase = "down" => phase' = "down",
             Accounted \subseteq Accounted'
      PROVE  Goal
  BY <1>1, <1>a DEF PassedIsAccountedFor, CommittedIsAccountedFor
<1>2. CASE Boot \/ Rebalance
  <2>1. /\ position' = [p \in Partitions |-> StartOffset(p)]
        /\ UNCHANGED <<committed, bucketed, landed, overlapped, abandoned>>
    BY <1>2 DEF Boot, Rebalance, Assign, aux
  <2>2. \A p \in Partitions : position'[p] = StartOffset(p)
    BY <2>1
  <2> QED BY <1>a, <2>1, <2>2, ResumeAccounted DEF PassedIsAccountedFor, CommittedIsAccountedFor
<1>3. ASSUME NEW q \in Partitions, Handle(q) PROVE Goal
  <2>1. /\ phase # "down"
        /\ position' = [position EXCEPT ![q] = @ + 1]
        /\ bucketed' = bucketed \cup {<<q, position[q]>>}
        /\ overlapped \subseteq overlapped'
        /\ UNCHANGED <<committed, landed, abandoned>>
    BY <1>3 DEF Handle, Advance
  <2>2. ASSUME NEW p \in Partitions, NEW o \in 0 .. position'[p] - 1
        PROVE  o \in 0 .. position[p] - 1 \/ <<p, o>> = <<q, position[q]>>
    BY <2>1, <1>a
  <2>3. PassedIsAccountedFor'
    BY <1>a, <2>1, <2>2 DEF PassedIsAccountedFor
  <2> QED BY <1>a, <2>1, <2>3 DEF CommittedIsAccountedFor
<1>4. ASSUME NEW q \in Partitions, CommitHandled(q) PROVE Goal
  <2>1. /\ phase # "down"
        /\ committed' = [committed EXCEPT ![q] = position[q]]
        /\ UNCHANGED <<phase, position, bucketed, landed, overlapped, abandoned>>
    BY <1>4 DEF CommitHandled, CommitPosition, aux
  <2>2. \A p \in Partitions : committed'[p] = committed[p] \/ committed'[p] = position[p]
    BY <2>1, <1>a
  <2> QED BY <1>a, <2>1, <2>2 DEF PassedIsAccountedFor, CommittedIsAccountedFor
\* What an applied insert clears has landed, or was recorded meanwhile.
<1>5. ASSUME NEW f \in Flushers, FlushOk(f) PROVE Goal
  <2>1. /\ flush[f] = "applied"
        /\ bucketed' = {}
        /\ UNCHANGED <<phase, position, committed, landed, overlapped, abandoned>>
    BY <1>5 DEF FlushOk, Clear, topicVars
  <2>2. bucketed \subseteq landed \cup overlapped
    BY <2>1, <1>a DEF LedgerInv, AwaitedCarries, Awaiting, AppliedLanded
  <2> QED BY <1>1, <2>1, <2>2
\* The committed clicks of the buckets are abandoned.
<1>6. CASE Crash
  <2>1. /\ phase' = "down"
        /\ abandoned' = abandoned \cup {d \in bucketed : d[2] < committed[d[1]]}
        /\ UNCHANGED <<committed, landed, overlapped>>
    BY <1>6 DEF Crash
  <2>2. ASSUME NEW p \in Partitions, NEW o \in 0 .. committed[p] - 1
        PROVE  <<p, o>> \in landed \cup overlapped \cup abandoned'
    <3>1. <<p, o>> \in Accounted
      BY <1>a DEF CommittedIsAccountedFor
    <3>2. o < committed[p] /\ <<p, o>>[2] = o /\ <<p, o>>[1] = p
      BY <1>a DEF NoOffset
    <3>3. <<p, o>> \in bucketed => <<p, o>> \in abandoned'
      BY <2>1, <3>2
    <3> QED BY <2>1, <3>1, <3>3
  <2> QED BY <2>1, <2>2 DEF PassedIsAccountedFor, CommittedIsAccountedFor
<1>7. CASE \/ \E click \in Messages : Produce(click)
           \/ \E f \in Flushers : FlushStart(f) \/ FlushRefused(f) \/ FlushFailed(f)
           \/ \E b \in strays : StrayApplies(b)
           \/ UNCHANGED vars
  BY <1>1, <1>7 DEF Produce, AppendRecord, AppendTo, groupVars, FlushStart, FlushRefused, FlushFailed,
     StrayApplies, vars, topicVars, aux
<1>8. ASSUME NEW f \in Flushers, ServerApplies(f) PROVE Goal
  BY <1>1, <1>8 DEF ServerApplies, topicVars
<1>9. CASE Initialise
  BY <1>1, <1>9 DEF Initialise, topicVars, aux
<1> QED BY <1>2, <1>3, <1>4, <1>5, <1>6, <1>7, <1>8, <1>9 DEF Next

\* Over any number of crashes, rebalances and failed or overlapping flushes, a
\* committed click is in a bucket, in an applied insert, or lost in one of the
\* two known ways.
THEOREM CommittedStaysAccountedFor == Spec => []CommittedIsAccountedFor
<1>1. AccountInv => CommittedIsAccountedFor
  BY DEF AccountInv
<1> QED BY <1>1, InitAccountInv, NextAccountInv, PTL DEF Spec

-----------------------------------------------------------------------------
\* What is counted, inserted or stored under a key never exceeds the clicks
\* published for it, as long as no record is redelivered to a living process.
BoundInv ==
    /\ TypeOK
    /\ OffsetsOrdered
    /\ LogBounded
    /\ rebalances = 0
    /\ phase = "down" => buckets = EmptyBuckets
    /\ BucketsBounded
    /\ InsertsBounded
    /\ StoredWithinPublished

\* The log is finite, so every set of its deliveries has a size.
LEMMA DeliveriesFinite ==
    ASSUME TypeOK, LogBounded, NEW S \in SUBSET (UNION {{p} \X Offset(p) : p \in Partitions})
    PROVE  IsFiniteSet(S) /\ Cardinality(S) \in Nat
<1>1. IsFiniteSet(Partitions \X (0 .. MaxLog))
  <2>1. IsFiniteSet(0 .. MaxLog)
    BY FS_Interval, TopicAssumption
  <2> QED BY <2>1, FS_Product, TopicAssumption
<1>2. \A p \in Partitions : Offset(p) \subseteq 0 .. MaxLog
  BY TopicAssumption DEF TypeOK, TopicTypeOK, LogTypeOK, LogBounded, Offset
<1>3. S \subseteq Partitions \X (0 .. MaxLog)
  BY <1>2
<1> QED BY <1>1, <1>3, FS_Subset, FS_CardinalityType

LEMMA SizesGrow ==
    ASSUME TypeOK, LogBounded,
           NEW S \in SUBSET (UNION {{p} \X Offset(p) : p \in Partitions}),
           NEW T \in SUBSET S
    PROVE  Cardinality(T) \in Nat /\ Cardinality(T) <= Cardinality(S)
BY DeliveriesFinite, FS_Subset, FS_CardinalityType

LEMMA DeliverySets ==
    ASSUME NEW k \in Keys, NEW r \in Rows
    PROVE  /\ ClicksUnder(k) \subseteq UNION {{p} \X Offset(p) : p \in Partitions}
           /\ HandledUnder(k) \subseteq ClicksUnder(k)
           /\ ClicksOf(r) \subseteq UNION {{p} \X Offset(p) : p \in Partitions}
BY DEF ClicksUnder, HandledUnder, ClicksOf

\* Appending only adds deliveries, and those that are there keep their record.
LEMMA DeliveriesGrow ==
    ASSUME TypeOK, NEW click \in Messages, Produce(click)
    PROVE  /\ \A k \in Keys : ClicksUnder(k) \subseteq ClicksUnder(k)'
           /\ \A k \in Keys : HandledUnder(k) \subseteq HandledUnder(k)'
           /\ \A r \in Rows : ClicksOf(r) \subseteq ClicksOf(r)'
<1>1. /\ PartitionOf[click.ad] \in Partitions
      /\ AppendTo(PartitionOf[click.ad], click) /\ UNCHANGED groupVars
  BY TopicAssumption, AggregatorAssumption DEF Produce, AppendRecord
<1>2. \A p \in Partitions : \A o \in Offset(p) :
        o \in Offset(p)' /\ RecordAt(p, o)' = RecordAt(p, o)
  BY <1>1, AppendKeepsRecords DEF TypeOK, TopicTypeOK
<1>3. position' = position
  BY <1>1 DEF groupVars
<1>4. ASSUME NEW k \in Keys PROVE ClicksUnder(k) \subseteq ClicksUnder(k)'
  BY <1>2 DEF ClicksUnder
<1>5. ASSUME NEW k \in Keys PROVE HandledUnder(k) \subseteq HandledUnder(k)'
  BY <1>2, <1>3 DEF HandledUnder
<1>6. ASSUME NEW r \in Rows PROVE ClicksOf(r) \subseteq ClicksOf(r)'
  BY <1>2 DEF ClicksOf
<1> QED BY <1>4, <1>5, <1>6

\* A key of two parts is stored in the row of its own ad and window.
LEMMA OwnKeyDecodes ==
    ASSUME NEW m \in Messages, ~ Len(Key(m)) > 2
    PROVE  Decode(Key(m)) = RowOf(m)
<1> DEFINE a == m.ad
           w == ToWindowStart(m.time)
<1>1. /\ a \in Seq(UNION {{b[i] : i \in 1 .. Len(b)} : b \in Ads})
      /\ Len(a) > 0
  BY AggregatorAssumption
<1>2. DateTimeOf[w] = w
  BY AggregatorAssumption DEF Windows
<1> HIDE DEF a, w
<1>3. /\ Len(Append(a, w)) = Len(a) + 1 /\ Len(a) \in Nat
      /\ \A i \in 1 .. Len(a) : Append(a, w)[i] = a[i]
      /\ Append(a, w)[Len(a) + 1] = w
  BY <1>1
<1>4. Len(a) = 1
  <2>1. ~ Len(Append(a, w)) > 2
    BY DEF Key, a, w
  <2>2. PICK n \in Nat : n = Len(a)
    BY <1>3
  <2>3. Len(Append(a, w)) = n + 1
    BY <1>3, <2>2
  <2>4. n > 0 /\ ~ n + 1 > 2
    BY <1>1, <2>1, <2>2, <2>3
  <2>5. n = 1
    BY <2>4
  <2> QED BY <2>2, <2>5
<1>5. <<Append(a, w)[1]>> = a /\ Append(a, w)[2] = w
  BY <1>1, <1>3, <1>4
<1> QED BY <1>2, <1>5 DEF Decode, Key, RowOf, a, w

\* The clicks of a key that is stored in a row are the row's own, or those of
\* one other ad id.
LEMMA KeysAreOwnOrForeign ==
    ASSUME TypeOK, NEW r \in Rows, NEW k \in KeysOf(r)
    PROVE  ClicksUnder(k) \subseteq ClicksOf(r) \/ k \in ForeignKeys(r)
<1> SUFFICES ASSUME ~ Len(k) > 2 PROVE ClicksUnder(k) \subseteq ClicksOf(r)
  BY DEF ForeignKeys
<1>1. ASSUME NEW p \in Partitions, NEW o \in Offset(p), Key(RecordAt(p, o)) = k
      PROVE  RowOf(RecordAt(p, o)) = r
  <2>1. RecordAt(p, o) \in Messages
    BY RecordsAreMessages
  <2> QED BY <1>1, <2>1, OwnKeyDecodes DEF KeysOf
<1> QED BY <1>1 DEF ClicksUnder, ClicksOf

\* An insert of a bounded batch leaves the table bounded.
LEMMA UpsertBounded ==
    ASSUME TypeOK, LogBounded, StoredWithinPublished,
           NEW counts \in [Keys -> Nat],
           \A k \in Keys : counts[k] <= Cardinality(ClicksUnder(k)),
           NEW t \in Upsert(counts), NEW r \in Rows
    PROVE  \/ t[r] <= Cardinality(ClicksOf(r))
           \/ \E k \in ForeignKeys(r) : t[r] <= Cardinality(ClicksUnder(k))
<1>1. t[r] = table[r] \/ \E k \in KeysOf(r) : t[r] = counts[k]
  BY UpsertFacts DEF TypeOK
<1>2. CASE t[r] = table[r]
  BY <1>2 DEF StoredWithinPublished
<1>3. ASSUME NEW k \in KeysOf(r), t[r] = counts[k]
      PROVE  \/ t[r] <= Cardinality(ClicksOf(r))
             \/ t[r] <= Cardinality(ClicksUnder(k)) /\ k \in ForeignKeys(r)
  <2>1. k \in Keys /\ counts[k] \in Nat /\ counts[k] <= Cardinality(ClicksUnder(k))
    BY DEF KeysOf
  <2>2. CASE ClicksUnder(k) \subseteq ClicksOf(r)
    <3>1. Cardinality(ClicksUnder(k)) <= Cardinality(ClicksOf(r))
      BY <2>1, <2>2, DeliverySets, SizesGrow
    <3>2. Cardinality(ClicksUnder(k)) \in Nat /\ Cardinality(ClicksOf(r)) \in Nat
      BY <2>1, DeliverySets, DeliveriesFinite
    <3> QED BY <1>3, <2>1, <3>1, <3>2
  <2> QED BY <1>3, <2>1, <2>2, KeysAreOwnOrForeign
<1> QED BY <1>1, <1>2, <1>3

LEMMA InitBoundInv == Init => BoundInv
<1> SUFFICES ASSUME Init PROVE BoundInv
  OBVIOUS
<1>1. TypeOK /\ LogBounded
  BY InitTypeOK, TopicAssumption DEF Init, TopicInit, LogInit, LogBounded
<1>2. /\ \A k \in Keys : Cardinality(HandledUnder(k)) \in Nat /\ Cardinality(ClicksUnder(k)) \in Nat
      /\ \A r \in Rows : Cardinality(ClicksOf(r)) \in Nat
  <2>1. \A k \in Keys :
           /\ HandledUnder(k) \in SUBSET (UNION {{p} \X Offset(p) : p \in Partitions})
           /\ ClicksUnder(k) \in SUBSET (UNION {{p} \X Offset(p) : p \in Partitions})
    BY DEF HandledUnder, ClicksUnder
  <2>2. \A r \in Rows : ClicksOf(r) \in SUBSET (UNION {{p} \X Offset(p) : p \in Partitions})
    BY DEF ClicksOf
  <2> QED BY <1>1, <2>1, <2>2, DeliveriesFinite
<1>3. BucketsBounded /\ InsertsBounded /\ StoredWithinPublished
  BY <1>2 DEF Init, EmptyBuckets, BucketsBounded, InsertsBounded, StoredWithinPublished
<1> QED BY <1>1, <1>3 DEF Init, TopicInit, LogInit, BoundInv, OffsetsOrdered, NoOffset

\* Handling a record adds one delivery to those handled under its key.
LEMMA HandleBounded ==
    ASSUME BoundInv, NEW q \in Partitions, Handle(q)
    PROVE  BucketsBounded'
<1>1. PICK o \in Nat : o = position[q]
  BY DEF BoundInv, TypeOK, TopicTypeOK, LogTypeOK
<1>2. o \in Offset(q)
  BY <1>1 DEF Handle, HasNext, Offset, BoundInv, TypeOK, TopicTypeOK, LogTypeOK
<1>3. PICK key \in Keys : key = Key(RecordAt(q, o))
  BY <1>2, RecordsAreMessages DEF BoundInv
<1>4. /\ buckets' = [buckets EXCEPT ![key] = @ + 1]
      /\ position' = [position EXCEPT ![q] = @ + 1]
      /\ log' = log
  BY <1>1, <1>3 DEF Handle, Count, Advance
<1>a. /\ position \in [Partitions -> Nat]
      /\ buckets \in [Keys -> Nat]
      /\ TypeOK /\ LogBounded
  BY DEF BoundInv, TypeOK, TopicTypeOK, LogTypeOK
<1>5. \A p \in Partitions : Offset(p)' = Offset(p) /\ \A n \in Offset(p) : RecordAt(p, n)' = RecordAt(p, n)
  BY <1>4 DEF Offset, RecordAt
<1>6. \A p \in Partitions : position[p] <= position'[p] /\ Offset(p) \subseteq Int
  BY <1>4, <1>a DEF Offset
<1>7. ASSUME NEW k \in Keys
      PROVE  /\ HandledUnder(k) \subseteq HandledUnder(k)'
             /\ HandledUnder(k)' \subseteq UNION {{p} \X Offset(p) : p \in Partitions}
             /\ IsFiniteSet(HandledUnder(k)) /\ Cardinality(HandledUnder(k)) \in Nat
             /\ Cardinality(HandledUnder(k)') \in Nat
             /\ IsFiniteSet(HandledUnder(k)')
             /\ Cardinality(HandledUnder(k)) <= Cardinality(HandledUnder(k)')
  <2>1. ASSUME NEW p \in Partitions, NEW n \in Offset(p), n < position[p]
        PROVE  n < position'[p]
    <3>1. position[p] \in Int /\ position'[p] \in Int /\ n \in Int
      BY <1>4, <1>6, <1>a
    <3> QED BY <2>1, <3>1, <1>6
  <2>2. HandledUnder(k) \subseteq HandledUnder(k)'
    BY <2>1, <1>5 DEF HandledUnder
  <2>3. HandledUnder(k)' \subseteq UNION {{p} \X Offset(p) : p \in Partitions}
    BY <1>5 DEF HandledUnder
  <2> QED BY <2>2, <2>3, <1>a, DeliveriesFinite, FS_Subset
<1>8. /\ <<q, o>> \notin HandledUnder(key)
      /\ <<q, o>> \in HandledUnder(key)'
  <2>1. o < position'[q] /\ ~ (o < position[q])
    BY <1>1, <1>4, <1>a
  <2> QED BY <2>1, <1>2, <1>3, <1>5 DEF HandledUnder
<1>9. Cardinality(HandledUnder(key)) + 1 <= Cardinality(HandledUnder(key)')
  <2>1. Cardinality(HandledUnder(key) \cup {<<q, o>>}) = Cardinality(HandledUnder(key)) + 1
    BY <1>7, <1>8, FS_AddElement
  <2>2. HandledUnder(key) \cup {<<q, o>>} \subseteq HandledUnder(key)'
    BY <1>7, <1>8
  <2> QED BY <2>1, <2>2, <1>7, FS_Subset
<1>10. ASSUME NEW k \in Keys PROVE buckets'[k] <= Cardinality(HandledUnder(k)')
  <2>1. buckets[k] <= Cardinality(HandledUnder(k)) /\ buckets[k] \in Nat
    BY <1>a DEF BoundInv, BucketsBounded
  <2>2. CASE k = key
    <3>1. buckets'[k] = buckets[k] + 1
      BY <2>2, <1>4, <1>a
    <3> QED BY <2>1, <2>2, <3>1, <1>7, <1>9
  <2>3. CASE k # key
    <3>1. buckets'[k] = buckets[k]
      BY <2>3, <1>4, <1>a
    <3> QED BY <2>1, <3>1, <1>7
  <2> QED BY <2>2, <2>3
<1> QED BY <1>10 DEF BucketsBounded

\* A step that is no rebalance keeps the bounds.
LEMMA NextBoundInv == BoundInv /\ [Next]_vars /\ rebalances' = 0 => BoundInv'
<1> SUFFICES ASSUME BoundInv, [Next]_vars, rebalances' = 0
             PROVE  /\ LogBounded' /\ rebalances' = 0
                    /\ phase' = "down" => buckets' = EmptyBuckets
                    /\ BucketsBounded' /\ InsertsBounded' /\ StoredWithinPublished'
  BY NextTypeOK, NextOffsetsOrdered DEF BoundInv, EmptyBuckets, Keys
<1> DEFINE Goal == /\ LogBounded' /\ rebalances' = 0
                   /\ phase' = "down" => buckets' = EmptyBuckets
                   /\ BucketsBounded' /\ InsertsBounded' /\ StoredWithinPublished'
<1>a. /\ TypeOK /\ LogBounded /\ BucketsBounded /\ InsertsBounded /\ StoredWithinPublished
      /\ rebalances = 0 /\ (phase = "down" => buckets = EmptyBuckets)
  BY DEF BoundInv
<1>b. /\ buckets \in [Keys -> Nat]
      /\ batch \in [Flushers -> [Keys -> Nat]]
      /\ flush \in [Flushers -> {"idle", "sent", "applied"}]
      /\ strays \subseteq [Keys -> Nat]
      /\ table \in [Rows -> Nat]
  BY <1>a DEF TypeOK
<1>c. /\ \A k \in Keys :
            /\ HandledUnder(k) \in SUBSET ClicksUnder(k)
            /\ ClicksUnder(k) \in SUBSET (UNION {{p} \X Offset(p) : p \in Partitions})
      /\ \A r \in Rows : ClicksOf(r) \in SUBSET (UNION {{p} \X Offset(p) : p \in Partitions})
  BY DEF HandledUnder, ClicksUnder, ClicksOf
<1>d. /\ \A k \in Keys : /\ Cardinality(HandledUnder(k)) \in Nat
                         /\ Cardinality(ClicksUnder(k)) \in Nat
                         /\ Cardinality(HandledUnder(k)) <= Cardinality(ClicksUnder(k))
      /\ \A r \in Rows : Cardinality(ClicksOf(r)) \in Nat
  BY <1>a, <1>c, SizesGrow, DeliveriesFinite
\* The bound on the table is about the topic and the table only.
<1>e. ASSUME UNCHANGED <<log, table>> PROVE StoredWithinPublished'
  <2>1. /\ \A r \in Rows : ClicksOf(r)' = ClicksOf(r)
        /\ \A k \in Keys : ClicksUnder(k)' = ClicksUnder(k)
    BY <1>e DEF ClicksOf, ClicksUnder, Offset, RecordAt
  <2> QED BY <1>a, <1>e, <2>1 DEF StoredWithinPublished, ForeignKeys, KeysOf
<1>1. ASSUME NEW click \in Messages, Produce(click) PROVE Goal
  <2>1. /\ PartitionOf[click.ad] \in Partitions
        /\ AppendTo(PartitionOf[click.ad], click)
        /\ UNCHANGED <<phase, buckets, batch, strays, table, rebalances>>
    BY <1>1, TopicAssumption, AggregatorAssumption DEF Produce, AppendRecord, AppendTo, groupVars
  <2>2. LogBounded'
    <3>1. log \in [Partitions -> Seq(Messages)]
      BY <1>a DEF TypeOK, TopicTypeOK, LogTypeOK
    <3>2. PICK p \in Partitions : p = PartitionOf[click.ad]
      BY <2>1
    <3>3. log' = [log EXCEPT ![p] = Append(@, click)] /\ Len(log[p]) < MaxLog
      BY <2>1, <3>2 DEF AppendTo, groupVars
    <3>4. Len(log'[p]) = Len(log[p]) + 1 /\ Len(log[p]) \in Nat
      BY <3>1, <3>3
    <3>5. \A r \in Partitions : r # p => log'[r] = log[r]
      BY <3>1, <3>3
    <3> QED BY <1>a, <3>3, <3>4, <3>5, TopicAssumption DEF LogBounded
  <2>3. TypeOK'
    BY <1>a, NextTypeOK
  <2>4. /\ \A k \in Keys :
              /\ HandledUnder(k) \in SUBSET (HandledUnder(k)')
              /\ ClicksUnder(k) \in SUBSET (ClicksUnder(k)')
              /\ HandledUnder(k)' \in SUBSET (UNION {{p} \X Offset(p)' : p \in Partitions})
              /\ ClicksUnder(k)' \in SUBSET (UNION {{p} \X Offset(p)' : p \in Partitions})
        /\ \A r \in Rows :
              /\ ClicksOf(r) \in SUBSET (ClicksOf(r)')
              /\ ClicksOf(r)' \in SUBSET (UNION {{p} \X Offset(p)' : p \in Partitions})
    BY <1>1, <1>a, DeliveriesGrow DEF HandledUnder, ClicksUnder, ClicksOf
  <2>5. ASSUME NEW S \in SUBSET (UNION {{p} \X Offset(p)' : p \in Partitions}),
               NEW T \in SUBSET S
        PROVE  Cardinality(T) <= Cardinality(S) /\ Cardinality(S) \in Nat
    <3>1. IsFiniteSet(S)
      <4>1. IsFiniteSet(0 .. MaxLog)
        BY FS_Interval, TopicAssumption
      <4>2. \A p \in Partitions : Offset(p)' \subseteq 0 .. MaxLog
        BY <2>2, <2>3, TopicAssumption DEF TypeOK, TopicTypeOK, LogTypeOK, LogBounded, Offset
      <4>3. S \subseteq Partitions \X (0 .. MaxLog)
        BY <4>2
      <4> QED BY <4>1, <4>3, FS_Product, FS_Subset, TopicAssumption
    <3> QED BY <3>1, FS_Subset, FS_CardinalityType
  <2>6. /\ \A k \in Keys :
              /\ Cardinality(HandledUnder(k)) <= Cardinality(HandledUnder(k)')
              /\ Cardinality(HandledUnder(k)') \in Nat
              /\ Cardinality(ClicksUnder(k)) <= Cardinality(ClicksUnder(k)')
              /\ Cardinality(ClicksUnder(k)') \in Nat
        /\ \A r \in Rows :
              /\ Cardinality(ClicksOf(r)) <= Cardinality(ClicksOf(r)')
              /\ Cardinality(ClicksOf(r)') \in Nat
    BY <2>4, <2>5
  <2>7. BucketsBounded'
    BY <2>1, <2>6, <1>a, <1>b, <1>d DEF BucketsBounded
  <2>8. InsertsBounded'
    BY <2>1, <2>6, <1>a, <1>b, <1>d DEF InsertsBounded
  <2>9. StoredWithinPublished'
    <3>1. ASSUME NEW r \in Rows
          PROVE  \/ table'[r] <= Cardinality(ClicksOf(r)')
                 \/ \E k \in ForeignKeys(r) : table'[r] <= Cardinality(ClicksUnder(k)')
      <4>1. table'[r] = table[r] /\ table[r] \in Nat
        BY <2>1, <1>b
      <4>2. CASE table[r] <= Cardinality(ClicksOf(r))
        BY <4>1, <4>2, <2>6, <1>d
      <4>3. ASSUME NEW k \in ForeignKeys(r), table[r] <= Cardinality(ClicksUnder(k))
            PROVE  table'[r] <= Cardinality(ClicksUnder(k)')
        <5>1. k \in Keys
          BY DEF ForeignKeys, KeysOf
        <5> QED BY <4>1, <4>3, <5>1, <2>6, <1>d
      <4> QED BY <1>a, <4>2, <4>3 DEF StoredWithinPublished
    <3> QED BY <3>1 DEF StoredWithinPublished, ForeignKeys, KeysOf
  <2> QED BY <2>1, <2>2, <2>7, <2>8, <2>9, <1>a
<1>2. CASE Boot
  <2>1. /\ buckets = EmptyBuckets /\ UNCHANGED <<log, buckets, batch, strays, table, rebalances>>
        /\ phase' # "down"
        /\ position' \in [Partitions -> Nat]
    <3>1. TypeOK'
      BY <1>a, NextTypeOK
    <3> QED BY <1>2, <1>a, <3>1 DEF Boot, TypeOK, TopicTypeOK, LogTypeOK
  <2>2. \A k \in Keys :
           HandledUnder(k)' \in SUBSET (UNION {{p} \X Offset(p) : p \in Partitions})
    BY <2>1 DEF HandledUnder, Offset, RecordAt
  <2>3. \A k \in Keys : Cardinality(HandledUnder(k)') \in Nat
    BY <1>a, <2>2, DeliveriesFinite
  <2>4. BucketsBounded'
    BY <2>1, <2>3 DEF BucketsBounded, EmptyBuckets
  <2> QED BY <1>a, <1>e, <2>1, <2>4 DEF LogBounded, InsertsBounded, ClicksUnder, Offset, RecordAt
<1>3. ASSUME NEW p \in Partitions, Handle(p) PROVE Goal
  <2>1. /\ phase' # "down" /\ UNCHANGED <<log, batch, strays, table, rebalances>>
    BY <1>3 DEF Handle
  <2>2. BucketsBounded'
    BY <1>3, HandleBounded
  <2> QED BY <1>a, <1>e, <2>1, <2>2 DEF LogBounded, InsertsBounded, ClicksUnder, Offset, RecordAt
<1>4. ASSUME UNCHANGED <<log, position, rebalances, phase, buckets, batch, strays, table>>
      PROVE  Goal
  BY <1>a, <1>e, <1>4 DEF LogBounded, BucketsBounded, InsertsBounded, HandledUnder, ClicksUnder,
     Offset, RecordAt
<1>5. ASSUME NEW f \in Flushers, FlushStart(f) PROVE Goal
  <2>1. /\ batch' = [batch EXCEPT ![f] = buckets]
        /\ UNCHANGED <<log, position, rebalances, phase, buckets, strays, table>>
    BY <1>5 DEF FlushStart, topicVars
  <2>2. \A k \in Keys : buckets[k] <= Cardinality(ClicksUnder(k))
    BY <1>a, <1>b, <1>d DEF BucketsBounded
  <2>3. \A k \in Keys : \A g \in Flushers : batch'[g][k] <= Cardinality(ClicksUnder(k))
    BY <1>a, <1>b, <2>1, <2>2 DEF InsertsBounded
  <2>4. InsertsBounded'
    BY <1>a, <2>1, <2>3 DEF InsertsBounded, ClicksUnder, Offset, RecordAt
  <2> QED BY <1>a, <1>e, <2>1, <2>4 DEF LogBounded, BucketsBounded, HandledUnder, Offset, RecordAt
<1>6. ASSUME NEW counts \in [Keys -> Nat],
             \A k \in Keys : counts[k] <= Cardinality(ClicksUnder(k)),
             table' \in Upsert(counts),
             UNCHANGED <<log, position, rebalances, phase, buckets, batch>>,
             strays' \subseteq strays
      PROVE  Goal
  <2>1. \A r \in Rows :
           \/ table'[r] <= Cardinality(ClicksOf(r))
           \/ \E k \in ForeignKeys(r) : table'[r] <= Cardinality(ClicksUnder(k))
    BY <1>6, <1>a, UpsertBounded
  <2>2. /\ \A r \in Rows : ClicksOf(r)' = ClicksOf(r)
        /\ \A k \in Keys : ClicksUnder(k)' = ClicksUnder(k)
    BY <1>6 DEF ClicksOf, ClicksUnder, Offset, RecordAt
  <2>3. StoredWithinPublished'
    BY <2>1, <2>2 DEF StoredWithinPublished, ForeignKeys, KeysOf
  <2>4. InsertsBounded'
    <3>1. \A k \in Keys : ClicksUnder(k)' = ClicksUnder(k)
      BY <1>6 DEF ClicksUnder, Offset, RecordAt
    <3>2. ASSUME NEW k \in Keys
          PROVE  /\ \A f \in Flushers : batch'[f][k] <= Cardinality(ClicksUnder(k))
                 /\ \A b \in strays' : b[k] <= Cardinality(ClicksUnder(k))
      BY <1>6, <1>a DEF InsertsBounded
    <3> QED BY <3>1, <3>2 DEF InsertsBounded
  <2> QED BY <1>a, <1>6, <2>3, <2>4 DEF LogBounded, BucketsBounded, HandledUnder, Offset, RecordAt
<1>7. ASSUME NEW f \in Flushers, ServerApplies(f) PROVE Goal
  <2>1. batch[f] \in [Keys -> Nat] /\ \A k \in Keys : batch[f][k] <= Cardinality(ClicksUnder(k))
    BY <1>a, <1>b DEF InsertsBounded
  <2> QED BY <1>6, <1>7, <2>1 DEF ServerApplies, topicVars
<1>8. ASSUME NEW b \in strays, StrayApplies(b) PROVE Goal
  <2>1. b \in [Keys -> Nat] /\ \A k \in Keys : b[k] <= Cardinality(ClicksUnder(k))
    BY <1>a, <1>b DEF InsertsBounded
  <2> QED BY <1>6, <1>8, <2>1 DEF StrayApplies, topicVars
<1>9. ASSUME NEW f \in Flushers, FlushOk(f) \/ FlushRefused(f) \/ FlushFailed(f) PROVE Goal
  <2>1. /\ batch' = [batch EXCEPT ![f] = EmptyBuckets]
        /\ UNCHANGED <<log, position, rebalances, phase, table>>
        /\ buckets' = buckets \/ buckets' = EmptyBuckets
        /\ strays' \subseteq strays \cup {batch[f]}
    BY <1>9 DEF FlushOk, FlushRefused, FlushFailed, Clear, EndFlush, topicVars
  <2>2. \A k \in Keys : \A g \in Flushers : batch'[g][k] <= Cardinality(ClicksUnder(k))
    <3>1. ASSUME NEW k \in Keys, NEW g \in Flushers PROVE batch'[g][k] <= Cardinality(ClicksUnder(k))
      <4>1. batch'[g][k] = batch[g][k] \/ batch'[g][k] = 0
        BY <2>1, <1>b DEF EmptyBuckets
      <4> QED BY <4>1, <1>a, <1>d DEF InsertsBounded
    <3> QED BY <3>1
  <2>3. \A k \in Keys : \A b \in strays' : b[k] <= Cardinality(ClicksUnder(k))
    BY <1>a, <2>1 DEF InsertsBounded
  <2>4. InsertsBounded'
    BY <2>1, <2>2, <2>3 DEF InsertsBounded, ClicksUnder, Offset, RecordAt
  <2>5. \A k \in Keys : buckets'[k] <= Cardinality(HandledUnder(k))
    BY <1>a, <1>d, <2>1 DEF BucketsBounded, EmptyBuckets
  <2>6. BucketsBounded'
    BY <2>1, <2>5 DEF BucketsBounded, HandledUnder, Offset, RecordAt
  <2> QED BY <1>a, <1>e, <2>1, <2>4, <2>6 DEF LogBounded
<1>10. CASE Rebalance
  BY <1>10, <1>a DEF Rebalance
<1>11. CASE Crash
  <2>1. /\ buckets' = EmptyBuckets
        /\ batch' = [f \in Flushers |-> EmptyBuckets]
        /\ strays' \subseteq strays \cup {batch[f] : f \in Flushers}
        /\ UNCHANGED <<log, position, rebalances, table>>
    BY <1>11 DEF Crash
  <2>2. \A k \in Keys : \A b \in strays' : b[k] <= Cardinality(ClicksUnder(k))
    BY <1>a, <2>1 DEF InsertsBounded
  <2>3. InsertsBounded'
    <3>1. \A k \in Keys : ClicksUnder(k)' = ClicksUnder(k)
      BY <2>1 DEF ClicksUnder, Offset, RecordAt
    <3>2. \A k \in Keys : \A f \in Flushers : batch'[f][k] = 0
      BY <2>1 DEF EmptyBuckets
    <3>3. \A k \in Keys : \A f \in Flushers : batch'[f][k] <= Cardinality(ClicksUnder(k))
      BY <3>2, <1>d
    <3> QED BY <2>2, <3>1, <3>3 DEF InsertsBounded
  <2>4. BucketsBounded'
    <3>1. \A k \in Keys : HandledUnder(k)' = HandledUnder(k)
      BY <2>1 DEF HandledUnder, Offset, RecordAt
    <3>2. \A k \in Keys : buckets'[k] = 0
      BY <2>1 DEF EmptyBuckets
    <3>3. \A k \in Keys : buckets'[k] <= Cardinality(HandledUnder(k))
      BY <3>2, <1>d
    <3> QED BY <3>1, <3>3 DEF BucketsBounded
  <2> QED BY <1>a, <1>e, <2>1, <2>3, <2>4 DEF LogBounded
<1>13. CASE Initialise
  <2>1. /\ phase' # "down"
        /\ UNCHANGED <<log, position, rebalances, buckets, batch, strays, table>>
    BY <1>13 DEF Initialise, topicVars
  <2> QED BY <1>a, <1>e, <2>1 DEF LogBounded, BucketsBounded, InsertsBounded, HandledUnder,
          ClicksUnder, Offset, RecordAt
<1>12. CASE (\E p \in Partitions : CommitHandled(p)) \/ UNCHANGED vars
  BY <1>4, <1>12 DEF CommitHandled, vars, topicVars
<1> QED BY <1>1, <1>2, <1>3, <1>5, <1>7, <1>8, <1>9, <1>10, <1>11, <1>12, <1>13
        DEF Next

\* The count of the rebalances never falls back to zero.
LEMMA RebalancesOnlyGrow ==
    ASSUME TypeOK, [Next]_vars, rebalances' = 0
    PROVE  rebalances = 0
<1>1. CASE Rebalance
  BY <1>1 DEF Rebalance, TypeOK, TopicTypeOK, LogTypeOK
<1>2. CASE UNCHANGED rebalances
  BY <1>2
<1> QED
  BY <1>1, <1>2 DEF Next, Produce, AppendRecord, AppendTo, groupVars, Boot, Assign, Initialise, Handle,
     Advance, CommitHandled, CommitPosition, FlushStart, ServerApplies, FlushOk, Clear, EndFlush,
     FlushRefused, FlushFailed, StrayApplies, Crash, vars, topicVars

\* A stored row never shows more clicks than were published for its ad in its
\* window, or, where an ad id with a "|" and that date is stored in it, than were
\* published with that id in one window: whatever clients call their ads, however
\* flushes overlap, fail, or are applied late, and over any number of crashes,
\* until the group is rebalanced under a living process.
THEOREM StoredNeverExceedsPublished == Spec => []NeverOvercounts
<1> DEFINE Inv == TypeOK /\ (rebalances = 0 => BoundInv)
<1>1. Init => Inv
  BY InitBoundInv DEF BoundInv
<1>2. Inv /\ [Next]_vars => Inv'
  <2> SUFFICES ASSUME Inv, [Next]_vars PROVE Inv'
    OBVIOUS
  <2>1. rebalances' = 0 => rebalances = 0
    BY RebalancesOnlyGrow
  <2>2. rebalances' = 0 => BoundInv'
    BY <2>1, NextBoundInv
  <2> QED BY <2>2, NextTypeOK
<1>3. Inv => NeverOvercounts
  BY DEF BoundInv, NeverOvercounts
<1> QED BY <1>1, <1>2, <1>3, PTL DEF Spec

\* Where no ad id contains a "|", the row of an ad and a window shows no clicks
\* but those published for them, until the first rebalance: the "|" is the only
\* way by which the clicks of one ad get into the row of another.
THEOREM PlainIdsKeepTheirRows ==
    ASSUME \A a \in Ads : Len(a) = 1
    PROVE  Spec => []RowsShowTheirAd
<1>1. ASSUME NEW r \in Rows PROVE ForeignKeys(r) = {}
  <2> SUFFICES ASSUME NEW m \in Messages PROVE ~ Len(Key(m)) > 2
    BY DEF ForeignKeys, KeysOf, Keys
  <2> DEFINE a == m.ad
             w == ToWindowStart(m.time)
  <2>1. a \in Seq(UNION {{b[i] : i \in 1 .. Len(b)} : b \in Ads}) /\ Len(a) = 1
    BY AggregatorAssumption
  <2> HIDE DEF a, w
  <2>2. Len(Append(a, w)) = 2
    BY <2>1
  <2>3. Len(Key(m)) = 2
    BY <2>2 DEF Key, a, w
  <2> QED BY <2>3
<1>2. NeverOvercounts => RowsShowTheirAd
  BY <1>1 DEF NeverOvercounts, StoredWithinPublished, RowsShowTheirAd
<1> QED BY <1>2, StoredNeverExceedsPublished, PTL
=============================================================================
