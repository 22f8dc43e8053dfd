---------------------------- MODULE CountConsumer ----------------------------
(***************************************************************************)
(* The count-consumer of 0-event-ingestion-kafka: the consume loop, the    *)
(* in-memory dedup store and counts, and the group's offsets, under        *)
(* crashes, restarts and rebalances.  Its four language tracks have the    *)
(* same record() and differ in when the offset of a record is committed:   *)
(*   "typescript", "java"  after the handler returned                      *)
(*   "csharp"              by a timer, once Consume() returned the record, *)
(*                         and by Close()                                  *)
(*   "go"                  inside ReadMessage, before record() is called   *)
(***************************************************************************)
EXTENDS ConsumerGroup, Functions

CONSTANTS
    Clicks,     \* the click ids clients send (a client may send one twice)
    Tracks      \* the language tracks considered, at most these four:

CommitsAfterRecord == {"typescript", "java"}

AllTracks == CommitsAfterRecord \cup {"csharp", "go"}

ASSUME CounterAssumption == Tracks \subseteq AllTracks /\ IsFiniteSet(Clicks)

VARIABLES
    track,       \* the track that is deployed; it never changes
    phase,       \* "down", "consuming", or "deaf": up with the loop ended
    inHand,      \* the delivery <<p, o>> taken and not recorded yet, if any
    seen,        \* click ids counted since boot: the dedup index
    counts,      \* counts[a]: unique clicks counted for ad a since boot
    duplicates   \* deliveries rejected as duplicates since boot

\* Auxiliary variables: they record history and guard no action.
VARIABLES
    recorded,    \* recorded[p]: offsets record() was called for, in any life
    credited,    \* credited[a]: the click ids counted for a since boot
    resumedAt    \* resumedAt[p]: the offset this life started at

memory == <<seen, counts, duplicates, credited>>
vars == <<topicVars, track, phase, inHand, memory, recorded, resumedAt>>

Envelopes == [click : Clicks, ad : Ads]

TypeOK ==
    /\ TopicTypeOK(Envelopes)
    /\ track \in Tracks
    /\ phase \in {"down", "consuming", "deaf"}
    /\ inHand \subseteq {d \in Partitions \X Nat : d[2] \in Offset(d[1])}
    /\ \A d, e \in inHand : d = e
    /\ seen \subseteq Clicks
    /\ counts \in [Ads -> Nat]
    /\ duplicates \in Nat
    /\ recorded \in [Partitions -> SUBSET Nat]
    /\ credited \in [Ads -> SUBSET Clicks]
    /\ resumedAt \in [Partitions -> Nat]

NoCounts == [a \in Ads |-> 0]

NoCredits == [a \in Ads |-> {}]

Init ==
    /\ TopicInit
    /\ track \in Tracks
    /\ seen = {}
    /\ counts = NoCounts
    /\ duplicates = 0
    /\ credited = NoCredits
    /\ phase = "down"
    /\ inHand = {}
    /\ recorded = [p \in Partitions |-> {}]
    /\ resumedAt = [p \in Partitions |-> 0]

-----------------------------------------------------------------------------
\* The ingest-api appends a click; nothing stops a client from repeating a
\* click id, for the same ad or for another one.
Produce(c, a) ==
    /\ AppendRecord([click |-> c, ad |-> a])
    /\ UNCHANGED <<track, phase, inHand, memory, recorded, resumedAt>>

\* bootstrap: create the topic if need be, join the group, start consuming.
Boot ==
    /\ phase = "down"
    /\ phase' = "consuming"
    /\ Assign
    /\ resumedAt' = [p \in Partitions |-> StartOffset(p)]
    /\ UNCHANGED <<log, committed, rebalances, crashes, track, inHand, memory, recorded>>

Idle == phase = "consuming" /\ inHand = {}

\* A mutant of CommitOnTake: off by one.
CommitTakenItself(p) ==
    IF track = "go"
    THEN committed' = [committed EXCEPT ![p] = position[p]]
    ELSE UNCHANGED committed

\* The commit that is part of taking a record: ReadMessage of kafka-go.
CommitOnTake(p) ==
    IF track = "go"
    THEN committed' = [committed EXCEPT ![p] = position[p] + 1]
    ELSE UNCHANGED committed

\* The loop takes the next record of one of its partitions.
Take(p) ==
    /\ Idle
    /\ HasNext(p)
    /\ inHand' = {<<p, position[p]>>}
    /\ Advance(p)
    /\ CommitOnTake(p)
    /\ UNCHANGED <<log, rebalances, crashes, track, phase, memory, recorded, resumedAt>>

\* A mutant of IsDuplicate: no check.
NeverDuplicate(env) == FALSE

\* The duplicate check, always done first.
IsDuplicate(env) == env.click \in seen

\* A mutant of CountNew: the id is not added to the dedup store.
CountUnmarked(env) ==
    /\ ~ IsDuplicate(env)
    /\ counts' = [counts EXCEPT ![env.ad] = @ + 1]
    /\ credited' = [credited EXCEPT ![env.ad] = @ \cup {env.click}]
    /\ UNCHANGED <<seen, duplicates>>

CountNew(env) ==
    /\ ~ IsDuplicate(env)
    /\ seen' = seen \cup {env.click}
    /\ counts' = [counts EXCEPT ![env.ad] = @ + 1]
    /\ credited' = [credited EXCEPT ![env.ad] = @ \cup {env.click}]
    /\ UNCHANGED duplicates

DropDuplicate(env) ==
    /\ IsDuplicate(env)
    /\ duplicates' = duplicates + 1
    /\ UNCHANGED <<seen, counts, credited>>

\* record(envelope), for the delivery in hand; synchronous or under a lock.
Record ==
    \E d \in inHand :
        /\ \/ CountNew(RecordAt(d[1], d[2]))
           \/ DropDuplicate(RecordAt(d[1], d[2]))
        /\ inHand' = {}
        /\ recorded' = [recorded EXCEPT ![d[1]] = @ \cup {d[2]}]
        /\ UNCHANGED <<topicVars, track, phase, resumedAt>>

\* Mutants of Resolved: commits switched off, and not waiting for the handler.
AutoCommitOff == FALSE
TakenAlready == track \in CommitsAfterRecord /\ phase = "consuming"

\* KafkaJS and Spring commit what was handed to the handler once it returned.
Resolved == track \in CommitsAfterRecord /\ Idle

CommitResolved(p) ==
    /\ Resolved
    /\ CommitPosition(p)
    /\ UNCHANGED <<log, position, rebalances, crashes, track, phase, inHand,
                   memory, recorded, resumedAt>>

\* EnableAutoCommit: a timer commits what Consume() returned, the record in
\* hand included.
AutoCommit(p) ==
    /\ track = "csharp"
    /\ phase = "consuming"
    /\ CommitPosition(p)
    /\ UNCHANGED <<log, position, rebalances, crashes, track, phase, inHand,
                   memory, recorded, resumedAt>>

\* A mutant of Stop: the counts outlive the dedup store.
StopKeepsCounts ==
    /\ crashes < MaxCrashes
    /\ crashes' = crashes + 1
    /\ phase' = "down"
    /\ inHand' = {}
    /\ seen' = {}
    /\ UNCHANGED <<counts, duplicates, credited, log, position, rebalances, track, recorded,
                   resumedAt>>

\* The process is gone and its memory with it.
Stop ==
    /\ crashes < MaxCrashes
    /\ crashes' = crashes + 1
    /\ phase' = "down"
    /\ inHand' = {}
    /\ seen' = {}
    /\ counts' = NoCounts
    /\ duplicates' = 0
    /\ credited' = NoCredits
    /\ UNCHANGED <<log, position, rebalances, track, recorded, resumedAt>>

\* ExecuteAsync leaves its loop between two records (shutdown, or an error
\* thrown by Consume) and its finally block closes the consumer, which
\* commits; the host then stops.
CloseConsumer ==
    /\ track = "csharp"
    /\ Idle
    /\ committed' = [p \in Partitions |->
                        IF position[p] > StartOffset(p) THEN position[p] ELSE committed[p]]
    /\ Stop

\* ReadMessage failed: the goroutine returns, the HTTP server stays up.
ReadError ==
    /\ track = "go"
    /\ Idle
    /\ phase' = "deaf"
    /\ UNCHANGED <<topicVars, track, inHand, memory, recorded, resumedAt>>

\* The group is rebalanced between two records (a missed heartbeat, a broker
\* hiccup): the member rejoins and is positioned by the committed offsets.
Rebalance ==
    /\ Idle
    /\ rebalances < MaxRebalances
    /\ rebalances' = rebalances + 1
    /\ Assign
    /\ UNCHANGED <<log, committed, crashes, track, phase, inHand, memory, recorded,
                   resumedAt>>

\* The process dies at any point: a kill, or a stop without shutdown hooks.
Crash ==
    /\ phase # "down"
    /\ Stop
    /\ UNCHANGED committed

Next ==
    \/ \E c \in Clicks, a \in Ads : Produce(c, a)
    \/ Boot
    \/ \E p \in Partitions : Take(p)
    \/ Record
    \/ \E p \in Partitions : CommitResolved(p)
    \/ \E p \in Partitions : AutoCommit(p)
    \/ CloseConsumer
    \/ ReadError
    \/ Rebalance
    \/ Crash

Spec == Init /\ [][Next]_vars

\* While the process is up its loop keeps going and the commits it owes are
\* made; nobody promises that it is started, that it stays up or that it
\* never stops, and clients need not send anything.
Fairness ==
    /\ WF_vars(\E p \in Partitions : Take(p))
    /\ WF_vars(Record)
    /\ WF_vars(\E p \in Partitions : CommitResolved(p) \/ AutoCommit(p))

FairSpec == Spec /\ Fairness
-----------------------------------------------------------------------------
\* GET /counts: the sum of the per-ad counts is reported as totalUnique.
TotalUnique == FoldFunction(LAMBDA n, total : n + total, 0, counts)

\* The clicks published for ad a, however often and in whatever order.
ClicksOf(a) == {env.click : env \in {e \in Published : e.ad = a}}

-----------------------------------------------------------------------------
\* Whatever is redelivered, repeated by clients or replayed after a restart,
\* GET /counts never credits an ad with more clicks than were published for it.
NeverOvercounts == \A a \in Ads : counts[a] <= Cardinality(ClicksOf(a))

\* A click id is credited to at most one ad, the one of its first delivery:
\* the counts split the dedup index, so `seen` and `counts` never drift apart.
CountsSplitSeen ==
    /\ \A a \in Ads : counts[a] = Cardinality(credited[a])
    /\ \A a, b \in Ads : a # b => credited[a] \cap credited[b] = {}
    /\ UNION {credited[a] : a \in Ads} = seen

\* snapshot() sums the map instead of asking the set; both answers agree.
TotalIsDistinctClicks == TotalUnique = Cardinality(seen)

\* An offset the group has committed belongs to a record that record() was
\* called for, or is being called for.
AtLeastOnce ==
    \A p \in Partitions : \A o \in 0 .. committed[p] - 1 :
        o \in recorded[p] \/ <<p, o>> \in inHand

\* At-least-once delivery, on the tracks that commit after the handler has
\* returned: a crash never strikes a record off the log that nobody counted.
CommittedIsRecorded == track \in CommitsAfterRecord => AtLeastOnce

\* No record was counted without the ones before it.
NothingLeftOut ==
    \A p \in Partitions : \A o \in recorded[p] : 0 .. o \subseteq recorded[p]

\* What a life of the process has moved past, it has counted: between the
\* offset it resumed at and its position there is no click missing in `seen`,
\* through any number of rebalances.
NoGapSinceResume ==
    phase # "down" =>
        \A p \in Partitions : \A o \in resumedAt[p] .. position[p] - 1 :
            <<p, o>> \in inHand \/ RecordAt(p, o).click \in seen

\* Per-ad order, on the same tracks: the records of an ad share a partition
\* and reach record() in the order they were published, without leaving one
\* out, over all lives.
RecordedInOrder == track \in CommitsAfterRecord => NothingLeftOut

\* The group's committed offset never moves back, so a restart cannot replay
\* more than what the last commit left open.
CommitsMoveForward == [][\A p \in Partitions : committed'[p] >= committed[p]]_vars

\* The offset-resume claim of the README, "no replay of already-processed
\* events", which the Go track keeps by committing first: a record that
\* record() was called for is not taken again.
NeverReplays ==
    [][track = "go" => \A d \in inHand' \ inHand : d[2] \notin recorded[d[1]]]_vars

\* Every published record reaches record(), unless the process stops, its
\* consume loop has ended, or a track that commits early struck the record off.
EveryClickReachesRecord ==
    \A p \in Partitions : \A o \in 0 .. MaxLog - 1 :
        o \in Offset(p) ~>
            \/ o \in recorded[p]
            \/ phase # "consuming"
            \/ track \notin CommitsAfterRecord /\ o < committed[p]

\* If from some point on the process is up and consuming, its committed
\* offsets catch up with the log: the next restart replays nothing.
CommitsCatchUp ==
    <>[](phase = "consuming") =>
        <>[](\A p \in Partitions : StartOffset(p) = Len(log[p]))

\* The consumer implements the abstract counter: publishing appends, a first
\* sighting counts, a later one is rejected, and a stop forgets everything.
Abstract == INSTANCE UniqueClickCount WITH
                published <- Published, known <- seen,
                tally <- counts, rejected <- duplicates

\* The refinement, as a property of a run.
CountsUniqueClicks == Abstract!Spec

-----------------------------------------------------------------------------
(* The parts of the inductive invariants (module CountConsumerProofs).     *)

\* A click is credited to an ad it was published for.
CreditsArePublished == \A a \in Ads : credited[a] \subseteq ClicksOf(a)

\* The record in hand is the last one taken from its partition.
InHandIsLast ==
    \A d \in inHand : phase = "consuming" /\ d[2] + 1 = position[d[1]]

\* Committed offsets were recorded, also when no record is in hand any more.
CommittedSurvivesCrash ==
    \A p \in Partitions : 0 .. committed[p] - 1 \subseteq recorded[p]

\* An up process has recorded everything before its position, save the
\* record in hand.
TakenIsRecorded ==
    phase # "down" =>
        \A p \in Partitions : \A o \in 0 .. position[p] - 1 :
            o \in recorded[p] \/ <<p, o>> \in inHand

\* Where the commit comes first, nothing was recorded or taken beyond it.
RecordedIsCommitted ==
    track = "go" => /\ \A p \in Partitions : \A o \in recorded[p] : o < committed[p]
                    /\ \A d \in inHand : d[2] < committed[d[1]]
=============================================================================
