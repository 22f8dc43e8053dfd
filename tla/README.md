# Verification of the ad-click aggregator

TLA+ specifications of the services of this repository, alone and as the
pipelines they form, TLC models that check them on small instances, and TLAPS
proofs about all of them. Paths are relative to the repository; `S0`, `S1` and
`S2` stand for `0-event-ingestion-kafka`, `1-windowed-aggregation` and
`2-late-data-and-fraud`.

## The system

Three lessons, each a small pipeline around one Kafka topic, `ad-clicks`, with
three partitions and `key = adId`.

| Component | State | Operations | Hard behaviour |
| --- | --- | --- | --- |
| ingest-api (S0: TypeScript, Java, C#, Go; S1, S2: TypeScript) | none of its own; records in flight in the producer library | `POST /clicks`: validate, mint a click id, stamp, send, answer 202 | the answer before the append, retries that duplicate and reorder, a crash with records in flight |
| Kafka topic and consumer group (external) | partition logs, committed offsets, the member's position | append, assign, hand out, commit, rebalance | redelivery |
| count-consumer (S0, four languages) | `seen`, `counts`, `duplicates`, all in memory | consume loop and `record`; `GET /counts` | the commit relative to `record`, crash, replay, rebalance, a loop that ends |
| aggregator (S1) | `buckets` in memory; rows in ClickHouse | start, `record`, `flush` (interval and `GET /flush`), `snapshot` | an `await` inside `flush`, overlapping flushes, inserts that fail or are applied late, a start that fails, crash |
| processor (S2) | `watermarkMs`, `ipWindowCounts`, `processed`, in memory | `process`, `snapshot` | skew between partitions, redelivery, event times that cannot be read |

Producers and consumers interact through the topic only. Each consumer is alone
in its group: the compose files give every service one container with a fixed
name. No process enables shutdown hooks or has a restart policy, so a stop is a
crash and a restart is possible but not promised; the C# worker, which closes
its consumer, is the exception.

What makes them correct: a click is counted at most once and for one ad; a
committed offset stands for a click that was counted; a flush loses nothing and
stores no more than was published; statuses agree with the clicks seen; an
accepted click is in the topic, in order; and, end to end, every accepted click
is counted, stored or classified, or was lost in a way that is known.

## Modules

| Module | What it is |
| --- | --- |
| `KafkaTopic` | the log of the topic |
| `ConsumerGroup` | a group with one member on that topic; every consumer extends it |
| `UniqueClickCount` | abstract: counts a published click at most once, rejects repetitions, forgets all or nothing |
| `ClickClassifier` | abstract: judges a published click by the verdicts before it, forgets all or nothing |
| `IngestApi` | the ingest-api of the three lessons and its producer library; the variable `track`, which never changes, is the language deployed |
| `CountConsumer` | the count-consumer; `track` as above |
| `WindowAggregator` | the aggregator and its table |
| `WatermarkProcessor` | the processor |
| `CountPipeline` | lesson 0: `IngestApi` and `CountConsumer` on one topic and one track |
| `WindowPipeline` | lesson 1: `IngestApi` and `WindowAggregator` on one topic |
| `FraudPipeline` | lesson 2: `IngestApi` and `WatermarkProcessor` on one topic |
| `KafkaTopicProofs`, `CountConsumerProofs`, `WindowAggregatorProofs`, `WatermarkProcessorProofs`, `IngestApiProofs`, `CountPipelineProofs`, `WindowPipelineProofs`, `FraudPipelineProofs` | theorems |
| `MC*` | instances for TLC |

Variables declared as *auxiliary* record history for the properties and guard no
action. Definitions introduced as *mutants* of another are wrong on purpose and
used by nothing: put in its place, they show which bug a property notices.

### KafkaTopic and ConsumerGroup

`log[p]` is the partition; it is all that the ingest-api shares with a consumer.
`committed[p]` is the group's offset (`NoOffset` before the first commit),
`position[p]` the next offset the member is handed. `StartOffset` is the
`groupId`/`fromBeginning` configuration that all consumers share: the committed
offset, or the beginning. Broker and client libraries are external; only what the
services rely on is modelled.

### IngestApi

`Start` is the bootstrap, `Reject`, `Fire` (TypeScript, Java: answer at once),
`SendThrows` (Java), `Await` and `Settle` (C#, Go) are the handler; `outbox`
holds what the producer library has not got rid of, and `Deliver`, `Written`,
`Retry`, `AppendUnacked` and `GiveUp` are the library. `ApiCrash` takes the outbox
with it. With the library defaults that the code leaves in place: KafkaJS and
librdkafka retry a record behind later ones and may append it twice; the Java
client is idempotent and keeps order; kafka-go writes without acks, so
`WriteMessages` returns once the record is written (`Written`) and the record
may still vanish. A minted id is represented by its request.

The lessons share the handler. They differ in the event time (`EventTime`): a
reading of the server's clock, which does not go back, and from lesson 2 on the
time the client chose, if it chose one; `ChosenTimes` is empty before. A body
that is refused before the handler for another reason (malformed JSON, unknown
fields) is left out.

### CountConsumer

`Take` hands out a record, `Record` is `record()`, synchronous or under a lock
in all tracks. The tracks have the same `record()` and differ in the commit:

* TypeScript, Java: after the handler returned (`CommitResolved`, only when no
  record is in hand);
* C#: by a timer (`AutoCommit`), also with a record in hand; and in
  `CloseConsumer`, the `finally` block;
* Go: inside `ReadMessage` (`CommitOnTake`), before `record()`. `ReadError` ends
  the goroutine and leaves a process that serves frozen counts (`"deaf"`).

`Crash` empties the memory and keeps log and offsets. `Rebalance` moves the
position back to the committed offsets while the memory is kept.

### WindowAggregator

`Boot` joins the group; records are handled and committed from then on, and only
`Initialise` (`onModuleInit`) creates the table and starts the interval. Between
the two (`"starting"`) clicks wait in buckets that no flush will take if the
table cannot be created and the process ends. `Handle` is `handle` and `record`.
`flush` is split at its `await`: `FlushStart` takes the snapshot, `ServerApplies`
is the server, and `FlushOk`, `FlushRefused` and `FlushFailed` are the ways the
call returns. Flushes overlap because nothing prevents the interval or
`GET /flush` from starting one while another awaits. A failed insert is lost, or
applied already, or applied later (`StrayApplies`). `table` holds the row
ClickHouse would return after a merge.

An ad id is the sequence of its parts between `|`, which is what `split("|")`
sees: the API asks for a string that is not empty and for nothing else. `flush`
takes the first part of a key for the ad and converts the second
(`toClickHouseDateTime`). `DateTimeOf` says which strings convert to a DateTime,
and to which: the window starts do, to themselves, and so may a part of an ad id,
in any spelling ClickHouse reads. If some key of a batch is not `Readable`, the
batch is refused as a whole. If all are, an ad id with a `|` is stored in the row
of the ad that its first part names, in the window that its second part names
(`Decode`); several keys of a batch may then be stored in one row (`KeysOf`), and
the last one stays. Which one is last depends on the order in which the keys
entered the map; the model keeps no order and lets any of them be last
(`Latest`, `Upsert`).

The auxiliary variables follow single deliveries: `bucketed` are counted in the
buckets now, `carried` by an insert, `landed` in an applied one, `overlapped`
were recorded while an insert was awaited, `abandoned` were committed and in a
bucket when the process died.

### WatermarkProcessor

`Handle` is one call of `process`: `FlagLate` or `CountIp`, then `Log`.
`HandleFails` is the exception `toISOString` throws on an unreadable event time:
nothing was changed, the error goes to KafkaJS as a retriable one, the record
comes again. Results name the record they are for, which stands for the copied
fields.

`ClickClassifier` is what the processor promises: a sequence of verdicts, each a
function of the ones before it. It has no watermark and no map of counts, so that
`JudgesByHistory`, the refinement, says that these two never drift from what was
handled. Handling a record is a verdict; a stop forgets all of them.

### The pipelines

The module of lesson 1 or 2 extends `IngestApi` and its consumer, which share the
variable `log`; the one of lesson 0 extends `IngestApi` and instantiates
`CountConsumer`, whose `track` and `Envelopes` it has to choose. A step is one of
either process (`Ingest` or `Consume`, `Aggregate`, `Process`) while the other
stands still; the consumer's own `Produce` is not a step, since here the
ingest-api appends. Records carry the request they were built for, so that a
property can follow a click from its answer to its count.

What the consumers of lessons 1 and 2 take for granted of the topic is their
`Produce`: a click of one of the known ads, appended to the partition of that ad.
`ImplementsAggregator` and `ImplementsProcessor` say that the ingest-api gives them
nothing else, however it refuses, retries, duplicates or loses: each lesson is an
implementation of the specification its consumer was checked by. On the Java
track of lesson 0 the like does not hold: a click without an ad has no key and
goes to any partition.

`CountPipeline` deploys one track on both sides, as each folder of lesson 0 does.
Its abstract specification is again `UniqueClickCount`: a click counts as
published when its request is received, so that everything the producer, the
broker and the group do in between must be invisible.

## Checks

All runs set `CHECK_DEADLOCK FALSE`: a service whose clients are quiet waits for
ever, and the bounds stop the clients. The bounds are constants: `MaxLog`
(records per partition), `MaxRebalances`, `MaxCrashes`, `MaxFailures` (failed
deliveries and crashes of the ingest-api), `MaxInsertFailures` (failed inserts of
the aggregator), `Flushers` (overlapping flushes), `Requests`.

| Run | Instance | Shows |
| --- | --- | --- |
| CountTracks | 2 partitions of 2 records, 2 ads, 2 click ids, 1 rebalance, 1 crash; Java (TypeScript commits alike), C#, Go | each track counts every click id once and implements the abstract counter; TypeScript and Java are at-least-once and keep per-ad order; Go never replays; clicks are counted and commits catch up while the process is up |
| CountPipeline | 4 tracks, 1 partition of 3 records, 2 requests, 1 failure of the producer, 1 rebalance, 1 crash of the consumer | no count exceeds the ids asked for; the lesson implements the abstract counter; on the Java track per-ad order holds up to `record()`; an accepted click is counted |
| WindowSafe | 1 partition of 2 records, 2 windows, ad ids with a `\|` followed by a date and by none, 2 flushes at a time (interchangeable), 1 failed insert, 1 rebalance, 1 crash | until a rebalance no stored row exceeds the clicks of its ad and window, or of one other ad id stored in it; a flush loses at most what was recorded during an await; a restart, also during a start, at most what was committed and in a bucket |
| WindowPipeline | 1 partition of 2 records, 2 requests, ad ids with a `\|` followed by a date and by none, 1 failure of the producer, 1 failed insert, 1 crash of the aggregator | the ledger: where every accepted click is; a stored row exceeds the requests received for it, or for one other ad id stored in it, by the failures at most; the lesson implements the aggregator; accepted clicks are stored |
| WatermarkSafe | 2 partitions of 2 records, times around the epoch and one that cannot be read, 1 rebalance, 1 crash | statuses match the history of results, as in the abstract classifier; before a redelivery fraud is justified by the clicks themselves; no record is skipped, an unreadable one least of all |
| FraudPipeline | 1 partition of 3 records, 2 requests, 2 ips, a post-dated time and an unreadable one, 1 failure, 1 rebalance, 1 crash | what makes a click late or fraud whose client did nothing about it; the lesson implements the processor; accepted clicks are classified |
| Ingest | 4 tracks, 2 requests with good, missing, empty and white-space fields, 2 failures (retries, lost acknowledgements, records given up, crash) | what an awaited 202 means, per-ad order, ids and keys; no request waits for ever |

Why the bounds are enough: the hazards need two records of a partition (one
counted, one not), two ids or two ads, one crash and one rebalance; two
overlapping flushes and one failure; two clicks of a window or one of each of
two windows, and a threshold of one; two requests and two failures. In a
pipeline the third record of a partition is the duplicate that a failed attempt
of the producer leaves behind. All of these combine within the bounds, except
that `WindowPipeline` has no rebalance (`WindowSafe` has) and one flush at a
time (`WindowSafe` has two). The theorems below remove the bounds where they
apply.

Some properties hold on some tracks only and say so in their first line:
`CommittedIsRecorded` and `RecordedInOrder` (TypeScript, Java), `NeverReplays`
(Go), `ConfirmedIsAppended` (C#), `AcceptedInOrder` (all but TypeScript),
`SharedIdsAreChosen` (Java, C#), `RecordsNameAnAd` (all but Java),
`CountedInAcceptedOrder` (Java). The tracks left out violate them; the next
section names the ways. Others hold until the first rebalance, which redelivers
records to a process that keeps its memory and does not deduplicate:
`NeverOvercounts` of the aggregator, `StoredIsReceived`, `NoFalseFraud`,
`FraudIsRequested`; for `StampedIsLateForACause` a rebalance is one of the
causes. `NeverOvercounts` and `StoredIsReceived` have a second disjunct for the
rows in which an ad id with a `|` is stored (`ForeignKeys`): such a row may show
that id's clicks, and even then never the clicks of two ids added up. And the liveness properties of the pipelines name in their last
disjuncts what may stop a click; each disjunct is one of the ways of the next
section.

### Disagreements between the code and what is said of it

Each of these runs ends with a counterexample.

| Run | Property | In short |
| --- | --- | --- |
| CountGoLost | `AtLeastOnce` | the commit comes before `record()`: at-most-once, not at-least-once |
| WindowOverlap | `HandledIsKept` | `clear()` drops clicks recorded while the insert was awaited |
| WindowReplaced | `StoredCountsStand` | a second flush of a window replaces its stored count by the rest |
| WindowPiped | `BucketedClicksLand` | an ad id with a `\|` that no date follows stops all flushes |
| WatermarkLateFraud | `ExcessIsFlagged` | late clicks are not counted per ip |

The same instances with another track, or another bound, show the following;
they have no run of their own:

* C#: the auto-commit timer may commit the record in hand, and a crash then
  loses it (`AtLeastOnce` with `Tracks = {"csharp"}`).
* TypeScript, Java, C#: a crash between `record()` and the commit replays an
  event, which the README of lesson 0 excludes; the memory is empty by then, so
  the replay restores the count rather than doubling it.
* TypeScript, Java and Go answer 202 for records that may never be appended
  (`ConfirmedIsAppended` without its first line).
* TypeScript: a retried record is overtaken by a later click of the same ad.
* TypeScript takes an empty click id for a chosen one, Go one of white space.
* Java appends a click without an ad id, with no key, before it answers 500; the
  Java consumer counts it for an ad `"null"`.
* Aggregator: an offset is committed up to 10 seconds before its bucket is
  flushed; a crash in between loses the click, and so does a start that fails
  after records were handled. A comment calls the upsert safe under
  at-least-once delivery (`window.service.ts:44-45`); after a rebalance a record
  is counted twice (`NeverOvercounts` without its premise).
* Aggregator: an ad id such as `ad1|2026-06-12T10:05:00.000Z` is accepted by the
  API and by ClickHouse, and its clicks, of whatever window, are stored in the row
  of `ad1` for that minute, where the later of the two counts stays
  (`RowsShowTheirAd` on the instance of WindowSafe). The comment on the table
  promises one row per ad id and window (`window.service.ts:43`).
* Lesson 1 mints the click id as "the idempotency key for deduplication"
  (`events.service.ts:11`), but the aggregator never reads it: what a failing
  producer appends twice is stored twice, which is the `+ failures` of
  `StoredIsReceived`.

## Fairness

Only what a running process does by itself is fair, and weakly so: the consume
loop takes and records, the client library commits, a start comes to an end, the
10-second interval flushes, the server answers an insert, the producer
transmits, a settled handler answers. Clients, crashes, failures, rebalances and
restarts are never fair, and so every liveness property but
`EveryRequestIsAnswered` excuses a process that is down. Fairness of handing out
records is over all partitions together; that no partition starves follows from
the bounded log in the models and from the round-robin fetch of the clients in
the code. A pipeline has the fairness of its two processes, each with the other
one standing still. `WatermarkProcessor` alone states none: what must happen in
lesson 2 is a property of its pipeline.

## Proofs

For every value of the constants that satisfies the named assumptions
(`TopicAssumption`, `GroupAssumption`, `CounterAssumption`,
`AggregatorAssumption`, `ProcessorAssumption`, `IngestAssumption`,
`WindowPipelineAssumption`, `FraudPipelineAssumption`), which are about the types
of the constants and the tracks of a lesson, and, in `AggregatorAssumption`, that a
window start converts to its own DateTime; ad ids may have any number of parts,
dates among them:

* `CountConsumerProofs`: `TypeCorrect`, `CountsAlwaysSplitSeen`,
  `CountsNeverExceedClicks`, `TotalIsAlwaysDistinctClicks`, `NoGapInAnyLife`,
  `CommittedOffsetsOnlyGrow` and
  `ConsumerImplementsUniqueClickCount` for all tracks;
  `CommitsOnlyWhatIsRecorded` and `RecordsInPublishedOrder`, whose properties
  are about the tracks that commit after the handler;
  `RecordedIsNeverTakenAgain`, about the one that commits before it.
* `WindowAggregatorProofs`: `TypeCorrect`; `FlushesLoseOnlyOverlapped` and
  `CommittedStaysAccountedFor`, for any number of overlapping flushes, failures,
  crashes and rebalances; `StoredNeverExceedsPublished`, whose property is about
  the time until the first rebalance, whatever clients call their ads, and
  `PlainIdsKeepTheirRows`, which adds the premise that no ad id contains a `|`:
  then every row shows its own ad's clicks only.
* `WatermarkProcessorProofs`: `TypeCorrect`, `LateAlwaysMatchesHistory`,
  `FraudAlwaysMatchesHistory`, `EveryHandledIsLogged`,
  `UnreadableHoldsItsPartition`, `ProcessorImplementsClickClassifier`;
  `FraudIsAlwaysReal`, about the time until the first rebalance.
* `IngestApiProofs`: `ApiTypeCorrect`, `ConfirmedStaysAppended`,
  `RecordsAlwaysNameAnAd`, `MintedIdsAreNeverShared`, `AcceptedStayInOrder`.
* `CountPipelineProofs`: `CountsNeverExceedRequests`,
  `LessonImplementsUniqueClickCount`, `AcceptedAreCountedInOrder` (Java track).
* `WindowPipelineProofs`: `PipelineImplementsAggregator`,
  `AcceptedStaysAccountedFor`, `StoredIsAlwaysReceived`.
* `FraudPipelineProofs`: `PipelineImplementsProcessor`, `LateIsAlwaysForACause`,
  `FraudIsAlwaysRequested`.

The arguments:

* *Counts.* `NeverOvercounts` is not inductive: a count says nothing of the ids
  behind it. The auxiliary `credited` names them; `CountsSplitSeen` makes each
  count the size of its set, and `CreditsArePublished` bounds the set by the log.
* *Offsets.* `OffsetsOrdered` keeps commit, position and log length in order,
  `InHandIsLast` ties the record in hand to the position, and `TakenIsRecorded`
  covers everything before the position; `CommittedSurvivesCrash` is what is
  left of it when the memory is gone. Only the last two, and `NothingLeftOut`
  with them, need the commit to come after the handler: `DeliveryInv` asks for
  them on those tracks.
* *Refinement.* Every action maps to a step of `UniqueClickCount` or to a
  stutter: `Produce` publishes, `Record` counts or rejects, a stop forgets.
* *Flushes.* `AwaitedCarries`: what an awaited insert does not carry was
  recorded during its await. `AppliedLanded`: what an applied insert carries has
  landed. Clearing is then harmless but for the overlap. `DownIsEmpty` handles
  restarts.
* *Committed clicks.* `PassedIsAccountedFor` covers everything before the
  position of a process that is up, and a commit never passes the position. A
  crash moves what is committed and bucketed to `abandoned`; a start or a
  rebalance resumes at the committed offset.
* *Stored counts.* Buckets are bounded by the records handed out
  (`BucketsBounded`), which a rebalance breaks, batches and strays by the
  published ones (`InsertsBounded`). An insert leaves in a row what was there or
  the count of one key that is stored in it (`UpsertFacts`), and the clicks of that
  key are the row's own or those of one other ad id (`KeysAreOwnOrForeign`).
  `RebalancesOnlyGrow` turns the premise of the property into one about every
  state before.
* *Statuses.* Both properties compare a status with the results before it. The
  cached watermark is the newest time among the results (`WatermarkIsNewest`),
  and the map of counts holds the number of those counted per ip and window
  (`CountsMatchLog`); a new result then gets the status that its history gives
  it, and the earlier ones keep theirs, as the results only grow.
  `ResultsAreOfRecords` keeps results inside the logs, and
  `NothingPassesUnreadable` bounds position and commits by the first unreadable
  record.
* *Ids and keys.* What a record says is decided when it is built, so the
  invariants `IdsAreSound` and `AdsAreNamed` are about all `Records`, in flight
  or appended. `DoneHasLanded` ties the report a handler waits for to the log.
* *Order.* The queue of the producer: two requests of which one was answered
  before the other was received (`PrecedesIsPast`) have their records on one
  partition (`KeyedInFlight`, `KeyedInLog`), each at most once in the outbox
  (`OneInFlight`), in order (`QueuedInOrder`), and the later one is not appended
  while the earlier one is queued (`NoneOvertaken`). On the C# track, whose
  library reorders, a record is in flight only while its handler waits
  (`InFlightIsAwaited`), so that two such records never are at once.
* *The lesson.* A record says what its request asked for (`RecordsAreAsked`),
  and what is credited to an ad was asked for it (`CreditsAreCounted`); requests
  stay what they are once received. The refinement maps the reception of a valid
  request to the publication, `Record` to a count or a rejection, and every other
  step of the two processes to a stutter.
* *Order, end to end.* `QueueInv` of the ingest-api holds in the pipeline, as
  the consumer touches none of it, and `RecordsInTurn` says of the consumer what
  `DeliveryInv` says of it alone: the log has the clicks in order, and none is
  recorded without those before it.
* *The total.* `GET /counts` adds up a map with the library's fold, a recursive
  function on the subsets of the ads. `FoldIsRecursive` unfolds it to that
  recursion; `SumOfDisjointSets` shows that the sizes of the unions of disjoint
  parts satisfy it, and, by the least subset on which two solutions would differ,
  that nothing else does. `CountsSplitSeen` provides the parts.
* *Two components, one log.* A step of the ingest-api appends a record in flight
  or leaves the log alone (`LogSteps`). By `AdsAreNamed` that record names an ad,
  and by `FollowsKey` it is on its way to the partition of the ad: such a step is
  the consumer's `Produce` (`SystemStepIsAggregatorStep`,
  `SystemStepIsProcessorStep`). A step of the consumer changes nothing of the
  ingest-api. So the lesson implements both specifications, and the theorems
  about both are theorems about it.
* *The ledger.* `AcceptedIsSent`: what was answered with 202 is queued, landed,
  or met a failure, since a record leaves the outbox by an append or a failure
  only. From the log on it is the aggregator's `CommittedIsAccountedFor`.
* *Duplicates.* `CopiesBounded`: for every set of records, its copies in the topic
  are at most the requests that sent one and have none in flight, and the
  failures. It is the part "none in flight" that makes it inductive: an append
  that is acknowledged takes the request's only record out of the queue, and one
  that is not is a failure. `StoredIsReceived` and `FraudIsRequested` follow from
  what bounds the count by the clicks published (`NeverOvercounts`,
  `NoFalseFraud`), with the records of a row, or of an ip and window, as the set.
* *Stamps.* `StampInv`: a stamp is a reading that the clock has passed, so where
  the answer is immediate the older of two stamps belongs to a request that was
  answered before the other one was received. A late click is older than one that
  was processed before it (`LateMatchesHistory`); if both are stamped, the late one
  was answered first, and by `HandedOutInOrder` the other one reached the processor
  from another partition or from an offset before it.
* *Verdicts.* The refinement of `ClickClassifier` rests on the invariant of
  *Statuses*: `WatermarkIsNewest` makes the late check a question to the results,
  `CountsMatchLog` the map the number of verdicts that use up the threshold.
* *No replay, no false fraud.* `RecordedIsCommitted`: where the commit comes
  first, no recorded offset is at or beyond the committed one, and positions are
  not before it. `HandedOutInOrder`: until a rebalance a life is handed the records
  of a partition in order, so its results are about different records, and the
  results behind a verdict inject into the published clicks.

The parts are state predicates of the component modules. Every safety property of
every passing run is proved.

Only model-checked: liveness (fairness and `ENABLED` are outside what the prover
handles).

## Not modelled

Configuration modules (no state), Docker Compose and Kafka UI (deployment),
retention, broker failure, the rows of the table before a merge, the wording of
logs and answers. The memory of the consumers grows for as long as they live
(`seen`, `counts`, `processed`, `ipWindowCounts`); the models bound the log
instead. `GET /flush` answers `flushed: true` also after a failed insert; the
answer is not modelled. Several members of a group: a second container of a
service cannot be started under its fixed name, so the case does not arise in
this repository.

## Plan

1. Done: topic, counter, aggregator, processor, ingest-api of all lessons, the
   three pipelines, the abstract counter and classifier, the proofs above.
2. An abstract window store that the aggregator implements where it does (one
   flush per window, no overlap), to make the distance to it explicit.
3. The lesson's counterpart of the classifier: verdicts on requests instead of
   records, with the duplicates of the producer as the only difference.
