----------------------------- MODULE IngestApi -----------------------------
(***************************************************************************)
(* The ingest-api of the three lessons: POST /clicks validates the body,   *)
(* mints a click id where none was supplied, stamps the click, hands a     *)
(* record to the Kafka producer and answers.  The four language tracks of  *)
(* 0-event-ingestion-kafka differ in what they validate, in what counts as *)
(* supplied, and in what the answer waits for:                             *)
(*   "typescript", "java"  nothing: emit and send are fire-and-forget      *)
(*   "csharp"              the delivery report ProduceAsync awaits         *)
(*   "go"                  WriteMessages, which asks for no acks: it has   *)
(*                         written the record to the connection            *)
(* Lessons 1 and 2 are the TypeScript track; in lesson 2 a client may      *)
(* choose the event time of its click.                                     *)
(* The producer library and the broker are external: records in flight are *)
(* appended in order, may fail and be retried, or are given up.            *)
(***************************************************************************)
EXTENDS KafkaTopic, SequencesExt

CONSTANTS
    Requests,     \* the requests clients send; a minted id is named after its own
    Clicks,       \* the click ids clients send, Empty and Space possibly included
    Missing,      \* a field left out, or null
    Empty,        \* the string ""
    Space,        \* a string of white space only
    Ips,          \* the client address a payload names: all of it that is read
    ChosenTimes,  \* the event times clients may send; none before lesson 2
    Stamps,       \* readings of the server's clock
    Tracks,       \* the language tracks considered
    MaxFailures   \* bound: failed deliveries and crashes of the process

AllTracks == {"typescript", "java", "csharp", "go"}

ASSUME IngestAssumption ==
    /\ Tracks \subseteq AllTracks
    /\ Missing \notin Clicks \cup Ads \cup ChosenTimes
    /\ Stamps \subseteq Nat
    /\ Requests \cap (Clicks \cup {Missing, Empty, Space}) = {}
    /\ MaxFailures \in Nat

Bodies == [click : Clicks \cup {Missing}, ad : Ads \cup {Missing},
           ip : Ips, time : ChosenTimes \cup {Missing}]

\* A record and, for the properties, the request it was built for.
Envelopes == [click : Clicks \cup Requests, ad : Ads \cup {Missing},
              ip : Ips, time : ChosenTimes \cup Stamps, from : Requests]

VARIABLES
    track,     \* the track that is deployed; it never changes
    up,        \* the process listens
    now,       \* the latest reading of the clock; it does not run backwards
    stage,     \* stage[r]: "unsent", "awaiting" the producer, or "answered"
    answer,    \* answer[r]: the HTTP status of the response, 0 before it
    outbox,    \* records handed to the producer, with their partition
    delivery,  \* delivery[r]: what an awaited producer call came to
    failures   \* failed deliveries and crashes so far

\* Auxiliary variables: they record history and guard no action.
VARIABLES
    asked,     \* asked[r]: the body r was sent with
    precedes   \* <<r, s>>: r was answered before s was received

process == <<track, up>>
received == <<now, asked, precedes>>
apiVars == <<log, process, received, stage, answer, outbox, delivery, failures>>

InFlight == [record : Envelopes, to : Partitions]

ApiTypeOK ==
    /\ LogTypeOK(Envelopes)
    /\ track \in Tracks
    /\ up \in BOOLEAN
    /\ now \in Nat
    /\ stage \in [Requests -> {"unsent", "awaiting", "answered"}]
    /\ answer \in [Requests -> {0, 202, 400, 500}]
    /\ outbox \in Seq(InFlight)
    /\ delivery \in [Requests -> {"pending", "done", "failed"}]
    /\ failures \in Nat
    /\ asked \in [Requests -> Bodies \cup {Missing}]
    /\ precedes \subseteq Requests \X Requests

ApiInit ==
    /\ LogInit
    /\ track \in Tracks
    /\ up = FALSE
    /\ now = 0
    /\ stage = [r \in Requests |-> "unsent"]
    /\ answer = [r \in Requests |-> 0]
    /\ outbox = << >>
    /\ delivery = [r \in Requests |-> "pending"]
    /\ failures = 0
    /\ asked = [r \in Requests |-> Missing]
    /\ precedes = {}

-----------------------------------------------------------------------------
\* The process starts and connects its producer.  Where that is awaited and
\* fails, the process ends again: nothing restarts it but its operator.
Start ==
    /\ ~ up
    /\ up' = TRUE
    /\ UNCHANGED <<log, track, stage, answer, outbox, delivery, failures, received>>

\* A mutant of NotSupplied: only a missing id is replaced.
OnlyMissing == {Missing}

\* The click ids in whose place an id is minted: `??`, isBlank(),
\* IsNullOrWhiteSpace, and the zero value of a string.
NotSupplied ==
    CASE track = "typescript" -> {Missing}
      [] track = "go"         -> {Missing, Empty}
      [] OTHER                -> {Missing, Empty, Space}

\* A mutant of ClickIdOf: nothing is minted.
SentId(r, body) == body.click

ClickIdOf(r, body) == IF body.click \in NotSupplied THEN r ELSE body.click

\* Mutants of Refused: a null check only, and no check.
NullAd == {Missing}
NobodyRefused == {}

\* The ad ids validation turns down; the Java track validates nothing.
Refused ==
    CASE track = "java"   -> {}
      [] track = "csharp" -> {Missing, Empty, Space}
      [] OTHER            -> {Missing, Empty}

\* A mutant of Routes: the record is sent without its key.
RoutesAnywhere(ad) == Partitions

\* The partition a key hashes to; a record without a key goes to any.
Routes(ad) == IF ad = Missing THEN Partitions ELSE {PartitionOf[ad]}

\* The event time of a click: the client's where it sent one, or the clock's.
EventTime(body) == IF body.time = Missing THEN now' ELSE body.time

EnvelopeOf(r, body) ==
    [click |-> ClickIdOf(r, body), ad |-> body.ad, ip |-> body.ip,
     time |-> EventTime(body), from |-> r]

Receive(r, body) ==
    /\ up
    /\ stage[r] = "unsent"
    /\ now' \in {t \in Stamps : t >= now}
    /\ asked' = [asked EXCEPT ![r] = body]
    /\ precedes' = precedes \cup ({q \in Requests : stage[q] = "answered"} \X {r})

Send(r, body) ==
    \E p \in Routes(body.ad) :
        outbox' = Append(outbox, [record |-> EnvelopeOf(r, body), to |-> p])

Respond(r, status) ==
    /\ stage' = [stage EXCEPT ![r] = "answered"]
    /\ answer' = [answer EXCEPT ![r] = status]

\* Validation turns the request down with 400.
Reject(r, body) ==
    /\ body.ad \in Refused
    /\ Receive(r, body)
    /\ Respond(r, 400)
    /\ UNCHANGED <<log, process, outbox, delivery, failures>>

AnswersAtOnce == track \in {"typescript", "java"}

Fail == failures < MaxFailures /\ failures' = failures + 1

\* publish of a fire-and-forget track.  Map.of of the Java track throws on a
\* missing adId, after the record was sent.
Fire(r, body) ==
    /\ AnswersAtOnce
    /\ body.ad \notin Refused
    /\ Receive(r, body)
    /\ Send(r, body)
    /\ Respond(r, IF body.ad = Missing THEN 500 ELSE 202)
    /\ UNCHANGED <<log, process, delivery, failures>>

\* send of the Java track blocks for metadata and throws when it gets none.
SendThrows(r, body) ==
    /\ track = "java"
    /\ Fail
    /\ Receive(r, body)
    /\ Respond(r, 500)
    /\ UNCHANGED <<log, process, outbox, delivery>>

\* publish of the other tracks, up to its await.
Await(r, body) ==
    /\ ~ AnswersAtOnce
    /\ body.ad \notin Refused
    /\ Receive(r, body)
    /\ Send(r, body)
    /\ stage' = [stage EXCEPT ![r] = "awaiting"]
    /\ UNCHANGED <<log, process, answer, delivery, failures>>

\* Mutants of Settle: a failed delivery is not noticed, or not handled.
SettleBlindly(r) ==
    /\ stage[r] = "awaiting"
    /\ delivery[r] # "pending"
    /\ Respond(r, 202)
    /\ UNCHANGED <<log, process, outbox, delivery, failures, received>>
SettleDone(r) ==
    /\ stage[r] = "awaiting"
    /\ delivery[r] = "done"
    /\ Respond(r, 202)
    /\ UNCHANGED <<log, process, outbox, delivery, failures, received>>

\* The producer call has settled and the handler answers.
Settle(r) ==
    /\ stage[r] = "awaiting"
    /\ delivery[r] # "pending"
    /\ Respond(r, IF delivery[r] = "done" THEN 202 ELSE 500)
    /\ UNCHANGED <<log, process, outbox, delivery, failures, received>>

-----------------------------------------------------------------------------
\* Records for one partition leave in order.
Leads(i) == \A j \in 1 .. i - 1 : outbox[j].to # outbox[i].to

\* The broker appends a record and the producer learns of it.
Deliver(i) ==
    /\ Leads(i)
    /\ AppendTo(outbox[i].to, outbox[i].record)
    /\ outbox' = RemoveAt(outbox, i)
    /\ delivery' = [delivery EXCEPT ![outbox[i].record.from] = "done"]
    /\ UNCHANGED <<process, stage, answer, failures, received>>

\* WriteMessages of kafka-go returns with the record on its way.
Written(i) ==
    /\ track = "go"
    /\ delivery' = [delivery EXCEPT ![outbox[i].record.from] = "done"]
    /\ UNCHANGED <<log, process, stage, answer, outbox, failures, received>>

\* A failed attempt is retried.  The idempotent producer of the Java client
\* and the one connection of kafka-go keep the order; KafkaJS and librdkafka
\* let the records behind it overtake.
KeepsOrder == track \in {"java", "go"}

Requeue(i) == IF KeepsOrder THEN outbox ELSE Append(RemoveAt(outbox, i), outbox[i])

Retry(i) ==
    /\ Leads(i)
    /\ Fail
    /\ outbox' = Requeue(i)
    /\ UNCHANGED <<log, process, stage, answer, delivery, received>>

\* The broker appends a record and the acknowledgement is lost: KafkaJS and
\* librdkafka send it again, an idempotent producer is told it is there, and
\* kafka-go does not ask.
AppendUnacked(i) ==
    /\ ~ KeepsOrder
    /\ Leads(i)
    /\ Fail
    /\ AppendTo(outbox[i].to, outbox[i].record)
    /\ outbox' = Requeue(i)
    /\ UNCHANGED <<process, stage, answer, delivery, received>>

\* The retries are used up, or a record nobody waits for vanishes.
GiveUp(i) ==
    /\ Fail
    /\ outbox' = RemoveAt(outbox, i)
    /\ delivery' = [delivery EXCEPT ![outbox[i].record.from] =
                       IF @ = "pending" THEN "failed" ELSE @]
    /\ UNCHANGED <<log, process, stage, answer, received>>

\* The process dies and its outbox with it; a request that waits is not
\* answered any more (its connection is reset).
ApiCrash ==
    /\ up
    /\ Fail
    /\ up' = FALSE
    /\ outbox' = << >>
    /\ stage' = [r \in Requests |-> IF stage[r] = "awaiting" THEN "answered" ELSE stage[r]]
    /\ UNCHANGED <<log, track, answer, delivery, received>>

Transmit == \E i \in 1 .. Len(outbox) : Deliver(i) \/ Written(i)

ApiNext ==
    \/ Start
    \/ \E r \in Requests, body \in Bodies :
           Reject(r, body) \/ Fire(r, body) \/ SendThrows(r, body) \/ Await(r, body)
    \/ \E r \in Requests : Settle(r)
    \/ Transmit
    \/ \E i \in 1 .. Len(outbox) : Retry(i) \/ AppendUnacked(i) \/ GiveUp(i)
    \/ ApiCrash

ApiSpec == ApiInit /\ [][ApiNext]_apiVars

\* The producer keeps transmitting and a handler whose call settled answers.
ApiFairness ==
    /\ WF_apiVars(\E i \in 1 .. Len(outbox) : Deliver(i))
    /\ \A r \in Requests : WF_apiVars(Settle(r))

FairApiSpec == ApiSpec /\ ApiFairness

-----------------------------------------------------------------------------
\* The offsets the records of a request were appended at, in partition p.
Landed(r, p) == {o \in Offset(p) : RecordAt(p, o).from = r}

HasLanded(r) == \E p \in Partitions : Landed(r, p) # {}

Queued(r) == \E i \in 1 .. Len(outbox) : outbox[i].record.from = r

\* The requests that put a record of the set K into the topic.
RequestsFor(K) ==
    {r \in Requests : \E p \in Partitions : \E o \in Landed(r, p) : RecordAt(p, o) \in K}

-----------------------------------------------------------------------------
\* "We confirm the append", of the track that awaits its delivery report: a 202
\* means that the record is in the topic, whatever was retried or failed.
ConfirmedIsAppended ==
    track = "csharp" => \A r \in Requests : answer[r] = 202 => HasLanded(r)

\* The clicks of one ad land on one partition and keep their relative order:
\* when a client was answered before it (or another) sent the next click, the
\* first copies of the two records stand in that order.  The TypeScript track
\* answers too early and retries too late for that.
AcceptedInOrder ==
    track # "typescript" =>
        \A r, s \in Requests :
            (<<r, s>> \in precedes /\ asked[r].ad = asked[s].ad /\ asked[r].ad # Missing)
                => \A p, q \in Partitions : \A o \in Landed(s, q) :
                       Landed(r, p) # {} =>
                           p = q /\ \E earlier \in Landed(r, p) : earlier < o

\* A request whose client supplied no usable id is never taken for another
\* one: records that share a click id come from one request, or carry an id
\* that a client chose.  The two other tracks take some blank ids for chosen.
SharedIdsAreChosen ==
    track \in {"java", "csharp"} =>
        \A d, e \in Published :
            d.click = e.click =>
                d.from = e.from \/ d.click \notin {Empty, Space} \cup Requests

\* Every record in the topic names an ad, which is its key: no refused or
\* failing request leaves one behind that does not.  The Java track does not
\* validate and sends before it fails.
RecordsNameAnAd ==
    track # "java" => \A e \in Published : e.ad \notin {Missing, Empty}

\* Every request that was received is answered or loses its connection, also
\* when the broker fails: no handler waits for ever.
EveryRequestIsAnswered ==
    \A r \in Requests : stage[r] = "awaiting" ~> stage[r] = "answered"

-----------------------------------------------------------------------------
(* The parts of the inductive invariants (module IngestApiProofs).          *)

\* Every record, in flight or appended.
Records == Published \cup {outbox[i].record : i \in 1 .. Len(outbox)}

SenderOf(i) == outbox[i].record.from

\* r was answered before s was received, and both click on the same ad.
Before(r, s) ==
    <<r, s>> \in precedes /\ asked[r].ad = asked[s].ad /\ asked[r].ad # Missing

\* A minted id is the one of its own request; the tracks that mint for blank
\* ids send no blank one.
IdsAreSound ==
    \A e \in Records : /\ e.click \in Requests => e.click = e.from
                       /\ track \in {"java", "csharp"} => e.click \notin {Empty, Space}

AdsAreNamed == track # "java" => \A e \in Records : e.ad \notin {Missing, Empty}

\* A delivery report of success stands for an append.
DoneHasLanded ==
    track = "csharp" => \A r \in Requests : delivery[r] = "done" => HasLanded(r)

PrecedesIsPast ==
    \A r, s \in Requests :
        <<r, s>> \in precedes => r # s /\ stage[r] = "answered" /\ stage[s] # "unsent"

UnsentIsPending == \A r \in Requests : stage[r] = "unsent" => delivery[r] = "pending"

\* The key of a request decides the partition of its record.
KeyedInFlight ==
    \A i \in 1 .. Len(outbox) :
        /\ stage[SenderOf(i)] # "unsent"
        /\ asked[SenderOf(i)].ad # Missing => outbox[i].to = PartitionOf[asked[SenderOf(i)].ad]

FollowsKey ==
    \A i \in 1 .. Len(outbox) :
        LET rec == outbox[i].record
        IN  rec.ad # Missing => outbox[i].to = PartitionOf[rec.ad]

KeyedInLog ==
    \A r \in Requests, p \in Partitions :
        Landed(r, p) # {} => /\ stage[r] # "unsent"
                             /\ asked[r].ad # Missing => p = PartitionOf[asked[r].ad]

OneInFlight ==
    \A i, j \in 1 .. Len(outbox) : SenderOf(i) = SenderOf(j) => i = j

\* What awaits its delivery report is in flight as long as it is pending.
InFlightIsAwaited ==
    track = "csharp" =>
        \A i \in 1 .. Len(outbox) : /\ stage[SenderOf(i)] = "awaiting"
                                    /\ delivery[SenderOf(i)] = "pending"

QueuedInOrder ==
    track # "typescript" =>
        \A i, j \in 1 .. Len(outbox) : Before(SenderOf(i), SenderOf(j)) => i < j

\* No later click is appended while an earlier one is in flight.
NoneOvertaken ==
    track # "typescript" =>
        \A r, s \in Requests : Before(r, s) /\ HasLanded(s) => ~ Queued(r)

\* Where the records of K stand in the topic.
CopiesWithin(K) == UNION {{p} \X {o \in Offset(p) : RecordAt(p, o) \in K} : p \in Partitions}

\* A request whose record left the queue may have a copy of it in the topic; any
\* copy more is owed to a failed attempt.
CopiesBounded(K) ==
    Cardinality(CopiesWithin(K))
        <= Cardinality({r \in RequestsFor(K) : ~ Queued(r)}) + failures

\* The clock stamped the click of r: its client chose no time.
IsStamped(r) == asked[r].time = Missing

\* The handler of a track that answers at once never waits.
NobodyWaits == AnswersAtOnce => \A r \in Requests : stage[r] # "awaiting"

\* A stamp is a reading the clock has passed.
StampsArePast ==
    \A e \in Records : /\ stage[e.from] # "unsent"
                       /\ IsStamped(e.from) => e.time \in Stamps /\ e.time <= now

\* On these tracks the older of two stamps belongs to the request that was
\* answered before the other one was received.
StampsFollowRequests ==
    AnswersAtOnce =>
        \A e, f \in Records :
            IsStamped(e.from) /\ IsStamped(f.from) /\ e.time < f.time
                => <<e.from, f.from>> \in precedes
=============================================================================
