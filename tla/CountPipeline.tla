---------------------------- MODULE CountPipeline ----------------------------
(***************************************************************************)
(* Lesson 0 from end to end: the ingest-api of one track, the topic, and   *)
(* the count-consumer of the same track.  The two processes share nothing  *)
(* but the topic; either takes a step while the other stands still.  What  *)
(* a client sends twice, what the producer appends twice and what the      *)
(* group hands out twice all meet in one dedup store.                      *)
(***************************************************************************)
EXTENDS IngestApi, ConsumerGroup

\* The state of the count-consumer, as in CountConsumer.
VARIABLES phase, inHand, seen, counts, duplicates, recorded, credited, resumedAt

consumerVars == <<phase, inHand, seen, counts, duplicates, recorded, credited, resumedAt>>
sendingVars == <<up, received, stage, answer, outbox, delivery, failures>>
systemVars == <<apiVars, groupVars, consumerVars>>

\* What an envelope may name: ids chosen and minted, and the ad "null", which
\* is how the Java consumer reads a missing one.
Ids == Clicks \cup Requests
NamedAds == Ads \cup {Missing}

Consumer == INSTANCE CountConsumer WITH Clicks <- Ids, Ads <- NamedAds

SystemInit == ApiInit /\ Consumer!Init

\* The producer client that is wired into the ingest-api, and its handlers.
Ingest == ApiNext /\ UNCHANGED <<groupVars, consumerVars>>

\* The consumer's steps; a Produce of its own it has none.
Consume ==
    /\ \/ Consumer!Boot
       \/ \E p \in Partitions : \/ Consumer!Take(p)
                                \/ Consumer!CommitResolved(p)
                                \/ Consumer!AutoCommit(p)
       \/ Consumer!Record
       \/ Consumer!CloseConsumer
       \/ Consumer!ReadError
       \/ Consumer!Rebalance
       \/ Consumer!Crash
    /\ UNCHANGED sendingVars

SystemNext == Ingest \/ Consume

SystemSpec == SystemInit /\ [][SystemNext]_systemVars

\* What each process does by itself while it is up, as in the two modules.
SystemFairness ==
    /\ WF_systemVars(/\ \E i \in 1 .. Len(outbox) : Deliver(i)
                     /\ UNCHANGED <<groupVars, consumerVars>>)
    /\ WF_systemVars((\E p \in Partitions : Consumer!Take(p)) /\ UNCHANGED sendingVars)
    /\ WF_systemVars(Consumer!Record /\ UNCHANGED sendingVars)

FairSystemSpec == SystemSpec /\ SystemFairness
-----------------------------------------------------------------------------
\* The requests that got past validation, and what they ask to be counted.
Asked == {r \in Requests : stage[r] # "unsent" /\ asked[r].ad \notin Refused}

AskedFor(a) == {ClickIdOf(r, asked[r]) : r \in {q \in Asked : asked[q].ad = a}}

\* A record of r has reached record(), in any life of the consumer.
IsRecorded(r) == \E p \in Partitions : Landed(r, p) \cap recorded[p] # {}

-----------------------------------------------------------------------------
\* GET /counts never shows more clicks for an ad than distinct click ids were
\* asked to be counted for it: client retries, producer duplicates, redelivery
\* and replay are all absorbed.
CountsAreAskedFor == \A a \in NamedAds : counts[a] <= Cardinality(AskedFor(a))

\* The whole lesson is the abstract counter, with a click published when its
\* request is received: what happens on the way there adds nothing.
Abstract == INSTANCE UniqueClickCount WITH
                Clicks <- Ids, Ads <- NamedAds,
                published <- {[click |-> ClickIdOf(r, asked[r]), ad |-> asked[r].ad]
                                 : r \in Asked},
                known <- seen, tally <- counts, rejected <- duplicates

LessonCountsUniqueClicks == Abstract!Spec

\* Per-ad order end to end, on the one track whose producer keeps it and whose
\* consumer commits after the handler: where r was answered before s was
\* received and both landed, s does not reach record() before r.
CountedInAcceptedOrder ==
    track = "java" =>
        \A r, s \in Requests :
            (<<r, s>> \in precedes /\ asked[r].ad = asked[s].ad /\ asked[r].ad # Missing
                /\ HasLanded(r) /\ IsRecorded(s)) => IsRecorded(r)

\* A click that was answered with 202 reaches record(), unless the consumer is
\* down or its loop has ended, a track that commits early struck the record
\* off, or the producer of a track that does not await acknowledgements failed.
AcceptedIsCounted ==
    \A r \in Requests :
        answer[r] = 202 ~>
            \/ IsRecorded(r)
            \/ phase # "consuming"
            \/ track # "csharp" /\ failures > 0
            \/ /\ track \notin Consumer!CommitsAfterRecord
               /\ \E p \in Partitions : \E o \in Landed(r, p) : o < committed[p]

-----------------------------------------------------------------------------
(* The parts of the inductive invariant (module CountPipelineProofs).       *)

\* The state of the consumer, over what the requests name.
ConsumerTypeOK ==
    /\ phase \in {"down", "consuming", "deaf"}
    /\ inHand \subseteq {d \in Partitions \X Nat : d[2] \in Offset(d[1])}
    /\ seen \subseteq Ids
    /\ counts \in [NamedAds -> Nat]
    /\ duplicates \in Nat
    /\ credited \in [NamedAds -> SUBSET Ids]

BodiesAreKept == \A r \in Requests : stage[r] # "unsent" => asked[r] \in Bodies

\* A record, in flight or appended, says what its request asked for.
RecordsAreAsked ==
    \A e \in Records : /\ e.from \in Asked
                       /\ e.click = ClickIdOf(e.from, asked[e.from])
                       /\ e.ad = asked[e.from].ad

CreditsAreCounted ==
    \A a \in NamedAds : /\ IsFiniteSet(credited[a])
                        /\ counts[a] = Cardinality(credited[a])
                        /\ credited[a] \subseteq seen \cap AskedFor(a)

\* On the track whose order matters the consumer has recorded everything it
\* moved past, save the one record in hand, and everything that is committed.
RecordsInTurn ==
    track = "java" =>
        /\ recorded \in [Partitions -> SUBSET Nat]
        /\ \A d, e \in inHand : d = e
        /\ Consumer!InHandIsLast
        /\ Consumer!CommittedSurvivesCrash
        /\ Consumer!TakenIsRecorded
        /\ Consumer!NothingLeftOut
=============================================================================
