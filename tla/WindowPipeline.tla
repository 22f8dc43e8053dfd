--------------------------- MODULE WindowPipeline ---------------------------
(***************************************************************************)
(* Lesson 1 from end to end: the ingest-api, which stamps a click with the *)
(* time it received it, the topic, the aggregator and its table.  The      *)
(* aggregator has no dedup store, so what the producer appends twice and   *)
(* what the group hands out twice is counted twice; and a click may be     *)
(* lost on either side of the topic.                                       *)
(***************************************************************************)
EXTENDS IngestApi, WindowAggregator

\* This lesson has one track, and its clients choose no event time.  What the
\* aggregator reads from the topic are the records that name an ad.
ASSUME WindowPipelineAssumption ==
    /\ Tracks = {"typescript"}
    /\ ChosenTimes = {}
    /\ Messages = {e \in Envelopes : e.ad \in Ads}

aggregatorVars == <<phase, buckets, flush, batch, strays, table, insertFailures, aux>>
sendingVars == <<process, received, stage, answer, outbox, delivery, failures>>
systemVars == <<vars, sendingVars>>

SystemInit == ApiInit /\ Init

\* The producer client that is wired into the ingest-api, and its handlers.
Ingest == ApiNext /\ UNCHANGED <<groupVars, aggregatorVars>>

\* The aggregator's steps; a Produce of its own it has none.
Aggregate ==
    /\ \/ Boot
       \/ Initialise
       \/ \E p \in Partitions : Handle(p) \/ CommitHandled(p)
       \/ \E f \in Flushers : \/ FlushStart(f) \/ ServerApplies(f) \/ FlushOk(f)
                              \/ FlushRefused(f) \/ FlushFailed(f)
       \/ \E b \in strays : StrayApplies(b)
       \/ Rebalance
       \/ Crash
    /\ UNCHANGED sendingVars

SystemNext == Ingest \/ Aggregate

SystemSpec == SystemInit /\ [][SystemNext]_systemVars

\* What each process, and the server, does by itself while it is up, as in the
\* two modules.
SystemFairness ==
    /\ WF_systemVars(/\ \E i \in 1 .. Len(outbox) : Deliver(i)
                     /\ UNCHANGED <<groupVars, aggregatorVars>>)
    /\ WF_systemVars(Initialise /\ UNCHANGED sendingVars)
    /\ WF_systemVars((\E p \in Partitions : Handle(p)) /\ UNCHANGED sendingVars)
    /\ WF_systemVars((\E f \in Flushers : FlushStart(f)) /\ UNCHANGED sendingVars)
    /\ \A f \in Flushers :
          WF_systemVars(/\ ServerApplies(f) \/ FlushOk(f) \/ FlushRefused(f)
                        /\ UNCHANGED sendingVars)

FairSystemSpec == SystemSpec /\ SystemFairness

-----------------------------------------------------------------------------
\* The records of the ad and the window of a row, and those counted under a key.
RecordsOf(row) == {m \in Messages : RowOf(m) = row}

RecordsUnder(k) == {m \in Messages : Key(m) = k}

\* Where the aggregator accounts for a delivery.
Accounted == bucketed \cup landed \cup overlapped \cup abandoned

\* A client named an ad id in which the separator of the bucket keys is followed
\* by something that is no date.
Poisoned ==
    \E r \in Requests : /\ asked[r] # Missing
                       /\ asked[r].ad \in Ads
                       /\ Len(asked[r].ad) > 1
                       /\ asked[r].ad[2] \notin DOMAIN DateTimeOf

-----------------------------------------------------------------------------
\* The ledger of the lesson: a click that was answered with 202 is on its way,
\* in the topic behind the committed offset, in a bucket, in an applied insert,
\* or lost in one of three ways: given up by a failing producer, cleared after
\* an await it was recorded in, or committed and in a bucket when the
\* aggregator crashed.
AcceptedIsAccountedFor ==
    \A r \in Requests :
        answer[r] = 202 =>
            \/ Queued(r)
            \/ failures > 0 /\ ~ HasLanded(r)
            \/ \E p \in Partitions : \E o \in Landed(r, p) :
                  o >= committed[p] \/ <<p, o>> \in Accounted

\* A stored row shows no more clicks than were received for its ad in its window,
\* or, where an ad id with a "|" and that date is stored in it, than were received
\* with that id; and one more for each failed attempt of the producer.  Holds
\* until a rebalance hands the same record to a living process twice.
StoredIsReceived ==
    rebalances = 0 =>
        \A row \in Rows :
            \/ table[row] <= Cardinality(RequestsFor(RecordsOf(row))) + failures
            \/ \E k \in ForeignKeys(row) :
                  table[row] <= Cardinality(RequestsFor(RecordsUnder(k))) + failures

\* The ingest-api and the producer hand the aggregator nothing its own
\* specification does not expect: every record names an ad and stands in the
\* partition of that ad, whatever is refused, retried or lost on the way.
ImplementsAggregator == Spec

\* A click that was answered with 202 is part of an applied insert in the end,
\* unless the aggregator is down or a crash lost the click, the producer failed,
\* the click was recorded during an await, or the table refuses the key of some
\* ad id.
AcceptedIsStored ==
    \A r \in Requests :
        answer[r] = 202 ~>
            \/ \E p \in Partitions : \E o \in Landed(r, p) :
                  <<p, o>> \in landed \cup overlapped \cup abandoned
            \/ phase = "down"
            \/ failures > 0
            \/ Poisoned

-----------------------------------------------------------------------------
(* The parts of the inductive invariant (module WindowPipelineProofs).      *)

\* No handler of this lesson waits, and what it answered with 202 was handed to
\* the producer.
AcceptedIsSent ==
    \A r \in Requests :
        /\ stage[r] # "awaiting"
        /\ answer[r] = 202 => Queued(r) \/ HasLanded(r) \/ failures > 0
=============================================================================
