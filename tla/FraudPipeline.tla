---------------------------- MODULE FraudPipeline ----------------------------
(***************************************************************************)
(* Lesson 2 from end to end: the ingest-api, which takes any string for an *)
(* event time and the clock's reading where it got none, the topic, and    *)
(* the processor.  One client's event time moves the watermark for all,    *)
(* and one that is no date holds up its partition; a record the producer   *)
(* appends twice counts twice against its ip.                              *)
(***************************************************************************)
EXTENDS IngestApi, WatermarkProcessor

\* This lesson has one track.  What the processor reads from the topic are the
\* records that name an ad.
ASSUME FraudPipelineAssumption ==
    /\ Tracks = {"typescript"}
    /\ Unreadable \subseteq ChosenTimes
    /\ Messages = {e \in Envelopes : e.ad \in Ads}

processorVars == <<phase, memory, resumedAt>>
sendingVars == <<process, received, stage, answer, outbox, delivery, failures>>
systemVars == <<vars, sendingVars>>

SystemInit == ApiInit /\ Init

\* The producer client that is wired into the ingest-api, and its handlers.
Ingest == ApiNext /\ UNCHANGED <<groupVars, processorVars>>

\* The processor's steps; a Produce of its own it has none.
Process ==
    /\ \/ Boot
       \/ \E p \in Partitions : \/ Handle(p)
                                \/ HandleFails(p)
                                \/ CommitHandled(p)
       \/ Rebalance
       \/ Crash
    /\ UNCHANGED sendingVars

SystemNext == Ingest \/ Process

SystemSpec == SystemInit /\ [][SystemNext]_systemVars

\* What each process does by itself while it is up, as in the two modules.
SystemFairness ==
    /\ WF_systemVars(/\ \E i \in 1 .. Len(outbox) : Deliver(i)
                     /\ UNCHANGED <<groupVars, processorVars>>)
    /\ WF_systemVars((\E p \in Partitions : Handle(p)) /\ UNCHANGED sendingVars)

FairSystemSpec == SystemSpec /\ SystemFairness

-----------------------------------------------------------------------------
\* The request behind the i-th result.
RequestOf(i) == ClickOf(processed[i]).from

\* The records that are counted for an ip and window.
RecordsIn(w) == {m \in Readable : IpWindow(m) = w}

\* The j-th result is for a record that came to the processor out of turn: from
\* another partition, or, until a rebalance, from before the i-th in their own.
ReadAhead(j, i) ==
    \/ processed[j].from[1] # processed[i].from[1]
    \/ processed[j].from[2] < processed[i].from[2]
    \/ rebalances > 0

-----------------------------------------------------------------------------
\* Who makes a click late: one whose time the clock chose is late only after a
\* click whose client chose its own time, or after one that was received when
\* the late one was already answered: that one was read ahead on another
\* partition, or overtook the late one on its way into their partition, unless
\* a rebalance hands the late one out again.
StampedIsLateForACause ==
    \A i \in 1 .. Len(processed) :
        StatusOf(i) = "late" /\ IsStamped(RequestOf(i)) =>
            \E j \in 1 .. i - 1 :
                \/ ~ IsStamped(RequestOf(j))
                \/ <<RequestOf(i), RequestOf(j)>> \in precedes /\ ReadAhead(j, i)

\* An ip is flagged only if more requests came from it for one window than the
\* threshold allows, or as many as are missing from it were appended twice by
\* failed attempts of the producer; holds until a rebalance.
FraudIsRequested ==
    rebalances = 0 =>
        \A i \in 1 .. Len(processed) :
            StatusOf(i) = "fraud" =>
                Cardinality(RequestsFor(RecordsIn(IpWindow(ClickOf(processed[i])))))
                    + failures > FraudThreshold

\* The ingest-api and the producer hand the processor nothing its own
\* specification does not expect: every record names an ad and stands in the
\* partition of that ad, whatever is refused, retried or lost on the way.
ImplementsProcessor == Spec

\* A click that was answered with 202 gets a result in the end, unless the
\* processor is down, an earlier life of it committed the click and forgot the
\* result, the producer failed, or a record that stands before it in its
\* partition, or its own, has no readable time.
AcceptedIsClassified ==
    \A r \in Requests :
        answer[r] = 202 ~>
            \/ \E i \in 1 .. Len(processed) : RequestOf(i) = r
            \/ phase = "down"
            \/ failures > 0
            \/ \E p \in Partitions : \E o \in Landed(r, p) :
                  \/ o < resumedAt[p]
                  \/ \E blocked \in 0 .. o : RecordAt(p, blocked).time \in Unreadable
=============================================================================
