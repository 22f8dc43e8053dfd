----------------------------- MODULE KafkaTopic -----------------------------
(***************************************************************************)
(* The topic `ad-clicks` as the services use it: a partition is an         *)
(* append-only log, and the key of a record is its adId.  Everything the   *)
(* producers and the consumers of the three lessons share is here.  The    *)
(* broker is external code; what it does here is what the services rely on. *)
(***************************************************************************)
EXTENDS Integers, Sequences, FiniteSets

CONSTANTS
    Partitions,     \* the partitions of the topic (three in ensureTopic)
    Ads,            \* the ad ids clicks are published for
    PartitionOf,    \* the partitioner: the partition an ad id hashes to
    MaxLog          \* bound: the records one partition may hold

ASSUME TopicAssumption ==
    /\ IsFiniteSet(Partitions)
    /\ IsFiniteSet(Ads)
    /\ PartitionOf \in [Ads -> Partitions]
    /\ MaxLog \in Nat

VARIABLE log   \* log[p]: the records of partition p, offset o at index o + 1

Offset(p) == 0 .. Len(log[p]) - 1

RecordAt(p, o) == log[p][o + 1]

\* Everything that was ever appended to the topic.
Published == UNION {{RecordAt(p, o) : o \in Offset(p)} : p \in Partitions}

LogTypeOK(Messages) == log \in [Partitions -> Seq(Messages)]

LogInit == log = [p \in Partitions |-> << >>]

\* The broker appends one record to the partition its key hashes to.
AppendTo(p, rec) ==
    /\ Len(log[p]) < MaxLog
    /\ log' = [log EXCEPT ![p] = Append(@, rec)]
=============================================================================
