---------------------------- MODULE ConsumerGroup ----------------------------
(***************************************************************************)
(* The single-member consumer group that reads the topic: the broker keeps *)
(* one committed offset per partition for the group, and the member keeps  *)
(* the offset of the next record it will hand to its handler.  Every       *)
(* consumer of the three lessons extends this module.  The group protocol  *)
(* and the client libraries are external code; what they do here is what   *)
(* the services rely on.                                                   *)
(***************************************************************************)
EXTENDS KafkaTopic

CONSTANTS
    MaxRebalances,  \* bound: the times the group may be rebalanced
    MaxCrashes      \* bound: the times the consumer process may stop

ASSUME GroupAssumption == MaxRebalances \in Nat /\ MaxCrashes \in Nat

VARIABLES
    committed,   \* committed[p]: the group's committed offset, or NoOffset
    position,    \* position[p]: the offset the member is handed next
    rebalances,  \* how often the group was rebalanced so far
    crashes      \* how often the consumer process stopped so far

groupVars == <<committed, position, rebalances, crashes>>
topicVars == <<log, committed, position, rebalances, crashes>>

\* The group has not committed an offset for the partition yet.
NoOffset == -1

TopicTypeOK(Messages) ==
    /\ LogTypeOK(Messages)
    /\ committed \in [Partitions -> Nat \cup {NoOffset}]
    /\ position \in [Partitions -> Nat]
    /\ rebalances \in Nat
    /\ crashes \in Nat

TopicInit ==
    /\ LogInit
    /\ committed = [p \in Partitions |-> NoOffset]
    /\ position = [p \in Partitions |-> 0]
    /\ rebalances = 0
    /\ crashes = 0

\* A record is appended, which the group does not notice.
AppendRecord(rec) == AppendTo(PartitionOf[rec.ad], rec) /\ UNCHANGED groupVars

\* Mutants of StartOffset: the reset policy dropped, the committed offset
\* ignored, and the policy "latest".
StartOffsetUnset(p) == committed[p]
StartOffsetBeginning(p) == 0
StartOffsetLatest(p) == IF committed[p] = NoOffset THEN Len(log[p]) ELSE committed[p]

\* Where a member starts on a partition it is assigned: at the committed
\* offset, and on the group's first run (none committed) at the beginning.
StartOffset(p) == IF committed[p] = NoOffset THEN 0 ELSE committed[p]

\* A mutant of Assign: the member starts at the end of its partitions.
AssignAtEnd == position' = [p \in Partitions |-> Len(log[p])]

\* The group (re)assigns every partition to its only member.
Assign == position' = [p \in Partitions |-> StartOffset(p)]

HasNext(p) == position[p] < Len(log[p])

\* The member takes the next record of p.
Advance(p) == position' = [position EXCEPT ![p] = @ + 1]

\* The group commits the offset after the last record taken from p.
CommitPosition(p) ==
    /\ position[p] > StartOffset(p)
    /\ committed' = [committed EXCEPT ![p] = position[p]]

\* Part of the inductive invariants of the consumers: the committed offset
\* trails the position, and both stay within the log.
OffsetsOrdered ==
    \A p \in Partitions : committed[p] <= position[p] /\ position[p] <= Len(log[p])
=============================================================================
