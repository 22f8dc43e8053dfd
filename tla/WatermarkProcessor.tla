------------------------- MODULE WatermarkProcessor -------------------------
(***************************************************************************)
(* The processor of 2-late-data-and-fraud: every click record is compared  *)
(* with a watermark, the newest event time seen, and, unless it is late,   *)
(* counted per client ip and one-minute window; an ip above the threshold  *)
(* is flagged as fraud.  Everything is kept in memory and nothing is       *)
(* deduplicated; the offsets of the group decide what is seen again.       *)
(***************************************************************************)
EXTENDS ConsumerGroup

CONSTANTS
    Messages,        \* the click records: at least an ad id, a client ip
                     \* ("unknown" included) and an event time
    Unreadable,      \* event times that read as no date: any string is taken
    MinuteLength,    \* the length of a fraud window
    Tolerance,       \* WATERMARK_TOLERANCE_MS
    FraudThreshold   \* FRAUD_THRESHOLD

ASSUME ProcessorAssumption ==
    /\ \A m \in Messages : m.ad \in Ads /\ m.time \in Int \cup Unreadable
    /\ Unreadable \cap Int = {}
    /\ MinuteLength \in Nat \ {0}
    /\ Tolerance \in Nat
    /\ FraudThreshold \in Nat

ToWindowStart(t) == t - (t % MinuteLength)

\* The key `${ip}|${windowStart}`: the window is the part after the last "|".
IpWindow(click) == <<click.ip, ToWindowStart(click.time)>>

Readable == {m \in Messages : m.time \notin Unreadable}

IpWindows == {IpWindow(m) : m \in Readable}

VARIABLES
    phase,           \* "down" or "up"
    watermark,       \* the newest event time seen, 0 before the first
    ipWindowCounts,  \* clicks per ip and window, 0 if the map has no such key
    processed        \* the log of results: where a click came from, its status

\* An auxiliary variable: it records history and guards no action.
VARIABLE resumedAt   \* resumedAt[p]: the offset this life started at

memory == <<watermark, ipWindowCounts, processed>>
vars == <<topicVars, phase, memory, resumedAt>>

Statuses == {"accepted", "late", "fraud"}

Results == [from : Partitions \X Nat, status : Statuses]

NoClicks == [w \in IpWindows |-> 0]

TypeOK ==
    /\ TopicTypeOK(Messages)
    /\ phase \in {"down", "up"}
    /\ watermark \in Nat
    /\ ipWindowCounts \in [IpWindows -> Nat]
    /\ processed \in Seq(Results)
    /\ resumedAt \in [Partitions -> Nat]

Init ==
    /\ TopicInit
    /\ phase = "down"
    /\ watermark = 0
    /\ ipWindowCounts = NoClicks
    /\ processed = << >>
    /\ resumedAt = [p \in Partitions |-> 0]

-----------------------------------------------------------------------------
\* The ingest-api appends a click with the event time the client chose, or now.
Produce(click) ==
    /\ AppendRecord(click)
    /\ UNCHANGED <<phase, memory, resumedAt>>

\* bootstrap: create the topic if need be, join the group, start consuming.
Boot ==
    /\ phase = "down"
    /\ phase' = "up"
    /\ Assign
    /\ resumedAt' = [p \in Partitions |-> StartOffset(p)]
    /\ UNCHANGED <<log, committed, rebalances, crashes, memory>>

\* A mutant of IsLate: the tolerance with the wrong sign.
IsBehind(click) == watermark > 0 /\ click.time < watermark + Tolerance

IsLate(click) == watermark > 0 /\ click.time < watermark - Tolerance

\* A mutant of Verdict: off by one.
VerdictAtThreshold(count) == IF count >= FraudThreshold THEN "fraud" ELSE "accepted"

\* The verdict on a click that is not late, from its ip's count with it.
Verdict(count) == IF count > FraudThreshold THEN "fraud" ELSE "accepted"

\* A late click leaves the watermark and the counts alone.
FlagLate(click) ==
    /\ IsLate(click)
    /\ UNCHANGED <<watermark, ipWindowCounts>>

\* A mutant of CountIp: the watermark follows every click.
CountAndFollow(click) ==
    /\ ~ IsLate(click)
    /\ watermark' = click.time
    /\ ipWindowCounts' = [ipWindowCounts EXCEPT ![IpWindow(click)] = @ + 1]

CountIp(click) ==
    /\ ~ IsLate(click)
    /\ watermark' = IF click.time > watermark THEN click.time ELSE watermark
    /\ ipWindowCounts' = [ipWindowCounts EXCEPT ![IpWindow(click)] = @ + 1]

Status(click) ==
    IF IsLate(click) THEN "late" ELSE Verdict(ipWindowCounts[IpWindow(click)] + 1)

\* A mutant of Log: late clicks are dropped.
LogOnTime(d, status) ==
    processed' = IF status = "late" THEN processed
                 ELSE Append(processed, [from |-> d, status |-> status])

Log(d, status) == processed' = Append(processed, [from |-> d, status |-> status])

\* handle and process, one synchronous step per record.
Handle(p) ==
    LET click == RecordAt(p, position[p]) IN
        /\ phase = "up"
        /\ HasNext(p)
        /\ click.time \notin Unreadable
        /\ FlagLate(click) \/ CountIp(click)
        /\ Log(<<p, position[p]>>, Status(click))
        /\ Advance(p)
        /\ UNCHANGED <<log, committed, rebalances, crashes, phase, resumedAt>>

CommitAll ==
    committed' = [p \in Partitions |->
                     IF position[p] > StartOffset(p) THEN position[p] ELSE committed[p]]

\* A mutant of HandleFails: the record is skipped.
HandleSkips(p) ==
    /\ phase = "up"
    /\ HasNext(p)
    /\ RecordAt(p, position[p]).time \in Unreadable
    /\ Advance(p)
    /\ UNCHANGED <<log, committed, rebalances, crashes, phase, memory, resumedAt>>

\* toISOString throws on an unreadable time before anything was changed.  The
\* error reaches KafkaJS, which commits what was handled before, rejoins and
\* hands out the same record again.
HandleFails(p) ==
    /\ phase = "up"
    /\ HasNext(p)
    /\ RecordAt(p, position[p]).time \in Unreadable
    /\ CommitAll
    /\ UNCHANGED <<log, position, rebalances, crashes, phase, memory, resumedAt>>

\* KafkaJS commits what was handed to the handler once it returned.
CommitHandled(p) ==
    /\ phase = "up"
    /\ CommitPosition(p)
    /\ UNCHANGED <<log, position, rebalances, crashes, phase, memory, resumedAt>>

Rebalance ==
    /\ phase = "up"
    /\ rebalances < MaxRebalances
    /\ rebalances' = rebalances + 1
    /\ Assign
    /\ UNCHANGED <<log, committed, crashes, phase, memory, resumedAt>>

\* A mutant of Crash: the watermark outlives the results.
CrashKeepsWatermark ==
    /\ phase = "up"
    /\ crashes < MaxCrashes
    /\ crashes' = crashes + 1
    /\ phase' = "down"
    /\ ipWindowCounts' = NoClicks
    /\ processed' = << >>
    /\ UNCHANGED <<log, committed, position, rebalances, watermark, resumedAt>>

\* The process stops; the watermark, the counts and the results are gone.
Crash ==
    /\ phase = "up"
    /\ crashes < MaxCrashes
    /\ crashes' = crashes + 1
    /\ phase' = "down"
    /\ watermark' = 0
    /\ ipWindowCounts' = NoClicks
    /\ processed' = << >>
    /\ UNCHANGED <<log, committed, position, rebalances, resumedAt>>

Next ==
    \/ \E click \in Messages : Produce(click)
    \/ Boot
    \/ \E p \in Partitions : Handle(p) \/ HandleFails(p) \/ CommitHandled(p)
    \/ Rebalance
    \/ Crash

Spec == Init /\ [][Next]_vars

-----------------------------------------------------------------------------
ClickOf(entry) == RecordAt(entry.from[1], entry.from[2])

StatusOf(i) == processed[i].status

\* Results logged before the i-th, for the same ip and window and not late.
CountedBefore(i) ==
    {j \in 1 .. i - 1 : /\ StatusOf(j) # "late"
                        /\ IpWindow(ClickOf(processed[j])) = IpWindow(ClickOf(processed[i]))}

\* The published clicks of an ip in a window.
ClicksIn(w) ==
    UNION {{p} \X {o \in Offset(p) : /\ RecordAt(p, o).time \notin Unreadable
                                     /\ IpWindow(RecordAt(p, o)) = w} : p \in Partitions}

-----------------------------------------------------------------------------
\* A click is flagged late exactly when some click processed before it was
\* newer by more than the tolerance: the watermark, which late clicks do not
\* move, stands for the whole history whatever was redelivered.
LateMatchesHistory ==
    \A i \in 1 .. Len(processed) :
        StatusOf(i) = "late" <=>
            \E j \in 1 .. i - 1 :
                LET newer == ClickOf(processed[j]).time
                IN  newer > 0 /\ ClickOf(processed[i]).time < newer - Tolerance

\* A click is flagged as fraud exactly when the threshold was used up by the
\* clicks of its ip and window that were logged before it.
FraudMatchesHistory ==
    \A i \in 1 .. Len(processed) :
        StatusOf(i) = "fraud" <=>
            StatusOf(i) # "late" /\ Cardinality(CountedBefore(i)) >= FraudThreshold

\* Late clicks are still counted: what this life has moved past is in the log
\* of results, through any number of failing handlers and rebalances.
HandledIsLogged ==
    phase = "up" =>
        \A p \in Partitions : \A o \in resumedAt[p] .. position[p] - 1 :
            \E i \in 1 .. Len(processed) : processed[i].from = <<p, o>>

\* An ip is flagged only if it really clicked more often than the threshold
\* allows within the window; holds until a rebalance redelivers a record.
NoFalseFraud ==
    rebalances = 0 =>
        \A i \in 1 .. Len(processed) :
            StatusOf(i) = "fraud" =>
                Cardinality(ClicksIn(IpWindow(ClickOf(processed[i])))) > FraudThreshold

\* A record whose time cannot be read is never skipped: neither its offset nor
\* one behind it is committed, so it holds its partition up over all restarts.
UnreadableIsNeverSkipped ==
    \A p \in Partitions : \A o \in Offset(p) :
        RecordAt(p, o).time \in Unreadable =>
            /\ committed[p] <= o
            /\ \A i \in 1 .. Len(processed) :
                   processed[i].from[1] = p => processed[i].from[2] < o

\* Every ip that sends more clicks in a window than the threshold allows is
\* flagged: among the clicks processed for it, at least one is fraud.
ExcessIsFlagged ==
    \A w \in IpWindows :
        LET seen == {i \in 1 .. Len(processed) : IpWindow(ClickOf(processed[i])) = w}
        IN  Cardinality(seen) > FraudThreshold => \E i \in seen : StatusOf(i) = "fraud"

\* What the verdict on a click depends on.
AsClick(m) == [window |-> IpWindow(m), time |-> m.time]

Judged(i) == [click |-> AsClick(ClickOf(processed[i])), status |-> StatusOf(i)]

\* The processor implements the abstract classifier: handling a record judges
\* its click, a stop forgets all verdicts, and everything else, redelivery
\* included, is invisible or publishes.
Abstract == INSTANCE ClickClassifier WITH
                Clicks <- {AsClick(m) : m \in Readable},
                published <- {AsClick(m) : m \in Published \cap Readable},
                verdicts <- [i \in 1 .. Len(processed) |-> Judged(i)]

\* The refinement, as a property of a run.
JudgesByHistory == Abstract!Spec

-----------------------------------------------------------------------------
(* The parts of the inductive invariants (module WatermarkProcessorProofs). *)

\* The results that raised the count of an ip and window.
Counted(w) ==
    {j \in 1 .. Len(processed) : /\ StatusOf(j) # "late"
                                 /\ IpWindow(ClickOf(processed[j])) = w}

\* A result is about a record of the log whose time can be read.
ResultsAreOfRecords ==
    \A i \in 1 .. Len(processed) :
        /\ processed[i].from[2] \in Offset(processed[i].from[1])
        /\ ClickOf(processed[i]).time \notin Unreadable

\* The watermark is the newest time among the results, or 0.
WatermarkIsNewest ==
    /\ \A i \in 1 .. Len(processed) : ClickOf(processed[i]).time <= watermark
    /\ watermark > 0 =>
          \E i \in 1 .. Len(processed) : ClickOf(processed[i]).time = watermark

\* The map holds the number of results that are not late.
CountsMatchLog == \A w \in IpWindows : ipWindowCounts[w] = Cardinality(Counted(w))

\* No life of the process gets past an unreadable record.
NothingPassesUnreadable ==
    \A p \in Partitions : \A o \in Offset(p) :
        RecordAt(p, o).time \in Unreadable => position[p] <= o

\* A process that is down has no results, and until the first rebalance a life
\* of the process is handed the records of a partition in order, each of them
\* once.
HandedOutInOrder ==
    /\ phase = "down" => processed = << >>
    /\ rebalances = 0 =>
          \A i \in 1 .. Len(processed) :
              /\ processed[i].from[2] < position[processed[i].from[1]]
              /\ \A j \in 1 .. i - 1 :
                    processed[j].from[1] = processed[i].from[1] =>
                        processed[j].from[2] < processed[i].from[2]
=============================================================================
