-------------------------- MODULE WindowAggregator --------------------------
(***************************************************************************)
(* The aggregator of 1-windowed-aggregation: clicks are bucketed per ad    *)
(* and tumbling window in memory, and flushes insert the buckets into a    *)
(* ClickHouse ReplacingMergeTree table.  A flush awaits the insert, so     *)
(* clicks are recorded, and other flushes run, between its snapshot and    *)
(* its clear().  The ClickHouse server is external: it applies a batch at  *)
(* some moment after it was sent, possibly after the client gave up.       *)
(*                                                                         *)
(* An ad id is a sequence of parts, the pieces of the string between "|".  *)
(* Nothing keeps a client from sending one with several parts, and a part  *)
(* of it may even read as a date.                                          *)
(***************************************************************************)
EXTENDS ConsumerGroup

CONSTANTS
    Messages,          \* the click records: at least an ad id and an event time
    WindowLength,      \* the length of a tumbling window
    DateTimeOf,        \* the strings that convert to a DateTime, and to which
    Flushers,          \* bound: flushes that may await an insert at once
    MaxInsertFailures  \* bound: inserts that may fail

ToWindowStart(t) == t - (t % WindowLength)

Windows == {ToWindowStart(m.time) : m \in Messages}

\* The bucket key `${adId}|${windowStart}`, as the parts of the string.
Key(click) == Append(click.ad, ToWindowStart(click.time))

Keys == {Key(m) : m \in Messages}

\* key.split("|") is destructured into its first two parts, and the second is
\* converted: it is the window, or a part of an ad id that contains a "|".
Readable(key) == key[2] \in DOMAIN DateTimeOf

Decode(key) == [ad |-> <<key[1]>>, windowStart |-> DateTimeOf[key[2]]]

\* The rows of the table, ORDER BY (adId, windowStart), and the keys that are
\* stored in a row.
Rows == {Decode(k) : k \in {key \in Keys : Readable(key)}}

KeysOf(r) == {k \in Keys : Readable(k) /\ Decode(k) = r}

\* A window start is the string of a date, and converts to its own DateTime.
ASSUME AggregatorAssumption ==
    /\ WindowLength \in Nat \ {0}
    /\ \A m \in Messages : m.ad \in Ads /\ m.time \in Nat
    /\ \A a \in Ads : a \in Seq(UNION {{b[i] : i \in 1 .. Len(b)} : b \in Ads}) /\ Len(a) > 0
    /\ \A w \in Windows : w \in DOMAIN DateTimeOf /\ DateTimeOf[w] = w
    /\ MaxInsertFailures \in Nat

VARIABLES
    phase,     \* "down", "starting": consuming, without a table, or "up"
    buckets,   \* buckets[k]: the count under key k, 0 if the map has no k
    flush,     \* flush[f]: "idle", "sent" (insert awaited), "applied" (by the
               \* server, the answer on its way)
    batch,     \* batch[f]: the buckets flush f inserts
    strays,    \* batches the client gave up on and the server may still apply
    table,     \* table[r]: the count of the latest row inserted for r, or 0
    insertFailures   \* how many inserts failed so far

\* Auxiliary variables: they record history and guard no action.
VARIABLES
    resumedAt,   \* resumedAt[p]: the offset this life started at
    bucketed,    \* deliveries counted in the buckets right now
    carried,     \* carried[f]: the deliveries counted in batch[f]
    landed,      \* deliveries counted in a batch the server applied
    overlapped,  \* deliveries recorded while an insert was awaited
    abandoned    \* deliveries that were in the buckets, committed, at a crash

aux == <<resumedAt, bucketed, carried, landed, overlapped, abandoned>>
vars == <<topicVars, phase, buckets, flush, batch, strays, table, insertFailures, aux>>

Deliveries == Partitions \X Nat

EmptyBuckets == [k \in Keys |-> 0]

TypeOK ==
    /\ TopicTypeOK(Messages)
    /\ phase \in {"down", "starting", "up"}
    /\ buckets \in [Keys -> Nat]
    /\ flush \in [Flushers -> {"idle", "sent", "applied"}]
    /\ batch \in [Flushers -> [Keys -> Nat]]
    /\ strays \subseteq [Keys -> Nat]
    /\ table \in [Rows -> Nat]
    /\ insertFailures \in Nat
    /\ resumedAt \in [Partitions -> Nat]
    /\ bucketed \subseteq Deliveries
    /\ carried \in [Flushers -> SUBSET Deliveries]
    /\ landed \subseteq Deliveries
    /\ overlapped \subseteq Deliveries
    /\ abandoned \subseteq Deliveries

Init ==
    /\ TopicInit
    /\ phase = "down"
    /\ buckets = EmptyBuckets
    /\ flush = [f \in Flushers |-> "idle"]
    /\ batch = [f \in Flushers |-> EmptyBuckets]
    /\ strays = {}
    /\ table = [r \in Rows |-> 0]
    /\ insertFailures = 0
    /\ resumedAt = [p \in Partitions |-> 0]
    /\ bucketed = {}
    /\ carried = [f \in Flushers |-> {}]
    /\ landed = {}
    /\ overlapped = {}
    /\ abandoned = {}

-----------------------------------------------------------------------------
\* The ingest-api appends a click with the time it received it.
Produce(click) ==
    /\ AppendRecord(click)
    /\ UNCHANGED <<phase, buckets, flush, batch, strays, table, insertFailures, aux>>

\* bootstrap, up to startAllMicroservices: the group is joined and records are
\* handled from now on.
Boot ==
    /\ phase = "down"
    /\ phase' = "starting"
    /\ Assign
    /\ resumedAt' = [p \in Partitions |-> StartOffset(p)]
    /\ UNCHANGED <<log, committed, rebalances, crashes, buckets, flush, batch, strays,
                   table, insertFailures, bucketed, carried, landed, overlapped, abandoned>>

\* onModuleInit, which app.listen runs last: the table exists, the interval is
\* set and GET /flush is served.  If ClickHouse fails it the process ends,
\* which is a Crash.
Initialise ==
    /\ phase = "starting"
    /\ phase' = "up"
    /\ UNCHANGED <<topicVars, buckets, flush, batch, strays, table, insertFailures, aux>>

Awaiting == {f \in Flushers : flush[f] # "idle"}

\* handle and record: the bucket of the click's ad and window grows by one.
Count(key) == [buckets EXCEPT ![key] = @ + 1]

Handle(p) ==
    /\ phase # "down"
    /\ HasNext(p)
    /\ buckets' = Count(Key(RecordAt(p, position[p])))
    /\ Advance(p)
    /\ bucketed' = bucketed \cup {<<p, position[p]>>}
    /\ overlapped' = IF Awaiting = {} THEN overlapped
                     ELSE overlapped \cup {<<p, position[p]>>}
    /\ UNCHANGED <<log, committed, rebalances, crashes, phase, flush, batch, strays,
                   table, insertFailures, resumedAt, carried, landed, abandoned>>

\* KafkaJS commits what was handed to the handler once it returned.
CommitHandled(p) ==
    /\ phase # "down"
    /\ CommitPosition(p)
    /\ UNCHANGED <<log, position, rebalances, crashes, phase, buckets, flush, batch,
                   strays, table, insertFailures, aux>>

-----------------------------------------------------------------------------
Present(counts) == {k \in Keys : counts[k] > 0}

\* flush, up to its await: the buckets are turned into the rows of an insert.
FlushStart(f) ==
    /\ phase = "up"
    /\ flush[f] = "idle"
    /\ Present(buckets) # {}
    /\ flush' = [flush EXCEPT ![f] = "sent"]
    /\ batch' = [batch EXCEPT ![f] = buckets]
    /\ carried' = [carried EXCEPT ![f] = bucketed]
    /\ UNCHANGED <<topicVars, phase, buckets, strays, table, insertFailures, resumedAt,
                   bucketed, landed, overlapped, abandoned>>

\* The server takes a batch whole or, if one windowStart is no date, not at all.
Accepts(counts) == \A k \in Present(counts) : Readable(k)

\* A mutant of Latest: the table adds up what is inserted.
LatestAdds(counts, r) ==
    LET rows == KeysOf(r) \cap Present(counts)
    IN  IF rows = {} THEN {table[r]} ELSE {table[r] + counts[k] : k \in rows}

\* ReplacingMergeTree keeps the row inserted last.  Several keys of a batch may
\* be stored in one row; which of them comes last depends on the order in which
\* they entered the map, which the model does not keep.
Latest(counts, r) ==
    LET rows == KeysOf(r) \cap Present(counts)
    IN  IF rows = {} THEN {table[r]} ELSE {counts[k] : k \in rows}

\* The tables an insert may leave behind.
Upsert(counts) ==
    {t \in [Rows -> UNION {Latest(counts, r) : r \in Rows}] :
        \A r \in Rows : t[r] \in Latest(counts, r)}

ServerApplies(f) ==
    /\ flush[f] = "sent"
    /\ Accepts(batch[f])
    /\ flush' = [flush EXCEPT ![f] = "applied"]
    /\ table' \in Upsert(batch[f])
    /\ landed' = landed \cup carried[f]
    /\ UNCHANGED <<topicVars, phase, buckets, batch, strays, insertFailures, resumedAt,
                   bucketed, carried, overlapped, abandoned>>

EndFlush(f) ==
    /\ flush' = [flush EXCEPT ![f] = "idle"]
    /\ batch' = [batch EXCEPT ![f] = EmptyBuckets]
    /\ carried' = [carried EXCEPT ![f] = {}]

\* flush, after a successful insert: the whole map is cleared.
Clear == buckets' = EmptyBuckets /\ bucketed' = {}

FlushOk(f) ==
    /\ flush[f] = "applied"
    /\ Clear
    /\ EndFlush(f)
    /\ UNCHANGED <<topicVars, phase, strays, table, insertFailures, resumedAt, landed, overlapped,
                   abandoned>>

\* Mutants of FlushRefused and FlushFailed: the map is cleared all the same.
RefusedClears(f) ==
    /\ flush[f] = "sent"
    /\ ~ Accepts(batch[f])
    /\ Clear
    /\ EndFlush(f)
    /\ UNCHANGED <<topicVars, phase, strays, table, insertFailures, resumedAt, landed, overlapped,
                   abandoned>>
FailedClears(f) ==
    /\ flush[f] # "idle"
    /\ insertFailures < MaxInsertFailures
    /\ insertFailures' = insertFailures + 1
    /\ Clear
    /\ EndFlush(f)
    /\ UNCHANGED <<topicVars, phase, strays, table, resumedAt, landed, overlapped, abandoned>>

\* flush, after the server refused the batch: the map is kept.
FlushRefused(f) ==
    /\ flush[f] = "sent"
    /\ ~ Accepts(batch[f])
    /\ EndFlush(f)
    /\ UNCHANGED <<topicVars, phase, buckets, strays, table, insertFailures, resumedAt,
                   bucketed, landed, overlapped, abandoned>>

\* flush, after an error or a timeout: the map is kept; the batch was lost, or
\* was applied already, or is still on its way.
FlushFailed(f) ==
    /\ flush[f] # "idle"
    /\ insertFailures < MaxInsertFailures
    /\ insertFailures' = insertFailures + 1
    /\ \/ UNCHANGED strays
       \/ flush[f] = "sent" /\ strays' = strays \cup {batch[f]}
    /\ EndFlush(f)
    /\ UNCHANGED <<topicVars, phase, buckets, table, resumedAt, bucketed, landed, overlapped,
                   abandoned>>

\* The server applies a batch nobody waits for any more.
StrayApplies(b) ==
    /\ b \in strays
    /\ Accepts(b)
    /\ strays' = strays \ {b}
    /\ table' \in Upsert(b)
    /\ UNCHANGED <<topicVars, phase, buckets, flush, batch, insertFailures, aux>>

-----------------------------------------------------------------------------
Rebalance ==
    /\ phase # "down"
    /\ rebalances < MaxRebalances
    /\ rebalances' = rebalances + 1
    /\ Assign
    /\ UNCHANGED <<log, committed, crashes, phase, buckets, flush, batch, strays, table,
                   insertFailures, aux>>

\* The process ends without its shutdown hooks (none are enabled): the buckets
\* are gone, an insert that was sent may still be applied.
Crash ==
    /\ phase # "down"
    /\ crashes < MaxCrashes
    /\ crashes' = crashes + 1
    /\ phase' = "down"
    /\ buckets' = EmptyBuckets
    /\ flush' = [f \in Flushers |-> "idle"]
    /\ batch' = [f \in Flushers |-> EmptyBuckets]
    /\ \E sent \in SUBSET {f \in Flushers : flush[f] = "sent"} :
          strays' = strays \cup {batch[f] : f \in sent}
    /\ bucketed' = {}
    /\ abandoned' = abandoned \cup {d \in bucketed : d[2] < committed[d[1]]}
    /\ carried' = [f \in Flushers |-> {}]
    /\ UNCHANGED <<log, committed, position, rebalances, table, insertFailures, resumedAt,
                   landed, overlapped>>

Next ==
    \/ \E click \in Messages : Produce(click)
    \/ Boot
    \/ Initialise
    \/ \E p \in Partitions : Handle(p) \/ CommitHandled(p)
    \/ \E f \in Flushers : \/ FlushStart(f) \/ ServerApplies(f) \/ FlushOk(f)
                           \/ FlushRefused(f) \/ FlushFailed(f)
    \/ \E b \in strays : StrayApplies(b)
    \/ Rebalance
    \/ Crash

Spec == Init /\ [][Next]_vars

\* While the process is up, records are handled, the interval starts flushes
\* and every insert is settled, and a start comes to an end; crashes and
\* failures need not happen, and neither need a restart.
Fairness ==
    /\ WF_vars(Initialise)
    /\ WF_vars(\E p \in Partitions : Handle(p))
    /\ WF_vars(\E f \in Flushers : FlushStart(f))
    /\ \A f \in Flushers : WF_vars(ServerApplies(f) \/ FlushOk(f) \/ FlushRefused(f))

FairSpec == Spec /\ Fairness

-----------------------------------------------------------------------------
\* The row in which a reader of the table looks for a click.
RowOf(click) == [ad |-> click.ad, windowStart |-> ToWindowStart(click.time)]

\* The clicks published for the ad and the window of a row.
ClicksOf(r) ==
    UNION {{p} \X {o \in Offset(p) : RowOf(RecordAt(p, o)) = r} : p \in Partitions}

\* The clicks that are counted under a bucket key.
ClicksUnder(k) ==
    UNION {{p} \X {o \in Offset(p) : Key(RecordAt(p, o)) = k} : p \in Partitions}

\* The keys of ad ids with a "|" that are stored in a row: it is another ad's.
ForeignKeys(r) == {k \in KeysOf(r) : Len(k) > 2}

\* What this life has handled.
Handled == UNION {{p} \X (resumedAt[p] .. position[p] - 1) : p \in Partitions}

-----------------------------------------------------------------------------
\* No stored count is above the clicks published for its ad and window; or it
\* is the count of one other ad id, whose "|" is followed by that date, and not
\* above the clicks published with that id in one window.
StoredWithinPublished ==
    \A r \in Rows : \/ table[r] <= Cardinality(ClicksOf(r))
                    \/ \E k \in ForeignKeys(r) : table[r] <= Cardinality(ClicksUnder(k))

\* A stored row never shows more clicks than were published for its ad in its
\* window, through retried, overlapping and late inserts and through restarts;
\* and where an ad id that contains a "|" is stored in the row of another ad,
\* the two are never added up.  Until the first rebalance, since record() does
\* not deduplicate and a rebalance redelivers records to a living process.
NeverOvercounts == rebalances = 0 => StoredWithinPublished

\* "ad_click_counts stores one row per (adId, 1-minute window)": as long as
\* nothing is redelivered, the row of an ad and a window shows no clicks but
\* those published for that ad in that window.  It holds where no ad id contains
\* a "|" (PlainIdsKeepTheirRows), and fails otherwise.
RowsShowTheirAd ==
    rebalances = 0 => \A r \in Rows : table[r] <= Cardinality(ClicksOf(r))

\* Failed and overlapping flushes lose nothing: whatever this life handled is
\* still in a bucket or went into an applied insert, except what was recorded
\* while an insert was awaited and cleared when it returned.
ClearLosesOnlyOverlapped ==
    phase # "down" => Handled \subseteq bucketed \cup landed \cup overlapped

\* Over all lives: an offset the group has committed belongs to a click that
\* is in a bucket, went into an applied insert, or was lost in one of the two
\* ways there are, an overlapped clear or a crash with the click in a bucket.
\* No restart, rebalance or failed start loses anything else.
CommittedIsAccountedFor ==
    \A p \in Partitions : \A o \in 0 .. committed[p] - 1 :
        <<p, o>> \in bucketed \cup landed \cup overlapped \cup abandoned

\* The accumulator keeps a click until it is inserted: nothing this life has
\* handled is neither in a bucket nor in an applied insert.
HandledIsKept == phase # "down" => Handled \subseteq bucketed \cup landed

\* A click whose insert was applied stays counted: once the count of a window
\* has been stored, later flushes of the window do not lower it.
StoredCountsStand == [][\A r \in Rows : table'[r] >= table[r]]_vars

\* "So counts reach ClickHouse": a click that waits in a bucket, and was not
\* recorded while an insert was awaited, is part of an applied insert in the
\* end, unless the process stops; finitely many failed inserts only delay it.
BucketedClicksLand ==
    \A p \in Partitions : \A o \in 0 .. MaxLog - 1 :
        <<p, o>> \in bucketed \ overlapped
            ~> (<<p, o>> \in landed \cup overlapped \/ phase = "down")

-----------------------------------------------------------------------------
(* The parts of the inductive invariants (module WindowAggregatorProofs).  *)

\* The deliveries counted under a bucket key that were handed out already.
HandledUnder(k) ==
    UNION {{p} \X {o \in Offset(p) : o < position[p] /\ Key(RecordAt(p, o)) = k}
              : p \in Partitions}

LogBounded == \A p \in Partitions : Len(log[p]) <= MaxLog

BucketsBounded == \A k \in Keys : buckets[k] <= Cardinality(HandledUnder(k))

\* An insert on its way carries no more than was published.
InsertsBounded ==
    \A k \in Keys : /\ \A f \in Flushers : batch[f][k] <= Cardinality(ClicksUnder(k))
                    /\ \A b \in strays : b[k] <= Cardinality(ClicksUnder(k))

\* A process that is down holds nothing.
DownIsEmpty ==
    phase = "down" => /\ buckets = EmptyBuckets
                      /\ bucketed = {}
                      /\ \A f \in Flushers : flush[f] = "idle"

\* What an awaited insert does not carry was recorded while it was awaited.
AwaitedCarries ==
    \A f \in Awaiting : bucketed \subseteq carried[f] \cup overlapped

\* What an applied insert carries has landed.
AppliedLanded ==
    \A f \in Flushers : flush[f] = "applied" => carried[f] \subseteq landed

\* Committed or not, what lies before the position of a process is accounted
\* for.
PassedIsAccountedFor ==
    phase # "down" =>
        \A p \in Partitions : \A o \in 0 .. position[p] - 1 :
            <<p, o>> \in bucketed \cup landed \cup overlapped \cup abandoned
=============================================================================
