------------------------ MODULE CountPipelineProofs ------------------------
(***************************************************************************)
(* Theorems about lesson 0 from end to end: whatever the clients, the      *)
(* producer, the group and the processes do, the whole is the abstract     *)
(* counter, over the clicks that were asked for.                           *)
(***************************************************************************)
EXTENDS CountPipeline, IngestApiProofs

SystemInv ==
    /\ ApiTypeOK
    /\ TopicTypeOK(Envelopes)
    /\ ConsumerTypeOK
    /\ BodiesAreKept
    /\ RecordsAreAsked
    /\ IsFiniteSet(Asked)
    /\ CreditsAreCounted

\* Everything the abstract counter has published.
Asking == {[click |-> ClickIdOf(r, asked[r]), ad |-> asked[r].ad] : r \in Asked}

-----------------------------------------------------------------------------
(* The steps of the ingest-api.                                             *)

\* A request that was not sent before adds what it asks for, if it passes the
\* validation; no other step changes what is asked for.
LEMMA IngestAsks ==
    ASSUME ApiTypeOK, [ApiNext]_apiVars
    PROVE  /\ track' = track
           /\ \/ /\ Asked' = Asked
                 /\ \A q \in Requests : stage[q] # "unsent" => asked'[q] = asked[q]
                 /\ \A q \in Requests : stage'[q] # "unsent" =>
                       stage[q] # "unsent" \/ asked'[q] \in Bodies
              \/ \E r \in Requests, body \in Bodies :
                    /\ stage[r] = "unsent" /\ body.ad \notin Refused
                    /\ asked' = [asked EXCEPT ![r] = body]
                    /\ \A q \in Requests : q # r => (stage'[q] = "unsent" <=> stage[q] = "unsent")
                    /\ stage'[r] # "unsent"
<1>a. /\ stage \in [Requests -> {"unsent", "awaiting", "answered"}]
      /\ asked \in [Requests -> Bodies \cup {Missing}]
  BY DEF ApiTypeOK
<1>b. Refused' = Refused
  BY TrackStays DEF Refused
<1>1. ASSUME NEW r \in Requests, NEW body \in Bodies,
             Receive(r, body), NEW x \in {"awaiting", "answered"}, stage' = [stage EXCEPT ![r] = x]
      PROVE  /\ stage[r] = "unsent" /\ stage'[r] # "unsent"
             /\ asked' = [asked EXCEPT ![r] = body]
             /\ \A q \in Requests : q # r => stage'[q] = stage[q] /\ asked'[q] = asked[q]
             /\ asked'[r] = body
  BY <1>1, <1>a DEF Receive
<1>2. ASSUME NEW r \in Requests, NEW body \in Bodies,
             Fire(r, body) \/ SendThrows(r, body) \/ Await(r, body)
      PROVE  /\ stage[r] = "unsent" /\ body.ad \notin Refused
             /\ asked' = [asked EXCEPT ![r] = body]
             /\ \A q \in Requests : q # r => (stage'[q] = "unsent" <=> stage[q] = "unsent")
             /\ stage'[r] # "unsent"
  <2>1. PICK x \in {"awaiting", "answered"} :
           Receive(r, body) /\ stage' = [stage EXCEPT ![r] = x]
    BY <1>2 DEF Fire, SendThrows, Await, Respond
  <2>2. body.ad \notin Refused
    BY <1>2 DEF Fire, SendThrows, Await, Refused
  <2> QED BY <2>1, <2>2, <1>1
<1>3. ASSUME NEW r \in Requests, NEW body \in Bodies, Reject(r, body)
      PROVE  /\ Asked' = Asked
             /\ \A q \in Requests : stage[q] # "unsent" => asked'[q] = asked[q]
             /\ \A q \in Requests : stage'[q] # "unsent" =>
                   stage[q] # "unsent" \/ asked'[q] \in Bodies
  <2>1. Receive(r, body) /\ stage' = [stage EXCEPT ![r] = "answered"] /\ body.ad \in Refused
    BY <1>3 DEF Reject, Respond
  <2>2. /\ stage[r] = "unsent" /\ asked'[r] = body
        /\ \A q \in Requests : q # r => stage'[q] = stage[q] /\ asked'[q] = asked[q]
    BY <2>1, <1>1
  <2> QED BY <2>1, <2>2, <1>b DEF Asked
<1>4. ASSUME asked' = asked, \A q \in Requests : stage'[q] = "unsent" <=> stage[q] = "unsent"
      PROVE  /\ Asked' = Asked
             /\ \A q \in Requests : stage[q] # "unsent" => asked'[q] = asked[q]
             /\ \A q \in Requests : stage'[q] # "unsent" =>
                   stage[q] # "unsent" \/ asked'[q] \in Bodies
  BY <1>4, <1>b DEF Asked
<1>5. ASSUME NEW r \in Requests, Settle(r)
      PROVE  asked' = asked /\ \A q \in Requests : stage'[q] = "unsent" <=> stage[q] = "unsent"
  BY <1>5, <1>a DEF Settle, Respond, received
<1>6. CASE ApiCrash
  <2>1. asked' = asked /\ \A q \in Requests : stage'[q] = "unsent" <=> stage[q] = "unsent"
    BY <1>6, <1>a DEF ApiCrash, received
  <2> QED BY <2>1, <1>4, TrackStays
<1>7. CASE UNCHANGED <<asked, stage>>
  BY <1>7, <1>4, TrackStays
<1>8. ASSUME NEW i \in 1 .. Len(outbox),
             Deliver(i) \/ Written(i) \/ Retry(i) \/ AppendUnacked(i) \/ GiveUp(i)
      PROVE  UNCHANGED <<asked, stage>>
  BY <1>8 DEF Deliver, Written, Retry, AppendUnacked, GiveUp, received
<1>9. CASE Start \/ UNCHANGED apiVars
  BY <1>7, <1>9 DEF Start, received, apiVars
<1> QED BY <1>2, <1>3, <1>4, <1>5, <1>6, <1>7, <1>8, <1>9, TrackStays DEF ApiNext, Transmit

\* What was asked for stays asked for, in the same words.
LEMMA AskedStays ==
    ASSUME ApiTypeOK, [ApiNext]_apiVars
    PROVE  /\ Asked \subseteq Asked'
           /\ \A q \in Asked : asked'[q] = asked[q] /\ ClickIdOf(q, asked[q])' = ClickIdOf(q, asked[q])
           /\ IsFiniteSet(Asked) => IsFiniteSet(Asked')
<1>1. track' = track /\ Refused' = Refused /\ NotSupplied' = NotSupplied
  BY TrackStays DEF Refused, NotSupplied
<1>2. CASE Asked' = Asked /\ \A q \in Requests : stage[q] # "unsent" => asked'[q] = asked[q]
  BY <1>1, <1>2 DEF Asked, ClickIdOf
<1>3. ASSUME NEW r \in Requests, NEW body \in Bodies,
             stage[r] = "unsent", body.ad \notin Refused,
             asked' = [asked EXCEPT ![r] = body],
             \A q \in Requests : q # r => (stage'[q] = "unsent" <=> stage[q] = "unsent"),
             stage'[r] # "unsent"
      PROVE  /\ Asked \subseteq Asked'
             /\ \A q \in Asked : asked'[q] = asked[q]
                   /\ ClickIdOf(q, asked[q])' = ClickIdOf(q, asked[q])
             /\ IsFiniteSet(Asked) => IsFiniteSet(Asked')
  <2>1. asked'[r] = body /\ \A q \in Requests : q # r => asked'[q] = asked[q]
    BY <1>3 DEF ApiTypeOK
  <2>2. Asked' = Asked \cup {r}
    BY <1>1, <1>3, <2>1 DEF Asked
  <2>3. \A q \in Asked : q # r
    BY <1>3 DEF Asked
  <2>4. IsFiniteSet(Asked) => IsFiniteSet(Asked \cup {r})
    BY FS_AddElement
  <2> QED BY <1>1, <2>1, <2>2, <2>3, <2>4 DEF Asked, ClickIdOf
<1> QED BY <1>2, <1>3, IngestAsks

\* A step of the ingest-api, or none, keeps the invariant.
LEMMA IngestKeepsSystemInv ==
    ASSUME SystemInv, [ApiNext]_apiVars, UNCHANGED <<groupVars, consumerVars>>
    PROVE  SystemInv'
<1>1. ApiTypeOK /\ [ApiNext]_apiVars /\ UNCHANGED <<groupVars, consumerVars>>
  BY DEF SystemInv
<1>2. ApiTypeOK' /\ track' = track
  BY <1>1, ApiNextTypeOK, TrackStays
<1>3. /\ Asked \subseteq Asked' /\ IsFiniteSet(Asked')
      /\ \A q \in Asked : asked'[q] = asked[q] /\ ClickIdOf(q, asked[q])' = ClickIdOf(q, asked[q])
  BY <1>1, AskedStays DEF SystemInv
<1>4. \A p \in Partitions : Offset(p) \subseteq Offset(p)'
  <2>1. CASE log' = log
    BY <2>1 DEF Offset
  <2>2. ASSUME NEW i \in 1 .. Len(outbox), AppendTo(outbox[i].to, outbox[i].record)
        PROVE  \A p \in Partitions : Offset(p) \subseteq Offset(p)'
    BY <1>1, <2>2, InFlightFacts, AppendKeepsRecords DEF ApiTypeOK
  <2> QED BY <1>1, <2>1, <2>2, LogSteps
<1>5. ConsumerTypeOK'
  <2>1. inHand' \subseteq {d \in Partitions \X Nat : d[2] \in Offset(d[1])'}
    BY <1>1, <1>4 DEF SystemInv, ConsumerTypeOK, consumerVars
  <2> QED BY <1>1, <2>1 DEF SystemInv, ConsumerTypeOK, consumerVars
<1>6. BodiesAreKept'
  <2> SUFFICES ASSUME NEW q \in Requests, stage'[q] # "unsent" PROVE asked'[q] \in Bodies
    BY DEF BodiesAreKept
  <2>1. CASE /\ \A r \in Requests : stage[r] # "unsent" => asked'[r] = asked[r]
             /\ \A r \in Requests : stage'[r] # "unsent" =>
                   stage[r] # "unsent" \/ asked'[r] \in Bodies
    BY <2>1 DEF SystemInv, BodiesAreKept
  <2>2. ASSUME NEW r \in Requests, NEW body \in Bodies, asked' = [asked EXCEPT ![r] = body],
               \A s \in Requests : s # r => (stage'[s] = "unsent" <=> stage[s] = "unsent")
        PROVE  asked'[q] \in Bodies
    BY <1>1, <2>2 DEF SystemInv, BodiesAreKept, ApiTypeOK
  <2> QED BY <1>1, <2>1, <2>2, IngestAsks
<1>7. RecordsAreAsked'
  <2> SUFFICES ASSUME NEW e \in Records'
               PROVE  /\ e.from \in Asked'
                      /\ e.click = ClickIdOf(e.from, asked[e.from])'
                      /\ e.ad = asked'[e.from].ad
    BY DEF RecordsAreAsked
  <2>1. CASE e \in Records
    <3>1. e.from \in Asked /\ e.click = ClickIdOf(e.from, asked[e.from]) /\ e.ad = asked[e.from].ad
      BY <2>1 DEF SystemInv, RecordsAreAsked
    <3> QED BY <3>1, <1>3
  <2>2. ASSUME NEW r \in Requests, NEW body \in Bodies, e = EnvelopeOf(r, body),
               body.ad \notin Refused, stage'[r] # "unsent", asked'[r] = body
        PROVE  /\ e.from \in Asked'
               /\ e.click = ClickIdOf(e.from, asked[e.from])'
               /\ e.ad = asked'[e.from].ad
    <3>1. e.click = ClickIdOf(r, body) /\ e.ad = body.ad /\ e.from = r
      BY <2>2 DEF EnvelopeOf
    <3>2. ClickIdOf(r, asked[r])' = ClickIdOf(r, body) /\ Refused' = Refused
      BY <1>2, <2>2 DEF ClickIdOf, NotSupplied, Refused
    <3> QED BY <2>2, <3>1, <3>2 DEF Asked
  <2> QED BY <1>1, <2>1, <2>2, NextRecords
<1>8. CreditsAreCounted'
  <2>1. \A a \in NamedAds : AskedFor(a) \subseteq AskedFor(a)'
    BY <1>3 DEF AskedFor
  <2>2. UNCHANGED <<credited, counts, seen>>
    BY <1>1 DEF consumerVars
  <2> QED BY <2>1, <2>2 DEF SystemInv, CreditsAreCounted
<1>9. TopicTypeOK(Envelopes)'
  BY <1>1, <1>2 DEF SystemInv, ApiTypeOK, TopicTypeOK, groupVars
<1> QED BY <1>2, <1>3, <1>5, <1>6, <1>7, <1>8, <1>9 DEF SystemInv

-----------------------------------------------------------------------------
(* The steps of the consumer.                                               *)

\* The consumer leaves everything of the ingest-api alone, and the log.
LEMMA ConsumeFacts ==
    ASSUME SystemInv, Consume
    PROVE  /\ UNCHANGED <<log, track, up, now, asked, precedes, stage, answer, outbox,
                          delivery, failures>>
           /\ committed' \in [Partitions -> Nat \cup {NoOffset}]
           /\ position' \in [Partitions -> Nat]
           /\ rebalances' \in Nat /\ crashes' \in Nat
<1> USE DEF Consumer!Assign, Consumer!StartOffset, Consumer!NoOffset, NoOffset,
            Consumer!CommitPosition, Consumer!topicVars, Consumer!Stop, Consumer!memory
<1>a. /\ committed \in [Partitions -> Nat \cup {NoOffset}]
      /\ position \in [Partitions -> Nat]
      /\ rebalances \in Nat /\ crashes \in Nat
  BY DEF SystemInv, ApiTypeOK, TopicTypeOK, LogTypeOK
<1>b. UNCHANGED <<up, now, asked, precedes, stage, answer, outbox, delivery, failures>>
  BY DEF Consume, sendingVars, received
<1>1. CASE Consumer!Boot \/ Consumer!Rebalance
  BY <1>a, <1>b, <1>1 DEF Consumer!Boot, Consumer!Rebalance
<1>2. ASSUME NEW p \in Partitions, Consumer!Take(p)
      PROVE  /\ log' = log /\ track' = track
             /\ committed' \in [Partitions -> Nat \cup {NoOffset}]
             /\ position' \in [Partitions -> Nat] /\ rebalances' \in Nat /\ crashes' \in Nat
  BY <1>a, <1>2 DEF Consumer!Take, Consumer!Advance, Consumer!CommitOnTake
<1>3. ASSUME NEW p \in Partitions, Consumer!CommitResolved(p) \/ Consumer!AutoCommit(p)
      PROVE  /\ log' = log /\ track' = track
             /\ committed' \in [Partitions -> Nat \cup {NoOffset}]
             /\ position' \in [Partitions -> Nat] /\ rebalances' \in Nat /\ crashes' \in Nat
  BY <1>a, <1>3 DEF Consumer!CommitResolved, Consumer!AutoCommit
<1>4. CASE Consumer!Record \/ Consumer!ReadError
  BY <1>a, <1>b, <1>4 DEF Consumer!Record, Consumer!ReadError
<1>5. CASE Consumer!CloseConsumer
  BY <1>a, <1>b, <1>5 DEF Consumer!CloseConsumer
<1>6. CASE Consumer!Crash
  BY <1>a, <1>b, <1>6 DEF Consumer!Crash
<1> QED BY <1>b, <1>1, <1>2, <1>3, <1>4, <1>5, <1>6 DEF Consume

\* The record in hand was asked for.
LEMMA InHandIsAsked ==
    ASSUME SystemInv, NEW d \in inHand
    PROVE  \E env \in Envelopes :
              /\ env = Consumer!RecordAt(d[1], d[2])
              /\ env.click \in Ids /\ env.ad \in NamedAds
              /\ env.from \in Asked
              /\ env.click = ClickIdOf(env.from, asked[env.from])
              /\ env.ad = asked[env.from].ad
<1>1. PICK p \in Partitions, o \in Nat : d = <<p, o>> /\ o \in Offset(p)
  BY DEF SystemInv, ConsumerTypeOK
<1>2. log[p] \in Seq(Envelopes) /\ o + 1 \in 1 .. Len(log[p])
  BY <1>1 DEF SystemInv, ApiTypeOK, TopicTypeOK, LogTypeOK, Offset
<1>3. PICK env \in Envelopes : env = log[p][o + 1]
  BY <1>2
<1>4. env = Consumer!RecordAt(d[1], d[2])
  BY <1>1, <1>3 DEF Consumer!RecordAt
<1>5. env \in Records
  BY <1>1, <1>3 DEF Records, Published, RecordAt
<1> QED BY <1>3, <1>4, <1>5 DEF SystemInv, RecordsAreAsked, Envelopes, Ids, NamedAds

\* record() keeps the counts the sizes of what was credited.
LEMMA RecordKeepsCredits ==
    ASSUME SystemInv, Consumer!Record
    PROVE  /\ seen' \subseteq Ids /\ counts' \in [NamedAds -> Nat] /\ duplicates' \in Nat
           /\ credited' \in [NamedAds -> SUBSET Ids]
           /\ \A a \in NamedAds : /\ IsFiniteSet(credited'[a])
                                  /\ counts'[a] = Cardinality(credited'[a])
                                  /\ credited'[a] \subseteq seen' \cap AskedFor(a)
<1>a. /\ seen \subseteq Ids /\ counts \in [NamedAds -> Nat] /\ duplicates \in Nat
      /\ credited \in [NamedAds -> SUBSET Ids]
      /\ \A a \in NamedAds : /\ IsFiniteSet(credited[a])
                             /\ counts[a] = Cardinality(credited[a])
                             /\ credited[a] \subseteq seen \cap AskedFor(a)
  BY DEF SystemInv, ConsumerTypeOK, CreditsAreCounted
<1>1. PICK d \in inHand : \/ Consumer!CountNew(Consumer!RecordAt(d[1], d[2]))
                          \/ Consumer!DropDuplicate(Consumer!RecordAt(d[1], d[2]))
  BY DEF Consumer!Record
<1>2. PICK env \in Envelopes :
         /\ env = Consumer!RecordAt(d[1], d[2])
         /\ env.click \in Ids /\ env.ad \in NamedAds
         /\ env.from \in Asked
         /\ env.click = ClickIdOf(env.from, asked[env.from])
         /\ env.ad = asked[env.from].ad
  BY InHandIsAsked
<1>3. CASE Consumer!DropDuplicate(env)
  BY <1>a, <1>3 DEF Consumer!DropDuplicate
<1>4. CASE Consumer!CountNew(env)
  <2>1. /\ env.click \notin seen /\ seen' = seen \cup {env.click}
        /\ counts' = [counts EXCEPT ![env.ad] = @ + 1]
        /\ credited' = [credited EXCEPT ![env.ad] = @ \cup {env.click}]
        /\ duplicates' = duplicates
    BY <1>4 DEF Consumer!CountNew, Consumer!IsDuplicate
  <2>2. /\ seen' \subseteq Ids /\ counts' \in [NamedAds -> Nat] /\ duplicates' \in Nat
        /\ credited' \in [NamedAds -> SUBSET Ids]
    <3>1. seen' \subseteq Ids /\ duplicates' \in Nat
      BY <1>a, <1>2, <2>1
    <3>2. counts' \in [NamedAds -> Nat]
      BY <1>a, <1>2, <2>1
    <3>3. credited[env.ad] \cup {env.click} \in SUBSET Ids
      BY <1>a, <1>2
    <3>4. credited' \in [NamedAds -> SUBSET Ids]
      BY <1>a, <2>1, <3>3
    <3> QED BY <3>1, <3>2, <3>4
  <2>3. env.click \in AskedFor(env.ad)
    BY <1>2 DEF AskedFor
  <2>4. ASSUME NEW a \in NamedAds
        PROVE  /\ IsFiniteSet(credited'[a])
               /\ counts'[a] = Cardinality(credited'[a])
               /\ credited'[a] \subseteq seen' \cap AskedFor(a)
    <3>1. CASE a = env.ad
      <4>1. credited'[a] = credited[a] \cup {env.click} /\ counts'[a] = counts[a] + 1
        BY <1>a, <2>1, <3>1
      <4>2. env.click \notin credited[a]
        BY <1>a, <2>1
      <4>3. /\ IsFiniteSet(credited[a] \cup {env.click})
            /\ Cardinality(credited[a] \cup {env.click}) = Cardinality(credited[a]) + 1
        BY <1>a, <4>2, FS_AddElement
      <4> QED BY <1>a, <2>1, <2>3, <3>1, <4>1, <4>3
    <3>2. CASE a # env.ad
      <4>1. credited'[a] = credited[a] /\ counts'[a] = counts[a]
        BY <1>a, <2>1, <3>2
      <4> QED BY <1>a, <2>1, <4>1
    <3> QED BY <3>1, <3>2
  <2> QED BY <2>2, <2>4
<1> QED BY <1>1, <1>2, <1>3, <1>4

LEMMA ConsumeKeepsSystemInv == SystemInv /\ Consume => SystemInv'
<1> SUFFICES ASSUME SystemInv, Consume PROVE SystemInv'
  OBVIOUS
<1>1. /\ UNCHANGED <<log, track, up, now, asked, precedes, stage, answer, outbox,
                     delivery, failures>>
      /\ committed' \in [Partitions -> Nat \cup {NoOffset}]
      /\ position' \in [Partitions -> Nat]
      /\ rebalances' \in Nat /\ crashes' \in Nat
  BY ConsumeFacts
<1>2. ApiTypeOK' /\ TopicTypeOK(Envelopes)'
  BY <1>1 DEF SystemInv, ApiTypeOK, TopicTypeOK, LogTypeOK
<1>3. /\ Asked' = Asked /\ \A a \in NamedAds : AskedFor(a)' = AskedFor(a)
      /\ \A r \in Requests : ClickIdOf(r, asked[r])' = ClickIdOf(r, asked[r])
      /\ Records' = Records
      /\ \A p \in Partitions : Offset(p)' = Offset(p)
  BY <1>1 DEF Asked, AskedFor, ClickIdOf, NotSupplied, Refused, Records, Published, Offset, RecordAt
<1>4. BodiesAreKept' /\ RecordsAreAsked' /\ IsFiniteSet(Asked')
  BY <1>1, <1>3 DEF SystemInv, BodiesAreKept, RecordsAreAsked, Asked
<1>a. /\ phase \in {"down", "consuming", "deaf"}
      /\ inHand \subseteq {d \in Partitions \X Nat : d[2] \in Offset(d[1])}
      /\ seen \subseteq Ids /\ counts \in [NamedAds -> Nat] /\ duplicates \in Nat
      /\ credited \in [NamedAds -> SUBSET Ids]
      /\ \A a \in NamedAds : /\ IsFiniteSet(credited[a])
                             /\ counts[a] = Cardinality(credited[a])
                             /\ credited[a] \subseteq seen \cap AskedFor(a)
  BY DEF SystemInv, ConsumerTypeOK, CreditsAreCounted
\* What is in hand is a record of the log.
<1>5. /\ phase' \in {"down", "consuming", "deaf"}
      /\ inHand' \subseteq {d \in Partitions \X Nat : d[2] \in Offset(d[1])}
  <2>1. ASSUME NEW p \in Partitions, Consumer!Take(p)
        PROVE  inHand' \subseteq {d \in Partitions \X Nat : d[2] \in Offset(d[1])} /\ phase' = phase
    <3>1. inHand' = {<<p, position[p]>>} /\ position[p] < Len(log[p]) /\ phase' = phase
      BY <2>1 DEF Consumer!Take, Consumer!HasNext
    <3>2. position[p] \in Offset(p)
      BY <3>1 DEF SystemInv, ApiTypeOK, TopicTypeOK, LogTypeOK, Offset
    <3>3. position[p] \in Nat
      BY DEF SystemInv, ApiTypeOK, TopicTypeOK, LogTypeOK
    <3> QED BY <3>1, <3>2, <3>3
  <2>2. ASSUME NEW p \in Partitions, Consumer!CommitResolved(p) \/ Consumer!AutoCommit(p)
        PROVE  inHand' = inHand /\ phase' = phase
    BY <2>2 DEF Consumer!CommitResolved, Consumer!AutoCommit
  <2>3. CASE Consumer!Record
    BY <1>a, <2>3 DEF Consumer!Record
  <2> QED BY <1>a, <2>1, <2>2, <2>3 DEF Consume, Consumer!Boot, Consumer!ReadError, Consumer!Rebalance,
             Consumer!CloseConsumer, Consumer!Crash, Consumer!Stop
<1>6. /\ seen' \subseteq Ids /\ counts' \in [NamedAds -> Nat] /\ duplicates' \in Nat
      /\ credited' \in [NamedAds -> SUBSET Ids]
      /\ \A a \in NamedAds : /\ IsFiniteSet(credited'[a])
                             /\ counts'[a] = Cardinality(credited'[a])
                             /\ credited'[a] \subseteq seen' \cap AskedFor(a)
  <2>1. CASE Consumer!Record
    BY <2>1, RecordKeepsCredits
  <2>2. CASE UNCHANGED <<seen, counts, duplicates, credited>>
    BY <1>a, <2>2
  <2>3. CASE Consumer!Stop
    <3>1. /\ seen' = {} /\ counts' = [a \in NamedAds |-> 0] /\ duplicates' = 0
          /\ credited' = [a \in NamedAds |-> {}]
      BY <2>3 DEF Consumer!Stop, Consumer!NoCounts, Consumer!NoCredits
    <3> QED BY <3>1, FS_EmptySet
  <2> QED BY <2>1, <2>2, <2>3 DEF Consume, Consumer!Boot, Consumer!Take, Consumer!CommitResolved,
             Consumer!AutoCommit, Consumer!ReadError, Consumer!Rebalance, Consumer!CloseConsumer,
             Consumer!Crash, Consumer!memory
<1>7. ConsumerTypeOK' /\ CreditsAreCounted'
  BY <1>3, <1>5, <1>6 DEF ConsumerTypeOK, CreditsAreCounted
<1> QED BY <1>2, <1>4, <1>7 DEF SystemInv

LEMMA InitSystemInv == SystemInit => SystemInv
<1> SUFFICES ASSUME SystemInit PROVE SystemInv
  OBVIOUS
<1>1. ApiInit /\ ApiTypeOK
  BY ApiInitTypeOK DEF SystemInit
<1>2. Asked = {} /\ BodiesAreKept
  BY <1>1 DEF ApiInit, Asked, BodiesAreKept
<1>3. RecordsAreAsked
  <2>1. Len(outbox) = 0 /\ \A p \in Partitions : Len(log[p]) = 0
    BY <1>1 DEF ApiInit, LogInit
  <2>2. Records = {}
    BY <2>1 DEF Records, Published, Offset
  <2> QED BY <2>2 DEF RecordsAreAsked
<1>4. ConsumerTypeOK /\ CreditsAreCounted
  BY FS_EmptySet DEF SystemInit, Consumer!Init, Consumer!NoCounts, Consumer!NoCredits,
     ConsumerTypeOK, CreditsAreCounted
<1>5. TopicTypeOK(Envelopes)
  BY <1>1 DEF SystemInit, Consumer!Init, Consumer!TopicInit, Consumer!NoOffset, NoOffset,
     ApiTypeOK, TopicTypeOK
<1> QED BY <1>1, <1>2, <1>3, <1>4, <1>5, FS_EmptySet DEF SystemInv

LEMMA SystemInvHolds == SystemSpec => []SystemInv
<1>1. SystemInv /\ [SystemNext]_systemVars => SystemInv'
  <2> SUFFICES ASSUME SystemInv, [SystemNext]_systemVars PROVE SystemInv'
    OBVIOUS
  <2>1. ([ApiNext]_apiVars /\ UNCHANGED <<groupVars, consumerVars>>) \/ Consume
    BY DEF SystemNext, Ingest, systemVars
  <2> QED BY <2>1, IngestKeepsSystemInv, ConsumeKeepsSystemInv
<1> QED BY <1>1, InitSystemInv, PTL DEF SystemSpec

\* End to end, no ad is ever credited with more clicks than distinct click ids
\* were asked to be counted for it.
THEOREM CountsNeverExceedRequests == SystemSpec => []CountsAreAskedFor
<1>1. ASSUME SystemInv PROVE CountsAreAskedFor
  <2> SUFFICES ASSUME NEW a \in NamedAds PROVE counts[a] <= Cardinality(AskedFor(a))
    BY DEF CountsAreAskedFor
  <2>1. counts[a] = Cardinality(credited[a]) /\ credited[a] \subseteq AskedFor(a)
    BY <1>1 DEF SystemInv, CreditsAreCounted
  <2>2. IsFiniteSet(AskedFor(a))
    <3>1. IsFiniteSet({q \in Asked : asked[q].ad = a})
      BY <1>1, FS_Subset DEF SystemInv
    <3> DEFINE clickOf == [r \in {q \in Asked : asked[q].ad = a} |-> ClickIdOf(r, asked[r])]
    <3>2. clickOf \in Surjection({q \in Asked : asked[q].ad = a}, AskedFor(a))
      BY DEF Surjection, AskedFor
    <3> QED BY <3>1, <3>2, FS_Surjection
  <2> QED BY <2>1, <2>2, FS_Subset
<1> QED BY <1>1, SystemInvHolds, PTL

-----------------------------------------------------------------------------
(* The refinement.                                                          *)

LEMMA IngestRefines ==
    ASSUME SystemInv, SystemInv', Ingest
    PROVE  [Abstract!Next]_(Abstract!vars)
<1>1. ApiTypeOK /\ [ApiNext]_apiVars /\ UNCHANGED <<groupVars, consumerVars>> /\ track' = track
  BY TrackStays DEF SystemInv, Ingest
<1>2. UNCHANGED <<seen, counts, duplicates>>
  BY <1>1 DEF consumerVars
<1>3. NotSupplied' = NotSupplied /\ Refused' = Refused
  BY <1>1 DEF NotSupplied, Refused
<1>4. CASE Asked' = Asked /\ \A q \in Requests : stage[q] # "unsent" => asked'[q] = asked[q]
  <2>1. \A q \in Asked : asked'[q] = asked[q] /\ ClickIdOf(q, asked[q])' = ClickIdOf(q, asked[q])
    BY <1>3, <1>4 DEF Asked, ClickIdOf
  <2>2. Asking' = Asking
    BY <1>4, <2>1 DEF Asking
  <2> QED BY <1>2, <2>2 DEF Abstract!vars, Asking
<1>5. ASSUME NEW r \in Requests, NEW body \in Bodies,
             stage[r] = "unsent", body.ad \notin Refused,
             asked' = [asked EXCEPT ![r] = body],
             \A q \in Requests : q # r => (stage'[q] = "unsent" <=> stage[q] = "unsent"),
             stage'[r] # "unsent"
      PROVE  Abstract!Next
  <2> DEFINE c == ClickIdOf(r, body)
  <2>1. asked'[r] = body /\ \A q \in Requests : q # r => asked'[q] = asked[q]
    BY <1>1, <1>5 DEF ApiTypeOK
  <2>2. Asked' = Asked \cup {r} /\ r \notin Asked
    BY <1>3, <1>5, <2>1 DEF Asked
  <2>3. /\ \A q \in Asked : asked'[q] = asked[q] /\ ClickIdOf(q, asked[q])' = ClickIdOf(q, asked[q])
        /\ ClickIdOf(r, asked[r])' = c
    BY <1>3, <2>1, <2>2 DEF ClickIdOf, Asked
  <2>4. c \in Ids /\ body.ad \in NamedAds
    BY DEF Bodies, ClickIdOf, NotSupplied, Ids, NamedAds
  <2> HIDE DEF c
  <2>5. Asking' = Asking \cup {[click |-> c, ad |-> body.ad]}
    BY <2>1, <2>2, <2>3 DEF Asking
  <2>6. Abstract!Publish(c, body.ad)
    BY <1>2, <2>5 DEF Abstract!Publish, Asking
  <2> QED BY <2>4, <2>6 DEF Abstract!Next
<1> QED BY <1>1, <1>4, <1>5, IngestAsks

LEMMA ConsumeRefines ==
    ASSUME SystemInv, Consume
    PROVE  [Abstract!Next]_(Abstract!vars)
<1>1. Asking' = Asking
  <2>1. UNCHANGED <<track, asked, stage>>
    BY ConsumeFacts
  <2> QED BY <2>1 DEF Asking, Asked, ClickIdOf, NotSupplied, Refused
<1>2. CASE Consumer!Record
  <2>1. PICK d \in inHand : \/ Consumer!CountNew(Consumer!RecordAt(d[1], d[2]))
                            \/ Consumer!DropDuplicate(Consumer!RecordAt(d[1], d[2]))
    BY <1>2 DEF Consumer!Record
  <2>2. PICK env \in Envelopes :
           /\ env = Consumer!RecordAt(d[1], d[2])
           /\ env.click \in Ids /\ env.ad \in NamedAds
           /\ env.from \in Asked
           /\ env.click = ClickIdOf(env.from, asked[env.from])
           /\ env.ad = asked[env.from].ad
    BY InHandIsAsked
  <2>3. [click |-> env.click, ad |-> env.ad] \in Asking
    BY <2>2 DEF Asking
  <2>4. CASE Consumer!CountNew(env)
    <3>1. Abstract!Count(env.click, env.ad)
      BY <1>1, <2>3, <2>4 DEF Abstract!Count, Asking, Consumer!CountNew, Consumer!IsDuplicate
    <3> QED BY <2>2, <3>1 DEF Abstract!Next
  <2>5. CASE Consumer!DropDuplicate(env)
    <3>1. Abstract!Reject(env.click, env.ad)
      BY <1>1, <2>3, <2>5 DEF Abstract!Reject, Asking, Consumer!DropDuplicate, Consumer!IsDuplicate
    <3> QED BY <2>2, <3>1 DEF Abstract!Next
  <2> QED BY <2>1, <2>2, <2>4, <2>5
<1>3. CASE Consumer!Stop
  <2>1. Abstract!Forget
    BY <1>1, <1>3 DEF Abstract!Forget, Asking, Consumer!Stop, Consumer!NoCounts
  <2> QED BY <2>1 DEF Abstract!Next
<1>4. CASE UNCHANGED <<seen, counts, duplicates>>
  BY <1>1, <1>4 DEF Abstract!vars, Asking
<1> QED BY <1>2, <1>3, <1>4 DEF Consume, Consumer!Boot, Consumer!Take, Consumer!CommitResolved,
           Consumer!AutoCommit, Consumer!ReadError, Consumer!Rebalance, Consumer!CloseConsumer,
           Consumer!Crash, Consumer!memory

\* Lesson 0 as a whole, on every track, implements the abstract counter: a click
\* is published when its request is received, and neither the producer's
\* duplicates nor redelivery, replay, crashes and the clients' own repetitions
\* make it count twice or for another ad.
THEOREM LessonImplementsUniqueClickCount == SystemSpec => LessonCountsUniqueClicks
<1>1. SystemInit => Abstract!Init
  <2> SUFFICES ASSUME SystemInit PROVE Abstract!Init
    OBVIOUS
  <2>1. Asking = {}
    BY DEF SystemInit, ApiInit, Asking, Asked
  <2> QED BY <2>1 DEF SystemInit, Consumer!Init, Consumer!NoCounts, Abstract!Init, Asking
<1>2. SystemInv /\ SystemInv' /\ [SystemNext]_systemVars => [Abstract!Next]_(Abstract!vars)
  <2>1. CASE UNCHANGED systemVars
    BY <2>1 DEF systemVars, apiVars, process, received, consumerVars, Abstract!vars,
       Asked, ClickIdOf, NotSupplied, Refused
  <2> QED BY <2>1, IngestRefines, ConsumeRefines DEF SystemNext
<1> QED BY <1>1, <1>2, SystemInvHolds, PTL DEF SystemSpec, LessonCountsUniqueClicks, Abstract!Spec

-----------------------------------------------------------------------------
(* Order.                                                                   *)

OrderInv == QueueInv /\ RecordsInTurn

LEMMA IngestKeepsOrderInv ==
    ASSUME SystemInv, OrderInv, [ApiNext]_apiVars, UNCHANGED <<groupVars, consumerVars>>
    PROVE  OrderInv'
<1>1. QueueInv'
  BY NextQueueInv DEF SystemInv, OrderInv
<1>2. UNCHANGED <<committed, position>>
  BY DEF groupVars
<1>3. RecordsInTurn'
  BY <1>2, TrackStays DEF OrderInv, RecordsInTurn, consumerVars, Consumer!InHandIsLast,
     Consumer!CommittedSurvivesCrash, Consumer!TakenIsRecorded, Consumer!NothingLeftOut
<1> QED BY <1>1, <1>3 DEF OrderInv

\* The consumer leaves the queue of the producer alone.
LEMMA ConsumeKeepsQueueInv ==
    ASSUME SystemInv, QueueInv, Consume
    PROVE  QueueInv'
<1>1. UNCHANGED <<log, track, asked, precedes, stage, outbox, delivery>>
  BY ConsumeFacts
<1>2. \A r \in Requests, p \in Partitions : Landed(r, p)' = Landed(r, p)
  BY <1>1 DEF Landed, Offset, RecordAt
<1>3. \A r \in Requests : HasLanded(r)' = HasLanded(r) /\ Queued(r)' = Queued(r)
  BY <1>1, <1>2 DEF HasLanded, Queued
<1> QED BY <1>1, <1>2, <1>3 DEF QueueInv, PrecedesIsPast, UnsentIsPending, KeyedInFlight,
        KeyedInLog, OneInFlight, InFlightIsAwaited, QueuedInOrder, NoneOvertaken, AcceptedInOrder,
        Before, SenderOf

LEMMA ConsumeKeepsTurn ==
    ASSUME SystemInv, RecordsInTurn, Consume
    PROVE  RecordsInTurn'
<1> DEFINE InTurn == /\ recorded \in [Partitions -> SUBSET Nat]
                     /\ \A d, e \in inHand : d = e
                     /\ Consumer!InHandIsLast
                     /\ Consumer!CommittedSurvivesCrash
                     /\ Consumer!TakenIsRecorded
                     /\ Consumer!NothingLeftOut
<1> SUFFICES ASSUME track = "java", InTurn
             PROVE  InTurn'
  BY ConsumeFacts DEF RecordsInTurn
<1> USE DEF Consumer!InHandIsLast, Consumer!CommittedSurvivesCrash, Consumer!TakenIsRecorded,
            Consumer!NothingLeftOut
<1>a. /\ committed \in [Partitions -> Nat \cup {NoOffset}]
      /\ position \in [Partitions -> Nat]
      /\ inHand \subseteq Partitions \X Nat
  BY DEF SystemInv, ApiTypeOK, TopicTypeOK, LogTypeOK, ConsumerTypeOK
<1>2. CASE Consumer!Boot \/ Consumer!Rebalance
  <2>1. /\ position' = [p \in Partitions |-> Consumer!StartOffset(p)]
        /\ phase' = "consuming"
        /\ UNCHANGED <<committed, inHand, recorded>>
    BY <1>2 DEF Consumer!Boot, Consumer!Rebalance, Consumer!Assign, Consumer!Idle
  <2>2. inHand = {}
    BY <1>2 DEF Consumer!Boot, Consumer!Rebalance, Consumer!Idle
  <2>3. \A p \in Partitions : 0 .. position'[p] - 1 \subseteq recorded[p]
    BY <2>1, <1>a DEF Consumer!StartOffset, Consumer!NoOffset, NoOffset
  <2> QED BY <2>1, <2>2, <2>3
<1>3. ASSUME NEW q \in Partitions, Consumer!Take(q) PROVE InTurn'
  <2>1. /\ inHand = {} /\ inHand' = {<<q, position[q]>>}
        /\ phase = "consuming" /\ phase' = phase
        /\ position' = [position EXCEPT ![q] = @ + 1]
        /\ UNCHANGED <<recorded, committed>>
    BY <1>3 DEF Consumer!Take, Consumer!Idle, Consumer!Advance, Consumer!CommitOnTake
  <2>2. ASSUME NEW p \in Partitions, NEW o \in 0 .. position'[p] - 1
        PROVE  o \in recorded[p] \/ <<p, o>> \in inHand'
    <3>1. CASE p = q /\ o = position[q]
      BY <3>1, <2>1
    <3>2. CASE o \in 0 .. position[p] - 1
      BY <3>2, <2>1
    <3> QED BY <3>1, <3>2, <2>1, <2>2, <1>a
  <2>3. Consumer!InHandIsLast' /\ \A d, e \in inHand' : d = e
    BY <2>1, <1>a
  <2> QED BY <2>1, <2>2, <2>3
<1>4. CASE Consumer!Record
  <2>1. PICK d \in inHand :
          /\ inHand' = {}
          /\ recorded' = [recorded EXCEPT ![d[1]] = @ \cup {d[2]}]
          /\ UNCHANGED <<committed, position, phase>>
    BY <1>4 DEF Consumer!Record, Consumer!topicVars
  <2>2. /\ \A e \in inHand : e = d
        /\ phase = "consuming" /\ d[2] + 1 = position[d[1]]
    BY <2>1
  <2>3. PICK q \in Partitions, n \in Nat : d = <<q, n>>
    BY <2>1, <1>a
  <2>4. /\ recorded' \in [Partitions -> SUBSET Nat]
        /\ \A p \in Partitions :
              recorded'[p] = IF p = q THEN recorded[p] \cup {n} ELSE recorded[p]
    BY <2>1, <2>3
  <2>5. Consumer!CommittedSurvivesCrash' /\ Consumer!InHandIsLast'
    BY <2>1, <2>4
  <2>6. \A p \in Partitions : \A o \in 0 .. position[p] - 1 :
          o \in recorded[p] \/ (p = q /\ o = n)
    <3>1. ASSUME NEW p \in Partitions, NEW o \in 0 .. position[p] - 1, o \notin recorded[p]
          PROVE  p = q /\ o = n
      <4>1. <<p, o>> \in inHand
        BY <2>2, <3>1
      <4>2. <<p, o>> = <<q, n>>
        BY <2>2, <2>3, <4>1
      <4> QED BY <4>2
    <3> QED BY <3>1
  <2>7. Consumer!TakenIsRecorded'
    <3>1. ASSUME NEW p \in Partitions, NEW o \in 0 .. position[p] - 1
          PROVE  o \in recorded'[p]
      <4>1. CASE p = q
        <5>1. recorded'[p] = recorded[p] \cup {n}
          BY <2>4, <4>1
        <5> QED BY <2>6, <5>1
      <4>2. CASE p # q
        BY <2>4, <2>6, <4>2
      <4> QED BY <4>1, <4>2
    <3> QED BY <2>1, <3>1
  <2>8. 0 .. n \subseteq recorded'[q]
    <3>1. position[q] = n + 1
      BY <2>2, <2>3
    <3>2. \A o \in 0 .. n - 1 : o \in recorded[q]
      BY <2>6, <3>1, <1>a
    <3>3. recorded'[q] = recorded[q] \cup {n}
      BY <2>4
    <3>4. \A o \in 0 .. n : o \in 0 .. n - 1 \/ o = n
      OBVIOUS
    <3> QED BY <3>2, <3>3, <3>4
  <2>9. Consumer!NothingLeftOut'
    BY <2>4, <2>8
  <2> QED BY <2>1, <2>4, <2>5, <2>7, <2>9
<1>5. ASSUME NEW q \in Partitions, Consumer!CommitResolved(q) PROVE InTurn'
  <2>1. /\ committed' = [committed EXCEPT ![q] = position[q]]
        /\ inHand = {} /\ phase = "consuming"
        /\ UNCHANGED <<position, phase, inHand, recorded>>
    BY <1>5 DEF Consumer!CommitResolved, Consumer!CommitPosition, Consumer!Resolved, Consumer!Idle
  <2>2. 0 .. position[q] - 1 \subseteq recorded[q]
    BY <2>1
  <2>3. Consumer!CommittedSurvivesCrash'
    BY <2>1, <2>2, <1>a
  <2> QED BY <2>1, <2>3
<1>6. CASE Consumer!Crash
  BY <1>6 DEF Consumer!Crash, Consumer!Stop
\* The other actions are not this track's.
<1>7. ~ \/ Consumer!CloseConsumer \/ Consumer!ReadError
        \/ \E p \in Partitions : Consumer!AutoCommit(p)
  BY DEF Consumer!AutoCommit, Consumer!CloseConsumer, Consumer!ReadError
<1> QED BY <1>2, <1>3, <1>4, <1>5, <1>6, <1>7 DEF Consume

LEMMA OrderInvHolds == SystemSpec => [](SystemInv /\ OrderInv)
<1>1. SystemInit => OrderInv
  <2> SUFFICES ASSUME SystemInit PROVE OrderInv
    OBVIOUS
  <2>1. QueueInv
    BY InitQueueInv DEF SystemInit
  <2>2. RecordsInTurn
    BY DEF SystemInit, RecordsInTurn, Consumer!Init, Consumer!TopicInit, Consumer!NoOffset,
       Consumer!InHandIsLast, Consumer!CommittedSurvivesCrash, Consumer!TakenIsRecorded,
       Consumer!NothingLeftOut
  <2> QED BY <2>1, <2>2 DEF OrderInv
<1>2. SystemInv /\ OrderInv /\ [SystemNext]_systemVars => OrderInv'
  <2> SUFFICES ASSUME SystemInv, OrderInv, [SystemNext]_systemVars PROVE OrderInv'
    OBVIOUS
  <2>1. ([ApiNext]_apiVars /\ UNCHANGED <<groupVars, consumerVars>>) \/ Consume
    BY DEF SystemNext, Ingest, systemVars
  <2>2. CASE Consume
    BY <2>2, ConsumeKeepsQueueInv, ConsumeKeepsTurn DEF OrderInv
  <2> QED BY <2>1, <2>2, IngestKeepsOrderInv
<1> QED BY <1>1, <1>2, SystemInvHolds, PTL DEF SystemSpec

\* Per-ad order from the client to the count, on the Java track: over retries,
\* duplicates, redelivery and crashes of both processes a click does not reach
\* record() before one of the same ad that was answered before it was sent.
THEOREM AcceptedAreCountedInOrder == SystemSpec => []CountedInAcceptedOrder
<1>1. ASSUME SystemInv, OrderInv PROVE CountedInAcceptedOrder
  <2> SUFFICES ASSUME track = "java", NEW r \in Requests, NEW s \in Requests,
                      <<r, s>> \in precedes, asked[r].ad = asked[s].ad, asked[r].ad # Missing,
                      HasLanded(r), IsRecorded(s)
               PROVE  IsRecorded(r)
    BY DEF CountedInAcceptedOrder
  <2>1. PICK q \in Partitions : \E o \in Landed(s, q) : o \in recorded[q]
    BY DEF IsRecorded
  <2>2. PICK o \in Landed(s, q) : o \in recorded[q]
    BY <2>1
  <2>3. PICK p \in Partitions : Landed(r, p) # {}
    BY DEF HasLanded
  <2>4. p = q /\ \E earlier \in Landed(r, p) : earlier < o
    BY <1>1, <2>2, <2>3 DEF OrderInv, QueueInv, AcceptedInOrder
  <2>5. PICK earlier \in Landed(r, q) : earlier < o
    BY <2>4
  <2>6. earlier \in 0 .. o
    BY <2>2, <2>5 DEF Landed, Offset
  <2>7. earlier \in recorded[q]
    BY <1>1, <2>2, <2>6 DEF OrderInv, RecordsInTurn, Consumer!NothingLeftOut
  <2> QED BY <2>5, <2>7 DEF IsRecorded
<1> QED BY <1>1, OrderInvHolds, PTL
=============================================================================
