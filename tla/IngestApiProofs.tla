-------------------------- MODULE IngestApiProofs --------------------------
(***************************************************************************)
(* Theorems about the ingest-api, for every track and any number of        *)
(* requests, failures and records.                                         *)
(***************************************************************************)
EXTENDS IngestApi, KafkaTopicProofs, SequenceTheorems

-----------------------------------------------------------------------------
(* The outbox.                                                              *)

\* Taking one element out of a sequence keeps the others, in their order.
LEMMA RemoveAtFacts ==
    ASSUME NEW S, NEW s \in Seq(S), NEW i \in 1 .. Len(s)
    PROVE  /\ RemoveAt(s, i) \in Seq(S)
           /\ Len(RemoveAt(s, i)) = Len(s) - 1
           /\ \A j \in 1 .. Len(s) - 1 :
                 RemoveAt(s, i)[j] = s[IF j < i THEN j ELSE j + 1]
<1> DEFINE front == SubSeq(s, 1, i - 1)
           back == SubSeq(s, i + 1, Len(s))
<1>1. Len(s) \in Nat /\ i \in Nat /\ 1 <= i /\ i <= Len(s)
  OBVIOUS
<1>2. /\ front \in Seq(S) /\ Len(front) = i - 1
      /\ \A j \in 1 .. i - 1 : front[j] = s[j]
  BY <1>1
<1>3. /\ back \in Seq(S) /\ Len(back) = Len(s) - i
      /\ \A j \in 1 .. Len(s) - i : back[j] = s[i + j]
  BY <1>1
<1> HIDE DEF front, back
<1>4. /\ front \o back \in Seq(S) /\ Len(front \o back) = Len(s) - 1
      /\ \A j \in 1 .. Len(s) - 1 :
            (front \o back)[j] = IF j <= i - 1 THEN front[j] ELSE back[j - (i - 1)]
  <2>1. /\ front \o back \in Seq(S)
        /\ Len(front \o back) = Len(front) + Len(back)
        /\ \A j \in 1 .. Len(front) + Len(back) :
              (front \o back)[j] = IF j <= Len(front) THEN front[j] ELSE back[j - Len(front)]
    BY <1>2, <1>3, ConcatProperties
  <2>2. Len(front) = i - 1 /\ Len(front) + Len(back) = Len(s) - 1
    BY <1>1, <1>2, <1>3
  <2> QED BY <2>1, <2>2
<1>5. ASSUME NEW j \in 1 .. Len(s) - 1
      PROVE  (front \o back)[j] = s[IF j < i THEN j ELSE j + 1]
  <2>1. CASE j < i
    <3>1. j <= i - 1 /\ j \in 1 .. i - 1
      BY <2>1, <1>1
    <3> QED BY <2>1, <3>1, <1>2, <1>4
  <2>2. CASE ~ (j < i)
    <3>1. ~ (j <= i - 1) /\ j - (i - 1) \in 1 .. Len(s) - i /\ i + (j - (i - 1)) = j + 1
      BY <2>2, <1>1
    <3>2. back[j - (i - 1)] = s[j + 1]
      BY <3>1, <1>3
    <3> QED BY <2>2, <3>1, <3>2, <1>4
  <2> QED BY <2>1, <2>2
<1> QED BY <1>4, <1>5 DEF RemoveAt, front, back

\* Where the elements of the outbox were before one was removed or retried: no
\* element is new or doubled, and their order is kept where the library keeps
\* it.
LEMMA OutboxAfter ==
    ASSUME outbox \in Seq(InFlight), NEW i \in 1 .. Len(outbox),
           outbox' = RemoveAt(outbox, i) \/ outbox' = Requeue(i)
    PROVE  /\ outbox' \in Seq(InFlight)
           /\ \E old \in [1 .. Len(outbox') -> 1 .. Len(outbox)] :
                 /\ \A j \in 1 .. Len(outbox') : outbox'[j] = outbox[old[j]]
                 /\ \A j, k \in 1 .. Len(outbox') : old[j] = old[k] => j = k
                 /\ outbox' = RemoveAt(outbox, i) =>
                       \A j \in 1 .. Len(outbox') : old[j] # i
                 /\ outbox' = RemoveAt(outbox, i) \/ KeepsOrder =>
                       \A j, k \in 1 .. Len(outbox') : old[j] < old[k] => j < k
<1>1. /\ Len(outbox) \in Nat /\ i \in Nat /\ 1 <= i /\ i <= Len(outbox)
      /\ RemoveAt(outbox, i) \in Seq(InFlight)
      /\ Len(RemoveAt(outbox, i)) = Len(outbox) - 1
      /\ \A j \in 1 .. Len(outbox) - 1 :
            RemoveAt(outbox, i)[j] = outbox[IF j < i THEN j ELSE j + 1]
      /\ outbox[i] \in InFlight
  <2>1. Len(outbox) \in Nat /\ i \in Nat /\ 1 <= i /\ i <= Len(outbox) /\ outbox[i] \in InFlight
    OBVIOUS
  <2>2. /\ RemoveAt(outbox, i) \in Seq(InFlight)
        /\ Len(RemoveAt(outbox, i)) = Len(outbox) - 1
        /\ \A j \in 1 .. Len(outbox) - 1 :
              RemoveAt(outbox, i)[j] = outbox[IF j < i THEN j ELSE j + 1]
    BY RemoveAtFacts
  <2> QED BY <2>1, <2>2
<1>2. CASE outbox' = RemoveAt(outbox, i)
  <2> DEFINE old == [j \in 1 .. Len(outbox') |-> IF j < i THEN j ELSE j + 1]
  <2>1. Len(outbox') = Len(outbox) - 1
    BY <1>1, <1>2
  <2>2. old \in [1 .. Len(outbox') -> 1 .. Len(outbox)]
    BY <1>1, <2>1
  <2>3. \A j \in 1 .. Len(outbox') : old[j] = IF j < i THEN j ELSE j + 1
    OBVIOUS
  <2>4. \A j \in 1 .. Len(outbox') : outbox'[j] = outbox[old[j]] /\ old[j] # i
    BY <1>1, <1>2, <2>1, <2>3
  <2>5. \A j, k \in 1 .. Len(outbox') : /\ old[j] = old[k] => j = k
                                        /\ old[j] < old[k] => j < k
    BY <1>1, <2>1, <2>3
  <2> HIDE DEF old
  <2> QED BY <1>1, <1>2, <2>2, <2>4, <2>5
<1>3. CASE outbox' # RemoveAt(outbox, i) /\ KeepsOrder
  <2> DEFINE old == [j \in 1 .. Len(outbox') |-> j]
  <2>1. outbox' = outbox
    BY <1>3 DEF Requeue
  <2>2. old \in [1 .. Len(outbox') -> 1 .. Len(outbox)]
    BY <2>1
  <2>3. \A j \in 1 .. Len(outbox') : old[j] = j
    OBVIOUS
  <2> HIDE DEF old
  <2> QED BY <1>1, <1>3, <2>1, <2>2, <2>3
<1>4. CASE outbox' # RemoveAt(outbox, i) /\ ~ KeepsOrder
  <2> DEFINE old == [j \in 1 .. Len(outbox') |->
                        IF j < i THEN j ELSE IF j < Len(outbox) THEN j + 1 ELSE i]
  <2>1. outbox' = Append(RemoveAt(outbox, i), outbox[i])
    BY <1>4 DEF Requeue
  <2>2. /\ outbox' \in Seq(InFlight) /\ Len(outbox') = Len(outbox)
        /\ \A j \in 1 .. Len(outbox) - 1 : outbox'[j] = RemoveAt(outbox, i)[j]
        /\ outbox'[Len(outbox)] = outbox[i]
    BY <1>1, <2>1
  <2>3. old \in [1 .. Len(outbox') -> 1 .. Len(outbox)]
    BY <1>1, <2>2
  <2>4. \A j \in 1 .. Len(outbox') :
           old[j] = IF j < i THEN j ELSE IF j < Len(outbox) THEN j + 1 ELSE i
    OBVIOUS
  <2>5. ASSUME NEW j \in 1 .. Len(outbox') PROVE outbox'[j] = outbox[old[j]]
    <3>1. CASE j < Len(outbox)
      BY <3>1, <1>1, <2>2, <2>4
    <3>2. CASE j = Len(outbox)
      BY <3>2, <1>1, <2>2, <2>4
    <3> QED BY <3>1, <3>2, <1>1, <2>2
  <2>6. \A j, k \in 1 .. Len(outbox') : old[j] = old[k] => j = k
    BY <1>1, <2>2, <2>4
  <2> HIDE DEF old
  <2> QED BY <1>4, <2>2, <2>3, <2>5, <2>6
<1> QED BY <1>2, <1>3, <1>4

-----------------------------------------------------------------------------
(* Type correctness.                                                        *)

\* A request builds a well-formed record for a partition of the topic.
LEMMA SendFacts ==
    ASSUME ApiTypeOK, NEW r \in Requests, NEW body \in Bodies, Receive(r, body), Send(r, body)
    PROVE  \E p \in Routes(body.ad) :
              /\ EnvelopeOf(r, body) \in Envelopes /\ p \in Partitions
              /\ outbox' = Append(outbox, [record |-> EnvelopeOf(r, body), to |-> p])
              /\ [record |-> EnvelopeOf(r, body), to |-> p] \in InFlight
              /\ outbox' \in Seq(InFlight)
              /\ Len(outbox') = Len(outbox) + 1 /\ Len(outbox) \in Nat
              /\ \A i \in 1 .. Len(outbox) : outbox'[i] = outbox[i]
              /\ outbox'[Len(outbox) + 1] = [record |-> EnvelopeOf(r, body), to |-> p]
<1>1. PICK p \in Routes(body.ad) :
         outbox' = Append(outbox, [record |-> EnvelopeOf(r, body), to |-> p])
  BY DEF Send
<1>2. /\ body.click \in Clicks \cup {Missing} /\ body.ad \in Ads \cup {Missing}
      /\ body.ip \in Ips /\ body.time \in ChosenTimes \cup {Missing}
  BY DEF Bodies
<1>3. p \in Partitions
  BY <1>1, <1>2, TopicAssumption DEF Routes
<1>4. ClickIdOf(r, body) \in Clicks \cup Requests
  BY <1>2 DEF ClickIdOf, NotSupplied
<1>5. EventTime(body) \in ChosenTimes \cup Stamps
  BY <1>2 DEF EventTime, Receive
<1>6. EnvelopeOf(r, body) \in Envelopes
  BY <1>2, <1>4, <1>5 DEF EnvelopeOf, Envelopes
<1>7. [record |-> EnvelopeOf(r, body), to |-> p] \in InFlight
  BY <1>3, <1>6 DEF InFlight
<1>8. outbox \in Seq(InFlight)
  BY DEF ApiTypeOK
<1> QED BY <1>1, <1>3, <1>6, <1>7, <1>8

LEMMA ApiInitTypeOK == ApiInit => ApiTypeOK
<1> SUFFICES ASSUME ApiInit PROVE ApiTypeOK
  OBVIOUS
<1>1. LogTypeOK(Envelopes)
  BY DEF ApiInit, LogInit, LogTypeOK, NoOffset
<1>2. outbox \in Seq(InFlight)
  BY DEF ApiInit
<1> QED BY <1>1, <1>2 DEF ApiInit, ApiTypeOK

LEMMA ApiNextTypeOK == ApiTypeOK /\ [ApiNext]_apiVars => ApiTypeOK'
<1> SUFFICES ASSUME ApiTypeOK, [ApiNext]_apiVars PROVE ApiTypeOK'
  OBVIOUS
<1> USE DEF ApiTypeOK, LogTypeOK
<1>a. ASSUME NEW r \in Requests, NEW body \in Bodies, Receive(r, body)
      PROVE  /\ now' \in Nat
             /\ asked' \in [Requests -> Bodies \cup {Missing}]
             /\ precedes' \subseteq Requests \X Requests
  BY <1>a, IngestAssumption DEF Receive
<1>b. ASSUME Fail PROVE failures' \in Nat
  BY <1>b DEF Fail
<1>1. CASE Start
  BY <1>1 DEF Start, received
<1>2. ASSUME NEW r \in Requests, NEW body \in Bodies, Reject(r, body) PROVE ApiTypeOK'
  BY <1>2, <1>a DEF Reject, Respond, process
<1>3. ASSUME NEW r \in Requests, NEW body \in Bodies, Fire(r, body) PROVE ApiTypeOK'
  <2>1. outbox' \in Seq(InFlight)
    BY <1>3, SendFacts DEF Fire
  <2> QED BY <1>3, <1>a, <2>1 DEF Fire, Respond, process
<1>4. ASSUME NEW r \in Requests, NEW body \in Bodies, SendThrows(r, body) PROVE ApiTypeOK'
  BY <1>4, <1>a, <1>b DEF SendThrows, Respond, process
<1>5. ASSUME NEW r \in Requests, NEW body \in Bodies, Await(r, body) PROVE ApiTypeOK'
  <2>1. outbox' \in Seq(InFlight)
    BY <1>5, SendFacts DEF Await
  <2> QED BY <1>5, <1>a, <2>1 DEF Await, process
<1>6. ASSUME NEW r \in Requests, Settle(r) PROVE ApiTypeOK'
  BY <1>6 DEF Settle, Respond, process, received
<1>7. ASSUME NEW i \in 1 .. Len(outbox) PROVE /\ outbox[i].to \in Partitions
                                              /\ outbox[i].record \in Envelopes
                                              /\ outbox[i].record.from \in Requests
  <2>1. outbox[i] \in InFlight
    OBVIOUS
  <2> QED BY <2>1 DEF InFlight, Envelopes
<1>8. ASSUME NEW i \in 1 .. Len(outbox), Deliver(i) PROVE ApiTypeOK'
  <2>1. outbox' \in Seq(InFlight)
    BY <1>8, OutboxAfter DEF Deliver
  <2>2. log' \in [Partitions -> Seq(Envelopes)]
    BY <1>7, <1>8, AppendKeepsRecords DEF Deliver
  <2> QED BY <1>7, <1>8, <2>1, <2>2 DEF Deliver, AppendTo, process, received
<1>9. ASSUME NEW i \in 1 .. Len(outbox), Written(i) PROVE ApiTypeOK'
  BY <1>7, <1>9 DEF Written, process, received
<1>10. ASSUME NEW i \in 1 .. Len(outbox), Retry(i) PROVE ApiTypeOK'
  <2>1. outbox' \in Seq(InFlight)
    BY <1>10, OutboxAfter DEF Retry
  <2> QED BY <1>10, <1>b, <2>1 DEF Retry, process, received
<1>11. ASSUME NEW i \in 1 .. Len(outbox), AppendUnacked(i) PROVE ApiTypeOK'
  <2>1. outbox' \in Seq(InFlight)
    BY <1>11, OutboxAfter DEF AppendUnacked
  <2>2. log' \in [Partitions -> Seq(Envelopes)]
    BY <1>7, <1>11, AppendKeepsRecords DEF AppendUnacked
  <2> QED BY <1>11, <1>b, <2>1, <2>2 DEF AppendUnacked, AppendTo, process, received
<1>12. ASSUME NEW i \in 1 .. Len(outbox), GiveUp(i) PROVE ApiTypeOK'
  <2>1. outbox' \in Seq(InFlight)
    BY <1>12, OutboxAfter DEF GiveUp
  <2> QED BY <1>7, <1>12, <1>b, <2>1 DEF GiveUp, process, received
<1>13. CASE ApiCrash
  <2>1. stage' \in [Requests -> {"unsent", "awaiting", "answered"}]
    BY <1>13 DEF ApiCrash
  <2>2. outbox' \in Seq(InFlight)
    BY <1>13 DEF ApiCrash
  <2> QED BY <1>13, <1>b, <2>1, <2>2 DEF ApiCrash, received
<1>14. CASE UNCHANGED apiVars
  BY <1>14 DEF apiVars, process, received
<1> QED BY <1>1, <1>2, <1>3, <1>4, <1>5, <1>6, <1>8, <1>9, <1>10, <1>11, <1>12, <1>13, <1>14
        DEF ApiNext, Transmit

\* The ingest-api's type invariant, on every track.
THEOREM ApiTypeCorrect == ApiSpec => []ApiTypeOK
BY ApiInitTypeOK, ApiNextTypeOK, PTL DEF ApiSpec

-----------------------------------------------------------------------------
(* What is in flight and what is appended.                                  *)

LEMMA InFlightFacts ==
    ASSUME ApiTypeOK, NEW i \in 1 .. Len(outbox)
    PROVE  /\ outbox[i].to \in Partitions
           /\ outbox[i].record \in Envelopes
           /\ SenderOf(i) \in Requests
<1>1. outbox[i] \in InFlight
  BY DEF ApiTypeOK
<1> QED BY <1>1 DEF InFlight, Envelopes, SenderOf

\* An append gives its request one more offset, behind all there are.
LEMMA AppendLands ==
    ASSUME ApiTypeOK, NEW i \in 1 .. Len(outbox), AppendTo(outbox[i].to, outbox[i].record)
    PROVE  /\ \A r \in Requests, p \in Partitions :
                 /\ Landed(r, p) \subseteq Landed(r, p)'
                 /\ (r # SenderOf(i) \/ p # outbox[i].to) => Landed(r, p)' = Landed(r, p)
                 /\ Landed(r, p) \subseteq 0 .. Len(log[p]) - 1
                 /\ \A o \in Landed(r, p)' : o \in Landed(r, p) \/ o = Len(log[p])
           /\ \A r \in Requests : r = SenderOf(i) => HasLanded(r)'
           /\ Published' = Published \cup {outbox[i].record}
<1>1. PICK q \in Partitions, rec \in Envelopes : q = outbox[i].to /\ rec = outbox[i].record
  BY InFlightFacts
<1>2. AppendTo(q, rec) /\ log \in [Partitions -> Seq(Envelopes)]
  BY <1>1 DEF ApiTypeOK, LogTypeOK
<1>3. /\ \A p \in Partitions : \A o \in Offset(p) :
            o \in Offset(p)' /\ RecordAt(p, o)' = RecordAt(p, o)
      /\ Published' = Published \cup {rec}
  BY <1>2, AppendKeepsRecords DEF ApiTypeOK
<1>4. /\ \A p \in Partitions : p # q => log'[p] = log[p]
      /\ Len(log[q]) \in Nat /\ Len(log'[q]) = Len(log[q]) + 1
      /\ log'[q][Len(log[q]) + 1] = rec
  BY <1>2 DEF AppendTo
<1>5. ASSUME NEW p \in Partitions, NEW o \in Offset(p)', o \notin Offset(p)
      PROVE  p = q /\ o = Len(log[p]) /\ RecordAt(p, o)' = rec
  BY <1>4, <1>5 DEF Offset, RecordAt
<1>6. ASSUME NEW r \in Requests, NEW p \in Partitions
      PROVE  /\ Landed(r, p) \subseteq Landed(r, p)'
             /\ (r # SenderOf(i) \/ p # outbox[i].to) => Landed(r, p)' = Landed(r, p)
             /\ Landed(r, p) \subseteq 0 .. Len(log[p]) - 1
             /\ \A o \in Landed(r, p)' : o \in Landed(r, p) \/ o = Len(log[p])
  <2>1. Landed(r, p) \subseteq Landed(r, p)'
    BY <1>3 DEF Landed
  <2>2. ASSUME NEW o \in Landed(r, p)', o \notin Landed(r, p)
        PROVE  p = q /\ o = Len(log[p]) /\ rec.from = r
    <3>1. o \in Offset(p)' /\ RecordAt(p, o)'.from = r
      BY <2>2 DEF Landed
    <3>2. o \notin Offset(p)
      BY <2>2, <3>1, <1>3 DEF Landed
    <3> QED BY <3>1, <3>2, <1>5
  <2>3. Landed(r, p) \subseteq 0 .. Len(log[p]) - 1
    BY DEF Landed, Offset
  <2> QED BY <1>1, <2>1, <2>2, <2>3 DEF SenderOf
<1>7. ASSUME NEW r \in Requests, r = SenderOf(i) PROVE HasLanded(r)'
  <2>1. PICK n \in Nat : n = Len(log[q])
    BY <1>4
  <2>2. n \in Offset(q)' /\ RecordAt(q, n)' = rec
    BY <2>1, <1>4 DEF Offset, RecordAt
  <2>3. rec.from = r
    BY <1>1, <1>7 DEF SenderOf
  <2>4. n \in Landed(r, q)'
    BY <2>2, <2>3 DEF Landed
  <2> QED BY <2>4 DEF HasLanded
<1> QED BY <1>1, <1>3, <1>6, <1>7

LEMMA TrackStays == [ApiNext]_apiVars => track' = track
BY DEF ApiNext, Start, Reject, Fire, SendThrows, Await, Settle, Transmit, Deliver, Written,
   Retry, AppendUnacked, GiveUp, ApiCrash, process, apiVars

\* The topic changes only by an append of a record in flight.
LEMMA LogSteps ==
    [ApiNext]_apiVars => \/ log' = log
                   \/ \E i \in 1 .. Len(outbox) : AppendTo(outbox[i].to, outbox[i].record)
BY DEF ApiNext, Start, Reject, Fire, SendThrows, Await, Settle, Transmit, Deliver, Written,
   Retry, AppendUnacked, GiveUp, ApiCrash, apiVars

LEMMA LandedGrows ==
    ASSUME ApiTypeOK, [ApiNext]_apiVars, NEW r \in Requests, HasLanded(r)
    PROVE  HasLanded(r)'
<1>1. PICK p \in Partitions : Landed(r, p) # {}
  BY DEF HasLanded
<1>2. CASE log' = log
  BY <1>2 DEF HasLanded, Landed, Offset, RecordAt
<1>3. CASE \E i \in 1 .. Len(outbox) : AppendTo(outbox[i].to, outbox[i].record)
  <2>1. Landed(r, p) \subseteq Landed(r, p)'
    BY <1>3, AppendLands
  <2> QED BY <1>1, <2>1 DEF HasLanded
<1> QED BY <1>2, <1>3, LogSteps

-----------------------------------------------------------------------------
(* The awaited append.                                                      *)

ConfirmInv == ApiTypeOK /\ DoneHasLanded /\ ConfirmedIsAppended

LEMMA NextConfirmInv == ConfirmInv /\ [ApiNext]_apiVars => ConfirmInv'
<1> SUFFICES ASSUME ConfirmInv, [ApiNext]_apiVars, track = "csharp", NEW r \in Requests
             PROVE  /\ delivery'[r] = "done" => HasLanded(r)'
                    /\ answer'[r] = 202 => HasLanded(r)'
  BY ApiNextTypeOK, TrackStays DEF ConfirmInv, DoneHasLanded, ConfirmedIsAppended
<1>1. /\ delivery[r] = "done" => HasLanded(r)'
      /\ answer[r] = 202 => HasLanded(r)'
  BY LandedGrows DEF ConfirmInv, DoneHasLanded, ConfirmedIsAppended
<1>2. /\ delivery \in [Requests -> {"pending", "done", "failed"}]
      /\ answer \in [Requests -> {0, 202, 400, 500}]
  BY DEF ConfirmInv, ApiTypeOK
<1>3. ASSUME NEW i \in 1 .. Len(outbox), Deliver(i)
      PROVE  delivery'[r] = delivery[r] \/ HasLanded(r)'
  <2>1. /\ r = SenderOf(i) => HasLanded(r)'
        /\ SenderOf(i) = outbox[i].record.from
    BY <1>3, AppendLands DEF Deliver, ConfirmInv, SenderOf
  <2>2. CASE r = SenderOf(i)
    BY <2>1, <2>2
  <2>3. CASE r # SenderOf(i)
    BY <2>1, <2>3, <1>2, <1>3 DEF Deliver
  <2> QED BY <2>2, <2>3
<1>4. ASSUME NEW i \in 1 .. Len(outbox), GiveUp(i)
      PROVE  delivery'[r] = delivery[r] \/ delivery'[r] = "failed"
  BY <1>2, <1>4 DEF GiveUp
<1>5. delivery'[r] = delivery[r] \/ delivery'[r] = "failed" \/ HasLanded(r)'
  BY <1>3, <1>4 DEF ApiNext, Start, Reject, Fire, SendThrows, Await, Settle, Transmit, Written,
     Retry, AppendUnacked, ApiCrash, apiVars
<1>6. answer'[r] = 202 => answer[r] = 202 \/ delivery[r] = "done"
  <2>1. ASSUME NEW s \in Requests, Settle(s)
        PROVE  answer'[r] = 202 => answer[r] = 202 \/ delivery[r] = "done"
    BY <1>2, <2>1 DEF Settle, Respond
  <2>2. ASSUME NEW s \in Requests, NEW body \in Bodies, Reject(s, body) \/ SendThrows(s, body)
        PROVE  answer'[r] = 202 => answer[r] = 202
    BY <1>2, <2>2 DEF Reject, SendThrows, Respond
  <2>3. ASSUME NEW s \in Requests, NEW body \in Bodies, Fire(s, body) PROVE FALSE
    BY <2>3 DEF Fire, AnswersAtOnce
  <2> QED BY <2>1, <2>2, <2>3 DEF ApiNext, Start, Await, Transmit, Deliver, Written, Retry,
             AppendUnacked, GiveUp, ApiCrash, apiVars
<1> QED BY <1>1, <1>5, <1>6 DEF ConfirmInv, DoneHasLanded

\* On the track that awaits the delivery report, every click answered with 202
\* is in the topic, whatever the producer retried or gave up and whenever the
\* process died.
THEOREM ConfirmedStaysAppended == ApiSpec => []ConfirmedIsAppended
<1>1. ApiInit => ConfirmInv
  BY ApiInitTypeOK DEF ApiInit, ConfirmInv, DoneHasLanded, ConfirmedIsAppended
<1>2. ConfirmInv => ConfirmedIsAppended
  BY DEF ConfirmInv
<1> QED BY <1>1, <1>2, NextConfirmInv, PTL DEF ApiSpec

-----------------------------------------------------------------------------
(* Ids and keys.                                                            *)

RecordInv == ApiTypeOK /\ IdsAreSound /\ AdsAreNamed

\* A record is one of before, or the one a request builds that was just
\* received and passed the validation.
LEMMA NextRecords ==
    ASSUME ApiTypeOK, [ApiNext]_apiVars, NEW e \in Records'
    PROVE  \/ e \in Records
           \/ \E r \in Requests, body \in Bodies : /\ e = EnvelopeOf(r, body)
                                                   /\ Receive(r, body)
                                                   /\ body.ad \notin Refused
                                                   /\ stage'[r] # "unsent"
                                                   /\ asked'[r] = body
<1>1. ASSUME NEW r \in Requests, NEW body \in Bodies, Fire(r, body) \/ Await(r, body)
      PROVE  e \in Records \/ (/\ e = EnvelopeOf(r, body)
                               /\ Receive(r, body)
                               /\ body.ad \notin Refused
                               /\ stage'[r] # "unsent" /\ asked'[r] = body)
  <2>6. stage'[r] # "unsent" /\ asked'[r] = body
    BY <1>1 DEF Fire, Await, Respond, Receive, ApiTypeOK
  <2>1. Receive(r, body) /\ Send(r, body) /\ body.ad \notin Refused /\ log' = log
    BY <1>1 DEF Fire, Await
  <2>2. Published' = Published
    BY <2>1 DEF Published, RecordAt, Offset
  <2>5. PICK p \in Routes(body.ad) :
           /\ Len(outbox') = Len(outbox) + 1 /\ Len(outbox) \in Nat
           /\ \A k \in 1 .. Len(outbox) : outbox'[k] = outbox[k]
           /\ outbox'[Len(outbox) + 1] = [record |-> EnvelopeOf(r, body), to |-> p]
    BY <2>1, SendFacts
  <2>3. CASE e \in Published
    BY <2>3 DEF Records
  <2>4. CASE e \notin Published
    <3>1. PICK j \in 1 .. Len(outbox') : e = outbox'[j].record
      BY <2>2, <2>4 DEF Records
    <3>2. CASE j \in 1 .. Len(outbox)
      BY <2>5, <3>1, <3>2 DEF Records
    <3>3. CASE j \notin 1 .. Len(outbox)
      <4>1. j = Len(outbox) + 1
        BY <2>5, <3>3
      <4> QED BY <2>1, <2>5, <2>6, <3>1, <4>1
    <3> QED BY <3>2, <3>3
  <2> QED BY <2>3, <2>4
<1>2. ASSUME NEW i \in 1 .. Len(outbox),
             outbox' = RemoveAt(outbox, i) \/ outbox' = Requeue(i),
             log' = log \/ AppendTo(outbox[i].to, outbox[i].record)
      PROVE  e \in Records
  <2>1. Published' \subseteq Published \cup {outbox[i].record}
    <3>1. CASE log' = log
      BY <3>1 DEF Published, RecordAt, Offset
    <3>2. CASE AppendTo(outbox[i].to, outbox[i].record)
      BY <3>2, AppendLands
    <3> QED BY <1>2, <3>1, <3>2
  <2>2. CASE e \in Published'
    BY <2>1, <2>2 DEF Records
  <2>3. CASE e \notin Published'
    <3>1. PICK j \in 1 .. Len(outbox') : e = outbox'[j].record
      BY <2>3 DEF Records
    <3>2. PICK k \in 1 .. Len(outbox) : outbox'[j] = outbox[k]
      BY <1>2, OutboxAfter DEF ApiTypeOK
    <3> QED BY <3>1, <3>2 DEF Records
  <2> QED BY <2>2, <2>3
<1>3. ASSUME log' = log, outbox' = outbox \/ outbox' = << >> PROVE e \in Records
  BY <1>3 DEF Records, Published, RecordAt, Offset
<1>4. ASSUME NEW i \in 1 .. Len(outbox),
             Deliver(i) \/ Retry(i) \/ AppendUnacked(i) \/ GiveUp(i)
      PROVE  e \in Records
  BY <1>2, <1>4 DEF Deliver, Retry, AppendUnacked, GiveUp
<1> QED BY <1>1, <1>3, <1>4 DEF ApiNext, Start, Reject, SendThrows, Settle, Transmit, Written,
           ApiCrash, apiVars

LEMMA InitRecords == ApiInit => Records = {}
<1> SUFFICES ASSUME ApiInit PROVE Records = {}
  OBVIOUS
<1>1. Len(outbox) = 0 /\ \A p \in Partitions : Len(log[p]) = 0
  BY DEF ApiInit, LogInit
<1> QED BY <1>1 DEF Records, Published, Offset

\* Every record was built for a request.
LEMMA RecordsFrom ==
    ASSUME ApiTypeOK, NEW e \in Records
    PROVE  e \in Envelopes /\ e.from \in Requests
<1>1. CASE e \in Published
  <2>1. PICK p \in Partitions : \E o \in Offset(p) : e = RecordAt(p, o)
    BY <1>1 DEF Published
  <2>2. PICK o \in Offset(p) : e = RecordAt(p, o)
    BY <2>1
  <2>3. log[p] \in Seq(Envelopes) /\ o + 1 \in 1 .. Len(log[p])
    BY DEF ApiTypeOK, LogTypeOK, Offset
  <2>4. e \in Envelopes
    BY <2>2, <2>3 DEF RecordAt
  <2> QED BY <2>4 DEF Envelopes
<1>2. CASE e \notin Published
  <2>1. PICK i \in 1 .. Len(outbox) : e = outbox[i].record
    BY <1>2 DEF Records
  <2>2. e \in Envelopes
    BY <2>1, InFlightFacts
  <2> QED BY <2>2 DEF Envelopes
<1> QED BY <1>1, <1>2

LEMMA NextRecordInv == RecordInv /\ [ApiNext]_apiVars => RecordInv'
<1> SUFFICES ASSUME RecordInv, [ApiNext]_apiVars, NEW e \in Records'
             PROVE  /\ e.click \in Requests => e.click = e.from
                    /\ track \in {"java", "csharp"} => e.click \notin {Empty, Space}
                    /\ track # "java" => e.ad \notin {Missing, Empty}
  BY ApiNextTypeOK, TrackStays DEF RecordInv, IdsAreSound, AdsAreNamed
<1>1. CASE e \in Records
  BY <1>1 DEF RecordInv, IdsAreSound, AdsAreNamed
<1>2. CASE e \notin Records
  <2>1. PICK r \in Requests, body \in Bodies :
           e = EnvelopeOf(r, body) /\ body.ad \notin Refused
    BY <1>2, NextRecords DEF RecordInv
  <2>2. e.click = ClickIdOf(r, body) /\ e.ad = body.ad /\ e.from = r
    BY <2>1 DEF EnvelopeOf
  <2>3. body.click \in Clicks \cup {Missing}
    BY DEF Bodies
  <2>4. e.click = r \/ (e.click = body.click /\ body.click \notin NotSupplied)
    BY <2>2 DEF ClickIdOf
  <2>5. track # "java" => e.ad \notin {Missing, Empty}
    BY <2>1, <2>2 DEF Refused
  <2>6. body.click \notin NotSupplied => body.click \in Clicks
    BY <2>3 DEF NotSupplied
  <2>7. track \in {"java", "csharp"} => {Empty, Space} \subseteq NotSupplied
    BY DEF NotSupplied
  <2> QED BY <2>2, <2>4, <2>5, <2>6, <2>7, IngestAssumption
<1> QED BY <1>1, <1>2

LEMMA RecordInvHolds == ApiSpec => []RecordInv
<1>1. ApiInit => RecordInv
  BY ApiInitTypeOK, InitRecords DEF RecordInv, IdsAreSound, AdsAreNamed
<1> QED BY <1>1, NextRecordInv, PTL DEF ApiSpec

\* No record without an ad is ever appended, but on the Java track.
THEOREM RecordsAlwaysNameAnAd == ApiSpec => []RecordsNameAnAd
<1>1. RecordInv => RecordsNameAnAd
  BY DEF RecordInv, AdsAreNamed, RecordsNameAnAd, Records
<1> QED BY <1>1, RecordInvHolds, PTL

\* On the Java and C# tracks two requests never share a click id that no client
\* chose.
THEOREM MintedIdsAreNeverShared == ApiSpec => []SharedIdsAreChosen
<1>1. RecordInv => SharedIdsAreChosen
  BY DEF RecordInv, IdsAreSound, SharedIdsAreChosen, Records
<1> QED BY <1>1, RecordInvHolds, PTL

-----------------------------------------------------------------------------
(* The order of the clicks of one ad.                                       *)

QueueInv ==
    /\ PrecedesIsPast
    /\ UnsentIsPending
    /\ KeyedInFlight
    /\ KeyedInLog
    /\ OneInFlight
    /\ InFlightIsAwaited
    /\ QueuedInOrder
    /\ NoneOvertaken
    /\ AcceptedInOrder

\* A request that was not sent before comes last, whatever its answer.
LEMMA ReceiveKeepsQueueInv ==
    ASSUME ApiTypeOK, QueueInv, NEW r \in Requests, NEW body \in Bodies, Receive(r, body),
           NEW x \in {"awaiting", "answered"}, stage' = [stage EXCEPT ![r] = x],
           UNCHANGED <<log, track, delivery>>,
           outbox' = outbox \/ (Send(r, body) /\ (track = "csharp" => x = "awaiting"))
    PROVE  QueueInv'
<1> USE DEF QueueInv
<1>1. /\ stage[r] = "unsent" /\ stage'[r] = x
      /\ asked'[r] = body
      /\ \A q \in Requests : q # r => stage'[q] = stage[q] /\ asked'[q] = asked[q]
      /\ \A q, s \in Requests : <<q, s>> \in precedes' =>
            <<q, s>> \in precedes \/ (s = r /\ stage[q] = "answered")
  BY DEF Receive, ApiTypeOK
<1>2. /\ \A i \in 1 .. Len(outbox) : SenderOf(i) # r /\ SenderOf(i) \in Requests
      /\ \A p \in Partitions : Landed(r, p) = {}
      /\ \A q \in Requests : <<r, q>> \notin precedes /\ <<q, r>> \notin precedes
      /\ \A q \in Requests, p \in Partitions : Landed(q, p)' = Landed(q, p)
  BY <1>1, InFlightFacts DEF KeyedInFlight, KeyedInLog, PrecedesIsPast, Landed, Offset, RecordAt
<1>3. ASSUME NEW q \in Requests, NEW s \in Requests, Before(q, s)'
      PROVE  q # r /\ (Before(q, s) \/ s = r)
  BY <1>1, <1>2, <1>3 DEF Before
\* What is in the outbox now: what was, and perhaps the new record at its end.
<1>4. ASSUME NEW j \in 1 .. Len(outbox')
      PROVE  /\ SenderOf(j)' \in Requests
             /\ \/ j \in 1 .. Len(outbox) /\ outbox'[j] = outbox[j] /\ SenderOf(j)' = SenderOf(j)
                   /\ SenderOf(j)' # r
                \/ /\ j = Len(outbox) + 1 /\ Len(outbox) \in Nat /\ SenderOf(j)' = r
                   /\ outbox'[j].to \in Routes(body.ad)
                   /\ track = "csharp" => x = "awaiting"
  <2>1. CASE outbox' = outbox
    BY <2>1, <1>2, <1>4 DEF SenderOf
  <2>2. CASE Send(r, body) /\ (track = "csharp" => x = "awaiting")
    <3>1. PICK p \in Routes(body.ad) :
             /\ Len(outbox') = Len(outbox) + 1 /\ Len(outbox) \in Nat
             /\ \A k \in 1 .. Len(outbox) : outbox'[k] = outbox[k]
             /\ outbox'[Len(outbox) + 1] = [record |-> EnvelopeOf(r, body), to |-> p]
      BY <2>2, SendFacts
    <3>2. CASE j \in 1 .. Len(outbox)
      BY <3>1, <3>2, <1>2 DEF SenderOf
    <3>3. CASE j \notin 1 .. Len(outbox)
      <4>1. j = Len(outbox) + 1
        BY <3>1, <3>3, <1>4
      <4>2. outbox'[j].record.from = r /\ outbox'[j].to = p
        BY <3>1, <4>1 DEF EnvelopeOf
      <4> QED BY <2>2, <3>1, <4>1, <4>2 DEF SenderOf
    <3> QED BY <3>2, <3>3
  <2> QED BY <2>1, <2>2
<1>5. PrecedesIsPast'
  BY <1>1, <1>2 DEF PrecedesIsPast
<1>6. UnsentIsPending'
  BY <1>1 DEF UnsentIsPending
<1>7. KeyedInFlight'
  <2> SUFFICES ASSUME NEW j \in 1 .. Len(outbox')
               PROVE  /\ stage'[SenderOf(j)'] # "unsent"
                      /\ asked'[SenderOf(j)'].ad # Missing =>
                            outbox'[j].to = PartitionOf[asked'[SenderOf(j)'].ad]
    BY DEF KeyedInFlight
  <2>1. CASE SenderOf(j)' = r
    BY <2>1, <1>1, <1>4 DEF Routes
  <2>2. CASE SenderOf(j)' # r
    BY <2>2, <1>1, <1>4 DEF KeyedInFlight
  <2> QED BY <2>1, <2>2
<1>8. KeyedInLog'
  BY <1>1, <1>2 DEF KeyedInLog
<1>9. OneInFlight'
  BY <1>4 DEF OneInFlight
<1>10. InFlightIsAwaited'
  <2> SUFFICES ASSUME track = "csharp", NEW j \in 1 .. Len(outbox')
               PROVE  stage'[SenderOf(j)'] = "awaiting" /\ delivery[SenderOf(j)'] = "pending"
    BY DEF InFlightIsAwaited
  <2>1. CASE SenderOf(j)' = r
    BY <2>1, <1>1, <1>4 DEF UnsentIsPending
  <2>2. CASE SenderOf(j)' # r
    BY <2>2, <1>1, <1>4 DEF InFlightIsAwaited
  <2> QED BY <2>1, <2>2
<1>11. QueuedInOrder'
  <2> SUFFICES ASSUME track # "typescript", NEW j \in 1 .. Len(outbox'), NEW k \in 1 .. Len(outbox'),
                      Before(SenderOf(j), SenderOf(k))'
               PROVE  j < k
    BY DEF QueuedInOrder
  <2>1. SenderOf(j)' # r /\ (Before(SenderOf(j)', SenderOf(k)') \/ SenderOf(k)' = r)
    <3>1. PICK q \in Requests, s \in Requests : q = SenderOf(j)' /\ s = SenderOf(k)'
      BY <1>4
    <3>2. Before(q, s)'
      BY <3>1 DEF Before
    <3> QED BY <3>1, <3>2, <1>3
  <2>2. j \in 1 .. Len(outbox) /\ SenderOf(j)' = SenderOf(j)
    BY <2>1, <1>4
  <2>3. CASE SenderOf(k)' = r
    BY <2>2, <2>3, <1>4
  <2>4. CASE SenderOf(k)' # r
    <3>1. k \in 1 .. Len(outbox) /\ SenderOf(k)' = SenderOf(k)
      BY <2>4, <1>4
    <3> QED BY <2>1, <2>2, <2>4, <3>1 DEF QueuedInOrder
  <2> QED BY <2>3, <2>4
<1>12. NoneOvertaken'
  <2> SUFFICES ASSUME track # "typescript", NEW q \in Requests, NEW s \in Requests,
                      Before(q, s)', HasLanded(s)', Queued(q)'
               PROVE  FALSE
    BY DEF NoneOvertaken
  <2>1. HasLanded(s)
    BY <1>2 DEF HasLanded
  <2>2. s # r
    BY <2>1, <1>2 DEF HasLanded
  <2>3. Before(q, s) /\ q # r
    BY <1>3, <2>2
  <2>4. Queued(q)
    BY <2>3, <1>4 DEF Queued, SenderOf
  <2> QED BY <2>1, <2>3, <2>4 DEF NoneOvertaken
<1>13. AcceptedInOrder'
  <2> SUFFICES ASSUME track # "typescript", NEW q \in Requests, NEW s \in Requests, Before(q, s)',
                      NEW p \in Partitions, NEW t \in Partitions, NEW o \in Landed(s, t)',
                      Landed(q, p)' # {}
               PROVE  p = t /\ \E earlier \in Landed(q, p)' : earlier < o
    BY DEF AcceptedInOrder, Before
  <2>1. Before(q, s)
    BY <1>2, <1>3
  <2> QED BY <2>1, <1>2 DEF AcceptedInOrder, Before
<1> QED BY <1>5, <1>6, <1>7, <1>8, <1>9, <1>10, <1>11, <1>12, <1>13

\* The producer appends, retries or gives up one record of the outbox.
LEMMA TransmitKeepsQueueInv ==
    ASSUME ApiTypeOK, QueueInv, NEW i \in 1 .. Len(outbox),
           outbox' = RemoveAt(outbox, i) \/ (outbox' = Requeue(i) /\ delivery' = delivery),
           \A r \in Requests : r # SenderOf(i) => delivery'[r] = delivery[r],
           UNCHANGED <<track, stage, asked, precedes>>,
           log' = log \/ (Leads(i) /\ AppendTo(outbox[i].to, outbox[i].record))
    PROVE  QueueInv'
<1> USE DEF QueueInv
<1>1. \E old \in [1 .. Len(outbox') -> 1 .. Len(outbox)] :
         /\ \A j \in 1 .. Len(outbox') : outbox'[j] = outbox[old[j]]
         /\ \A j, k \in 1 .. Len(outbox') : old[j] = old[k] => j = k
         /\ outbox' = RemoveAt(outbox, i) => \A j \in 1 .. Len(outbox') : old[j] # i
         /\ outbox' = RemoveAt(outbox, i) \/ KeepsOrder =>
               \A j, k \in 1 .. Len(outbox') : old[j] < old[k] => j < k
  BY OutboxAfter DEF ApiTypeOK
<1>2. PICK old \in [1 .. Len(outbox') -> 1 .. Len(outbox)] :
         /\ \A j \in 1 .. Len(outbox') : outbox'[j] = outbox[old[j]]
         /\ \A j, k \in 1 .. Len(outbox') : old[j] = old[k] => j = k
         /\ outbox' = RemoveAt(outbox, i) => \A j \in 1 .. Len(outbox') : old[j] # i
         /\ outbox' = RemoveAt(outbox, i) \/ KeepsOrder =>
               \A j, k \in 1 .. Len(outbox') : old[j] < old[k] => j < k
  BY <1>1
<1>3. \A j \in 1 .. Len(outbox') : /\ old[j] \in 1 .. Len(outbox)
                                   /\ SenderOf(j)' = SenderOf(old[j])
                                   /\ SenderOf(j)' \in Requests
  BY <1>2, InFlightFacts DEF SenderOf
<1>4. SenderOf(i) \in Requests /\ outbox[i].to \in Partitions
  BY InFlightFacts
<1>5. \A q, s \in Requests : Before(q, s)' <=> Before(q, s)
  BY DEF Before
\* Only the request of the record may have landed anew, and behind the others.
<1>6. \A r \in Requests, p \in Partitions :
         /\ (r # SenderOf(i) \/ p # outbox[i].to) => Landed(r, p)' = Landed(r, p)
         /\ Landed(r, p) \subseteq Landed(r, p)'
         /\ Landed(r, p) \subseteq 0 .. Len(log[p]) - 1
         /\ \A o \in Landed(r, p)' : o \in Landed(r, p) \/ (o = Len(log[p]) /\ Leads(i))
  <2>1. CASE log' = log
    BY <2>1 DEF Landed, Offset, RecordAt
  <2>2. CASE Leads(i) /\ AppendTo(outbox[i].to, outbox[i].record)
    BY <2>2, AppendLands
  <2> QED BY <2>1, <2>2
<1>7. ASSUME NEW r \in Requests, HasLanded(r)', ~ HasLanded(r)
      PROVE  r = SenderOf(i) /\ Leads(i)
  BY <1>6, <1>7 DEF HasLanded
<1>8. PrecedesIsPast'
  BY DEF PrecedesIsPast
<1>9. UnsentIsPending'
  <2>1. stage[SenderOf(i)] # "unsent"
    BY DEF KeyedInFlight
  <2> QED BY <2>1 DEF UnsentIsPending
<1>10. KeyedInFlight'
  <2> SUFFICES ASSUME NEW j \in 1 .. Len(outbox')
               PROVE  /\ stage[SenderOf(j)'] # "unsent"
                      /\ asked[SenderOf(j)'].ad # Missing =>
                            outbox'[j].to = PartitionOf[asked[SenderOf(j)'].ad]
    BY DEF KeyedInFlight
  <2> QED BY <1>2, <1>3 DEF KeyedInFlight
<1>11. KeyedInLog'
  <2> SUFFICES ASSUME NEW r \in Requests, NEW p \in Partitions, Landed(r, p)' # {}
               PROVE  /\ stage[r] # "unsent"
                      /\ asked[r].ad # Missing => p = PartitionOf[asked[r].ad]
    BY DEF KeyedInLog
  <2>1. CASE r = SenderOf(i) /\ p = outbox[i].to
    BY <2>1 DEF KeyedInFlight
  <2>2. CASE r # SenderOf(i) \/ p # outbox[i].to
    BY <2>2, <1>6 DEF KeyedInLog
  <2> QED BY <2>1, <2>2
<1>12. OneInFlight'
  BY <1>2, <1>3 DEF OneInFlight
<1>13. InFlightIsAwaited'
  <2> SUFFICES ASSUME track = "csharp", NEW j \in 1 .. Len(outbox')
               PROVE  stage[SenderOf(j)'] = "awaiting" /\ delivery'[SenderOf(j)'] = "pending"
    BY DEF InFlightIsAwaited
  <2>1. stage[SenderOf(old[j])] = "awaiting" /\ delivery[SenderOf(old[j])] = "pending"
    BY <1>3 DEF InFlightIsAwaited
  <2>2. delivery' = delivery \/ SenderOf(old[j]) # SenderOf(i)
    BY <1>2, <1>3 DEF OneInFlight
  <2> QED BY <2>1, <2>2, <1>3
<1>14. QueuedInOrder'
  <2> SUFFICES ASSUME track # "typescript", NEW j \in 1 .. Len(outbox'), NEW k \in 1 .. Len(outbox'),
                      Before(SenderOf(j)', SenderOf(k)')
               PROVE  j < k
    BY <1>3, <1>5 DEF QueuedInOrder, Before
  <2>1. old[j] < old[k] /\ stage[SenderOf(old[j])] = "answered"
    BY <1>3 DEF QueuedInOrder, Before, PrecedesIsPast
  <2>2. track # "csharp"
    BY <2>1, <1>3 DEF InFlightIsAwaited
  <2>3. KeepsOrder
    BY <2>2, IngestAssumption DEF KeepsOrder, ApiTypeOK, AllTracks
  <2> QED BY <2>1, <2>3, <1>2
<1>15. NoneOvertaken'
  <2> SUFFICES ASSUME track # "typescript", NEW q \in Requests, NEW s \in Requests,
                      Before(q, s), HasLanded(s)', Queued(q)'
               PROVE  FALSE
    BY <1>5 DEF NoneOvertaken
  <2>1. PICK j \in 1 .. Len(outbox') : SenderOf(j)' = q
    BY DEF Queued, SenderOf
  <2>2. PICK k \in 1 .. Len(outbox) : SenderOf(k) = q
    BY <2>1, <1>3
  <2>3. Queued(q)
    BY <2>2 DEF Queued, SenderOf
  <2>4. ~ HasLanded(s)
    BY <2>3 DEF NoneOvertaken
  <2>5. s = SenderOf(i) /\ Leads(i)
    BY <2>4, <1>7
  <2>6. k < i
    BY <2>2, <2>5 DEF QueuedInOrder
  <2>7. outbox[k].to = outbox[i].to
    BY <2>2, <2>5 DEF KeyedInFlight, Before
  <2>8. k \in 1 .. i - 1
    BY <2>6
  <2> QED BY <2>5, <2>7, <2>8 DEF Leads
<1>16. AcceptedInOrder'
  <2> SUFFICES ASSUME track # "typescript", NEW q \in Requests, NEW s \in Requests, Before(q, s),
                      NEW p \in Partitions, NEW t \in Partitions, NEW o \in Landed(s, t)',
                      Landed(q, p)' # {}
               PROVE  p = t /\ \E earlier \in Landed(q, p)' : earlier < o
    BY DEF AcceptedInOrder, Before
  <2>1. p = t
    BY <1>11 DEF KeyedInLog, Before
  <2>2. q # s
    BY DEF Before, PrecedesIsPast
  <2>3. CASE o \in Landed(s, t)
    <3>1. ~ Queued(q)
      BY <2>3 DEF NoneOvertaken, HasLanded
    <3>2. q # SenderOf(i)
      BY <3>1 DEF Queued, SenderOf
    <3>3. Landed(q, p)' = Landed(q, p)
      BY <3>2, <1>6
    <3>4. \E earlier \in Landed(q, p) : earlier < o
      BY <2>3, <3>3 DEF AcceptedInOrder, Before
    <3> QED BY <2>1, <3>3, <3>4
  <2>4. CASE o \notin Landed(s, t)
    <3>1. o = Len(log[t]) /\ s = SenderOf(i)
      BY <2>4, <1>6
    <3>2. Landed(q, p)' = Landed(q, p) /\ Landed(q, p) \subseteq 0 .. Len(log[p]) - 1
      BY <2>2, <3>1, <1>6
    <3>3. Len(log[p]) \in Nat
      BY DEF ApiTypeOK, LogTypeOK
    <3> QED BY <2>1, <3>1, <3>2, <3>3
  <2> QED BY <2>3, <2>4
<1> QED BY <1>8, <1>9, <1>10, <1>11, <1>12, <1>13, <1>14, <1>15, <1>16

LEMMA NextQueueInv == ApiTypeOK /\ QueueInv /\ [ApiNext]_apiVars => QueueInv'
<1> SUFFICES ASSUME ApiTypeOK, QueueInv, [ApiNext]_apiVars PROVE QueueInv'
  OBVIOUS
<1>1. ASSUME NEW r \in Requests, NEW body \in Bodies,
             Reject(r, body) \/ Fire(r, body) \/ SendThrows(r, body) \/ Await(r, body)
      PROVE  QueueInv'
  <2>1. PICK x \in {"awaiting", "answered"} :
           /\ Receive(r, body)
           /\ stage' = [stage EXCEPT ![r] = x]
           /\ UNCHANGED <<log, track, delivery>>
           /\ outbox' = outbox \/ (Send(r, body) /\ (track = "csharp" => x = "awaiting"))
    BY <1>1 DEF Reject, Fire, SendThrows, Await, Respond, AnswersAtOnce, process
  <2> QED BY <2>1, ReceiveKeepsQueueInv
<1>2. ASSUME NEW i \in 1 .. Len(outbox),
             Deliver(i) \/ Retry(i) \/ AppendUnacked(i) \/ GiveUp(i)
      PROVE  QueueInv'
  <2>1. /\ outbox' = RemoveAt(outbox, i) \/ (outbox' = Requeue(i) /\ delivery' = delivery)
        /\ UNCHANGED <<track, stage, asked, precedes>>
        /\ log' = log \/ (Leads(i) /\ AppendTo(outbox[i].to, outbox[i].record))
    BY <1>2 DEF Deliver, Retry, AppendUnacked, GiveUp, process, received
  <2>2. \A r \in Requests : r # SenderOf(i) => delivery'[r] = delivery[r]
    BY <1>2 DEF Deliver, Retry, AppendUnacked, GiveUp, SenderOf, ApiTypeOK
  <2> QED BY <2>1, <2>2, TransmitKeepsQueueInv
<1> USE DEF QueueInv
<1>3. ASSUME UNCHANGED <<log, outbox, track, asked, precedes>>,
             \A r \in Requests : /\ stage[r] = "unsent" <=> stage'[r] = "unsent"
                                 /\ stage[r] = "answered" => stage'[r] = "answered"
                                 /\ stage[r] = "unsent" => delivery'[r] = delivery[r],
             track = "csharp" => \A i \in 1 .. Len(outbox) :
                 /\ stage'[SenderOf(i)] = stage[SenderOf(i)]
                 /\ delivery'[SenderOf(i)] = delivery[SenderOf(i)]
      PROVE  QueueInv'
  <2>1. /\ \A r \in Requests, p \in Partitions : Landed(r, p)' = Landed(r, p)
        /\ \A r, s \in Requests : Before(r, s)' = Before(r, s)
        /\ \A r \in Requests : Queued(r)' = Queued(r) /\ HasLanded(r)' = HasLanded(r)
        /\ \A i \in 1 .. Len(outbox) : SenderOf(i)' = SenderOf(i) /\ SenderOf(i) \in Requests
    BY <1>3, InFlightFacts DEF Landed, Offset, RecordAt, HasLanded, Queued, Before, SenderOf
  <2>2. PrecedesIsPast' /\ UnsentIsPending'
    BY <1>3 DEF PrecedesIsPast, UnsentIsPending
  <2>3. KeyedInFlight' /\ OneInFlight'
    BY <1>3, <2>1 DEF KeyedInFlight, OneInFlight
  <2>4. KeyedInLog'
    BY <1>3, <2>1 DEF KeyedInLog
  <2>5. InFlightIsAwaited'
    BY <1>3, <2>1 DEF InFlightIsAwaited
  <2>6. QueuedInOrder'
    BY <1>3 DEF QueuedInOrder, Before, SenderOf
  <2>7. NoneOvertaken'
    BY <1>3, <2>1 DEF NoneOvertaken
  <2>8. AcceptedInOrder'
    BY <1>3, <2>1 DEF AcceptedInOrder
  <2> QED BY <2>2, <2>3, <2>4, <2>5, <2>6, <2>7, <2>8
<1>4. CASE Start \/ UNCHANGED apiVars
  BY <1>3, <1>4 DEF Start, apiVars, received, process
<1>5. ASSUME NEW r \in Requests, Settle(r) PROVE QueueInv'
  <2>1. /\ UNCHANGED <<log, outbox, track, asked, precedes, delivery>>
        /\ stage' = [stage EXCEPT ![r] = "answered"]
        /\ stage[r] = "awaiting" /\ delivery[r] # "pending"
    BY <1>5 DEF Settle, Respond, process, received
  <2>2. stage \in [Requests -> {"unsent", "awaiting", "answered"}]
    BY DEF ApiTypeOK
  <2>3. track = "csharp" => \A i \in 1 .. Len(outbox) : SenderOf(i) # r /\ SenderOf(i) \in Requests
    BY <2>1, InFlightFacts DEF InFlightIsAwaited
  <2> QED BY <1>3, <2>1, <2>2, <2>3
<1>6. ASSUME NEW i \in 1 .. Len(outbox), Written(i) PROVE QueueInv'
  <2>1. /\ UNCHANGED <<log, outbox, track, asked, precedes, stage>>
        /\ delivery' = [delivery EXCEPT ![SenderOf(i)] = "done"]
        /\ track = "go"
    BY <1>6 DEF Written, process, received, SenderOf
  <2>2. stage[SenderOf(i)] # "unsent" /\ delivery \in [Requests -> {"pending", "done", "failed"}]
    BY DEF KeyedInFlight, ApiTypeOK
  <2>3. \A r \in Requests : stage[r] = "unsent" => delivery'[r] = delivery[r]
    BY <2>1, <2>2
  <2> QED BY <1>3, <2>1, <2>3
\* A process that dies takes its outbox along; the log stays.
<1>7. CASE ApiCrash
  <2>1. /\ UNCHANGED <<log, track, asked, precedes, delivery>> /\ outbox' = << >>
        /\ \A r \in Requests : /\ stage[r] = "unsent" <=> stage'[r] = "unsent"
                               /\ stage[r] = "answered" => stage'[r] = "answered"
    BY <1>7 DEF ApiCrash, received
  <2>2. Len(outbox') = 0
    BY <2>1
  <2>3. /\ \A r \in Requests, p \in Partitions : Landed(r, p)' = Landed(r, p)
        /\ \A r \in Requests : ~ Queued(r)'
    BY <2>1, <2>2 DEF Landed, Offset, RecordAt, Queued
  <2>4. PrecedesIsPast' /\ UnsentIsPending'
    BY <2>1 DEF PrecedesIsPast, UnsentIsPending
  <2>5. KeyedInFlight' /\ OneInFlight' /\ InFlightIsAwaited' /\ QueuedInOrder'
    BY <2>2 DEF KeyedInFlight, OneInFlight, InFlightIsAwaited, QueuedInOrder
  <2>6. KeyedInLog' /\ NoneOvertaken' /\ AcceptedInOrder'
    BY <2>1, <2>3 DEF KeyedInLog, NoneOvertaken, AcceptedInOrder
  <2> QED BY <2>4, <2>5, <2>6
<1> QED BY <1>1, <1>2, <1>4, <1>5, <1>6, <1>7 DEF ApiNext, Transmit

LEMMA InitQueueInv == ApiInit => QueueInv
<1> SUFFICES ASSUME ApiInit PROVE QueueInv
  OBVIOUS
<1>1. /\ precedes = {} /\ Len(outbox) = 0 /\ \A r \in Requests : delivery[r] = "pending"
      /\ \A p \in Partitions : Len(log[p]) = 0
  BY DEF ApiInit, LogInit
<1>2. \A r \in Requests, p \in Partitions : Landed(r, p) = {}
  BY <1>1 DEF Landed, Offset
<1> QED BY <1>1, <1>2 DEF QueueInv, PrecedesIsPast, UnsentIsPending, KeyedInFlight, KeyedInLog,
        OneInFlight, InFlightIsAwaited, QueuedInOrder, NoneOvertaken, AcceptedInOrder, Before

\* Clicks of one ad, each sent when the one before it had been answered, stand
\* in that order in one partition, through retries, duplicates, records given
\* up and crashes; on every track but the TypeScript one.
THEOREM AcceptedStayInOrder == ApiSpec => []AcceptedInOrder
<1>1. QueueInv => AcceptedInOrder
  BY DEF QueueInv
<1> QED BY <1>1, InitQueueInv, ApiInitTypeOK, ApiNextTypeOK, NextQueueInv, PTL DEF ApiSpec

-----------------------------------------------------------------------------
(* Keys in flight.                                                          *)

\* What is in flight was in flight before, or was sent in this step.
LEMMA NextInFlight ==
    ASSUME ApiTypeOK, [ApiNext]_apiVars, NEW j \in 1 .. Len(outbox')
    PROVE  \/ \E k \in 1 .. Len(outbox) : outbox'[j] = outbox[k]
           \/ \E r \in Requests, body \in Bodies : \E p \in Routes(body.ad) :
                 /\ outbox'[j] = [record |-> EnvelopeOf(r, body), to |-> p]
                 /\ stage[r] = "unsent"
<1>1. ASSUME NEW r \in Requests, NEW body \in Bodies, Fire(r, body) \/ Await(r, body)
      PROVE  \/ \E k \in 1 .. Len(outbox) : outbox'[j] = outbox[k]
             \/ \E p \in Routes(body.ad) :
                   /\ outbox'[j] = [record |-> EnvelopeOf(r, body), to |-> p]
                   /\ stage[r] = "unsent"
  <2>1. Receive(r, body) /\ Send(r, body) /\ stage[r] = "unsent"
    BY <1>1 DEF Fire, Await, Receive
  <2>2. PICK p \in Routes(body.ad) :
           /\ Len(outbox') = Len(outbox) + 1 /\ Len(outbox) \in Nat
           /\ \A k \in 1 .. Len(outbox) : outbox'[k] = outbox[k]
           /\ outbox'[Len(outbox) + 1] = [record |-> EnvelopeOf(r, body), to |-> p]
    BY <2>1, SendFacts
  <2>3. j \in 1 .. Len(outbox) \/ j = Len(outbox) + 1
    BY <2>2
  <2> QED BY <2>1, <2>2, <2>3
<1>2. ASSUME NEW i \in 1 .. Len(outbox),
             Deliver(i) \/ Retry(i) \/ AppendUnacked(i) \/ GiveUp(i)
      PROVE  \E k \in 1 .. Len(outbox) : outbox'[j] = outbox[k]
  <2>1. outbox' = RemoveAt(outbox, i) \/ outbox' = Requeue(i)
    BY <1>2 DEF Deliver, Retry, AppendUnacked, GiveUp
  <2>2. outbox \in Seq(InFlight)
    BY DEF ApiTypeOK
  <2> QED BY <2>1, <2>2, OutboxAfter
<1>3. ASSUME outbox' = outbox \/ outbox' = << >>
      PROVE  \E k \in 1 .. Len(outbox) : outbox'[j] = outbox[k]
  BY <1>3
<1> QED BY <1>1, <1>2, <1>3 DEF ApiNext, Start, Reject, SendThrows, Settle, Transmit, Written,
           ApiCrash, apiVars

\* What was taken out of the queue has no other record there.
LEMMA LeavesQueue ==
    ASSUME ApiTypeOK, OneInFlight, NEW i \in 1 .. Len(outbox), outbox' = RemoveAt(outbox, i),
           NEW r \in Requests, r = SenderOf(i)
    PROVE  ~ Queued(r)'
<1> SUFFICES ASSUME NEW j \in 1 .. Len(outbox'), outbox'[j].record.from = r
             PROVE  FALSE
  BY DEF Queued
<1>1. PICK k \in 1 .. Len(outbox) : outbox'[j] = outbox[k] /\ k # i
  BY OutboxAfter DEF ApiTypeOK
<1> QED BY <1>1 DEF OneInFlight, SenderOf

LEMMA InitFollowsKey == ApiInit => FollowsKey
BY DEF ApiInit, FollowsKey

LEMMA NextFollowsKey ==
    ASSUME ApiTypeOK, FollowsKey, [ApiNext]_apiVars
    PROVE  FollowsKey'
<1> SUFFICES ASSUME NEW j \in 1 .. Len(outbox'), outbox'[j].record.ad # Missing
             PROVE  outbox'[j].to = PartitionOf[outbox'[j].record.ad]
  BY DEF FollowsKey
<1>1. CASE \E k \in 1 .. Len(outbox) : outbox'[j] = outbox[k]
  BY <1>1 DEF FollowsKey
<1>2. ASSUME NEW r \in Requests, NEW body \in Bodies, NEW p \in Routes(body.ad),
             outbox'[j] = [record |-> EnvelopeOf(r, body), to |-> p]
      PROVE  outbox'[j].to = PartitionOf[outbox'[j].record.ad]
  <2>1. outbox'[j].record.ad = body.ad /\ outbox'[j].to = p
    BY <1>2 DEF EnvelopeOf
  <2> QED BY <2>1 DEF Routes
<1> QED BY <1>1, <1>2, NextInFlight

\* A record in flight stands for the partition its ad hashes to.
LEMMA FollowsKeyHolds == ApiSpec => []FollowsKey
BY ApiInitTypeOK, ApiNextTypeOK, InitFollowsKey, NextFollowsKey, PTL DEF ApiSpec

-----------------------------------------------------------------------------
(* Stamps.                                                                  *)

StampInv == NobodyWaits /\ StampsArePast /\ StampsFollowRequests

\* What was received stays received, in the same words; the clock does not run
\* backwards and the past does not change.
LEMMA ReceivedStays ==
    ASSUME ApiTypeOK, [ApiNext]_apiVars
    PROVE  /\ \A r \in Requests : stage[r] # "unsent" =>
                 stage'[r] # "unsent" /\ asked'[r] = asked[r]
           /\ now' \in Nat /\ now <= now'
           /\ precedes \subseteq precedes'
<1>a. /\ stage \in [Requests -> {"unsent", "awaiting", "answered"}]
      /\ asked \in [Requests -> Bodies \cup {Missing}]
      /\ now \in Nat
  BY DEF ApiTypeOK
<1> DEFINE Goal == /\ \A r \in Requests : stage[r] # "unsent" =>
                         stage'[r] # "unsent" /\ asked'[r] = asked[r]
                   /\ now' \in Nat /\ now <= now'
                   /\ precedes \subseteq precedes'
<1>1. ASSUME NEW s \in Requests, NEW body \in Bodies,
             Reject(s, body) \/ Fire(s, body) \/ SendThrows(s, body) \/ Await(s, body)
      PROVE  Goal
  <2>1. PICK x \in {"awaiting", "answered"} :
           Receive(s, body) /\ stage' = [stage EXCEPT ![s] = x]
    BY <1>1 DEF Reject, Fire, SendThrows, Await, Respond
  <2>2. /\ now' \in Stamps /\ now' >= now
        /\ asked' = [asked EXCEPT ![s] = body]
        /\ stage[s] = "unsent" /\ precedes \subseteq precedes'
    BY <2>1 DEF Receive
  <2>3. now' \in Nat /\ now <= now'
    BY <1>a, <2>2, IngestAssumption
  <2>4. \A r \in Requests : stage[r] # "unsent" =>
           stage'[r] # "unsent" /\ asked'[r] = asked[r]
    BY <1>a, <2>1, <2>2
  <2> QED BY <2>2, <2>3, <2>4
<1>2. ASSUME UNCHANGED received,
             \A r \in Requests : stage[r] # "unsent" => stage'[r] # "unsent"
      PROVE  Goal
  BY <1>a, <1>2 DEF received
<1>3. ASSUME NEW s \in Requests, Settle(s) PROVE Goal
  BY <1>a, <1>2, <1>3 DEF Settle, Respond
<1>4. CASE ApiCrash
  BY <1>a, <1>2, <1>4 DEF ApiCrash
<1>5. CASE UNCHANGED <<received, stage>>
  BY <1>2, <1>5
<1>6. CASE \/ Start \/ UNCHANGED apiVars
           \/ \E i \in 1 .. Len(outbox) :
                 Deliver(i) \/ Written(i) \/ Retry(i) \/ AppendUnacked(i) \/ GiveUp(i)
  BY <1>5, <1>6 DEF Start, apiVars, Deliver, Written, Retry, AppendUnacked, GiveUp
<1> QED BY <1>1, <1>3, <1>4, <1>6 DEF ApiNext, Transmit

\* A new stamp is younger than all there are, and on a track that answers at
\* once every request of theirs was answered before the new one was received.
LEMMA NextStampInv ==
    ASSUME ApiTypeOK, StampInv, [ApiNext]_apiVars
    PROVE  StampInv'
<1> DEFINE Kept(e) == e \in Records
           New(e, r, body) == /\ e = EnvelopeOf(r, body)
                              /\ Receive(r, body)
                              /\ stage'[r] # "unsent"
                              /\ asked'[r] = body
<1>a. /\ stage \in [Requests -> {"unsent", "awaiting", "answered"}]
      /\ stage' \in [Requests -> {"unsent", "awaiting", "answered"}]
      /\ now \in Nat /\ track' = track
      /\ Stamps \subseteq Nat
  BY ApiNextTypeOK, TrackStays, IngestAssumption DEF ApiTypeOK
<1>b. /\ \A r \in Requests : stage[r] # "unsent" =>
            stage'[r] # "unsent" /\ asked'[r] = asked[r]
      /\ now' \in Nat /\ now <= now'
      /\ precedes \subseteq precedes'
  BY ReceivedStays
<1>c. \A e \in Records : e.from \in Requests
  BY RecordsFrom
<1>d. ASSUME NEW e \in Records'
      PROVE  Kept(e) \/ \E r \in Requests, body \in Bodies : New(e, r, body)
  BY NextRecords
<1>e. ASSUME NEW e, Kept(e)
      PROVE  /\ stage[e.from] # "unsent" /\ stage'[e.from] # "unsent"
             /\ IsStamped(e.from)' <=> IsStamped(e.from)
             /\ IsStamped(e.from) => e.time \in Stamps /\ e.time <= now
  BY <1>b, <1>c, <1>e DEF StampInv, StampsArePast, IsStamped
<1>f. ASSUME NEW e, NEW r \in Requests, NEW body \in Bodies, New(e, r, body)
      PROVE  /\ e.from = r
             /\ IsStamped(r)' => e.time = now' /\ now' \in Stamps
  BY <1>f DEF EnvelopeOf, EventTime, IsStamped, Receive
<1>1. NobodyWaits'
  <2> SUFFICES ASSUME AnswersAtOnce, NEW r \in Requests PROVE stage'[r] # "awaiting"
    BY <1>a DEF NobodyWaits, AnswersAtOnce
  <2>1. stage[r] # "awaiting"
    BY DEF StampInv, NobodyWaits
  <2>2. ASSUME NEW s \in Requests, stage' = [stage EXCEPT ![s] = "answered"]
        PROVE  stage'[r] # "awaiting"
    BY <1>a, <2>1, <2>2
  <2>3. CASE ApiCrash
    BY <2>1, <2>3 DEF ApiCrash
  <2>4. CASE UNCHANGED stage
    BY <2>1, <2>4
  <2> QED BY <2>2, <2>3, <2>4 DEF ApiNext, Start, Reject, Fire, SendThrows, Await, Settle, Respond,
             Transmit, Deliver, Written, Retry, AppendUnacked, GiveUp, apiVars
<1>2. StampsArePast'
  <2> SUFFICES ASSUME NEW e \in Records'
               PROVE  /\ stage'[e.from] # "unsent"
                      /\ IsStamped(e.from)' => e.time \in Stamps /\ e.time <= now'
    BY DEF StampsArePast
  <2>1. CASE Kept(e)
    <3>1. IsStamped(e.from) => e.time \in Nat /\ e.time <= now
      BY <1>a, <1>e, <2>1
    <3> QED BY <1>a, <1>b, <1>e, <2>1, <3>1
  <2>2. ASSUME NEW r \in Requests, NEW body \in Bodies, New(e, r, body)
        PROVE  /\ stage'[e.from] # "unsent"
               /\ IsStamped(e.from)' => e.time \in Stamps /\ e.time <= now'
    BY <1>b, <1>f, <2>2
  <2> QED BY <1>d, <2>1, <2>2
<1>3. StampsFollowRequests'
  <2> SUFFICES ASSUME AnswersAtOnce, NEW e \in Records', NEW f \in Records',
                      IsStamped(e.from)', IsStamped(f.from)', e.time < f.time
               PROVE  <<e.from, f.from>> \in precedes'
    BY <1>a DEF StampsFollowRequests, AnswersAtOnce
  <2>1. CASE Kept(e) /\ Kept(f)
    BY <1>b, <1>e, <2>1 DEF StampInv, StampsFollowRequests
  <2>2. ASSUME Kept(e), NEW r \in Requests, NEW body \in Bodies, New(f, r, body)
        PROVE  <<e.from, f.from>> \in precedes'
    <3>1. stage[e.from] = "answered" /\ e.from \in Requests
      BY <1>a, <1>c, <1>e, <2>2 DEF StampInv, NobodyWaits
    <3> QED BY <1>f, <2>2, <3>1 DEF Receive
  <2>3. ASSUME NEW r \in Requests, NEW body \in Bodies, New(e, r, body), e.time < f.time
        PROVE  FALSE
    <3>1. e.time = now'
      BY <1>f, <2>3
    <3>2. f.time \in Nat /\ f.time <= now'
      BY <1>2, <1>a DEF StampsArePast
    <3> QED BY <1>b, <2>3, <3>1, <3>2
  <2> QED BY <1>d, <2>1, <2>2, <2>3
<1> QED BY <1>1, <1>2, <1>3 DEF StampInv

LEMMA InitStampInv == ApiInit => StampInv
<1> SUFFICES ASSUME ApiInit PROVE StampInv
  OBVIOUS
<1>1. Records = {}
  BY InitRecords
<1>2. \A r \in Requests : stage[r] = "unsent"
  BY DEF ApiInit
<1> QED BY <1>1, <1>2 DEF StampInv, NobodyWaits, StampsArePast, StampsFollowRequests

\* Where the handler answers at once, the stamps of the server follow the order
\* in which requests were answered and received, on every record there is.
LEMMA StampInvHolds == ApiSpec => []StampInv
BY ApiInitTypeOK, ApiNextTypeOK, InitStampInv, NextStampInv, PTL DEF ApiSpec

-----------------------------------------------------------------------------
(* Copies.                                                                  *)

\* The requests with a record of K in the topic, and none in the queue.
Done(K) == {r \in RequestsFor(K) : ~ Queued(r)}

\* A record of the topic stands for its request.
LEMMA CopiesFinite ==
    ASSUME ApiTypeOK, NEW K
    PROVE  /\ IsFiniteSet(CopiesWithin(K)) /\ Cardinality(CopiesWithin(K)) \in Nat
           /\ IsFiniteSet(RequestsFor(K)) /\ Cardinality(RequestsFor(K)) \in Nat
           /\ IsFiniteSet(Done(K)) /\ Cardinality(Done(K)) \in Nat
           /\ Cardinality(Done(K)) <= Cardinality(RequestsFor(K))
<1>1. IsFiniteSet(CopiesWithin(K)) /\ Cardinality(CopiesWithin(K)) \in Nat
  <2>1. CopiesWithin(K) \in SUBSET (UNION {{p} \X Offset(p) : p \in Partitions})
    BY DEF CopiesWithin
  <2>2. LogTypeOK(Envelopes)
    BY DEF ApiTypeOK
  <2> QED BY <2>1, <2>2, PlacesFinite
<1>2. IsFiniteSet(RequestsFor(K))
  <2> DEFINE request == [c \in CopiesWithin(K) |-> RecordAt(c[1], c[2]).from]
             named == {request[c] : c \in CopiesWithin(K)}
  <2>1. request \in Surjection(CopiesWithin(K), named)
    BY DEF Surjection
  <2>2. IsFiniteSet(named)
    BY <1>1, <2>1, FS_Surjection
  <2>3. ASSUME NEW r \in RequestsFor(K) PROVE r \in named
    <3>1. PICK p \in Partitions : \E o \in Landed(r, p) : RecordAt(p, o) \in K
      BY <2>3 DEF RequestsFor
    <3>2. PICK o \in Landed(r, p) : RecordAt(p, o) \in K
      BY <3>1
    <3>3. o \in Offset(p) /\ RecordAt(p, o).from = r
      BY DEF Landed
    <3>4. <<p, o>> \in {p} \X {n \in Offset(p) : RecordAt(p, n) \in K}
      BY <3>2, <3>3
    <3>5. <<p, o>> \in CopiesWithin(K)
      BY <3>4 DEF CopiesWithin
    <3>6. request[<<p, o>>] = r
      BY <3>3, <3>5
    <3> QED BY <3>5, <3>6
  <2> HIDE DEF named
  <2> QED BY <2>2, <2>3, FS_Subset
<1>3. Done(K) \in SUBSET RequestsFor(K)
  BY DEF Done
<1> QED BY <1>1, <1>2, <1>3, FS_Subset, FS_CardinalityType

LEMMA CopiesStayFinite ==
    ASSUME NEW K
    PROVE  ApiTypeOK' => (/\ Cardinality(CopiesWithin(K)) \in Nat
                          /\ IsFiniteSet(Done(K)) /\ Cardinality(Done(K)) \in Nat)'
<1>1. ApiTypeOK => /\ Cardinality(CopiesWithin(K)) \in Nat
                   /\ IsFiniteSet(Done(K)) /\ Cardinality(Done(K)) \in Nat
  BY CopiesFinite
<1> QED BY <1>1, PTL

\* What has landed stays, and is not queued again.
LEMMA DoneGrows ==
    ASSUME ApiTypeOK, QueueInv, [ApiNext]_apiVars, NEW K
    PROVE  Done(K) \subseteq Done(K)'
<1> SUFFICES ASSUME NEW r \in Done(K) PROVE r \in Done(K)'
  OBVIOUS
<1>1. r \in Requests /\ ~ Queued(r)
  BY DEF Done, RequestsFor
<1>2. PICK p \in Partitions : \E o \in Landed(r, p) : RecordAt(p, o) \in K
  BY DEF Done, RequestsFor
<1>3. PICK o \in Landed(r, p) : RecordAt(p, o) \in K
  BY <1>2
<1>4. o \in Offset(p)' /\ RecordAt(p, o)' = RecordAt(p, o) /\ RecordAt(p, o).from = r
  <2>1. o \in Offset(p) /\ RecordAt(p, o).from = r
    BY DEF Landed
  <2>2. CASE log' = log
    BY <2>1, <2>2 DEF Offset, RecordAt
  <2>3. ASSUME NEW i \in 1 .. Len(outbox), AppendTo(outbox[i].to, outbox[i].record)
        PROVE  o \in Offset(p)' /\ RecordAt(p, o)' = RecordAt(p, o)
    <3>1. outbox[i].to \in Partitions /\ outbox[i].record \in Envelopes /\ LogTypeOK(Envelopes)
      BY InFlightFacts DEF ApiTypeOK
    <3> QED BY <2>1, <2>3, <3>1, AppendKeepsRecords
  <2> QED BY <2>1, <2>2, <2>3, LogSteps
<1>5. r \in RequestsFor(K)'
  <2>1. o \in Landed(r, p)'
    BY <1>4 DEF Landed
  <2> QED BY <1>1, <1>3, <1>4, <2>1 DEF RequestsFor
<1>6. ~ Queued(r)'
  <2> SUFFICES ASSUME NEW j \in 1 .. Len(outbox'), outbox'[j].record.from = r
               PROVE  FALSE
    BY DEF Queued
  <2>1. stage[r] # "unsent"
    BY <1>1, <1>3 DEF QueueInv, KeyedInLog
  <2>2. CASE \E k \in 1 .. Len(outbox) : outbox'[j] = outbox[k]
    BY <1>1, <2>2 DEF Queued
  <2>3. ASSUME NEW s \in Requests, NEW body \in Bodies, NEW q \in Routes(body.ad),
               outbox'[j] = [record |-> EnvelopeOf(s, body), to |-> q], stage[s] = "unsent"
        PROVE  FALSE
    <3>1. outbox'[j].record.from = s
      BY <2>3 DEF EnvelopeOf
    <3> QED BY <2>1, <2>3, <3>1
  <2> QED BY <2>2, <2>3, NextInFlight
<1> QED BY <1>5, <1>6 DEF Done

\* An append adds one copy.
LEMMA AppendCopies ==
    ASSUME ApiTypeOK, NEW i \in 1 .. Len(outbox), AppendTo(outbox[i].to, outbox[i].record), NEW K
    PROVE  /\ Cardinality(CopiesWithin(K)') <= Cardinality(CopiesWithin(K)) + 1
           /\ outbox[i].record \notin K => CopiesWithin(K)' = CopiesWithin(K)
           /\ outbox[i].record \in K => SenderOf(i) \in RequestsFor(K)'
<1>1. PICK q \in Partitions, rec \in Envelopes : q = outbox[i].to /\ rec = outbox[i].record
  BY InFlightFacts
<1>2. AppendTo(q, rec) /\ LogTypeOK(Envelopes) /\ log \in [Partitions -> Seq(Envelopes)]
  BY <1>1 DEF ApiTypeOK, LogTypeOK
<1>3. \A p \in Partitions : \A o \in Offset(p) :
         o \in Offset(p)' /\ RecordAt(p, o)' = RecordAt(p, o)
  BY <1>2, AppendKeepsRecords
<1>4. PICK n \in Nat : n = Len(log[q])
  BY <1>2
<1>5. /\ \A p \in Partitions : p # q => log'[p] = log[p]
      /\ Len(log'[q]) = n + 1 /\ log'[q][n + 1] = rec
  BY <1>2, <1>4 DEF AppendTo
<1>6. ASSUME NEW p \in Partitions, NEW o \in Offset(p)', o \notin Offset(p)
      PROVE  p = q /\ o = n
  BY <1>4, <1>5, <1>6 DEF Offset
<1>7. n \in Offset(q)' /\ RecordAt(q, n)' = rec
  BY <1>4, <1>5 DEF Offset, RecordAt
<1>8. CopiesWithin(K)' \subseteq CopiesWithin(K) \cup {<<q, n>>}
  BY <1>3, <1>6 DEF CopiesWithin
<1>9. ASSUME rec \notin K PROVE CopiesWithin(K)' = CopiesWithin(K)
  <2>1. ASSUME NEW p \in Partitions, NEW o \in Offset(p)', RecordAt(p, o)' \in K
        PROVE  o \in Offset(p) /\ RecordAt(p, o) \in K
    BY <1>3, <1>6, <1>7, <1>9, <2>1
  <2>2. CopiesWithin(K)' \subseteq CopiesWithin(K)
    BY <2>1 DEF CopiesWithin
  <2>3. CopiesWithin(K) \subseteq CopiesWithin(K)'
    BY <1>3 DEF CopiesWithin
  <2> QED BY <2>2, <2>3
<1>10. Cardinality(CopiesWithin(K)') <= Cardinality(CopiesWithin(K)) + 1
  <2>1. IsFiniteSet(CopiesWithin(K)) /\ Cardinality(CopiesWithin(K)) \in Nat
    BY CopiesFinite
  <2>2. /\ IsFiniteSet(CopiesWithin(K) \cup {<<q, n>>})
        /\ Cardinality(CopiesWithin(K) \cup {<<q, n>>}) <= Cardinality(CopiesWithin(K)) + 1
        /\ Cardinality(CopiesWithin(K) \cup {<<q, n>>}) \in Nat
    <3>1. /\ IsFiniteSet(CopiesWithin(K) \cup {<<q, n>>})
          /\ \/ Cardinality(CopiesWithin(K) \cup {<<q, n>>}) = Cardinality(CopiesWithin(K))
             \/ Cardinality(CopiesWithin(K) \cup {<<q, n>>}) = Cardinality(CopiesWithin(K)) + 1
      BY <2>1, FS_AddElement, Zenon
    <3> QED BY <2>1, <3>1
  <2>3. /\ IsFiniteSet(CopiesWithin(K)') /\ Cardinality(CopiesWithin(K)') \in Nat
        /\ Cardinality(CopiesWithin(K)') <= Cardinality(CopiesWithin(K) \cup {<<q, n>>})
    BY <1>8, <2>2, FS_Subset, FS_CardinalityType
  <2> QED BY <2>1, <2>2, <2>3
<1>11. rec \in K => SenderOf(i) \in RequestsFor(K)'
  <2>1. PICK r \in Requests : r = SenderOf(i) /\ r = rec.from
    BY <1>1, InFlightFacts DEF SenderOf
  <2>2. n \in Landed(r, q)'
    BY <1>7, <2>1 DEF Landed
  <2> QED BY <1>7, <2>1, <2>2 DEF RequestsFor
<1> QED BY <1>1, <1>9, <1>10, <1>11

\* A copy comes with a request that leaves the queue, or with a failure.
LEMMA NextCopiesBounded ==
    ASSUME ApiTypeOK, QueueInv, [ApiNext]_apiVars, NEW K, CopiesBounded(K)
    PROVE  CopiesBounded(K)'
<1>a. Cardinality(CopiesWithin(K)) <= Cardinality(Done(K)) + failures
  BY DEF CopiesBounded, Done
<1>b. /\ Cardinality(CopiesWithin(K)) \in Nat /\ Cardinality(CopiesWithin(K)') \in Nat
      /\ IsFiniteSet(Done(K)) /\ Cardinality(Done(K)) \in Nat
      /\ IsFiniteSet(Done(K)') /\ Cardinality(Done(K)') \in Nat
      /\ failures \in Nat /\ failures' \in Nat
  <2>1. ApiTypeOK'
    BY ApiNextTypeOK
  <2>2. /\ Cardinality(CopiesWithin(K)') \in Nat
        /\ IsFiniteSet(Done(K)') /\ Cardinality(Done(K)') \in Nat
    BY <2>1, CopiesStayFinite
  <2> QED BY <2>1, <2>2, CopiesFinite DEF ApiTypeOK
<1>c. Done(K) \subseteq Done(K)'
  BY DoneGrows
<1>d. Cardinality(Done(K)) <= Cardinality(Done(K)')
  BY <1>b, <1>c, FS_Subset
<1> SUFFICES Cardinality(CopiesWithin(K)') <= Cardinality(Done(K)') + failures'
  BY DEF CopiesBounded, Done
<1>1. ASSUME NEW i \in 1 .. Len(outbox), Deliver(i)
      PROVE  Cardinality(CopiesWithin(K)') <= Cardinality(Done(K)') + failures'
  <2>1. /\ AppendTo(outbox[i].to, outbox[i].record)
        /\ outbox' = RemoveAt(outbox, i)
        /\ failures' = failures
    BY <1>1 DEF Deliver
  <2>2. CASE outbox[i].record \notin K
    BY <1>a, <1>b, <1>d, <2>1, <2>2, AppendCopies
  <2>3. CASE outbox[i].record \in K
    <3>0. PICK r \in Requests : r = SenderOf(i)
      BY InFlightFacts
    <3>1. /\ Cardinality(CopiesWithin(K)') <= Cardinality(CopiesWithin(K)) + 1
          /\ r \in RequestsFor(K)'
      BY <2>1, <2>3, <3>0, AppendCopies
    <3>2. r \notin Done(K)
      BY <3>0 DEF Done, Queued, SenderOf
    <3>3. ~ Queued(r)'
      BY <2>1, <3>0, LeavesQueue DEF QueueInv
    <3>4. r \in Done(K)'
      BY <3>1, <3>3 DEF Done
    <3>5. Cardinality(Done(K) \cup {r}) = Cardinality(Done(K)) + 1
      BY <1>b, <3>2, FS_AddElement
    <3>6. Cardinality(Done(K) \cup {r}) <= Cardinality(Done(K)')
      BY <1>b, <1>c, <3>4, FS_Subset
    <3> QED BY <1>a, <1>b, <2>1, <3>1, <3>5, <3>6
  <2> QED BY <2>2, <2>3
<1>2. ASSUME NEW i \in 1 .. Len(outbox), AppendUnacked(i)
      PROVE  Cardinality(CopiesWithin(K)') <= Cardinality(Done(K)') + failures'
  <2>1. AppendTo(outbox[i].to, outbox[i].record) /\ failures' = failures + 1
    BY <1>2 DEF AppendUnacked, Fail
  <2>2. Cardinality(CopiesWithin(K)') <= Cardinality(CopiesWithin(K)) + 1
    BY <2>1, AppendCopies
  <2> QED BY <1>a, <1>b, <1>d, <2>1, <2>2
<1>3. ASSUME log' = log, failures' = failures \/ failures' = failures + 1
      PROVE  Cardinality(CopiesWithin(K)') <= Cardinality(Done(K)') + failures'
  <2>1. CopiesWithin(K)' = CopiesWithin(K)
    BY <1>3 DEF CopiesWithin, Offset, RecordAt
  <2> QED BY <1>a, <1>b, <1>d, <1>3, <2>1
<1>4. \/ \E i \in 1 .. Len(outbox) : Deliver(i) \/ AppendUnacked(i)
      \/ log' = log /\ (failures' = failures \/ failures' = failures + 1)
  BY DEF ApiNext, Start, Reject, Fire, SendThrows, Await, Settle, Transmit, Written, Retry,
     GiveUp, ApiCrash, Fail, apiVars
<1> QED BY <1>1, <1>2, <1>3, <1>4

LEMMA InitCopiesBounded ==
    ASSUME ApiInit, NEW K PROVE CopiesBounded(K)
<1>1. \A p \in Partitions : Len(log[p]) = 0
  BY DEF ApiInit, LogInit
<1>2. CopiesWithin(K) = {}
  BY <1>1 DEF CopiesWithin, Offset
<1>3. Cardinality(Done(K)) \in Nat /\ failures = 0
  BY ApiInitTypeOK, CopiesFinite DEF ApiInit
<1> QED BY <1>2, <1>3, FS_EmptySet DEF CopiesBounded, Done

\* However often the producer retries and whatever it duplicates: the copies of
\* the records of K are no more than the requests that sent one and the
\* failures.
LEMMA CopiesBoundedFacts ==
    ASSUME ApiTypeOK, NEW K, CopiesBounded(K)
    PROVE  Cardinality(CopiesWithin(K)) <= Cardinality(RequestsFor(K)) + failures
<1>1. Cardinality(CopiesWithin(K)) <= Cardinality(Done(K)) + failures
  BY DEF CopiesBounded, Done
<1>2. failures \in Nat
  BY DEF ApiTypeOK
<1> QED BY <1>1, <1>2, CopiesFinite

LEMMA CopiesBoundedHolds == ApiSpec => [](\A K \in SUBSET Envelopes : CopiesBounded(K))
<1> DEFINE Inv == \A K \in SUBSET Envelopes : CopiesBounded(K)
<1>1. ApiInit => Inv
  BY InitCopiesBounded
<1>2. ApiTypeOK /\ QueueInv /\ Inv /\ [ApiNext]_apiVars => Inv'
  BY NextCopiesBounded
<1> QED BY <1>1, <1>2, ApiInitTypeOK, ApiNextTypeOK, InitQueueInv, NextQueueInv, PTL DEF ApiSpec

=============================================================================
