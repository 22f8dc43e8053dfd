-------------------------- MODULE MCWindowPipeline --------------------------
(***************************************************************************)
(* A small instance of WindowPipeline: two requests for an ad id of one    *)
(* part or one that contains a "|", followed by a date or not.             *)
(***************************************************************************)
EXTENDS WindowPipeline

CONSTANTS p1, ad1, us, date, r1, r2

OnePartition == {p1}
AllAds == {<<ad1>>, <<ad1, us>>, <<ad1, date>>}
TwoRequests == {r1, r2}
OneIp == {"ip"}
None == {}
OneStamp == {1}
TypeScript == {"typescript"}
ReadRecords == {e \in Envelopes : e.ad \in Ads}
\* The window of the only stamp, as it is written in a key and as a client may
\* write it.
OneDateTime == [d \in {0, date} |-> 0]
ToOne == [a \in Ads |-> p1]
=============================================================================
