--------------------------- MODULE MCFraudPipeline ---------------------------
(***************************************************************************)
(* A small instance of FraudPipeline: two requests of two ips, stamped by   *)
(* a clock that reads 1 or 4, post-dated to 7, or with a time that is no   *)
(* date.  With a tolerance of 2 each of the three times makes the ones     *)
(* before it late.                                                         *)
(***************************************************************************)
EXTENDS FraudPipeline

CONSTANTS p1, ad1, r1, r2, bad

OnePartition == {p1}
OneAd == {ad1}
TwoRequests == {r1, r2}
TwoIps == {"ip1", "ip2"}
None == {}
TwoStamps == {1, 4}
PostDated == {7, bad}
Garbled == {bad}
TypeScript == {"typescript"}
ReadRecords == {e \in Envelopes : e.ad \in Ads}
ToOne == [a \in Ads |-> p1]
=============================================================================
