--------------------------- MODULE MCCountPipeline ---------------------------
(***************************************************************************)
(* Small instances of CountPipeline: two requests that may carry the same  *)
(* chosen click id, one ad or none, one partition.                         *)
(***************************************************************************)
EXTENDS CountPipeline

CONSTANTS p1, ad1, c1, r1, r2

OnePartition == {p1}
OneAd == {ad1}
OneClick == {c1}
TwoRequests == {r1, r2}
OneIp == {"ip"}
None == {}
OneStamp == {1}
ToOne == [a \in Ads |-> p1]
=============================================================================
