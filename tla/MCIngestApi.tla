---------------------------- MODULE MCIngestApi ----------------------------
(***************************************************************************)
(* Small instances of IngestApi: a few requests whose bodies combine a     *)
(* chosen, a missing and a blank click id with a good and a bad ad id.     *)
(***************************************************************************)
EXTENDS IngestApi, TLC

CONSTANTS p1, p2, ad1, c1, r1, r2

TwoPartitions == {p1, p2}
OneAd == {ad1}
BlankAds == {ad1, Empty, Space}
OneClick == {c1}
BlankClicks == {c1, Empty, Space}
TwoRequests == {r1, r2}
OneIp == {"ip"}
None == {}
OneStamp == {1}
ToBoth == [a \in Ads |-> IF a = ad1 THEN p1 ELSE p2]
=============================================================================
