------------------------ MODULE MCWatermarkProcessor ------------------------
(***************************************************************************)
(* Small instances of WatermarkProcessor.  With minutes of length 4 and a  *)
(* tolerance of 2, the times 1 and 3 share a window and are not late after *)
(* each other, 5 is in the next window and makes 1 late but not 3.  The    *)
(* early times include 0, which as a watermark stands for "none seen", and *)
(* a time before it that would be late after any other newer one.          *)
(***************************************************************************)
EXTENDS WatermarkProcessor

CONSTANTS p1, p2, ad1, ad2, ip1, ip2, bad

OnePartition == {p1}
TwoPartitions == {p1, p2}
OneAd == {ad1}
TwoAds == {ad1, ad2}
ToOne == [a \in Ads |-> p1]
ToBoth == [a \in Ads |-> IF a = ad1 THEN p1 ELSE p2]
TwoTimes == [ad : Ads, ip : {ip1}, time : {1, 5}]
EarlyTimes == [ad : Ads, ip : {ip1}, time : {-3, 0, 2, bad}]
None == {}
Garbled == {bad}
=============================================================================
