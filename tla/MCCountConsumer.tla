--------------------------- MODULE MCCountConsumer ---------------------------
(***************************************************************************)
(* Small instances of CountConsumer: two partitions, two ads that hash to  *)
(* different partitions, two click ids that every client may repeat.       *)
(***************************************************************************)
EXTENDS CountConsumer, TLC

CONSTANTS p1, p2, ad1, ad2, c1, c2

TwoPartitions == {p1, p2}
TwoAds == {ad1, ad2}
TwoClicks == {c1, c2}
\* The tracks "typescript" and "java" commit alike: one stands for both.
ThreeTracks == AllTracks \ {"typescript"}
OneEach == (ad1 :> p1) @@ (ad2 :> p2)
=============================================================================
