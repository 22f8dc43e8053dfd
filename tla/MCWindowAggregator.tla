------------------------- MODULE MCWindowAggregator -------------------------
(***************************************************************************)
(* Small instances of WindowAggregator: event times of two windows, ad ids *)
(* of one part and, where a run says so, ids that contain a "|": one that  *)
(* is followed by a date, in a spelling of its own, and one that is not.   *)
(***************************************************************************)
EXTENDS WindowAggregator, TLC

CONSTANTS p1, p2, ad1, ad2, us, date

OnePartition == {p1}
OneAd == {<<ad1>>}
PipedAd == {<<ad1>>, <<ad2, us>>}
AllAds == PipedAd \cup {<<ad1, date>>}
ToOne == [a \in Ads |-> p1]
OneWindow == [ad : Ads, time : {1}]
OneAdTwoWindows == [ad : {<<ad1>>}, time : {1, 2}] \cup OneWindow

\* Flushes differ in nothing but their names.
FlusherSymmetry == Permutations(Flushers)

\* The windows of the times above, as they are written in a key, and a date of
\* the first of them as a client may write it.
TwoDateTimes == [d \in {0, 2, date} |-> IF d = 2 THEN 2 ELSE 0]
=============================================================================
