-------------------------- MODULE UniqueClickCount --------------------------
(***************************************************************************)
(* What a counting consumer promises while it is up: it counts a published *)
(* click at most once, whatever is sent or delivered twice, and rejects    *)
(* the repetitions.  It may forget everything at once (the store is in     *)
(* memory on purpose), never a part of it.                                 *)
(***************************************************************************)
EXTENDS Naturals

CONSTANTS Clicks, Ads

VARIABLES
    published,  \* the distinct envelopes that were published
    known,      \* the click ids that count already
    tally,      \* tally[a]: the clicks that count for ad a
    rejected    \* how many repetitions were rejected

vars == <<published, known, tally, rejected>>

Init ==
    /\ published = {}
    /\ known = {}
    /\ tally = [a \in Ads |-> 0]
    /\ rejected = 0

Publish(c, a) ==
    /\ published' = published \cup {[click |-> c, ad |-> a]}
    /\ UNCHANGED <<known, tally, rejected>>

Count(c, a) ==
    /\ [click |-> c, ad |-> a] \in published
    /\ c \notin known
    /\ known' = known \cup {c}
    /\ tally' = [tally EXCEPT ![a] = @ + 1]
    /\ UNCHANGED <<published, rejected>>

Reject(c, a) ==
    /\ [click |-> c, ad |-> a] \in published
    /\ c \in known
    /\ rejected' = rejected + 1
    /\ UNCHANGED <<published, known, tally>>

Forget ==
    /\ known' = {}
    /\ tally' = [a \in Ads |-> 0]
    /\ rejected' = 0
    /\ UNCHANGED published

Next ==
    \/ \E c \in Clicks, a \in Ads : Publish(c, a) \/ Count(c, a) \/ Reject(c, a)
    \/ Forget

Spec == Init /\ [][Next]_vars
=============================================================================
