--------------------------- MODULE ClickClassifier ---------------------------
(***************************************************************************)
(* What the processor of lesson 2 promises while it is up: each verdict    *)
(* follows from the verdicts of this life before it, and from nothing      *)
(* else.  There is no watermark here, and there are no counts to keep in   *)
(* step.  It may forget everything at once, never a part of it.            *)
(***************************************************************************)
EXTENDS Integers, Sequences, FiniteSets

CONSTANTS
    Clicks,          \* records with a window, which is one of an ip, and a time
    Tolerance,
    FraudThreshold

VARIABLES
    published,  \* the distinct clicks that were published
    verdicts    \* the clicks that were judged, with the verdict on each

vars == <<published, verdicts>>

Init == published = {} /\ verdicts = << >>

\* Some click before this one was newer by more than the tolerance.
IsStale(c) ==
    \E i \in 1 .. Len(verdicts) :
        /\ verdicts[i].click.time > 0
        /\ c.time < verdicts[i].click.time - Tolerance

\* The verdicts that use up the threshold of a window.
Charged(w) ==
    {i \in 1 .. Len(verdicts) : /\ verdicts[i].status # "late"
                                /\ verdicts[i].click.window = w}

VerdictOn(c) ==
    IF IsStale(c) THEN "late"
    ELSE IF Cardinality(Charged(c.window)) >= FraudThreshold THEN "fraud"
    ELSE "accepted"

Publish(c) ==
    /\ published' = published \cup {c}
    /\ UNCHANGED verdicts

Judge(c) ==
    /\ c \in published
    /\ verdicts' = Append(verdicts, [click |-> c, status |-> VerdictOn(c)])
    /\ UNCHANGED published

Forget ==
    /\ verdicts' = << >>
    /\ UNCHANGED published

Next == (\E c \in Clicks : Publish(c) \/ Judge(c)) \/ Forget

Spec == Init /\ [][Next]_vars
=============================================================================
