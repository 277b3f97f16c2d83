------------------------------ MODULE Transcoder ------------------------------
(***************************************************************************)
(* What a stream that converts a text through a codecvt facet promises,    *)
(* whatever buffers it uses: the output grows towards the conversion of    *)
(* the whole text, and only when all that can be converted has been        *)
(* written is the text accepted or rejected.                               *)
(***************************************************************************)
EXTENDS Integers, Sequences

CONSTANTS
    Texts,   \* the texts to convert
    Whole(_) \* Whole(t) = [units, ok]: the conversion of t up to its first
             \* unit in error, and whether there is none

VARIABLES src, out, verdict

vars == <<src, out, verdict>>

Init ==
    /\ src \in Texts
    /\ out = <<>>
    /\ verdict = "open"

Write ==
    /\ verdict = "open"
    /\ LET goal == Whole(src).units
       IN  \E n \in Len(out) + 1 .. Len(goal) : out' = SubSeq(goal, 1, n)
    /\ UNCHANGED <<src, verdict>>

Decide ==
    /\ verdict = "open"
    /\ out = Whole(src).units
    /\ verdict' = IF Whole(src).ok THEN "done" ELSE "bad"
    /\ UNCHANGED <<src, out>>

Next == Write \/ Decide

\* What a step may never do, and what must come about.
Safety == Init /\ [][Next]_vars
Spec == Safety /\ WF_vars(Next)
=============================================================================
