---------------------------- MODULE ReviewedPages ----------------------------
(***************************************************************************)
(* What editorial approval and publication promise together, without       *)
(* attempts, publishers or providers: a page is shown as published only    *)
(* while its text is approved and was seen on the public site, and any     *)
(* change of the text takes both back at once.                             *)
(***************************************************************************)
EXTENDS Integers

CONSTANTS Pages, MaxText

VARIABLES
    text,       \* the current text of a page, 0 if it has none
    approved,   \* whether that text is approved
    shown,      \* whether the page is shown as published
    seen        \* texts seen on the public site

vars == <<text, approved, shown, seen>>

Init ==
    /\ text = [p \in Pages |-> 0]
    /\ approved = [p \in Pages |-> FALSE]
    /\ shown = [p \in Pages |-> FALSE]
    /\ seen = {}

Change(p) ==
    /\ \E t \in 1 .. MaxText : t # text[p] /\ text' = [text EXCEPT ![p] = t]
    /\ approved' = [approved EXCEPT ![p] = FALSE]
    /\ shown' = [shown EXCEPT ![p] = FALSE]
    /\ UNCHANGED seen

\* An approval, or its withdrawal: the page is to be published again.
Review(p, verdict) ==
    /\ verdict => text[p] # 0
    /\ approved' = [approved EXCEPT ![p] = verdict]
    /\ shown' = [shown EXCEPT ![p] = FALSE]
    /\ UNCHANGED <<text, seen>>

See(p, t) ==
    /\ seen' = seen \cup {<<p, t>>}
    /\ UNCHANGED <<text, approved, shown>>

Show(p) ==
    /\ approved[p] /\ <<p, text[p]>> \in seen
    /\ shown' = [shown EXCEPT ![p] = TRUE]
    /\ UNCHANGED <<text, approved, seen>>

Hide(p) ==
    /\ shown' = [shown EXCEPT ![p] = FALSE]
    /\ UNCHANGED <<text, approved, seen>>

Next ==
    \E p \in Pages :
        \/ Change(p) \/ Show(p) \/ Hide(p)
        \/ \E verdict \in BOOLEAN : Review(p, verdict)
        \/ \E t \in 1 .. MaxText : See(p, t)

Spec == Init /\ [][Next]_vars
=============================================================================
