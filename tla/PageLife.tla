------------------------------ MODULE PageLife ------------------------------
(***************************************************************************)
(* What the agents of the pipeline, the reviews and the deployments promise*)
(* together about the pages of one tenant, without agents, rows, Director, *)
(* schedule or limits.  A page is planned, written, improved and sent; only*)
(* a person approves it, and only with its score; whatever changes its     *)
(* text takes approval and score back; a page once planned is never        *)
(* dropped, and the rewrites it had for its score are never forgotten.     *)
(***************************************************************************)
EXTENDS Naturals

CONSTANTS Pages, MaxRewrites

VARIABLE pages

Page == [at: {"none", "draft", "ready", "publishing", "published"},
         score: {"none", "low", "good"},
         approved: BOOLEAN,
         tries: 0..MaxRewrites]     \* rewrites for its score so far

NoPage     == [at |-> "none", score |-> "none", approved |-> FALSE, tries |-> 0]
NewDraft   == [NoPage EXCEPT !.at = "draft"]
Changed(p) == [p EXCEPT !.at = "ready", !.score = "none", !.approved = FALSE]

Init ==
    /\ pages \in [Pages -> Page]
    /\ \A s \in Pages : pages[s].at \in {"publishing", "published"} =>
                            pages[s].approved /\ pages[s].score = "good"

------------------------------------------------------------------------------
(* What a run of an agent makes of a page p, if it does not leave it alone. *)

Plans(p, q)    == p.at = "none" /\ q = NewDraft
Retakes(p, q)  == p.at = "published" /\ q = [p EXCEPT !.at = "ready"]
Fills(p, q)    == Plans(p, q) \/ Retakes(p, q)
Writes(p, q)   == p.at = "draft" /\ q = Changed(p)
Improves(p, q) == p.at \in {"ready", "published"} /\ q = Changed(p)

\* Below the threshold: scored, or rewritten as long as it has rewrites left.
Optimizes(p, q) ==
    /\ p.at \in {"ready", "published"} /\ p.score # "good" /\ p.tries < MaxRewrites
    /\ \/ q = [Changed(p) EXCEPT !.tries = p.tries + 1]
       \/ \E n \in {"low", "good"} : q = [p EXCEPT !.score = n]

Sends(p, q) ==
    /\ p.at = "ready" /\ p.approved /\ p.score = "good"
    /\ \E state \in {"publishing", "published"} : q = [p EXCEPT !.at = state]

\* One run does one kind of thing, to as many pages as it likes.
Kinds == {"fills", "writes", "improves", "optimizes", "sends"}
Does(kind, p, q) ==
    \/ kind = "fills"     /\ Fills(p, q)
    \/ kind = "writes"    /\ Writes(p, q)
    \/ kind = "improves"  /\ Improves(p, q)
    \/ kind = "optimizes" /\ Optimizes(p, q)
    \/ kind = "sends"     /\ Sends(p, q)

Run(kind) ==
    /\ pages' \in [Pages -> Page]
    /\ \A s \in Pages : pages'[s] = pages[s] \/ Does(kind, pages[s], pages'[s])

------------------------------------------------------------------------------
(* What happens to one page *)

Deploy(s) ==
    /\ pages[s].at = "publishing"
    /\ pages' = [pages EXCEPT ![s].at = "published"]

Approve(s) ==
    /\ pages[s].at \in {"ready", "published"} /\ pages[s].score = "good"
    /\ pages' = [pages EXCEPT ![s].at = "ready", ![s].approved = TRUE]

SendBack(s) ==
    /\ pages[s].at \in {"draft", "ready", "published"}
    /\ pages' = [pages EXCEPT ![s] = [@ EXCEPT !.at = "draft", !.score = "none", !.approved = FALSE]]

Next ==
    \/ \E kind \in Kinds : Run(kind)
    \/ \E s \in Pages : Deploy(s) \/ Approve(s) \/ SendBack(s)

Spec == Init /\ [][Next]_pages
=============================================================================
