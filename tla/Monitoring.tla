----------------------------- MODULE Monitoring -----------------------------
(***************************************************************************)
(* The agents of layer 6, which run once pages are published. Each         *)
(* operator is the set of outcomes of one run on the facts d.              *)
(***************************************************************************)
EXTENDS Facts

\* Pages shown as published: most of these agents have nothing to watch without one.
Shown(d) == In(d, {"published"})

NeedsPublished(d, outcomes) == IF Shown(d) = {} THEN {Idle(d)} ELSE outcomes

\* Positions come from Search Console, from Apify or are estimated; only
\* Apify's answers bring new questions.
RankTracker(d) ==
    NeedsPublished(d,
        IF ~ d.high \/ "site" \notin d.conf THEN {Idle(d)}
        ELSE IF "apify" \in d.conf THEN AddsKeywords(d) ELSE {Done(d)})

\* Queries come from keywords, from past gaps and from competitors; those the
\* bank already has are ignored, also when they are no longer active.
QueriesFromKeywords(d)    == d.kw > 0
QueriesFromGaps(d)        == d.gaps \/ "engine" \in d.conf
QueriesFromCompetitors(d) == d.gaps \/ d.known
Banked(d) == IF QueriesFromKeywords(d) \/ QueriesFromGaps(d) \/ QueriesFromCompetitors(d)
             THEN {d, [d EXCEPT !.bank = TRUE]} ELSE {d}
GeoQueryGenerator(d) == {Done(e) : e \in Banked(d)}

\* Without an active query the bank is seeded; an engine that fails is passed over.
Seeded(d) == IF d.bank THEN {d} ELSE {d, [d EXCEPT !.bank = TRUE]}
AsksEngines(d) ==
    IF "engine" \notin d.conf /\ "perplexity" \notin d.conf THEN {Idle(d)}
    ELSE IF "perplexity" \in d.conf THEN {Done(d), Done([d EXCEPT !.gaps = TRUE])}
    ELSE {Done(d)}
GeoMonitor(d) ==
    NeedsPublished(d, UNION {IF e.bank THEN AsksEngines(e) ELSE {Failed(e)} : e \in Seeded(d)})

\* Apify's result pages, or the model's analysis of them, or nothing.
SerpIntelligence(d) ==
    NeedsPublished(d, IF d.kw = 0 THEN {Idle(d)} ELSE {Failed(d)} \union AddsKeywords(d))

\* No review collected is "idle" as well; a failed synthesis is done.
ReviewsIntelligence(d) ==
    IF ~ d.rivals \/ "apify" \notin d.conf THEN {Idle(d)}
    ELSE {Idle(d), Done(d)} \union AddsKeywords(d)

RoiAttribution(d) == NeedsPublished(d, {Done(d)})

ContentDuplicateChecker(d) ==
    IF Cardinality(In(d, {"ready", "published"})) < 2 THEN {Idle(d)} ELSE {Done(d)}

\* A query whose answer does not cite the client leaves the bank; the answers
\* without the client are the gaps that GEO Gap Closer works on.
Missed(d, b) == [d EXCEPT !.gaps = TRUE, !.bank = b]
Uncited(d)  == {Missed(d, b) : b \in BOOLEAN}
PerplexityTracker(d) ==
    IF "perplexity" \notin d.conf \/ "site" \notin d.conf \/ ~ d.bank THEN {Idle(d)}
    ELSE {Done(e) : e \in {d} \union Uncited(d)}

\* A page that is published goes back to ready, as it was approved; a gap
\* without a page gets a draft, unless a gate or the plan's limit refuses it.
Regapped(d) == {WithPages(d, [s \in Slots |-> IF s \in S THEN [d.pages[s] EXCEPT !.at = "ready"]
                                              ELSE d.pages[s]]) : S \in SUBSET Shown(d)}
GeoGapCloser(d) ==
    IF ~ d.gaps THEN {Done(d)}
    ELSE {Done(f) : f \in UNION {Drafts(e, Room(e)) : e \in Regapped(d)}}
=============================================================================
