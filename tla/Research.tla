------------------------------ MODULE Research ------------------------------
(***************************************************************************)
(* The agents that run before any content is planned: discovery (Site      *)
(* Inventory, Keyword Footprint, GEO Baseline) and research (layer 1).     *)
(* Each operator is the set of outcomes of one run on the facts d; the     *)
(* answers of language models and of other services are any answer.        *)
(***************************************************************************)
EXTENDS Facts

(* Discovery *)

\* normalize_base raises without an address; unread pages are only counted.
SiteInventory(d) == IF "site" \in d.conf THEN {Done(d)} ELSE {Failed(d)}

\* Search Console is best effort: its failure leaves the inventory's keywords.
KeywordFootprint(d) == {Done(d)}

\* The rows of geo_queries it stores for Perplexity are read by GEO Gap Closer.
Answers(d) == IF "perplexity" \in d.conf THEN {d, [d EXCEPT !.gaps = TRUE]} ELSE {d}
GeoBaseline(d) == {Done(e) : e \in Answers(d)}

(* Keywords *)

KeywordStrategist(d) == {Failed(d)} \union AddsKeywords(d)

KeywordClusterer(d) == IF d.kw < Enough THEN {Idle(d)} ELSE {Failed(d), Done(d)}

(* Competitors *)

Manual(d)   == [d EXCEPT !.known = @ \/ "competitors" \in d.conf]
FromMaps(d) == IF "apify" \in d.conf THEN {d, [d EXCEPT !.known = TRUE]} ELSE {d}

\* A dealership asks for dealers of its brands and of others, any other client
\* with certifications for shops that hold them: some, or none that fit.
FromDealers(d)   == {d, [d EXCEPT !.known = TRUE]}
FromCertified(d) == {d, [d EXCEPT !.known = TRUE]}
FromRadius(d)    == {d} \union FromDealers(d) \union FromCertified(d)
Discovered(d)    == UNION {FromRadius(e) : e \in FromMaps(Manual(d))}

\* Tier 0 is another industry, judged by the text of the site or the model's
\* description of it; whoever is left is a rival.
OtherIndustry == 0
Tiers     == OtherIndustry..3
Scored(d) == {[d EXCEPT !.rivals = \E t \in found : t # OtherIndustry] : found \in SUBSET Tiers}

\* An empty or unreadable analysis returns without a status; a usable one may
\* change the tiers again and adds its gap keywords.
Analysed(d) == {Leaves(d)} \union UNION {AddsKeywords(e) : e \in Scored(d)}

CompetitorIntel(d) ==
    UNION {IF ~ e.known THEN {Idle(e)}
           ELSE UNION {{Leaves(f)} \union Analysed(f) : f \in Scored(e)} : e \in Discovered(d)}

(* The site *)

TechnicalAuditor(d) == IF "site" \in d.conf THEN {Done(d), Failed(d)} ELSE {Failed(d)}

StyleFallback(d) == {Done(d)}   \* site out of reach: a style guide from the model or the default one
StyleMeasured(d) == {Done(d)}   \* images and style guide stored, each image's analysis optional
SiteStyleAnalyzer(d) == IF "site" \in d.conf THEN StyleFallback(d) \union StyleMeasured(d)
                        ELSE {Idle(d)}

(* Market *)

\* No source is needed: an empty synthesis stores an empty report.
DataIntelligence(d) == {Done(d)}

GbpOptimizer(d) == {Failed(d), Done(d)}
=============================================================================
