------------------------------ MODULE SiteAudit ------------------------------
(***************************************************************************)
(* The analysis of one homepage, denzo/auditor/analyzer.py, and its score, *)
(* denzo/auditor/scoring.py.  The page is fetched; the analysers of its    *)
(* text run one after another; robots.txt, the sitemap and the browser     *)
(* measure the site on three threads, the sitemap after robots.txt, which  *)
(* may declare it.  Any part may fail: it is then not measured, and the    *)
(* report says what share of the required parts was.  How a page is read,  *)
(* denzo/auditor/safe_fetch.py, is modelled for the homepage.              *)
(*                                                                         *)
(* An analyser takes points off a hundred.  What it takes off for one      *)
(* defect is one of a small set, and the defects are independent but for   *)
(* what the constants of a page say of it.                                 *)
(***************************************************************************)
EXTENDS Integers, FiniteSetsExt, Sequences

CONSTANTS Words,      \* lengths a page may have, in words
          Items,      \* list items it may have
          Fragile,    \* bound: the analysers of the text that may raise
          None        \* not measured

VARIABLES page,    \* the site: what the parts find is a function of it
          stage,   \* "fetch", "text", "site", "ended"
          fetch,   \* how the page is being read, None once it is
          scores,  \* what each part has measured
          pool,    \* the futures of the three threads
          report   \* what the analysis returned, or None

vars == <<page, stage, fetch, scores, pool, report>>

TextParts == {"technical", "content", "e_e_a_t", "images", "geo_visibility",
              "authority", "local_seo", "geo"}
SiteParts == {"robots", "performance", "sitemap"}
Parts == TextParts \cup SiteParts

Page == [words : Words, items : Items, local : BOOLEAN, js : BOOLEAN,
         sitemap : {"none", "usual", "declared"}]
Ways == {"direct", "curl", "reader"}
Fetching == [open : SUBSET Ways, tries : 0..2, blocked : BOOLEAN,
             why : {"refused", "unusable", "exhausted", None}]
Measure == 0..100 \cup {None}
Report == [status : {"failed", "partial", "completed"}, overall : Measure,
           coverage : 0..100, ready : BOOLEAN, scores : [Parts -> Measure]]

\* None is no score.
ConstantsAssumption == None \notin 0..100

TypeOK ==
  /\ page \in Page
  /\ stage \in {"fetch", "text", "site", "ended"}
  /\ fetch \in Fetching \cup {None}
  /\ scores \in [Parts -> Measure]
  /\ pool \in [SiteParts -> {"waiting", "running", "done"}]
  /\ report \in Report \cup {None}

-----------------------------------------------------------------------------
(* What an analyser can take off: one deduction of each set.               *)

Plus(sums, defect) == {s + d : s \in sums, d \in defect}

\* What the first n defects take off together.
Sums(defects) ==
  LET sums[n \in 0..Len(defects)] ==
        IF n = 0 THEN {0} ELSE Plus(sums[n - 1], defects[n])
  IN sums

Totals(defects) == Sums(defects)[Len(defects)]

Scores(defects) == {IF t < 100 THEN 100 - t ELSE 0 : t \in Totals(defects)}

(* technical_scanner.py, in its order. *)
Indexability == <<{40, 8, 0}, {20, 5, 0}, {40, 6, 0}>>
Title == <<{30, 12, 5, 0}, {5, 0}>>
Description == <<{12, 6, 0}>>
Canonical == <<{15, 25, 0}, {10, 0}>>
Headings == <<{15, 8, 0}, {10, 0}, {5, 0}>>
Schema == <<{8 * n : n \in 0..5}>>
SocialCards == <<{15, 0}>>
TextRatio == <<{15, 6, 0}>>
InternalLinks == <<{6, 0}>>
Headers == <<{12, 0}, {5, 0}>>
InlineScript == <<{10, 0}>>
Length(words) == <<{IF words < 500 THEN 15 ELSE IF words < 1500 THEN 6 ELSE 0}>>
Viewport == <<{20, 0}, {3, 0}>>
Lists(items) == <<{IF items = 0 THEN 12 ELSE 0}>>
ClientSide == <<{8, 0}>>

Technical(p) ==
  Scores(Indexability \o Title \o Description \o Canonical \o Headings \o Schema
           \o SocialCards \o TextRatio \o InternalLinks \o Headers \o InlineScript
           \o Length(p.words) \o Viewport \o Lists(p.items) \o ClientSide)

(* The other analysers: length, readability, originality, age, media; nine      *)
(* signals of trust; alternative texts, sizes, formats and loading of images,   *)
(* where a page without any loses nothing; questions, lists, definitions,       *)
(* entities and notes on quality; what a local business should show.            *)
Brevity(words) ==
  {IF words < 400 THEN 20 ELSE IF words < 800 THEN 10 ELSE IF words < 1200 THEN 3 ELSE 0}

Content(p) == Scores(<<Brevity(p.words), {6, 2, 0}, {7, 0}, {15, 7, 0}, {8, 0}, {5, 0}>>)

EEAT(p) ==
  Scores(<<{15, 0}, {15, 0}, {10, 0}, {10, 0}, {10, 0}, {10, 0}, {15, 0}, {10, 0}, {5, 0}>>)

Images(p) ==
  Scores(<<{15, 8, 0}, {12, 3, 0}, {12, 0}, {6, 0}, {10, 0}, {5, 0}, {5, 0}, {6, 0}>>)

Passages(items) == <<{IF items = 0 THEN 15 ELSE IF items < 10 THEN 8 ELSE 0}, {15, 0}, {8, 0}>>
Entities == <<{12, 0}, {5 * n : n \in 0..4}>>
Answers(p) == Scores(<<{30, 20, 10, 0}>> \o Passages(p.items) \o Entities)

\* Only a local business is judged as one.
IsLocal(p) == p.local
LocalSEO(p) ==
  IF IsLocal(p) THEN Scores(<<{25, 0}, {15, 0}, {8, 0}, {18, 0}>>) ELSE {None}

\* The rating of the domain; the service may be out of reach or of quota.
Authority == {0, 100, None}

StructuredData == {25, 0, 55, 100}

TextScore(p, part, best) ==
  LET among == CASE part = "technical" -> Technical(p)
                 [] part = "content" -> Content(p)
                 [] part = "e_e_a_t" -> EEAT(p)
                 [] part = "images" -> Images(p)
                 [] part = "geo_visibility" -> Answers(p)
                 [] part = "local_seo" -> LocalSEO(p)
                 [] part = "geo" -> StructuredData
  IN IF among = {None} THEN None ELSE IF best THEN Max(among) ELSE Min(among)

-----------------------------------------------------------------------------
(* What robots.txt, the sitemap and the browser give.                      *)

RobotsScores == {50, 85, 100, None}

\* The sitemaps that robots.txt declared; none when it could not be read.
Declared == IF scores["robots"] = None THEN {} ELSE {"declared"}

SitemapFound == page.sitemap \in {"usual"} \cup Declared

\* An empty one, one with bad entries, one of another domain, a good one; a
\* broken one in its place, or nothing; None when a response cannot be verified.
SitemapScores == (IF SitemapFound THEN {40, 70, 80, 100} ELSE {30, 0}) \cup {None}

\* Lighthouse, and only when it measured the host that was asked for.
PerformanceScores == {0, 100, None}

-----------------------------------------------------------------------------
(* scoring.py                                                              *)

Weights ==
  [part \in Parts |->
     CASE part = "technical" -> 40 [] part = "performance" -> 35
       [] part = "geo_visibility" -> 15
       [] part \in {"geo", "robots", "authority", "e_e_a_t"} -> 10
       [] part \in {"sitemap", "images", "content"} -> 5
       [] part = "local_seo" -> IF IsLocal(page) THEN 10 ELSE 0]

Measured(s) == {part \in Parts : s[part] # None}

\* A sum over all parts; those not measured count nothing.
Sum(term) ==
  term["technical"] + term["geo"] + term["performance"] + term["sitemap"] + term["robots"]
    + term["images"] + term["content"] + term["local_seo"] + term["geo_visibility"]
    + term["authority"] + term["e_e_a_t"]

Weighted(parts) == Sum([part \in Parts |-> IF part \in parts THEN Weights[part] ELSE 0])
Required == {part \in Parts : Weights[part] > 0} \ {"authority"}

Rounded(n, d) == (2 * n + d) \div (2 * d)

Overall(s) ==
  IF Weighted(Measured(s)) = 0 THEN None
  ELSE Rounded(Sum([part \in Parts |-> IF s[part] = None THEN 0 ELSE s[part] * Weights[part]]),
               Weighted(Measured(s)))

Scored(s) ==
  LET share == Weighted(Required \cap Measured(s)) IN
  [status |-> IF share = Weighted(Required) THEN "completed" ELSE "partial",
   overall |-> Overall(s), coverage |-> Rounded(100 * share, Weighted(Required)),
   ready |-> share = Weighted(Required), scores |-> s]

Unread == [part \in Parts |-> None]
FailedReport == [status |-> "failed", overall |-> None, coverage |-> 0,
                 ready |-> FALSE, scores |-> Unread]

-----------------------------------------------------------------------------
\* The ways that the page can be read are the site's: its firewall lets some pass.
Init ==
  /\ page \in Page
  /\ stage = "fetch"
  /\ fetch \in [open : SUBSET Ways, tries : {0}, blocked : {FALSE}, why : {None}]
  /\ scores = Unread
  /\ pool = [part \in SiteParts |-> "waiting"]
  /\ report = None

Fails(why) ==
  /\ stage' = "ended"
  /\ fetch' = [fetch EXCEPT !.why = why]
  /\ report' = FailedReport
  /\ UNCHANGED <<page, scores, pool>>

Succeeds ==
  /\ stage' = "text"
  /\ fetch' = None
  /\ UNCHANGED <<page, scores, pool, report>>

\* A page was read: it is analysed, unless it is an error page, a challenge, or
\* not HTML.
Read == Succeeds \/ Fails("unusable")

Retries == fetch.tries < 2 /\ ~fetch.blocked

\* The first way.  An address, a size or a redirection that is refused is final;
\* a block and an error of the network count as a try.
Direct ==
  /\ stage = "fetch"
  /\ Retries
  /\ \/ "direct" \in fetch.open /\ Read
     \/ Fails("refused")
     \/ /\ "direct" \notin fetch.open
        /\ \E blocked \in BOOLEAN :
             fetch' = [fetch EXCEPT !.tries = @ + 1, !.blocked = blocked]
        /\ UNCHANGED <<page, stage, scores, pool, report>>

\* After a block, and only then, the same by another program.
Curl ==
  /\ stage = "fetch"
  /\ fetch.blocked
  /\ \/ "curl" \in fetch.open /\ Read
     \/ Fails("refused")
     \/ /\ "curl" \notin fetch.open
        /\ fetch' = [fetch EXCEPT !.blocked = FALSE]
        /\ UNCHANGED <<page, stage, scores, pool, report>>

\* In the end a service that reads pages for others.
Reader ==
  /\ stage = "fetch"
  /\ fetch.tries = 2 /\ ~fetch.blocked
  /\ IF "reader" \in fetch.open THEN Read ELSE Fails("exhausted")

\* The analysers of the text; one that raises is not measured.  They are all at
\* their best or all at their worst: the bound of this action.
Analyze(best, raising, authority) ==
  /\ stage = "text"
  /\ scores' = [part \in Parts |->
       IF part \in raising \cup SiteParts THEN None
       ELSE IF part = "authority" THEN authority
       ELSE TextScore(page, part, best)]
  /\ stage' = "site"
  /\ UNCHANGED <<page, fetch, pool, report>>

ReadyAtOnce(part) == TRUE                                \* mutant

\* robots.txt and the browser are submitted at once, the sitemap when the result
\* of robots.txt is there.
Ready(part) == part = "sitemap" => pool["robots"] = "done"

Submit(part) ==
  /\ stage = "site"
  /\ pool[part] = "waiting"
  /\ Ready(part)
  /\ pool' = [pool EXCEPT ![part] = "running"]
  /\ UNCHANGED <<page, stage, fetch, scores, report>>

Result(part, score) ==
  /\ pool[part] = "running"
  /\ score \in CASE part = "robots" -> RobotsScores
                 [] part = "sitemap" -> SitemapScores
                 [] part = "performance" -> PerformanceScores
  /\ pool' = [pool EXCEPT ![part] = "done"]
  /\ scores' = [scores EXCEPT ![part] = score]
  /\ UNCHANGED <<page, stage, fetch, report>>

\* A page that a script fills is not judged by the little text it has.
Scripted == page.js
Shell == Scripted /\ page.words < 80

Withheld == IF Shell THEN [scores EXCEPT !["technical"] = None] ELSE scores

Finish ==
  /\ stage = "site"
  /\ \A part \in SiteParts : pool[part] = "done"
  /\ scores' = Withheld
  /\ report' = Scored(Withheld)
  /\ stage' = "ended"
  /\ UNCHANGED <<page, fetch, pool>>

Next ==
  \/ Direct \/ Curl \/ Reader \/ Finish
  \/ \E best \in BOOLEAN, authority \in Authority,
        raising \in {{}} \cup {{part} : part \in Fragile} :
           Analyze(best, raising, authority)
  \/ \E part \in SiteParts : Submit(part)
       \/ \E score \in {0, 30, 40, 50, 70, 80, 85, 100, None} : Result(part, score)

Spec == Init /\ [][Next]_vars

-----------------------------------------------------------------------------
\* The score lies within what was measured, whatever failed, and a report is
\* complete, and its coverage a hundred, exactly when every part that counts for
\* this site was measured (the comments in score_results).
ScoreOfMeasured ==
  (report # None /\ report.status # "failed") =>
    LET counted == {part \in Measured(report.scores) : Weights[part] > 0} IN
    /\ (report.overall = None) <=> (counted = {})
    /\ counted # {} =>
         /\ \E part \in counted : report.scores[part] <= report.overall
         /\ \E part \in counted : report.scores[part] >= report.overall
    /\ (report.coverage = 100) <=> report.ready
    /\ (report.status = "completed") <=> (Required \subseteq counted)

\* A completed report does not say that a site has no sitemap when it has one,
\* where the sitemap is known to robots.txt alone (run_full_analysis waits for
\* robots.txt before it looks for the sitemap).
NoSitemapIsTrue ==
  (report # None /\ report.status = "completed" /\ report.scores["sitemap"] = 0)
     => page.sitemap = "none"

\* A page that the first way or the last can read is not reported as one that
\* cannot be read (fetch_bytes; the way between them is tried after blocks only).
UnreadIsTrue ==
  (report # None /\ report.status = "failed" /\ fetch.why = "exhausted")
     => {"direct", "reader"} \cap fetch.open = {}

\* What a report says is true of the site: that it cannot be read, its score, its
\* completeness, and that there is no sitemap.
ReportIsTrue == UnreadIsTrue /\ ScoreOfMeasured /\ NoSitemapIsTrue
=============================================================================
