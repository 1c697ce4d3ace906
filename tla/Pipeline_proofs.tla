--------------------------- MODULE Pipeline_proofs ---------------------------
(***************************************************************************)
(* What is proved of the Pipeline Director for every set of pages, every   *)
(* limit and every tenant it may begin with: the types of its state, that  *)
(* no agent, review or deployment lets a text be published that was not    *)
(* approved as it is, that a scheduled batch writes one draft, and that    *)
(* pages live as PageLife says.                                            *)
(*                                                                         *)
(* Agents first: what one run may do to the facts (Kept, Harmless), agent  *)
(* by agent; then the Director's choice; then the steps of the system.     *)
(***************************************************************************)
EXTENDS Pipeline, FiniteSetTheorems, TLAPS

Statuses == {"idle", "working", "done", "skipped", "error"}

Writer == "Programmatic SEO"

\* No draft of d is a ready page of e.
NoneWritten(d, e) == \A s \in Slots : d.pages[s].at = "draft" => e.pages[s].at # "ready"

\* What is published in e is as it should be if that held in d.
StaysReviewed(d, e) == Reviewed(d) => Reviewed(e)

\* Facts that agents leave behind: none of them decides the size of a batch.
Sound(d, e) == /\ e \in Db
               /\ e.one = d.one
               /\ StaysReviewed(d, e)

\* An outcome of an agent that never touches pages.
Kept(d, o) == /\ o.status \in Statuses
              /\ o.db \in Db
              /\ o.db.one = d.one
              /\ o.db.pages = d.pages

\* An outcome of any agent but the one that writes drafts.
Harmless(d, o) == /\ o.status \in Statuses
                  /\ Sound(d, o.db)
                  /\ NoneWritten(d, o.db)

------------------------------------------------------------------------------
(* Facts *)

\* The fields of the facts.
LEMMA DbFields ==
    ASSUME NEW d \in Db
    PROVE  /\ d.kw \in KwLevels
           /\ d.high \in BOOLEAN /\ d.rivals \in BOOLEAN /\ d.known \in BOOLEAN
           /\ d.bank \in BOOLEAN /\ d.gaps \in BOOLEAN /\ d.world \in BOOLEAN
           /\ d.one \in BOOLEAN
           /\ d.conf \in SUBSET Settings
           /\ d.pages \in [Slots -> Page]
BY DEF Db

\* What the Director and the scheduler note there.
LEMMA DbNotes ==
    ASSUME NEW d \in Db, NEW h \in BOOLEAN
    PROVE  /\ [d EXCEPT !.world = h] \in Db
           /\ [d EXCEPT !.one = h] \in Db
BY DEF Db

\* The pages may change.
LEMMA DbPages ==
    ASSUME NEW d \in Db, NEW f \in [Slots -> Page]
    PROVE  /\ WithPages(d, f) \in Db
           /\ WithPages(d, f).pages = f
           /\ WithPages(d, f).one = d.one
BY DEF Db, WithPages

\* Outcomes that leave the pages alone are harmless.
LEMMA KeptIsHarmless ==
    ASSUME NEW d \in Db, NEW o, Kept(d, o)
    PROVE  Harmless(d, o)
BY DEF Kept, Harmless, Sound, StaysReviewed, Reviewed, In, NoneWritten

\* Facts as they were.
LEMMA Unchanged ==
    ASSUME NEW d \in Db
    PROVE  /\ Kept(d, Done(d)) /\ Kept(d, Idle(d)) /\ Kept(d, Failed(d))
           /\ Kept(d, Leaves(d)) /\ Kept(d, Skips(d))
BY DEF Kept, Done, Idle, Failed, Leaves, Skips, Outcome, Statuses

------------------------------------------------------------------------------
(* Agents that touch no page *)

\* Facts that differ in keywords, competitors, queries and gaps only.
Beside(d, e) == e \in Db /\ e.one = d.one /\ e.pages = d.pages

LEMMA BesideIsKept ==
    ASSUME NEW d \in Db, NEW e, Beside(d, e)
    PROVE  /\ Kept(d, Done(e)) /\ Kept(d, Idle(e)) /\ Kept(d, Failed(e)) /\ Kept(d, Leaves(e))
BY DEF Beside, Kept, Done, Idle, Failed, Leaves, Outcome, Statuses

LEMMA BesideKeywords ==
    ASSUME NEW d \in Db, NEW n \in KwLevels
    PROVE  Beside(d, [d EXCEPT !.kw = n]) /\ Beside(d, [d EXCEPT !.kw = n, !.high = TRUE])
BY DEF Beside, Db

LEMMA BesideFlags ==
    ASSUME NEW d \in Db, NEW h \in BOOLEAN
    PROVE  /\ Beside(d, d)
           /\ Beside(d, [d EXCEPT !.gaps = h])
           /\ Beside(d, [d EXCEPT !.known = h])
           /\ Beside(d, [d EXCEPT !.rivals = h])
           /\ Beside(d, [d EXCEPT !.bank = h])
           /\ Beside(d, [d EXCEPT !.gaps = TRUE, !.bank = h])
BY DEF Beside, Db

LEMMA BesideTrans ==
    ASSUME NEW d, NEW e, NEW f, Beside(d, e), Beside(e, f)
    PROVE  Beside(d, f)
BY DEF Beside

LEMMA KeptTrans ==
    ASSUME NEW d, NEW e, NEW o, Beside(d, e), Kept(e, o)
    PROVE  Kept(d, o)
BY DEF Beside, Kept

LEMMA AddsKeywordsKept ==
    ASSUME NEW d \in Db, NEW o \in AddsKeywords(d)
    PROVE  Kept(d, o)
<1>1. ASSUME NEW e \in Keyworded(d) PROVE Beside(d, e)
  <2>0. e \in WithKeywords(d)
    BY DEF Keyworded
  <2>1. PICK n \in {m \in KwLevels : m >= d.kw} : e \in Learns(d, n)
    BY <2>0 DEF WithKeywords
  <2>2. n \in KwLevels
    OBVIOUS
  <2>3. Beside(d, [d EXCEPT !.kw = n]) /\ Beside(d, [d EXCEPT !.kw = n, !.high = TRUE])
    BY <2>2, BesideKeywords
  <2> QED
    BY <2>1, <2>3 DEF Learns
<1>2. PICK e \in Keyworded(d) : o = Done(e) \/ o = Failed(e)
  BY DEF AddsKeywords
<1> QED
  BY <1>1, <1>2, BesideIsKept

\* Every agent of discovery and of layer 1 keeps the pages: Research says so of
\* each of them, whatever the services and the models answer.
LEMMA ResearchKept ==
    ASSUME NEW d \in Db, NEW o,
           \/ o \in SiteInventory(d) \union KeywordFootprint(d) \union GeoBaseline(d)
           \/ o \in KeywordStrategist(d) \union KeywordClusterer(d)
           \/ o \in TechnicalAuditor(d) \union SiteStyleAnalyzer(d)
           \/ o \in DataIntelligence(d) \union GbpOptimizer(d)
    PROVE  Kept(d, o)
<1>1. CASE o \in {Done(d), Failed(d), Idle(d)}
  BY <1>1, Unchanged
<1>2. CASE o \in GeoBaseline(d)
  <2>1. PICK e \in {d, [d EXCEPT !.gaps = TRUE]} : o = Done(e)
    BY <1>2 DEF GeoBaseline, Answers
  <2>2. Beside(d, d) /\ Beside(d, [d EXCEPT !.gaps = TRUE])
    BY BesideFlags
  <2> QED
    BY <2>1, <2>2, BesideIsKept
<1>3. CASE o \in AddsKeywords(d)
  BY <1>3, AddsKeywordsKept
<1> QED
  BY <1>1, <1>2, <1>3 DEF SiteInventory, KeywordFootprint, KeywordStrategist, KeywordClusterer,
     TechnicalAuditor, SiteStyleAnalyzer, StyleFallback, StyleMeasured, DataIntelligence, GbpOptimizer

\* The competitors that are found, and how they are judged.
LEMMA DiscoveredBeside ==
    ASSUME NEW d \in Db, NEW e \in Discovered(d)
    PROVE  Beside(d, e)
<1>1. Beside(d, Manual(d)) /\ Manual(d) \in Db
  <2>1. PICK h \in BOOLEAN : h = (d.known \/ "competitors" \in d.conf)
    OBVIOUS
  <2>2. Manual(d) = [d EXCEPT !.known = h]
    BY <2>1, DbFields DEF Manual, Db
  <2>3. Beside(d, [d EXCEPT !.known = h])
    BY BesideFlags
  <2> QED
    BY <2>2, <2>3 DEF Beside
<1>2. PICK m \in FromMaps(Manual(d)) : e \in FromRadius(m)
  BY DEF Discovered
<1>3. Beside(Manual(d), m) /\ m \in Db
  <2>1. Beside(Manual(d), Manual(d)) /\ Beside(Manual(d), [Manual(d) EXCEPT !.known = TRUE])
    BY <1>1, BesideFlags
  <2>2. m \in {Manual(d), [Manual(d) EXCEPT !.known = TRUE]}
    BY <1>2 DEF FromMaps
  <2> QED
    BY <2>1, <2>2 DEF Beside
<1>4. Beside(m, e)
  <2>1. Beside(m, m) /\ Beside(m, [m EXCEPT !.known = TRUE])
    BY <1>3, BesideFlags
  <2>2. e \in {m, [m EXCEPT !.known = TRUE]}
    BY <1>2 DEF FromRadius, FromDealers, FromCertified
  <2> QED
    BY <2>1, <2>2
<1> QED
  BY <1>1, <1>3, <1>4, BesideTrans

LEMMA ScoredBeside ==
    ASSUME NEW d \in Db, NEW e \in Scored(d)
    PROVE  Beside(d, e)
<1>1. PICK found \in SUBSET Tiers : e = [d EXCEPT !.rivals = \E t \in found : t # OtherIndustry]
  BY Zenon DEF Scored
<1>2. PICK h \in BOOLEAN : h = (\E t \in found : t # OtherIndustry)
  OBVIOUS
<1>3. Beside(d, [d EXCEPT !.rivals = h])
  BY BesideFlags
<1> QED
  BY <1>1, <1>2, <1>3

LEMMA CompetitorIntelKept ==
    ASSUME NEW d \in Db, NEW o \in CompetitorIntel(d)
    PROVE  Kept(d, o)
<1>1. PICK e \in Discovered(d) :
        o \in (IF ~ e.known THEN {Idle(e)}
              ELSE UNION {{Leaves(f)} \union Analysed(f) : f \in Scored(e)})
  BY DEF CompetitorIntel
<1>2. Beside(d, e) /\ e \in Db
  BY DiscoveredBeside DEF Beside
<1>3. CASE o = Idle(e)
  BY <1>2, <1>3, BesideIsKept
<1>4. CASE \E f \in Scored(e) : o \in {Leaves(f)} \union Analysed(f)
  <2>1. PICK f \in Scored(e) : o \in {Leaves(f)} \union Analysed(f)
    BY <1>4
  <2>2. Beside(d, f) /\ f \in Db
    BY <1>2, ScoredBeside, BesideTrans DEF Beside
  <2>3. CASE o = Leaves(f)
    BY <2>2, <2>3, BesideIsKept
  <2>4. CASE \E g \in Scored(f) : o \in AddsKeywords(g)
    <3>1. PICK g \in Scored(f) : o \in AddsKeywords(g)
      BY <2>4
    <3>2. Beside(f, g) /\ g \in Db
      BY <2>2, ScoredBeside DEF Beside
    <3>3. Kept(g, o)
      BY <3>1, <3>2, AddsKeywordsKept
    <3>4. Beside(d, g)
      BY <2>2, <3>2, BesideTrans
    <3> QED
      BY <3>3, <3>4, KeptTrans
  <2> QED
    BY <2>1, <2>3, <2>4 DEF Analysed
<1> QED
  BY <1>1, <1>3, <1>4

\* Agents of layer 6, but for the GEO Gap Closer.
LEMMA MonitoringKept ==
    ASSUME NEW d \in Db, NEW o,
           \/ o \in RankTracker(d) \union GeoQueryGenerator(d) \union GeoMonitor(d)
           \/ o \in SerpIntelligence(d) \union ReviewsIntelligence(d) \union RoiAttribution(d)
           \/ o \in ContentDuplicateChecker(d) \union PerplexityTracker(d)
    PROVE  Kept(d, o)
<1>1. CASE o \in {Done(d), Failed(d), Idle(d)}
  BY <1>1, Unchanged
<1>2. CASE o \in AddsKeywords(d)
  BY <1>2, AddsKeywordsKept
<1>3. CASE o \in GeoQueryGenerator(d)
  <2>1. PICK e \in {d, [d EXCEPT !.bank = TRUE]} : o = Done(e)
    BY <1>3 DEF GeoQueryGenerator, Banked
  <2>2. Beside(d, d) /\ Beside(d, [d EXCEPT !.bank = TRUE])
    BY BesideFlags
  <2> QED
    BY <2>1, <2>2, BesideIsKept
<1>4. CASE o \in GeoMonitor(d) /\ o # Idle(d)
  <2>1. PICK e \in Seeded(d) : o \in (IF e.bank THEN AsksEngines(e) ELSE {Failed(e)})
    BY <1>4 DEF GeoMonitor, NeedsPublished
  <2>2. Beside(d, d) /\ Beside(d, [d EXCEPT !.bank = TRUE])
    BY BesideFlags
  <2>3. Beside(d, e) /\ e \in Db
    BY <2>1, <2>2 DEF Seeded, Beside
  <2>4. Beside(e, e) /\ Beside(e, [e EXCEPT !.gaps = TRUE])
    BY <2>3, BesideFlags
  <2>5. Kept(e, Idle(e)) /\ Kept(e, Done(e)) /\ Kept(e, Failed(e)) /\ Kept(e, Done([e EXCEPT !.gaps = TRUE]))
    BY <2>3, <2>4, BesideIsKept
  <2>6. o \in {Idle(e), Done(e), Failed(e), Done([e EXCEPT !.gaps = TRUE])}
    BY <2>1 DEF AsksEngines
  <2>7. Kept(e, o)
    BY <2>5, <2>6
  <2> QED
    BY <2>3, <2>7, KeptTrans
<1>5. CASE o \in PerplexityTracker(d) /\ o # Idle(d) /\ o # Done(d)
  <2>1. PICK b \in BOOLEAN : o = Done(Missed(d, b))
    BY <1>5 DEF PerplexityTracker, Uncited
  <2>2. Beside(d, [d EXCEPT !.gaps = TRUE, !.bank = b])
    BY BesideFlags
  <2> QED
    BY <2>1, <2>2, BesideIsKept DEF Missed
<1> QED
  BY <1>1, <1>2, <1>3, <1>4, <1>5 DEF RankTracker, SerpIntelligence, ReviewsIntelligence,
     RoiAttribution, ContentDuplicateChecker, NeedsPublished

------------------------------------------------------------------------------
(* Agents that touch pages *)

\* The pages that a harmless run leaves, given what it does to each of them.
LEMMA PagesHarmless ==
    ASSUME NEW d \in Db, NEW f \in [Slots -> Page], NEW st \in Statuses,
           \A s \in Slots :
              /\ d.pages[s].at = "draft" => f[s].at # "ready"
              /\ f[s].at \in {"publishing", "published"} =>
                    \/ f[s].approved /\ f[s].score = "good"
                    \/ /\ d.pages[s].at \in {"publishing", "published"}
                       /\ d.pages[s].approved => f[s].approved
                       /\ d.pages[s].score = "good" => f[s].score = "good"
    PROVE  Harmless(d, Outcome(st, WithPages(d, f)))
<1> DEFINE e == WithPages(d, f)
<1>1. e \in Db /\ e.pages = f /\ e.one = d.one
  BY DbPages
<1>2. Outcome(st, e).status = st /\ Outcome(st, e).db = e
  BY DEF Outcome
<1> HIDE DEF e
<1>3. StaysReviewed(d, e)
  BY <1>1 DEF StaysReviewed, Reviewed, In
<1>4. NoneWritten(d, e)
  BY <1>1 DEF NoneWritten
<1> QED
  BY <1>1, <1>2, <1>3, <1>4 DEF Harmless, Sound, e

\* A page keeps its type when it is rewritten.
LEMMA RewrittenPage ==
    ASSUME NEW p \in Page
    PROVE  /\ Rewritten(p) \in Page
           /\ Rewritten(p).at = IF p.at = "published" THEN "ready" ELSE p.at
BY DEF Rewritten, Page, PageStates

LEMMA RewriteHarmless ==
    ASSUME NEW d \in Db, NEW S \in SUBSET In(d, {"ready", "published"}),
           NEW e \in RewriteSome(d, S)
    PROVE  Harmless(d, Done(e))
<1>1. PICK T \in SUBSET S :
        e = WithPages(d, [s \in Slots |-> IF s \in T THEN Rewritten(d.pages[s]) ELSE d.pages[s]])
  BY Zenon DEF RewriteSome
<1> DEFINE f == [s \in Slots |-> IF s \in T THEN Rewritten(d.pages[s]) ELSE d.pages[s]]
<1>2. d.pages \in [Slots -> Page]
  BY DbFields
<1>3. f \in [Slots -> Page]
  BY <1>2, RewrittenPage
<1>4. \A s \in T : d.pages[s].at \in {"ready", "published"}
  BY DEF In
<1>5. \A s \in Slots : IF s \in T THEN f[s].at = "ready" /\ d.pages[s].at # "draft" ELSE f[s] = d.pages[s]
  BY <1>2, <1>4, RewrittenPage
<1>6. "done" \in Statuses
  BY DEF Statuses
<1>7. e = WithPages(d, f)
  BY <1>1
<1> HIDE DEF f
<1>8. Harmless(d, Outcome("done", WithPages(d, f)))
  BY <1>3, <1>5, <1>6, PagesHarmless
<1> QED
  BY <1>7, <1>8 DEF Done

\* New drafts.
LEMMA DraftsHarmless ==
    ASSUME NEW d \in Db, NEW n, NEW e \in Drafts(d, n), NEW st \in Statuses
    PROVE  Harmless(d, Outcome(st, e)) /\ e \in Db
<1>1. PICK S \in SUBSET In(d, {"none"}) : e = WithDrafts(d, S)
  BY DEF Drafts
<1> DEFINE f == [s \in Slots |-> IF s \in S THEN NewDraft ELSE d.pages[s]]
<1>2. d.pages \in [Slots -> Page]
  BY DbFields
<1>3. NewDraft \in Page /\ NewDraft.at = "draft"
  <2>1. NoPage \in Page
    BY DEF NoPage, Page, PageStates, MaxRewrites
  <2> QED
    BY <2>1 DEF NewDraft, Page, PageStates
<1>4. f \in [Slots -> Page]
  BY <1>2, <1>3
<1>5. \A s \in Slots : IF s \in S THEN f[s].at = "draft" ELSE f[s] = d.pages[s]
  BY <1>3
<1>6. e = WithPages(d, f)
  BY <1>1 DEF WithDrafts, WithPages
<1> HIDE DEF f
<1>7. Harmless(d, Outcome(st, WithPages(d, f)))
  BY <1>4, <1>5, PagesHarmless
<1>8. WithPages(d, f) \in Db
  BY <1>4, DbPages
<1> QED
  BY <1>6, <1>7, <1>8

LEMMA PlansPagesHarmless ==
    ASSUME NEW d \in Db, NEW n, NEW o \in PlansPages(d, n)
    PROVE  Harmless(d, o)
<1>1. \E m : \E e \in Drafts(d, m) : o = Done(e) \/ o = Failed(e)
  <2>1. CASE \E e \in Drafts(d, Fewer(n, Room(d))) : o = Done(e)
    BY <2>1
  <2>2. CASE \E e \in AtLimit(d) : o = Failed(e)
    BY <2>2 DEF AtLimit
  <2> QED
    BY <2>1, <2>2 DEF PlansPages
<1>0. PICK m : \E e \in Drafts(d, m) : o = Done(e) \/ o = Failed(e)
  BY <1>1
<1>4. PICK e \in Drafts(d, m) : o = Done(e) \/ o = Failed(e)
  BY <1>0
<1>2. "done" \in Statuses /\ "error" \in Statuses
  BY DEF Statuses
<1>3. Harmless(d, Outcome("done", e)) /\ Harmless(d, Outcome("error", e))
  BY <1>2, DraftsHarmless
<1> QED
  BY <1>3, <1>4 DEF Done, Failed

\* Layer 2: E-E-A-T Architect, Schema Engineer, Vertical Matrix Generator.
LEMMA PlanningHarmless ==
    ASSUME NEW d \in Db, NEW done, NEW o,
           o \in EeatArchitect(d) \union SchemaEngineer(d) \union VerticalMatrixGenerator(d, done)
    PROVE  Harmless(d, o)
<1>1. CASE o \in {Done(d), Failed(d), Idle(d)}
  BY <1>1, Unchanged, KeptIsHarmless
<1>2. CASE \E n : o \in PlansPages(d, n)
  BY <1>2, PlansPagesHarmless
<1> QED
  BY <1>1, <1>2 DEF EeatArchitect, SchemaEngineer, VerticalMatrixGenerator

\* Layer 4 without the Content Optimizer: the agents that rewrite what is ready.
LEMMA ImprovingHarmless ==
    ASSUME NEW d \in Db, NEW o,
           o \in VisualContentOptimizer(d) \union GeoOptimizer(d) \union InternalLinker(d)
    PROVE  Harmless(d, o)
<1>1. CASE o = Idle(d)
  BY <1>1, Unchanged, KeptIsHarmless
<1>2. In(d, {"ready"}) \subseteq In(d, {"ready", "published"})
  BY DEF In
<1>3. CASE \E e \in RewriteSome(d, In(d, {"ready"})) : o = Done(e)
  BY <1>2, <1>3, RewriteHarmless
<1>4. CASE \E e \in RewriteSome(d, In(d, {"ready", "published"})) : o = Done(e)
  BY <1>4, RewriteHarmless
<1> QED
  BY <1>1, <1>3, <1>4 DEF VisualContentOptimizer, GeoOptimizer, ImprovesReady, InternalLinker

\* A page that the Content Optimizer looks at: rewritten, it is ready to be
\* reviewed; scored, it stays where it was.
LEMMA OptimizedPage ==
    ASSUME NEW p \in Page, NEW q \in Optimized(p)
    PROVE  /\ q \in Page
           /\ \/ q.at = "ready"
              \/ /\ q.at = p.at
                 /\ q.approved = p.approved
<1>1. CASE q = p
  BY <1>1
<1>2. CASE p.tries # MaxRewrites /\ q = Fixed(p)
  <2>1. Rewritten(p) \in Page /\ Rewritten(p).tries = p.tries
    BY DEF Rewritten, Page, PageStates
  <2>2. p.tries + 1 \in 0..MaxRewrites
    BY <1>2 DEF Page, MaxRewrites
  <2>3. Fixed(p) \in Page /\ Fixed(p).at = "ready"
    BY <2>1, <2>2 DEF Fixed, Page, PageStates
  <2> QED
    BY <1>2, <2>3
<1>3. CASE q \in Scores(p)
  <2>1. PICK n \in {"low", "good"} : q = [p EXCEPT !.score = n]
    BY <1>3 DEF Scores
  <2> QED
    BY <2>1 DEF Page
<1> QED
  BY <1>1, <1>2, <1>3 DEF Optimized

LEMMA ContentOptimizerHarmless ==
    ASSUME NEW d \in Db, NEW o \in ContentOptimizer(d)
    PROVE  Harmless(d, o)
<1>1. PICK f :
        /\ f \in [Slots -> UNION {{d.pages[s]} \union Optimized(d.pages[s]) : s \in Slots}]
        /\ \A s \in Slots : IF s \in BelowThreshold(d) THEN f[s] \in Optimized(d.pages[s])
                            ELSE f[s] = d.pages[s]
        /\ o = Done(WithPages(d, f))
  BY DEF ContentOptimizer
<1>2. d.pages \in [Slots -> Page]
  BY DbFields
<1>3. \A s \in Slots : d.pages[s] \in Page
  BY <1>2
<1>4. \A s \in Slots : f[s] \in Page
  BY <1>1, <1>3, OptimizedPage
<1>5. f \in [Slots -> Page]
  BY <1>1, <1>4
<1>6. ASSUME NEW s \in Slots
      PROVE  /\ d.pages[s].at = "draft" => f[s].at # "ready"
             /\ f[s].at \in {"publishing", "published"} =>
                  \/ f[s].approved /\ f[s].score = "good"
                  \/ /\ d.pages[s].at \in {"publishing", "published"}
                     /\ d.pages[s].approved => f[s].approved
                     /\ d.pages[s].score = "good" => f[s].score = "good"
  <2>1. CASE s \in BelowThreshold(d)
    <3>1. d.pages[s].at \in {"ready", "published"} /\ d.pages[s].score # "good"
      BY <2>1 DEF BelowThreshold, In
    <3>2. \/ f[s].at = "ready"
          \/ f[s].at = d.pages[s].at /\ f[s].approved = d.pages[s].approved
      BY <1>1, <1>3, <2>1, OptimizedPage
    <3> QED
      BY <3>1, <3>2
  <2>2. CASE s \notin BelowThreshold(d)
    <3>1. f[s] = d.pages[s]
      BY <1>1, <2>2
    <3> QED
      BY <3>1
  <2> QED
    BY <2>1, <2>2
<1>7. "done" \in Statuses
  BY DEF Statuses
<1>8. Harmless(d, Outcome("done", WithPages(d, f)))
  BY <1>5, <1>6, <1>7, PagesHarmless
<1> QED
  BY <1>1, <1>8 DEF Done

\* The publishers send what is approved as it is.
LEMMA PublisherHarmless ==
    ASSUME NEW d \in Db, NEW o \in Publisher(d)
    PROVE  Harmless(d, o)
<1>1. CASE o = Skips(d)
  BY <1>1, Unchanged, KeptIsHarmless
<1>2. CASE \E S, T \in SUBSET Approved(d) : o \in {Failed(Sent(d, S, T)), Done(Sent(d, S, T))}
  <2>1. PICK S \in SUBSET Approved(d), T \in SUBSET Approved(d) :
              o \in {Failed(Sent(d, S, T)), Done(Sent(d, S, T))}
    BY <1>2
  <2> DEFINE f == [s \in Slots |-> IF s \in S THEN [d.pages[s] EXCEPT !.at = "publishing"]
                                   ELSE IF s \in T THEN [d.pages[s] EXCEPT !.at = "published"]
                                   ELSE d.pages[s]]
  <2>2. d.pages \in [Slots -> Page]
    BY DbFields
  <2>3. ASSUME NEW p \in Page, NEW a \in {"publishing", "published"}
        PROVE  /\ [p EXCEPT !.at = a] \in Page
               /\ [p EXCEPT !.at = a].at = a
               /\ [p EXCEPT !.at = a].approved = p.approved
               /\ [p EXCEPT !.at = a].score = p.score
    BY DEF Page, PageStates
  <2>4. f \in [Slots -> Page]
    BY <2>2, <2>3
  <2>5. \A s \in S \union T : d.pages[s].approved /\ d.pages[s].score = "good" /\ d.pages[s].at = "ready"
    BY DEF Approved, In
  <2>6. \A s \in Slots : \/ f[s] = d.pages[s]
                         \/ f[s].approved /\ f[s].score = "good" /\ f[s].at # "ready"
    BY <2>2, <2>3, <2>5
  <2>7. Sent(d, S, T) = WithPages(d, f)
    BY DEF Sent
  <2>8. "done" \in Statuses /\ "error" \in Statuses
    BY DEF Statuses
  <2> HIDE DEF f
  <2>9. /\ Harmless(d, Outcome("done", WithPages(d, f)))
        /\ Harmless(d, Outcome("error", WithPages(d, f)))
    BY <2>4, <2>6, <2>8, PagesHarmless
  <2> QED
    BY <2>1, <2>7, <2>9 DEF Done, Failed
<1> QED
  BY <1>1, <1>2 DEF Publisher

\* A page that the GEO Gap Closer takes back goes to be sent again, not to be shown.
LEMMA GeoGapCloserHarmless ==
    ASSUME NEW d \in Db, NEW o \in GeoGapCloser(d)
    PROVE  Harmless(d, o)
<1>1. CASE o = Done(d)
  BY <1>1, Unchanged, KeptIsHarmless
<1>2. CASE \E e \in Regapped(d) : \E g \in Drafts(e, Room(e)) : o = Done(g)
  <2>0. PICK e \in Regapped(d) : \E g \in Drafts(e, Room(e)) : o = Done(g)
    BY <1>2
  <2>1. PICK g \in Drafts(e, Room(e)) : o = Done(g)
    BY <2>0
  <2>2. PICK S \in SUBSET Shown(d) :
          e = WithPages(d, [s \in Slots |-> IF s \in S THEN [d.pages[s] EXCEPT !.at = "ready"]
                                            ELSE d.pages[s]])
    BY <2>1, Zenon DEF Regapped
  <2> DEFINE f == [s \in Slots |-> IF s \in S THEN [d.pages[s] EXCEPT !.at = "ready"] ELSE d.pages[s]]
  <2>3. d.pages \in [Slots -> Page]
    BY DbFields
  <2>4. \A p \in Page : [p EXCEPT !.at = "ready"] \in Page /\ [p EXCEPT !.at = "ready"].at = "ready"
    BY DEF Page, PageStates
  <2>5. f \in [Slots -> Page]
    BY <2>3, <2>4
  <2>6. \A s \in S : d.pages[s].at = "published"
    BY DEF Shown, In
  <2>7. \A s \in Slots : \/ f[s] = d.pages[s]
                         \/ f[s].at = "ready" /\ d.pages[s].at = "published"
    BY <2>3, <2>4, <2>6
  <2>8. "done" \in Statuses
    BY DEF Statuses
  <2>9. e = WithPages(d, f)
    BY <2>2
  <2> HIDE DEF f
  <2>10. Harmless(d, Outcome("done", e)) /\ e \in Db /\ e.pages = f
    BY <2>5, <2>7, <2>8, <2>9, PagesHarmless, DbPages
  <2>11. Harmless(e, Outcome("done", g)) /\ g \in Db
    BY <2>1, <2>8, <2>10, DraftsHarmless
  <2>12. Sound(d, e) /\ Sound(e, g) /\ NoneWritten(d, e) /\ NoneWritten(e, g)
    BY <2>10, <2>11 DEF Harmless, Outcome
  <2>13. NoneWritten(d, g)
    <3>1. \A s \in Slots : d.pages[s].at = "draft" => e.pages[s] = d.pages[s]
      BY <2>7, <2>10
    <3> QED
      BY <2>12, <3>1 DEF NoneWritten
  <2>14. Sound(d, g)
    BY <2>12 DEF Sound, StaysReviewed
  <2> QED
    BY <2>1, <2>8, <2>13, <2>14 DEF Harmless, Done, Outcome
<1> QED
  BY <1>1, <1>2 DEF GeoGapCloser

\* The agents, stage by stage.
LEMMA Stages ==
    /\ ToSet(Discovery) = {"Site Inventory", "Keyword Footprint", "GEO Baseline"}
    /\ ToSet(Layer1) = {"Keyword Strategist", "Keyword Clusterer", "Competitor Intel",
           "Technical Auditor", "Site Style Analyzer", "Data Intelligence",
           "GBP Optimizer"}
    /\ ToSet(Layer2) = {"E-E-A-T Architect", "Schema Engineer", "Vertical Matrix Generator"}
    /\ ToSet(Layer3) = {"Programmatic SEO"}
    /\ ToSet(Layer4) = {"Visual Content Optimizer", "GEO Optimizer", "Internal Linker",
           "Content Optimizer"}
    /\ ToSet(Layer6) = {"Rank Tracker", "GEO Query Generator", "GEO Monitor",
           "SERP Intelligence", "Reviews Intelligence", "ROI Attribution",
           "Content Duplicate Checker", "Perplexity Tracker", "GEO Gap Closer"}
    /\ ToSet(Sending) = {"Publisher"}
    /\ ToSet(Indexing) = {"Indexation Accelerator"}
<1>1. ToSet(Discovery) = {"Site Inventory", "Keyword Footprint", "GEO Baseline"}
  <2>1. DOMAIN Discovery = 1..3
    BY DEF Discovery
  <2>2. /\ Discovery[1] = "Site Inventory"
        /\ Discovery[2] = "Keyword Footprint"
        /\ Discovery[3] = "GEO Baseline"
    BY DEF Discovery
  <2>3. 1..3 = {1, 2, 3}
    OBVIOUS
  <2>4. ToSet(Discovery) = {Discovery[i] : i \in {1, 2, 3}}
    BY <2>1, <2>3 DEF ToSet
  <2> QED
    BY <2>2, <2>4
<1>2. ToSet(Layer1) = {"Keyword Strategist", "Keyword Clusterer", "Competitor Intel",
         "Technical Auditor", "Site Style Analyzer", "Data Intelligence",
         "GBP Optimizer"}
  <2>1. DOMAIN Layer1 = 1..7
    BY DEF Layer1
  <2>2. /\ Layer1[1] = "Keyword Strategist"
        /\ Layer1[2] = "Keyword Clusterer"
        /\ Layer1[3] = "Competitor Intel"
        /\ Layer1[4] = "Technical Auditor"
        /\ Layer1[5] = "Site Style Analyzer"
        /\ Layer1[6] = "Data Intelligence"
        /\ Layer1[7] = "GBP Optimizer"
    BY DEF Layer1
  <2>3. 1..7 = {1, 2, 3, 4, 5, 6, 7}
    OBVIOUS
  <2>4. ToSet(Layer1) = {Layer1[i] : i \in {1, 2, 3, 4, 5, 6, 7}}
    BY <2>1, <2>3 DEF ToSet
  <2> QED
    BY <2>2, <2>4
<1>3. ToSet(Layer2) = {"E-E-A-T Architect", "Schema Engineer", "Vertical Matrix Generator"}
  <2>1. DOMAIN Layer2 = 1..3
    BY DEF Layer2
  <2>2. /\ Layer2[1] = "E-E-A-T Architect"
        /\ Layer2[2] = "Schema Engineer"
        /\ Layer2[3] = "Vertical Matrix Generator"
    BY DEF Layer2
  <2>3. 1..3 = {1, 2, 3}
    OBVIOUS
  <2>4. ToSet(Layer2) = {Layer2[i] : i \in {1, 2, 3}}
    BY <2>1, <2>3 DEF ToSet
  <2> QED
    BY <2>2, <2>4
<1>4. ToSet(Layer3) = {"Programmatic SEO"}
  <2>1. DOMAIN Layer3 = 1..1
    BY DEF Layer3
  <2>2. /\ Layer3[1] = "Programmatic SEO"
    BY DEF Layer3
  <2>3. 1..1 = {1}
    OBVIOUS
  <2>4. ToSet(Layer3) = {Layer3[i] : i \in {1}}
    BY <2>1, <2>3 DEF ToSet
  <2> QED
    BY <2>2, <2>4
<1>5. ToSet(Layer4) = {"Visual Content Optimizer", "GEO Optimizer", "Internal Linker",
         "Content Optimizer"}
  <2>1. DOMAIN Layer4 = 1..4
    BY DEF Layer4
  <2>2. /\ Layer4[1] = "Visual Content Optimizer"
        /\ Layer4[2] = "GEO Optimizer"
        /\ Layer4[3] = "Internal Linker"
        /\ Layer4[4] = "Content Optimizer"
    BY DEF Layer4
  <2>3. 1..4 = {1, 2, 3, 4}
    OBVIOUS
  <2>4. ToSet(Layer4) = {Layer4[i] : i \in {1, 2, 3, 4}}
    BY <2>1, <2>3 DEF ToSet
  <2> QED
    BY <2>2, <2>4
<1>6. ToSet(Layer6) = {"Rank Tracker", "GEO Query Generator", "GEO Monitor",
         "SERP Intelligence", "Reviews Intelligence", "ROI Attribution",
         "Content Duplicate Checker", "Perplexity Tracker", "GEO Gap Closer"}
  <2>1. DOMAIN Layer6 = 1..9
    BY DEF Layer6
  <2>2. /\ Layer6[1] = "Rank Tracker"
        /\ Layer6[2] = "GEO Query Generator"
        /\ Layer6[3] = "GEO Monitor"
        /\ Layer6[4] = "SERP Intelligence"
        /\ Layer6[5] = "Reviews Intelligence"
        /\ Layer6[6] = "ROI Attribution"
        /\ Layer6[7] = "Content Duplicate Checker"
        /\ Layer6[8] = "Perplexity Tracker"
        /\ Layer6[9] = "GEO Gap Closer"
    BY DEF Layer6
  <2>3. 1..9 = {1, 2, 3, 4, 5, 6, 7, 8, 9}
    OBVIOUS
  <2>4. ToSet(Layer6) = {Layer6[i] : i \in {1, 2, 3, 4, 5, 6, 7, 8, 9}}
    BY <2>1, <2>3 DEF ToSet
  <2> DEFINE Watchers == {"Rank Tracker", "GEO Query Generator", "GEO Monitor",
           "SERP Intelligence", "Reviews Intelligence", "ROI Attribution",
           "Content Duplicate Checker", "Perplexity Tracker", "GEO Gap Closer"}
             Places == {1, 2, 3, 4, 5, 6, 7, 8, 9}
  <2>5. \A i \in Places : Layer6[i] \in Watchers
    BY <2>2
  <2>6. \A a \in Watchers : \E i \in Places : a = Layer6[i]
    BY <2>2
  <2> HIDE DEF Watchers, Places
  <2>7. {Layer6[i] : i \in Places} = Watchers
    BY <2>5, <2>6
  <2> QED
    BY <2>4, <2>7 DEF Watchers, Places
<1>7. ToSet(Sending) = {"Publisher"}
  <2>1. DOMAIN Sending = 1..1
    BY DEF Sending
  <2>2. /\ Sending[1] = "Publisher"
    BY DEF Sending
  <2>3. 1..1 = {1}
    OBVIOUS
  <2>4. ToSet(Sending) = {Sending[i] : i \in {1}}
    BY <2>1, <2>3 DEF ToSet
  <2> QED
    BY <2>2, <2>4
<1>8. ToSet(Indexing) = {"Indexation Accelerator"}
  <2>1. DOMAIN Indexing = 1..1
    BY DEF Indexing
  <2>2. /\ Indexing[1] = "Indexation Accelerator"
    BY DEF Indexing
  <2>3. 1..1 = {1}
    OBVIOUS
  <2>4. ToSet(Indexing) = {Indexing[i] : i \in {1}}
    BY <2>1, <2>3 DEF ToSet
  <2> QED
    BY <2>2, <2>4
<1> QED
  BY <1>1, <1>2, <1>3, <1>4, <1>5, <1>6, <1>7, <1>8

\* Whatever agent runs, except the one that writes drafts.
LEMMA RunsHarmless ==
    ASSUME NEW d \in Db, NEW done, NEW a \in Agents, a # Writer, NEW o \in Runs(a, d, done)
    PROVE  Harmless(d, o)
<1>1. CASE a \in {"Site Inventory", "Keyword Footprint", "GEO Baseline", "Keyword Strategist",
                  "Keyword Clusterer", "Technical Auditor", "Site Style Analyzer",
                  "Data Intelligence", "GBP Optimizer"}
  BY <1>1, ResearchKept, KeptIsHarmless DEF Runs
<1>2. CASE a = "Competitor Intel"
  BY <1>2, CompetitorIntelKept, KeptIsHarmless DEF Runs
<1>3. CASE a \in {"Rank Tracker", "GEO Query Generator", "GEO Monitor", "SERP Intelligence",
                  "Reviews Intelligence", "ROI Attribution", "Content Duplicate Checker",
                  "Perplexity Tracker"}
  BY <1>3, MonitoringKept, KeptIsHarmless DEF Runs
<1>4. CASE a \in {"E-E-A-T Architect", "Schema Engineer", "Vertical Matrix Generator"}
  BY <1>4, PlanningHarmless DEF Runs
<1>5. CASE a \in {"Visual Content Optimizer", "GEO Optimizer", "Internal Linker"}
  BY <1>5, ImprovingHarmless DEF Runs
<1>6. CASE a = "Content Optimizer"
  BY <1>6, ContentOptimizerHarmless DEF Runs
<1>7. CASE a = "Publisher"
  BY <1>7, PublisherHarmless DEF Runs
<1>8. CASE a = "Indexation Accelerator"
  BY <1>8, Unchanged, KeptIsHarmless DEF Runs, IndexationAccelerator
<1>9. CASE a = "GEO Gap Closer"
  BY <1>9, GeoGapCloserHarmless DEF Runs
<1> QED
  <2>1. a \in ToSet(Discovery) \union ToSet(Layer1) \union ToSet(Layer2) \union ToSet(Layer3)
              \union ToSet(Layer4) \union ToSet(Sending) \union ToSet(Indexing) \union ToSet(Layer6)
    BY DEF Agents
  <2> QED
    BY <1>1, <1>2, <1>3, <1>4, <1>5, <1>6, <1>7, <1>8, <1>9, <2>1, Stages DEF Writer

------------------------------------------------------------------------------
(* The agent that writes drafts *)

\* Sets of pages are finite, and so is the count of those written.
LEMMA WrittenNowCounts ==
    ASSUME NEW e
    PROVE  /\ WrittenNow(e) \in Nat
           /\ NoneWritten(db, e) => WrittenNow(e) = 0
<1> DEFINE W == {s \in In(db, {"draft"}) : e.pages[s].at = "ready"}
<1>1. W \subseteq Slots
  BY DEF In
<1>2. IsFiniteSet(W)
  BY <1>1, FactsAssumption, FS_Subset
<1>3. Cardinality(W) \in Nat
  BY <1>2, FS_CardinalityType
<1>4. NoneWritten(db, e) => W = {}
  BY DEF NoneWritten, In
<1>5. W = {} => Cardinality(W) = 0
  BY FS_EmptySet
<1> QED
  BY <1>3, <1>4, <1>5 DEF WrittenNow

\* A batch: as many drafts as its size allows become ready, unscored and
\* unapproved; a run that is not done wrote none.
LEMMA WriterWrites ==
    ASSUME NEW done, db \in Db, NEW o \in ProgrammaticSeo(db, done)
    PROVE  /\ o.status \in Statuses
           /\ Sound(db, o.db)
           /\ db.one => WrittenNow(o.db) <= 1
           /\ o.status # "done" => NoneWritten(db, o.db)
<1>1. CASE o = Idle(db)
  <2>1. Harmless(db, o)
    BY <1>1, Unchanged, KeptIsHarmless
  <2>2. WrittenNow(o.db) = 0
    BY <2>1, WrittenNowCounts DEF Harmless
  <2> QED
    BY <2>1, <2>2 DEF Harmless
<1>2. CASE \E S \in Batches(db) : o = Done(Written(db, S))
  <2>1. PICK S \in Batches(db) : o = Done(Written(db, S))
    BY <1>2
  <2>2. S \subseteq In(db, {"draft"}) /\ Cardinality(S) <= BatchSize(db)
    BY DEF Batches
  <2> DEFINE f == [s \in Slots |->
                     IF s \in S THEN [db.pages[s] EXCEPT !.at = "ready", !.score = "none", !.approved = FALSE]
                     ELSE db.pages[s]]
  <2>3. db.pages \in [Slots -> Page]
    BY DbFields
  <2>4. ASSUME NEW p \in Page
        PROVE  /\ [p EXCEPT !.at = "ready", !.score = "none", !.approved = FALSE] \in Page
               /\ [p EXCEPT !.at = "ready", !.score = "none", !.approved = FALSE].at = "ready"
    BY DEF Page, PageStates
  <2>5. f \in [Slots -> Page]
    BY <2>3, <2>4
  <2>6. \A s \in Slots : IF s \in S THEN f[s].at = "ready" ELSE f[s] = db.pages[s]
    BY <2>3, <2>4
  <2>7. Written(db, S) = WithPages(db, f)
    BY DEF Written
  <2> HIDE DEF f
  <2>8. o.status = "done" /\ o.db \in Db /\ o.db.pages = f /\ o.db.one = db.one
    BY <2>1, <2>5, <2>7, DbPages DEF Done, Outcome
  <2>9. Sound(db, o.db)
    BY <2>6, <2>8 DEF Sound, StaysReviewed, Reviewed, In
  <2>10. ASSUME db.one PROVE WrittenNow(o.db) <= 1
    <3> DEFINE W == {s \in In(db, {"draft"}) : o.db.pages[s].at = "ready"}
    <3>1. W \subseteq S
      BY <2>6, <2>8 DEF In
    <3>2. IsFiniteSet(S)
      BY <2>2, FactsAssumption, FS_Subset DEF In
    <3>3. /\ Cardinality(W) \in Nat /\ Cardinality(S) \in Nat
          /\ Cardinality(W) <= Cardinality(S)
      BY <3>1, <3>2, FS_Subset, FS_CardinalityType
    <3>4. Cardinality(S) <= 1
      BY <2>2, <2>10 DEF BatchSize
    <3> QED
      BY <3>3, <3>4 DEF WrittenNow
  <2> QED
    BY <2>8, <2>9, <2>10 DEF Statuses
<1> QED
  BY <1>1, <1>2 DEF ProgrammaticSeo

\* Every run of every agent.
LEMMA AnyRun ==
    ASSUME db \in Db, NEW done, NEW a \in Agents, NEW o \in Runs(a, db, done)
    PROVE  /\ o.status \in Statuses
           /\ Sound(db, o.db)
           /\ WrittenNow(o.db) \in Nat
           /\ a # Writer => WrittenNow(o.db) = 0
           /\ db.one => WrittenNow(o.db) <= 1
           /\ o.status # "done" => WrittenNow(o.db) = 0
<1>1. CASE a # Writer
  BY <1>1, RunsHarmless, WrittenNowCounts DEF Harmless
<1>2. CASE a = Writer
  <2>1. o \in ProgrammaticSeo(db, done)
    BY <1>2 DEF Runs, Writer
  <2> QED
    BY <1>2, <2>1, WriterWrites, WrittenNowCounts
<1> QED
  BY <1>1, <1>2

\* What a run that is cut short leaves behind.
LEMMA CutShortWrites ==
    ASSUME db \in Db, prepared \in Nat, NEW a \in Agents, CutShort(a)
    PROVE  /\ Sound(db, db')
           /\ prepared' - prepared \in Nat
           /\ prepared' = prepared + (prepared' - prepared)
           /\ a # Writer => prepared' = prepared
           /\ db.one => prepared' <= prepared + 1
<1>1. PICK e \in {db} \union {o.db : o \in Runs(a, db, DoneSet)} :
        db' = e /\ prepared' = prepared + WrittenNow(e)
  BY DEF CutShort
<1>2. /\ Sound(db, e)
      /\ WrittenNow(e) \in Nat
      /\ a # Writer => WrittenNow(e) = 0
      /\ db.one => WrittenNow(e) <= 1
  <2>1. CASE e = db
    <3>1. NoneWritten(db, db)
      BY DEF NoneWritten
    <3>2. WrittenNow(db) = 0
      BY <3>1, WrittenNowCounts
    <3> QED
      BY <2>1, <3>2 DEF Sound, StaysReviewed
  <2>2. CASE \E o \in Runs(a, db, DoneSet) : e = o.db
    BY <2>2, AnyRun
  <2> QED
    BY <2>1, <2>2
<1> QED
  BY <1>1, <1>2

------------------------------------------------------------------------------
(* The Director's choice *)

\* The names the proofs look at.
LEMMA SomeAgents ==
    /\ Writer \in Agents /\ "Publisher" \in Agents /\ "Content Optimizer" \in Agents
    /\ Writer \notin {"Publisher", "Content Optimizer", "", "wait", "done", "error"}
<1>1. /\ ToSet(Layer3) \subseteq Agents
      /\ ToSet(Layer4) \subseteq Agents
      /\ ToSet(Sending) \subseteq Agents
  BY DEF Agents
<1> QED
  BY <1>1, Stages DEF Writer

\* The least of a few positions of a stage.
LEMMA LeastPosition ==
    ASSUME NEW I \in SUBSET 1..9, I # {}
    PROVE  Min(I) \in I
<1> SUFFICES \E x \in I : \A y \in I : x =< y
  BY DEF Min
<1> SUFFICES ASSUME \A x \in I : \E y \in I : y < x
             PROVE  FALSE
  OBVIOUS
<1>1. 1 \notin I  OBVIOUS
<1>2. 2 \notin I  BY <1>1
<1>3. 3 \notin I  BY <1>1, <1>2
<1>4. 4 \notin I  BY <1>1, <1>2, <1>3
<1>5. 5 \notin I  BY <1>1, <1>2, <1>3, <1>4
<1>6. 6 \notin I  BY <1>1, <1>2, <1>3, <1>4, <1>5
<1>7. 7 \notin I  BY <1>1, <1>2, <1>3, <1>4, <1>5, <1>6
<1>8. 8 \notin I  BY <1>1, <1>2, <1>3, <1>4, <1>5, <1>6, <1>7
<1>9. 9 \notin I  BY <1>1, <1>2, <1>3, <1>4, <1>5, <1>6, <1>7, <1>8
<1>10. PICK x \in I : TRUE
  OBVIOUS
<1>11. x \in 1..9
  OBVIOUS
<1>12. x \in {1, 2, 3, 4, 5, 6, 7, 8, 9}
  BY <1>11
<1> QED
  BY <1>1, <1>2, <1>3, <1>4, <1>5, <1>6, <1>7, <1>8, <1>9, <1>12

\* An agent is chosen from the stage, and only if it may start.
LEMMA NextInStage ==
    ASSUME NEW stage, Len(stage) \in 0..9, DOMAIN stage = 1..Len(stage),
           ToSet(stage) \subseteq Agents
    PROVE  NextIn(stage) = "" \/ (NextIn(stage) \in Agents /\ Startable(NextIn(stage)))
<1> DEFINE I == {i \in 1..Len(stage) : rows[stage[i]].status \notin {"done", "skipped"}}
           first == SelectInSeq(stage, LAMBDA a : rows[a].status \notin {"done", "skipped"})
<1>1. first = IF I # {} THEN Min(I) ELSE 0
  BY DEF SelectInSeq
<1>2. I \in SUBSET 1..9
  OBVIOUS
<1>3. first # 0 => first \in I
  BY <1>1, <1>2, LeastPosition
<1>4. first # 0 => stage[first] \in Agents
  BY <1>3 DEF ToSet
<1>5. NextIn(stage) = IF first # 0 /\ Active \cap ToSet(stage) = {} /\ Startable(stage[first])
                      THEN stage[first] ELSE ""
  BY DEF NextIn
<1> HIDE DEF I, first
<1> QED
  BY <1>4, <1>5

LEMMA EvaluateChooses ==
    Evaluate = "" \/ (Evaluate \in Agents /\ Startable(Evaluate))
<1> DEFINE Proper(stage) == /\ Len(stage) \in 0..9
                            /\ DOMAIN stage = 1..Len(stage)
                            /\ ToSet(stage) \subseteq Agents
<1>1. /\ Len(Discovery) = 3 /\ DOMAIN Discovery = 1..3
      /\ Len(Layer1) = 7 /\ DOMAIN Layer1 = 1..7
      /\ Len(Layer2) = 3 /\ DOMAIN Layer2 = 1..3
      /\ Len(Layer3) = 1 /\ DOMAIN Layer3 = 1..1
  BY DEF Discovery, Layer1, Layer2, Layer3
<1>2. /\ Len(Layer4) = 4 /\ DOMAIN Layer4 = 1..4
      /\ Len(Layer6) = 9 /\ DOMAIN Layer6 = 1..9
      /\ Len(Sending) = 1 /\ DOMAIN Sending = 1..1
      /\ Len(Indexing) = 1 /\ DOMAIN Indexing = 1..1
  BY DEF Layer4, Layer6, Sending, Indexing
<1>3. /\ ToSet(Discovery) \subseteq Agents
      /\ ToSet(Layer1) \subseteq Agents
      /\ ToSet(Layer2) \subseteq Agents
      /\ ToSet(Layer3) \subseteq Agents
      /\ ToSet(Layer4) \subseteq Agents
      /\ ToSet(Layer6) \subseteq Agents
      /\ ToSet(Sending) \subseteq Agents
      /\ ToSet(Indexing) \subseteq Agents
  BY DEF Agents
<1>4. Proper(Discovery) /\ Proper(Layer1) /\ Proper(Layer2) /\ Proper(Layer3)
  BY <1>1, <1>3
<1>5. Proper(Layer4) /\ Proper(Layer6) /\ Proper(Sending) /\ Proper(Indexing)
  BY <1>2, <1>3
<1>6. Proper(<<>>)
  <2>1. Len(<<>>) = 0 /\ DOMAIN <<>> = 1..0
    OBVIOUS
  <2> QED
    BY <2>1 DEF ToSet
<1> HIDE DEF Proper
<1> DEFINE I == {i \in 1..Len(Content) : ~ Settled(Content[i])}
           open == SelectInSeq(Content, LAMBDA stage : ~ Settled(stage))
<1>7. /\ Len(Content) = 4
      /\ Content[1] = Layer1 /\ Content[2] = Layer2 /\ Content[3] = Layer3 /\ Content[4] = Layer4
  BY DEF Content
<1>8. open # 0 => open \in 1..4
  <2>1. open = IF I # {} THEN Min(I) ELSE 0
    BY DEF SelectInSeq
  <2>2. I \in SUBSET 1..9 /\ I \in SUBSET 1..4
    BY <1>7
  <2> QED
    BY <2>1, <2>2, LeastPosition
<1>9. open # 0 => Proper(Content[open])
  BY <1>4, <1>5, <1>7, <1>8
<1>10. Turn = IF ~ db.world THEN Discovery
              ELSE IF open # 0 THEN Content[open]
              ELSE IF Approved(db) # {} /\ ~ Settled(Sending) THEN Sending
              ELSE IF Shown(db) = {} THEN <<>>
              ELSE IF ~ Settled(Indexing) THEN Indexing
              ELSE IF ~ Settled(Layer6) THEN Layer6
              ELSE <<>>
  BY DEF Turn
<1> HIDE DEF open, I
<1>11. Proper(Turn)
  BY <1>4, <1>5, <1>6, <1>9, <1>10
<1> QED
  BY <1>11, NextInStage DEF Evaluate, Proper

------------------------------------------------------------------------------
(* The types of the state *)

\* A reserved row, and how often it has run.
LEMMA ReservedTyped ==
    ASSUME rows \in [Agents -> Row], NEW a \in Agents, NEW job \in Jobs
    PROVE  Reserved(a, job) \in [Agents -> Row]
<1>1. PICK n \in 0..MaxRuns : n = Capped(rows[a].runs + 1)
  BY DEF Row, Capped, MaxRuns
<1>2. [status |-> "starting", runs |-> n, cooling |-> FALSE, fatal |-> FALSE, job |-> job] \in Row
  BY DEF Row
<1> QED
  BY <1>1, <1>2 DEF Reserved

LEMMA CappedRuns ==
    ASSUME NEW r \in Row
    PROVE  Capped(r.runs + 1) \in 0..MaxRuns
BY DEF Row, Capped, MaxRuns

\* Rows whose jobs are asked to stop.
LEMMA AskedTyped ==
    ASSUME rows \in [Agents -> Row], NEW S
    PROVE  Asked(S) \in [Agents -> Row]
<1>1. \A r \in Row : /\ [r EXCEPT !.status = "idle", !.job = "none"] \in Row
                     /\ [r EXCEPT !.job = "stopping"] \in Row
  BY DEF Row, Jobs
<1> QED
  BY <1>1 DEF Asked

LEMMA InitTyped ==
    ASSUME Init
    PROVE  TypeOK
<1>1. PICK b \in Beginnings :
        /\ rows = [a \in Agents |-> IF a \in b.done THEN DoneRow ELSE NewRow]
        /\ db = b.db
        /\ left = b.left
  BY DEF Init
<1>2. NewRow \in Row
  BY DEF NewRow, Row, Jobs, MaxRuns
<1>3. DoneRow \in Row
  <2>1. 1 \in 0..MaxRuns
    BY DEF MaxRuns
  <2> QED
    BY <1>2, <2>1 DEF DoneRow, Row
<1>4. rows \in [Agents -> Row]
  BY <1>1, <1>2, <1>3
<1> QED
  BY <1>1, <1>4, BeginningsAssumption DEF Init, TypeOK, Off, Outlook, Endings

\* What is left to happen.
LEMMA SpendTyped ==
    ASSUME TypeOK, NEW kind \in {"faults", "moves", "days"}, Spend(kind)
    PROVE  left' \in [{"faults", "moves", "days"} -> Nat]
<1>1. left \in [{"faults", "moves", "days"} -> Nat]
  BY DEF TypeOK
<1>2. left[kind] \in Nat /\ left[kind] - 1 \in Nat /\ left' = [left EXCEPT ![kind] = left[kind] - 1]
  BY <1>1 DEF Spend
<1> QED
  BY <1>1, <1>2

\* The Director's states.
LEMMA DirTyped ==
    ASSUME TypeOK, NEW plan \in Outlook, NEW how \in Endings
    PROVE  /\ [dir EXCEPT !.plan = plan] \in [on: BOOLEAN, plan: Outlook, ended: Endings]
           /\ Off(how) \in [on: BOOLEAN, plan: Outlook, ended: Endings]
           /\ On \in [on: BOOLEAN, plan: Outlook, ended: Endings]
BY DEF TypeOK, Off, On, Outlook, Endings

LEMMA CycleTyped ==
    ASSUME TypeOK, Cycle
    PROVE  TypeOK'
<1>1. CASE Assess
  <2>1. PICK plan \in Outlook : dir' = [dir EXCEPT !.plan = plan]
    BY <1>1, EvaluateChooses DEF Assess, Outlook
  <2>2. PICK h \in BOOLEAN : db' = [db EXCEPT !.world = h]
    <3>1. PICK h : h = (db.world \/ (~ CheckDeadlock /\ Settled(Discovery)))
      OBVIOUS
    <3>2. h \in BOOLEAN
      BY <3>1, DbFields DEF TypeOK
    <3> QED
      BY <1>1, <3>1, <3>2 DEF Assess
  <2>3. db' \in Db
    BY <2>2, DbNotes DEF TypeOK
  <2> QED
    BY <1>1, <2>1, <2>3, DirTyped DEF Assess, TypeOK
<1>2. CASE Wait \/ EndDone
  <2>1. dir' \in [on: BOOLEAN, plan: Outlook, ended: Endings]
    BY <1>2, DirTyped DEF Wait, Again, EndDone, Outlook, Endings
  <2> QED
    BY <1>2, <2>1 DEF Wait, EndDone, TypeOK
<1>3. CASE EndError
  <2>1. dir' \in [on: BOOLEAN, plan: Outlook, ended: Endings]
    BY <1>3, DirTyped DEF EndError, Outlook, Endings
  <2>3. rows' \in [Agents -> Row]
    BY <1>3, AskedTyped DEF EndError, TypeOK
  <2> QED
    BY <1>3, <2>1, <2>3 DEF EndError, TypeOK
<1>4. ASSUME NEW a \in Agents, Start(a) \/ StartRefused(a) \/ PrereqFailed(a)
      PROVE  TypeOK'
  <2>1. dir' \in [on: BOOLEAN, plan: Outlook, ended: Endings]
    BY <1>4, DirTyped DEF Start, StartRefused, PrereqFailed, Again, Outlook, Endings
  <2>2. rows[a] \in Row
    BY DEF TypeOK
  <2>3. Capped(rows[a].runs + 1) \in 0..MaxRuns /\ MaxRuns \in 0..MaxRuns
    BY <2>2, CappedRuns DEF MaxRuns
  <2>4. rows' \in [Agents -> Row]
    <3>1. CASE rows' = Reserved(a, "child")
      BY <3>1, ReservedTyped DEF TypeOK, Jobs
    <3>2. CASE rows' = [rows EXCEPT ![a].status = "error", ![a].runs = MaxRuns]
      <4>1. [rows[a] EXCEPT !.status = "error", !.runs = MaxRuns] \in Row
        BY <2>2, <2>3 DEF Row
      <4>2. rows' = [rows EXCEPT ![a] = [rows[a] EXCEPT !.status = "error", !.runs = MaxRuns]]
        BY <3>2
      <4> QED
        BY <4>1, <4>2 DEF TypeOK
    <3>3. CASE rows' = rows
      BY <3>3 DEF TypeOK
    <3> QED
      BY <1>4, <3>1, <3>2, <3>3 DEF Start, StartRefused, PrereqFailed
  <2> QED
    BY <1>4, <2>1, <2>4 DEF Start, StartRefused, PrereqFailed, TypeOK
<1> QED
  BY <1>1, <1>2, <1>3, <1>4 DEF Cycle

LEMMA AgentTyped ==
    ASSUME TypeOK, NEW a \in Agents, Work(a) \/ StartFails(a) \/ Raises(a) \/ Dies(a)
    PROVE  TypeOK'
<1>1. rows[a] \in Row /\ db \in Db
  BY DEF TypeOK
<1>2. CASE Begins(a)
  <2>1. PICK st \in {"working", "idle"}, j \in Jobs :
          rows' = [rows EXCEPT ![a].status = st, ![a].job = j]
    <3>1. PICK st : st = IF Ready(a) THEN "working" ELSE "idle"
      OBVIOUS
    <3>2. PICK j : j = IF Ready(a) THEN rows[a].job ELSE "none"
      OBVIOUS
    <3>3. st \in {"working", "idle"} /\ j \in Jobs
      BY <1>1, <3>1, <3>2 DEF Row, Jobs
    <3>4. rows' = [rows EXCEPT ![a].status = st, ![a].job = j]
      BY <1>1, <1>2, <3>1, <3>2 DEF Begins, TypeOK
    <3> QED
      BY <3>3, <3>4
  <2>2. rows' \in [Agents -> Row]
    BY <1>1, <2>1 DEF TypeOK, Row
  <2> QED
    BY <1>2, <2>2 DEF Begins, TypeOK
<1>3. CASE Ends(a)
  <2>1. PICK o \in Runs(a, db, DoneSet) :
          /\ Finish(a, o)
          /\ Fault \/ UNCHANGED left
    BY <1>3 DEF Ends
  <2>2. o.status \in Statuses /\ Sound(db, o.db) /\ WrittenNow(o.db) \in Nat
    BY <1>1, AnyRun
  <2>3. PICK st \in {"done", "skipped", "error"}, c \in BOOLEAN :
          rows' = [rows EXCEPT ![a].status = st, ![a].cooling = c, ![a].job = "none"]
    <3>1. Recorded(o.status) \in {"done", "skipped", "error"}
      BY <2>2 DEF Recorded, Statuses
    <3> QED
      BY <2>1, <3>1 DEF Finish
  <2>4. rows' \in [Agents -> Row]
    BY <1>1, <2>3 DEF TypeOK, Row, Jobs
  <2>5. left' \in [{"faults", "moves", "days"} -> Nat]
    BY <2>1, SpendTyped DEF Fault, TypeOK
  <2>6. db' \in Db
    BY <2>1, <2>2 DEF Finish, Sound
  <2>7. prepared' \in Nat
    <3>1. prepared' = prepared + WrittenNow(o.db) /\ prepared \in Nat
      BY <2>1 DEF Finish, TypeOK
    <3> QED
      BY <2>2, <3>1
  <2> QED
    BY <1>3, <2>4, <2>5, <2>6, <2>7 DEF Ends, TypeOK
<1>4. CASE Raises(a) \/ Dies(a) \/ Stops(a)
  <2>1. CutShort(a)
    BY <1>4 DEF Raises, Dies, Stops
  <2>2. db' \in Db /\ prepared' \in Nat /\ dir' = dir /\ daily' = daily
    <3>1. prepared \in Nat
      BY DEF TypeOK
    <3> QED
      BY <1>1, <2>1, <3>1, CutShortWrites DEF CutShort, Sound
  <2>3. rows' \in [Agents -> Row]
    <3>1. CASE Raises(a)
      <4>1. rows' = [rows EXCEPT ![a].status = "error", ![a].cooling = TRUE, ![a].job = "none"]
        BY <3>1 DEF Raises
      <4> QED
        BY <1>1, <4>1 DEF TypeOK, Row, Jobs
    <3>2. CASE Dies(a)
      <4>1. rows' = [rows EXCEPT ![a].status = "error", ![a].cooling = TRUE, ![a].fatal = TRUE,
                                 ![a].job = "none"]
        BY <3>2 DEF Dies
      <4> QED
        BY <1>1, <4>1 DEF TypeOK, Row, Jobs
    <3>3. CASE Stops(a)
      <4>1. rows' = [rows EXCEPT ![a].status = "idle", ![a].cooling = FALSE, ![a].job = "none"]
        BY <3>3 DEF Stops
      <4> QED
        BY <1>1, <4>1 DEF TypeOK, Row, Jobs
    <3> QED
      BY <1>4, <3>1, <3>2, <3>3
  <2>4. left' \in [{"faults", "moves", "days"} -> Nat]
    BY <1>4, SpendTyped DEF Raises, Dies, Stops, Fault, TypeOK
  <2>5. upset' \in BOOLEAN
    BY <1>4 DEF Raises, Dies, Stops, TypeOK
  <2> QED
    BY <2>2, <2>3, <2>4, <2>5 DEF TypeOK
<1>5. CASE Cools(a)
  <2>1. rows' = [rows EXCEPT ![a].cooling = FALSE]
    BY <1>5 DEF Cools
  <2>2. rows' \in [Agents -> Row]
    BY <1>1, <2>1 DEF TypeOK, Row
  <2> QED
    BY <1>5, <2>2 DEF Cools, TypeOK
<1>6. CASE StartFails(a)
  <2>1. Capped(rows[a].runs + 1) \in 0..MaxRuns
    BY <1>1, CappedRuns
  <2>2. PICK n \in 0..MaxRuns :
          rows' = [rows EXCEPT ![a].status = "error", ![a].runs = n, ![a].cooling = TRUE]
    BY <1>6, <2>1 DEF StartFails, Errs
  <2>3. rows' \in [Agents -> Row]
    BY <1>1, <2>2 DEF TypeOK, Row
  <2>4. left' \in [{"faults", "moves", "days"} -> Nat]
    BY <1>6, SpendTyped DEF StartFails, Fault
  <2>5. dir' \in [on: BOOLEAN, plan: Outlook, ended: Endings]
    BY <1>6, DirTyped DEF StartFails, Again, Outlook, Endings
  <2> QED
    BY <1>6, <2>3, <2>4, <2>5 DEF StartFails, TypeOK
<1> QED
  BY <1>2, <1>3, <1>4, <1>5, <1>6 DEF Work

\* Rows that are made idle.
LEMMA IdledTyped ==
    ASSUME TypeOK, NEW names
    PROVE  Idled(names) \in [Agents -> Row]
<1>1. \A r \in Row : [r EXCEPT !.status = "idle"] \in Row
  BY DEF Row
<1> QED
  BY <1>1 DEF TypeOK, Idled

\* A page that a person or the host changes.
LEMMA PageTyped ==
    ASSUME TypeOK, NEW s \in Slots, NEW p \in Page
    PROVE  [db EXCEPT !.pages[s] = p] \in Db
BY DEF TypeOK, Db

LEMMA PersonTyped ==
    ASSUME TypeOK, NEW s \in Slots, Deploys(s) \/ Approve(s) \/ SendBack(s)
    PROVE  TypeOK'
<1>1. db.pages[s] \in Page
  BY DbFields DEF TypeOK
<1>2. PICK p \in Page : db' = [db EXCEPT !.pages[s] = p]
  <2>1. CASE Deploys(s)
    <3>1. [db.pages[s] EXCEPT !.at = "published"] \in Page
      BY <1>1 DEF Page, PageStates
    <3> QED
      BY <2>1, <3>1 DEF Deploys
  <2>2. CASE Approve(s)
    <3>1. [db.pages[s] EXCEPT !.at = "ready", !.approved = TRUE] \in Page
      BY <1>1 DEF Page, PageStates
    <3>2. db' = [db EXCEPT !.pages[s] = [db.pages[s] EXCEPT !.at = "ready", !.approved = TRUE]]
      BY <2>2 DEF Approve, TypeOK, Db
    <3> QED
      BY <3>1, <3>2
  <2>3. CASE SendBack(s)
    <3>1. Returned(db.pages[s]) \in Page
      BY <1>1 DEF Returned, Page, PageStates
    <3> QED
      BY <2>3, <3>1 DEF SendBack
  <2> QED
    BY <2>1, <2>2, <2>3
<1>3. db' \in Db
  BY <1>2, PageTyped
<1>6. dir' = dir /\ daily' = daily
  BY Zenon DEF Deploys, Approve, SendBack
<1>7. prepared' = prepared /\ upset' \in BOOLEAN
  BY DEF Deploys, Approve, SendBack, TypeOK
<1>4. left' \in [{"faults", "moves", "days"} -> Nat]
  BY SpendTyped DEF Deploys, Approve, SendBack, Move, TypeOK
<1>5. rows' \in [Agents -> Row]
  <2>1. rows \in [Agents -> Row]
    BY DEF TypeOK
  <2>2. \/ rows' = rows
        \/ rows' = Idled({"Publisher"})
        \/ rows' = Idled({"Programmatic SEO", "Publisher"} \union ToSet(Layer4))
    BY Zenon DEF Deploys, Approve, SendBack
  <2> QED
    BY <2>1, <2>2, IdledTyped
<1> QED
  <2>0. prepared \in Nat
    BY DEF TypeOK
  <2>1. prepared' \in Nat /\ upset' \in BOOLEAN
    BY <1>7, <2>0
  <2>2. dir' \in [on: BOOLEAN, plan: Outlook, ended: Endings]
    BY <1>6 DEF TypeOK
  <2>3. daily' \in BOOLEAN
    BY <1>6 DEF TypeOK
  <2> QED
    BY <1>3, <1>4, <1>5, <2>1, <2>2, <2>3 DEF TypeOK

LEMMA ByHandTyped ==
    ASSUME TypeOK, NEW a \in Agents, StartByHand(a) \/ StopByHand(a) \/ StopAll
    PROVE  TypeOK'
<1>0. rows \in [Agents -> Row]
  BY DEF TypeOK
<1>1. left' \in [{"faults", "moves", "days"} -> Nat]
  BY SpendTyped DEF StartByHand, StopByHand, StopAll, Move
<1>2. upset' \in BOOLEAN
  BY DEF StartByHand, StopByHand, StopAll, TypeOK
<1>3. CASE StartByHand(a)
  <2>1. rows' \in [Agents -> Row]
    BY <1>0, <1>3, ReservedTyped DEF StartByHand, Jobs
  <2> QED
    BY <1>1, <1>2, <1>3, <2>1 DEF StartByHand, TypeOK
<1>4. CASE StopByHand(a)
  <2>1. rows' \in [Agents -> Row]
    BY <1>0, <1>4, AskedTyped DEF StopByHand
  <2> QED
    BY <1>1, <1>2, <1>4, <2>1 DEF StopByHand, TypeOK
<1>5. CASE StopAll
  <2>1. Asked(Agents) \in [Agents -> Row]
    BY <1>0, AskedTyped
  <2>2. \A r \in Row : [r EXCEPT !.status = "idle", !.runs = 0] \in Row
    <3>1. 0 \in 0..MaxRuns
      BY DEF MaxRuns
    <3> QED
      BY <3>1 DEF Row
  <2>3. rows' \in [Agents -> Row]
    BY <1>5, <2>1, <2>2 DEF StopAll
  <2>4. dir' \in [on: BOOLEAN, plan: Outlook, ended: Endings]
    <3>1. "stopped" \in Endings /\ "" \in Outlook
      BY DEF Endings, Outlook
    <3>2. Off("stopped") \in [on: BOOLEAN, plan: Outlook, ended: Endings]
      BY <3>1, DirTyped
    <3> QED
      BY <1>5, <3>2 DEF StopAll, TypeOK
  <2> QED
    BY <1>1, <1>2, <1>5, <2>3, <2>4 DEF StopAll, TypeOK
<1> QED
  BY <1>3, <1>4, <1>5

LEMMA ScheduleTyped ==
    ASSUME TypeOK, GiveUp \/ StartDirector \/ DailyFalls \/ DailyContinues \/ DailyBatch
    PROVE  TypeOK'
<1>1. CASE GiveUp
  <2>1. left' \in [{"faults", "moves", "days"} -> Nat]
    BY <1>1, SpendTyped DEF GiveUp, Fault
  <2>2. dir' \in [on: BOOLEAN, plan: Outlook, ended: Endings]
    BY <1>1, DirTyped DEF GiveUp, Outlook, Endings
  <2> QED
    BY <1>1, <2>1, <2>2 DEF GiveUp, TypeOK
<1>2. CASE StartDirector
  <2>1. left' \in [{"faults", "moves", "days"} -> Nat]
    BY <1>2, SpendTyped DEF StartDirector, Move
  <2>2. dir' \in [on: BOOLEAN, plan: Outlook, ended: Endings]
    BY <1>2, DirTyped DEF StartDirector, Outlook, Endings
  <2> QED
    BY <1>2, <2>1, <2>2 DEF StartDirector, TypeOK
<1>3. CASE DailyFalls
  <2>1. left' \in [{"faults", "moves", "days"} -> Nat]
    BY <1>3, SpendTyped DEF DailyFalls
  <2> QED
    BY <1>3, <2>1 DEF DailyFalls, TypeOK
<1>4. CASE DailyContinues
  <2>1. PICK a \in Agents : rows' = Reserved(a, "own") \/ rows' = rows
    BY <1>4, SomeAgents DEF DailyContinues, Continues
  <2>3. rows' \in [Agents -> Row]
    BY <2>1, ReservedTyped DEF TypeOK, Jobs
  <2> QED
    BY <1>4, <2>3 DEF DailyContinues, TypeOK
<1>5. CASE DailyBatch
  <2>1. \A r \in Row : [r EXCEPT !.status = "idle", !.runs = 0] \in Row
    <3>1. 0 \in 0..MaxRuns
      BY DEF MaxRuns
    <3> QED
      BY <3>1 DEF Row
  <2>2. rows' \in [Agents -> Row]
    BY <1>5, <2>1 DEF DailyBatch, TypeOK
  <2>3. db' \in Db
    <3>1. db \in Db /\ db' = [db EXCEPT !.one = TRUE]
      BY <1>5 DEF DailyBatch, TypeOK
    <3> QED
      BY <3>1, DbNotes
  <2>4. dir' \in [on: BOOLEAN, plan: Outlook, ended: Endings]
    BY <1>5, DirTyped DEF DailyBatch, TypeOK, Outlook, Endings
  <2> QED
    BY <1>5, <2>2, <2>3, <2>4 DEF DailyBatch, TypeOK
<1> QED
  BY <1>1, <1>2, <1>3, <1>4, <1>5

LEMMA NextTyped ==
    ASSUME TypeOK, [Next]_vars
    PROVE  TypeOK'
<1>1. CASE UNCHANGED vars
  BY <1>1 DEF vars, TypeOK
<1> QED
  BY <1>1, CycleTyped, AgentTyped, PersonTyped, ByHandTyped, ScheduleTyped, ByHandAssumption,
     SomeAgents DEF Next

\* Every variable keeps its type: in particular no page is rewritten for its
\* score more than MaxRewrites times in its life.
THEOREM PipelineTyped == Spec => []TypeOK
<1>1. Init => TypeOK
  BY InitTyped
<1>2. TypeOK /\ [Next]_vars => TypeOK'
  BY NextTyped
<1> QED
  BY <1>1, <1>2, PTL DEF Spec

------------------------------------------------------------------------------
(* Published as reviewed *)

LEMMA NextReviewed ==
    ASSUME TypeOK, PublishedAsReviewed, [Next]_vars
    PROVE  PublishedAsReviewed'
<1> SUFFICES Reviewed(db')
  BY DEF PublishedAsReviewed, Reviewed, In
<1>0. Reviewed(db) /\ db \in Db /\ db.pages \in [Slots -> Page]
  BY DbFields DEF PublishedAsReviewed, TypeOK
<1>1. ASSUME db'.pages = db.pages PROVE Reviewed(db')
  BY <1>0, <1>1 DEF Reviewed, In
<1>2. CASE Assess \/ DailyBatch
  <2>1. db'.pages = db.pages
    BY <1>0, <1>2 DEF Assess, DailyBatch, Db
  <2> QED
    BY <1>1, <2>1
<1>3. ASSUME NEW a \in Agents, Ends(a) \/ Stops(a) \/ Raises(a) \/ Dies(a) PROVE Reviewed(db')
  <2>1. CASE Ends(a)
    <3>1. PICK o \in Runs(a, db, DoneSet) : db' = o.db
      BY <2>1 DEF Ends, Finish
    <3>2. Sound(db, o.db)
      BY <1>0, AnyRun
    <3> QED
      BY <1>0, <3>1, <3>2 DEF Sound, StaysReviewed
  <2>2. CASE CutShort(a)
    BY <1>0, <2>2, CutShortWrites DEF Sound, StaysReviewed, TypeOK
  <2> QED
    BY <1>3, <2>1, <2>2 DEF Stops, Raises, Dies
<1>4. ASSUME NEW s \in Slots, Deploys(s) \/ Approve(s) \/ SendBack(s) PROVE Reviewed(db')
  <2>1. CASE Deploys(s)
    <3>1. /\ db.pages[s].at = "publishing"
          /\ db' = [db EXCEPT !.pages[s] = [db.pages[s] EXCEPT !.at = "published"]]
      BY <2>1 DEF Deploys
    <3>2. PICK p : p = [db.pages[s] EXCEPT !.at = "published"]
      OBVIOUS
    <3>3. p.approved = db.pages[s].approved /\ p.score = db.pages[s].score
      BY <1>0, <3>2 DEF Page
    <3>4. db'.pages = [db.pages EXCEPT ![s] = p]
      BY <1>0, <3>1, <3>2 DEF Db
    <3> QED
      BY <1>0, <3>1, <3>3, <3>4 DEF Reviewed, In
  <2>2. CASE Approve(s) \/ SendBack(s)
    <3>1. PICK p \in Page : p.at \in {"ready", "draft"} /\ db' = [db EXCEPT !.pages[s] = p]
      <4>1. CASE Approve(s)
        <5>1. db' = [db EXCEPT !.pages[s] = [db.pages[s] EXCEPT !.at = "ready", !.approved = TRUE]]
          BY <1>0, <4>1 DEF Approve, Db
        <5>2. /\ [db.pages[s] EXCEPT !.at = "ready", !.approved = TRUE] \in Page
              /\ [db.pages[s] EXCEPT !.at = "ready", !.approved = TRUE].at = "ready"
          BY <1>0 DEF Page, PageStates
        <5> QED
          BY <5>1, <5>2
      <4>2. CASE SendBack(s)
        <5>1. db' = [db EXCEPT !.pages[s] = Returned(db.pages[s])]
          BY <4>2 DEF SendBack
        <5>2. Returned(db.pages[s]) \in Page /\ Returned(db.pages[s]).at = "draft"
          BY <1>0 DEF Returned, Page, PageStates
        <5> QED
          BY <5>1, <5>2
      <4> QED
        BY <2>2, <4>1, <4>2
    <3>2. db'.pages = [db.pages EXCEPT ![s] = p]
      BY <1>0, <3>1 DEF Db
    <3> QED
      BY <1>0, <3>1, <3>2 DEF Reviewed, In
  <2> QED
    BY <1>4, <2>1, <2>2
<1>5. ASSUME UNCHANGED db PROVE Reviewed(db')
  BY <1>0, <1>5
<1>6. CASE UNCHANGED vars \/ GiveUp \/ StartDirector \/ DailyFalls \/ DailyContinues \/ Wait
           \/ EndDone \/ EndError \/ StopAll
  BY <1>5, <1>6 DEF vars, GiveUp, StartDirector, DailyFalls, DailyContinues, Wait, EndDone, EndError, StopAll
<1>7. ASSUME NEW a \in Agents,
             \/ Start(a) \/ StartRefused(a) \/ PrereqFailed(a) \/ StartFails(a) \/ Begins(a) \/ Cools(a)
             \/ StartByHand(a) \/ StopByHand(a)
      PROVE  Reviewed(db')
  BY <1>5, <1>7 DEF Start, StartRefused, PrereqFailed, StartFails, Begins, Cools, StartByHand, StopByHand
<1> QED
  BY <1>2, <1>3, <1>4, <1>6, <1>7, ByHandAssumption DEF Next, Cycle, Work

\* A page that is being published, or is shown as published, is the text that a
\* person approved, with the score it had then: of all agents, of the reviews
\* and of the deployments of a tenant, for any pages, limits and settings.
THEOREM ReviewHolds == Spec => []PublishedAsReviewed
<1>1. Init => PublishedAsReviewed
  BY BeginningsAssumption DEF Init, PublishedAsReviewed
<1>2. TypeOK /\ PublishedAsReviewed /\ [Next]_vars => PublishedAsReviewed'
  BY NextReviewed
<1> QED
  BY <1>1, <1>2, PipelineTyped, PTL DEF Spec

------------------------------------------------------------------------------
(* One draft a day *)

\* Once the writer has written the draft of a batch of one, nothing but what upset
\* tells of lets it run again: it is done, or its job must not be retried; and the
\* Director does not plan to start it, for it decided that, if at all, while the row
\* was idle or in an error to be retried, and nobody else has started it since.
\* A Director that is off plans nothing, so that a new day begins without a plan.
Stopped == \/ rows[Writer].status = "done"
           \/ rows[Writer].status = "error" /\ rows[Writer].fatal

BatchInv ==
    /\ ~ dir.on => dir.plan # Writer
    /\ ~ upset /\ dir.plan = Writer => rows[Writer].status \in {"idle", "error"}
    /\ ~ upset /\ db.one => /\ prepared <= 1
                            /\ prepared # 0 => Stopped /\ dir.plan # Writer

\* Steps that leave the writer, and what it wrote, alone.
LEMMA WriterAlone ==
    ASSUME BatchInv,
           rows'[Writer].status = rows[Writer].status,
           rows'[Writer].fatal = rows[Writer].fatal,
           prepared' = prepared,
           db'.one = db.one,
           upset => upset',
           dir' = dir \/ dir'.plan # Writer
    PROVE  BatchInv'
BY DEF BatchInv, Stopped

\* Steps after which nothing was written, as long as the writer was stopped only then.
LEMMA WriterFresh ==
    ASSUME prepared' = 0,
           ~ dir'.on => dir'.plan # Writer,
           ~ upset' /\ dir'.plan = Writer => rows'[Writer].status \in {"idle", "error"}
    PROVE  BatchInv'
BY DEF BatchInv

\* Steps of a writer that is not stopped and is no longer planned, without a text.
LEMMA WriterMoves ==
    ASSUME TypeOK, BatchInv, ~ Stopped \/ dir.plan = Writer,
           dir'.plan # Writer,
           prepared' = prepared,
           upset => upset',
           db'.one = db.one
    PROVE  BatchInv'
<1>1. ~ upset /\ db.one => prepared = 0
  BY DEF BatchInv
<1> QED
  BY <1>1 DEF BatchInv

\* Steps after which a second draft is owned up to.
LEMMA WriterUpset ==
    ASSUME upset',
           ~ dir'.on => dir'.plan # Writer
    PROVE  BatchInv'
BY DEF BatchInv

LEMMA CycleBatch ==
    ASSUME TypeOK, BatchInv, Cycle
    PROVE  BatchInv'
<1>0. Writer \in Agents /\ Writer \notin {"", "wait", "done", "error"} /\ rows \in [Agents -> Row]
  BY SomeAgents DEF TypeOK
<1>1. CASE Assess
  <2>1. rows' = rows /\ prepared' = prepared /\ upset' = upset /\ dir'.on
    BY <1>1 DEF Assess, TypeOK
  <2>2. db'.one = db.one
    BY <1>1 DEF Assess, TypeOK, Db
  <2>3. PICK plan : /\ dir'.plan = plan
                    /\ plan \in {"error", "done", "wait"} \/ (plan = Evaluate /\ Evaluate # "")
    BY <1>1 DEF Assess, TypeOK
  <2>4. CASE plan # Writer
    BY <2>1, <2>2, <2>3, <2>4, WriterAlone
  <2>5. CASE plan = Writer
    <3>1. Startable(Writer)
      BY <1>0, <2>3, <2>5, EvaluateChooses
    <3>2. rows[Writer].status \in {"idle", "error"} /\ ~ Stopped
      BY <3>1 DEF Startable, Retriable, Stopped
    <3>3. ~ upset /\ db.one => prepared = 0
      BY <3>2 DEF BatchInv
    <3> QED
      BY <2>1, <2>2, <3>2, <3>3 DEF BatchInv
  <2> QED
    BY <2>4, <2>5
<1>2. CASE Wait \/ EndDone
  <2>1. dir'.plan = ""
    <3>1. CASE Wait
      BY <3>1 DEF Wait, Again, TypeOK
    <3>2. CASE EndDone
      BY <3>2 DEF EndDone, Off
    <3> QED
      BY <1>2, <3>1, <3>2
  <2>2. UNCHANGED <<rows, db, prepared, upset>>
    BY <1>2 DEF Wait, EndDone
  <2>3. dir'.plan # Writer /\ (upset => upset')
    BY <1>0, <2>1, <2>2, Zenon
  <2> QED
    BY <2>2, <2>3, WriterAlone
<1>3. CASE EndError
  <2>1. dir'.plan # Writer
    BY <1>0, <1>3 DEF EndError, Off
  <2>2. prepared' = prepared /\ db'.one = db.one /\ upset' = upset
    BY <1>3 DEF EndError
  <2>3. CASE Writer \in Active
    <3>1. ~ Stopped
      BY <2>3 DEF Active, Stopped
    <3> QED
      BY <2>1, <2>2, <3>1, WriterMoves
  <2>4. CASE Writer \notin Active
    <3>1. rows'[Writer] = rows[Writer]
      BY <1>0, <1>3, <2>4 DEF EndError, Asked, Active
    <3> QED
      BY <2>1, <2>2, <3>1, WriterAlone
  <2> QED
    BY <2>3, <2>4
<1>4. ASSUME NEW a \in Agents, Start(a) \/ StartRefused(a) \/ PrereqFailed(a)
      PROVE  BatchInv'
  <2>1. dir.plan = a /\ dir'.plan # Writer
    BY <1>0, <1>4 DEF Start, StartRefused, PrereqFailed, Planned, Again, TypeOK
  <2>2. prepared' = prepared /\ db'.one = db.one /\ upset' = upset
    BY <1>4 DEF Start, StartRefused, PrereqFailed
  <2>3. CASE a = Writer
    BY <2>1, <2>2, <2>3, WriterMoves
  <2>4. CASE a # Writer
    <3>1. rows'[Writer] = rows[Writer]
      BY <1>0, <1>4, <2>4 DEF Start, StartRefused, PrereqFailed, Reserved
    <3> QED
      BY <2>1, <2>2, <3>1, WriterAlone
  <2> QED
    BY <2>3, <2>4
<1> QED
  BY <1>1, <1>2, <1>3, <1>4 DEF Cycle

LEMMA AgentBatch ==
    ASSUME TypeOK, BatchInv, NEW a \in Agents, Work(a) \/ StartFails(a) \/ Raises(a) \/ Dies(a)
    PROVE  BatchInv'
<1>0. Writer \in Agents /\ Writer \notin {"", "wait", "done", "error"} /\ rows \in [Agents -> Row]
  BY SomeAgents DEF TypeOK
<1>1. CASE StartFails(a)
  <2>1. dir.plan = a /\ dir'.plan # Writer
    BY <1>0, <1>1 DEF StartFails, Planned, Again, TypeOK
  <2>2. prepared' = prepared /\ db'.one = db.one /\ upset' = upset
    BY <1>1 DEF StartFails
  <2>3. CASE a = Writer
    BY <2>1, <2>2, <2>3, WriterMoves
  <2>4. CASE a # Writer
    <3>1. rows'[Writer] = rows[Writer]
      BY <1>0, <1>1, <2>4 DEF StartFails, Errs
    <3> QED
      BY <2>1, <2>2, <3>1, WriterAlone
  <2> QED
    BY <2>3, <2>4
<1>2. CASE Cools(a)
  <2>1. /\ rows'[Writer].status = rows[Writer].status
        /\ rows'[Writer].fatal = rows[Writer].fatal
    BY <1>0, <1>2 DEF Cools, Row
  <2> QED
    BY <1>2, <2>1, WriterAlone DEF Cools
<1>3. CASE Begins(a)
  <2>1. UNCHANGED <<db, dir, daily, prepared, upset, left>>
    BY <1>3 DEF Begins
  <2>2. CASE a = Writer
    <3>1. rows[Writer].status = "starting"
      BY <1>3, <2>2 DEF Begins
    <3>2. ~ Stopped /\ (upset \/ dir.plan # Writer)
      BY <3>1 DEF Stopped, BatchInv
    <3>3. ~ dir'.on => dir'.plan # Writer
      BY <2>1 DEF BatchInv
    <3> QED
      BY <2>1, <3>2, <3>3, WriterMoves, WriterUpset
  <2>3. CASE a # Writer
    <3>1. rows'[Writer] = rows[Writer]
      BY <1>0, <1>3, <2>3 DEF Begins
    <3> QED
      BY <2>1, <3>1, WriterAlone
  <2> QED
    BY <2>2, <2>3
<1>4. CASE Ends(a) /\ a = Writer
  <2>1. PICK o \in Runs(a, db, DoneSet) : Finish(a, o)
    BY <1>4 DEF Ends
  <2>2. dir' = dir /\ upset' = upset /\ rows[a].status = "working" /\ db \in Db /\ prepared \in Nat
    BY <1>4 DEF Ends, TypeOK
  <2>3. /\ o.status \in Statuses
        /\ Sound(db, o.db)
        /\ WrittenNow(o.db) \in Nat
        /\ db.one => WrittenNow(o.db) <= 1
        /\ o.status # "done" => WrittenNow(o.db) = 0
    BY <2>2, AnyRun
  <2>4. db'.one = db.one /\ prepared' = prepared + WrittenNow(o.db)
    BY <2>1, <2>3 DEF Sound, Finish
  <2>5. ~ Stopped /\ (~ upset => dir.plan # Writer)
    BY <1>4, <2>2 DEF Stopped, BatchInv
  <2>6. ~ upset /\ db.one => prepared = 0
    BY <2>5 DEF BatchInv
  <2>7. prepared' # prepared => Stopped'
    <3>1. SUFFICES ASSUME prepared' # prepared PROVE Stopped'
      OBVIOUS
    <3>2. o.status = "done"
      BY <2>2, <2>3, <2>4, <3>1
    <3>3. Recorded(o.status) = "done"
      BY <3>2 DEF Recorded
    <3>4. PICK st, c : st = "done" /\ c = (st = "error")
      OBVIOUS
    <3>5. rows' = [rows EXCEPT ![a].status = st, ![a].cooling = c, ![a].job = "none"]
      BY <2>1, <3>3, <3>4 DEF Finish
    <3>6. rows'[Writer].status = "done"
      BY <1>0, <1>4, <3>4, <3>5 DEF Row
    <3> QED
      BY <3>6 DEF Stopped
  <2>8. ~ dir.on => dir.plan # Writer
    BY DEF BatchInv
  <2> QED
    BY <2>2, <2>3, <2>4, <2>5, <2>6, <2>7, <2>8 DEF BatchInv
<1>5. CASE CutShort(a) /\ a = Writer /\ (Raises(a) \/ Dies(a) \/ Stops(a))
  <2>1. /\ dir' = dir /\ rows[a].status = "working"
        /\ db \in Db /\ prepared \in Nat
    BY <1>5 DEF CutShort, TypeOK
  <2>2. /\ db'.one = db.one
        /\ prepared' - prepared \in Nat /\ prepared' = prepared + (prepared' - prepared)
        /\ db.one => prepared' <= prepared + 1
    BY <1>5, <2>1, CutShortWrites DEF Sound
  <2>3. ~ Stopped /\ (~ upset => dir.plan # Writer) /\ (~ dir.on => dir.plan # Writer)
    BY <1>5, <2>1 DEF Stopped, BatchInv
  <2>4. upset => upset'
    BY <1>5 DEF Raises, Dies, Stops
  <2>5. CASE upset'
    BY <2>1, <2>3, <2>5, WriterUpset
  <2>6. CASE ~ upset' /\ prepared' = prepared
    BY <2>1, <2>2, <2>3, <2>4, <2>6, WriterMoves
  <2>7. CASE ~ upset' /\ prepared' # prepared
    <3>1. prepared' > prepared
      BY <2>1, <2>2, <2>7
    <3>2. Dies(a)
      BY <1>5, <2>7, <3>1 DEF Raises, Stops
    <3>3. rows' = [rows EXCEPT ![a].status = "error", ![a].cooling = TRUE, ![a].fatal = TRUE,
                               ![a].job = "none"]
      BY <3>2 DEF Dies
    <3>4. rows'[Writer].status = "error" /\ rows'[Writer].fatal
      BY <1>0, <1>5, <3>3 DEF Row
    <3>5. Stopped'
      BY <3>4 DEF Stopped
    <3>6. db.one => prepared = 0
      BY <2>3, <2>4, <2>7 DEF BatchInv
    <3> QED
      BY <2>1, <2>2, <2>3, <2>4, <2>7, <3>5, <3>6 DEF BatchInv
  <2> QED
    BY <2>5, <2>6, <2>7
<1>6. CASE a # Writer /\ (Ends(a) \/ Raises(a) \/ Dies(a) \/ Stops(a))
  <2>1. db \in Db /\ prepared \in Nat
    BY DEF TypeOK
  <2>2. prepared' = prepared /\ db'.one = db.one
    <3>1. CASE Ends(a)
      <4>1. PICK o \in Runs(a, db, DoneSet) : Finish(a, o)
        BY <3>1 DEF Ends
      <4>2. Sound(db, o.db) /\ WrittenNow(o.db) = 0
        BY <1>6, <2>1, AnyRun
      <4> QED
        BY <2>1, <4>1, <4>2 DEF Finish, Sound
    <3>2. CASE CutShort(a)
      BY <1>6, <2>1, <3>2, CutShortWrites DEF Sound
    <3> QED
      BY <1>6, <3>1, <3>2 DEF Raises, Dies, Stops
  <2>3. rows'[Writer] = rows[Writer]
    BY <1>0, <1>6 DEF Ends, Finish, Raises, Dies, Stops
  <2>4. dir' = dir
    BY <1>6, Zenon DEF Ends, Raises, Dies, Stops, CutShort
  <2>5. upset' = upset \/ upset' = (upset \/ prepared' > prepared)
    BY <1>6, Zenon DEF Ends, Raises, Dies, Stops
  <2>6. upset => upset'
    BY <2>5, Zenon
  <2> QED
    BY <2>2, <2>3, <2>4, <2>6, WriterAlone
<1> QED
  BY <1>1, <1>2, <1>3, <1>4, <1>5, <1>6 DEF Work, Raises, Dies, Stops

LEMMA PersonBatch ==
    ASSUME TypeOK, BatchInv, NEW s \in Slots, Deploys(s) \/ Approve(s) \/ SendBack(s)
    PROVE  BatchInv'
<1>0. /\ Writer \in Agents /\ Writer # "Publisher"
      /\ rows \in [Agents -> Row] /\ db \in Db
  BY SomeAgents DEF TypeOK
<1>1. dir' = dir
  BY Zenon DEF Deploys, Approve, SendBack
<1>2. CASE Deploys(s)
  <2>1. db'.one = db.one
    BY <1>0, <1>2 DEF Deploys, Db
  <2> QED
    BY <1>1, <1>2, <2>1, WriterAlone DEF Deploys
<1>3. CASE Approve(s)
  <2>1. db'.one = db.one
    BY <1>0, <1>3 DEF Approve, Db
  <2>2. rows'[Writer] = rows[Writer]
    BY <1>0, <1>3 DEF Approve, Idled
  <2>3. prepared' = prepared /\ upset' = upset
    BY <1>3 DEF Approve
  <2> QED
    BY <1>1, <2>1, <2>2, <2>3, WriterAlone
<1>4. CASE SendBack(s)
  <2>1. /\ prepared' = prepared /\ prepared \in Nat
        /\ upset' = (upset \/ prepared > 0)
        /\ rows' = Idled({"Programmatic SEO", "Publisher"} \union ToSet(Layer4))
    BY <1>4 DEF SendBack, TypeOK
  <2>2. rows'[Writer].status \in {rows[Writer].status, "idle"}
    BY <1>0, <2>1 DEF Idled, Row
  <2>3. /\ ~ upset /\ dir.plan = Writer => rows[Writer].status \in {"idle", "error"}
        /\ ~ dir.on => dir.plan # Writer
    BY DEF BatchInv
  <2>4. CASE prepared > 0
    BY <1>1, <2>1, <2>3, <2>4, WriterUpset
  <2>5. CASE prepared = 0
    BY <1>1, <2>1, <2>2, <2>3, <2>5, WriterFresh
  <2>6. prepared > 0 \/ prepared = 0
    <3>1. prepared \in Nat
      BY <2>1
    <3> QED
      BY <3>1
  <2> QED
    BY <2>4, <2>5, <2>6
<1> QED
  BY <1>2, <1>3, <1>4

LEMMA ByHandBatch ==
    ASSUME TypeOK, BatchInv, NEW a \in Agents, StartByHand(a) \/ StopByHand(a) \/ StopAll
    PROVE  BatchInv'
<1>0. Writer \in Agents /\ Writer # "" /\ rows \in [Agents -> Row] /\ prepared \in Nat
  BY SomeAgents DEF TypeOK
<1>1. ~ dir.on => dir.plan # Writer
  BY DEF BatchInv
<1>2. CASE StartByHand(a)
  <2>1. dir' = dir /\ prepared' = prepared /\ db' = db /\ (upset => upset')
    BY <1>2 DEF StartByHand
  <2>2. CASE a = Writer
    <3>1. upset'
      BY <1>2, <2>2, Stages DEF StartByHand, Writer
    <3> QED
      BY <1>1, <2>1, <3>1, WriterUpset
  <2>3. CASE a # Writer
    <3>1. rows'[Writer] = rows[Writer]
      BY <1>0, <1>2, <2>3 DEF StartByHand, Reserved
    <3> QED
      BY <2>1, <3>1, WriterAlone
  <2> QED
    BY <2>2, <2>3
<1>3. CASE StopByHand(a)
  <2>1. dir' = dir /\ prepared' = prepared /\ db' = db /\ upset' = upset
    BY <1>3 DEF StopByHand
  <2>2. CASE a = Writer /\ rows[Writer].status = "starting"
    <3>1. ~ Stopped /\ (upset \/ dir.plan # Writer)
      BY <2>2 DEF Stopped, BatchInv
    <3> QED
      BY <1>1, <2>1, <3>1, WriterMoves, WriterUpset
  <2>3. CASE ~ (a = Writer /\ rows[Writer].status = "starting")
    <3>1. rows'[Writer].status = rows[Writer].status /\ rows'[Writer].fatal = rows[Writer].fatal
      BY <1>0, <1>3, <2>3 DEF StopByHand, Asked, Row
    <3> QED
      BY <2>1, <3>1, WriterAlone
  <2> QED
    BY <2>2, <2>3
<1>4. CASE StopAll
  <2>1. prepared' = prepared /\ upset' = (upset \/ prepared > 0)
    BY <1>4 DEF StopAll
  <2>2. dir'.plan # Writer
    BY <1>0, <1>1, <1>4 DEF StopAll, Off
  <2>3. CASE prepared > 0
    BY <2>1, <2>2, <2>3, WriterUpset
  <2>4. CASE prepared = 0
    BY <2>1, <2>2, <2>4, WriterFresh
  <2>5. prepared > 0 \/ prepared = 0
    <3>1. prepared \in Nat
      BY <1>0
    <3> QED
      BY <3>1
  <2> QED
    BY <2>3, <2>4, <2>5
<1> QED
  BY <1>2, <1>3, <1>4

LEMMA ScheduleBatch ==
    ASSUME TypeOK, BatchInv, GiveUp \/ StartDirector \/ DailyFalls \/ DailyContinues \/ DailyBatch
    PROVE  BatchInv'
<1>0. /\ Writer \in Agents /\ Writer \notin {"", "wait", "done", "error", "Publisher", "Content Optimizer"}
      /\ rows \in [Agents -> Row]
  BY SomeAgents DEF TypeOK
<1>1. CASE GiveUp \/ StartDirector
  <2>1. dir'.plan # Writer
    <3>1. CASE GiveUp
      BY <1>0, <3>1 DEF GiveUp, TypeOK
    <3>2. CASE StartDirector
      BY <1>0, <3>2 DEF StartDirector, On
    <3> QED
      BY <1>1, <3>1, <3>2
  <2> QED
    BY <1>1, <2>1, WriterAlone DEF GiveUp, StartDirector
<1>2. CASE DailyFalls
  <2>1. ~ dir'.on /\ dir'.plan # Writer /\ prepared' = 0
    BY <1>2 DEF DailyFalls, BatchInv
  <2> QED
    BY <2>1, WriterFresh
<1>3. CASE DailyContinues
  <2>1. rows' = rows \/ rows' = Reserved("Publisher", "own") \/ rows' = Reserved("Content Optimizer", "own")
    BY <1>3 DEF DailyContinues, Continues
  <2>2. rows'[Writer] = rows[Writer]
    BY <1>0, <2>1 DEF Reserved
  <2> QED
    BY <1>3, <2>2, WriterAlone DEF DailyContinues
<1>4. CASE DailyBatch
  <2>1. prepared' = 0 /\ upset' = upset
    BY <1>4 DEF DailyBatch
  <2>2. (dir'.plan = Writer => dir.plan = Writer) /\ dir'.on
    BY <1>0, <1>4 DEF DailyBatch, On
  <2>3. rows'[Writer].status \in {rows[Writer].status, "idle"}
    BY <1>0, <1>4 DEF DailyBatch, Row
  <2> QED
    BY <2>1, <2>2, <2>3, WriterFresh DEF BatchInv
<1> QED
  BY <1>1, <1>2, <1>3, <1>4

\* A batch that the schedule started writes at most one draft, whatever fails, dies or
\* is retried before the draft is stored and whoever stops agents or starts Directors:
\* docs/DEPLOY_PLATFORM_RELIABILITY.md:71, but for the cases OneDraftPerDay names, where
\* the code does write a second one.
THEOREM OneDraftHolds == Spec => []OneDraftPerDay
<1>1. Init => BatchInv
  <2> SUFFICES ASSUME Init PROVE BatchInv
    OBVIOUS
  <2>1. dir = Off("")
    BY DEF Init
  <2>5. prepared = 0
    BY DEF Init
  <2>2. dir.plan = ""
    BY <2>1 DEF Off
  <2>3. dir.plan # Writer
    BY <2>2 DEF Writer
  <2>4. prepared <= 1
    BY <2>5
  <2> QED
    BY <2>3, <2>4, <2>5 DEF BatchInv
<1>2. TypeOK /\ BatchInv /\ [Next]_vars => BatchInv'
  <2>1. CASE UNCHANGED vars
    BY <2>1 DEF vars, BatchInv, Stopped
  <2> QED
    BY <2>1, CycleBatch, AgentBatch, PersonBatch, ByHandBatch, ScheduleBatch, ByHandAssumption,
       SomeAgents DEF Next
<1>3. BatchInv => OneDraftPerDay
  BY DEF BatchInv, OneDraftPerDay
<1> QED
  BY <1>1, <1>2, <1>3, PipelineTyped, PTL DEF Spec

------------------------------------------------------------------------------
(* The life of pages *)

\* What one run makes of the pages f: it does one kind of thing to some of them.
Lives(f, g) == \E kind \in Life!Kinds :
                  \A s \in Slots : g[s] = f[s] \/ Life!Does(kind, f[s], g[s])

LEMMA LivesByKind ==
    ASSUME NEW f, NEW g,
           \/ \A s \in Slots : g[s] = f[s] \/ Life!Fills(f[s], g[s])
           \/ \A s \in Slots : g[s] = f[s] \/ Life!Writes(f[s], g[s])
           \/ \A s \in Slots : g[s] = f[s] \/ Life!Improves(f[s], g[s])
           \/ \A s \in Slots : g[s] = f[s] \/ Life!Optimizes(f[s], g[s])
           \/ \A s \in Slots : g[s] = f[s] \/ Life!Sends(f[s], g[s])
    PROVE  Lives(f, g)
BY DEF Lives, Life!Kinds, Life!Does

\* A page that is written anew, by whom ever.
LEMMA ChangedPage ==
    ASSUME NEW p \in Page
    PROVE  /\ p.at = "draft" => Life!Writes(p, [p EXCEPT !.at = "ready", !.score = "none", !.approved = FALSE])
           /\ p.at \in {"ready", "published"} => Life!Improves(p, Rewritten(p))
<1>1. Life!Changed(p) = [p EXCEPT !.at = "ready", !.score = "none", !.approved = FALSE]
  BY DEF Life!Changed
<1>2. p.at \in {"ready", "published"} => Rewritten(p) = Life!Changed(p)
  BY <1>1 DEF Rewritten, Page
<1> QED
  BY <1>1, <1>2 DEF Life!Writes, Life!Improves

LEMMA RewriteLives ==
    ASSUME NEW d \in Db, NEW S \in SUBSET In(d, {"ready", "published"}),
           NEW e \in RewriteSome(d, S)
    PROVE  Lives(d.pages, e.pages)
<1>1. PICK T \in SUBSET S :
        e = WithPages(d, [s \in Slots |-> IF s \in T THEN Rewritten(d.pages[s]) ELSE d.pages[s]])
  BY Zenon DEF RewriteSome
<1>2. d.pages \in [Slots -> Page]
  BY DbFields
<1>3. \A s \in T : d.pages[s].at \in {"ready", "published"}
  BY DEF In
<1>4. e.pages = [s \in Slots |-> IF s \in T THEN Rewritten(d.pages[s]) ELSE d.pages[s]]
  BY <1>1 DEF WithPages, Db
<1>5. \A s \in Slots : e.pages[s] = d.pages[s] \/ Life!Improves(d.pages[s], e.pages[s])
  BY <1>2, <1>3, <1>4, ChangedPage
<1> QED
  BY <1>5, LivesByKind

\* Drafts, and published pages taken back to be sent again, in one run.
LEMMA DraftsFill ==
    ASSUME NEW d \in Db, NEW n, NEW e \in Drafts(d, n)
    PROVE  \A s \in Slots : \/ e.pages[s] = d.pages[s]
                            \/ Life!Plans(d.pages[s], e.pages[s])
<1>1. PICK S \in SUBSET In(d, {"none"}) : e = WithDrafts(d, S)
  BY DEF Drafts
<1>2. e.pages = [s \in Slots |-> IF s \in S THEN NewDraft ELSE d.pages[s]]
  BY <1>1 DEF WithDrafts, Db
<1>3. NewDraft = Life!NewDraft
  BY Zenon DEF NewDraft, NoPage, Life!NewDraft, Life!NoPage
<1>4. \A s \in S : d.pages[s].at = "none"
  BY DEF In
<1> QED
  BY <1>2, <1>3, <1>4 DEF Life!Plans

LEMMA PlansPagesLive ==
    ASSUME NEW d \in Db, NEW n, NEW o \in PlansPages(d, n)
    PROVE  Lives(d.pages, o.db.pages)
<1>1. \E m : \E e \in Drafts(d, m) : o.db = e
  <2>1. CASE \E e \in Drafts(d, Fewer(n, Room(d))) : o = Done(e)
    BY <2>1 DEF Done, Outcome
  <2>2. CASE \E e \in AtLimit(d) : o = Failed(e)
    BY <2>2 DEF AtLimit, Failed, Outcome
  <2> QED
    BY <2>1, <2>2 DEF PlansPages
<1> QED
  BY <1>1, DraftsFill, LivesByKind DEF Life!Fills

LEMMA WriterLives ==
    ASSUME NEW d \in Db, NEW done, NEW o \in ProgrammaticSeo(d, done)
    PROVE  Lives(d.pages, o.db.pages)
<1>1. CASE o = Idle(d)
  BY <1>1, LivesByKind DEF Idle, Outcome
<1>2. CASE \E S \in Batches(d) : o = Done(Written(d, S))
  <2>1. PICK S \in Batches(d) : o = Done(Written(d, S))
    BY <1>2
  <2>2. \A s \in S : d.pages[s].at = "draft"
    BY DEF Batches, In
  <2>3. d.pages \in [Slots -> Page]
    BY DbFields
  <2>4. o.db.pages = [s \in Slots |->
            IF s \in S THEN [d.pages[s] EXCEPT !.at = "ready", !.score = "none", !.approved = FALSE]
            ELSE d.pages[s]]
    BY <2>1 DEF Done, Outcome, Written, WithPages, Db
  <2>5. \A s \in Slots : o.db.pages[s] = d.pages[s] \/ Life!Writes(d.pages[s], o.db.pages[s])
    BY <2>2, <2>3, <2>4, ChangedPage
  <2> QED
    BY <2>5, LivesByKind
<1> QED
  BY <1>1, <1>2 DEF ProgrammaticSeo

\* A page below the threshold, and what the Content Optimizer makes of it.
LEMMA OptimizedLives ==
    ASSUME NEW p \in Page, NEW q \in Optimized(p),
           p.at \in {"ready", "published"}, p.score # "good"
    PROVE  q = p \/ Life!Optimizes(p, q)
<1> SUFFICES ASSUME q # p PROVE Life!Optimizes(p, q)
  OBVIOUS
<1>1. p.tries < MaxRewrites
  BY DEF Optimized, Page, MaxRewrites
<1>2. CASE q = Fixed(p)
  <2>1. Fixed(p) = [Life!Changed(p) EXCEPT !.tries = p.tries + 1]
    BY DEF Fixed, Rewritten, Life!Changed, Page
  <2> QED
    BY <1>1, <1>2, <2>1 DEF Life!Optimizes
<1>3. CASE q \in Scores(p)
  BY <1>1, <1>3 DEF Scores, Life!Optimizes
<1> QED
  BY <1>2, <1>3 DEF Optimized

LEMMA ContentOptimizerLives ==
    ASSUME NEW d \in Db, NEW o \in ContentOptimizer(d)
    PROVE  Lives(d.pages, o.db.pages)
<1>1. PICK f :
        /\ f \in [Slots -> UNION {{d.pages[s]} \union Optimized(d.pages[s]) : s \in Slots}]
        /\ \A s \in Slots : IF s \in BelowThreshold(d) THEN f[s] \in Optimized(d.pages[s])
                            ELSE f[s] = d.pages[s]
        /\ o = Done(WithPages(d, f))
  BY DEF ContentOptimizer
<1>2. d.pages \in [Slots -> Page]
  BY DbFields
<1>3. o.db.pages = f
  BY <1>1 DEF Done, Outcome, WithPages, Db
<1>4. ASSUME NEW s \in Slots PROVE f[s] = d.pages[s] \/ Life!Optimizes(d.pages[s], f[s])
  <2>1. CASE s \in BelowThreshold(d)
    <3>1. d.pages[s].at \in {"ready", "published"} /\ d.pages[s].score # "good"
      BY <2>1 DEF BelowThreshold, In
    <3> QED
      BY <1>1, <1>2, <2>1, <3>1, OptimizedLives
  <2> QED
    BY <1>1, <2>1
<1> QED
  BY <1>3, <1>4, LivesByKind

LEMMA PublisherLives ==
    ASSUME NEW d \in Db, NEW o \in Publisher(d)
    PROVE  Lives(d.pages, o.db.pages)
<1>1. CASE o = Skips(d)
  BY <1>1, LivesByKind DEF Skips, Outcome
<1>2. CASE \E S, T \in SUBSET Approved(d) : o \in {Failed(Sent(d, S, T)), Done(Sent(d, S, T))}
  <2>1. PICK S \in SUBSET Approved(d), T \in SUBSET Approved(d) :
              o \in {Failed(Sent(d, S, T)), Done(Sent(d, S, T))}
    BY <1>2
  <2>2. o.db = Sent(d, S, T)
    BY <2>1 DEF Failed, Done, Outcome
  <2>3. o.db.pages = [s \in Slots |-> IF s \in S THEN [d.pages[s] EXCEPT !.at = "publishing"]
                                      ELSE IF s \in T THEN [d.pages[s] EXCEPT !.at = "published"]
                                      ELSE d.pages[s]]
    BY <2>2 DEF Sent, WithPages, Db
  <2>4. \A s \in S \union T : d.pages[s].approved /\ d.pages[s].score = "good" /\ d.pages[s].at = "ready"
    BY DEF Approved, In
  <2>5. ASSUME NEW s \in Slots
        PROVE  o.db.pages[s] = d.pages[s] \/ Life!Sends(d.pages[s], o.db.pages[s])
    BY <2>3, <2>4 DEF Life!Sends
  <2> QED
    BY <2>5, LivesByKind
<1> QED
  BY <1>1, <1>2 DEF Publisher

LEMMA GeoGapCloserLives ==
    ASSUME NEW d \in Db, NEW o \in GeoGapCloser(d)
    PROVE  Lives(d.pages, o.db.pages)
<1>1. CASE o = Done(d)
  BY <1>1, LivesByKind DEF Done, Outcome
<1>2. CASE \E e \in Regapped(d) : \E g \in Drafts(e, Room(e)) : o = Done(g)
  <2>0. PICK e \in Regapped(d) : \E g \in Drafts(e, Room(e)) : o = Done(g)
    BY <1>2
  <2>1. PICK g \in Drafts(e, Room(e)) : o = Done(g)
    BY <2>0
  <2>2. PICK S \in SUBSET Shown(d) :
          e = WithPages(d, [s \in Slots |-> IF s \in S THEN [d.pages[s] EXCEPT !.at = "ready"]
                                            ELSE d.pages[s]])
    BY <2>1, Zenon DEF Regapped
  <2>3. \A s \in S : d.pages[s].at = "published"
    BY DEF Shown, In
  <2>4. d.pages \in [Slots -> Page]
    BY DbFields
  <2>5. \A p \in Page : [p EXCEPT !.at = "ready"] \in Page
    BY DEF Page, PageStates
  <2> DEFINE f == [s \in Slots |-> IF s \in S THEN [d.pages[s] EXCEPT !.at = "ready"] ELSE d.pages[s]]
  <2>6. f \in [Slots -> Page]
    BY <2>4, <2>5
  <2>7. e \in Db /\ e.pages = f
    BY <2>2, <2>6, DbPages
  <2>8. \A s \in Slots : f[s] = d.pages[s] \/ Life!Retakes(d.pages[s], f[s])
    BY <2>3 DEF Life!Retakes
  <2> HIDE DEF f
  <2>9. \A s \in Slots : g.pages[s] = e.pages[s] \/ Life!Plans(e.pages[s], g.pages[s])
    BY <2>1, <2>7, DraftsFill
  <2>10. ASSUME NEW s \in Slots
         PROVE  g.pages[s] = d.pages[s] \/ Life!Fills(d.pages[s], g.pages[s])
    <3>1. CASE e.pages[s] = d.pages[s]
      BY <2>9, <3>1 DEF Life!Fills
    <3>2. CASE Life!Retakes(d.pages[s], e.pages[s])
      <4>1. e.pages[s].at = "ready"
        BY <2>4, <3>2 DEF Life!Retakes, Page
      <4>2. ~ Life!Plans(e.pages[s], g.pages[s])
        BY <4>1 DEF Life!Plans
      <4> QED
        BY <2>9, <3>2, <4>2 DEF Life!Fills
    <3> QED
      BY <2>7, <2>8, <3>1, <3>2
  <2>11. o.db = g
    BY <2>1 DEF Done, Outcome
  <2> QED
    BY <2>10, <2>11, LivesByKind
<1> QED
  BY <1>1, <1>2 DEF GeoGapCloser

\* Every run of every agent lets pages live.
LEMMA RunsLive ==
    ASSUME NEW d \in Db, NEW done, NEW a \in Agents, NEW o \in Runs(a, d, done)
    PROVE  Lives(d.pages, o.db.pages)
<1>0. Kept(d, o) => Lives(d.pages, o.db.pages)
  BY LivesByKind DEF Kept
<1>1. CASE a \in {"Site Inventory", "Keyword Footprint", "GEO Baseline", "Keyword Strategist",
                  "Keyword Clusterer", "Technical Auditor", "Site Style Analyzer",
                  "Data Intelligence", "GBP Optimizer"}
  BY <1>0, <1>1, ResearchKept DEF Runs
<1>2. CASE a = "Competitor Intel"
  BY <1>0, <1>2, CompetitorIntelKept DEF Runs
<1>3. CASE a \in {"Rank Tracker", "GEO Query Generator", "GEO Monitor", "SERP Intelligence",
                  "Reviews Intelligence", "ROI Attribution", "Content Duplicate Checker",
                  "Perplexity Tracker"}
  BY <1>0, <1>3, MonitoringKept DEF Runs
<1>4. o \in {Done(d), Failed(d), Idle(d)} => Lives(d.pages, o.db.pages)
  BY <1>0, Unchanged
<1>5. CASE a \in {"E-E-A-T Architect", "Schema Engineer", "Vertical Matrix Generator"}
  <2>1. o \in EeatArchitect(d) \union SchemaEngineer(d) \union VerticalMatrixGenerator(d, done)
    BY <1>5 DEF Runs
  <2>2. o \in {Done(d), Failed(d), Idle(d)} \/ \E n : o \in PlansPages(d, n)
    BY <2>1 DEF EeatArchitect, SchemaEngineer, VerticalMatrixGenerator
  <2> QED
    BY <1>4, <2>2, PlansPagesLive
<1>6. CASE a \in {"Visual Content Optimizer", "GEO Optimizer", "Internal Linker"}
  <2>1. o \in VisualContentOptimizer(d) \union GeoOptimizer(d) \union InternalLinker(d)
    BY <1>6 DEF Runs
  <2>2. In(d, {"ready"}) \subseteq In(d, {"ready", "published"})
    BY DEF In
  <2>3. \/ o = Idle(d)
        \/ \E S \in SUBSET In(d, {"ready", "published"}) : \E e \in RewriteSome(d, S) : o = Done(e)
    BY <2>1, <2>2 DEF VisualContentOptimizer, GeoOptimizer, ImprovesReady, InternalLinker
  <2> QED
    BY <1>4, <2>3, RewriteLives DEF Done, Outcome
<1>7. CASE a = "Content Optimizer"
  BY <1>7, ContentOptimizerLives DEF Runs
<1>8. CASE a = "Publisher"
  BY <1>8, PublisherLives DEF Runs
<1>9. CASE a = "Indexation Accelerator"
  BY <1>4, <1>9 DEF Runs, IndexationAccelerator
<1>10. CASE a = "GEO Gap Closer"
  BY <1>10, GeoGapCloserLives DEF Runs
<1>11. CASE a = "Programmatic SEO"
  BY <1>11, WriterLives DEF Runs
<1> QED
  <2>1. a \in ToSet(Discovery) \union ToSet(Layer1) \union ToSet(Layer2) \union ToSet(Layer3)
              \union ToSet(Layer4) \union ToSet(Sending) \union ToSet(Indexing) \union ToSet(Layer6)
    BY DEF Agents
  <2> QED
    BY <1>1, <1>2, <1>3, <1>5, <1>6, <1>7, <1>8, <1>9, <1>10, <1>11, <2>1, Stages

\* What reviews and deployments do to a page.
LEMMA PersonLives ==
    ASSUME TypeOK, NEW s \in Slots, Deploys(s) \/ Approve(s) \/ SendBack(s)
    PROVE  Life!Next
<1>1. db \in Db /\ db.pages \in [Slots -> Page]
  BY DbFields DEF TypeOK
<1>2. CASE Deploys(s)
  <2>1. db'.pages = [db.pages EXCEPT ![s].at = "published"]
    BY <1>1, <1>2 DEF Deploys, Db
  <2>2. Life!Deploy(s)
    BY <1>2, <2>1 DEF Deploys, Life!Deploy
  <2> QED
    BY <2>2 DEF Life!Next
<1>3. CASE Approve(s)
  <2>1. db'.pages = [db.pages EXCEPT ![s].at = "ready", ![s].approved = TRUE]
    BY <1>1, <1>3 DEF Approve, Db
  <2>2. db.pages[s].at \in {"ready", "published"} /\ db.pages[s].score = "good"
    BY <1>3 DEF Approve, Reviewable
  <2>3. Life!Approve(s)
    BY <2>1, <2>2 DEF Life!Approve
  <2> QED
    BY <2>3 DEF Life!Next
<1>4. CASE SendBack(s)
  <2>1. db'.pages = [db.pages EXCEPT ![s] = Returned(db.pages[s])]
    BY <1>1, <1>4 DEF SendBack, Db
  <2>2. db.pages[s].at \in {"draft", "ready", "published"}
    BY <1>4 DEF SendBack, Reviewable
  <2>3. Life!SendBack(s)
    BY <2>1, <2>2 DEF Life!SendBack, Returned
  <2> QED
    BY <2>3 DEF Life!Next
<1> QED
  BY <1>2, <1>3, <1>4

\* A step of the system is a step of some pages' life, or leaves pages alone.
LEMMA LifeStep ==
    ASSUME TypeOK, TypeOK', [Next]_vars
    PROVE  [Life!Next]_(db.pages)
<1>1. ASSUME db'.pages = db.pages PROVE [Life!Next]_(db.pages)
  BY <1>1
<1>2. CASE Assess \/ DailyBatch
  <2>1. db'.pages = db.pages
    BY <1>2 DEF Assess, DailyBatch, TypeOK, Db
  <2> QED
    BY <1>1, <2>1
<1>3. ASSUME NEW a \in Agents, Ends(a) \/ Stops(a) \/ Raises(a) \/ Dies(a) PROVE [Life!Next]_(db.pages)
  <2> SUFFICES ASSUME db' # db PROVE [Life!Next]_(db.pages)
    BY <1>1
  <2>1. PICK o \in Runs(a, db, DoneSet) : db' = o.db
    BY <1>3 DEF Ends, Finish, Stops, Raises, Dies, CutShort
  <2>2. Lives(db.pages, db'.pages)
    BY <2>1, RunsLive DEF TypeOK
  <2>3. db'.pages \in [Slots -> Page] /\ Page = Life!Page
    BY DbFields DEF TypeOK, Page, PageStates, Life!Page
  <2> QED
    BY <2>2, <2>3 DEF Lives, Life!Next, Life!Run
<1>4. CASE \E s \in Slots : Deploys(s) \/ Approve(s) \/ SendBack(s)
  BY <1>4, PersonLives
<1>5. CASE UNCHANGED db
  BY <1>1, <1>5
<1>6. CASE UNCHANGED vars \/ GiveUp \/ StartDirector \/ DailyFalls \/ DailyContinues \/ Wait
           \/ EndDone \/ EndError \/ StopAll
  BY <1>5, <1>6 DEF vars, GiveUp, StartDirector, DailyFalls, DailyContinues, Wait, EndDone, EndError, StopAll
<1>7. ASSUME NEW a \in Agents,
             \/ Start(a) \/ StartRefused(a) \/ PrereqFailed(a) \/ StartFails(a) \/ Begins(a) \/ Cools(a)
             \/ StartByHand(a) \/ StopByHand(a)
      PROVE  [Life!Next]_(db.pages)
  BY <1>5, <1>7 DEF Start, StartRefused, PrereqFailed, StartFails, Begins, Cools, StartByHand, StopByHand
<1> QED
  BY <1>2, <1>3, <1>4, <1>6, <1>7, ByHandAssumption DEF Next, Cycle, Work

\* The pipeline implements PageLife: whatever its 29 agents, its Director, reviews,
\* deployments and the schedule do, for any pages, limits, settings and faults.
THEOREM ImplementsPageLife == Spec => LifeSpec
<1>1. Init => Life!Init
  <2>1. Page = Life!Page
    BY DEF Page, PageStates, Life!Page
  <2>2. ASSUME NEW b \in Beginnings, db = b.db PROVE Life!Init
    <3>1. b.db \in Db /\ Reviewed(b.db)
      BY BeginningsAssumption
    <3> QED
      BY <2>1, <2>2, <3>1, DbFields DEF Life!Init, Reviewed, In
  <2> QED
    BY <2>2 DEF Init
<1>2. TypeOK /\ TypeOK' /\ [Next]_vars => [Life!Next]_(db.pages)
  BY LifeStep
<1> QED
  BY <1>1, <1>2, PipelineTyped, PTL DEF Spec, LifeSpec, Life!Spec
=============================================================================
