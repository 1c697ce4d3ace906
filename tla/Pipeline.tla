------------------------------ MODULE Pipeline ------------------------------
(***************************************************************************)
(* The Pipeline Director of one tenant: every cycle it looks at the rows   *)
(* of the agents and at a few facts, and starts the agent whose turn it is,*)
(* waits, or ends.  Its decision (Assess) and what it does about it (Act)  *)
(* are two steps: reviews, workers and the daily scheduler come between.   *)
(* What a run does to the tenant's data is in Research, Production and     *)
(* Monitoring; jobs, leases and cancellation in detail are in AgentJobs.   *)
(***************************************************************************)
EXTENDS Research, Production, Monitoring, Sequences, SequencesExt

CONSTANTS
    Beginnings,       \* where a tenant may be: its facts, the agents that are done,
                      \* and how much may still happen to it (see left)
    ByHand            \* bound: the agents that a person starts or stops one by one

VARIABLES
    rows,             \* the row of each agent in the table agents
    db,               \* Facts
    dir,              \* the Director: is it on, what its last look decided, how it ended
    daily,            \* has the scheduler found the tenant free?
    prepared,         \* history: drafts written since the schedule fell due, or started a batch
    upset,            \* history: since it fell due, did a person have the writer run, or what is
                      \* written undone, or did a run raise, or stop, that had written drafts?
    left              \* bounds: failures that another answer or another host would have
                      \* avoided, moves of the user, days that the schedule falls due

vars == <<rows, db, dir, daily, prepared, upset, left>>

MaxRuns == 3

Discovery == <<"Site Inventory", "Keyword Footprint", "GEO Baseline">>
Layer1 == <<"Keyword Strategist", "Keyword Clusterer", "Competitor Intel", "Technical Auditor",
            "Site Style Analyzer", "Data Intelligence", "GBP Optimizer">>
Layer2 == <<"E-E-A-T Architect", "Schema Engineer", "Vertical Matrix Generator">>
Layer3 == <<"Programmatic SEO">>
Layer4 == <<"Visual Content Optimizer", "GEO Optimizer", "Internal Linker", "Content Optimizer">>
Layer6 == <<"Rank Tracker", "GEO Query Generator", "GEO Monitor", "SERP Intelligence",
            "Reviews Intelligence", "ROI Attribution", "Content Duplicate Checker",
            "Perplexity Tracker", "GEO Gap Closer">>
\* "Publisher" is the one of the two publishers that the client uses.
Sending == <<"Publisher">>
Indexing == <<"Indexation Accelerator">>
Content == <<Layer1, Layer2, Layer3, Layer4>>
Agents  == UNION {ToSet(s) : s \in {Discovery, Layer1, Layer2, Layer3, Layer4, Sending, Indexing, Layer6}}

ContentWriters == {"Site Inventory", "Publisher", "Content Duplicate Checker", "GEO Gap Closer"}
                    \union ToSet(Layer2) \union ToSet(Layer3) \union ToSet(Layer4)

Prerequisites(a) ==
    CASE a = "Vertical Matrix Generator" -> {"E-E-A-T Architect"}
      [] a = "Programmatic SEO" -> {"E-E-A-T Architect", "Schema Engineer", "Vertical Matrix Generator"}
      [] a \in ToSet(Layer4) \union {"Publisher", "Indexation Accelerator"} -> {"Programmatic SEO"}
      [] OTHER -> {}

MinKeywords(a) ==
    CASE a = "Schema Engineer" -> Few
      [] a \in {"Keyword Clusterer", "E-E-A-T Architect", "Vertical Matrix Generator", "Programmatic SEO"} -> Enough
      [] OTHER -> 0

Runs(a, d, done) ==
    CASE a = "Site Inventory" -> SiteInventory(d)
      [] a = "Keyword Footprint" -> KeywordFootprint(d)
      [] a = "GEO Baseline" -> GeoBaseline(d)
      [] a = "Keyword Strategist" -> KeywordStrategist(d)
      [] a = "Keyword Clusterer" -> KeywordClusterer(d)
      [] a = "Competitor Intel" -> CompetitorIntel(d)
      [] a = "Technical Auditor" -> TechnicalAuditor(d)
      [] a = "Site Style Analyzer" -> SiteStyleAnalyzer(d)
      [] a = "Data Intelligence" -> DataIntelligence(d)
      [] a = "GBP Optimizer" -> GbpOptimizer(d)
      [] a = "E-E-A-T Architect" -> EeatArchitect(d)
      [] a = "Schema Engineer" -> SchemaEngineer(d)
      [] a = "Vertical Matrix Generator" -> VerticalMatrixGenerator(d, done)
      [] a = "Programmatic SEO" -> ProgrammaticSeo(d, done)
      [] a = "Visual Content Optimizer" -> VisualContentOptimizer(d)
      [] a = "GEO Optimizer" -> GeoOptimizer(d)
      [] a = "Internal Linker" -> InternalLinker(d)
      [] a = "Content Optimizer" -> ContentOptimizer(d)
      [] a = "Publisher" -> Publisher(d)
      [] a = "Indexation Accelerator" -> IndexationAccelerator(d)
      [] a = "Rank Tracker" -> RankTracker(d)
      [] a = "GEO Query Generator" -> GeoQueryGenerator(d)
      [] a = "GEO Monitor" -> GeoMonitor(d)
      [] a = "SERP Intelligence" -> SerpIntelligence(d)
      [] a = "Reviews Intelligence" -> ReviewsIntelligence(d)
      [] a = "ROI Attribution" -> RoiAttribution(d)
      [] a = "Content Duplicate Checker" -> ContentDuplicateChecker(d)
      [] a = "Perplexity Tracker" -> PerplexityTracker(d)
      [] a = "GEO Gap Closer" -> GeoGapCloser(d)

\* What is published, or on its way, is a text that a person approved with its score.
Reviewed(d) == \A s \in In(d, {"publishing", "published"}) :
                  d.pages[s].approved /\ d.pages[s].score = "good"

\* A tenant's history before the first step of the model kept to the same rules.
ASSUME BeginningsAssumption ==
    \A b \in Beginnings :
        /\ b.db \in Db
        /\ Reviewed(b.db)
        /\ b.left \in [{"faults", "moves", "days"} -> Nat]

ASSUME ByHandAssumption == ByHand \subseteq Agents

------------------------------------------------------------------------------
\* The active job of a row: a child of the Director's, one on its own (of a person or
\* the schedule), or one that has been asked to stop.
Jobs == {"none", "child", "own", "stopping"}
Row == [status: {"idle", "starting", "working", "done", "skipped", "error"},
        runs: 0..MaxRuns,      \* run_count; more than MaxRuns is MaxRuns
        cooling: BOOLEAN,      \* retry_after has not passed
        fatal: BOOLEAN,        \* its latest job must not be retried
        job: Jobs]
NewRow  == [status |-> "idle", runs |-> 0, cooling |-> FALSE, fatal |-> FALSE, job |-> "none"]
DoneRow == [NewRow EXCEPT !.status = "done", !.runs = 1]

Outlook == {"", "wait", "done", "error"} \union Agents
Endings == {"", "done", "error", "stopped"}
Off(how) == [on |-> FALSE, plan |-> "", ended |-> how]
On       == [on |-> TRUE, plan |-> "", ended |-> ""]

Init ==
    /\ \E b \in Beginnings :
         /\ rows = [a \in Agents |-> IF a \in b.done THEN DoneRow ELSE NewRow]
         /\ db = b.db
         /\ left = b.left
    /\ dir = Off("")
    /\ daily = FALSE
    /\ prepared = 0
    /\ upset = FALSE

Active == {a \in Agents : rows[a].status \in {"starting", "working"}}
DoneSet == {a \in Agents : rows[a].status = "done"}
Settled(stage) == \A a \in ToSet(stage) : rows[a].status \in {"done", "skipped"}

Spend(kind) == left[kind] > 0 /\ left' = [left EXCEPT ![kind] = @ - 1]
Fault == Spend("faults")
Move  == Spend("moves")

------------------------------------------------------------------------------
(* The Director's look *)

Retriable(a) == /\ rows[a].status = "error"
                /\ rows[a].runs < MaxRuns
                /\ ~ rows[a].cooling
                /\ ~ rows[a].fatal
Startable(a) == rows[a].status = "idle" \/ Retriable(a)

\* The first agent of a stage that is not settled, if it may start and no
\* other agent of its stage is active.
NextIn(stage) ==
    LET first == SelectInSeq(stage, LAMBDA a : rows[a].status \notin {"done", "skipped"})
    IN  IF first # 0 /\ Active \cap ToSet(stage) = {} /\ Startable(stage[first])
        THEN stage[first] ELSE ""

\* The stage whose turn it is; <<>> if there is none.
Turn ==
    LET open == SelectInSeq(Content, LAMBDA stage : ~ Settled(stage))
    IN  IF ~ db.world THEN Discovery
        ELSE IF open # 0 THEN Content[open]
        ELSE IF Approved(db) # {} /\ ~ Settled(Sending) THEN Sending
        ELSE IF Shown(db) = {} THEN <<>>
        ELSE IF ~ Settled(Indexing) THEN Indexing
        ELSE IF ~ Settled(Layer6) THEN Layer6
        ELSE <<>>

Evaluate == NextIn(Turn)

IsPipelineComplete ==
    /\ Active = {}
    /\ \A i \in DOMAIN Content : Settled(Content[i])
    /\ Evaluate = ""

FatalOnly == \E a \in Agents : rows[a].status = "error" /\ rows[a].fatal   \* mutant

CheckDeadlock == \E a \in Agents : /\ rows[a].status = "error"
                                   /\ rows[a].runs >= MaxRuns \/ rows[a].fatal

\* Once discovery is done the look itself writes world_state.
Assess ==
    /\ dir.on /\ dir.plan = ""
    /\ dir' = [dir EXCEPT !.plan = IF CheckDeadlock THEN "error"
                                   ELSE IF IsPipelineComplete THEN "done"
                                   ELSE IF Evaluate = "" THEN "wait" ELSE Evaluate]
    /\ db' = [db EXCEPT !.world = @ \/ (~ CheckDeadlock /\ Settled(Discovery))]
    /\ UNCHANGED <<rows, daily, prepared, upset, left>>

------------------------------------------------------------------------------
(* What it does about it *)

Ready(a) == /\ db.kw >= MinKeywords(a)
            /\ Prerequisites(a) \subseteq DoneSet

\* reserve_job: one job of an agent, one content writer at a time.
Free(a) == /\ a \notin Active
           /\ a \in ContentWriters => Active \cap ContentWriters = {}

Capped(n) == IF n > MaxRuns THEN MaxRuns ELSE n
Reserved(a, job) == [rows EXCEPT ![a] = [status |-> "starting", runs |-> Capped(@.runs + 1),
                                         cooling |-> FALSE, fatal |-> FALSE, job |-> job]]
Errs(a, n)  == [rows EXCEPT ![a].status = "error", ![a].runs = Capped(n), ![a].cooling = TRUE]

Planned(a) == dir.on /\ dir.plan = a
Again      == dir' = [dir EXCEPT !.plan = ""]

Start(a) ==
    /\ Planned(a) /\ Ready(a) /\ Free(a)
    /\ rows' = Reserved(a, "child") /\ Again
    /\ UNCHANGED <<db, daily, prepared, upset, left>>

\* The queue or the client's data cannot be reached.
StartFails(a) ==
    /\ Planned(a) /\ Ready(a) /\ Free(a) /\ Fault
    /\ rows' = Errs(a, rows[a].runs + 1) /\ Again
    /\ UNCHANGED <<db, daily, prepared, upset>>

StartRefused(a) ==
    /\ Planned(a) /\ Ready(a) /\ ~ Free(a)
    /\ Again
    /\ UNCHANGED <<rows, db, daily, prepared, upset, left>>

\* What an agent waits for is missing, and nobody is working on it.
PrereqFailed(a) ==
    /\ Planned(a) /\ ~ Ready(a)
    /\ rows' = IF Active = {} THEN [rows EXCEPT ![a].status = "error", ![a].runs = MaxRuns] ELSE rows
    /\ Again
    /\ UNCHANGED <<db, daily, prepared, upset, left>>

Wait ==
    /\ dir.on /\ dir.plan = "wait"
    /\ Again
    /\ UNCHANGED <<rows, db, daily, prepared, upset, left>>

\* Five minutes without an agent at work; pauses between retries are shorter.
GiveUp ==
    /\ dir.on /\ dir.plan = "wait"
    /\ \A a \in Agents : rows[a].status # "working" /\ ~ rows[a].cooling
    /\ dir' = [dir EXCEPT !.plan = "error"] /\ Fault
    /\ UNCHANGED <<rows, db, daily, prepared, upset>>

EndDone ==
    /\ dir.on /\ dir.plan = "done"
    /\ dir' = Off("done")
    /\ UNCHANGED <<rows, db, daily, prepared, upset, left>>

\* _request_stop: a job that nobody took yet ends at once, a running one is asked to stop.
Asked(S) == [a \in Agents |->
    IF a \in S /\ rows[a].status = "starting" THEN [rows[a] EXCEPT !.status = "idle", !.job = "none"]
    ELSE IF a \in S /\ rows[a].status = "working" THEN [rows[a] EXCEPT !.job = "stopping"]
    ELSE rows[a]]

\* A Director that fails takes the jobs it started with it.
EndError ==
    /\ dir.on /\ dir.plan = "error"
    /\ dir' = Off("error")
    /\ rows' = Asked({a \in Agents : rows[a].job = "child"})
    /\ UNCHANGED <<db, daily, prepared, upset, left>>

------------------------------------------------------------------------------
(* Workers *)

Begins(a) ==
    /\ rows[a].status = "starting"
    /\ rows' = [rows EXCEPT ![a].status = IF Ready(a) THEN "working" ELSE "idle",
                            ![a].job = IF Ready(a) THEN @ ELSE "none"]
    /\ UNCHANGED <<db, dir, daily, prepared, upset, left>>

\* A run that leaves its row at work is done; one that says "idle" has failed.
Recorded(status) == IF status = "working" THEN "done" ELSE IF status = "idle" THEN "error" ELSE status

WrittenNow(d) == Cardinality({s \in In(db, {"draft"}) : d.pages[s].at = "ready"})

Finish(a, o) ==
    /\ rows' = [rows EXCEPT ![a].status = Recorded(o.status), ![a].cooling = Recorded(o.status) = "error",
                            ![a].job = "none"]
    /\ db' = o.db
    /\ prepared' = prepared + WrittenNow(o.db)

\* A failure is a fault unless the facts leave nothing else.  A run that is asked to stop
\* may have looked for the last time before.
Ends(a) ==
    /\ rows[a].status = "working"
    /\ \E o \in Runs(a, db, DoneSet) :
         /\ Finish(a, o)
         /\ IF /\ Recorded(o.status) = "error"
               /\ \E p \in Runs(a, db, DoneSet) : Recorded(p.status) # "error"
            THEN Fault ELSE UNCHANGED left
    /\ UNCHANGED <<dir, daily, upset>>

\* What a run that is cut short has written: nothing yet, or what it had to.
CutShort(a) ==
    /\ rows[a].status = "working"
    /\ \E e \in {db} \union {o.db : o \in Runs(a, db, DoneSet)} :
         db' = e /\ prepared' = prepared + WrittenNow(e)
    /\ UNCHANGED <<dir, daily>>

\* An exception after whatever it wrote, such as a database that stays locked: db_write
\* of a log line or a status raises as well as that of a page.  The job may be retried.
Raises(a) ==
    /\ CutShort(a) /\ Fault
    /\ rows' = [rows EXCEPT ![a].status = "error", ![a].cooling = TRUE, ![a].job = "none"]
    /\ upset' = (upset \/ prepared' > prepared)

\* The host dies or the run exceeds its limits: the job must not be retried.
Dies(a) ==
    /\ CutShort(a) /\ Fault
    /\ rows' = [rows EXCEPT ![a].status = "error", ![a].cooling = TRUE, ![a].fatal = TRUE, ![a].job = "none"]
    /\ UNCHANGED upset

\* It was asked to stop, and does.
Stops(a) ==
    /\ CutShort(a) /\ rows[a].job = "stopping"
    /\ rows' = [rows EXCEPT ![a].status = "idle", ![a].cooling = FALSE, ![a].job = "none"]
    /\ upset' = (upset \/ prepared' > prepared)
    /\ UNCHANGED left

Cools(a) ==
    /\ rows[a].cooling
    /\ rows' = [rows EXCEPT ![a].cooling = FALSE]
    /\ UNCHANGED <<db, dir, daily, prepared, upset, left>>

Deploys(s) ==
    /\ db.pages[s].at = "publishing"
    /\ db' = [db EXCEPT !.pages[s].at = "published"]
    /\ UNCHANGED <<rows, dir, daily, prepared, upset, left>>

------------------------------------------------------------------------------
(* Users *)

Idled(names) == [a \in Agents |-> IF a \in names \ Active THEN [rows[a] EXCEPT !.status = "idle"] ELSE rows[a]]

\* No writer is active, and no attempt to publish the page is in progress.
Reviewable(s) == Active \cap ContentWriters = {} /\ db.pages[s].at \in {"draft", "ready", "published"}

Approve(s) ==
    /\ Reviewable(s) /\ db.pages[s].at # "draft" /\ db.pages[s].score = "good" /\ Move
    /\ db' = [db EXCEPT !.pages[s].at = "ready", !.pages[s].approved = TRUE]
    /\ rows' = Idled({"Publisher"})
    /\ UNCHANGED <<dir, daily, prepared, upset>>

ReturnedAnew(p) == NewDraft                                                \* mutant

Returned(p) == [p EXCEPT !.at = "draft", !.score = "none", !.approved = FALSE]
SendBack(s) ==
    /\ Reviewable(s) /\ Move
    /\ db' = [db EXCEPT !.pages[s] = Returned(@)]
    /\ rows' = Idled({"Programmatic SEO", "Publisher"} \union ToSet(Layer4))
    /\ upset' = (upset \/ prepared > 0)
    /\ UNCHANGED <<dir, daily, prepared>>

StartDirector ==
    /\ ~ dir.on /\ Move
    /\ dir' = On
    /\ UNCHANGED <<rows, db, daily, prepared, upset>>

StartByHand(a) ==
    /\ Ready(a) /\ Free(a) /\ Move
    /\ rows' = Reserved(a, "own")
    /\ upset' = (upset \/ a \in ToSet(Layer3))
    /\ UNCHANGED <<db, dir, daily, prepared>>

StopByHand(a) ==
    /\ a \in Active /\ Move
    /\ rows' = Asked({a})
    /\ UNCHANGED <<db, dir, daily, prepared, upset>>

\* stop_all, of the pipeline or of its Director: every job is asked to stop, and the row
\* of an agent without a job becomes as new, but for its pause and the verdict on its
\* latest job.  The Director, which can reserve no job any more, ends with the request.
StopAll ==
    /\ Move
    /\ rows' = [a \in Agents |-> IF rows[a].status = "working" THEN Asked(Agents)[a]
                                 ELSE [Asked(Agents)[a] EXCEPT !.status = "idle", !.runs = 0]]
    /\ dir' = IF dir.on THEN Off("stopped") ELSE dir
    /\ upset' = (upset \/ prepared > 0)
    /\ UNCHANGED <<db, daily, prepared>>

------------------------------------------------------------------------------
(* The daily schedule *)

DailyFalls ==
    /\ ~ daily /\ Active = {} /\ ~ dir.on
    /\ daily' = TRUE /\ Spend("days")
    /\ prepared' = 0 /\ upset' = FALSE
    /\ UNCHANGED <<rows, db, dir>>

Blocked == \E a \in Agents : rows[a].status = "error" /\ rows[a].fatal
Unscored == {s \in In(db, {"ready"}) : db.pages[s].score = "none" /\ db.pages[s].tries < MaxRewrites}

\* The agent that continues what is under way, if any: "" is nobody's turn.
Continues ==
    IF Approved(db) # {} THEN "Publisher"
    ELSE IF In(db, {"publishing"}) # {} THEN ""
    ELSE IF Unscored # {} THEN "Content Optimizer" ELSE ""

UnderWay == In(db, {"publishing", "ready"}) # {}

DailyContinues ==
    /\ daily /\ daily' = FALSE
    /\ Blocked \/ UnderWay
    /\ rows' = IF ~ Blocked /\ Continues # "" /\ Ready(Continues) /\ Free(Continues)
               THEN Reserved(Continues, "own") ELSE rows
    /\ UNCHANGED <<db, dir, prepared, upset, left>>

NewBatch == {"Programmatic SEO", "Publisher"} \union ToSet(Layer4)
DailyBatch ==
    /\ daily /\ daily' = FALSE
    /\ ~ Blocked /\ ~ UnderWay
    /\ db' = [db EXCEPT !.one = TRUE]
    /\ rows' = [a \in Agents |-> IF a \in NewBatch \ Active
                                 THEN [rows[a] EXCEPT !.status = "idle", !.runs = 0] ELSE rows[a]]
    /\ dir' = IF dir.on THEN dir ELSE On
    /\ prepared' = 0
    /\ UNCHANGED <<upset, left>>

------------------------------------------------------------------------------
Cycle == Assess \/ Wait \/ EndDone \/ EndError
           \/ \E a \in Agents : Start(a) \/ StartRefused(a) \/ PrereqFailed(a)
Work(a) == Begins(a) \/ Ends(a) \/ Stops(a) \/ Cools(a)
Next == \/ Cycle \/ GiveUp
        \/ \E a \in Agents : Work(a) \/ StartFails(a) \/ Raises(a) \/ Dies(a)
        \/ \E a \in ByHand : StartByHand(a) \/ StopByHand(a)
        \/ \E s \in Slots : Deploys(s) \/ Approve(s) \/ SendBack(s)
        \/ StartDirector \/ StopAll
        \/ DailyFalls \/ DailyContinues \/ DailyBatch

\* The Director's loop goes on, workers take and end their jobs within their
\* time limits, and time passes.
Spec == /\ Init /\ [][Next]_vars
        /\ WF_vars(Cycle)
        /\ \A a \in Agents : WF_vars(Work(a))

------------------------------------------------------------------------------
\* Types; a page is rewritten for its score at most three times in its life
\* (MAX_REWRITES of the Content Optimizer), also after it was sent back.
TypeOK ==
    /\ rows \in [Agents -> Row]
    /\ db \in Db
    /\ dir \in [on: BOOLEAN, plan: Outlook, ended: Endings]
    /\ daily \in BOOLEAN
    /\ prepared \in Nat
    /\ upset \in BOOLEAN
    /\ left \in [{"faults", "moves", "days"} -> Nat]

\* Whatever agents do to pages afterwards, a page that is being published or is
\* shown as published is the text a person approved, with its score.
PublishedAsReviewed == Reviewed(db)

\* The schedule prepares at most one draft a day (docs/DEPLOY_PLATFORM_RELIABILITY.md:71),
\* through the failures, the retries and the deaths of agents, the stops and restarts of
\* agents and of the Director, and the moves of a person before the draft is written.
\* It may be more, and is in the code, when a person starts the writer, or stops
\* everything or sends a page back after the draft is written; and when a run of the
\* writer raises, or stops, after it stored the draft: the Director then runs it again.
OneDraftPerDay == db.one /\ ~ upset => prepared <= 1

\* Whatever agents, reviews, deployments, retries and the schedule do to pages in
\* whichever order, each page lives as PageLife says: only a person approves it,
\* with its score; a change of its text takes approval and score back; no page is
\* dropped; and its rewrites are counted through all reviews (the tags [CO:n] in
\* the notes that review keeps).
Life == INSTANCE PageLife WITH Pages <- Slots, pages <- db.pages
LifeSpec == Life!Spec

\* A Director that runs comes to an end by its own judgement, without the limit
\* of cycles: what cannot go on is told from what is only waiting to be retried.
BatchEnds == dir.on ~> ~ dir.on
=============================================================================
