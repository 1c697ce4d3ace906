# Verification of Denzo SEO

Denzo SEO is a Flask application that runs SEO agents for its clients, publishes the
pages they write and audits web sites on request. Its processes (web, scheduler, RQ
workers, audit workers) share one SQLite database and one Redis queue; nearly all of
its coordination is done by conditional SQL updates in short transactions. This
directory models that coordination in TLA+, checks it with TLC on small instances and
proves the central results with TLAPS.

All paths below are relative to `src/`.

## 1. Inventory

| Component | State | Operations | Hard behaviour | Modules |
|---|---|---|---|---|
| Durable agent jobs: `denzo/execution.py`, `denzo/agents/runner.py`, `denzo/worker.py`, `denzo/runtime_limits.py` | tables `agent_jobs`, `agents.status`, `pipeline_runs`; RQ queues; per process a cancellation token | reserve, enqueue, claim, heartbeat, poll, block, API budget, finish, recover, stop, stop all, cancel children, RQ callbacks | seven writers of one row, crashes between two transactions, lost Redis calls, stale tokens | `AgentJobs`, `JobSlots` |
| Public audit queue: `denzo/auditor/queue.py`, `denzo/auditor/worker.py` | tables `audit_jobs`, `site_audits`, `audit_rate_limits`; a supervised child per worker | enqueue, claim, progress, finish, supervise, kill | leases against deadlines, late children, repeated requests | `AuditQueue` |
| Publication and approval: `denzo/publication.py`, `denzo/editorial.py`, triggers of `denzo/migrations.py`, the two publishers | `publication_attempts`, `pages` | reserve, committed, failed, verify, reconcile, approve, edit | a fetch between two transactions, late results, lost answers, revoked approval, daily quota | `Publication`, `ReviewedPages` |
| Pipeline Director: `denzo/agents/director.py` | the rows of all agents, facts of the tenant | assess, evaluate, start, wait, end | decisions from the rows of one moment, three tries, pauses, restarts | `Pipeline` over `Facts`, `Research`, `Production`, `Monitoring` |
| The agents under it: `denzo/agents/layer*` | pages, keywords, outputs | one run each | what a run may end with, and leave when it fails halfway | `Research`, `Production`, `Monitoring` |
| Daily scheduler: `denzo/scheduler.py` | `schedules` | configure, tick, claim, record | two schedulers, crashes, a change of the user during a run | `Scheduler`; its decision in `Pipeline` |
| Accounts and plans: `denzo/billing/*`, `denzo/routes/billing.py`, limit triggers | `users`, `subscriptions`, `plan_limits` | trial, checkout, webhook, cancel, create and delete clients | a plan that changes between check and insertion; events out of order, twice, lost | `Accounts` |
| Clients and their data: `denzo/routes/clients.py`, `denzo/db.py` | `clients` and every table with `tenant_id` | create, delete | an agent that outlives its client, foreign keys, a slug used again | `Tenants` |
| Publishing credentials: `denzo/crypto.py`, three forms, a script | `client_context` | encrypt, decrypt, save, migrate | one flag for two credentials, processes with and without the key | `Credentials` |
| Google authorisation: `denzo/agents/utils/google_oauth.py`, `denzo/routes/oauth.py` | `oauth_tokens`, the session's nonce | connect, callback, save, refresh, select, disconnect | read and write in two transactions, expiry, revocation, repeated callbacks | `Tokens` |
| Audit analysis: `denzo/auditor/*` | none that lasts | fetch, analyse, score | parts that fail or wait for each other, scores over missing data | `SiteAudit` |
| Browser slot: `denzo/processes.py`, `denzo/auditor/pagespeed_real.py` | lock file, `lighthouse_cache`, child processes | wait, measure, store | killed holders, time limits, a score stored after the lock | `Lighthouse` |
| Site inventory: `denzo/agents/layer1_research/site_inventory.py` | two saved outputs, `pages` | discover, resume, read, report | resumption after stops, crashes and a change of domain | `Inventory` |
| Topics and pages: `add_page`, the clusterer | `topic_map`, `pages` | pass the gates, insert, note the owner, cluster | three transactions beside other agents | `PageIntents` |
| External services, agents outside the pipeline, other routes, WordPress connector, deployment | none of their own that others read | | | no |

How they interact: the web application and the scheduler start agents through
`AgentRunner.start`, which reserves a row of `agent_jobs` and enqueues its id in RQ; an
RQ worker forks a work horse that claims the row and runs the agent. The Director is
itself an agent and starts the others with its own job as their parent; all it knows is
what they write to the database. A publisher agent reserves publication attempts, which
the scheduler's tick later verifies. The audit routes enqueue audits that independent
worker processes claim; those share one browser. Nothing is called back except by RQ
(`job_failed`, `job_stopped`, `handle_work_horse_killed`), Google (the OAuth callback) and
Stripe (the webhook).

What makes each component correct:

* agent jobs: no two active jobs of a tenant are rivals; an outcome is decided once; a
  batch stops as a whole; what a lost worker did is never repeated by itself; every job
  ends; API calls stay within their budget;
* audit queue: a stale worker never overwrites a newer result; one process per audit
  and a shared limit of processes; attempts and hourly requests are bounded; every
  accepted audit ends;
* publication: at most one active attempt per page; a page is shown as published only
  with the approved text of the attempt that was verified; the daily quota holds;
* pipeline: every batch ends by the Director's own judgement; what is published stays
  what was reviewed, whatever agents do later; a scheduled day prepares one draft, unless a person
  or an interrupted run asks for more;
* scheduler: one process runs a schedule at a time; it is paused only for cause and
  otherwise falls due again, whatever ticks die;
* accounts: clients are added only within the plan of that moment; an account has the
  plan it pays for;
* clients: the rows under a slug belong to the client that has it, and a client can be
  deleted;
* credentials and tokens: they read back as entered; a row is one grant;
* audits: a report is true of the site; the score of a page is stable for a day; a site
  reported as covered was read;
* pages: one search intent, one page.

The hazards behind these properties, each at its line, are listed in `PROJECT.json`.

## 2. Modules

| Module | What it is |
|---|---|
| `AgentJobs.tla` | the agent jobs in full detail, their properties and the refinement mapping to `JobSlots` |
| `JobSlots.tla` | abstract specification: slots granted to non-rival jobs, started at most once, never reused |
| `MCAgentJobs.tla`, `MCJobSlots.tla` | instances for TLC: a batch of one tenant; writers of two tenants |
| `AuditQueue.tla`, `MCAuditQueue.tla` | the audit queue, its workers, their children and time; its instance |
| `Publication.tla` | pages, approval, attempts, publishers, verification, and the mapping to `ReviewedPages` |
| `ReviewedPages.tla` | abstract specification: a page is shown as published only approved and seen |
| `MCPublication.tla`, `MCPublishers.tla` | instances for TLC: one kind of publisher; either kind in one run |
| `Facts.tla` | what agents read and write of a tenant: pages, keywords, settings, connections |
| `Research.tla`, `Production.tla`, `Monitoring.tla` | the outcomes of one run of each agent, as operators on facts |
| `Pipeline.tla`, `MCPipeline.tla` | the Director, workers, users and the daily schedule over those operators; three tenants |
| `PageLife.tla` | abstract specification: how the pages of a tenant are planned, written, improved, approved and sent |
| `Scheduler.tla` | schedules, ticks, claims and time |
| `Accounts.tla`, `Tenants.tla`, `Credentials.tla`, `Tokens.tla` | one account; the rows of clients; credentials; Google's tokens |
| `SiteAudit.tla`, `Lighthouse.tla`, `Inventory.tla`, `PageIntents.tla` | an audit and its score; the browser; the inventory; topics and pages |
| `Services.tla`, `MCServices.tla` | the last eight, `Scheduler` and the requests of `AuditQueue`, one at a time, for any constants; their values for TLC |
| `AgentJobs_proofs.tla`, `AgentJobs_custody.tla` | theorems about the agent jobs |
| `AuditQueue_proofs.tla`, `Publication_proofs.tla`, `Scheduler_proofs.tla`, `Pipeline_proofs.tla` | theorems about the module they are named after |
| `Services_accounts.tla`, `Services_audits.tla` | theorems about the parts of `Services` and, from them, about `ServicesSpec` |

Operators marked `mutant` in a module are faulty variants of the definition that
follows them. Nothing in a specification uses them; put in the place of that
definition, each makes the property named in `PROJECT.json` fail.

### AgentJobs

One SQLite transaction is one action, because `BEGIN IMMEDIATE` and the single writer
of SQLite make it so. What a function still has to do after its commit is kept in
`todo[p]`, a sequence of steps in the memory of the process that performs it: `finish`
(`finish_job`), `children` (`cancel_children`), `signal` (the loop of `_request_stop`),
`reset` (the end of `stop_all`), `force` (what Jarvis' reset does after it), `reserve` and `enqueue` (the rest of
`AgentRunner.start`), `close` (the last statement of `execute_job`). Other processes
act between two steps; `ProcessDies` loses all steps of a process at once.

| State | Code |
|---|---|
| `jobs[j]` | a row of `agent_jobs`: status, agent, parent, `cancel_requested`, `retryable`, `api_calls`; `stale` says that its heartbeat or queue time has expired |
| `rows[a]`, `runs[j]` | `agents.status`, `pipeline_runs.status` |
| `rq`, `stopCmds` | entries of the RQ queues, stop commands on their way (external) |
| `phase[p]`, `cur[p]`, `tok[p]` | where a process is in `execute_job`, its job, its `Cancellation` as last polled |
| `died`, `orphaned`, `unsure` | history: jobs whose worker was lost, ended jobs whose pending cancellation of children was lost, jobs Redis took although the call raised |
| `stops`, `faults` | how much of the bounds `MaxStops` and `MaxFaults` is used |

`tok` is what the code knows, not what the database says: `SetStatus` and
`ConsumeApiCall` act on the token, which may lag behind. `PollToken` is the moment it
learns. Time is one bit per job (`Age`): a queued job may expire at any moment, a
running one only when nothing beats for it, or by a fault (a stalled machine, a
heartbeat thread that ended on a database error).

RQ, Redis and the agents' own work are external and modelled from their use: an entry
may be lost, an `enqueue` may raise before or after Redis took the job, a work horse
may die at any point, an agent reports any status in `Reports`, returns or raises.

The limits on queued and running jobs and the closing of runs are in the model; no listed
property states them (the limits are one guard each, and the runs are what `find_run`
is about).

Left out: the thread executor of development; `run_count` and `retry_after` (in
`Pipeline`: the Director is their only reader); `interruptible_wait`. The parent's `deadline_at`
in `reserve_job` is left out, so the Director of the model may reserve after its time
limit, until its token tells it: more behaviours than the code.

### JobSlots

A job holds a slot from its reservation to its end. `Grant` refuses rivals, `Start`
happens at most once, `Release` ends any number of jobs. `SlotsSpec` in `AgentJobs` is
this specification under the mapping `SlotOf`, `LifeOf`: that an RQ entry delivered
twice, late, or after its job ended never starts work is part of it.

### AuditQueue

Each function of `queue.py` is one transaction and one action (`Enqueue`,
`ClaimNothing` and `ClaimOldest`, `ReportProgress`, and `Finish` used by the child and
by its supervisor). The loop of `worker.main` is `sup[w]`: off, starting, watching,
killed. A child process is a member of `kids` and carries what `execute` was given.
Time moves by `Tick`; a lease has 660 seconds and the deadline of a child 600, here
`Lease` and `Deadline` ticks with only `Deadline < Lease` assumed. A lease token is the
number of its attempt, since `claim` draws a new one exactly when it increments
`attempts`.

A supervisor need not be on time. When a tick passes while it starts a child or while
its child is at the deadline, or when it dies and its child lives on, the audit enters
`slipped`: the two properties about simultaneous work (`NoOverlap`, `WorkWithinLimit`)
speak of the other audits; all remaining properties hold for slipped ones too.

Left out: worker heartbeats and `health` (read by a status page), the start-up update
of legacy rows; the analysis itself is `SiteAudit`.

### Publication

One tenant, its pages, its publishers (GitHub's or WordPress', constant `GitHub`) and the
schedulers that reconcile. A text stands for a revision (`revision_hash`): the title,
the content and the other fields of `CONTENT_FIELDS` together; `approved` is
`approval_hash`, `good` is a quality score of 70 or more.

| State | Code |
|---|---|
| `pages`, `attempts`, `manifest` | the tables `pages`, `publication_attempts`, `managed_paths` (GitHub's); `recent` says that an attempt is less than 24 hours old |
| `remote`, `site`, `posts`, `flight` | what the provider stores, what the public URL serves, how many posts exist, requests that raised and may still arrive (external) |
| `pc`, `batch`, `item`, `att`, `known` | where a publisher is in `run()`, the copies it still has to publish, the page it publishes, its attempt, whether its lookup found a post |
| `check`, `sees` | the attempt a process verifies, whether it found the marker: both live between the two transactions of `verify_publication` |
| `editing` | the page a content-writing agent works on |
| `lapsed` | publishers whose job was recovered as lost while they live on |
| `found`, `received`, `erred`, `doubt` | history, for the properties only |

`reserve_publication` is `ReserveRefused`, `AlreadyPublished` or `Reserved`, `committed` is
`Committed` or, when the unique index refuses, `CommitRaises`; `failed` is `Failed`.
`verify_publication` is `BeginCheck`, `FetchFinds` or `FetchMisses`, and `Confirm`, by a
scheduler or by a publisher, and anything may happen between them. `_publish_file`'s GET
and PUT are one action: that the file changes between them is covered by the sha, which
the provider compares (`Arrives`). A request that raises may have arrived, arrive later or
never. `WrittenUnrecorded` is a PUT that succeeded and whose manifest row was not
written, because `db_write` raises `AgentCancelled` inside the same `try`.

That jobs which write content exclude each other is proved of `AgentJobs`; here
`WriterActive` is that exclusion, and a publisher loses it when its job is recovered
(`Lapse`) although it lives on. Only publishers lapse here: a content agent that
outlives its job is stopped by `db_write`.

Left out: `deployment_status`, `publish_ref` and notes; sitemap and llms files; pages with
`managed = 0`; the row WordPress' publisher adds to `managed_paths`; `content_versions` (in `Tenants`).

`ReviewedPages` knows a page's text, whether it is approved, whether it is shown as
published, and what was seen on the site. `Rewrite` maps to `Change`, the verdicts of an
editor to `Review`, a successful fetch to `See`, `Confirm` and `AlreadyPublished` to `Show`,
`Committed` and `Requeue` to `Hide`; everything else stutters.

### Facts, Research, Production, Monitoring, Pipeline

The agents talk through the database. `Facts` reduces what they read of each other to a
record: how many keywords there are (none, at least five, at least ten, and whether one
has high priority), rivals, the bank of queries, gaps, the settings and connections of the
tenant, and its pages, each with its state, whether it was scored and how, whether it is
approved as it is, and how often it was rewritten. The triggers of `denzo/migrations.py`
(revoked approval, archived content, limits of pages and keywords) are part of the
operators that write (`Rewritten`, `Drafts`, `AddsKeywords`).

An agent is one operator: the set of outcomes of a run on the facts, each the status its
row ends with and the facts it leaves, over every answer of a language model or another
service. `run()` has many early returns; each is an element of that set, under its
condition. What the runner makes of the status is `Recorded` in `Pipeline`: a run that leaves
"working" is done, one that says "idle" has failed (`execution.py`, `execute_job`).

`Pipeline` has the Director's look (`Assess`, one read of all rows) and what it does about
it (`Start`, `StartRefused`, `PrereqFailed`, `Wait`, `GiveUp`, `EndDone`, `EndError`) as
separate steps: reviews, workers and the scheduler come in between. Of the runner it has
what the Director depends on: `run_count`, `retry_after` (`cooling`), the verdict that a job
must not be retried (`fatal`), exclusion of content writers, and for each row whose job it has
(`job`: a child of the Director, one on its own, one that was asked to stop). A run that comes to
its own end is `Ends`. One that is cut short has written nothing yet or what it had to
(`CutShort`): it raises (`Raises`, retried after a pause: any exception, such as one of the
log line or the status that follows a stored draft), dies or exceeds its limits (`Dies`, not
retried), or was asked to stop and does (`Stops`); a run that was asked may also have looked for
the last time before, and ends. A run reads the facts at its end, in one step with what it
writes. `StopAll` is `AgentRunner.stop_all`: every job is asked to stop, the rows
without a job become idle with a `run_count` of 0, and a Director that runs ends with the
request (it can reserve no job any more). `StartByHand` and `StopByHand` are a person's start and
stop of one agent, of those in `ByHand`. Leases, queues and tokens are
`AgentJobs`; publication attempts are `Publication`, of which `Deploys` and the outcomes of
`Publisher` are the shadow here. `DailyFalls`, `DailyContinues` and `DailyBatch` are `_run_due`.
Histories: `prepared` counts the drafts since the schedule fell due, or started its batch; `upset`
says that since it fell due one of the causes for a second draft has occurred that section 6 lists.

`PageLife` knows of the pages only: for each its state, score, approval and the number of its
rewrites. A step is one run of an agent, which does one kind of thing to as many pages as it likes
(`Fills`, `Writes`, `Improves`, `Optimizes`, `Sends`), or a deployment, an approval or a page that is sent
back (request of changes, rejection, regeneration: also of a draft, which `transition` allows). Agents,
rows, the Director, limits, keywords and the schedule are gone; what is left is who may do what to
a page in which state, and what it keeps. `Pipeline` implements it with `pages <- db.pages`.

Left out: the three consecutive errors that end a Director, the quality gate and the reset of blocked
publishers (nothing calls them), the plan it asks a model for at the start and never
reads in its decisions, progress messages; Jarvis' reset, which is `stop_all` and then makes the
rows of running jobs idle too (`ForceRows` of `AgentJobs`). A run stopped halfway through several pages has written what some complete run
would have.

### Scheduler

Times are relative to now, so that a due schedule has `due <= 0`; a tick carries the age of
the time it took (`now` in `tick`) and the hour and failure count it read when it claimed.
`Claim` is the transaction that finds the schedule due and moves it a lease ahead;
`Record` is the run of the claimed schedule and the last UPDATE; `Configure` is the form.
Histories: `current` (nobody wrote the row since the claim), `broken` (the lease was
overridden by a person or a late tick), `errors` (errors in a row as anybody counted).

### The services

* `Accounts`: the plan is resolved twice, by `get_user_plan` (`EffectivePlan`) and by the view
  of the triggers (`Permitted`). A request to create a client is checked and inserted in two
  steps. Stripe's side is a set of subscriptions and the events they cause, delivered in any
  order, some twice; the webhook makes sure of the row, then writes it. `muddled` records
  what no handler could repair: a lost event, one older than what was written, two open
  subscriptions.
* `Tenants`: for each slug and each class of tables, the clients its rows were written for.
  The classes are what matters to a deletion: cleared by name, referring to pages, cleared by
  the trigger, removed by cascade. An agent looks for its job, and writes for as long as
  what it saw is less than a quarter of a second old (`sure`).
* `Credentials`: a stored credential counts its layers of encryption. `update_settings` reads
  before its transaction (two steps), `update_client` within it (one).
* `Tokens`: `save_token` is `SaveReads` and `SaveWrites`; agents refresh on expiry and on 401;
  a browser goes through `Connect` and `Callback` under one nonce. What a call writes is what the
  code writes, also when it was overtaken. A history notes the overtaking itself and not what
  comes of it: a call is `outdated` once, while it is under way, another account is connected or
  the row is deleted, or, between its two transactions, a site is selected; the row is `torn`
  once such a call has written it, or a connection without the account's name, until it is
  deleted.
* `SiteAudit`: what an analyser may take off a hundred is a list of sets, one per defect;
  parts may raise, robots.txt, browser and sitemap run on threads. A score is all best or all
  worst per audit, the bound of `Analyze`.
* `Lighthouse`: look in the cache, wait for the lock, look again, measure, give the lock
  back, store; kills at any point.
* `Inventory`: the two saved outputs and the running job's memory; a list is resumed only for
  the same address.
* `PageIntents`: the gates of `add_page`, its insertion and the note of ownership are three
  steps; `Cluster` replaces rows of the topic map at once (the code goes keyword by keyword;
  no property tells the difference, since each keyword's row is judged by itself).
* `Services` puts these eight, the scheduler and the requests of audits side by side: `part` says
  which one a behaviour is about, and their constants stay constants, so that theorems speak of
  all values.

## 3. Runs

| Run | Question | Bounds |
|---|---|---|
| `batch` | does a batch stop as a whole, does every job keep its outcome, are children cancelled and is the retry of a lost job blocked? | a Director and one agent, two jobs, one worker per queue, one caller, one stop, one fault |
| `slots` | exclusion, no row left starting, refinement of `JobSlots` | three writers of two tenants, two jobs, two workers, limits of one, no stop, two faults |
| `live` | does every job end; the agent's row and the API budget | two jobs of one agent that reports every status, budget of one call, one worker, one stop, one fault, fairness |
| `queue` | stale results, overlap, bounded attempts and work, finality; does every audit end? | two audits, two workers, two attempts, lease 2, deadline 1, limit 1, two hours, fairness |
| `publishers` | one attempt in progress, approved text only, the daily limit, no post created twice, refinement of `ReviewedPages` | one page with two texts, two attempts, limit 1, two publishers of either kind, one scheduler, one fault (GitHub) or two (WordPress) |
| `publish_live` | is everything that was sent to GitHub settled? | one page with two texts, two attempts, one publisher, one fault, fairness |
| `pipeline` | does what is published stay reviewed, does a scheduled day prepare one draft, does every batch end? refinement of `PageLife` | three tenants: a new one (one fault, one move of the user), one in review (two moves), one on a schedule (two days); a person starts and stops the writer and Content Optimizer; two pages, plan limit 2, cap 3; fairness |
| `services` | the property of each service | one schedule with two processes, a day of three hours, lease 1; two Google accounts, two agents, two flows; one purchase and four events on two web processes; two clients and one agent; two credentials and two processes; a short and a long page; three audits of one page; two sites of two urls; two agents with one keyword; three requests of two clients over four hours |
| `find_run` | a statement of section 6 | one agent, two workers |
| `find_kept` | a statement of section 6 | one page, two attempts, one publisher, no fault |
| `find_refresh`, `find_delete` | two statements of section 6 | as `services` |

`services` checks the ten parts of `Services`, which share no variable: a behaviour is about
one of them (`part`), the others rest. One run instead of ten keeps the state spaces added, not
multiplied. `publishers` does the same for the two kinds of publisher.

Why these bounds are enough to be interesting. Two jobs are the fewest with which one
can outlive another of the same agent, be the child of another, or compete for a
limit; with a limit of one every refusal occurs. Two faults reach each failure at each
point (a lost process, a lost entry, a silent heartbeat, a failed Redis call) and a
second one during the recovery from the first; the batch has one stop and one fault in
every order. In the audit queue, two of the code's three attempts are enough for a newer
one (the theorems are about any number), two workers suffice to claim what another
holds, and lease 2 over deadline 1 makes the smallest margin; four hours are needed for
counters of the hour before last to be deleted. In publication, two texts and two
attempts are the fewest with which an older revision can be verified, arrive or be
committed after a newer one; two publishers let one that was recovered as lost meet its
successor.

In the pipeline, two pages are the fewest of which one can be published and the other
rejected or exhausted; a plan limit equal to them and a larger cap make both refusals occur;
every tenant starts where a long prefix without choices has brought it, and one fault at any
point reaches each of three tries because failures that the facts force are not counted. The
schedule needs a lease shorter than a tick may take (`MaxAge` 2) for a late tick to exist.
Two accounts and two flows let a refresh of one meet the connection of the other; four
events allow a purchase (two events) and its change or end (a second purchase needs its own
two events, so that within four the first one is still open, which `PaidIsServed` excepts;
`PaidHolds` is about any number). Two agents of Google refresh at the same time, and one may
be overtaken by a connection while the other is not. Three audits let one measure while
another stores and a third looks. Larger values are covered by the theorems where there is
one.

Deadlock is checked in every run but `pipeline` and `services`: a batch may be over with
the user's moves used up, and an audit or a set of requests ends. Symmetry (over jobs,
workers, publishers' attempts) is used in runs that check safety only, and in
`publishers` with a refinement whose mapping is symmetric.

Fairness. `live`: a process that lives takes its next step (weak), an agent's `run()`
ends (strong, because of polls in between: RQ's hard timeout and the token's deadline
see to it), an active job without a beating process ages, and some process calls
`recover_expired_jobs` again and again (strong; the scheduler's tick, every minute, each
reservation and each start of the web process do). Nothing forces a queued job to be
taken, nor a heartbeat to beat. `queue`: time passes, a worker that lives goes on,
and some worker that is off polls the queue (systemd restarts them). Nothing forces a
child to finish, nor prevents workers from dying for ever. `publish_live`: what GitHub
stores is deployed in the end (weak); the scheduler's tick verifies each attempt in
progress again and again and, again and again while the marker is on the page, the fetch
finds it (strong: single fetches may fail); an attempt whose marker was found is
confirmed. Publishers, editors and agents need do nothing. `pipeline`: the Director's loop
goes on, a reserved job is taken and its run ends (`JobsEnd` is why), and pauses pass;
nothing forces a review, a deployment, a schedule or a restart. `services`: time passes and
the loop of each scheduler process goes on, for the schedule only (`main` catches every
exception, systemd restarts the process); crashes are bounded.

## 4. What is proved

For every value of the constants: any number of agents, workers, callers, faults, stops,
audits, pages, attempts, tenants, clients and events, any `Deadline < Lease`, any length of the
day and of a lease, any limits. The assumptions are named in the modules that declare the
constants, and TLC evaluates them in every run: `ConstantsAssumption` (of `AgentJobs` and
of each service), `AuditAssumption`, `PublicationAssumption`, `SchedulerAssumption`, `FactsAssumption`
say that bounds and limits are numbers, that `None` is no other value, that workers and
callers are different processes; `BeginningsAssumption` that the history of a tenant before
the first step of `Pipeline` kept to the rules of the steps (a new tenant has no pages);
`ByHandAssumption` that who is started or stopped by hand is an agent;
`ServicesAssumption` that the assumptions of all parts hold. Every safety property that a
run checks is a theorem, and so are the three refinements. The types of `Publication`, `Scheduler`
and `Pipeline` are theorems that no run lists.

`AgentJobs_proofs`:

* `TypeCorrect`: `Spec => []TypeOK`. The conjuncts on `todo` and on `cur` are needed by
  all other proofs: a step names jobs and agents that exist.
* `ExclusionHolds`: `Spec => []Exclusion`. Inductive once types are known: only a
  reservation makes a job active, and its guard is the absence of rivals.
* `EndedStaysFinal`: `Spec => EndedIsFinal`.
* `StartingIsBacked` (`[]StartingHasJob`): a row that says starting has an active job. Every
  writer of a row and every end of a job is a lemma: what ends a queued job writes its row in
  the same transaction.
* `ImplementsSlots`: `Spec => SlotsSpec`. One lemma per kind of step: reservation maps to
  `Grant`, claim to `Start`, finishing and recovery to `Release`, all others stutter.

`AgentJobs_custody`. The three properties about batches and lost workers are far from
inductive: they need to know who may still do what with a job.

* `CustodyKept` (`[]Kept`). `Custody`: the licence to execute a job is with the one process that has
  still to enqueue it, or in RQ, or with one worker (`EnqueueAlone`, `QueuedAlone`, `HeldAlone`),
  and a `finish_job` still to come is that of the holder, or of a starter whose enqueue raised
  (`FinishOwned`); `HeadOnly` says where in `todo` such steps can be. `KinJobs`, `KinSteps`: a child has
  the tenant of its parent, is no Director, and its parent was claimed.
* `BatchesStopJointly` (`[]StopIsJoint`), from the kinship alone: a stop of a Director marks its
  children in the same transaction, and later reservations see the mark.
* `DeathsBlockRetry` (`[]DeathBlocksRetry`): the worker that died was the only holder, so what ends
  its job is a recovery or a callback, and both forbid the retry.
* `BatchesSwept`: whoever has still to end a Director as failed or cancelled has the sweep of its
  children behind that step (`FinishThenSweep`), and an ended Director is swept or somebody owes
  the sweep (`BatchSwept`). From both, `ChildrenAreCancelled` (`[]ChildrenCancelled`).

`AuditQueue_proofs`:

* `TypeCorrect`, and `ReportsAgree` (`[]ReportAgrees`), inductive given the types.
* `NoOverlapHolds` (`[]NoOverlap`). Not inductive as it stands: nothing in it says why a
  lapsed lease has no child. The strengthening `TimingInv` has four parts: an attempt
  a supervisor has is at most the row's (`SupInv`) and has one supervisor (`TokenInv`);
  an attempt about to start, unless slipped, has a full lease and no child (`StartInv`);
  a child of an audit that did not slip is watched by its supervisor, belongs to the
  running attempt, and has strictly more ticks of lease than of deadline left
  (`KidInv`). `Tick` preserves the last because a child at its deadline makes the tick
  late. `HeldNotLapsed` concludes that what a claim takes has no timely child.
* `WorkStaysWithinLimit`: leases never outnumber the limit (`LeasesInv`) and timely
  children map one to one to leases.
* `EndedStaysFinal`: needs that a row which does not run has no lease (`LeaseInv`), or
  time would still change it.
* `RatesHold` (`[]RateHolds`). `RateInv`: what a client asked for in an hour never outnumbers the
  limit and, while the counter of that hour is kept, never what it counts; a counter is
  deleted only when no request can be counted in its hour any more.

`Publication_proofs`. Four lemmas first say which steps touch which table, so that each
proof looks at those only; `AttemptsStep` also shows that a reserved attempt keeps its
page and text (`Kept`), on which everything that outlives a step rests.

* `TypeCorrect`: its conjunct that an approval is that of the current text is the trigger
  `revoke_changed_approval` as an invariant.
* `PublishedWasFoundHolds`: not inductive alone. `FoundInv` adds that a published attempt,
  and one whose marker a process has just seen, was found; `found` only grows.
* `ImplementsReviewedPages`: `Spec => ReviewSpec`, from the same invariant.
* `OneInProgressHolds`: `Reserved` and `Committed` are the only ways into progress, guarded by
  the query and by the index.
* `SendsApproved`: with `AloneInv` (a publisher with its job keeps editors and writers out)
  approvals cannot change between reservation and write (`ApprovalsStay`).
* `QuotaHolds`: `ErredInv` (an attempt in error is remembered as such) makes every other
  step count no more than before.
* `CreatedOnceHolds` (`[]CreatedOnce`). While nothing is in doubt, `PostInv` says that one publisher
  is at work (`OneWriter`); that a request for a new post that may still arrive keeps its
  attempt in progress, so that nobody reserves the page again, and is the only one
  (`FlightInv`); and that what a lookup said is still true, or the page is occupied
  (`LookInv`). Doubt only grows, so that the proof looks at steps that end without any.

`Pipeline_proofs`. Each of the 29 agents is an operator from facts to outcomes, so that a lemma
about an agent (`ResearchKept`, `PlanningHarmless`, `PublisherHarmless`, ...) is a lemma about every
run of it; `AnyRun` collects them, and the steps of the Director, of users and of the schedule
are lemmas of their own.

* `PipelineTyped` (`[]TypeOK`): the facts stay facts, whatever runs.
* `ReviewHolds` (`[]PublishedAsReviewed`). Inductive with the types, because each agent keeps it on its
  own: what changes the text of a published page takes it back to ready, and nothing sends what is
  not approved.
* `OneDraftHolds` (`[]OneDraftPerDay`). `BatchInv` adds why a second draft cannot follow, while nothing
  upset the day: a Director that is about to start the writer found its row idle or in error; on
  a scheduled tenant, once a draft was written, the writer's row is at an end and the Director's
  next step is another. A step that could undo this (`StopAll`, `SendBack`, a start by hand, a run
  that is cut short after its draft and may be run again) is `WriterUpset`: the proof must find it
  among the causes that `upset` records. The agents a person starts or stops are any subset
  (`ByHandAssumption`).
* `ImplementsPageLife`: `Spec => LifeSpec`. `RunsLive` says of each agent which one kind of change
  its run makes to pages (`Lives`), `PersonLives` maps reviews and deployments; everything else
  stutters. It needs the types, for the pages of an outcome to be pages.

`Scheduler_proofs`:

* `TypeCorrect`, with `AtMostTwo`: a schedule that is on, and a tick that claimed, has counted
  at most two errors; else `Record` could count a fourth.
* `ClaimIsExclusiveHolds` (`[]ClaimIsExclusive`). Not inductive alone: nothing in it says why a
  second claim finds the schedule not due. `LeaseHeld` says that a claimed tick that is
  neither late nor overtaken keeps the schedule at least the rest of its lease in the
  future; a claim needs `due <= -age`.
* `PausedForCauseHolds`: `ErrorsCounted` ties the count in the row and in ticks nobody has
  overtaken to the history `errors`.
* `DisabledStaysHolds`: `[][~enabled /\ enabled' => a change of a person]`, from the
  condition `enabled=1` of the last UPDATE. No run lists it: it needs no state beside the guard.

`Services_accounts` and `Services_audits` prove each part from its own specification; `PartsRun`
(`ServicesSpec` implies the specification of every part) and temporal logic carry the results over.

* `PlanHolds` (`ClientsWithinPlan`). `AccountSamePlan` compares the plan that the trigger resolves with
  that of `get_user_plan`, case by case, for every row that can be stored; which rows can be
  needs `AccountUpdatedExists` (an event updates a row only when there is one) and the types
  of all that Stripe may send.
* `PaidHolds` (`[]PaidIsServed`). `AccountPaidInv`: while nothing is muddled, one subscription is open,
  every event sent was handled or is pending, the latest tells what Stripe has, and once it
  was handled the row says so.
* `GrantsHold` (`[]RowIsOneGrant`). `torn` says only that an overtaken call has written, so the proof has
  to show that every other write keeps the row whole. `TokenCallsCurrent` is why: a refresh that
  is not outdated works for the account of the row, and what a save that is not outdated has read
  agrees with the row in account, name and site, whatever other calls have written meanwhile.
* `CredentialsHold` (`[]CredentialsReadBack`). Not inductive: it speaks of the processes that have the
  key, and one may get it later. `CredentialKept` says instead what is stored: the credential
  entered last, plain, or encrypted once in a row that says so.
* `RowsStayOwn` (`[]RowsAreOwn`). Rows come in three ways, each a lemma: of a new client, whose slug
  had none (`TenantInsertedKeeps`); of the client that has the slug (`TenantOwnRowKeeps`); of an
  agent's client, noted as late when it has gone (`TenantAgentRowKeeps`). `TenantDeleteKeeps` is
  where the tables count: the lists that are cleared, the trigger's and those of ON DELETE
  CASCADE together are all tables.
* `IntentsHold` (`OneIntentOnePage`), from three facts: a page has an owner noted, or about to be
  noted, or lost (`IntentPagesAreOwned`); two that add at the same time know of each other
  (`IntentRivalsAreCrossed`); who passed and knows of nobody found no page
  (`IntentPassedFoundNone`).
* `ScoreIsStable` (`StableScore`): the lock is held by who says so (`BrowserLockHeld`), and an audit
  that nobody crossed measures and stores alone, with no score stored (`BrowserAloneUncrossed`).
* `CoverageHolds` (`[]CoverageIsTrue`): a job's list, what it has read of it and what it reported
  agree (`InventoryIInv`).
* `RatesStayWithinLimit`: the argument of `RatesHold`, for the requests alone.
* `ReportsHold` (`[]ReportIsTrue`). `SiteReadingInv` and `SiteSitesInv` say in which order ways and parts
  are tried. The rest is arithmetic for every page: `SiteTotals` and `SiteScores` (what an
  analyser's deductions leave is a score), `SiteOverallBounds` (a rounded weighted mean lies
  between any bounds of what it weighs) and `SiteScoredTrue` (complete exactly when the required
  weights sum up). Deductions are summed by a recursive function; that it is one
  (`SiteSumsDefined`), and what it yields, is proved by induction. The library's induction
  theorems take an operator that the provers cannot instantiate, so `SetInduction` states the
  principle for sets, and is itself proved from the pigeonhole theorem on finite sets.
* `ServicesTyped` (`[]TypesOK`).

Only model-checked: liveness (`JobsEnd`, `AuditsEnd`, `AwaitedIsSettled`, `BatchEnds`,
`EnabledReturns`), since fairness and ENABLED are beyond the prover. The statements of section 6
are violated by the model, and no theorem is about them. No module declares a RECURSIVE operator.

## 5. Properties and the hazards they are for

`PROJECT.json` relates each hazard to its properties, and each property of a passing
run to a plausible bug that breaks it. In short: `EndedIsFinal` is about who decides
first among worker, callback, recovery and stop; `ChildrenCancelled` and `StopIsJoint`
about batches under crashes; `DeathBlocksRetry` about the race between the callback and
recovery; `NoOverlap` about the margin between deadline and lease; `RateHolds` about the
hour that is read before the lock is taken; `PublishedWasFound` and `ReviewSpec` about what
happens between the fetch of a page and the transaction that believes it;
`SendsWhatIsApproved` about reviews and rewrites between rendering and sending;
`CreatedOnce` about a creation whose answer was lost; `AwaitedIsSettled` about requests
that arrive late and pages that change while they are awaited.

Of the newer ones: `PublishedAsReviewed` is about agents that rewrite pages after their
review; `LifeSpec` about what no order of agents and reviews may do to a page, and the rewrites
that a tag in its notes counts; `OneDraftPerDay` about a schedule that resets agents of a batch with retries under
way; `BatchEnds` about the rows that change between the Director's look and its step;
`ClaimIsExclusive`, `PausedForCause` and `EnabledReturns` about ticks that are late, die, or
write what they read long ago; `ClientsWithinPlan` and `PaidIsServed` about a plan resolved in
two languages and events in any order; `RowsAreOwn` about an agent that outlives its client;
`CredentialsReadBack` about four writers of one flag; `RowIsOneGrant` about refreshes that
meet each other, a revocation or a reconnection of the same account, and about what is
preserved for the next one; `ReportIsTrue` about parts that fail or wait; `StableScore` about what
the lock does not cover; `CoverageIsTrue` about resumed lists; `OneIntentOnePage` about gates
that look before they insert.

Some exceptions are written into properties because the code has them: a crash between
the commit of a recovery and its `cancel_children` leaves children without a
cancellation request (`orphaned` in `ChildrenCancelled`), and a job whose `enqueue` raised
after Redis took it may run (`unsure`); an attempt marked as error that a verification
under way finds after all counts beyond the daily limit (`erred` in `WithinQuota`); a
WordPress publisher that was recovered as lost and lives on, or an error status for a
post that was written, may lead to a second creation (`doubt` in `CreatedOnce`); a
publisher recovered between its last check and its write sends what may no longer be
approved (`lapsed` in `SendsWhatIsApproved`); a tick that takes longer than its lease, or is
written over, may run a schedule beside another (`Late`).

Where the exception is the hazard itself, the property does not catch it; what is left
is that nothing else goes wrong:

* `PaidIsServed` (`muddled`): lost events, events older than what was written and two open
  subscriptions leave a wrong plan, and no handler could know. It is about events that are
  repeated, late or handled by another process, but in order.
* `RowsAreOwn` (`late`): an agent of a deleted client writes for a quarter of a second more. It
  is about which tables a deletion clears, and in which order. Nor is that one write more of a
  cancelled job against `StopIsJoint`, which is about who is asked to stop.
* `OneIntentOnePage` (`crossed`, `lost`): two agents between gate and note add two pages, and a
  re-clustered keyword forgets its page. It is about everything that is not such a race.
* `RowIsOneGrant` (`torn`): see section 6. It excepts a row from the write of an overtaken call
  until the row is deleted, by the cause, not by what the write did.
* `CredentialsReadBack` (`torn`): a form that read before another one wrote puts the older
  credential back.
* `NoOverlap`, `WorkWithinLimit` (`slipped`): an audit whose supervision was late or lost.
  `ReportAgrees` holds for it too.
* `CoverageIsTrue` (`blind`): a domain that went away and came back between two batches.
* `StableScore` (`crossed`): an audit that looked while another had measured and not yet stored.
* `OneDraftPerDay` (`upset`): see section 6.

## 6. Disagreements between the code and what is said of it

* `find_run`: `docs/AGENT_RUNTIME_LIMITS.md:10` says a late worker cannot overwrite a job
  that already ended. The job's row is protected; the row of its run is not
  (`denzo/execution.py:387`).
* `find_kept`: `docs/AGENT_RUNTIME_LIMITS.md:40` says reservations are kept to verify whether
  GitHub completed the publication. GitHub's publisher marks an attempt as error after
  any exception around the PUT (`denzo/agents/layer4_publishing/github_publisher.py:353`),
  also when only the row of the manifest could not be written. The next run then takes
  DENZO's own file for the client's (`github_publisher.py:235`).
* `find_refresh`: `denzo/agents/utils/google_oauth.py:123` says the existing refresh token is
  preserved. It is encrypted once more (`google_oauth.py:126-139`): with a key configured, the
  refresh after the next expiry sends Google a ciphertext.
* `find_delete`: `denzo/routes/clients.py:732` says all related data is deleted. `pages` is
  cleared before `content_versions`, which refers to it with foreign keys on: a client one of
  whose pages was rewritten cannot be deleted.

Seen while modelling, without a run of their own:

* `docs/DEPLOY_PLATFORM_RELIABILITY.md:71` says a daily run prepares one draft at most. The code may
  prepare a second one the same day, and `OneDraftPerDay` names when. The first draft is
  stored and the run of the writer then raises or is stopped (`programmatic_seo.py:421-427`:
  its log lines, its result and its last status are writes that may raise): its row is in error,
  or idle, and the Director, or the one a person starts, runs it again. Everything is stopped
  after the draft (`stop_all`, `denzo/agents/runner.py:173`, forgets that the writer was done) and
  the pipeline started again, or the page is sent back and written anew together with the
  others. A person starts the writer.
* A refresh of Google's token that is under way while another account is connected reads the
  new row in `save_token` (`denzo/agents/utils/google_oauth.py:116`) and writes the old account's access
  token beside the new refresh token and name, until the next refresh; one that is overtaken by
  `disconnect` writes the row anew, without a refresh token if it read the row only afterwards. No
  document speaks of it.
* The comment at `denzo/db.py:391` says the topic map enforces one page per keyword at database
  level. It keeps one owner per keyword; a second page is inserted in another transaction
  (`denzo/agents/base_agent.py:562`), between gate and note.
* `docs/DEPLOY_PLATFORM_RELIABILITY.md:13` says a page becomes published only when the marker of
  its revision is found on the public URL; for a revision published before,
  `reserve_publication` does not look (`denzo/publication.py:29`). That it was found at some time
  is what `PublishedWasFound` says and the theorem proves.
* `docs/AGENT_RUNTIME_LIMITS.md:9` says the Director waits between tries. It does in the content
  stages; an agent of a later stage that cools down does not keep it from ending as done
  (`denzo/agents/director.py:426`).
* The comment at `denzo/auditor/analyzer.py:131` speaks of the scores of a page that a script
  fills; only the technical one is withheld.
* An inventory that takes more than one batch is never reported as complete: a resumed job
  takes over that the report before was not (`Resume`).
* Programmatic SEO ends "idle" when there is no draft, which the runner records as an error:
  on a scheduled tenant without drafts left, the Director fails every day.
* On a plan whose page limit is below what E-E-A-T Architect plans, the trigger `limit_pages`
  ends its three tries in errors, and with them the batch.
* A page that Content Optimizer gave up stays ready and unscored, and the schedule waits for its
  review for ever.

## 7. Not modelled, and why

* Texts, prompts, HTML, wording and layout: no property of this code is about them, and the
  answers of models and services are any answer.
* `denzo/agents/utils/` but for Google's tokens: requests that return data or nothing, without
  state.
* Agents that the Director never starts (GBP Autopilot, Video Engine, Content Freshness; the
  unregistered `technical_auditor.py` and `nextjs_renderer.py`): their jobs are those of
  `AgentJobs`, their results are read by no other component.
* Sessions, passwords, sign-in; rendering; forms that change one row nobody else reads.
* A change or a loss of the encryption key: the code offers no rotation.
* Several tenants in `Pipeline`: they share the limits of jobs only (`AgentJobs`, `slots`).
* Liveness as theorems: out of the prover's reach, see section 4.

## 8. Plan

Done: all modules of section 2, their runs, and the proofs of section 4. What is left, in
order of worth:

1. The measures behind the liveness properties (tries, attempts and retries left) as action
   properties, which are within the prover's reach although the liveness is not.
2. `Publication` and `Pipeline` composed on one set of pages; so far each has its abstract
   specification of a page's life, `ReviewedPages` and `PageLife`.
