------------------------------ MODULE Services ------------------------------
(***************************************************************************)
(* The services around the pipeline, one at a time: `part` says which one  *)
(* a behaviour is about, and the others rest in an initial state.  They    *)
(* share no variable; one run checks them all, and one theorem speaks of   *)
(* each.  The part "schedule" is the module that this one extends, so that *)
(* its properties keep their names.                                        *)
(***************************************************************************)
EXTENDS Scheduler, FiniteSets

CONSTANTS
  None,            \* NULL, no row, not measured
  Webs,            \* web processes
  Agents,          \* agents that add pages
  Workers,         \* agents that write rows of a client
  GoogleUsers,     \* agents that call Google
  GoogleAccounts,  \* Google accounts, each with a site of its own
  Flows,           \* authorisations that a browser begins
  MaxLayers,       \* bound: layers of encryption
  MaxTurns,        \* bound: disconnections, selections, expiries, revocations
  PlanLimits,      \* max_clients of each plan; agency is a larger pro
  MaxPurchases,    \* bound: subscriptions bought
  MaxEvents,       \* bound: events Stripe sends
  MaxFailures,     \* bound: handlers that fail, duplicated deliveries
  Suffixes,        \* suffixes of a slug
  MaxTenants,      \* bound: clients created
  Kinds,           \* github_token and wp_app_password
  Secrets,         \* what a person may enter
  MaxForms,        \* bound: forms sent
  PageWords,       \* lengths a page may have, in words
  ListItems,       \* list items it may have
  Fragile,         \* bound: the analysers of the text that may raise
  Audits,          \* audits of a page, requests of one
  Measures,        \* scores a browser may measure
  MaxKills,        \* bound: processes killed while their browser runs
  Bases,           \* addresses of sites
  MaxUrls,         \* bound: urls of a site
  Batch,           \* urls read by one job
  Every,           \* urls between two reports
  MaxJobDeaths,    \* bound: jobs that die
  MaxMoves,        \* bound: changes of the domain
  Keywords,
  Paths,           \* slugs of pages
  MaxClusters,     \* bound: runs of the clusterer
  MaxDeaths,       \* bound: agents that die while they add a page
  AuditUrls,
  Callers,         \* what the rate limit counts by: an address, or "service"
  MaxRunning, MaxAttempts, AuditLease, Deadline,   \* of AuditQueue
  Limit,           \* AUDIT_RATE_LIMIT_PER_HOUR
  MaxHour          \* bound: the last hour of a behaviour

VARIABLES part,
  tRow, tNonce, tBegun, tCalls, tRevoked, tTurns, tChosen, tTorn, tSaved,
  aUser, aSub, aClients, aPassed, aStripe, aEvents, aSent, aHooks, aFailures,
  aLast, aMuddled,
  nClient, nRows, nWork, nCreated, nRefused, nLate,
  kRow, kKey, kKeyed, kForm, kScript, kForms, kEntered, kTorn,
  rPage, rStage, rFetch, rScores, rPool, rReport,
  lAudit, lLock, lCache, lBrowsers, lOrphans,
  vBase, vReport, vListed, vJob, vPages, vLeft,
  pTopics, pPages, pKnown, pAdding, pLost, pLeft,
  qJobs, qReports, qCounts, qHour, qSup, qKids, qSlipped

Tokens == INSTANCE Tokens WITH
  Accounts <- GoogleAccounts, Users <- GoogleUsers, row <- tRow, nonce <- tNonce,
  begun <- tBegun, calls <- tCalls, revoked <- tRevoked, turns <- tTurns,
  chosen <- tChosen, torn <- tTorn, saved <- tSaved

Accounts == INSTANCE Accounts WITH
  MaxClients <- PlanLimits, user <- aUser, sub <- aSub, clients <- aClients,
  passed <- aPassed, stripe <- aStripe, events <- aEvents, sent <- aSent, hooks <- aHooks,
  failures <- aFailures, last <- aLast, muddled <- aMuddled

Tenants == INSTANCE Tenants WITH
  MaxClients <- MaxTenants, client <- nClient, rows <- nRows,
  work <- nWork, created <- nCreated, refused <- nRefused, late <- nLate

Credentials == INSTANCE Credentials WITH
  Values <- Secrets, Procs <- Webs, row <- kRow, key <- kKey, keyed <- kKeyed,
  form <- kForm, script <- kScript, forms <- kForms, entered <- kEntered, torn <- kTorn

SiteAudit == INSTANCE SiteAudit WITH
  Words <- PageWords, Items <- ListItems, page <- rPage, stage <- rStage, fetch <- rFetch,
  scores <- rScores, pool <- rPool, report <- rReport

Lighthouse == INSTANCE Lighthouse WITH
  Results <- Measures, audit <- lAudit, lock <- lLock, cache <- lCache,
  browsers <- lBrowsers, orphans <- lOrphans

Inventory == INSTANCE Inventory WITH
  MaxCrashes <- MaxJobDeaths, base <- vBase, report <- vReport, listed <- vListed,
  job <- vJob, pages <- vPages, left <- vLeft

PageIntents == INSTANCE PageIntents WITH
  Slugs <- Paths, topics <- pTopics, pages <- pPages, known <- pKnown,
  adding <- pAdding, lost <- pLost, left <- pLeft

\* Requests of audits; no worker takes one.
Requests == INSTANCE AuditQueue WITH
  Urls <- AuditUrls, Clients <- Callers, Workers <- {}, Lease <- AuditLease, jobs <- qJobs,
  reports <- qReports, counts <- qCounts, hour <- qHour, sup <- qSup, kids <- qKids,
  slipped <- qSlipped

\* The parts make their own assumptions; requests are counted by client and hour.
ASSUME ServicesAssumption ==
  /\ Tokens!ConstantsAssumption /\ Accounts!ConstantsAssumption
  /\ Tenants!ConstantsAssumption /\ Credentials!ConstantsAssumption
  /\ Lighthouse!ConstantsAssumption /\ Inventory!ConstantsAssumption
  /\ SiteAudit!ConstantsAssumption /\ PageIntents!ConstantsAssumption
  /\ IsFiniteSet(Audits) /\ None \notin Callers
  /\ MaxAttempts \in Nat /\ AuditLease \in Nat /\ Limit \in Nat /\ MaxHour \in Nat

-----------------------------------------------------------------------------
tVars == <<tRow, tNonce, tBegun, tCalls, tRevoked, tTurns, tChosen, tTorn, tSaved>>
aVars == <<aUser, aSub, aClients, aPassed, aStripe, aEvents, aSent, aHooks, aFailures,
           aLast, aMuddled>>
nVars == <<nClient, nRows, nWork, nCreated, nRefused, nLate>>
kVars == <<kRow, kKey, kKeyed, kForm, kScript, kForms, kEntered, kTorn>>
rVars == <<rPage, rStage, rFetch, rScores, rPool, rReport>>
lVars == <<lAudit, lLock, lCache, lBrowsers, lOrphans>>
vVars == <<vBase, vReport, vListed, vJob, vPages, vLeft>>
pVars == <<pTopics, pPages, pKnown, pAdding, pLost, pLeft>>
qVars == <<qJobs, qReports, qCounts, qHour, qSup, qKids, qSlipped>>
allVars == <<part, vars, tVars, aVars, nVars, kVars, rVars, lVars, vVars, pVars, qVars>>

\* A part that is not the subject of the behaviour has one initial state.
InitialPage == CHOOSE page \in SiteAudit!Page : TRUE
FirstBase == CHOOSE base \in Bases : TRUE
Resting ==
  /\ part # "credentials" => kRow = None /\ kKey = FALSE
  /\ part # "audit" => rPage = InitialPage /\ rFetch.open = {}
  /\ part # "inventory" => vBase = FirstBase

ServicesInit ==
  /\ part \in {"schedule", "tokens", "accounts", "tenants", "credentials", "audit",
               "browser", "inventory", "intents", "requests"}
  /\ Init /\ Tokens!Init /\ Accounts!Init /\ Tenants!Init /\ Credentials!Init
  /\ SiteAudit!Init /\ Lighthouse!Init /\ Inventory!Init /\ PageIntents!Init
  /\ Requests!Init
  /\ Resting

ServicesNext ==
  \/ /\ part = "schedule" /\ Next
     /\ UNCHANGED <<part, tVars, aVars, nVars, kVars, rVars, lVars, vVars, pVars, qVars>>
  \/ /\ part = "tokens" /\ Tokens!Next
     /\ UNCHANGED <<part, vars, aVars, nVars, kVars, rVars, lVars, vVars, pVars, qVars>>
  \/ /\ part = "accounts" /\ Accounts!Next
     /\ UNCHANGED <<part, vars, tVars, nVars, kVars, rVars, lVars, vVars, pVars, qVars>>
  \/ /\ part = "tenants" /\ Tenants!Next
     /\ UNCHANGED <<part, vars, tVars, aVars, kVars, rVars, lVars, vVars, pVars, qVars>>
  \/ /\ part = "credentials" /\ Credentials!Next
     /\ UNCHANGED <<part, vars, tVars, aVars, nVars, rVars, lVars, vVars, pVars, qVars>>
  \/ /\ part = "audit" /\ SiteAudit!Next
     /\ UNCHANGED <<part, vars, tVars, aVars, nVars, kVars, lVars, vVars, pVars, qVars>>
  \/ /\ part = "browser" /\ Lighthouse!Next
     /\ UNCHANGED <<part, vars, tVars, aVars, nVars, kVars, rVars, vVars, pVars, qVars>>
  \/ /\ part = "inventory" /\ Inventory!Next
     /\ UNCHANGED <<part, vars, tVars, aVars, nVars, kVars, rVars, lVars, pVars, qVars>>
  \/ /\ part = "intents" /\ PageIntents!Next
     /\ UNCHANGED <<part, vars, tVars, aVars, nVars, kVars, rVars, lVars, vVars, qVars>>
  \/ /\ part = "requests" /\ Requests!Next
     /\ UNCHANGED <<part, vars, tVars, aVars, nVars, kVars, rVars, lVars, vVars, pVars>>

(* The fairness of the scheduler, when the behaviour is about it. *)
ServicesFairness ==
  /\ WF_vars(part = "schedule" /\ Time)
  /\ \A p \in Procs : WF_vars(part = "schedule" /\ Work(p))

ServicesSpec == ServicesInit /\ [][ServicesNext]_allVars /\ ServicesFairness

-----------------------------------------------------------------------------
\* The state of every service is well typed.
TypesOK ==
  /\ TypeOK /\ Tokens!TypeOK /\ Accounts!TypeOK /\ Tenants!TypeOK /\ Credentials!TypeOK
  /\ SiteAudit!TypeOK /\ Lighthouse!TypeOK /\ Inventory!TypeOK /\ PageIntents!TypeOK

\* Tokens, name and site of an authorisation belong together (google_oauth.py), and
\* no flow saves twice (routes/oauth.py).
RowIsOneGrant == Tokens!RowIsOneGrant /\ Tokens!FlowsSaveOnce

\* A stored refresh token is one that Google knows (google_oauth.py:123).
RefreshTokenKept == Tokens!RefreshTokenKept

\* Clients are added within the plan of the account (migrations.py, enforce.py).
ClientsWithinPlan == Accounts!ClientsWithinPlan

\* An account has the plan that it pays for (routes/billing.py).
PaidIsServed == Accounts!PaidIsServed

\* A client does not see the rows of a deleted one (db.py, clients.py).
RowsAreOwn == Tenants!RowsAreOwn

\* A client whose deletion is asked for is deleted (clients.py:732).
DeletionSucceeds == Tenants!DeletionSucceeds

\* Credentials are read as they were entered (crypto.py, clients.py, lite.py).
CredentialsReadBack == Credentials!CredentialsReadBack

\* Score, completeness and sitemap of a report are true (analyzer.py, scoring.py).
ReportIsTrue == SiteAudit!ReportIsTrue

\* The measured score of a page is stable for a day (pagespeed_real.py), and one
\* browser measures at a time (processes.py).
StableScore == []Lighthouse!OneBrowser /\ Lighthouse!StableScore

\* A site reported as covered is in the table pages (site_inventory.py).
CoverageIsTrue == Inventory!CoverageIsTrue

\* One search intent, one page (base_agent.py, add_page).
OneIntentOnePage == PageIntents!OneIntentOnePage

\* No client of the auditor passes its hourly limit (auditor/queue.py).
RateHolds == Requests!RateHolds
=============================================================================
