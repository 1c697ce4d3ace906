------------------------------ MODULE Inventory ------------------------------
(***************************************************************************)
(* The inventory of a client's site,                                       *)
(* denzo/agents/layer1_research/site_inventory.py.  Each job discovers the *)
(* site's urls, or goes on with the list of the job before, reads a batch  *)
(* of them into the table pages, and writes after every few how far it is  *)
(* and whether the site is covered.  Jobs may be stopped or die, and a     *)
(* person may change the client's domain between jobs.                     *)
(***************************************************************************)
EXTENDS Naturals

CONSTANTS Bases,       \* addresses of sites
          MaxUrls,     \* bound: urls of a site; a url is its place in the list
          Batch,       \* urls read by one job
          Every,       \* urls between two reports
          MaxCrashes,  \* bound: jobs that die
          MaxMoves,    \* bound: changes of the domain
          None

VARIABLES base,     \* the client's domain
          report,   \* the output site_inventory, or None
          listed,   \* the output site_inventory_urls, or None
          job,      \* what the running job knows, or None
          pages,    \* the urls that are in the table pages
          left      \* crashes and moves still allowed

vars == <<base, report, listed, job, pages, left>>

Urls == Bases \X (1..MaxUrls)
List == [base : Bases, length : 1..MaxUrls]

\* `blind`, history: it began in the middle of a list that it had just made.
Report == [of : List, next : 0..MaxUrls, complete : BOOLEAN, sitemap : BOOLEAN,
           blind : BOOLEAN]
Job == [of : List, offset : 0..MaxUrls, last : 0..MaxUrls, failed : BOOLEAN,
        sitemap : BOOLEAN, partial : BOOLEAN, blind : BOOLEAN]

\* Bounds are numbers, a job reads something; None is neither a report, nor a list,
\* nor a job.
ConstantsAssumption ==
  /\ MaxUrls \in Nat \ {0} /\ Batch \in Nat \ {0} /\ Every \in Nat \ {0}
  /\ MaxCrashes \in Nat /\ MaxMoves \in Nat
  /\ None \notin Report /\ None \notin List /\ None \notin Job

TypeOK ==
  /\ base \in Bases
  /\ report \in Report \cup {None}
  /\ listed \in List \cup {None}
  /\ job \in Job \cup {None}
  /\ pages \subseteq Urls
  /\ left \in [crashes : 0..MaxCrashes, moves : 0..MaxMoves]

Init ==
  /\ base \in Bases
  /\ report = None
  /\ listed = None
  /\ job = None
  /\ pages = {}
  /\ left = [crashes |-> MaxCrashes, moves |-> MaxMoves]

Continues == report # None /\ report.of.base = base /\ report.next # 0

Resuming == Continues /\ listed # None /\ listed.base = base

\* The place of the report before, unless the list is too short for it.
Offset(length) == IF Continues /\ report.next < length THEN report.next ELSE 0

Started(list, sitemap, partial) ==
  LET offset == Offset(list.length) IN
  [of |-> list, offset |-> offset, failed |-> FALSE,
   last |-> IF offset + Batch < list.length THEN offset + Batch ELSE list.length,
   sitemap |-> sitemap, partial |-> partial,
   blind |-> IF Resuming THEN report.blind ELSE offset # 0]

\* A job goes on with the list that is stored; what was partial stays so.
Resume ==
  /\ job = None
  /\ Resuming
  /\ job' = Started(listed, report.sitemap, ~report.complete)
  /\ UNCHANGED <<base, report, listed, pages, left>>

\* A job discovers the urls: all those of the sitemaps, or of as many as it may
\* read, or those that links lead to.
Discover(length, sitemap, partial) ==
  /\ job = None
  /\ ~Resuming
  /\ listed' = [base |-> base, length |-> length]
  /\ job' = Started(listed', sitemap, partial)
  /\ UNCHANGED <<base, report, pages, left>>

ReportedBatch(j) ==                                      \* mutant
  [of |-> j.of, next |-> IF j.offset < j.of.length THEN j.offset ELSE 0,
   complete |-> j.sitemap /\ ~j.failed /\ j.offset >= j.of.length,
   sitemap |-> j.sitemap, blind |-> j.blind]

\* The state that a report leaves.
Reported(j) ==
  [of |-> j.of, next |-> IF j.offset < j.of.length THEN j.offset ELSE 0,
   complete |-> /\ j.sitemap /\ ~j.failed /\ ~j.partial
                /\ j.offset >= j.of.length,
   sitemap |-> j.sitemap, blind |-> j.blind]

\* A page is fetched and put in the table, or updated there; or it fails.
Read(ok) ==
  /\ job # None
  /\ job.offset < job.last
  /\ job' = [job EXCEPT !.offset = @ + 1, !.failed = @ \/ ~ok]
  /\ pages' = IF ok THEN pages \cup {<<job.of.base, job.offset + 1>>} ELSE pages
  /\ report' = IF job'.offset % Every = 0 THEN Reported(job') ELSE report
  /\ UNCHANGED <<base, listed, left>>

\* The batch is read, or the job was asked to stop.
Finish ==
  /\ job # None
  /\ report' = Reported(job)
  /\ job' = None
  /\ UNCHANGED <<base, listed, pages, left>>

Crash ==
  /\ job # None
  /\ left.crashes > 0
  /\ left' = [left EXCEPT !.crashes = @ - 1]
  /\ job' = None
  /\ UNCHANGED <<base, report, listed, pages>>

\* A person changes the domain of the client; a running job has read it.
Move(to) ==
  /\ to # base
  /\ left.moves > 0
  /\ left' = [left EXCEPT !.moves = @ - 1]
  /\ base' = to
  /\ UNCHANGED <<report, listed, job, pages>>

Next ==
  \/ Resume \/ Finish \/ Crash
  \/ \E length \in 1..MaxUrls, how \in {"sitemaps", "some sitemaps", "links"} :
        Discover(length, how # "links", how = "some sitemaps")
  \/ \E ok \in BOOLEAN : Read(ok)
  \/ \E to \in Bases : Move(to)

Spec == Init /\ [][Next]_vars

-----------------------------------------------------------------------------
\* When the report says that the discovered urls are covered, each of them is in
\* the table pages, whichever batches failed, stopped or died before; unless
\* the domain went away and back while a list was being read (checkpoint in run).
CoverageIsTrue ==
  (report # None /\ report.complete /\ ~report.blind) =>
     \A n \in 1..report.of.length : <<report.of.base, n>> \in pages
=============================================================================
